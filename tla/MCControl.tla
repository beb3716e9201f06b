------------------------------ MODULE MCControl ------------------------------
(***************************************************************************)
(* One model for four parts that do not interact: the control of a remote  *)
(* apply, the readers of its progress, the plan a data plane reviews       *)
(* before it applies, and the storage schema every server ensures at its   *)
(* start.  The initial state picks the part; the variables it does not use *)
(* stay 0.                                                                 *)
(***************************************************************************)
EXTENDS Naturals, FiniteSets

CONSTANTS Parts,                 \* the parts this run looks at
          Patience,              \* RemoteControl: whether users await a start
          Actors,                \* readers, dispatches and pods
          Tables                 \* ProgressView

VARIABLES which,
          script, row, req, remote, faults, live,
          op, task, fresh, drv, call, asked, wanted,
          ext, tasks, phase, rd,
          case, files, primary, plan, drifts,
          shadows, runners, lock, pc, attempt, life, result
controlOnly == <<op, task, fresh, drv, call, asked, wanted>>
viewOnly == <<ext, tasks, phase, rd>>
reviewOnly == <<case, files, primary, plan, drifts>>
schemaOnly == <<shadows, runners, lock, pc, attempt, life, result>>
shared == <<script, row, req, remote, faults, live>>
vars == <<which, shared, controlOnly, viewOnly, reviewOnly, schemaOnly>>

Readers == Actors
Dispatches == Actors
Pods == Actors

\* Work that can be stopped and started, and a deferred deploy.
ControlScripts ==
    [deploy : BOOLEAN, patient : Patience,
     faults : {{"crash", "refused", "lost", "late", "failed"}}]

\* Two readers of one table that is resumed, and one reader of two tables.
ViewScripts ==
    {[ops |-> 1, resumed |-> TRUE, done |-> d, readers |-> Readers] :
       d \in {{t} : t \in Tables}}
      \cup {[ops |-> n, resumed |-> b, done |-> {}, readers |-> {CHOOSE r \in Readers : TRUE}] :
              n \in 1..2, b \in BOOLEAN}

\* Two tables of one keyspace, two successive versions of a table, and a table
\* on two shards.
Case(ts, ss, vs) == [tables |-> ts, shards |-> ss, versions |-> vs]
ReviewCases == {Case({"t1", "t2"}, {0}, {0, 1}), Case({"t1"}, {0}, {0, 1, 2}),
                Case({"t1"}, {1, 2}, {0, 1})}

\* One build with and without timeouts, and two builds in a rolling deploy.
SchemaScripts ==
    [version : {[p \in Pods |-> 1]}, timeouts : BOOLEAN]
      \cup [version : [Pods -> 1..2], timeouts : {FALSE}]

rc == INSTANCE RemoteControl WITH Scripts <- ControlScripts, MaxCalls <- 3, MaxFaults <- 1
pv == INSTANCE ProgressView WITH Scripts <- ViewScripts
pr == INSTANCE PlanReview WITH Cases <- ReviewCases, MaxDrifts <- 1
ss == INSTANCE StorageSchema WITH Scripts <- SchemaScripts, MaxAttempts <- 2, MaxFaults <- 2

NoControl == op = 0 /\ task = 0 /\ fresh = 0 /\ drv = 0 /\ call = 0 /\ asked = 0 /\ wanted = 0
NoView == ext = 0 /\ tasks = 0 /\ phase = 0 /\ rd = 0
NoReview == case = 0 /\ files = 0 /\ primary = 0 /\ plan = 0 /\ drifts = 0
NoSchema == /\ shadows = 0 /\ runners = 0 /\ lock = 0 /\ pc = 0 /\ attempt = 0
            /\ life = 0 /\ result = 0

Init ==
    /\ which \in Parts
    /\ \/ which = "control" /\ rc!Init /\ NoView /\ NoReview /\ NoSchema /\ live = 0
       \/ /\ which = "view" /\ pv!Init /\ NoControl /\ NoReview /\ NoSchema
          /\ req = 0 /\ faults = 0 /\ live = 0
       \/ /\ which = "review" /\ pr!Init /\ NoControl /\ NoView /\ NoSchema
          /\ script = 0 /\ remote = 0 /\ faults = 0
       \/ /\ which = "schema" /\ ss!Init /\ NoControl /\ NoView /\ NoReview
          /\ row = 0 /\ req = 0 /\ remote = 0

InControl(A) == which = "control" /\ A /\ UNCHANGED <<which, viewOnly, reviewOnly, schemaOnly, live>>
InView(A) ==
    which = "view" /\ A /\ UNCHANGED <<which, controlOnly, reviewOnly, schemaOnly, req, faults, live>>
InReview(A) ==
    which = "review" /\ A /\ UNCHANGED <<which, controlOnly, viewOnly, schemaOnly, script, remote, faults>>
InSchema(A) ==
    which = "schema" /\ A /\ UNCHANGED <<which, controlOnly, viewOnly, reviewOnly, row, req, remote>>

Next == InControl(rc!Next) \/ InView(pv!Next) \/ InReview(pr!Next) \/ InSchema(ss!Next)
Spec == Init /\ [][Next]_vars

\* The fairness of the four modules: drives, calls and the remote's own work go
\* on, readers read again, dispatches are retried, and a pod gets the lock that is
\* free again and again. Only one part takes steps, so a disjunction of actions of
\* different parts asks of each what it would ask alone.
FairSpec ==
    /\ Spec
    /\ WF_vars(InControl(rc!CallStep) \/ InReview(pr!Plan))
    /\ WF_vars(InControl(rc!Claim \/ rc!DriveStep) \/ InView(pv!Drive))
    /\ WF_vars(InControl(rc!ClaimWaitingForDeploy))
    /\ WF_vars(\/ InControl(rc!RemoteStep)
               \/ InView(pv!RemoteTakesUp \/ \E t \in Tables : pv!RemoteRuns(t))
               \/ InSchema(\E r \in runners : ss!RunnerStep(r)))
    /\ \A a \in Actors :
         /\ WF_vars(InView(pv!Read(a)) \/ InReview(pr!Dispatch(a)) \/ InSchema(ss!PodStep(a)))
         /\ SF_vars(InSchema(ss!acquireEnsureSchemaLock(a)))
------------------------------------------------------------------------------
Over(s) == s \in {"completed", "failed", "cancelled"}

\* A row that is over tells what became of the remote's work, and a reader is told
\* completed only when the record says so (RemoteControl!EndIsTrue,
\* ProgressView!CompletedIsStored).
EndIsTrue ==
    /\ which = "control" => rc!EndIsTrue
    /\ which = "view" => pv!CompletedIsStored

\* A secondary that checked a plan ends up as the files say, and only drift is
\* refused (PlanReview!CompletedIsDesired, NoFalseRefusal).
CompletedIsDesired == which = "review" => pr!CompletedIsDesired /\ pr!NoFalseRefusal

\* A pod that serves finds its schema, which changes under its lock only and has
\* no tables of interrupted changes left (StorageSchema!ServingIsCurrent,
\* RunsUnderLock, NothingLeft).
ServingIsCurrent ==
    which = "schema" => ss!ServingIsCurrent /\ ss!RunsUnderLock /\ ss!NothingLeft

\* What is under way comes to its end and is recorded: stops, starts and cutovers
\* are settled (RemoteControl!RequestsResolved), an end of the remote reaches the
\* row (RemoteControl!EndIsSeen), the tasks of a completed apply are completed in
\* spite of the readers' late writes (ProgressView!TasksSettle), every dispatch of
\* a plan is answered (PlanReview!DispatchEnds) and every pod gets to serve
\* (StorageSchema!PodsServe).
WorkEnds ==
    []<>(/\ which = "control" =>
              /\ rc!Pending("stop") \/ rc!Pending("cutover") => rc!IsTerminal(row)
              /\ rc!Pending("start") => row \notin {"stopped", "waiting_for_deploy"}
              /\ Over(remote.state) => row = remote.state \/ (row = "stopped" /\ ~rc!StartTrusted)
         /\ which = "view" /\ row = "completed" /\ script.ops = 1
              => \A t \in Tables : tasks[t] = "completed"
         /\ which = "review" /\ plan # pr!NoPlan => \A d \in Dispatches : pr!Ended(d)
         /\ which = "schema" /\ ss!Same /\ ~script.timeouts
              => \A p \in Pods : pc[p] = "serving")

\* After the last stop the remote's work is over for good, and after the last start
\* the remote is not left stopped (RemoteControl!StopWins, StartWins).
LastRequestWins ==
    /\ (<>[](which = "control" /\ wanted = "stop"))
         => <>[](which = "control" => rc!IsTerminal(remote.state))
    /\ (<>[](which = "control" /\ wanted = "run" /\ req.start # "failed"))
         => <>[](which = "control" => remote.state # "stopped")

\* A cutover that is accepted is recorded or under way (RemoteControl!CutoverRecorded).
CutoverRecorded ==
    [][which = "control" /\ call.pc = "cutover" /\ call'.answer = "accepted"
         => \/ req.cutover = "pending" \/ remote.cutover
            \/ remote.state = "cutting_over" \/ rc!IsTerminal(remote.state)]_vars
==============================================================================
