----------------------------- MODULE Admission -----------------------------
(***************************************************************************)
(* How applies come to be, and who may work on a deployment: the API       *)
(* handlers that create, stop, start and cut over applies, the data        *)
(* plane's idempotent Apply RPC, the store's named target lock and         *)
(* active-apply check, and the operator's claims of operations and of      *)
(* their parents.                                                          *)
(*                                                                         *)
(* All applies here are for one database, type and environment, the scope  *)
(* of the named lock. A handler runs as a process of its own: every        *)
(* transaction or statement it issues is one step, and what it read in an  *)
(* earlier step it keeps. The engine work of a drive is reduced to its     *)
(* outcome (LocalDrive and Rollout model it); what is kept is who drives   *)
(* which operation and what each party writes to the shared rows.          *)
(***************************************************************************)
EXTENDS ApplyStates, Sequences

CONSTANTS
  Scripts,       \* what to try: calls by name, whether applies wait for a
                 \* user's cutover, whether their Tern is remote, and how many
                 \* drivers or engines may fail
  Drivers,       \* operator goroutines
  OnFailure,     \* "halt" or "continue", for every operation
  MaxAttempts    \* recovery attempts of a retryable apply

\* Calls and drivers are told apart as holders of the lock, and a call wants a
\* list of deployments.
ASSUME AdmissionConstants ==
  /\ MaxAttempts \in Nat /\ "free" \notin Drivers
  /\ \A s \in Scripts :
       /\ DOMAIN s.calls \cap (Drivers \cup {"free"}) = {}
       /\ \A c \in DOMAIN s.calls :
            LET want == s.calls[c].want IN
            want \in Seq({want[i] : i \in DOMAIN want})

VARIABLES
  script,   \* the script of this behaviour
  rows,     \* the applies table with its operations, tasks and requests
  lock,     \* holder of the named target lock, or "free"
  call,     \* what each API call has done and read so far
  drv,      \* what each driver has claimed and read so far
  faults    \* faults so far

vars == <<script, rows, lock, call, drv, faults>>

AIds == DOMAIN rows
Calls == DOMAIN script.calls
Ask(c) == script.calls[c]
Wants(a) == {rows[a].ops[i].dep : i \in DOMAIN rows[a].ops}
Multi(a) == Len(rows[a].ops) > 1
ActiveState == ApplyState \ TerminalApplyState

\* A new apply with one pending operation, of one task, per entry of the call.
NewRow(c) ==
  [state |-> "pending", key |-> Ask(c).key, attempt |-> 0,
   lease |-> "none", stale |-> FALSE,
   stop |-> "none", start |-> "none", cutover |-> "none",
   ops |-> [i \in DOMAIN Ask(c).want |->
             [dep |-> Ask(c).want[i], state |-> "pending",
              task |-> "pending", lease |-> "none", stale |-> FALSE]]]

Idle == [pc |-> "idle", a |-> 0, i |-> 0, seen |-> "none",
         to |-> "none", clear |-> FALSE]

Init ==
  /\ script \in Scripts
  /\ rows = <<>>
  /\ lock = "free"
  /\ call = [c \in Calls |-> [pc |-> "new", a |-> 0, seen |-> "none",
                              clear |-> FALSE, answer |-> 0]]
  /\ drv = [v \in Drivers |-> Idle]
  /\ faults = 0

(***************************************************************************)
(* The target lock and the active-apply check.                             *)
(***************************************************************************)
\* Mutant: only the first deployment of the other apply counts.
checkNoActiveApplyForDeployment(deps, a) ==
  \A b \in AIds \ {a} :
    rows[b].state \in ActiveState => rows[b].ops[1].dep \notin deps

\* No apply but a itself, if it exists yet, is active on one of the deployments.
checkNoActiveApplyForTargets(deps, a) ==
  \A b \in AIds \ {a} : rows[b].state \in ActiveState => Wants(b) \cap deps = {}

\* Take the lock and make the check under it; the lock is held until the
\* transaction ends.
CallLocks(c, next, deps, a) ==
  /\ lock = "free"
  /\ lock' = c
  /\ call' = [call EXCEPT ![c].pc = next,
                          ![c].clear = checkNoActiveApplyForTargets(deps, a)]
  /\ UNCHANGED <<script, rows, drv, faults>>

DriverLocks(v, next, a) ==
  /\ lock = "free"
  /\ lock' = v
  /\ drv' = [drv EXCEPT ![v].pc = next,
                        ![v].clear = checkNoActiveApplyForTargets(Wants(a), a)]
  /\ UNCHANGED <<script, rows, call, faults>>

(***************************************************************************)
(* The API and the Apply RPC.                                              *)
(***************************************************************************)
\* Mutant: an apply that has ended gives its key free.
ActiveKeyOwner(c) == {b \in AIds : /\ Ask(c).key # "" /\ rows[b].key = Ask(c).key
                                   /\ rows[b].state \in ActiveState}

\* The apply that was created with the call's idempotency key.
KeyOwner(c) == {b \in AIds : Ask(c).key # "" /\ rows[b].key = Ask(c).key}

Answered(c, a) ==
  call' = [call EXCEPT ![c].pc = "done", ![c].answer = a]

Goes(c, next) == call' = [call EXCEPT ![c].pc = next]

\* The Apply RPC first looks for an apply with its idempotency key.
existingIdempotentApply(c) ==
  /\ Ask(c).op = "dispatch" /\ call[c].pc = "new"
  /\ IF KeyOwner(c) # {}
     THEN \E b \in KeyOwner(c) : Answered(c, b)
     ELSE Goes(c, "plan")
  /\ UNCHANGED <<script, rows, lock, drv, faults>>

\* A plan that is unknown here and does not match the live schema, or is not
\* the caller's to apply, refuses the apply.
planForApplyRequest(c) ==
  /\ call[c].pc = "plan"
  /\ Goes(c, "conflict") \/ Answered(c, 0)
  /\ UNCHANGED <<script, rows, lock, drv, faults>>

loadPlanForApply(c) ==
  /\ Ask(c).op = "apply" /\ call[c].pc = "new"
  /\ Goes(c, "create") \/ Answered(c, 0)
  /\ UNCHANGED <<script, rows, lock, drv, faults>>

\* An unfinished task of the deployment refuses the apply, a stopped one too;
\* the RPC then looks again for its own key, which a concurrent delivery may
\* have used. (What the check does to stale tasks is in LocalDrive.)
checkActiveTaskConflict(c) ==
  /\ call[c].pc = "conflict"
  /\ IF \E b \in AIds : \E i \in DOMAIN rows[b].ops :
          /\ rows[b].ops[i].dep \in {Ask(c).want[j] :
                                       j \in DOMAIN Ask(c).want}
          /\ rows[b].ops[i].task \notin TerminalTaskState
     THEN Goes(c, "relookup")
     ELSE Goes(c, "create")
  /\ UNCHANGED <<script, rows, lock, drv, faults>>

Relookup(c) ==
  /\ call[c].pc = "relookup"
  /\ IF KeyOwner(c) # {}
     THEN \E b \in KeyOwner(c) : Answered(c, b)
     ELSE Answered(c, 0)
  /\ UNCHANGED <<script, rows, lock, drv, faults>>

Targets(c) == {Ask(c).want[j] : j \in DOMAIN Ask(c).want}

queueValidatedApply(c) ==
  call[c].pc = "create" /\ CallLocks(c, "insert", Targets(c), 0)

\* The rows are inserted in one transaction; the key is unique in the table.
\* A refused dispatch looks for its key a last time.
createWithRows(c) ==
  /\ call[c].pc = "insert"
  /\ lock' = "free"
  /\ IF call[c].clear /\ KeyOwner(c) = {}
     THEN /\ rows' = Append(rows, NewRow(c))
          /\ Answered(c, Len(rows) + 1)
     ELSE /\ IF Ask(c).op = "dispatch" THEN Goes(c, "relookup")
                                          ELSE Answered(c, 0)
          /\ UNCHANGED rows
  /\ UNCHANGED <<script, drv, faults>>

\* A control call reads the apply it names, which it keeps for all its steps.
ReadApply(c, a) ==
  /\ Ask(c).op \in {"stop", "start", "cutover"} /\ call[c].pc = "new"
  /\ call' = [call EXCEPT ![c].pc = Ask(c).op, ![c].a = a,
                          ![c].seen = rows[a].state]
  /\ UNCHANGED <<script, rows, lock, drv, faults>>

Set(a, field, val) == rows' = [rows EXCEPT ![a][field] = val]

\* A stop is refused when the apply has ended and answered when one is
\* pending.
queueStopForApplyOwner(c) ==
  LET a == call[c].a IN
  /\ call[c].pc = "stop"
  /\ IF rows[a].stop = "pending" THEN Answered(c, a)
     ELSE IF IsTerminal(call[c].seen) THEN Answered(c, 0)
     ELSE Goes(c, "queueStop")
  /\ UNCHANGED <<script, rows, lock, drv, faults>>

createStopRequest(c) ==
  LET a == call[c].a IN
  /\ call[c].pc = "queueStop"
  /\ Set(a, "stop", "pending")
  /\ IF Multi(a) THEN Answered(c, a) ELSE Goes(c, "stopNow")
  /\ UNCHANGED <<script, lock, drv, faults>>

\* A stop of a single operation is also sent to its client. A remote one queues
\* it in its own store; an embedded one queues it in this store once more.
tryImmediateStopAfterQueue(c) ==
  /\ call[c].pc = "stopNow"
  /\ IF script.remote THEN UNCHANGED rows ELSE Set(call[c].a, "stop", "pending")
  /\ Goes(c, "stopDone")
  /\ UNCHANGED <<script, lock, drv, faults>>

\* Mutant: the client's answer is taken for the end of the apply.
completeImmediateStopRequest(c) ==
  LET a == call[c].a IN
  /\ call[c].pc = "stopDone"
  /\ Set(a, "stop", "completed")
  /\ Answered(c, a)
  /\ UNCHANGED <<script, lock, drv, faults>>

completeImmediateStopRequestIfStopped(c) ==
  LET a == call[c].a IN
  /\ call[c].pc = "stopDone"
  /\ IF IsTerminal(rows[a].state) /\ rows[a].stop = "pending"
     THEN Set(a, "stop", "completed")
     ELSE UNCHANGED rows
  /\ Answered(c, a)
  /\ UNCHANGED <<script, lock, drv, faults>>

isStartRequestAllowedState(s) ==
  s \in {"waiting_for_deploy", "pending", "running", "running_degraded",
         "stopped"}

Stopped(a) == \E i \in DOMAIN rows[a].ops : rows[a].ops[i].task = "stopped"

\* A start first completes a stop that the apply it read, or its remote, shows
\* to be over. For the remote's sake it writes the apply stopped, whatever the
\* row holds by now.
completeResolvedStopBeforeStart(c) ==
  LET a == call[c].a IN
  /\ call[c].pc = "start"
  /\ IF ~isStartRequestAllowedState(call[c].seen)
     THEN Answered(c, 0) /\ UNCHANGED rows
     ELSE IF rows[a].stop = "pending" /\ IsTerminal(call[c].seen)
     THEN Set(a, "stop", "completed") /\ Goes(c, "startGate")
     ELSE IF rows[a].stop = "pending" /\ script.remote /\ ~Multi(a)
             /\ rows[a].ops[1].task = "stopped"
     THEN /\ rows' = [rows EXCEPT ![a].state = "stopped",
                                  ![a].stop = "completed"]
          /\ call' = [call EXCEPT ![c].pc = "startGate", ![c].seen = "stopped"]
     ELSE Goes(c, "startGate") /\ UNCHANGED rows
  /\ UNCHANGED <<script, lock, drv, faults>>

\* A pending stop refuses the start. A pending start answers it. Otherwise it
\* takes a stopped task to go on.
queueStoppedApplyForOperator(c) ==
  LET a == call[c].a
      s == call[c].seen
  IN
  /\ call[c].pc = "startGate"
  /\ IF rows[a].stop = "pending" THEN Answered(c, 0)
     ELSE IF rows[a].start = "pending" THEN Answered(c, a)
     ELSE IF s = "pending" \/ ~Stopped(a) THEN Answered(c, 0)
     ELSE Goes(c, "startQueue")
  /\ UNCHANGED <<script, rows, lock, drv, faults>>

\* An apply that was read running is written stopped, so that the operator can
\* claim it; the write looks at neither the row's state nor its lease.
ensureStoredApplyStoppedForStartClaim(c) ==
  LET a == call[c].a IN
  /\ call[c].pc = "startQueue"
  /\ IF call[c].seen \in {"running", "running_degraded"}
     THEN Set(a, "state", "stopped")
     ELSE UNCHANGED rows
  /\ Goes(c, "startPersist")
  /\ UNCHANGED <<script, lock, drv, faults>>

persistStartRequestForOperator(c) ==
  LET a == call[c].a IN
  /\ call[c].pc = "startPersist"
  /\ Set(a, "start", "pending")
  /\ Answered(c, a)
  /\ UNCHANGED <<script, lock, drv, faults>>

\* A cutover is refused while a stop is pending and unless the apply, or one of
\* its tasks, waits for it.
cutoverRequestReadiness(c) ==
  LET a == call[c].a IN
  /\ call[c].pc = "cutover"
  /\ IF rows[a].stop = "pending" THEN Answered(c, 0)
     ELSE IF rows[a].cutover = "pending" \/ call[c].seen = "cutting_over" THEN Answered(c, a)
     ELSE IF \/ call[c].seen = "waiting_for_cutover"
             \/ /\ call[c].seen \in {"running", "running_degraded"}
                /\ \E i \in DOMAIN rows[a].ops :
                     rows[a].ops[i].task = "waiting_for_cutover"
     THEN Goes(c, "cutoverPersist")
     ELSE Answered(c, 0)
  /\ UNCHANGED <<script, rows, lock, drv, faults>>

executeCutoverForApply(c) ==
  /\ call[c].pc = "cutoverPersist"
  /\ Set(call[c].a, "cutover", "pending")
  /\ Answered(c, call[c].a)
  /\ UNCHANGED <<script, lock, drv, faults>>

CallStep(c) ==
  \/ existingIdempotentApply(c)
  \/ planForApplyRequest(c)
  \/ loadPlanForApply(c)
  \/ checkActiveTaskConflict(c)
  \/ Relookup(c)
  \/ queueValidatedApply(c)
  \/ createWithRows(c)
  \/ \E a \in AIds : ReadApply(c, a)
  \/ queueStopForApplyOwner(c)
  \/ createStopRequest(c)
  \/ tryImmediateStopAfterQueue(c)
  \/ completeImmediateStopRequestIfStopped(c)
  \/ completeResolvedStopBeforeStart(c)
  \/ queueStoppedApplyForOperator(c)
  \/ ensureStoredApplyStoppedForStartClaim(c)
  \/ persistStartRequestForOperator(c)
  \/ cutoverRequestReadiness(c)
  \/ executeCutoverForApply(c)

(***************************************************************************)
(* The operator.                                                           *)
(***************************************************************************)
At(v, pc) == drv[v].pc = pc
Steps(v, next) == drv' = [drv EXCEPT ![v].pc = next]
Ends(v) == drv' = [drv EXCEPT ![v] = Idle]
Op(v) == rows[drv[v].a].ops[drv[v].i]
HoldsOp(v) == Op(v).lease = v
HoldsApply(v) == rows[drv[v].a].lease = v

\* Under the rolling policy an operation waits for those of earlier deployments.
Blocked(a, i) ==
  \E j \in 1..(i - 1) :
    /\ rows[a].ops[j].dep # rows[a].ops[i].dep
    /\ rows[a].ops[j].state # "completed"
    /\ ~(OnFailure = "continue" /\ rows[a].ops[j].state = "failed")

Retryable(a) ==
  rows[a].state = "failed_retryable" /\ rows[a].attempt < MaxAttempts

OpClaimable(a, i) ==
  LET r == rows[a]
      o == rows[a].ops[i]
  IN  \/ o.state = "pending" /\ r.stop # "pending" /\ ~Blocked(a, i)
      \/ o.state \in ClaimableState /\ o.stale
      \/ o.state = "stopped" /\ r.start = "pending"
      \/ /\ o.state = "failed_retryable"
         /\ Retryable(a) \/ (r.state \in ClaimableState /\ r.stale)

\* The oldest claimable operation is claimed. A retry of a multi-operation
\* apply counts its attempt here, that of a single one with the parent's claim.
FindNextApplyOperation(v, a, i) ==
  LET o == rows[a].ops[i] IN
  /\ At(v, "idle")
  /\ OpClaimable(a, i)
  /\ \A b \in 1..a : \A j \in DOMAIN rows[b].ops :
       OpClaimable(b, j) => b = a /\ j >= i
  /\ rows' = [rows EXCEPT
       ![a].ops[i] = [o EXCEPT !.lease = v, !.stale = FALSE,
                        !.state = CASE @ = "pending" -> "running"
                                    [] @ = "stopped" -> "resuming"
                                    [] OTHER -> @],
       ![a].attempt = IF o.state = "failed_retryable" /\ Retryable(a) /\ Multi(a)
                      THEN @ + 1 ELSE @]
  /\ drv' = [drv EXCEPT ![v] = [Idle EXCEPT
               !.pc = IF Multi(a) THEN "load" ELSE "parent", !.a = a, !.i = i]]
  /\ UNCHANGED <<script, lock, call, faults>>

ParentClaimable(a) ==
  \/ rows[a].state = "pending"
  \/ rows[a].state \in ClaimableState /\ rows[a].stale
  \/ Retryable(a)
  \/ rows[a].state = "stopped" /\ rows[a].start = "pending"

\* The driver of a single operation claims the parent too. A stopped parent is
\* claimed under the target lock; one that cannot be claimed but has ended
\* decides the operation's state.
ClaimApplyByID(v) ==
  LET a == drv[v].a IN
  /\ At(v, "parent")
  /\ IF ~ParentClaimable(a)
     THEN /\ IF IsTerminal(rows[a].state)
             THEN drv' = [drv EXCEPT ![v].pc = "mirror",
                                     ![v].seen = rows[a].state]
             ELSE Ends(v)
          /\ UNCHANGED rows
     ELSE IF rows[a].state = "stopped"
     THEN Steps(v, "stoppedClaim") /\ UNCHANGED rows
     ELSE /\ rows' = [rows EXCEPT
               ![a].lease = v, ![a].stale = FALSE,
               ![a].attempt = IF rows[a].state = "failed_retryable"
                              THEN @ + 1 ELSE @,
               ![a].state = IF @ \in {"pending", "failed_retryable"}
                            THEN "running" ELSE @]
          /\ Steps(v, "drive")
  /\ UNCHANGED <<script, lock, call, faults>>

StoppedClaimLocks(v) ==
  At(v, "stoppedClaim") /\ DriverLocks(v, "stoppedLocked", drv[v].a)

\* Under the lock: another active apply fails the start request for good, else
\* the apply resumes, if it is still stopped.
claimStoppedApplyUnderTargetLock(v) ==
  LET a == drv[v].a IN
  /\ At(v, "stoppedLocked")
  /\ lock' = "free"
  /\ IF ~drv[v].clear
     THEN /\ rows' = [rows EXCEPT
               ![a].start = IF @ = "pending" THEN "failed" ELSE @]
          /\ drv' = [drv EXCEPT ![v].pc = "mirror", ![v].seen = "stopped"]
     ELSE IF rows[a].state = "stopped"
     THEN /\ rows' = [rows EXCEPT ![a].state = "resuming", ![a].lease = v,
                                  ![a].stale = FALSE]
          /\ Steps(v, "drive")
     ELSE Ends(v) /\ UNCHANGED rows
  /\ UNCHANGED <<script, call, faults>>

\* The driver of one of several operations only reads the parent: one that has
\* ended decides the operation's state, any other is projected first.
driveClaimedMultiOperation(v) ==
  LET s == rows[drv[v].a].state IN
  /\ At(v, "load")
  /\ drv' = [drv EXCEPT ![v].pc = IF IsTerminal(s) THEN "mirror" ELSE "project",
                        ![v].seen = s, ![v].to = "drive"]
  /\ UNCHANGED <<script, rows, lock, call, faults>>

reconcileClaimedOperationFromTerminalParent(v) ==
  /\ At(v, "mirror")
  /\ IF HoldsOp(v)
     THEN /\ rows' = [rows EXCEPT ![drv[v].a].ops[drv[v].i].state = drv[v].seen]
          /\ drv' = [drv EXCEPT ![v].pc = "project", ![v].to = "idle"]
     ELSE UNCHANGED rows /\ Ends(v)
  /\ UNCHANGED <<script, lock, call, faults>>

\* A data plane that refuses to start again leaves the apply stopped and fails
\* the request. Otherwise a resumed apply becomes running by an Update, which
\* takes the lock and makes the check; its start request is then served.
RefuseStart(v) ==
  LET a == drv[v].a IN
  /\ At(v, "drive") /\ ~Multi(a) /\ rows[a].state = "resuming" /\ HoldsApply(v)
  /\ rows' = [rows EXCEPT ![a].state = "stopped",
                          ![a].start = IF @ = "pending" THEN "failed" ELSE @]
  /\ Ends(v)
  /\ UNCHANGED <<script, lock, call, faults>>

ResumeLocks(v) ==
  /\ At(v, "drive") /\ ~Multi(drv[v].a)
  /\ rows[drv[v].a].state = "resuming" /\ HoldsApply(v)
  /\ DriverLocks(v, "resumeLocked", drv[v].a)

Resume(v) ==
  LET a == drv[v].a IN
  /\ At(v, "resumeLocked")
  /\ lock' = "free"
  /\ IF drv[v].clear /\ HoldsApply(v)
     THEN /\ rows' = [rows EXCEPT
               ![a].state = "running", ![a].ops[1].task = "running",
               ![a].start = IF @ = "pending" THEN "completed" ELSE @]
          /\ Steps(v, "drive")
     ELSE Ends(v) /\ UNCHANGED rows
  /\ UNCHANGED <<script, call, faults>>

\* The states a drive may bring its task to from here.
Outcomes(v) ==
  LET r == rows[drv[v].a] IN
  IF r.stop = "pending" THEN {"stopped", "completed"}
  ELSE IF script.deferred /\ Op(v).task \notin {"waiting_for_cutover"}
  THEN {"waiting_for_cutover", "failed"}
  ELSE IF script.deferred /\ r.cutover # "pending" THEN {}
  ELSE {"completed", "failed"}

\* A drive brings its task to an outcome; a task that ended meanwhile keeps its
\* state. The drive of a single operation reads the apply before it writes it.
DriveTo(v, s) ==
  LET a == drv[v].a
      t == taskStateWithNoBackwardProgress(Op(v).task, s)
  IN
  /\ IF Multi(a) THEN HoldsOp(v)
     ELSE HoldsApply(v) /\ rows[a].state # "resuming"
  /\ rows' = [rows EXCEPT ![a].ops[drv[v].i].task = t]
  /\ drv' = [drv EXCEPT ![v].pc = IF Multi(a) THEN "mark" ELSE "write",
                        ![v].to = t, ![v].seen = rows[a].state]
  /\ UNCHANGED <<script, lock, call>>

Drive(v) ==
  /\ At(v, "drive")
  /\ \/ \E s \in Outcomes(v) : DriveTo(v, s) /\ UNCHANGED faults
     \/ /\ faults < script.faults /\ faults' = faults + 1
        /\ DriveTo(v, "failed_retryable")

\* An Update to an active state takes the target lock first.
WriteLocks(v) ==
  /\ At(v, "write") /\ ~IsTerminal(drv[v].seen) /\ ~IsTerminal(drv[v].to)
  /\ DriverLocks(v, "writeLocked", drv[v].a)

\* The apply takes its task's state, unless it was seen ended or, for an active
\* state, another apply is active; requests the outcome settles are settled.
\* A drive that waits for a cutover goes on.
UpdateApply(v) ==
  LET a == drv[v].a
      s == drv[v].to
      ended == IsTerminal(drv[v].seen)
  IN
  /\ \/ At(v, "write") /\ (ended \/ IsTerminal(s)) /\ UNCHANGED lock
     \/ At(v, "writeLocked") /\ lock' = "free"
  /\ IF ~HoldsApply(v) \/ ~(ended \/ IsTerminal(s) \/ drv[v].clear)
     THEN Ends(v) /\ UNCHANGED rows
     ELSE /\ rows' = [rows EXCEPT
               ![a].state = IF ended THEN @ ELSE s,
               ![a].stop = IF @ = "pending" /\ (ended \/ IsTerminal(s))
                           THEN "completed" ELSE @,
               ![a].cutover = IF @ = "pending" /\ IsTerminal(s)
                              THEN (IF s = "completed" THEN s ELSE "failed")
                              ELSE @]
          /\ Steps(v, IF s = "waiting_for_cutover" THEN "drive" ELSE "mark")
  /\ UNCHANGED <<script, call, faults>>

\* A drive whose heartbeat finds its lease gone is cancelled.
Cancelled(v) ==
  /\ At(v, "drive")
  /\ ~HoldsOp(v) \/ (~Multi(drv[v].a) /\ ~HoldsApply(v))
  /\ Ends(v)
  /\ UNCHANGED <<script, rows, lock, call, faults>>

Persisted == TerminalApplyState \cup {"failed_retryable", "waiting_for_cutover"}

\* The operation takes the state of its task, and with a stop pending the
\* operations that have not started are stopped.
markOperationFromOwnResult(v) ==
  LET a == drv[v].a
      s == DeriveApplyState({Op(v).task})
  IN
  /\ At(v, "mark")
  /\ IF HoldsOp(v) /\ s \in Persisted
     THEN /\ rows' = [rows EXCEPT ![a].ops =
               [j \in DOMAIN @ |->
                  IF j = drv[v].i THEN [@[j] EXCEPT !.state = s]
                  ELSE IF rows[a].stop = "pending" /\ @[j].state = "pending"
                  THEN [@[j] EXCEPT !.state = "stopped"] ELSE @[j]]]
          /\ Steps(v, "list")
     ELSE Ends(v) /\ UNCHANGED rows
  /\ UNCHANGED <<script, lock, call, faults>>

Derived(a) ==
  DeriveRolloutApplyState(
    [i \in DOMAIN rows[a].ops |->
      [state |-> rows[a].ops[i].state, pauseOnFailure |-> FALSE,
       continueOnFailure |-> OnFailure = "continue"]])

\* The driver reads the parent and then its operations.
ReloadApply(v) ==
  /\ At(v, "list")
  /\ drv' = [drv EXCEPT ![v].pc = "project", ![v].to = "settle",
                        ![v].seen = rows[drv[v].a].state]
  /\ UNCHANGED <<script, rows, lock, call, faults>>

\* The projected state is written by compare-and-swap, with neither the target
\* lock nor the active-apply check. A terminal parent is left alone, except that
\* a failed one is reopened when operations may still continue (unless it has
\* just decided the operation's state).
updateApplyStateFromOperations(v) ==
  LET a == drv[v].a
      d == Derived(a)
      s == drv[v].seen
      reopens == /\ s = "failed" /\ d = "running_degraded"
                 /\ drv[v].to # "idle"
  IN
  /\ At(v, "project")
  /\ rows' = IF /\ rows[a].state = s
                /\ ~IsTerminal(s) \/ IsTerminal(d) \/ reopens
                /\ IF Multi(a) THEN HoldsOp(v) ELSE HoldsApply(v)
             THEN [rows EXCEPT ![a].state = d] ELSE rows
  /\ IF drv[v].to = "idle" THEN Ends(v) ELSE Steps(v, drv[v].to)
  /\ UNCHANGED <<script, lock, call, faults>>

completePendingStopIfApplyResolved(v) ==
  LET a == drv[v].a IN
  /\ At(v, "settle")
  /\ rows' = IF IsTerminal(rows[a].state) /\ rows[a].stop = "pending"
             THEN [rows EXCEPT ![a].stop = "completed"] ELSE rows
  /\ Ends(v)
  /\ UNCHANGED <<script, lock, call, faults>>

\* A retryable apply out of attempts fails, with every unfinished task and
\* every retryable operation of it.
Expired(o) ==
  [o EXCEPT !.task = IF @ \in TerminalTaskState THEN @ ELSE "failed",
            !.state = IF @ = "failed_retryable" THEN "failed" ELSE @]

ExpireRetryable(v, a) ==
  /\ At(v, "idle")
  /\ rows[a].state = "failed_retryable" /\ rows[a].attempt >= MaxAttempts
  /\ rows' = [rows EXCEPT
       ![a].state = "failed",
       ![a].ops = [i \in DOMAIN @ |-> Expired(@[i])]]
  /\ UNCHANGED <<script, lock, call, drv, faults>>

\* The heartbeat of an operation nobody drives any more is a minute old.
HeartbeatExpires(a, i) ==
  /\ rows[a].ops[i].state \in ClaimableState /\ ~rows[a].ops[i].stale
  /\ ~\E v \in Drivers : drv[v].a = a /\ drv[v].i = i /\ HoldsOp(v)
  /\ rows' = [rows EXCEPT ![a].ops[i].stale = TRUE,
                          ![a].stale = IF Multi(a) THEN @ ELSE TRUE]
  /\ UNCHANGED <<script, lock, call, drv, faults>>

\* A driver process ends, or a wait for the target lock times out; the
\* connection takes the lock with it.
Crash(v) ==
  /\ ~At(v, "idle") /\ faults < script.faults
  /\ faults' = faults + 1
  /\ lock' = IF lock = v THEN "free" ELSE lock
  /\ Ends(v)
  /\ UNCHANGED <<script, rows, call>>

DriverStep(v) ==
  \/ \E a \in AIds : \E i \in DOMAIN rows[a].ops : FindNextApplyOperation(v, a, i)
  \/ ClaimApplyByID(v)
  \/ StoppedClaimLocks(v)
  \/ claimStoppedApplyUnderTargetLock(v)
  \/ driveClaimedMultiOperation(v)
  \/ reconcileClaimedOperationFromTerminalParent(v)
  \/ RefuseStart(v)
  \/ ResumeLocks(v)
  \/ Resume(v)
  \/ Drive(v)
  \/ WriteLocks(v)
  \/ UpdateApply(v)
  \/ Cancelled(v)
  \/ markOperationFromOwnResult(v)
  \/ ReloadApply(v)
  \/ updateApplyStateFromOperations(v)
  \/ completePendingStopIfApplyResolved(v)
  \/ \E a \in AIds : ExpireRetryable(v, a)

Next ==
  \/ \E c \in Calls : CallStep(c)
  \/ \E v \in Drivers : DriverStep(v) \/ Crash(v)
  \/ \E a \in AIds : \E i \in DOMAIN rows[a].ops : HeartbeatExpires(a, i)

Spec == Init /\ [][Next]_vars

\* The API server answers its calls, and the operator polls, drives what it has
\* claimed and lets dead heartbeats age.
FairSpec ==
  /\ Spec
  /\ \A c \in {"c1", "c2", "c3", "c4"} : WF_vars(c \in Calls /\ CallStep(c))
  /\ \A v \in Drivers : WF_vars(DriverStep(v))
  /\ WF_vars(\E a \in AIds : \E i \in DOMAIN rows[a].ops : HeartbeatExpires(a, i))

(***************************************************************************)
(* Properties.                                                             *)
(***************************************************************************)
RequestState == {"none", "pending", "completed", "failed"}

\* Every row, request and process is in a state the code gives it.
TypeOK ==
  /\ \A a \in AIds :
       /\ rows[a].state \in ApplyState /\ rows[a].attempt \in 0..MaxAttempts
       /\ {rows[a].stop, rows[a].start, rows[a].cutover} \subseteq RequestState
       /\ \A i \in DOMAIN rows[a].ops :
            /\ rows[a].ops[i].state \in ApplyState
            /\ rows[a].ops[i].task \in TaskState
  /\ lock \in {"free"} \cup Calls \cup Drivers

\* Two applies that are active at once share no deployment: the target lock and
\* the check under it hold for creation, for a start and for every Update, in
\* whatever order the handlers and the drivers run.
OneActiveApply ==
  \A a, b \in AIds :
    /\ a # b /\ rows[a].state \in ActiveState /\ rows[b].state \in ActiveState
    => Wants(a) \cap Wants(b) = {}

\* Deliveries of one dispatch, however they interleave, create one apply, and
\* each is answered with it or with nothing.
DispatchedOnce ==
  /\ \A a, b \in AIds : rows[a].key # "" /\ rows[a].key = rows[b].key => a = b
  /\ \A c \in Calls : /\ Ask(c).op = "dispatch" /\ call[c].answer # 0
                      => rows[call[c].answer].key = Ask(c).key

\* A stop that was reported done stays done: the apply has ended, and nothing
\* but a start brings it back.
StopKept ==
  \A a \in AIds :
    rows[a].stop = "completed" /\ rows[a].start = "none"
      => IsTerminal(rows[a].state)
============================================================================
