--------------------------- MODULE RemoteControl ---------------------------
(***************************************************************************)
(* Stop, start and cutover of one apply with a single operation on a       *)
(* remote data plane: the API handlers that queue the requests, the drive  *)
(* that serves them between its polls, and the remote that obeys in its    *)
(* own time.                                                               *)
(*                                                                         *)
(* A drive keeps its own copy of the apply's state (mem), which the API    *)
(* may overtake in the row. Every remote call is a step of its own; the    *)
(* writes that follow one call up to the next are one step. The apply has  *)
(* been dispatched (Rollout models that) and no other apply competes for   *)
(* its deployment (Admission).                                             *)
(***************************************************************************)
EXTENDS ApplyStates, FiniteSets

CONSTANTS
  Scripts,    \* whether the deploy is deferred, whether users stop only what
              \* has taken up an earlier start, and the kinds of fault to come
  MaxCalls,   \* control calls of users
  MaxFaults

VARIABLES
  script,
  row, op, task,  \* the states of the apply, its operation and its task
  req,            \* the status of the durable requests
  fresh,          \* the start request is newer than the lease
  remote,         \* the remote's state, and the requests it has yet to obey
  drv,            \* what the drive has done and read so far
  call,           \* what the API call under way has done and read so far
  asked,          \* API calls so far
  wanted,         \* history: what the users last asked for
  faults          \* the kinds of fault that have happened

vars == <<script, row, op, task, req, fresh, remote, drv, call, asked, wanted, faults>>
stored == <<row, op, task, req, fresh>>

Idle == [pc |-> "idle", from |-> "none", mem |-> "none", start |-> FALSE]
NoCall == [pc |-> "idle", seen |-> "none", answer |-> "none"]

Init ==
  /\ script \in Scripts
  /\ row = IF script.deploy THEN "waiting_for_deploy" ELSE "running"
  /\ op = "running" /\ task = row
  /\ req = [stop |-> "none", start |-> "none", cutover |-> "none"]
  /\ fresh = FALSE
  /\ remote = [state |-> row, stop |-> FALSE, start |-> FALSE, cutover |-> FALSE]
  /\ drv = Idle /\ call = NoCall
  /\ asked = 0 /\ wanted = "run" /\ faults = {}

Pending(o) == req[o] = "pending"

\* CompletePending and FailPending touch a request only while it is pending.
Settle(r, o, status) == IF r[o] = "pending" THEN [r EXCEPT ![o] = status] ELSE r

Fault(kind) ==
  /\ kind \in script.faults /\ Cardinality(faults) < MaxFaults
  /\ faults' = faults \cup {kind}

(***************************************************************************)
(* The remote calls: a data plane queues a request and obeys it later. It  *)
(* takes a stop whatever its state is, a start or a cutover only if it can *)
(* still obey.                                                             *)
(***************************************************************************)
Takes(o) ==
  CASE o = "stop"    -> TRUE
    [] o = "start"   -> remote.state \in {"stopped", "waiting_for_deploy"}
    [] o = "cutover" -> remote.state \in {"waiting_for_cutover", "cutting_over"}

\* A call that is answered well.
Sent(o) == Takes(o) /\ remote' = [remote EXCEPT ![o] = TRUE] /\ UNCHANGED faults

\* A call that ends in an error: the remote cannot obey, refuses, or obeys
\* while its answer is lost.
Unsent(o) ==
  \/ ~Takes(o) /\ UNCHANGED <<remote, faults>>
  \/ Fault("refused") /\ UNCHANGED remote
  \/ Fault("lost") /\ Takes(o) /\ remote' = [remote EXCEPT ![o] = TRUE]

(***************************************************************************)
(* The API.                                                                *)
(***************************************************************************)
Answer(a) == call' = [call EXCEPT !.pc = "idle", !.answer = a]
Goes(pc) == call' = [call EXCEPT !.pc = pc]
APIOnly == UNCHANGED <<script, op, task, drv, asked>>

\* A call begins by reading the apply.
Ask(o) ==
  /\ call.pc = "idle" /\ asked < MaxCalls
  /\ o = "stop" /\ script.patient => ~remote.start /\ ~Pending("start")
  /\ asked' = asked + 1
  /\ call' = [pc |-> o, seen |-> row, answer |-> "none"]
  /\ UNCHANGED <<script, stored, remote, drv, wanted, faults>>

\* Another stop pending answers the call.
executeStopForApply ==
  /\ call.pc = "stop"
  /\ IF Pending("stop") \/ IsTerminal(call.seen)
     THEN Answer("answered") /\ UNCHANGED <<req, wanted>>
     ELSE /\ req' = [req EXCEPT !.stop = "pending"]
          /\ wanted' = "stop"
          /\ Goes("stopNow")
  /\ APIOnly /\ UNCHANGED <<row, fresh, remote, faults>>

\* The stop is passed on to the remote's own queue as well.
tryImmediateStopAfterQueue ==
  /\ call.pc = "stopNow"
  /\ \/ Sent("stop") /\ Goes("stopDone")
     \/ Unsent("stop") /\ Answer("accepted")
  /\ APIOnly /\ UNCHANGED <<row, req, fresh, wanted>>

completeImmediateStopRequestIfStopped ==
  /\ call.pc = "stopDone"
  /\ req' = IF IsTerminal(row) THEN Settle(req, "stop", "completed") ELSE req
  /\ Answer("accepted")
  /\ APIOnly /\ UNCHANGED <<row, fresh, remote, wanted, faults>>

StartAllowed(s) ==
  IF script.deploy THEN s = "waiting_for_deploy" ELSE s \in {"running", "stopped"}

\* A stop that is over, in the row that was read or on the remote, is completed
\* first; for the remote's sake the row is written stopped, whatever it holds.
completeResolvedStopBeforeStart ==
  LET over == Pending("stop") /\ ~IsTerminal(call.seen) /\ remote.state = "stopped" IN
  /\ call.pc = "start"
  /\ IF ~StartAllowed(call.seen)
     THEN Answer("refused") /\ UNCHANGED <<row, req>>
     ELSE /\ call' = [call EXCEPT !.pc = "startGate",
                                  !.seen = IF over THEN "stopped" ELSE @]
          /\ row' = IF over THEN "stopped" ELSE row
          /\ req' = IF over \/ IsTerminal(call.seen)
                    THEN Settle(req, "stop", "completed") ELSE req
  /\ APIOnly /\ UNCHANGED <<fresh, remote, wanted, faults>>

\* A start that trusts the row.
StartUnchecked ==
  /\ call.pc = "startGate"
  /\ IF Pending("stop") THEN Answer("refused")
     ELSE IF Pending("start") THEN Answer("answered")
     ELSE Goes("startRow")
  /\ APIOnly /\ UNCHANGED <<row, req, fresh, remote, wanted, faults>>

\* A pending stop refuses the start and a pending start answers it. A deferred
\* deploy is started as it stands, any other apply only when its remote is
\* stopped.
executeStartForApply ==
  /\ call.pc = "startGate"
  /\ IF Pending("stop") THEN Answer("refused")
     ELSE IF call.seen = "waiting_for_deploy" THEN Goes("startPut")
     ELSE IF Pending("start") THEN Answer("answered")
     ELSE IF remote.state # "stopped" THEN Answer("refused")
     ELSE Goes("startRow")
  /\ APIOnly /\ UNCHANGED <<row, req, fresh, remote, wanted, faults>>

\* A row that was read running is written stopped, so that it can be claimed.
ensureStoredApplyStoppedForStartClaim ==
  /\ call.pc = "startRow"
  /\ row' = IF call.seen = "running" THEN "stopped" ELSE row
  /\ Goes("startPut")
  /\ APIOnly /\ UNCHANGED <<req, fresh, remote, wanted, faults>>

persistStartRequestForOperator ==
  /\ call.pc = "startPut"
  /\ req' = [req EXCEPT !.start = "pending"]
  /\ fresh' = IF Pending("start") THEN fresh ELSE TRUE
  /\ wanted' = "run"
  /\ Answer("accepted")
  /\ APIOnly /\ UNCHANGED <<row, remote, faults>>

\* A pending stop refuses a cutover, a pending cutover answers it, and a row
\* that reads cutting_over does too. Otherwise the row or the remote must be
\* ready for it.
cutoverRequestReadiness ==
  /\ call.pc = "cutover"
  /\ IF Pending("stop") THEN Answer("refused")
     ELSE IF Pending("cutover") THEN Answer("accepted")
     ELSE IF call.seen = "cutting_over" THEN Answer("accepted")
     ELSE IF \/ call.seen = "waiting_for_cutover"
             \/ remote.state \in {"waiting_for_cutover", "cutting_over"}
     THEN Goes("cutoverPut")
     ELSE Answer("refused")
  /\ APIOnly /\ UNCHANGED <<row, req, fresh, remote, wanted, faults>>

executeCutoverForApply ==
  /\ call.pc = "cutoverPut"
  /\ req' = [req EXCEPT !.cutover = "pending"]
  /\ Answer("accepted")
  /\ APIOnly /\ UNCHANGED <<row, fresh, remote, wanted, faults>>

CallStep ==
  \/ executeStopForApply
  \/ tryImmediateStopAfterQueue
  \/ completeImmediateStopRequestIfStopped
  \/ completeResolvedStopBeforeStart
  \/ executeStartForApply
  \/ ensureStoredApplyStoppedForStartClaim
  \/ persistStartRequestForOperator
  \/ cutoverRequestReadiness
  \/ executeCutoverForApply

(***************************************************************************)
(* The drive. Its steps are named by pc; from says where the stop and the  *)
(* cutover checks were made, and so where the drive goes on.               *)
(***************************************************************************)
At(pc) == drv.pc = pc
DriveOnly == UNCHANGED <<script, call, asked, wanted>>

\* Where a drive goes on after the stop check, and after the cutover check.
Onward(from) == CASE from = "wait" -> "wait" [] from = "deploy" -> "deploy" [] OTHER -> "cutover"
ToPoll(d) == [d EXCEPT !.pc = "stop", !.from = "poll"]
AfterCutover(d) == IF d.from = "resume" THEN [d EXCEPT !.pc = "start"] ELSE [d EXCEPT !.pc = "poll"]

\* A drive that returns an error leaves everything as it is; one that returns
\* without goes on to record its result. A wait for a stop only looks again.
Return(d) == IF d.from = "wait" THEN [d EXCEPT !.pc = "wait"] ELSE [d EXCEPT !.pc = "mark"]

OpClaimable == op \in ClaimableState \/ (op = "stopped" /\ Pending("start"))

\* What a claim makes of the rows: an operation or an apply that is stopped is
\* claimed for a pending start only, and reads resuming from then on. A claimed
\* operation of an apply that is over takes over its state.
Claimed ==
  /\ OpClaimable
  /\ LET starts == row = "stopped" /\ Pending("start") IN
     IF row \in ClaimableState \/ starts
     THEN /\ row' = IF starts THEN "resuming" ELSE row
          /\ op' = IF op = "stopped" THEN "resuming" ELSE op
          /\ drv' = [Idle EXCEPT !.pc = "stop", !.from = "resume", !.mem = row']
     ELSE op' = row /\ drv' = Idle /\ UNCHANGED row
  /\ fresh' = FALSE
  /\ DriveOnly /\ UNCHANGED <<task, req, remote, faults>>

\* Nobody drives the apply, so its heartbeat goes stale.
Claim == At("idle") /\ Claimed

\* A deferred deploy is polled by a live drive that never looks for a start
\* request: the request lets another drive take its lease.
ClaimWaitingForDeploy ==
  ~At("idle") /\ row = "waiting_for_deploy" /\ Pending("start") /\ fresh /\ Claimed

SyncTask(s) == IF s = "stopped" THEN "stopped" ELSE taskStateWithNoBackwardProgress(task, s)

\* What a terminal answer of the remote makes of the rows. A row that is over
\* keeps its end, unless it is stopped and the remote ended otherwise.
reconcileTerminalRemoteProgress(s) ==
  IF IsTerminal(row) /\ (row # "stopped" \/ s = "stopped")
  THEN [row |-> row, task |-> task, req |-> Settle(req, "stop", "completed")]
  ELSE [row |-> s, task |-> SyncTask(s),
        req |-> LET r == Settle(req, "stop", "completed")
                IN IF s = "stopped" THEN r ELSE Settle(r, "start", "completed")]

Store(r) == row' = r.row /\ task' = r.task /\ req' = r.req

\* A stop that takes a change waiting for its cutover for stopped.
WaitingIsStopped ==
  LET over == IsTerminal(row) \/ drv.mem = "waiting_for_cutover" IN
  /\ At("stop")
  /\ IF ~Pending("stop")
     THEN drv' = [drv EXCEPT !.pc = Onward(drv.from)] /\ UNCHANGED req
     ELSE IF over THEN req' = Settle(req, "stop", "completed") /\ drv' = Return(drv)
     ELSE drv' = [drv EXCEPT !.pc = "stopRPC"] /\ UNCHANGED req
  /\ DriveOnly /\ UNCHANGED <<row, op, task, fresh, remote, faults>>

\* A pending stop. A stored end completes it, and the drive returns unless a
\* start is pending as well.
processPendingStop ==
  LET over == IsTerminal(row) \/ IsTerminal(drv.mem)
      next == [drv EXCEPT !.pc = Onward(drv.from), !.mem = IF IsTerminal(row) THEN row ELSE @]
  IN
  /\ At("stop")
  /\ IF ~Pending("stop")
     THEN drv' = [drv EXCEPT !.pc = Onward(drv.from)] /\ UNCHANGED req
     ELSE IF over
     THEN /\ req' = Settle(req, "stop", "completed")
          /\ drv' = IF IsTerminal(row) /\ Pending("start") THEN next ELSE Return(next)
     ELSE drv' = [drv EXCEPT !.pc = "stopRPC"] /\ UNCHANGED req
  /\ DriveOnly /\ UNCHANGED <<row, op, task, fresh, remote, faults>>

StopRPC ==
  /\ At("stopRPC")
  /\ \/ Sent("stop") /\ drv' = [drv EXCEPT !.pc = "stopSync"]
     \/ Unsent("stop") /\ drv' = [drv EXCEPT !.pc = "stopFailed"]
  /\ DriveOnly /\ UNCHANGED stored

\* After an accepted stop the remote is asked where it is; the request stays
\* pending until the answer is an end.
syncRemoteStopProgress ==
  LET m == applyStateFromRemoteProgress(drv.mem, remote.state)
      next == [drv EXCEPT !.pc = Onward(drv.from), !.mem = m] IN
  /\ At("stopSync")
  /\ IF IsTerminal(remote.state)
     THEN /\ Store(reconcileTerminalRemoteProgress(m))
          /\ drv' = IF Pending("start") THEN next ELSE Return(next)
     ELSE row' = m /\ task' = SyncTask(remote.state) /\ drv' = next /\ UNCHANGED req
  /\ DriveOnly /\ UNCHANGED <<op, fresh, remote, faults>>

\* After an error the stop is over only if the remote is.
reconcileTerminalRemoteStopAfterRPCError ==
  /\ At("stopFailed")
  /\ IF IsTerminal(remote.state)
     THEN Store(reconcileTerminalRemoteProgress(remote.state)) /\ drv' = Return(drv)
     ELSE drv' = Idle /\ UNCHANGED <<row, task, req>>
  /\ DriveOnly /\ UNCHANGED <<op, fresh, remote, faults>>

Ready ==
  \/ drv.mem \in {"waiting_for_cutover", "cutting_over"}
  \/ drv.mem = "running" /\ task \in {"waiting_for_cutover", "cutting_over"}

\* A pending cutover: done already, impossible by now, too early, behind a
\* stop, or sent to the remote once the row says so.
processPendingCutover ==
  /\ At("cutover")
  /\ IF ~Pending("cutover") \/ (~IsTerminal(drv.mem) /\ ~Ready)
     THEN drv' = AfterCutover(drv) /\ UNCHANGED <<row, req>>
     ELSE IF drv.mem = "completed"
     THEN drv' = AfterCutover(drv) /\ req' = Settle(req, "cutover", "completed") /\ UNCHANGED row
     ELSE IF IsTerminal(drv.mem)
     THEN drv' = Idle /\ req' = Settle(req, "cutover", "failed") /\ UNCHANGED row
     ELSE IF Pending("stop")
     THEN drv' = Idle /\ UNCHANGED <<row, req>>
     ELSE drv' = [drv EXCEPT !.pc = "cutoverRPC", !.mem = "cutting_over"]
          /\ row' = (IF drv.mem = "cutting_over" THEN row ELSE "cutting_over") /\ UNCHANGED req
  /\ DriveOnly /\ UNCHANGED <<op, task, fresh, remote, faults>>

\* A cutover that fails takes its request with it, and leaves the row as it is.
CutoverRPC ==
  /\ At("cutoverRPC")
  /\ \/ Sent("cutover") /\ drv' = AfterCutover(drv) /\ req' = Settle(req, "cutover", "completed")
     \/ Unsent("cutover") /\ drv' = Idle /\ req' = Settle(req, "cutover", "failed")
  /\ DriveOnly /\ UNCHANGED <<row, op, task, fresh>>

\* The drive reads whether it was claimed for a start.
HasStart ==
  /\ At("start")
  /\ drv' = IF Pending("start") THEN [drv EXCEPT !.pc = "wait", !.start = TRUE]
            ELSE IF drv.mem = "stopped" THEN [drv EXCEPT !.pc = "check"]
            ELSE ToPoll(drv)
  /\ DriveOnly /\ UNCHANGED <<stored, remote, faults>>

\* A start waits until no stop is pending.
waitForPendingStopBeforeStart ==
  /\ At("wait")
  /\ drv' = IF Pending("stop") THEN [drv EXCEPT !.pc = "stop", !.from = "wait"]
            ELSE IF drv.mem = "waiting_for_deploy" THEN [drv EXCEPT !.pc = "stop", !.from = "deploy"]
            ELSE [drv EXCEPT !.pc = "check"]
  /\ DriveOnly /\ UNCHANGED <<stored, remote, faults>>

\* A deferred deploy is started and goes back to its first working state.
processPendingStart ==
  /\ At("deploy")
  /\ \/ /\ ~Pending("start") \/ Pending("stop") \/ drv.mem # "waiting_for_deploy"
        /\ drv' = [drv EXCEPT !.pc = "check"]
        /\ UNCHANGED <<row, req, remote, faults>>
     \/ /\ Pending("start") /\ ~Pending("stop") /\ drv.mem = "waiting_for_deploy"
        /\ \/ /\ Sent("start")
              /\ drv' = [drv EXCEPT !.pc = "check", !.mem = "preparing_branch"]
              /\ row' = "preparing_branch"
              /\ req' = Settle(req, "start", "completed")
           \/ /\ Unsent("start")
              /\ drv' = Idle /\ UNCHANGED row
              /\ req' = Settle(req, "start", "failed")
  /\ DriveOnly /\ UNCHANGED <<op, task, fresh>>

\* A start asks the remote where it is. An end is recorded; a remote that works
\* already only completes the start; a stopped one is started, and a stop that
\* came in the meantime is completed first.
resumeWithPendingStart ==
  LET s == remote.state IN
  /\ At("check")
  /\ IF IsTerminal(s) /\ s # "stopped"
     THEN /\ Store(reconcileTerminalRemoteProgress(s))
          /\ drv' = [drv EXCEPT !.pc = "mark", !.mem = s]
     ELSE IF s = "stopped"
     THEN /\ req' = Settle(req, "stop", "completed")
          /\ drv' = [drv EXCEPT !.pc = "startRPC", !.mem = s]
          /\ UNCHANGED <<row, task>>
     ELSE /\ row' = s /\ req' = Settle(req, "start", "completed")
          /\ drv' = ToPoll([drv EXCEPT !.mem = s])
          /\ UNCHANGED task
  /\ DriveOnly /\ UNCHANGED <<op, fresh, remote, faults>>

\* A start that ends in an error is given up, and the apply reads stopped.
StartRPC ==
  /\ At("startRPC")
  /\ \/ Sent("start") /\ drv' = [drv EXCEPT !.pc = "started"] /\ UNCHANGED <<row, task, req>>
     \/ /\ Unsent("start")
        /\ LET r == reconcileTerminalRemoteProgress("stopped")
           IN Store([r EXCEPT !.req = Settle(@, "start", "failed")])
        /\ drv' = Idle
  /\ DriveOnly /\ UNCHANGED <<op, fresh>>

requeueStoppedTasksForRemoteStart ==
  /\ At("started")
  /\ row' = "resuming" /\ task' = IF task = "stopped" THEN "pending" ELSE task
  /\ req' = Settle(req, "start", "completed")
  /\ drv' = ToPoll([drv EXCEPT !.mem = "resuming"])
  /\ DriveOnly /\ UNCHANGED <<op, fresh, remote, faults>>

\* A poll that bears with any end after a start.
AnyEndBorne ==
  LET s == remote.state IN
  /\ At("poll")
  /\ IF IsTerminal(s) /\ ~drv.start
     THEN /\ Store(reconcileTerminalRemoteProgress(s))
          /\ drv' = [drv EXCEPT !.pc = "mark", !.mem = s]
     ELSE drv' = ToPoll(drv) /\ UNCHANGED <<row, task, req>>
  /\ DriveOnly /\ UNCHANGED <<op, fresh, remote, faults>>

\* One tick of the poll, after the stop and the cutover checks. A drive that
\* has just started the remote bears with a stopped answer for a while.
pollForCompletion ==
  LET s == remote.state
      m == applyStateFromRemoteProgress(drv.mem, s) IN
  /\ At("poll")
  /\ \/ /\ drv.start /\ s = "stopped"
        /\ drv' = ToPoll(drv) /\ UNCHANGED <<row, task, req, faults>>
     \/ /\ drv.start /\ s = "stopped" /\ Fault("late")
        /\ LET r == reconcileTerminalRemoteProgress(s)
           IN Store([r EXCEPT !.req = Settle(@, "start", "failed")])
        /\ drv' = Idle
     \/ /\ IsTerminal(s) /\ ~(drv.start /\ s = "stopped")
        /\ Store(reconcileTerminalRemoteProgress(s))
        /\ drv' = [drv EXCEPT !.pc = "mark", !.mem = s] /\ UNCHANGED faults
     \/ /\ ~IsTerminal(s)
        /\ row' = m /\ task' = SyncTask(s) /\ drv' = ToPoll([drv EXCEPT !.mem = m])
        /\ UNCHANGED <<req, faults>>
  /\ DriveOnly /\ UNCHANGED <<op, fresh, remote>>

\* The drive returned: the operation takes the state of its task when that state
\* is one that ends or parks it, and the apply that of its operation unless that
\* would reopen it; any other state leaves the rows as they are.
markOperationFromOwnResult ==
  LET s == DeriveApplyState({task})
  IN  /\ At("mark")
      /\ IF IsTerminal(s) \/ s \in {"failed_retryable", "waiting_for_cutover"}
         THEN /\ op' = s /\ row' = IF IsTerminal(row) /\ ~IsTerminal(s) THEN row ELSE s
              /\ req' = IF IsTerminal(row') THEN Settle(req, "stop", "completed") ELSE req
         ELSE UNCHANGED <<row, op, req>>
      /\ drv' = Idle
      /\ DriveOnly /\ UNCHANGED <<task, fresh, remote, faults>>

Crash ==
  /\ ~At("idle") /\ Fault("crash")
  /\ drv' = Idle
  /\ DriveOnly /\ UNCHANGED <<stored, remote>>

(***************************************************************************)
(* The remote, in its own time.                                            *)
(***************************************************************************)
Becomes(s) ==
  /\ remote' = [state |-> s, start |-> FALSE,
                stop |-> remote.stop /\ ~IsTerminal(s),
                cutover |-> remote.cutover /\ s = "waiting_for_cutover"]
  /\ UNCHANGED <<script, stored, drv, call, asked, wanted>>

RemoteCopies == remote.state = "running" /\ Becomes("waiting_for_cutover") /\ UNCHANGED faults
RemoteCutsOver ==
  /\ \/ remote.state = "waiting_for_cutover" /\ remote.cutover /\ Becomes("cutting_over")
     \/ remote.state = "cutting_over" /\ Becomes("completed")
  /\ UNCHANGED faults
\* Work that is stopped can be resumed, except a deploy: that is cancelled. A
\* stop of what is over already only settles the request.
RemoteStops ==
  /\ remote.stop /\ remote.state # "cutting_over"
  /\ IF IsTerminal(remote.state)
     THEN /\ remote' = [remote EXCEPT !.stop = FALSE]
          /\ UNCHANGED <<script, stored, drv, call, asked, wanted>>
     ELSE Becomes(IF script.deploy THEN "cancelled" ELSE "stopped")
  /\ UNCHANGED faults
\* A stop that is pending is seen to before a start.
RemoteStarts ==
  /\ remote.start /\ ~remote.stop /\ remote.state \in {"stopped", "waiting_for_deploy"}
  /\ Becomes("running") /\ UNCHANGED faults
RemoteFails == remote.state = "running" /\ Fault("failed") /\ Becomes("failed")

DriveStep ==
  \/ processPendingStop \/ StopRPC \/ syncRemoteStopProgress
  \/ reconcileTerminalRemoteStopAfterRPCError
  \/ processPendingCutover \/ CutoverRPC
  \/ HasStart \/ waitForPendingStopBeforeStart \/ processPendingStart
  \/ resumeWithPendingStart \/ StartRPC \/ requeueStoppedTasksForRemoteStart
  \/ pollForCompletion \/ markOperationFromOwnResult

RemoteStep == RemoteCopies \/ RemoteCutsOver \/ RemoteStops \/ RemoteStarts

\* Nobody asks, nobody drives and nothing can be claimed.
Done ==
  /\ At("idle") /\ call.pc = "idle" /\ asked = MaxCalls /\ ~OpClaimable
  /\ UNCHANGED vars

Next ==
  \/ \E o \in {"stop", "start", "cutover"} : Ask(o)
  \/ CallStep
  \/ Claim \/ ClaimWaitingForDeploy \/ DriveStep \/ Crash
  \/ RemoteStep \/ RemoteFails
  \/ Done

Spec == Init /\ [][Next]_vars

Fairness ==
  /\ WF_vars(CallStep) /\ WF_vars(Claim) /\ WF_vars(ClaimWaitingForDeploy)
  /\ WF_vars(DriveStep)
  /\ WF_vars(RemoteCopies) /\ WF_vars(RemoteCutsOver)
  /\ WF_vars(RemoteStops) /\ WF_vars(RemoteStarts)

FairSpec == Spec /\ Fairness

\* A start may take effect after the apply is stored stopped again: its answer
\* was lost, it was given up as too late, a crash took the drive that would wait
\* for it, or a stop came before the remote took it up.
StartTrusted == script.patient /\ faults \cap {"crash", "late", "lost"} = {}

\* A row that is over tells what became of the remote's work: its end is the
\* remote's end, or a start is being served for a stopped one
\* (reconcileTerminalRemoteProgress, the API's writes of stopped).
EndIsTrue ==
  /\ row \in {"completed", "failed", "cancelled"} => remote.state = row
  /\ StartTrusted /\ row = "stopped" => remote.state = "stopped" \/ Pending("start")

\* Again and again nothing is left to do: a stop and a cutover are settled unless
\* the apply ends, a start unless the apply leaves the state it was asked for in
\* (processPendingStop between any two polls, the claims for a pending start,
\* processPendingCutover).
RequestsResolved ==
  []<>(/\ Pending("stop") \/ Pending("cutover") => IsTerminal(row)
       /\ Pending("start") => row \notin {"stopped", "waiting_for_deploy"})

\* An end of the remote reaches the row (pollForCompletion, after any crash),
\* unless the row was left stopped.
EndIsSeen ==
  remote.state \in {"completed", "failed", "cancelled"}
    ~> (row = remote.state \/ (row = "stopped" /\ ~StartTrusted))

\* After the last stop the remote's work is over for good.
StopWins == (<>[](wanted = "stop")) => <>[](IsTerminal(remote.state))

\* After the last start the remote is not left stopped, unless the start failed
\* (waitForPendingStopBeforeStart, the claims of a stopped apply).
StartWins ==
  (<>[](wanted = "run" /\ req.start # "failed")) => <>[](remote.state # "stopped")

\* A cutover that is accepted is either recorded or under way on the remote.
CutoverRecorded ==
  [][call.pc = "cutover" /\ call'.answer = "accepted"
       => \/ req.cutover = "pending" \/ remote.cutover
          \/ remote.state = "cutting_over" \/ IsTerminal(remote.state)]_vars
============================================================================
