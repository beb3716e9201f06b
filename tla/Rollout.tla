------------------------------ MODULE Rollout ------------------------------
(***************************************************************************)
(* One multi-operation apply (a rollout): its rows in the shared storage,  *)
(* the operator drivers that claim and drive its operations under          *)
(* operation leases, the projection of the parent state from the           *)
(* operation rows, the durable stop request, and the remote Tern data      *)
(* plane each operation is dispatched to.                                  *)
(*                                                                         *)
(* A lease is a random token a claim rotates onto a row. A driver is       *)
(* sequential, so it suffices to record, per driver, whether the token it  *)
(* carries is still the row's: lease.                                      *)
(***************************************************************************)
EXTENDS ApplyStates

CONSTANTS
  Ops,                  \* the operations, numbered in deployment order
  Deployment,           \* the deployment of each operation
  Drivers,              \* the operator drivers of all pods
  CutoverPolicy,        \* "rolling" or "barrier"
  OnFailure,            \* "halt", "continue" or "pause"
  StoppedState,         \* what a stop leaves: "stopped", Vitess "cancelled"
  MaxRecoveryAttempts,  \* retry budget of the apply (10 in the code)
  MaxFaults,            \* bound: crashes, stalls and failed calls
  StopAllowed           \* bound: whether a user asks for a stop

ASSUME OpsAssumption == /\ Ops \subseteq Nat \ {0}
                        /\ \E i, j \in Ops : i # j
ASSUME DeploymentAssumption == DOMAIN Deployment = Ops
ASSUME PolicyAssumption == /\ CutoverPolicy \in {"rolling", "barrier"}
                           /\ OnFailure \in {"halt", "continue", "pause"}
                           /\ StoppedState \in {"stopped", "cancelled"}
ASSUME BudgetAssumption == MaxRecoveryAttempts \in Nat /\ MaxFaults \in Nat
ASSUME StopAllowedAssumption == StopAllowed \in BOOLEAN

VARIABLES
  applyState,    \* applies.state
  applyAttempt,  \* applies.attempt
  applyAge,      \* age of applies.updated_at: fresh, stale, aged (a day)
  opState,       \* apply_operations.state
  opFresh,       \* apply_operations.updated_at is within a minute
  opAttempt,     \* apply_operations.attempt
  opRemote,      \* apply_operations.engine_resume_context (the remote's id)
  taskState,     \* tasks.state, the operation's tasks as one
  stopReq,       \* the stop row of apply_control_requests
  remote,        \* per operation and dispatch key, the remote apply's state
  remoteStop,    \* remote applies with a queued stop
  remoteCut,     \* remote applies with a queued cutover
  wholeRemote,   \* the whole apply was dispatched as one remote apply
  dr,            \* what each driver is doing
  published,     \* number of terminal summaries published
  faults         \* faults so far

applyVars  == <<applyState, applyAttempt, applyAge>>
opVars     == <<opState, opFresh, opAttempt, opRemote>>
remoteVars == <<remote, remoteStop, remoteCut, wholeRemote>>
vars == <<applyVars, opVars, taskState, stopReq, remoteVars, dr, published,
          faults>>

Attempts == 0..MaxRecoveryAttempts
NoRemote == -1
Barrier  == CutoverPolicy = "barrier"

RemoteState == {"none", "running", "waiting_for_cutover", "cutting_over",
                "completed", "failed", "stopped", "cancelled"}

\* The steps at which the drive's heartbeat runs.
DrivePC ==
  {"scope", "check", "prepare", "dispatch", "persist", "start", "progress",
   "sendStop", "stopProgress", "stopOperation", "preflight", "cutover",
   "fail"}
\* The steps after the drive: the operation row has been written.
SettlePC == {"siblings", "reload", "publish", "finish"}
\* The steps of stop reconciliation, which drives the apply as a whole.
WholePC == {"whole", "wholeStop", "wholeSave", "wholeDone", "wholeDispatch",
            "wholePoll", "wholeFail", "stopPending"}
PC == {"idle", "load", "mirror", "list", "cas", "mark"} \cup DrivePC
        \cup SettlePC \cup WholePC

\* op is the driven operation (0: the apply as a whole), cut a cutover drive,
\* then the step to continue with, snap the parent state a projection started
\* from, mem the drive's in-memory apply state, rid and att the operation's
\* remote id and attempt, rep what the last call reported.
Drive ==
  [pc: PC, op: Ops \cup {0}, lease: BOOLEAN, cut: BOOLEAN,
   then: PC \cup {"drive", "mirrored"}, snap: ApplyState, mem: ApplyState,
   rid: Attempts \cup {NoRemote}, att: Attempts,
   rep: ApplyState \cup {"none", "error"}]

Idle == [pc |-> "idle", op |-> 0, lease |-> FALSE, cut |-> FALSE,
         then |-> "idle", snap |-> "pending", mem |-> "pending",
         rid |-> NoRemote, att |-> 0, rep |-> "none"]

Init ==
  /\ applyState = "pending" /\ applyAttempt = 0 /\ applyAge = "fresh"
  /\ opState = [o \in Ops |-> "pending"]
  /\ opFresh = [o \in Ops |-> TRUE]
  /\ opAttempt = [o \in Ops |-> 0]
  /\ opRemote = [o \in Ops |-> NoRemote]
  /\ taskState = [o \in Ops |-> "pending"]
  /\ stopReq = "none"
  /\ remote = [o \in Ops |-> [k \in Attempts |-> "none"]]
  /\ remoteStop = {} /\ remoteCut = {} /\ wholeRemote = FALSE
  /\ dr = [d \in Drivers |-> Idle]
  /\ published = 0 /\ faults = 0

----------------------------------------------------------------------------
\* Helpers.

StopPending == stopReq = "pending"
At(d, pc) == dr[d].pc = pc
Goto(d, r) == dr' = [dr EXCEPT ![d] = r]
End(d) == Goto(d, Idle)
\* Leave the drive and settle the operation row.
ToMark(d) == [Idle EXCEPT !.pc = "mark", !.op = dr[d].op, !.lease = dr[d].lease]
\* Fail the operation's tasks as s, then leave the drive.
ToFail(d, s) == [ToMark(d) EXCEPT !.pc = "fail", !.rep = s]
\* A pending stop is looked at before every step of the drive that matters.
ToCheck(d, next) == [dr[d] EXCEPT !.pc = "check", !.then = next]
\* A crash, a stall or a failed call.
Fault == faults < MaxFaults /\ faults' = faults + 1

\* Driver d takes the lease on operation o (on the apply, for o = 0): a token
\* another driver carries for it is no longer the row's.
Lease(d, o, r) ==
  dr' = [e \in Drivers |->
           IF e = d THEN r
           ELSE IF dr[e].op = o THEN [dr[e] EXCEPT !.lease = FALSE]
           ELSE dr[e]]
Claimed(o, cut) ==
  [Idle EXCEPT !.pc = "load", !.op = o, !.lease = TRUE, !.cut = cut]

----------------------------------------------------------------------------
\* Claims (one transaction each).

\* Mutant: only the operation just before is looked at.
BlocksPrevious(i, j) ==
  /\ i = j - 1 /\ Deployment[i] # Deployment[j]
  /\ opState[i] # "completed"
  /\ ~(OnFailure = "continue" /\ opState[i] = "failed")

\* The earlier sibling i of another deployment keeps j from starting its copy.
Blocks(i, j) ==
  /\ i < j /\ Deployment[i] # Deployment[j]
  /\ opState[i] \notin
       (IF Barrier THEN {"waiting_for_cutover", "cutting_over",
                         "revert_window", "completed"}
                   ELSE {"completed"})
  /\ ~(OnFailure = "continue" /\ opState[i] = "failed")

\* Mutant: the cutover gate takes the copy gate's idea of done.
BlocksCutoverAsCopy(i, j) ==
  /\ i < j
  /\ opState[i] \notin {"waiting_for_cutover", "cutting_over", "completed"}
  /\ ~(OnFailure = "continue" /\ opState[i] = "failed")

\* The earlier sibling i keeps j from its cutover.
BlocksCutover(i, j) ==
  /\ i < j /\ opState[i] # "completed"
  /\ ~(OnFailure = "continue" /\ opState[i] = "failed")

\* Start the copy of a pending operation whose turn it is.
ClaimPending(d, o) ==
  /\ At(d, "idle")
  /\ opState[o] = "pending" /\ ~StopPending
  /\ \A i \in Ops : ~Blocks(i, o)
  /\ opState' = [opState EXCEPT ![o] = "running"]
  /\ opFresh' = [opFresh EXCEPT ![o] = TRUE]
  /\ Lease(d, o, Claimed(o, FALSE))
  /\ UNCHANGED <<applyVars, opAttempt, opRemote, taskState, stopReq,
                 remoteVars, published, faults>>

\* Mutant: the copy claim takes the cutover claim's list of states.
HeartbeatGatedCutover(o) == opState[o] \in {"cutting_over", "revert_window"}

\* The rows whose heartbeat the copy claim looks at: an operation parked at
\* the barrier is left to the cutover claim.
HeartbeatGated(o) ==
  opState[o] \in ClaimableState
    \ (IF Barrier THEN {"waiting_for_cutover"} ELSE {})

\* Take over an operation whose driver stopped heartbeating.
ClaimStale(d, o) ==
  /\ At(d, "idle")
  /\ HeartbeatGated(o) /\ ~opFresh[o]
  /\ opFresh' = [opFresh EXCEPT ![o] = TRUE]
  /\ Lease(d, o, Claimed(o, FALSE))
  /\ UNCHANGED <<applyVars, opState, opAttempt, opRemote, taskState, stopReq,
                 remoteVars, published, faults>>

\* Mutant: the budget is not looked at.
RetryUnbounded == applyState = "failed_retryable" /\ applyAge # "aged"

\* The parent of a failed_retryable operation admits a retry, which the claim
\* charges to the budget.
RetryAdmitted == /\ applyState = "failed_retryable"
                 /\ applyAttempt < MaxRecoveryAttempts
                 /\ applyAge # "aged"

\* Take a failed_retryable operation: a new attempt, or the recovery of one
\* whose parent is active and stale.
ClaimRetryable(d, o) ==
  /\ At(d, "idle")
  /\ opState[o] = "failed_retryable"
  /\ \/ /\ RetryAdmitted
        /\ opAttempt' = [opAttempt EXCEPT ![o] = @ + 1]
        /\ applyAttempt' = applyAttempt + 1
        /\ applyAge' = "fresh"
     \/ /\ applyState \in ClaimableState /\ applyAge # "fresh"
        /\ UNCHANGED <<opAttempt, applyAttempt, applyAge>>
  /\ opFresh' = [opFresh EXCEPT ![o] = TRUE]
  /\ Lease(d, o, Claimed(o, FALSE))
  /\ UNCHANGED <<applyState, opState, opRemote, taskState, stopReq,
                 remoteVars, published, faults>>

\* Mutant: a copying operation counts as parked.
ParkedOrCopying(o) == opState[o] \in {"waiting_for_cutover", "running"}

\* The operation waits for its cutover.
Parked(o) == opState[o] = "waiting_for_cutover"

\* Start the cutover of a parked operation whose turn it is, or take over one
\* whose driver stopped heartbeating.
ClaimCutover(d, o) ==
  /\ At(d, "idle") /\ Barrier
  /\ \/ /\ Parked(o) /\ ~StopPending
        /\ \A i \in Ops : ~BlocksCutover(i, o)
        /\ opState' = [opState EXCEPT ![o] = "cutting_over"]
     \/ /\ opState[o] = "cutting_over" /\ ~opFresh[o]
        /\ UNCHANGED opState
  /\ opFresh' = [opFresh EXCEPT ![o] = TRUE]
  /\ Lease(d, o, Claimed(o, TRUE))
  /\ UNCHANGED <<applyVars, opAttempt, opRemote, taskState, stopReq,
                 remoteVars, published, faults>>

\* Take the whole apply to serve a stop that no operation can carry. The drive
\* keeps the state the row had before the claim.
ClaimStopReconciliation(d) ==
  /\ At(d, "idle")
  /\ applyState \in ClaimableState \cup {"pending"} /\ StopPending
  /\ \E o \in Ops : opState[o] = "pending"
  /\ \A o \in Ops : opState[o] \notin ClaimableState
  /\ applyState' = IF applyState = "pending" THEN "running" ELSE applyState
  /\ applyAge' = "fresh"
  /\ Lease(d, 0, [Idle EXCEPT !.pc = "whole", !.lease = TRUE,
                              !.mem = applyState])
  /\ UNCHANGED <<applyAttempt, opVars, taskState, stopReq, remoteVars,
                 published, faults>>

----------------------------------------------------------------------------
\* The projection of the parent state from the operation rows.

\* The driver reads the parent before it drives; a terminal parent settles the
\* operation instead.
Load(d) ==
  /\ At(d, "load")
  /\ Goto(d, IF IsTerminal(applyState)
             THEN [dr[d] EXCEPT !.pc = "mirror", !.snap = applyState]
             ELSE [dr[d] EXCEPT !.pc = "list", !.then = "drive",
                                !.snap = applyState, !.mem = applyState])
  /\ UNCHANGED <<applyVars, opVars, taskState, stopReq, remoteVars,
                 published, faults>>

\* The operation takes the terminal state of its parent.
Mirror(d) ==
  /\ At(d, "mirror")
  /\ IF dr[d].lease
     THEN /\ opState' = [opState EXCEPT ![dr[d].op] = dr[d].snap]
          /\ Goto(d, [dr[d] EXCEPT !.pc = "list", !.then = "mirrored"])
     ELSE UNCHANGED opState /\ End(d)
  /\ UNCHANGED <<applyVars, opFresh, opAttempt, opRemote, taskState, stopReq,
                 remoteVars, published, faults>>

\* Mutant: operations that have not started are not loaded.
ChildrenStarted == [o \in {i \in Ops : opState[i] # "pending"} |->
                      [state |-> opState[o],
                       continueOnFailure |-> OnFailure = "continue",
                       pauseOnFailure |-> FALSE]]

\* PauseOnFailure is never set by the projection.
Children == [o \in Ops |-> [state |-> opState[o],
                            continueOnFailure |-> OnFailure = "continue",
                            pauseOnFailure |-> FALSE]]
Derived == DeriveRolloutApplyState(Children)

\* Where the caller of a projection continues.
AfterProjection(d) ==
  CASE dr[d].then = "drive"  -> [dr[d] EXCEPT !.pc = "scope", !.then = "idle",
                                              !.snap = "pending",
                                              !.rep = "none"]
    [] dr[d].then = "finish" -> [ToMark(d) EXCEPT !.pc = "finish"]
    [] OTHER                 -> Idle

\* Only a failed parent held active by "continue" may be reopened, and never by
\* the driver that settled its operation from the terminal parent.
Reopens(d) == dr[d].then # "mirrored" /\ dr[d].snap = "failed"
                /\ Derived = "running_degraded"

\* Read the operation rows and derive the parent state.
List(d) ==
  /\ At(d, "list")
  /\ Goto(d, IF IsTerminal(dr[d].snap) /\ ~IsTerminal(Derived) /\ ~Reopens(d)
             THEN Idle
             ELSE IF Derived = dr[d].snap THEN AfterProjection(d)
             ELSE [dr[d] EXCEPT !.pc = "cas", !.rep = Derived])
  /\ UNCHANGED <<applyVars, opVars, taskState, stopReq, remoteVars,
                 published, faults>>

\* Mutant: the write is not compared with the state it was derived against.
SwappedBlind(d) == dr[d].lease

\* The write of the derived state takes effect: the parent still has the state
\* it was derived against, and the driver its lease.
Swapped(d) == dr[d].lease /\ applyState = dr[d].snap

\* Write the derived state; the drive that makes the apply terminal publishes
\* its summary.
UpdateDerivedState(d) ==
  /\ At(d, "cas")
  /\ LET becameTerminal == ~IsTerminal(dr[d].snap) /\ IsTerminal(dr[d].rep)
     IN  /\ applyState' = IF Swapped(d) THEN dr[d].rep ELSE applyState
         /\ applyAge' = IF Swapped(d) THEN "fresh" ELSE applyAge
         /\ Goto(d, IF ~dr[d].lease THEN Idle
                    ELSE IF /\ Swapped(d) /\ becameTerminal
                            /\ dr[d].then = "finish"
                    THEN [ToMark(d) EXCEPT !.pc = "publish"]
                    ELSE AfterProjection(d))
  /\ UNCHANGED <<applyAttempt, opVars, taskState, stopReq, remoteVars,
                 published, faults>>

----------------------------------------------------------------------------
\* The drive of one operation.

\* Read the operation row: its remote id decides between a dispatch, joining
\* the remote apply, and starting it if the parent was still pending. A cutover
\* drive needs a parked or cutting-over operation with a remote id.
Scope(d) ==
  /\ At(d, "scope")
  /\ LET o == dr[d].op
         r == [dr[d] EXCEPT !.pc = "check", !.rid = opRemote[o],
                            !.att = IF opRemote[o] = NoRemote
                                    THEN opAttempt[o] ELSE 0]
     IN  Goto(d,
           IF dr[d].cut
           THEN IF /\ opState[o] \in {"waiting_for_cutover", "cutting_over",
                                      "revert_window"}
                   /\ opRemote[o] # NoRemote
                THEN [r EXCEPT !.then = "preflight"]
                ELSE ToMark(d)
           ELSE IF opRemote[o] # NoRemote
           THEN [r EXCEPT !.then = IF dr[d].mem = "pending" THEN "start"
                                   ELSE "progress"]
           ELSE IF opState[o] \in {"pending", "failed_retryable", "running"}
           THEN [r EXCEPT !.then = "prepare"]
           ELSE IF ~IsTerminal(opState[o])
           THEN [r EXCEPT !.then = "fail", !.rep = "failed"]
           ELSE [r EXCEPT !.then = "progress"])
  /\ UNCHANGED <<applyVars, opVars, taskState, stopReq, remoteVars,
                 published, faults>>

\* Serve a pending stop: an operation that was never dispatched is stopped in
\* storage, a dispatched one through its remote apply.
CheckStop(d) ==
  /\ At(d, "check")
  /\ Goto(d, IF ~StopPending
             THEN [dr[d] EXCEPT !.pc = dr[d].then, !.then = "idle"]
             ELSE IF IsTerminal(applyState) \/ IsTerminal(dr[d].mem)
             THEN ToMark(d)
             ELSE [dr[d] EXCEPT !.pc = IF dr[d].rid = NoRemote
                                       THEN "stopOperation" ELSE "sendStop"])
  /\ UNCHANGED <<applyVars, opVars, taskState, stopReq, remoteVars,
                 published, faults>>

\* Every task write below is refused once the lease is lost.
SetTask(d, s) == taskState' = [taskState EXCEPT ![dr[d].op] =
                                 IF dr[d].lease THEN s ELSE @]
MyTask(d) == taskState[dr[d].op]

StopUndispatchedOperation(d) ==
  /\ At(d, "stopOperation")
  /\ SetTask(d, IF MyTask(d) \in TerminalTaskState THEN MyTask(d)
                ELSE StoppedState)
  /\ opState' = [opState EXCEPT ![dr[d].op] =
                   IF dr[d].lease THEN StoppedState ELSE @]
  /\ Goto(d, ToMark(d))
  /\ UNCHANGED <<applyVars, opFresh, opAttempt, opRemote, stopReq,
                 remoteVars, published, faults>>

\* The remote apply the drive is attached to.
Me(d) == <<dr[d].op, dr[d].rid>>
Report(d) == remote[dr[d].op][dr[d].rid]

\* Ask the remote to stop; rep tells whether the call failed.
SendStop(d) ==
  /\ At(d, "sendStop")
  /\ \/ /\ remoteStop' = remoteStop \cup {Me(d)}
        /\ Goto(d, [dr[d] EXCEPT !.pc = "stopProgress"])
        /\ UNCHANGED faults
     \/ /\ Fault
        /\ UNCHANGED remoteStop
        /\ Goto(d, [dr[d] EXCEPT !.pc = "stopProgress", !.rep = "error"])
  /\ UNCHANGED <<applyVars, opVars, taskState, stopReq, remote, remoteCut,
                 wholeRemote, published>>

\* What a report does to the stored task: progress never moves back, a stop is
\* always adopted, and a terminal remote resolves whatever is left.
SyncedTask(stored, report) ==
  LET synced == IF report = "stopped" THEN report
                ELSE taskStateWithNoBackwardProgress(stored, report)
  IN  IF /\ IsTerminal(report)
         /\ synced \notin TerminalTaskState
         /\ ~(report = "stopped" /\ synced = "stopped")
      THEN report ELSE synced

\* A terminal report is dropped once the stored apply is terminal, unless that
\* apply was stopped and the remote ended otherwise.
AdoptsTerminal(report) ==
  ~IsTerminal(applyState) \/ (applyState = "stopped" /\ report # "stopped")

ReconcileTerminal(d) ==
  /\ SetTask(d, IF AdoptsTerminal(Report(d))
                THEN SyncedTask(MyTask(d), Report(d)) ELSE MyTask(d))
  /\ Goto(d, ToMark(d))

\* After asking for a stop, look at the remote: if it has not settled, the
\* drive goes on and asks again.
StopProgress(d) ==
  /\ At(d, "stopProgress")
  /\ \/ IsTerminal(Report(d)) /\ ReconcileTerminal(d)
     \/ /\ ~IsTerminal(Report(d)) /\ (dr[d].rep = "error" \/ ~dr[d].lease)
        /\ UNCHANGED taskState /\ Goto(d, ToMark(d))
     \/ /\ ~IsTerminal(Report(d)) /\ dr[d].rep # "error" /\ dr[d].lease
        /\ SetTask(d, SyncedTask(MyTask(d), Report(d)))
        /\ Goto(d, [dr[d] EXCEPT !.pc = dr[d].then, !.then = "idle",
                      !.mem = applyStateFromRemoteProgress(@, Report(d))])
  /\ UNCHANGED <<applyVars, opVars, stopReq, remoteVars, published, faults>>

\* A retry makes its tasks pending again.
PrepareDispatch(d) ==
  /\ At(d, "prepare")
  /\ IF MyTask(d) = "failed_retryable"
     THEN /\ SetTask(d, "pending")
          /\ Goto(d, IF dr[d].lease THEN ToCheck(d, "dispatch") ELSE ToMark(d))
     ELSE UNCHANGED taskState /\ Goto(d, ToCheck(d, "dispatch"))
  /\ UNCHANGED <<applyVars, opVars, stopReq, remoteVars, published, faults>>

\* The remote accepts a dispatch: a key it knows returns the apply it made for
\* it, and it refuses a new key while it runs another apply.
RemoteAccepts(o, k) ==
  \/ remote[o][k] # "none"
  \/ \A j \in Attempts : remote[o][j] = "none" \/ IsTerminal(remote[o][j])
Dispatched(o, k) ==
  IF RemoteAccepts(o, k) /\ remote[o][k] = "none"
  THEN [remote EXCEPT ![o][k] = "running"] ELSE remote

\* The remote Apply call: accepted, refused, or failed with or without having
\* taken effect; a failure is ambiguous, retryable or permanent.
Dispatch(d) ==
  /\ At(d, "dispatch")
  /\ LET o == dr[d].op
         k == dr[d].att
     IN  \/ /\ RemoteAccepts(o, k)
            /\ remote' = Dispatched(o, k)
            /\ Goto(d, [dr[d] EXCEPT !.pc = "persist"])
            /\ UNCHANGED faults
         \/ /\ ~RemoteAccepts(o, k)
            /\ Goto(d, ToFail(d, "failed"))
            /\ UNCHANGED <<remote, faults>>
         \/ /\ Fault
            /\ remote' \in {remote, Dispatched(o, k)}
            /\ dr' \in {[dr EXCEPT ![d] = ToMark(d)],
                        [dr EXCEPT ![d] = ToFail(d, "failed_retryable")]}
         \/ /\ Fault
            /\ Goto(d, ToFail(d, "failed"))
            /\ UNCHANGED remote
  /\ UNCHANGED <<applyVars, opVars, taskState, stopReq, remoteStop,
                 remoteCut, wholeRemote, published>>

\* Store the remote id on the operation row, never over another one.
PersistRemoteApplyID(d) ==
  /\ At(d, "persist")
  /\ LET o == dr[d].op
         k == dr[d].att
     IN  IF dr[d].lease /\ opRemote[o] \in {NoRemote, k}
         THEN /\ opRemote' = [opRemote EXCEPT ![o] = k]
              /\ Goto(d, [dr[d] EXCEPT !.pc = "check", !.then = "progress",
                            !.rid = k, !.att = 0, !.mem = "running"])
         ELSE UNCHANGED opRemote /\ Goto(d, ToMark(d))
  /\ UNCHANGED <<applyVars, opState, opFresh, opAttempt, taskState, stopReq,
                 remoteVars, published, faults>>

\* Start a remote apply whose parent was still pending: only a stopped one can
\* be started.
StartRemote(d) ==
  /\ At(d, "start")
  /\ IF Report(d) = "stopped"
     THEN /\ remote' = [remote EXCEPT ![dr[d].op][dr[d].rid] = "running"]
          /\ remoteStop' = remoteStop \ {Me(d)}
          /\ Goto(d, [ToCheck(d, "progress") EXCEPT !.mem = "running"])
     ELSE UNCHANGED <<remote, remoteStop>> /\ Goto(d, ToMark(d))
  /\ UNCHANGED <<applyVars, opVars, taskState, stopReq, remoteCut,
                 wholeRemote, published, faults>>

\* A barrier copy drive leaves once it holds waiting_for_cutover.
Releases(d, mem) == Barrier /\ ~dr[d].cut /\ mem = "waiting_for_cutover"

\* One poll of the remote: adopt a terminal state, or sync and poll again. A
\* missing remote, a permanent error or too many errors fail the tasks.
Progress(d) ==
  /\ At(d, "progress")
  /\ \/ /\ dr[d].rid = NoRemote
        /\ Goto(d, ToFail(d, "failed"))
        /\ UNCHANGED <<taskState, faults>>
     \/ /\ dr[d].rid # NoRemote /\ IsTerminal(Report(d))
        /\ ReconcileTerminal(d)
        /\ UNCHANGED faults
     \/ /\ dr[d].rid # NoRemote /\ ~IsTerminal(Report(d))
        /\ LET mem == applyStateFromRemoteProgress(dr[d].mem, Report(d))
           IN  /\ SetTask(d, SyncedTask(MyTask(d), Report(d)))
               /\ Goto(d, IF ~dr[d].lease \/ Releases(d, mem) THEN ToMark(d)
                          ELSE [ToCheck(d, "progress") EXCEPT !.mem = mem])
        /\ UNCHANGED faults
     \/ /\ Fault
        /\ \E s \in {"failed", "failed_retryable"} : Goto(d, ToFail(d, s))
        /\ UNCHANGED taskState
  /\ UNCHANGED <<applyVars, opVars, stopReq, remoteVars, published>>

\* Before a cutover, look at the remote: the row alone does not tell whether an
\* earlier driver already asked for the swap.
Preflight(d) ==
  /\ At(d, "preflight")
  /\ \/ IsTerminal(Report(d)) /\ ReconcileTerminal(d) /\ UNCHANGED faults
     \/ /\ ~IsTerminal(Report(d))
        /\ Goto(d, IF Report(d) = "cutting_over"
                   THEN [ToCheck(d, "progress") EXCEPT !.mem = Report(d)]
                   ELSE IF Report(d) = "waiting_for_cutover"
                   THEN ToCheck(d, "cutover")
                   ELSE ToMark(d))
        /\ UNCHANGED <<taskState, faults>>
     \/ /\ Fault
        /\ dr' \in {[dr EXCEPT ![d] = ToMark(d)],
                    [dr EXCEPT ![d] = ToFail(d, "failed")]}
        /\ UNCHANGED taskState
  /\ UNCHANGED <<applyVars, opVars, stopReq, remoteVars, published>>

\* Ask the remote for the swap, then poll it to its end.
SendCutover(d) ==
  /\ At(d, "cutover")
  /\ \/ /\ remoteCut' = remoteCut \cup {Me(d)}
        /\ Goto(d, [ToCheck(d, "progress") EXCEPT !.mem = "cutting_over"])
        /\ UNCHANGED faults
     \/ /\ Fault
        /\ remoteCut' \in {remoteCut, remoteCut \cup {Me(d)}}
        /\ Goto(d, ToMark(d))
  /\ UNCHANGED <<applyVars, opVars, taskState, stopReq, remote, remoteStop,
                 wholeRemote, published>>

\* Record a failure on the tasks, unless the stored apply is already terminal.
MarkRemoteApplyFailed(d) ==
  /\ At(d, "fail")
  /\ SetTask(d, IF IsTerminal(applyState) \/ MyTask(d) \in TerminalTaskState
                THEN MyTask(d) ELSE dr[d].rep)
  /\ Goto(d, ToMark(d))
  /\ UNCHANGED <<applyVars, opVars, stopReq, remoteVars, published, faults>>

----------------------------------------------------------------------------
\* After the drive.

\* The states of an operation that its driver writes to the row; any other
\* leaves the row to be claimed again.
Persisted == TerminalApplyState \cup {"failed_retryable",
                                      "waiting_for_cutover"}

\* The operation row takes the state of its own tasks.
MarkOperation(d) ==
  /\ At(d, "mark")
  /\ LET derived == DeriveApplyState({MyTask(d)})
     IN  IF dr[d].lease /\ derived \in Persisted
         THEN /\ opState' = [opState EXCEPT ![dr[d].op] = derived]
              /\ opFresh' = [opFresh EXCEPT ![dr[d].op] = TRUE]
              /\ Goto(d, [dr[d] EXCEPT !.pc = "siblings"])
         ELSE UNCHANGED <<opState, opFresh>> /\ End(d)
  /\ UNCHANGED <<applyVars, opAttempt, opRemote, taskState, stopReq,
                 remoteVars, published, faults>>

\* Every operation that has not started is stopped.
PendingStopped == [o \in Ops |-> IF opState[o] = "pending" THEN "stopped"
                                 ELSE opState[o]]

\* With a stop pending, siblings that would never start are stopped first.
StopPendingSiblings(d) ==
  /\ At(d, "siblings")
  /\ IF ~StopPending \/ dr[d].lease
     THEN /\ opState' = IF StopPending THEN PendingStopped ELSE opState
          /\ Goto(d, [dr[d] EXCEPT !.pc = "reload"])
     ELSE UNCHANGED opState /\ End(d)
  /\ UNCHANGED <<applyVars, opFresh, opAttempt, opRemote, taskState, stopReq,
                 remoteVars, published, faults>>

\* Read the parent again, to derive it anew.
Reload(d) ==
  /\ At(d, "reload")
  /\ Goto(d, [dr[d] EXCEPT !.pc = "list", !.then = "finish",
                           !.snap = applyState])
  /\ UNCHANGED <<applyVars, opVars, taskState, stopReq, remoteVars,
                 published, faults>>

\* The summary is published if the apply read back is still terminal.
Publish(d) ==
  /\ At(d, "publish")
  /\ published' = IF IsTerminal(applyState) THEN published + 1 ELSE published
  /\ Goto(d, [dr[d] EXCEPT !.pc = "finish"])
  /\ UNCHANGED <<applyVars, opVars, taskState, stopReq, remoteVars, faults>>

\* Mutant: the stop is completed whatever the state of the apply.
CompleteStopEarly(d) == stopReq' = IF StopPending THEN "completed" ELSE stopReq

\* A stop is served once the apply is terminal. Under the apply lease the write
\* is refused once that lease is lost.
CompleteStop(d) ==
  stopReq' = IF /\ IsTerminal(applyState) /\ StopPending
                /\ dr[d].op # 0 \/ dr[d].lease
             THEN "completed" ELSE stopReq
Finish(d) ==
  /\ At(d, "finish")
  /\ CompleteStop(d)
  /\ End(d)
  /\ UNCHANGED <<applyVars, opVars, taskState, remoteVars, published, faults>>

----------------------------------------------------------------------------
\* Stop reconciliation: the apply driven as a whole, under the apply lease. No
\* operation of it was dispatched as part of the whole, so it has no remote id.

\* Every write of it is refused, and ends it, once that lease is lost.
Onward(d, pc) == Goto(d, IF dr[d].lease THEN [dr[d] EXCEPT !.pc = pc] ELSE Idle)

\* A stop is served in storage; without one (it was served since the claim) an
\* apply that was still pending is dispatched, any other is ambiguous.
WholeDrive(d) ==
  /\ At(d, "whole")
  /\ Goto(d, [dr[d] EXCEPT !.pc =
                IF StopPending
                THEN IF IsTerminal(applyState) THEN "wholeDone" ELSE "wholeStop"
                ELSE IF dr[d].mem = "pending" THEN "wholeDispatch"
                ELSE "wholeFail"])
  /\ UNCHANGED <<applyVars, opVars, taskState, stopReq, remoteVars,
                 published, faults>>

\* Every task of the apply that has not settled takes state s.
TasksSettled(s) == [o \in Ops |-> IF taskState[o] \in TerminalTaskState
                                  THEN taskState[o] ELSE s]

WholeStopTasks(d) ==
  /\ At(d, "wholeStop")
  /\ taskState' = IF dr[d].lease THEN TasksSettled(StoppedState) ELSE taskState
  /\ Onward(d, "wholeSave")
  /\ UNCHANGED <<applyVars, opVars, stopReq, remoteVars, published, faults>>

WholeStopApply(d) ==
  /\ At(d, "wholeSave")
  /\ applyState' = IF dr[d].lease THEN StoppedState ELSE applyState
  /\ applyAge' = IF dr[d].lease THEN "fresh" ELSE applyAge
  /\ Onward(d, "wholeDone")
  /\ UNCHANGED <<applyAttempt, opVars, taskState, stopReq, remoteVars,
                 published, faults>>

WholeStopDone(d) ==
  /\ At(d, "wholeDone")
  /\ stopReq' = IF dr[d].lease THEN "completed" ELSE stopReq
  /\ Onward(d, "stopPending")
  /\ UNCHANGED <<applyVars, opVars, taskState, remoteVars, published, faults>>

\* The operation rows follow the stopped tasks, then the parent is derived.
WholeStopOperations(d) ==
  /\ At(d, "stopPending")
  /\ opState' = IF dr[d].lease THEN PendingStopped ELSE opState
  /\ Onward(d, "reload")
  /\ UNCHANGED <<applyVars, opFresh, opAttempt, opRemote, taskState, stopReq,
                 remoteVars, published, faults>>

\* The whole apply is sent to the primary deployment's remote, which may refuse
\* it. The call itself is not lease-guarded.
WholeDispatch(d) ==
  /\ At(d, "wholeDispatch")
  /\ IF StopPending
     THEN /\ Goto(d, [dr[d] EXCEPT !.pc = "whole"])
          /\ UNCHANGED wholeRemote
     ELSE \E accepted \in BOOLEAN :
            /\ wholeRemote' = (wholeRemote \/ accepted)
            /\ Goto(d, [dr[d] EXCEPT !.pc = IF accepted THEN "wholePoll"
                                            ELSE "wholeFail"])
  /\ UNCHANGED <<applyVars, opVars, taskState, stopReq, remote, remoteStop,
                 remoteCut, published, faults>>

\* From then on the drive writes the parent as the whole remote apply reports,
\* whatever state the parent is in.
WholePoll(d) ==
  /\ At(d, "wholePoll")
  /\ IF ~dr[d].lease
     THEN UNCHANGED <<applyState, applyAge, taskState>> /\ End(d)
     ELSE \E report \in {"running", "completed", "failed"} :
            /\ IF ~IsTerminal(report) \/ AdoptsTerminal(report)
               THEN /\ applyState' = report /\ applyAge' = "fresh"
                    /\ taskState' = [o \in Ops |->
                                       SyncedTask(taskState[o], report)]
               ELSE UNCHANGED <<applyState, applyAge, taskState>>
            /\ Goto(d, IF IsTerminal(report)
                       THEN [dr[d] EXCEPT !.pc = "stopPending"] ELSE dr[d])
  /\ UNCHANGED <<applyAttempt, opVars, stopReq, remoteVars, published, faults>>

\* An ambiguous or refused dispatch fails the apply, if it has not ended.
WholeFail(d) ==
  /\ At(d, "wholeFail")
  /\ IF dr[d].lease /\ ~IsTerminal(applyState)
     THEN /\ taskState' = TasksSettled("failed")
          /\ applyState' = "failed" /\ applyAge' = "fresh"
     ELSE UNCHANGED <<taskState, applyState, applyAge>>
  /\ End(d)
  /\ UNCHANGED <<applyAttempt, opVars, stopReq, remoteVars, published, faults>>

----------------------------------------------------------------------------
\* The operator's maintenance, its environment, and the user.

\* An apply whose retry budget or freshness is spent is failed, with all its
\* tasks that have not settled and its failed_retryable operations.
ExpireRetryable ==
  /\ \E d \in Drivers : At(d, "idle")
  /\ applyState = "failed_retryable"
  /\ applyAttempt >= MaxRecoveryAttempts \/ applyAge = "aged"
  /\ taskState' = TasksSettled("failed")
  /\ opState' = [o \in Ops |-> IF opState[o] = "failed_retryable"
                               THEN "failed" ELSE opState[o]]
  /\ applyState' = "failed" /\ applyAge' = "fresh"
  /\ UNCHANGED <<applyAttempt, opFresh, opAttempt, opRemote, stopReq,
                 remoteVars, dr, published, faults>>

\* A driver heartbeats its operation while it drives it.
Heartbeat(d) ==
  /\ dr[d].pc \in DrivePC /\ dr[d].lease /\ ~opFresh[dr[d].op]
  /\ opFresh' = [opFresh EXCEPT ![dr[d].op] = TRUE]
  /\ UNCHANGED <<applyVars, opState, opAttempt, opRemote, taskState, stopReq,
                 remoteVars, dr, published, faults>>

\* A heartbeat that finds the lease lost cancels the drive.
AbortLostLease(d) ==
  /\ dr[d].pc \in DrivePC /\ ~dr[d].lease
  /\ End(d)
  /\ UNCHANGED <<applyVars, opVars, taskState, stopReq, remoteVars,
                 published, faults>>

\* A minute without a heartbeat: certain once nobody drives the operation, a
\* fault (a stalled driver) otherwise.
Held(o) == \E d \in Drivers : dr[d].op = o /\ dr[d].lease
GoStale(o) ==
  /\ HeartbeatGated(o) /\ opFresh[o]
  /\ IF Held(o) THEN Fault ELSE UNCHANGED faults
  /\ opFresh' = [opFresh EXCEPT ![o] = FALSE]
  /\ UNCHANGED <<applyVars, opState, opAttempt, opRemote, taskState, stopReq,
                 remoteVars, dr, published>>

\* The parent row is not written for a minute, for a day. Only the claim and
\* the expiry of a retry look at its age.
SomeRetryable == \E o \in Ops : opState[o] = "failed_retryable"
ApplyGoesStale ==
  /\ SomeRetryable /\ applyAge = "fresh" /\ applyAge' = "stale"
  /\ UNCHANGED <<applyState, applyAttempt, opVars, taskState, stopReq,
                 remoteVars, dr, published, faults>>
ApplyAges ==
  /\ SomeRetryable /\ applyState = "failed_retryable"
  /\ applyAge = "stale" /\ applyAge' = "aged"
  /\ UNCHANGED <<applyState, applyAttempt, opVars, taskState, stopReq,
                 remoteVars, dr, published, faults>>

\* A pod dies: its drivers forget what they were doing.
Crash(d) ==
  /\ ~At(d, "idle") /\ Fault
  /\ End(d)
  /\ UNCHANGED <<applyVars, opVars, taskState, stopReq, remoteVars, published>>

\* A user asks for a stop. The handler validates the apply it read, then stores
\* the request.
ValidateStop ==
  /\ StopAllowed /\ stopReq = "none" /\ ~IsTerminal(applyState)
  /\ stopReq' = "validated"
  /\ UNCHANGED <<applyVars, opVars, taskState, remoteVars, dr, published,
                 faults>>
QueueStop ==
  /\ stopReq = "validated" /\ stopReq' = "pending"
  /\ UNCHANGED <<applyVars, opVars, taskState, remoteVars, dr, published,
                 faults>>

----------------------------------------------------------------------------
\* The remote data plane.

\* A remote apply copies, swaps (at once, or when told to) and ends; it may
\* fail on the way. A queued stop is served before a cutover.
RemoteNext(o, k) ==
  LET stop == <<o, k>> \in remoteStop
      cut  == <<o, k>> \in remoteCut
  IN CASE remote[o][k] = "running" ->
            {"failed", IF Barrier THEN "waiting_for_cutover"
                                  ELSE "cutting_over"}
              \cup (IF stop THEN {StoppedState} ELSE {})
       [] remote[o][k] = "waiting_for_cutover" ->
            IF stop THEN {StoppedState} ELSE IF cut THEN {"cutting_over"} ELSE {}
       [] remote[o][k] = "cutting_over" -> {"completed", "failed"}
       [] OTHER -> {}

RemoteStep(o, k) ==
  /\ \E s \in RemoteNext(o, k) : remote' = [remote EXCEPT ![o][k] = s]
  /\ UNCHANGED <<applyVars, opVars, taskState, stopReq, remoteStop,
                 remoteCut, wholeRemote, dr, published, faults>>

----------------------------------------------------------------------------
\* The specification.

Claim(d, o) == \/ ClaimPending(d, o) \/ ClaimStale(d, o)
               \/ ClaimRetryable(d, o) \/ ClaimCutover(d, o)

DriveStep(d) ==
  \/ Load(d) \/ Mirror(d) \/ List(d) \/ UpdateDerivedState(d)
  \/ Scope(d) \/ CheckStop(d) \/ StopUndispatchedOperation(d)
  \/ SendStop(d) \/ StopProgress(d)
  \/ PrepareDispatch(d) \/ Dispatch(d) \/ PersistRemoteApplyID(d)
  \/ StartRemote(d) \/ Progress(d) \/ Preflight(d) \/ SendCutover(d)
  \/ MarkRemoteApplyFailed(d) \/ MarkOperation(d) \/ StopPendingSiblings(d)
  \/ Reload(d) \/ Publish(d) \/ Finish(d)
  \/ WholeDrive(d) \/ WholeStopTasks(d) \/ WholeStopApply(d)
  \/ WholeStopDone(d) \/ WholeStopOperations(d)
  \/ WholeDispatch(d) \/ WholePoll(d) \/ WholeFail(d)

Next ==
  \/ \E d \in Drivers, o \in Ops : Claim(d, o)
  \/ \E d \in Drivers : \/ ClaimStopReconciliation(d) \/ DriveStep(d)
                        \/ Heartbeat(d) \/ AbortLostLease(d) \/ Crash(d)
  \/ \E o \in Ops : GoStale(o)
  \/ \E o \in Ops, k \in Attempts : RemoteStep(o, k)
  \/ ExpireRetryable \/ ApplyGoesStale \/ ApplyAges
  \/ ValidateStop \/ QueueStop

Spec == Init /\ [][Next]_vars

\* Drivers poll, heartbeat and go on with their drive, an undriven operation's
\* heartbeat goes stale, a remote apply makes progress, and a validated stop is
\* stored. Faults, ageing and the user are not fair.
FairSpec ==
  /\ Spec
  /\ \A o \in Ops : /\ WF_vars(\E d \in Drivers : Claim(d, o))
                    /\ WF_vars(GoStale(o) /\ ~Held(o))
                    /\ \A k \in Attempts : WF_vars(RemoteStep(o, k))
  /\ \A d \in Drivers : /\ WF_vars(DriveStep(d)) /\ WF_vars(Heartbeat(d))
  /\ WF_vars(\E d \in Drivers : ClaimStopReconciliation(d))
  /\ WF_vars(ExpireRetryable) /\ WF_vars(ApplyGoesStale)
  /\ WF_vars(QueueStop)

----------------------------------------------------------------------------
TypeOK ==
  /\ applyState \in ApplyState /\ applyAttempt \in Attempts
  /\ applyAge \in {"fresh", "stale", "aged"}
  /\ opState \in [Ops -> ApplyState] /\ opFresh \in [Ops -> BOOLEAN]
  /\ opAttempt \in [Ops -> Attempts]
  /\ opRemote \in [Ops -> Attempts \cup {NoRemote}]
  /\ taskState \in [Ops -> TaskState]
  /\ stopReq \in {"none", "validated", "pending", "completed"}
  /\ remote \in [Ops -> [Attempts -> RemoteState]]
  /\ remoteStop \subseteq Ops \X Attempts
  /\ remoteCut \subseteq Ops \X Attempts
  /\ wholeRemote \in BOOLEAN
  /\ dr \in [Drivers -> Drive]
  /\ published \in Nat /\ faults \in 0..MaxFaults

----------------------------------------------------------------------------
\* Properties.

\* An operation that lets its successors go on.
Cleared(i) == \/ opState[i] = "completed"
              \/ OnFailure = "continue" /\ opState[i] = "failed"

\* The swap of j was asked for, has begun or is done.
SwapStarted(j) ==
  \E k \in Attempts : \/ <<j, k>> \in remoteCut
                      \/ remote[j][k] \in {"cutting_over", "completed"}

\* Under the barrier policy no deployment swaps before every earlier one is
\* done, whatever drivers crash, stall or lose their lease on the way
\* (FindNextApplyOperationCutover, triggerRemoteOperationCutover).
CutoverOrder ==
  Barrier => \A i, j \in Ops : i < j /\ SwapStarted(j) => Cleared(i)

\* Under the barrier policy two deployments never swap at the same time: "the
\* high-risk swaps never overlap" (FindNextApplyOperationCutover). With
\* on_failure "continue" they may: a lost poll fails the operation while its
\* remote is still swapping.
SwapsNeverOverlap ==
  Barrier => \A i, j \in Ops : \A k, l \in Attempts :
    remote[i][k] = "cutting_over" /\ remote[j][l] = "cutting_over" => i = j

\* Under the rolling policy nothing is dispatched to a deployment before every
\* earlier deployment is done (FindNextApplyOperation, dispatchPendingApply).
RollingOrder ==
  ~Barrier => \A i, j \in Ops :
    /\ i < j /\ Deployment[i] # Deployment[j]
    /\ \E k \in Attempts : remote[j][k] # "none"
    => Cleared(i)

\* Until a stop is asked for, an operation is parked, or claimed for its
\* cutover, only once the remote apply it points to has finished its copy
\* (pollForCompletion, markOperationFromOwnResult): a cutover never meets a
\* copying remote. After a stop it may: a driver that has lost its lease, and
\* read the parent when it was still pending, starts the stopped remote again.
ParkedIsReady ==
  Barrier /\ stopReq \in {"none", "validated"} => \A o \in Ops :
    opState[o] \in {"waiting_for_cutover", "cutting_over"}
      => /\ opRemote[o] # NoRemote
         /\ remote[o][opRemote[o]] \notin {"none", "running"}

\* What is reported completed is completed: the remote apply the operation row
\* points to has completed for a completed operation, and all have for a
\* completed apply (markOperationFromOwnResult, UpdateDerivedState). Excepted
\* is an apply that was also dispatched as a whole.
RemoteCompleted(o) ==
  /\ opRemote[o] # NoRemote
  /\ remote[o][opRemote[o]] = "completed"
CompletedIsReal ==
  \/ wholeRemote
  \/ /\ \A o \in Ops : opState[o] = "completed" => RemoteCompleted(o)
     /\ applyState = "completed" => \A o \in Ops : RemoteCompleted(o)

\* A terminal summary is published at most once, for an apply that stays
\* terminal (publishTerminalSummaryIfWon).
SummaryOnce ==
  \/ wholeRemote
  \/ published <= 1 /\ (published = 1 => IsTerminal(applyState))

\* A terminal apply stays as it is, but for a failed rollout that "continue"
\* holds open (updateApplyStateFromOperations); a completed operation stays
\* completed.
TerminalFinal ==
  [][/\ ~wholeRemote /\ IsTerminal(applyState) /\ ~IsTerminal(applyState')
          => applyState = "failed" /\ applyState' = "running_degraded"
     /\ ~wholeRemote /\ applyState = "completed" => applyState' = "completed"
     /\ \A o \in Ops : opState[o] = "completed" => opState'[o] = "completed"
    ]_vars

\* A stop request is completed only for a terminal apply, and that apply is not
\* set going again (completePendingStopIfApplyResolved). With on_failure
\* "continue" a failed apply may still be held open afterwards.
StopCompletedTerminal ==
  stopReq = "completed" => wholeRemote \/ IsTerminal(applyState)

\* Every operation ends: it is started, parked, cut over and settled, and a
\* driver that gives it up leaves it for another (recoverApplies).
OperationsSettle == <>[](\A o \in Ops : IsTerminal(opState[o]))

----------------------------------------------------------------------------
\* What comments and documents of the code say and the code does not do.

============================================================================
