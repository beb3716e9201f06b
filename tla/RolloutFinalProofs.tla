------------------------- MODULE RolloutFinalProofs -------------------------
(***************************************************************************)
(* What stays: a parked operation has a remote that has finished its copy  *)
(* until a stop is asked for, and a terminal apply is final.               *)
(***************************************************************************)
EXTENDS RolloutEndProofs

\* A drive that serves a stop has seen one.
AskedInv ==
  \A d \in Drivers : dr[d].pc \in Asked => stopReq \in {"pending", "completed"}

LEMMA InitAsked == Init => AskedInv
BY DEF Init, AskedInv, Idle, Asked, WholePC

LEMMA StepAsked == TypeInv /\ AskedInv /\ [Next]_vars => AskedInv'
<1> SUFFICES ASSUME TypeInv, AskedInv, [Next]_vars,
                    NEW d \in Drivers, dr'[d].pc \in Asked
             PROVE  stopReq' \in {"pending", "completed"}
  BY DEF AskedInv, Asked, WholePC
<1>1. stopReq \in {"pending", "completed"}
  BY CarryStep DEF Carries, AskedInv, StopPending
<1> QED
  BY <1>1, RowStep DEF RowChange, StopChange

----------------------------------------------------------------------------
\* A parked operation is ready for its cutover.

\* Only a driver that serves a stop asks a remote apply to stop.
LEMMA RemoteStopChange ==
  ASSUME TypeInv, [Next]_vars
  PROVE  \/ remoteStop' \subseteq remoteStop
         \/ \E d \in Drivers : At(d, "sendStop")
<1> USE DEF applyVars, opVars, remoteVars
<1>1. ASSUME NEW d \in Drivers, DriveStep(d)
      PROVE  remoteStop' \subseteq remoteStop \/ At(d, "sendStop")
  <2>1. CASE SendStop(d)
    BY <2>1 DEF SendStop
  <2>2. CASE StartRemote(d)
    BY <2>2 DEF StartRemote
  <2>3. CASE \/ Load(d) \/ Mirror(d) \/ List(d) \/ UpdateDerivedState(d)
             \/ Scope(d) \/ CheckStop(d) \/ StopUndispatchedOperation(d)
             \/ StopProgress(d)
             \/ PrepareDispatch(d) \/ Dispatch(d) \/ PersistRemoteApplyID(d)
             \/ Progress(d) \/ Preflight(d) \/ SendCutover(d)
             \/ MarkRemoteApplyFailed(d)
    <3>1. UNCHANGED remoteStop
      BY <2>3, Zenon DEF Load, Mirror, List, UpdateDerivedState, Scope,
         CheckStop, StopUndispatchedOperation, StopProgress,
         PrepareDispatch, Dispatch, PersistRemoteApplyID,
         Progress, Preflight, SendCutover, MarkRemoteApplyFailed
    <3> QED
      BY <3>1
  <2>4. CASE \/ MarkOperation(d) \/ StopPendingSiblings(d)
             \/ Reload(d) \/ Publish(d) \/ Finish(d)
             \/ WholeDrive(d) \/ WholeStopTasks(d) \/ WholeStopApply(d)
             \/ WholeStopDone(d) \/ WholeStopOperations(d)
             \/ WholeDispatch(d) \/ WholePoll(d) \/ WholeFail(d)
    <3>1. UNCHANGED remoteStop
      BY <2>4, Zenon DEF MarkOperation, StopPendingSiblings, Reload, Publish,
         Finish, WholeDrive, WholeStopTasks, WholeStopApply, WholeStopDone,
         WholeStopOperations, WholeDispatch, WholePoll, WholeFail
    <3> QED
      BY <3>1
  <2> QED
    BY <1>1, <2>1, <2>2, <2>3, <2>4 DEF DriveStep
<1>2. CASE \/ \E d \in Drivers, o \in Ops : Claim(d, o)
           \/ \E d \in Drivers : ClaimStopReconciliation(d)
  BY <1>2, Zenon
     DEF Claim, ClaimPending, ClaimStale, ClaimRetryable, ClaimCutover,
         ClaimStopReconciliation
<1>3. CASE \/ \E d \in Drivers : Heartbeat(d) \/ AbortLostLease(d) \/ Crash(d)
           \/ \E o \in Ops : GoStale(o)
           \/ \E o \in Ops, k \in Attempts : RemoteStep(o, k)
           \/ ExpireRetryable \/ ApplyGoesStale \/ ApplyAges
           \/ ValidateStop \/ QueueStop \/ UNCHANGED vars
  BY <1>3 DEF Heartbeat, AbortLostLease, Crash, GoStale, RemoteStep,
     ExpireRetryable, ApplyGoesStale, ApplyAges, ValidateStop, QueueStop, vars
<1> QED
  BY <1>1, <1>2, <1>3 DEF Next

\* No stop has been stored yet.
Unasked == stopReq \in {"none", "validated"}

\* The remote apply of the operation has finished its copy.
Copied(o) == /\ opRemote[o] # NoRemote
             /\ remote[o][opRemote[o]] \notin {"none", "running"}

\* Before a stop no remote apply is asked to stop or has stopped, so one that has
\* finished its copy does not copy again. A task waits for the cutover once its
\* remote does, and the row follows the task.
ReadyInv ==
  Unasked => /\ remoteStop = {}
             /\ \A o \in Ops :
                  /\ \A k \in Attempts : remote[o][k] # "stopped"
                  /\ taskState[o] = "waiting_for_cutover" => Copied(o)
                  /\ opState[o] \in {"waiting_for_cutover", "cutting_over"}
                       => Copied(o)

LEMMA InitReady == Init => ReadyInv
BY DEF Init, ReadyInv

\* A row is parked only for a task that waits.
LEMMA DeriveWaiting ==
  \A s : DeriveApplyState({s}) = "waiting_for_cutover"
           => s = "waiting_for_cutover"
<1> SUFFICES ASSUME NEW s, DeriveApplyState({s}) = "waiting_for_cutover"
             PROVE  s = "waiting_for_cutover"
  OBVIOUS
<1> DEFINE n == normalizeApplyState(s)
<1>1. {normalizeApplyState(t) : t \in {s}} = {n}
  OBVIOUS
<1>2. n = "waiting_for_cutover"
  <2> HIDE DEF n
  <2> QED
    BY <1>1 DEF DeriveApplyState
<1> QED
  BY <1>2 DEF normalizeApplyState

LEMMA StepReady == TypeInv /\ AskedInv /\ ReadyInv /\ [Next]_vars => ReadyInv'
<1> SUFFICES ASSUME TypeInv, AskedInv, ReadyInv, [Next]_vars, Unasked'
             PROVE  /\ remoteStop' = {}
                    /\ \A o \in Ops :
                         /\ \A k \in Attempts : remote'[o][k] # "stopped"
                         /\ taskState'[o] = "waiting_for_cutover" => Copied(o)'
                         /\ opState'[o] \in {"waiting_for_cutover",
                                             "cutting_over"} => Copied(o)'
  BY DEF ReadyInv
<1>1. Unasked
  BY RowStep DEF RowChange, StopChange, Unasked
<1>2. remoteStop = {} /\ remoteStop' = {}
  <2>1. \A d \in Drivers : ~At(d, "sendStop")
    BY <1>1 DEF AskedInv, Asked, Unasked, At
  <2> QED
    BY <1>1, <2>1, RemoteStopChange DEF ReadyInv
<1> SUFFICES ASSUME NEW o \in Ops
             PROVE  /\ \A k \in Attempts : remote'[o][k] # "stopped"
                    /\ taskState'[o] = "waiting_for_cutover" => Copied(o)'
                    /\ opState'[o] \in {"waiting_for_cutover", "cutting_over"}
                         => Copied(o)'
  BY <1>2
<1>3. ASSUME NEW k \in Attempts
      PROVE  /\ remote'[o][k] # "stopped"
             /\ remote[o][k] \notin {"none", "running"}
                  => remote'[o][k] \notin {"none", "running"}
  <2>1. remote[o][k] # "stopped" /\ RemoteChange(o, k)
    BY <1>1, RemoteSteps DEF ReadyInv
  <2>2. /\ "stopped" \notin RemoteNext(o, k)
        /\ RemoteNext(o, k) \cap {"none", "running"} = {}
    BY <1>2, PolicyAssumption DEF RemoteNext
  <2> QED
    BY <2>1, <2>2 DEF RemoteChange
<1>4. Copied(o) => Copied(o)'
  <2>1. Copied(o) => opRemote[o] \in Attempts /\ opRemote'[o] = opRemote[o]
    BY RemoteSteps DEF Copied, Kept, TypeInv, RowsOK
  <2> QED
    BY <1>3, <2>1 DEF Copied
<1>5. taskState'[o] = "waiting_for_cutover" => Copied(o)'
  <2>1. taskState'[o] = "waiting_for_cutover" =>
          taskState[o] = "waiting_for_cutover"
            \/ RemoteIs(o, "waiting_for_cutover")
    BY RowStep DEF RowChange, TaskChange
  <2> QED
    BY <1>1, <1>4, <2>1 DEF ReadyInv, RemoteIs, Copied
<1>6. ASSUME opState'[o] \in {"waiting_for_cutover", "cutting_over"}
      PROVE  Copied(o)'
  <2>1. CASE opState[o] \in {"waiting_for_cutover", "cutting_over"}
    BY <1>1, <1>4, <2>1 DEF ReadyInv
  <2>2. CASE opState[o] \notin {"waiting_for_cutover", "cutting_over"}
    <3>1. PICK d \in Drivers : dr[d].op = o /\ Settles(d, opState'[o])
      BY <1>6, <2>2, OperationStep DEF OpChange
    <3>2. DeriveApplyState({taskState[o]}) = "waiting_for_cutover"
      BY <1>6, <3>1, PolicyAssumption, NeverSettledCutting
         DEF Settles, IsTerminal, TerminalApplyState
    <3>3. taskState[o] = "waiting_for_cutover"
      BY <3>2, DeriveWaiting
    <3> QED
      BY <1>1, <1>4, <3>3 DEF ReadyInv
  <2> QED
    BY <2>1, <2>2
<1> QED
  BY <1>3, <1>5, <1>6

\* Until a stop is asked for, an operation is parked, or claimed for its cutover,
\* only once its remote apply has finished its copy, whatever drivers crash,
\* stall or lose their lease (pollForCompletion, markOperationFromOwnResult).
THEOREM ParkedIsReadyHolds == Spec => []ParkedIsReady
<1>1. ReadyInv => ParkedIsReady
  BY DEF ReadyInv, Unasked, Copied, ParkedIsReady
<1> QED
  BY <1>1, InitType, InitAsked, InitReady, StepType, StepAsked, StepReady, PTL
     DEF Spec

----------------------------------------------------------------------------
\* A terminal apply is final.

\* An operation that has not started has no driver and no remote apply.
PendingInv ==
  \A o \in Ops : opState[o] = "pending" =>
    opRemote[o] = NoRemote /\ \A d \in Drivers : dr[d].op # o

LEMMA InitPending == Init => PendingInv
BY OpsAssumption DEF Init, PendingInv, Idle

\* What a step does to the drivers of one operation.
LEMMA DriversOf ==
  ASSUME TypeInv, [Next]_vars, NEW o \in Ops, NEW e \in Drivers, dr'[e].op = o
  PROVE  \/ dr[e].op = o /\ (Behind(dr[e]) => Behind(dr'[e]))
         \/ /\ dr'[e].pc = "load" /\ opState'[o] # "pending"
            /\ ~IsTerminal(opState[o])
            /\ opState[o] = "pending" => ~StopPending
<1>0. o # 0
  BY OpsAssumption
<1>1. CASE \A f \in Drivers : Moves(dr[f], dr'[f])
  BY <1>0, <1>1 DEF Moves
<1>2. ASSUME NEW d \in Drivers \ {e}, NEW p, NEW r, Lease(d, p, r)
      PROVE  dr[e].op = o /\ (Behind(dr[e]) => Behind(dr'[e]))
  BY <1>2, LeaseOthers DEF Behind, Settled
<1>3. CASE \E d \in Drivers, p \in Ops, cut \in BOOLEAN : Claims(d, p, cut)
  <2>1. PICK d \in Drivers, p \in Ops, cut \in BOOLEAN : Claims(d, p, cut)
    BY <1>3
  <2>2. CASE d = e
    <3>1. dr'[e] = Claimed(p, cut)
      BY <2>1, <2>2, LeaseOthers DEF Claims
    <3>2. p = o /\ dr'[e].pc = "load"
      BY <3>1 DEF Claimed, Idle
    <3> QED
      BY <2>1, <3>2 DEF Claims
  <2> QED
    BY <1>2, <2>1, <2>2 DEF Claims
<1>4. CASE \E d \in Drivers :
             Lease(d, 0, [Idle EXCEPT !.pc = "whole", !.lease = TRUE,
                                      !.mem = applyState])
  <2>1. PICK r : /\ r = [Idle EXCEPT !.pc = "whole", !.lease = TRUE,
                                     !.mem = applyState]
                 /\ \E d \in Drivers : Lease(d, 0, r)
    BY <1>4
  <2>2. PICK d \in Drivers : Lease(d, 0, r)
    BY <2>1
  <2>3. r.op = 0
    BY <2>1 DEF Idle
  <2>4. d # e
    BY <1>0, <2>2, <2>3, LeaseOthers
  <2> QED
    BY <1>2, <2>2, <2>4
<1> QED
  BY <1>1, <1>3, <1>4, DriverStep

LEMMA StepPending == TypeInv /\ PendingInv /\ [Next]_vars => PendingInv'
<1> SUFFICES ASSUME TypeInv, PendingInv, [Next]_vars,
                    NEW o \in Ops, opState'[o] = "pending"
             PROVE  opRemote'[o] = NoRemote /\ \A d \in Drivers : dr'[d].op # o
  BY DEF PendingInv
<1>1. \A d \in Drivers : ~Settles(d, "pending")
  BY PolicyAssumption DEF Settles, IsTerminal, TerminalApplyState, Persisted
<1>2. opState[o] = "pending"
  BY <1>1, OperationStep DEF OpChange
<1>3. opRemote[o] = NoRemote /\ \A d \in Drivers : dr[d].op # o
  BY <1>2 DEF PendingInv
<1>4. opRemote'[o] = NoRemote
  BY <1>3, RemoteSteps DEF IdChange
<1>5. \A d \in Drivers : dr'[d].op # o
  BY <1>3, DriversOf
<1> QED
  BY <1>4, <1>5

\* A completed apply, or one about to be made or found so, has only completed
\* operations: the state derived from them is the one it has. A terminal apply
\* is reopened only when a failure is tolerated.
AllDone == \A o \in Ops : opState[o] = "completed"

ReopenInv ==
  \A d \in Drivers :
    At(d, "cas") /\ IsTerminal(dr[d].snap) /\ ~IsTerminal(dr[d].rep)
      => dr[d].snap = "failed" /\ dr[d].rep = "running_degraded"

DoneInv ==
  \/ wholeRemote
  \/ /\ applyState = "completed" => AllDone
     /\ \A d \in Drivers :
          /\ dr[d].pc \in {"mirror", "list"} /\ dr[d].snap = "completed"
               => AllDone
          /\ At(d, "cas") => dr[d].snap # "completed"
          /\ At(d, "cas") /\ dr[d].rep = "completed" => AllDone

LEMMA InitDone == Init => DoneInv /\ ReopenInv
BY DEF Init, DoneInv, ReopenInv, At, Idle

LEMMA StepReopen == TypeInv /\ ReopenInv /\ [Next]_vars => ReopenInv'
<1> SUFFICES ASSUME TypeInv, ReopenInv, [Next]_vars, NEW d \in Drivers,
                    dr'[d].pc = "cas", IsTerminal(dr'[d].snap),
                    ~IsTerminal(dr'[d].rep)
             PROVE  dr'[d].snap = "failed" /\ dr'[d].rep = "running_degraded"
  BY DEF ReopenInv, At
<1>1. Carries(dr[d], dr'[d])
  BY CarryStep
<1> QED
  BY <1>1 DEF Carries, Derives, ReopenInv, At

\* Children that are all completed make a completed parent.
LEMMA AllDoneDerives == AllDone => Derived = "completed"
<1> SUFFICES ASSUME AllDone PROVE Derived = "completed"
  OBVIOUS
<1>1. Ops # {}
  BY OpsAssumption
<1>2. DOMAIN Children = Ops /\ \A i \in Ops : Children[i].state = "completed"
  BY Zenon DEF Children, AllDone
<1>3. {Children[i].state : i \in DOMAIN Children} = {"completed"}
  BY <1>1, <1>2
<1>4. {normalizeApplyState(s) : s \in {"completed"}} = {"completed"}
  BY DEF normalizeApplyState
<1>5. DeriveApplyState({"completed"}) = "completed"
  BY <1>4 DEF DeriveApplyState
<1> QED
  BY <1>3, <1>5 DEF Derived, DeriveRolloutApplyState

LEMMA StepDone == TypeInv /\ LeaseInv /\ RealInv /\ DoneInv /\ [Next]_vars
                    => DoneInv'
<1> SUFFICES ASSUME TypeInv, LeaseInv, RealInv, DoneInv, [Next]_vars,
                    ~wholeRemote'
             PROVE  DoneInv'
  BY DEF DoneInv
<1>0. ~wholeRemote
  BY WholeStays
<1>1. AllDone => AllDone'
  BY CompletedStays DEF AllDone
<1>2. \A d \in Drivers : ~At(d, "wholePoll")
  BY <1>0 DEF RealInv
<1>3. applyState' = "completed" => AllDone'
  <2>1. applyState' = "completed" =>
          \/ applyState = "completed"
          \/ \E d \in Drivers : At(d, "cas") /\ dr[d].rep = "completed"
    BY <1>2, RowStep, PolicyAssumption DEF RowChange, ParentChange
  <2> QED
    BY <1>0, <1>1, <2>1 DEF DoneInv
<1>4. ASSUME NEW d \in Drivers
      PROVE  /\ dr'[d].pc \in {"mirror", "list"} /\ dr'[d].snap = "completed"
                  => AllDone'
             /\ dr'[d].pc = "cas" => dr'[d].snap # "completed"
             /\ dr'[d].pc = "cas" /\ dr'[d].rep = "completed" => AllDone'
  <2>0. Carries(dr[d], dr'[d])
    BY CarryStep
  <2>1. dr'[d].pc \in {"mirror", "list"} /\ dr'[d].snap = "completed"
          => AllDone'
    BY <1>0, <1>1, <2>0 DEF Carries, DoneInv
  <2>2. dr'[d].pc = "cas" => dr'[d].snap # "completed"
    BY <1>0, <2>0, AllDoneDerives DEF Carries, Derives, DoneInv, At
  <2>3. Derived = "completed" => AllDone
    BY DeriveCompleted DEF AllDone
  <2>4. dr'[d].pc = "cas" /\ dr'[d].rep = "completed" => AllDone'
    BY <1>0, <1>1, <2>0, <2>3 DEF Carries, Derives, DoneInv, At
  <2> QED
    BY <2>1, <2>2, <2>4
<1> QED
  BY <1>3, <1>4 DEF DoneInv, At

\* An operation that will never have a remote apply: it is to be settled without
\* one, by drivers that meet a terminal parent.
Doomed(o) ==
  /\ opRemote[o] = NoRemote
  /\ opState[o] = "pending" \/ IsTerminal(opState[o]) \/ stopReq = "completed"
  /\ \A e \in Drivers : dr[e].op = o => Behind(dr[e])

\* While a whole drive is on its way to stop the apply, such an operation exists:
\* the one that was pending when the drive claimed the apply.
DoomedInv ==
  \/ wholeRemote
  \/ (\E d \in Drivers : dr[d].pc \in SavePC) => \E o \in Ops : Doomed(o)

LEMMA InitDoomed == Init => DoomedInv
BY DEF Init, DoomedInv, Idle, SavePC

LEMMA DoomedStays ==
  ASSUME TypeInv, PendingInv, [Next]_vars, NEW o \in Ops, Doomed(o),
         stopReq \in {"pending", "completed"},
         stopReq = "completed" => IsTerminal(applyState),
         IsTerminal(applyState) => IsTerminal(applyState')
  PROVE  Doomed(o)'
<1>1. opRemote'[o] = NoRemote
  <2>1. \A d \in Drivers : dr[d].op = o => ~At(d, "persist")
    BY DEF Doomed, Behind, Settled, SettlePC, At
  <2> QED
    BY <2>1, RemoteSteps DEF IdChange, Doomed
<1>2. stopReq = "completed" => stopReq' = "completed"
  BY RowStep DEF RowChange, StopChange, StopPending
<1>3. \/ opState'[o] = "pending" \/ IsTerminal(opState'[o])
      \/ stopReq' = "completed"
  <2>1. CASE stopReq = "completed"
    BY <1>2, <2>1
  <2>2. CASE StopPending
    <3>1. opState[o] = "pending" \/ IsTerminal(opState[o])
      BY <2>2 DEF Doomed, StopPending
    <3>2. ASSUME NEW d \in Drivers, dr[d].op = o, Settles(d, opState'[o])
          PROVE  IsTerminal(opState'[o])
      <4>1. ~At(d, "mark")
        BY <3>2 DEF Doomed, Behind, Settled, SettlePC, At
      <4> QED
        BY <3>2, <4>1, PolicyAssumption
           DEF Settles, IsTerminal, TerminalApplyState
    <3> QED
      BY <2>2, <3>1, <3>2, OperationStep
         DEF OpChange, IsTerminal, TerminalApplyState
  <2> QED
    BY <2>1, <2>2 DEF StopPending
<1>4. ASSUME NEW e \in Drivers, dr'[e].op = o
      PROVE  Behind(dr[e])'
  <2>1. Behind(dr'[e]) => Behind(dr[e])'
    BY DEF Behind, Settled
  <2>2. CASE dr[e].op = o /\ (Behind(dr[e]) => Behind(dr'[e]))
    BY <2>1, <2>2 DEF Doomed
  <2>3. CASE /\ dr'[e].pc = "load" /\ ~IsTerminal(opState[o])
             /\ opState[o] = "pending" => ~StopPending
    <3>1. stopReq = "completed"
      BY <2>3 DEF Doomed, StopPending
    <3> QED
      BY <2>3, <3>1 DEF Behind
  <2> QED
    BY <1>4, <2>2, <2>3, DriversOf
<1> QED
  BY <1>1, <1>3, <1>4 DEF Doomed

LEMMA StepDoomed ==
  ASSUME OnFailure # "continue"
  PROVE  TypeInv /\ RealInv /\ EndInv /\ AskedInv /\ PendingInv /\ DoomedInv
           /\ [Next]_vars => DoomedInv'
<1> SUFFICES ASSUME TypeInv, RealInv, EndInv, AskedInv, PendingInv, DoomedInv,
                    [Next]_vars, ~wholeRemote',
                    NEW d \in Drivers, dr'[d].pc \in SavePC
             PROVE  \E o \in Ops : Doomed(o)'
  BY DEF DoomedInv, SavePC
<1>0. ~wholeRemote
  BY WholeStays
<1>1. Carries(dr[d], dr'[d])
  BY CarryStep
<1>2. stopReq \in {"pending", "completed"}
  BY <1>1 DEF Carries, AskedInv, SavePC, Asked, WholePC, StopPending
<1>3. IsTerminal(applyState) => IsTerminal(applyState')
  <2>1. IsTerminal(StoppedState) /\ IsTerminal("failed") /\ ~IsTerminal("pending")
    BY PolicyAssumption DEF IsTerminal, TerminalApplyState
  <2>2. \A e \in Drivers : ~At(e, "wholePoll")
    BY <1>0 DEF RealInv
  <2> QED
    BY <1>0, <2>1, <2>2, RowStep DEF RowChange, ParentChange, EndInv
<1>4. PICK o \in Ops : Doomed(o)
  BY <1>0, <1>1 DEF Carries, DoomedInv, PendingInv, Doomed
<1>5. stopReq = "completed" => IsTerminal(applyState)
  BY <1>0 DEF EndInv
<1> QED
  BY <1>2, <1>3, <1>4, <1>5, DoomedStays

FinalInv == /\ TypeInv /\ LeaseInv /\ RealInv /\ EndInv /\ AskedInv
            /\ PendingInv /\ ReopenInv /\ DoneInv /\ DoomedInv

Final == /\ ~wholeRemote /\ IsTerminal(applyState) /\ ~IsTerminal(applyState')
              => applyState = "failed" /\ applyState' = "running_degraded"
         /\ ~wholeRemote /\ applyState = "completed"
              => applyState' = "completed"
         /\ \A o \in Ops : opState[o] = "completed" => opState'[o] = "completed"

LEMMA FinalStep == FinalInv /\ [Next]_vars => Final
<1> SUFFICES ASSUME FinalInv, [Next]_vars PROVE Final
  OBVIOUS
<1> USE DEF FinalInv
<1>1. \A o \in Ops : opState[o] = "completed" => opState'[o] = "completed"
  BY CompletedStays
<1>2. IsTerminal(StoppedState) /\ IsTerminal("failed") /\ IsTerminal("completed")
        /\ ~IsTerminal("pending")
  BY PolicyAssumption DEF IsTerminal, TerminalApplyState
<1>3. ~wholeRemote => \A d \in Drivers : ~At(d, "wholePoll")
  BY DEF RealInv
<1>4. /\ ~wholeRemote /\ IsTerminal(applyState) /\ ~IsTerminal(applyState')
      => applyState = "failed" /\ applyState' = "running_degraded"
  BY <1>2, <1>3, RowStep DEF RowChange, ParentChange, ReopenInv
<1>5. ASSUME ~wholeRemote, applyState = "completed"
      PROVE  applyState' = "completed"
  <2>1. \A d \in Drivers : ~At(d, "wholeSave")
    <3>1. \A o \in Ops : ~Doomed(o)
      BY <1>5 DEF RealInv, AllCompleted, RemoteCompleted, Doomed
    <3> QED
      BY <1>5, <3>1 DEF DoomedInv, At, SavePC
  <2>2. \A d \in Drivers : At(d, "cas") => dr[d].snap # "completed"
    BY <1>5 DEF DoneInv
  <2> QED
    BY <1>2, <1>3, <1>5, <2>1, <2>2, RowStep DEF RowChange, ParentChange
<1> QED
  BY <1>1, <1>4, <1>5 DEF Final

\* A terminal apply stays as it is, and so does a completed operation, unless
\* on_failure holds failed rollouts open (updateApplyStateFromOperations). The
\* exception is an apply that was also dispatched as a whole.
THEOREM TerminalFinalHolds ==
  ASSUME OnFailure # "continue"
  PROVE  Spec => TerminalFinal
<1>1. Init => FinalInv
  BY InitType, InitLease, InitReal, InitEnd, InitAsked, InitPending, InitDone,
     InitDoomed DEF FinalInv
<1>2. FinalInv /\ [Next]_vars => FinalInv'
  BY StepType, StepLease, StepReal, StepEnd, StepAsked, StepPending, StepReopen,
     StepDone, StepDoomed DEF FinalInv
<1>3. FinalInv /\ [Next]_vars => [Final]_vars
  BY FinalStep
<1>4. [][Final]_vars => TerminalFinal
  BY PTL DEF Final, TerminalFinal
<1> QED
  BY <1>1, <1>2, <1>3, <1>4, PTL DEF Spec
============================================================================
