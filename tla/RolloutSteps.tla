---------------------------- MODULE RolloutSteps ----------------------------
(***************************************************************************)
(* What one step of the rollout may do to an operation row, to a driver,   *)
(* to the parent row, to a remote apply and to a task. The proofs of the   *)
(* safety properties rest on these facts and not on the single actions.    *)
(***************************************************************************)
EXTENDS RolloutTypeProofs

\* The driver has written its operation row and will not write it again.
Settled(r) == \/ r.pc \in SettlePC
              \/ r.pc \in {"list", "cas"} /\ r.then \in {"finish", "mirrored"}

\* The driver will settle its operation without going to its remote.
Behind(r) == \/ Settled(r) \/ r.pc = "mirror"
             \/ r.pc = "load" /\ IsTerminal(applyState)

\* A driver that does not claim gives up, or stays with its operation; it gains
\* neither a lease nor the right to cut over, and goes to its remote only past
\* an active parent.
Moves(s, r) ==
  /\ r.op \in {s.op, 0}
  /\ r.lease => s.lease /\ r.op = s.op
  /\ r.cut => s.cut /\ r.op = s.op
  /\ Settled(s) /\ r.lease => Settled(r)
  /\ Behind(s) /\ r.op # 0 => Behind(r)

LEMMA IdleMoves == \A s : Moves(s, Idle)
BY DEF Moves, Idle

LEMMA ToMarkMoves ==
  ASSUME NEW d \in Drivers, ~Settled(dr[d]), ~Behind(dr[d])
  PROVE  /\ Moves(dr[d], ToMark(d))
         /\ \A s : Moves(dr[d], ToFail(d, s))
BY Zenon DEF Moves, ToMark, ToFail, Idle

LEMMA ProjectionMoves ==
  ASSUME TypeInv, NEW d \in Drivers,
         Load(d) \/ Mirror(d) \/ List(d) \/ UpdateDerivedState(d)
  PROVE  \E r : Goto(d, r) /\ Moves(dr[d], r)
<1>0. dr[d] \in Drive /\ Shape(dr[d])
  BY DEF TypeInv, DriversOK, Good
<1>1. CASE Load(d)
  <2>1. /\ Moves(dr[d], [dr[d] EXCEPT !.pc = "mirror", !.snap = applyState])
        /\ ~IsTerminal(applyState) =>
             Moves(dr[d], [dr[d] EXCEPT !.pc = "list", !.then = "drive",
                                       !.snap = applyState, !.mem = applyState])
    BY <1>0, <1>1 DEF Load, At, Moves, Settled, Behind, SettlePC, Drive
  <2> QED
    BY <1>1, <2>1 DEF Load
<1>2. CASE Mirror(d)
  <2>1. Moves(dr[d], [dr[d] EXCEPT !.pc = "list", !.then = "mirrored"])
    BY <1>0, <1>2 DEF Mirror, At, Moves, Settled, Behind, SettlePC, Drive
  <2> QED
    BY <1>2, <2>1, IdleMoves DEF Mirror, End
<1>3. ASSUME dr[d].pc \in {"list", "cas"} PROVE Moves(dr[d], AfterProjection(d))
  <2>1. CASE dr[d].then = "drive"
    BY <1>0, <1>3, <2>1
       DEF AfterProjection, Moves, Settled, Behind, SettlePC, Drive
  <2>2. CASE dr[d].then = "finish"
    BY <1>0, <1>3, <2>2
       DEF AfterProjection, Moves, Settled, Behind, SettlePC, ToMark, Idle
  <2>3. CASE dr[d].then \notin {"drive", "finish"}
    BY <2>3, IdleMoves DEF AfterProjection
  <2> QED
    BY <2>1, <2>2, <2>3
<1>4. CASE List(d)
  <2>1. Moves(dr[d], [dr[d] EXCEPT !.pc = "cas", !.rep = Derived])
    BY <1>0, <1>4 DEF List, At, Moves, Settled, Behind, SettlePC, Drive
  <2> QED
    BY <1>3, <1>4, <2>1, IdleMoves DEF List, At
<1>5. CASE UpdateDerivedState(d)
  <2>1. dr[d].then = "finish"
          => Moves(dr[d], [ToMark(d) EXCEPT !.pc = "publish"])
    BY <1>0, <1>5
       DEF UpdateDerivedState, At, Moves, Settled, Behind, SettlePC, ToMark,
           Idle
  <2> QED
    BY <1>3, <1>5, <2>1, IdleMoves DEF UpdateDerivedState, At
<1> QED
  BY <1>1, <1>2, <1>4, <1>5

LEMMA DrivingMoves ==
  ASSUME TypeInv, NEW d \in Drivers,
         \/ Scope(d) \/ CheckStop(d) \/ StopUndispatchedOperation(d)
         \/ SendStop(d) \/ StopProgress(d)
         \/ PrepareDispatch(d) \/ Dispatch(d) \/ PersistRemoteApplyID(d)
         \/ StartRemote(d) \/ Progress(d) \/ Preflight(d) \/ SendCutover(d)
         \/ MarkRemoteApplyFailed(d)
  PROVE  \E r : Goto(d, r) /\ Moves(dr[d], r)
<1> DEFINE Drives(r) == /\ r.op = dr[d].op /\ r.lease = dr[d].lease
                        /\ r.cut = dr[d].cut
<1>0. dr[d] \in Drive /\ dr[d].pc \in DrivePC
  BY DEF TypeInv, DriversOK, Good, Scope, CheckStop, StopUndispatchedOperation,
     SendStop, StopProgress, PrepareDispatch, Dispatch, PersistRemoteApplyID,
     StartRemote, Progress, Preflight, SendCutover, MarkRemoteApplyFailed, At,
     DrivePC
<1>a. ~Settled(dr[d]) /\ ~Behind(dr[d])
  BY <1>0 DEF Settled, Behind, SettlePC, DrivePC
<1>b. \A r : Drives(r) => Moves(dr[d], r)
  BY <1>a DEF Moves
<1>c. /\ Moves(dr[d], ToMark(d)) /\ Moves(dr[d], ToFail(d, "failed"))
      /\ Moves(dr[d], ToFail(d, "failed_retryable"))
  BY <1>a, ToMarkMoves
<1>d. \A t, m : /\ Moves(dr[d], ToCheck(d, t))
                /\ Moves(dr[d], [ToCheck(d, t) EXCEPT !.mem = m])
  <2>1. \A t, m : Drives(ToCheck(d, t)) /\ Drives([ToCheck(d, t) EXCEPT !.mem = m])
    BY <1>0 DEF ToCheck, Drive
  <2> HIDE DEF Drives
  <2> QED
    BY <1>b, <2>1
<1>1. CASE Scope(d)
  <2> DEFINE q == opRemote[dr[d].op]
             k == IF q = NoRemote THEN opAttempt[dr[d].op] ELSE 0
             r == [dr[d] EXCEPT !.pc = "check", !.rid = q, !.att = k]
  <2>1. \A t : Drives([r EXCEPT !.then = t])
    BY <1>0 DEF Drive
  <2>2. Drives([r EXCEPT !.then = "fail", !.rep = "failed"])
    BY <1>0 DEF Drive
  <2>3. /\ \A t : Moves(dr[d], [r EXCEPT !.then = t])
        /\ Moves(dr[d], [r EXCEPT !.then = "fail", !.rep = "failed"])
    <3> HIDE DEF Drives, r
    <3> QED
      BY <1>b, <2>1, <2>2
  <2>4. \/ \E t : Goto(d, [r EXCEPT !.then = t])
        \/ Goto(d, [r EXCEPT !.then = "fail", !.rep = "failed"])
        \/ Goto(d, ToMark(d))
    <3>1. CASE dr[d].cut
      BY <1>1, <3>1, Zenon DEF Scope
    <3>2. CASE ~dr[d].cut
      BY <1>1, <3>2, Zenon DEF Scope
    <3> QED
      BY <3>1, <3>2, Zenon
  <2> HIDE DEF r
  <2> QED
    BY <1>c, <2>3, <2>4
<1>2. CASE CheckStop(d)
  <2>1. /\ Drives([dr[d] EXCEPT !.pc = dr[d].then, !.then = "idle"])
        /\ \A p : Drives([dr[d] EXCEPT !.pc = p])
    BY <1>0 DEF Drive
  <2> QED
    BY <1>2, <1>b, <1>c, <2>1 DEF CheckStop
<1>3. CASE StopUndispatchedOperation(d) \/ MarkRemoteApplyFailed(d)
  BY <1>3, <1>c DEF StopUndispatchedOperation, MarkRemoteApplyFailed
<1>4. CASE SendStop(d)
  <2>1. /\ Drives([dr[d] EXCEPT !.pc = "stopProgress"])
        /\ Drives([dr[d] EXCEPT !.pc = "stopProgress", !.rep = "error"])
    BY <1>0 DEF Drive
  <2> QED
    BY <1>4, <1>b, <2>1 DEF SendStop
<1>5. CASE StopProgress(d)
  <2>1. Drives([dr[d] EXCEPT !.pc = dr[d].then, !.then = "idle",
                  !.mem = applyStateFromRemoteProgress(@, Report(d))])
    BY <1>0 DEF Drive
  <2> QED
    BY <1>5, <1>b, <1>c, <2>1 DEF StopProgress, ReconcileTerminal
<1>6. CASE PrepareDispatch(d)
  BY <1>6, <1>c, <1>d DEF PrepareDispatch
<1>7. CASE Dispatch(d)
  <2>1. Drives([dr[d] EXCEPT !.pc = "persist"])
    BY <1>0 DEF Drive
  <2> QED
    BY <1>7, <1>b, <1>c, <2>1 DEF Dispatch, Goto
<1>8. CASE PersistRemoteApplyID(d)
  <2>1. Drives([dr[d] EXCEPT !.pc = "check", !.then = "progress",
                  !.rid = dr[d].att, !.att = 0, !.mem = "running"])
    BY <1>0 DEF Drive
  <2> QED
    BY <1>8, <1>b, <1>c, <2>1 DEF PersistRemoteApplyID
<1>9. CASE StartRemote(d)
  BY <1>9, <1>c, <1>d DEF StartRemote
<1>10. CASE Progress(d)
  BY <1>10, <1>c, <1>d DEF Progress, ReconcileTerminal
<1>11. CASE Preflight(d)
  BY <1>11, <1>c, <1>d DEF Preflight, ReconcileTerminal, Goto
<1>12. CASE SendCutover(d)
  BY <1>12, <1>c, <1>d DEF SendCutover
<1> QED
  BY <1>1, <1>2, <1>3, <1>4, <1>5, <1>6, <1>7, <1>8, <1>9, <1>10, <1>11, <1>12

LEMMA SettlingMoves ==
  ASSUME TypeInv, NEW d \in Drivers,
         \/ MarkOperation(d) \/ StopPendingSiblings(d) \/ Reload(d)
         \/ Publish(d) \/ Finish(d)
         \/ WholeDrive(d) \/ WholeStopTasks(d) \/ WholeStopApply(d)
         \/ WholeStopDone(d) \/ WholeStopOperations(d)
         \/ WholeDispatch(d) \/ WholePoll(d) \/ WholeFail(d)
         \/ AbortLostLease(d) \/ Crash(d)
  PROVE  \E r : Goto(d, r) /\ Moves(dr[d], r)
<1>0. dr[d] \in Drive
  BY DEF TypeInv, DriversOK, Good
<1>1. CASE \/ MarkOperation(d) \/ StopPendingSiblings(d) \/ Publish(d)
  <2>1. \A p \in SettlePC : Moves(dr[d], [dr[d] EXCEPT !.pc = p])
    BY <1>0 DEF Moves, Settled, Behind, Drive
  <2> QED
    BY <1>1, <2>1, IdleMoves
       DEF MarkOperation, StopPendingSiblings, Publish, SettlePC, End
<1>2. CASE Reload(d)
  <2>1. Moves(dr[d], [dr[d] EXCEPT !.pc = "list", !.then = "finish",
                                   !.snap = applyState])
    BY <1>0 DEF Moves, Settled, Behind, Drive
  <2> QED
    BY <1>2, <2>1 DEF Reload
<1>3. CASE Finish(d) \/ WholeFail(d) \/ AbortLostLease(d) \/ Crash(d)
  BY <1>3, IdleMoves DEF Finish, WholeFail, AbortLostLease, Crash, End
<1>4. CASE \/ WholeDrive(d) \/ WholeStopTasks(d) \/ WholeStopApply(d)
           \/ WholeStopDone(d) \/ WholeStopOperations(d)
           \/ WholeDispatch(d) \/ WholePoll(d)
  <2>1. dr[d].pc \in WholePC
    BY <1>4 DEF WholeDrive, WholeStopTasks, WholeStopApply, WholeStopDone,
                WholeStopOperations, WholeDispatch, WholePoll, At, WholePC
  <2>2. \A p : Moves(dr[d], [dr[d] EXCEPT !.pc = p])
    BY <1>0, <2>1 DEF Moves, Settled, Behind, SettlePC, WholePC, Drive
  <2>3. Moves(dr[d], dr[d])
    BY DEF Moves
  <2> QED
    BY <1>4, <2>2, <2>3, IdleMoves
       DEF WholeDrive, WholeStopTasks, WholeStopApply, WholeStopDone,
           WholeStopOperations, WholeDispatch, WholePoll, Onward, End
<1> QED
  BY <1>1, <1>2, <1>3, <1>4

\* A driver takes operation o, for its cutover or not.
Claims(d, o, cut) ==
  /\ At(d, "idle") /\ Lease(d, o, Claimed(o, cut))
  /\ ~IsTerminal(opState[o])
  /\ cut => /\ Barrier
            /\ opState[o] = "cutting_over" \/ \A i \in Ops : ~BlocksCutover(i, o)
  /\ ~cut /\ opState[o] = "pending" => \A i \in Ops : ~Blocks(i, o)
  /\ opState[o] = "pending" => ~StopPending
  /\ opState'[o] # "pending"

LEMMA ClaimStep ==
  ASSUME TypeInv, NEW d \in Drivers, NEW o \in Ops, Claim(d, o)
  PROVE  \E cut \in BOOLEAN : Claims(d, o, cut)
<1>0. opState \in [Ops -> ApplyState]
  BY DEF TypeInv, RowsOK
<1>1. CASE ClaimPending(d, o)
  BY <1>0, <1>1 DEF ClaimPending, Claims, IsTerminal, TerminalApplyState
<1>2. CASE ClaimStale(d, o)
  BY <1>2 DEF ClaimStale, HeartbeatGated, ClaimableState, Claims, IsTerminal,
              TerminalApplyState
<1>3. CASE ClaimRetryable(d, o)
  BY <1>3 DEF ClaimRetryable, Claims, IsTerminal, TerminalApplyState
<1>4. CASE ClaimCutover(d, o)
  BY <1>0, <1>4
     DEF ClaimCutover, Parked, Claims, IsTerminal, TerminalApplyState
<1> QED
  BY <1>1, <1>2, <1>3, <1>4 DEF Claim

\* Every step of a driver that is no claim.
LEMMA DriveMoves ==
  ASSUME TypeInv, NEW d \in Drivers,
         DriveStep(d) \/ AbortLostLease(d) \/ Crash(d)
  PROVE  \E r : Goto(d, r) /\ Moves(dr[d], r)
BY ProjectionMoves, DrivingMoves, SettlingMoves DEF DriveStep

\* What a step does to the drivers: one claims an operation, one claims the
\* apply, or each moves on.
LEMMA DriverStep ==
  ASSUME TypeInv, [Next]_vars
  PROVE  \/ \A e \in Drivers : Moves(dr[e], dr'[e])
         \/ \E d \in Drivers, o \in Ops, cut \in BOOLEAN : Claims(d, o, cut)
         \/ \E d \in Drivers :
              /\ At(d, "idle")
              /\ Lease(d, 0, [Idle EXCEPT !.pc = "whole", !.lease = TRUE,
                                          !.mem = applyState])
<1>0. \A s : Moves(s, s)
  BY DEF Moves
<1>1. ASSUME NEW d \in Drivers, DriveStep(d) \/ AbortLostLease(d) \/ Crash(d)
      PROVE  \A e \in Drivers : Moves(dr[e], dr'[e])
  <2>1. PICK r : Goto(d, r) /\ Moves(dr[d], r)
    BY <1>1, DriveMoves
  <2>2. \A e \in Drivers : dr'[e] = IF e = d THEN r ELSE dr[e]
    BY <2>1 DEF Goto, TypeInv, DriversOK
  <2> QED
    BY <1>0, <2>1, <2>2
<1>2. CASE UNCHANGED dr
  BY <1>0, <1>2
<1>3. CASE \E d \in Drivers, o \in Ops : Claim(d, o)
  BY <1>3, ClaimStep
<1>4. CASE \E d \in Drivers : ClaimStopReconciliation(d)
  BY <1>4 DEF ClaimStopReconciliation
<1>5. CASE \/ \E d \in Drivers : Heartbeat(d)
           \/ \E o \in Ops : GoStale(o)
           \/ \E o \in Ops, k \in Attempts : RemoteStep(o, k)
           \/ ExpireRetryable \/ ApplyGoesStale \/ ApplyAges
           \/ ValidateStop \/ QueueStop \/ UNCHANGED vars
  BY <1>2, <1>5 DEF Heartbeat, GoStale, RemoteStep, ExpireRetryable,
                    ApplyGoesStale, ApplyAges, ValidateStop, QueueStop, vars
<1> QED
  BY <1>1, <1>3, <1>4, <1>5 DEF Next

\* A driver settles its operation row: as the terminal parent, as stopped, or
\* as its own task.
Settles(d, s) ==
  /\ dr[d].lease /\ ~Settled(dr[d])
  /\ \/ s = StoppedState
     \/ /\ Settled(dr'[d])
        /\ \/ At(d, "mirror") /\ s = dr[d].snap /\ IsTerminal(s)
           \/ /\ At(d, "mark") /\ s \in Persisted
              /\ s = DeriveApplyState({taskState[dr[d].op]})

OpChange(o) ==
  \/ opState'[o] = opState[o]
  \/ /\ opState[o] = "pending" /\ opState'[o] = "running"
     /\ ~StopPending /\ \A i \in Ops : ~Blocks(i, o)
  \/ /\ opState[o] = "waiting_for_cutover" /\ opState'[o] = "cutting_over"
     /\ Barrier /\ \A i \in Ops : ~BlocksCutover(i, o)
  \/ opState[o] = "pending" /\ opState'[o] = "stopped"
  \/ opState[o] = "failed_retryable" /\ opState'[o] = "failed"
  \/ \E d \in Drivers : dr[d].op = o /\ Settles(d, opState'[o])

\* What a step does to the operation rows.
LEMMA OperationStep ==
  ASSUME TypeInv, [Next]_vars
  PROVE  \A o \in Ops : OpChange(o)
<1> USE DEF applyVars, opVars, remoteVars
<1>0. opState \in [Ops -> ApplyState]
  BY DEF TypeInv, RowsOK
<1>1. ASSUME NEW d \in Drivers, NEW p \in Ops, Claim(d, p)
      PROVE  \A o \in Ops : OpChange(o)
  BY <1>0, <1>1 DEF Claim, ClaimPending, ClaimStale, ClaimRetryable,
                    ClaimCutover, Parked, OpChange
<1>2. ASSUME NEW d \in Drivers, NEW s, dr[d].op \in Ops, Settles(d, s),
             opState' = [opState EXCEPT ![dr[d].op] = s]
      PROVE  \A o \in Ops : OpChange(o)
  BY <1>0, <1>2 DEF OpChange
<1>3. ASSUME opState' \in {opState, PendingStopped}
      PROVE  \A o \in Ops : OpChange(o)
  BY <1>0, <1>3 DEF PendingStopped, OpChange
<1>4. ASSUME NEW d \in Drivers, DriveStep(d)
      PROVE  \A o \in Ops : OpChange(o)
  <2>0. Shape(dr[d])
    BY DEF TypeInv, DriversOK, Good
  <2>0a. dr[d] \in Drive
    BY DEF TypeInv, DriversOK, Good
  <2>1. CASE Mirror(d)
    <3>1. CASE dr[d].lease
      <4>0. Settled(dr'[d])
        <5>1. Goto(d, [dr[d] EXCEPT !.pc = "list", !.then = "mirrored"])
          BY <2>1, <3>1 DEF Mirror
        <5> QED
          BY <2>0a, <5>1 DEF Goto, Settled, SettlePC, Drive, TypeInv, DriversOK
      <4>1. Settles(d, dr[d].snap) /\ dr[d].op \in Ops
        BY <2>0, <2>1, <3>1, <4>0
           DEF Mirror, At, Settles, Settled, SettlePC, Shape
      <4> QED
        BY <1>2, <2>1, <3>1, <4>1 DEF Mirror
    <3>2. CASE ~dr[d].lease
      BY <1>3, <2>1, <3>2 DEF Mirror
    <3> QED
      BY <3>1, <3>2
  <2>2. CASE StopUndispatchedOperation(d)
    <3>1. CASE dr[d].lease
      <4>1. Settles(d, StoppedState) /\ dr[d].op \in Ops
        BY <2>0, <2>2, <3>1 DEF StopUndispatchedOperation, At, Settles, Settled,
                                SettlePC, Shape, DrivePC
      <4> QED
        BY <1>2, <2>2, <3>1, <4>1 DEF StopUndispatchedOperation
    <3>2. CASE ~dr[d].lease
      BY <1>0, <2>2, <3>2 DEF StopUndispatchedOperation, OpChange
    <3> QED
      BY <3>1, <3>2
  <2>3. CASE MarkOperation(d)
    <3>1. CASE dr[d].lease /\ DeriveApplyState({MyTask(d)}) \in Persisted
      <4>0. Settled(dr'[d])
        <5>1. Goto(d, [dr[d] EXCEPT !.pc = "siblings"])
          BY <2>3, <3>1 DEF MarkOperation
        <5> QED
          BY <2>0a, <5>1 DEF Goto, Settled, SettlePC, Drive, TypeInv, DriversOK
      <4>1. Settles(d, DeriveApplyState({MyTask(d)})) /\ dr[d].op \in Ops
        BY <2>0, <2>3, <3>1, <4>0 DEF MarkOperation, At, Settles, Settled,
                                      SettlePC, Shape, MyTask
      <4> QED
        BY <1>2, <2>3, <3>1, <4>1 DEF MarkOperation
    <3>2. CASE ~(dr[d].lease /\ DeriveApplyState({MyTask(d)}) \in Persisted)
      BY <1>3, <2>3, <3>2 DEF MarkOperation
    <3> QED
      BY <3>1, <3>2
  <2>4. CASE StopPendingSiblings(d) \/ WholeStopOperations(d)
    BY <1>3, <2>4 DEF StopPendingSiblings, WholeStopOperations
  <2>5. CASE \/ Load(d) \/ List(d) \/ UpdateDerivedState(d)
             \/ Scope(d) \/ CheckStop(d) \/ SendStop(d) \/ StopProgress(d)
             \/ PrepareDispatch(d) \/ Dispatch(d) \/ PersistRemoteApplyID(d)
    BY <1>3, <2>5, Zenon DEF Load, List, UpdateDerivedState, Scope, CheckStop,
       SendStop, StopProgress, PrepareDispatch, Dispatch, PersistRemoteApplyID
  <2>6. CASE \/ StartRemote(d) \/ Progress(d) \/ Preflight(d)
             \/ SendCutover(d) \/ MarkRemoteApplyFailed(d)
             \/ Reload(d) \/ Publish(d) \/ Finish(d)
    BY <1>3, <2>6 DEF StartRemote, Progress, Preflight, SendCutover,
       MarkRemoteApplyFailed, Reload, Publish, Finish
  <2>7. CASE \/ WholeDrive(d) \/ WholeStopTasks(d) \/ WholeStopApply(d)
             \/ WholeStopDone(d) \/ WholeDispatch(d) \/ WholePoll(d)
             \/ WholeFail(d)
    BY <1>3, <2>7 DEF WholeDrive, WholeStopTasks, WholeStopApply,
       WholeStopDone, WholeDispatch, WholePoll, WholeFail
  <2> QED
    BY <1>4, <2>1, <2>2, <2>3, <2>4, <2>5, <2>6, <2>7 DEF DriveStep
<1>5. CASE ExpireRetryable
  BY <1>0, <1>5 DEF ExpireRetryable, OpChange
<1>6. CASE \/ \E d \in Drivers : \/ ClaimStopReconciliation(d) \/ Heartbeat(d)
                                 \/ AbortLostLease(d) \/ Crash(d)
           \/ \E o \in Ops : GoStale(o)
           \/ \E o \in Ops, k \in Attempts : RemoteStep(o, k)
           \/ ApplyGoesStale \/ ApplyAges
           \/ ValidateStop \/ QueueStop \/ UNCHANGED vars
  BY <1>3, <1>6 DEF ClaimStopReconciliation, Heartbeat, AbortLostLease, Crash,
     GoStale, RemoteStep, ApplyGoesStale, ApplyAges, ValidateStop, QueueStop,
     vars
<1> QED
  BY <1>1, <1>4, <1>5, <1>6 DEF Next

\* The operation row points to a remote apply in state s.
RemoteIs(o, s) == opRemote[o] # NoRemote /\ remote[o][opRemote[o]] = s

RemoteChange(o, k) ==
  \/ remote'[o][k] = remote[o][k]
  \/ /\ remote[o][k] = "none" /\ remote'[o][k] = "running"
     /\ \E d \in Drivers : dr[d].op = o
  \/ remote[o][k] = "stopped" /\ remote'[o][k] = "running"
  \/ remote'[o][k] \in RemoteNext(o, k)

\* The operation row gets its remote id from a driver of the operation.
IdChange(o) ==
  \/ opRemote'[o] = opRemote[o]
  \/ \E d \in Drivers : dr[d].op = o /\ At(d, "persist")

CutChange(o, k) ==
  <<o, k>> \in remoteCut' =>
    \/ <<o, k>> \in remoteCut
    \/ \E d \in Drivers : dr[d].op = o /\ dr[d].cut /\ opRemote[o] = k

\* What a step does to the remote applies and to the cutovers asked for.
LEMMA RemoteSteps ==
  ASSUME TypeInv, [Next]_vars
  PROVE  /\ Kept
         /\ \A o \in Ops : IdChange(o)
         /\ \A o \in Ops, k \in Attempts : RemoteChange(o, k) /\ CutChange(o, k)
<1> USE DEF applyVars, opVars, remoteVars
<1>0. remote \in [Ops -> [Attempts -> RemoteState]]
  BY DEF TypeInv, RowsOK
<1>1. ASSUME UNCHANGED <<opRemote, remote, remoteCut>>
      PROVE  /\ Kept /\ \A o \in Ops : IdChange(o)
             /\ \A o \in Ops, k \in Attempts :
                  RemoteChange(o, k) /\ CutChange(o, k)
  BY <1>1 DEF Kept, RemoteChange, CutChange, IdChange
<1>2. ASSUME NEW d \in Drivers, DriveStep(d)
      PROVE  /\ Kept /\ \A o \in Ops : IdChange(o)
             /\ \A o \in Ops, k \in Attempts :
                  RemoteChange(o, k) /\ CutChange(o, k)
  <2>0. Good(dr[d]) /\ dr[d] \in Drive
    BY DEF TypeInv, DriversOK, Good
  <2>1. CASE Dispatch(d)
    <3> DEFINE p == dr[d].op
               j == dr[d].att
    <3>1. p \in Ops /\ j \in Attempts
      BY <2>0, <2>1 DEF Dispatch, At, Good, Shape, DrivePC, Drive
    <3>2. remote' \in {remote, Dispatched(p, j)}
      BY <2>1 DEF Dispatch
    <3>3. \A o \in Ops, k \in Attempts :
            \/ remote'[o][k] = remote[o][k]
            \/ o = p /\ remote[o][k] = "none" /\ remote'[o][k] = "running"
      <4> HIDE DEF p, j
      <4> QED
        BY <1>0, <3>1, <3>2 DEF Dispatched
    <3>4. UNCHANGED <<opRemote, remoteCut>>
      BY <2>1 DEF Dispatch
    <3> QED
      BY <3>3, <3>4 DEF Kept, RemoteChange, CutChange, IdChange
  <2>2. CASE PersistRemoteApplyID(d)
    <3>1. dr[d].op \in Ops
      BY <2>0, <2>2 DEF PersistRemoteApplyID, At, Good, Shape, DrivePC
    <3>2. Kept
      BY <2>2, <3>1 DEF PersistRemoteApplyID, Kept, TypeInv, RowsOK
    <3>3. \A o \in Ops : IdChange(o)
      BY <2>2, <3>1 DEF PersistRemoteApplyID, IdChange, TypeInv, RowsOK
    <3> QED
      BY <2>2, <3>2, <3>3 DEF PersistRemoteApplyID, RemoteChange, CutChange
  <2>3. CASE StartRemote(d)
    <3> DEFINE p == dr[d].op
               j == dr[d].rid
    <3>1. p \in Ops /\ j \in Attempts
      BY <2>0, <2>3, ReportType DEF StartRemote, At, Good, Shape
    <3>2. \/ remote' = remote
          \/ /\ remote[p][j] = "stopped"
             /\ remote' = [remote EXCEPT ![p][j] = "running"]
      BY <2>3 DEF StartRemote, Report
    <3>3. \A o \in Ops, k \in Attempts :
            \/ remote'[o][k] = remote[o][k]
            \/ remote[o][k] = "stopped" /\ remote'[o][k] = "running"
      <4> HIDE DEF p, j
      <4> QED
        BY <1>0, <3>1, <3>2
    <3>4. UNCHANGED <<opRemote, remoteCut>>
      BY <2>3 DEF StartRemote
    <3> QED
      BY <3>3, <3>4 DEF Kept, RemoteChange, CutChange, IdChange
  <2>4. CASE SendCutover(d)
    <3>1. /\ dr[d].cut /\ opRemote[dr[d].op] = dr[d].rid
      BY <2>0, <2>4 DEF SendCutover, At, Good, Shape, Joined
    <3>2. remoteCut' \subseteq remoteCut \cup {<<dr[d].op, dr[d].rid>>}
      BY <2>4 DEF SendCutover, Me
    <3>3. UNCHANGED <<opRemote, remote>>
      BY <2>4 DEF SendCutover
    <3> QED
      BY <3>1, <3>2, <3>3 DEF Kept, RemoteChange, CutChange, IdChange
  <2>5. CASE \/ Load(d) \/ Mirror(d) \/ List(d) \/ UpdateDerivedState(d)
             \/ Scope(d) \/ CheckStop(d) \/ StopUndispatchedOperation(d)
             \/ SendStop(d) \/ StopProgress(d) \/ PrepareDispatch(d)
             \/ Progress(d) \/ Preflight(d) \/ MarkRemoteApplyFailed(d)
    BY <1>1, <2>5, Zenon DEF Load, Mirror, List, UpdateDerivedState, Scope, CheckStop,
       StopUndispatchedOperation, SendStop, StopProgress, PrepareDispatch,
       Progress, Preflight, MarkRemoteApplyFailed
  <2>6. CASE \/ MarkOperation(d) \/ StopPendingSiblings(d)
             \/ Reload(d) \/ Publish(d) \/ Finish(d)
             \/ WholeDrive(d) \/ WholeStopTasks(d) \/ WholeStopApply(d)
             \/ WholeStopDone(d) \/ WholeStopOperations(d)
             \/ WholeDispatch(d) \/ WholePoll(d) \/ WholeFail(d)
    BY <1>1, <2>6, Zenon DEF MarkOperation, StopPendingSiblings, Reload, Publish,
       Finish, WholeDrive, WholeStopTasks, WholeStopApply, WholeStopDone,
       WholeStopOperations, WholeDispatch, WholePoll, WholeFail
  <2> QED
    BY <1>2, <2>1, <2>2, <2>3, <2>4, <2>5, <2>6 DEF DriveStep
<1>3. ASSUME NEW p \in Ops, NEW j \in Attempts, RemoteStep(p, j)
      PROVE  /\ Kept /\ \A o \in Ops : IdChange(o)
             /\ \A o \in Ops, k \in Attempts :
                  RemoteChange(o, k) /\ CutChange(o, k)
  <2>1. PICK s \in RemoteNext(p, j) : remote' = [remote EXCEPT ![p][j] = s]
    BY <1>3 DEF RemoteStep
  <2>2. s # "none"
    BY PolicyAssumption DEF RemoteNext
  <2>3. \A o \in Ops, k \in Attempts :
          \/ remote'[o][k] = remote[o][k]
          \/ o = p /\ k = j /\ remote'[o][k] = s
    BY <1>0, <2>1
  <2>4. UNCHANGED <<opRemote, remoteCut>>
    BY <1>3 DEF RemoteStep
  <2> QED
    BY <2>2, <2>3, <2>4 DEF Kept, RemoteChange, CutChange, IdChange
<1>4. CASE \/ \E d \in Drivers, o \in Ops : Claim(d, o)
           \/ \E d \in Drivers : ClaimStopReconciliation(d)
  BY <1>1, <1>4 DEF Claim, ClaimPending, ClaimStale, ClaimRetryable,
     ClaimCutover, ClaimStopReconciliation
<1>5. CASE \/ \E d \in Drivers : Heartbeat(d) \/ AbortLostLease(d) \/ Crash(d)
           \/ \E o \in Ops : GoStale(o)
           \/ ExpireRetryable \/ ApplyGoesStale \/ ApplyAges
           \/ ValidateStop \/ QueueStop \/ UNCHANGED vars
  BY <1>1, <1>5 DEF Heartbeat, AbortLostLease, Crash, GoStale,
     ExpireRetryable, ApplyGoesStale, ApplyAges, ValidateStop, QueueStop, vars
<1> QED
  BY <1>2, <1>3, <1>4, <1>5 DEF Next
============================================================================
