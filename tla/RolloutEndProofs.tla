-------------------------- MODULE RolloutEndProofs --------------------------
(***************************************************************************)
(* How a rollout ends: what is reported completed is completed, swaps do   *)
(* not overlap, the summary is published once, a served stop leaves a      *)
(* terminal apply.                                                         *)
(*                                                                         *)
(* The first part says what a step does to the parent row, the tasks, the  *)
(* stop request and the summaries, and what a driver carries from a read   *)
(* to the write that relies on it.                                         *)
(***************************************************************************)
EXTENDS RolloutOrderProofs

\* The steps at which a driver carries something a property depends on.
Watched == {"mirror", "list", "cas", "publish", "sendStop"} \cup WholePC

\* The steps that are reached only once a stop is pending.
Asked == WholePC \cup {"sendStop"}

\* The steps of a whole drive up to the one that stops the apply.
SavePC == {"whole", "wholeDispatch", "wholeStop", "wholeSave"}

\* The guard of a write of the derived state rep, for a parent read as snap.
Derives(s, rep) ==
  /\ rep = Derived /\ rep # s.snap
  /\ IsTerminal(s.snap) /\ ~IsTerminal(rep)
       => rep = "running_degraded" /\ s.snap = "failed"

\* The driver writes the derived state, which ends the apply.
EndsApply(s) == /\ s.pc = "cas" /\ s.lease /\ applyState = s.snap
                /\ ~IsTerminal(s.snap) /\ IsTerminal(s.rep)
                /\ applyState' = s.rep

Carries(s, r) ==
  /\ r.pc = "mirror" => \/ s.pc = "mirror" /\ r.snap = s.snap
                        \/ r.snap = applyState
  /\ r.pc = "list" => \/ s.pc \in {"list", "mirror"} /\ r.snap = s.snap
                      \/ r.snap = applyState
  /\ r.pc = "cas" => \/ s.pc = "cas" /\ r.rep = s.rep /\ r.snap = s.snap
                     \/ s.pc = "list" /\ r.snap = s.snap /\ Derives(r, r.rep)
  /\ r.pc = "wholePoll" => s.pc = "wholePoll" \/ wholeRemote'
  /\ r.pc = "publish" => s.pc = "publish" \/ EndsApply(s)
  /\ r.pc = "wholeDone" => s.pc = "wholeDone" \/ IsTerminal(applyState')
  /\ r.pc \in Asked => s.pc \in Asked \/ StopPending
  /\ r.pc \in SavePC => \/ s.pc \in SavePC
                        \/ \E o \in Ops : opState[o] = "pending"

\* At most one driver moves in a step.
LEMMA OneMoves ==
  ASSUME TypeInv, [Next]_vars, NEW d \in Drivers, NEW e \in Drivers,
         dr'[d].pc # dr[d].pc, dr'[e].pc # dr[e].pc
  PROVE  d = e
<1>1. ASSUME NEW f \in Drivers, DriveStep(f) \/ AbortLostLease(f) \/ Crash(f)
      PROVE  d = e
  <2>1. PICK r : Goto(f, r)
    BY <1>1, DriveMoves
  <2>2. \A g \in Drivers : g # f => dr'[g] = dr[g]
    BY <2>1 DEF Goto, TypeInv, DriversOK
  <2> QED
    BY <2>2
<1>2. ASSUME NEW f \in Drivers, NEW o, NEW r, Lease(f, o, r)
      PROVE  d = e
  BY <1>2, LeaseOthers
<1>3. CASE \/ \E f \in Drivers, o \in Ops : Claim(f, o)
           \/ \E f \in Drivers : ClaimStopReconciliation(f)
  BY <1>2, <1>3, ClaimStep DEF Claims, ClaimStopReconciliation
<1>4. CASE \/ \E f \in Drivers : Heartbeat(f)
           \/ \E o \in Ops : GoStale(o)
           \/ \E o \in Ops, k \in Attempts : RemoteStep(o, k)
           \/ ExpireRetryable \/ ApplyGoesStale \/ ApplyAges
           \/ ValidateStop \/ QueueStop \/ UNCHANGED vars
  <2>1. UNCHANGED dr
    BY <1>4 DEF Heartbeat, GoStale, RemoteStep, ExpireRetryable,
                ApplyGoesStale, ApplyAges, ValidateStop, QueueStop, vars
  <2> QED
    BY <2>1
<1> QED
  BY <1>1, <1>3, <1>4 DEF Next

LEMMA UnwatchedCarries == \A s, r : r.pc \notin Watched => Carries(s, r)
BY DEF Carries, Watched, Asked, SavePC, WholePC

LEMMA SameCarries == \A s, r : r.pc = s.pc /\ r.snap = s.snap /\ r.rep = s.rep
                                 => Carries(s, r)
BY DEF Carries

LEMMA IdleCarries == \A s : Carries(s, Idle)
BY UnwatchedCarries DEF Idle, Watched, WholePC

LEMMA ToMarkCarries ==
  ASSUME NEW d \in Drivers
  PROVE  /\ Carries(dr[d], ToMark(d))
         /\ \A s : Carries(dr[d], ToFail(d, s))
<1>1. ToMark(d).pc = "mark" /\ \A s : ToFail(d, s).pc = "fail"
  BY DEF ToMark, ToFail, Idle
<1> QED
  BY <1>1, UnwatchedCarries DEF Watched, WholePC

LEMMA ProjectionCarries ==
  ASSUME TypeInv, NEW d \in Drivers,
         Load(d) \/ Mirror(d) \/ List(d) \/ UpdateDerivedState(d)
  PROVE  \E r : Goto(d, r) /\ Carries(dr[d], r)
<1>0. dr[d] \in Drive
  BY DEF TypeInv, DriversOK, Good
<1>1. CASE Load(d)
  <2>1. /\ Carries(dr[d], [dr[d] EXCEPT !.pc = "mirror", !.snap = applyState])
        /\ Carries(dr[d], [dr[d] EXCEPT !.pc = "list", !.then = "drive",
                                        !.snap = applyState, !.mem = applyState])
    BY <1>0 DEF Carries, Drive, Asked, SavePC, WholePC
  <2> QED
    BY <1>1, <2>1 DEF Load
<1>2. CASE Mirror(d)
  <2>1. Carries(dr[d], [dr[d] EXCEPT !.pc = "list", !.then = "mirrored"])
    BY <1>0, <1>2 DEF Mirror, At, Carries, Drive, Asked, SavePC, WholePC
  <2> QED
    BY <1>2, <2>1, IdleCarries DEF Mirror, End
<1>3. Carries(dr[d], AfterProjection(d))
  <2>1. CASE dr[d].then = "drive"
    <3>1. AfterProjection(d).pc = "scope"
      BY <1>0, <2>1, Zenon DEF AfterProjection, Drive
    <3> QED
      BY <3>1, UnwatchedCarries DEF Watched, WholePC
  <2>2. CASE dr[d].then = "finish"
    <3>1. AfterProjection(d).pc = "finish"
      BY <2>2, Zenon DEF AfterProjection, ToMark, Idle
    <3> QED
      BY <3>1, UnwatchedCarries DEF Watched, WholePC
  <2>3. CASE dr[d].then \notin {"drive", "finish"}
    BY <2>3, IdleCarries DEF AfterProjection
  <2> QED
    BY <2>1, <2>2, <2>3
<1>4. CASE List(d)
  <2>1. CASE IsTerminal(dr[d].snap) /\ ~IsTerminal(Derived) /\ ~Reopens(d)
    BY <1>4, <2>1, IdleCarries DEF List
  <2>2. CASE ~(IsTerminal(dr[d].snap) /\ ~IsTerminal(Derived) /\ ~Reopens(d))
    <3>1. Derived # dr[d].snap => Derives(dr[d], Derived)
      BY <2>2 DEF Derives, Reopens
    <3>2. PICK r : r = [dr[d] EXCEPT !.pc = "cas", !.rep = Derived]
      OBVIOUS
    <3>3. r.pc = "cas" /\ r.snap = dr[d].snap /\ r.rep = Derived
      BY <1>0, <3>2 DEF Drive
    <3>4. Derived # dr[d].snap => Carries(dr[d], r)
      BY <1>4, <3>1, <3>3
         DEF List, At, Carries, Derives, Asked, SavePC, WholePC
    <3> QED
      BY <1>3, <1>4, <2>2, <3>2, <3>4 DEF List
  <2> QED
    BY <2>1, <2>2
<1>5. CASE UpdateDerivedState(d)
  <2>1. EndsApply(dr[d]) => Carries(dr[d], [ToMark(d) EXCEPT !.pc = "publish"])
    BY DEF Carries, ToMark, Idle, Asked, SavePC, WholePC
  <2> QED
    BY <1>3, <1>5, <2>1, IdleCarries
       DEF UpdateDerivedState, At, Swapped, EndsApply
<1> QED
  BY <1>1, <1>2, <1>4, <1>5

LEMMA DrivingCarries ==
  ASSUME TypeInv, NEW d \in Drivers,
         \/ Scope(d) \/ CheckStop(d) \/ StopUndispatchedOperation(d)
         \/ SendStop(d) \/ StopProgress(d)
         \/ PrepareDispatch(d) \/ Dispatch(d) \/ PersistRemoteApplyID(d)
         \/ StartRemote(d) \/ Progress(d) \/ Preflight(d) \/ SendCutover(d)
         \/ MarkRemoteApplyFailed(d)
  PROVE  \E r : Goto(d, r) /\ Carries(dr[d], r)
<1>0. dr[d] \in Drive /\ Shape(dr[d])
  BY DEF TypeInv, DriversOK, Good
<1>a. \A r : r.pc \in DrivePC \ {"sendStop"} => Carries(dr[d], r)
  BY UnwatchedCarries DEF Watched, DrivePC, WholePC
<1>b. \A r : r.pc = "check" \/ r.pc = "persist" \/ r.pc = "stopProgress"
              => Carries(dr[d], r)
  BY UnwatchedCarries DEF Watched, WholePC
<1>c. /\ Carries(dr[d], ToMark(d)) /\ Carries(dr[d], ToFail(d, "failed"))
      /\ Carries(dr[d], ToFail(d, "failed_retryable"))
  BY ToMarkCarries
<1>d. \A t, m : /\ Carries(dr[d], ToCheck(d, t))
                /\ Carries(dr[d], [ToCheck(d, t) EXCEPT !.mem = m])
  <2>1. \A t, m : /\ ToCheck(d, t).pc = "check"
                  /\ [ToCheck(d, t) EXCEPT !.mem = m].pc = "check"
    BY <1>0 DEF ToCheck, Drive
  <2> QED
    BY <1>b, <2>1, Zenon
<1>1. CASE Scope(d)
  <2> DEFINE q == opRemote[dr[d].op]
             k == IF q = NoRemote THEN opAttempt[dr[d].op] ELSE 0
             r == [dr[d] EXCEPT !.pc = "check", !.rid = q, !.att = k]
  <2>1. /\ \A t : [r EXCEPT !.then = t].pc = "check"
        /\ [r EXCEPT !.then = "fail", !.rep = "failed"].pc = "check"
    BY <1>0 DEF Drive
  <2>3. /\ \A t : Carries(dr[d], [r EXCEPT !.then = t])
        /\ Carries(dr[d], [r EXCEPT !.then = "fail", !.rep = "failed"])
    <3> HIDE DEF r
    <3> QED
      BY <1>b, <2>1, Zenon
  <2>4. \/ \E t : Goto(d, [r EXCEPT !.then = t])
        \/ Goto(d, [r EXCEPT !.then = "fail", !.rep = "failed"])
        \/ Goto(d, ToMark(d))
    <3>1. CASE dr[d].cut
      BY <1>1, <3>1, Zenon DEF Scope
    <3>2. CASE ~dr[d].cut
      BY <1>1, <3>2, Zenon DEF Scope
    <3> QED
      BY <3>1, <3>2, Zenon
  <2> HIDE DEF r
  <2> QED
    BY <1>c, <2>3, <2>4, Zenon
<1>e. At(d, "check") \/ At(d, "stopProgress")
        => dr[d].then \in DrivePC \ {"sendStop"}
  BY <1>0 DEF At, Shape, CheckPC, NextSteps, DrivePC
<1>2. CASE CheckStop(d)
  <2>1. /\ [dr[d] EXCEPT !.pc = dr[d].then, !.then = "idle"].pc = dr[d].then
        /\ \A p : [dr[d] EXCEPT !.pc = p].pc = p
    BY <1>0 DEF Drive
  <2>2. /\ Carries(dr[d], [dr[d] EXCEPT !.pc = dr[d].then, !.then = "idle"])
        /\ Carries(dr[d], [dr[d] EXCEPT !.pc = "stopOperation"])
    BY <1>2, <1>a, <1>e, <2>1, Zenon DEF CheckStop, DrivePC
  <2>3. StopPending => Carries(dr[d], [dr[d] EXCEPT !.pc = "sendStop"])
    BY <2>1 DEF Carries, Asked, SavePC, WholePC
  <2> QED
    BY <1>2, <1>c, <2>2, <2>3 DEF CheckStop
<1>3. CASE StopUndispatchedOperation(d) \/ MarkRemoteApplyFailed(d)
  BY <1>3, <1>c DEF StopUndispatchedOperation, MarkRemoteApplyFailed
<1>4. CASE SendStop(d)
  <2>1. /\ [dr[d] EXCEPT !.pc = "stopProgress"].pc = "stopProgress"
        /\ [dr[d] EXCEPT !.pc = "stopProgress", !.rep = "error"].pc
             = "stopProgress"
    BY <1>0 DEF Drive
  <2> QED
    BY <1>4, <1>b, <2>1, Zenon DEF SendStop
<1>5. CASE StopProgress(d)
  <2>1. [dr[d] EXCEPT !.pc = dr[d].then, !.then = "idle",
           !.mem = applyStateFromRemoteProgress(@, Report(d))].pc = dr[d].then
    BY <1>0 DEF Drive
  <2>2. Carries(dr[d], [dr[d] EXCEPT !.pc = dr[d].then, !.then = "idle",
           !.mem = applyStateFromRemoteProgress(@, Report(d))])
    BY <1>5, <1>a, <1>e, <2>1, Zenon DEF StopProgress
  <2> QED
    BY <1>5, <1>c, <2>2 DEF StopProgress, ReconcileTerminal
<1>6. CASE PrepareDispatch(d)
  BY <1>6, <1>c, <1>d, Zenon DEF PrepareDispatch
<1>7. CASE Dispatch(d)
  <2>1. [dr[d] EXCEPT !.pc = "persist"].pc = "persist"
    BY <1>0 DEF Drive
  <2>2. Carries(dr[d], [dr[d] EXCEPT !.pc = "persist"])
    BY <1>b, <2>1, Zenon
  <2> QED
    BY <1>7, <1>c, <2>2 DEF Dispatch, Goto
<1>8. CASE PersistRemoteApplyID(d)
  <2>1. [dr[d] EXCEPT !.pc = "check", !.then = "progress",
           !.rid = dr[d].att, !.att = 0, !.mem = "running"].pc = "check"
    BY <1>0 DEF Drive
  <2>2. Carries(dr[d], [dr[d] EXCEPT !.pc = "check", !.then = "progress",
                          !.rid = dr[d].att, !.att = 0, !.mem = "running"])
    BY <1>b, <2>1, Zenon
  <2> QED
    BY <1>8, <1>c, <2>2 DEF PersistRemoteApplyID
<1>9. CASE StartRemote(d)
  BY <1>9, <1>c, <1>d DEF StartRemote
<1>10. CASE Progress(d)
  BY <1>10, <1>c, <1>d DEF Progress, ReconcileTerminal
<1>11. CASE Preflight(d)
  BY <1>11, <1>c, <1>d, Zenon DEF Preflight, ReconcileTerminal, Goto
<1>12. CASE SendCutover(d)
  BY <1>12, <1>c, <1>d DEF SendCutover
<1> QED
  BY <1>1, <1>2, <1>3, <1>4, <1>5, <1>6, <1>7, <1>8, <1>9, <1>10, <1>11, <1>12

LEMMA SettlingCarries ==
  ASSUME TypeInv, NEW d \in Drivers,
         \/ MarkOperation(d) \/ StopPendingSiblings(d) \/ Reload(d)
         \/ Publish(d) \/ Finish(d)
         \/ WholeDrive(d) \/ WholeStopTasks(d) \/ WholeStopApply(d)
         \/ WholeStopDone(d) \/ WholeStopOperations(d)
         \/ WholeDispatch(d) \/ WholePoll(d) \/ WholeFail(d)
         \/ AbortLostLease(d) \/ Crash(d)
  PROVE  \E r : Goto(d, r) /\ Carries(dr[d], r)
<1> USE DEF applyVars, opVars, remoteVars
<1>0. dr[d] \in Drive
  BY DEF TypeInv, DriversOK, Good
<1>a. \A p : p \notin Watched => Carries(dr[d], [dr[d] EXCEPT !.pc = p])
  <2>1. \A p : [dr[d] EXCEPT !.pc = p].pc = p
    BY <1>0 DEF Drive
  <2> QED
    BY <2>1, UnwatchedCarries, Zenon
<1>1. CASE \/ MarkOperation(d) \/ StopPendingSiblings(d) \/ Publish(d)
  BY <1>1, <1>a, IdleCarries
     DEF MarkOperation, StopPendingSiblings, Publish, Watched, WholePC, End
<1>2. CASE Reload(d)
  <2>1. Carries(dr[d], [dr[d] EXCEPT !.pc = "list", !.then = "finish",
                                     !.snap = applyState])
    BY <1>0 DEF Carries, Drive, Asked, SavePC, WholePC
  <2> QED
    BY <1>2, <2>1 DEF Reload
<1>3. CASE Finish(d) \/ WholeFail(d) \/ AbortLostLease(d) \/ Crash(d)
  BY <1>3, IdleCarries DEF Finish, WholeFail, AbortLostLease, Crash, End
\* The steps of a whole drive.
<1>b. ASSUME dr[d].pc \in WholePC, NEW p \in WholePC,
             p \in SavePC => dr[d].pc \in SavePC,
             p = "wholePoll" => wholeRemote',
             p = "wholeDone" => IsTerminal(applyState')
      PROVE  Carries(dr[d], [dr[d] EXCEPT !.pc = p])
  <2>1. [dr[d] EXCEPT !.pc = p].pc = p
    BY <1>0 DEF Drive
  <2> QED
    BY <1>b, <2>1, Zenon DEF Carries, Asked, SavePC, WholePC
<1>4. CASE \/ WholeStopTasks(d) \/ WholeStopDone(d) \/ WholeStopOperations(d)
  <2>1. /\ WholeStopTasks(d) => Carries(dr[d], [dr[d] EXCEPT !.pc = "wholeSave"])
        /\ WholeStopDone(d) => Carries(dr[d], [dr[d] EXCEPT !.pc = "stopPending"])
    BY <1>b DEF WholeStopTasks, WholeStopDone, At, SavePC, WholePC
  <2>2. Carries(dr[d], [dr[d] EXCEPT !.pc = "reload"])
    BY <1>a DEF Watched, WholePC
  <2> QED
    BY <1>4, <2>1, <2>2, IdleCarries
       DEF WholeStopTasks, WholeStopDone, WholeStopOperations, Onward
<1>5. CASE WholeDrive(d)
  <2>1. /\ IsTerminal(applyState)
             => Carries(dr[d], [dr[d] EXCEPT !.pc = "wholeDone"])
        /\ Carries(dr[d], [dr[d] EXCEPT !.pc = "wholeStop"])
        /\ Carries(dr[d], [dr[d] EXCEPT !.pc = "wholeDispatch"])
        /\ Carries(dr[d], [dr[d] EXCEPT !.pc = "wholeFail"])
    BY <1>5, <1>b DEF WholeDrive, At, SavePC, WholePC
  <2> QED
    BY <1>5, <2>1 DEF WholeDrive
<1>6. CASE WholeStopApply(d)
  <2>1. dr[d].lease => IsTerminal(applyState')
    BY <1>6, PolicyAssumption DEF WholeStopApply, IsTerminal, TerminalApplyState
  <2>2. dr[d].lease => Carries(dr[d], [dr[d] EXCEPT !.pc = "wholeDone"])
    BY <1>6, <1>b, <2>1 DEF WholeStopApply, At, SavePC, WholePC
  <2> QED
    BY <1>6, <2>2, IdleCarries DEF WholeStopApply, Onward
<1>7. CASE WholeDispatch(d)
  <2>1. /\ wholeRemote' => Carries(dr[d], [dr[d] EXCEPT !.pc = "wholePoll"])
        /\ Carries(dr[d], [dr[d] EXCEPT !.pc = "whole"])
        /\ Carries(dr[d], [dr[d] EXCEPT !.pc = "wholeFail"])
    BY <1>7, <1>b DEF WholeDispatch, At, SavePC, WholePC
  <2> QED
    BY <1>7, <2>1, Zenon DEF WholeDispatch
<1>8. CASE WholePoll(d)
  <2>1. Carries(dr[d], dr[d])
    BY SameCarries
  <2>2. Carries(dr[d], [dr[d] EXCEPT !.pc = "stopPending"])
    BY <1>8, <1>b DEF WholePoll, At, SavePC, WholePC
  <2> QED
    BY <1>8, <2>1, <2>2, IdleCarries DEF WholePoll, End
<1> QED
  BY <1>1, <1>2, <1>3, <1>4, <1>5, <1>6, <1>7, <1>8

\* What a driver carries after a step.
LEMMA CarryStep ==
  ASSUME TypeInv, [Next]_vars
  PROVE  \A e \in Drivers : Carries(dr[e], dr'[e])
<1>1. ASSUME NEW d \in Drivers, DriveStep(d) \/ AbortLostLease(d) \/ Crash(d)
      PROVE  \A e \in Drivers : Carries(dr[e], dr'[e])
  <2>1. PICK r : Goto(d, r) /\ Carries(dr[d], r)
    BY <1>1, ProjectionCarries, DrivingCarries, SettlingCarries DEF DriveStep
  <2>2. \A e \in Drivers : dr'[e] = IF e = d THEN r ELSE dr[e]
    BY <2>1 DEF Goto, TypeInv, DriversOK
  <2> QED
    BY <2>1, <2>2, SameCarries
<1>2. ASSUME NEW d \in Drivers, NEW o, NEW r, Lease(d, o, r), Carries(dr[d], r)
      PROVE  \A e \in Drivers : Carries(dr[e], dr'[e])
  <2>0. \A e \in Drivers : dr[e] \in Drive
    BY DEF TypeInv, DriversOK, Good
  <2>1. \A e \in Drivers \ {d} :
          dr'[e] = IF dr[e].op = o THEN [dr[e] EXCEPT !.lease = FALSE]
                   ELSE dr[e]
    BY <1>2 DEF Lease
  <2>2. \A e \in Drivers \ {d} : /\ dr'[e].pc = dr[e].pc
                                 /\ dr'[e].snap = dr[e].snap
                                 /\ dr'[e].rep = dr[e].rep
    BY <2>0, <2>1, Zenon DEF Drive
  <2>3. dr'[d] = r
    BY <1>2 DEF Lease
  <2> QED
    BY <1>2, <2>2, <2>3, SameCarries
<1>3. CASE \E d \in Drivers, o \in Ops : Claim(d, o)
  <2>1. PICK d \in Drivers, o \in Ops, cut \in BOOLEAN : Claims(d, o, cut)
    BY <1>3, ClaimStep
  <2>2. Claimed(o, cut).pc \notin Watched
    BY DEF Claimed, Idle, Watched, WholePC
  <2> QED
    BY <1>2, <2>1, <2>2, UnwatchedCarries DEF Claims
<1>4. CASE \E d \in Drivers : ClaimStopReconciliation(d)
  <2>1. PICK r : /\ r = [Idle EXCEPT !.pc = "whole", !.lease = TRUE,
                                     !.mem = applyState]
                 /\ \E d \in Drivers : Lease(d, 0, r)
                 /\ StopPending /\ \E o \in Ops : opState[o] = "pending"
    BY <1>4 DEF ClaimStopReconciliation
  <2>2. r.pc = "whole"
    BY <2>1 DEF Idle
  <2>3. \A s : Carries(s, r)
    BY <2>1, <2>2 DEF Carries
  <2> QED
    BY <1>2, <2>1, <2>3, Zenon
<1>5. CASE \/ \E d \in Drivers : Heartbeat(d)
           \/ \E o \in Ops : GoStale(o)
           \/ \E o \in Ops, k \in Attempts : RemoteStep(o, k)
           \/ ExpireRetryable \/ ApplyGoesStale \/ ApplyAges
           \/ ValidateStop \/ QueueStop \/ UNCHANGED vars
  <2>1. UNCHANGED dr
    BY <1>5 DEF Heartbeat, GoStale, RemoteStep, ExpireRetryable,
                ApplyGoesStale, ApplyAges, ValidateStop, QueueStop, vars
  <2> QED
    BY <2>1, SameCarries
<1> QED
  BY <1>1, <1>3, <1>4, <1>5 DEF Next

\* What a step does to the parent row.
ParentChange ==
  \/ applyState' = applyState
  \/ applyState = "pending" /\ applyState' = "running"
  \/ \E d \in Drivers : /\ At(d, "cas") /\ dr[d].lease
                        /\ applyState = dr[d].snap /\ applyState' = dr[d].rep
  \/ applyState' = StoppedState /\ \E d \in Drivers : At(d, "wholeSave")
  \/ \E d \in Drivers : At(d, "wholePoll")
  \/ ~IsTerminal(applyState) /\ applyState' = "failed"

\* What a step does to a task: it waits and completes with the operation's
\* remote apply.
TaskChange(o) ==
  \A s \in {"completed", "waiting_for_cutover"} : taskState'[o] = s =>
    \/ taskState[o] = s \/ RemoteIs(o, s)
    \/ s = "completed" /\ \E d \in Drivers : At(d, "wholePoll")

\* What a step does to the stop request and to the summaries.
StopChange ==
  /\ stopReq' = "completed" =>
       \/ stopReq = "completed" \/ IsTerminal(applyState)
       \/ \E d \in Drivers : At(d, "wholeDone")
  /\ \/ stopReq' = stopReq
     \/ stopReq = "none" /\ stopReq' = "validated"
     \/ stopReq = "validated" /\ stopReq' = "pending"
     \/ StopPending /\ stopReq' = "completed"
     \/ \E d \in Drivers : At(d, "wholeDone") /\ stopReq' = "completed"

PublishChange ==
  \/ published' = published
  \/ \E d \in Drivers : /\ At(d, "publish") /\ IsTerminal(applyState)
                        /\ published' = published + 1
                        /\ dr'[d].pc # "publish"

RowChange == /\ ParentChange /\ StopChange /\ PublishChange
             /\ \A o \in Ops : TaskChange(o)

LEMMA QuietRow ==
  ASSUME UNCHANGED <<applyState, taskState, stopReq, published>>
  PROVE  RowChange
BY DEF RowChange, ParentChange, TaskChange, StopChange, PublishChange

LEMMA SetTaskChange ==
  ASSUME TypeInv, NEW d \in Drivers, NEW s, dr[d].op \in Ops, SetTask(d, s),
         s \in {"completed", "waiting_for_cutover"}
           => taskState[dr[d].op] = s \/ RemoteIs(dr[d].op, s)
  PROVE  \A o \in Ops : TaskChange(o)
<1>1. \A o \in Ops : taskState'[o] \in {taskState[o],
                                        IF o = dr[d].op THEN s ELSE taskState[o]}
  BY DEF SetTask, TypeInv, RowsOK
<1> QED
  BY <1>1 DEF TaskChange

LEMMA ReportChange ==
  ASSUME TypeInv, NEW d \in Drivers, NEW s, dr[d].pc \in DrivePC,
         dr[d].rid # NoRemote,
         s \in {MyTask(d), SyncedTask(MyTask(d), Report(d))}, SetTask(d, s)
  PROVE  \A o \in Ops : TaskChange(o)
<1>1. dr[d].op \in Ops /\ opRemote[dr[d].op] = dr[d].rid
  BY DEF TypeInv, DriversOK, Good, Shape, Joined
<1>2. taskState[dr[d].op] = s \/ RemoteIs(dr[d].op, s)
  BY <1>1, SyncedType DEF MyTask, Report, RemoteIs
<1> QED
  BY <1>1, <1>2, SetTaskChange

LEMMA DrivingRows ==
  ASSUME TypeInv, NEW d \in Drivers,
         \/ Scope(d) \/ CheckStop(d) \/ StopUndispatchedOperation(d)
         \/ SendStop(d) \/ StopProgress(d)
         \/ PrepareDispatch(d) \/ Dispatch(d) \/ PersistRemoteApplyID(d)
         \/ StartRemote(d) \/ Progress(d) \/ Preflight(d) \/ SendCutover(d)
         \/ MarkRemoteApplyFailed(d)
  PROVE  RowChange
<1> USE DEF applyVars, opVars, remoteVars
<1>0. Shape(dr[d])
  BY DEF TypeInv, DriversOK, Good
<1>1. CASE \/ Scope(d) \/ CheckStop(d) \/ SendStop(d) \/ Dispatch(d)
           \/ PersistRemoteApplyID(d) \/ StartRemote(d) \/ SendCutover(d)
  <2>1. UNCHANGED <<applyState, taskState, stopReq, published>>
    BY <1>1, Zenon DEF Scope, CheckStop, SendStop, Dispatch,
       PersistRemoteApplyID, StartRemote, SendCutover
  <2> QED
    BY <2>1, QuietRow
<1>2. ASSUME UNCHANGED <<applyState, stopReq, published>>,
             \A o \in Ops : TaskChange(o)
      PROVE  RowChange
  BY <1>2 DEF RowChange, ParentChange, StopChange, PublishChange
<1>3. ASSUME UNCHANGED taskState PROVE \A o \in Ops : TaskChange(o)
  BY <1>3 DEF TaskChange
<1>4. CASE StopUndispatchedOperation(d)
  <2>1. dr[d].op \in Ops
    BY <1>0, <1>4 DEF StopUndispatchedOperation, At, Shape, DrivePC
  <2>2. PICK s : /\ s = IF MyTask(d) \in TerminalTaskState THEN MyTask(d)
                        ELSE StoppedState
                 /\ SetTask(d, s)
    BY <1>4 DEF StopUndispatchedOperation
  <2>3. \A o \in Ops : TaskChange(o)
    BY <2>1, <2>2, SetTaskChange, PolicyAssumption DEF MyTask
  <2> QED
    BY <1>2, <1>4, <2>3 DEF StopUndispatchedOperation
<1>5. CASE PrepareDispatch(d)
  <2>1. dr[d].op \in Ops
    BY <1>0, <1>5 DEF PrepareDispatch, At, Shape, DrivePC
  <2>2. \A o \in Ops : TaskChange(o)
    BY <1>3, <1>5, <2>1, SetTaskChange DEF PrepareDispatch
  <2> QED
    BY <1>2, <1>5, <2>2 DEF PrepareDispatch
<1>6. CASE MarkRemoteApplyFailed(d)
  <2>1. dr[d].op \in Ops /\ dr[d].rep \in {"failed", "failed_retryable"}
    BY <1>0, <1>6 DEF MarkRemoteApplyFailed, At, Shape, DrivePC
  <2>2. PICK s : /\ s \in {MyTask(d), dr[d].rep}
                 /\ SetTask(d, s)
    BY <1>6 DEF MarkRemoteApplyFailed
  <2>3. \A o \in Ops : TaskChange(o)
    BY <2>1, <2>2, SetTaskChange DEF MyTask
  <2> QED
    BY <1>2, <1>6, <2>3 DEF MarkRemoteApplyFailed
<1>7. CASE StopProgress(d) \/ Progress(d) \/ Preflight(d)
  <2>1. /\ dr[d].pc \in DrivePC
        /\ StopProgress(d) \/ Preflight(d) => dr[d].rid # NoRemote
    BY <1>0, <1>7, Zenon
       DEF StopProgress, Progress, Preflight, At, Shape, DrivePC
  <2>2. \/ UNCHANGED taskState
        \/ /\ dr[d].rid # NoRemote
           /\ \E s \in {MyTask(d), SyncedTask(MyTask(d), Report(d))} :
                SetTask(d, s)
    BY <1>7, <2>1, Zenon
       DEF StopProgress, Progress, Preflight, ReconcileTerminal
  <2>3. \A o \in Ops : TaskChange(o)
    BY <1>3, <2>1, <2>2, ReportChange
  <2>4. UNCHANGED <<applyState, stopReq, published>>
    BY <1>7 DEF StopProgress, Progress, Preflight
  <2> QED
    BY <1>2, <2>3, <2>4
<1> QED
  BY <1>1, <1>4, <1>5, <1>6, <1>7

LEMMA SettlingRows ==
  ASSUME TypeInv, NEW d \in Drivers,
         \/ Load(d) \/ Mirror(d) \/ List(d) \/ UpdateDerivedState(d)
         \/ MarkOperation(d) \/ StopPendingSiblings(d) \/ Reload(d)
         \/ Publish(d) \/ Finish(d)
  PROVE  RowChange
<1> USE DEF applyVars, opVars, remoteVars
<1>1. CASE \/ Load(d) \/ Mirror(d) \/ List(d)
           \/ MarkOperation(d) \/ StopPendingSiblings(d) \/ Reload(d)
  <2>1. UNCHANGED <<applyState, taskState, stopReq, published>>
    BY <1>1, Zenon DEF Load, Mirror, List, MarkOperation, StopPendingSiblings,
                       Reload
  <2> QED
    BY <2>1, QuietRow
<1>2. CASE UpdateDerivedState(d)
  <2>1. ParentChange
    BY <1>2 DEF UpdateDerivedState, Swapped, ParentChange
  <2> QED
    BY <1>2, <2>1
       DEF UpdateDerivedState, RowChange, StopChange, PublishChange, TaskChange
<1>3. CASE Publish(d)
  <2>1. dr[d] \in Drive
    BY DEF TypeInv, DriversOK, Good
  <2>2. dr'[d].pc = "finish"
    BY <1>3, <2>1 DEF Publish, Goto, TypeInv, DriversOK, Drive
  <2>3. PublishChange
    BY <1>3, <2>2 DEF Publish, PublishChange
  <2> QED
    BY <1>3, <2>3 DEF Publish, RowChange, StopChange, ParentChange, TaskChange
<1>4. CASE Finish(d)
  <2>1. StopChange
    BY <1>4 DEF Finish, CompleteStop, StopChange
  <2> QED
    BY <1>4, <2>1 DEF Finish, RowChange, PublishChange, ParentChange, TaskChange
<1> QED
  BY <1>1, <1>2, <1>3, <1>4

LEMMA WholeRows ==
  ASSUME TypeInv, NEW d \in Drivers,
         \/ WholeDrive(d) \/ WholeStopTasks(d) \/ WholeStopApply(d)
         \/ WholeStopDone(d) \/ WholeStopOperations(d)
         \/ WholeDispatch(d) \/ WholePoll(d) \/ WholeFail(d)
  PROVE  RowChange
<1> USE DEF applyVars, opVars, remoteVars
<1>0. ASSUME NEW s, s \notin {"completed", "waiting_for_cutover"},
             taskState' = TasksSettled(s)
      PROVE  \A o \in Ops : TaskChange(o)
  BY <1>0 DEF TasksSettled, TaskChange
<1>1. CASE WholeDrive(d) \/ WholeStopOperations(d) \/ WholeDispatch(d)
  <2>1. UNCHANGED <<applyState, taskState, stopReq, published>>
    BY <1>1 DEF WholeDrive, WholeStopOperations, WholeDispatch
  <2> QED
    BY <2>1, QuietRow
<1>2. CASE WholeStopTasks(d)
  <2>1. \A o \in Ops : TaskChange(o)
    BY <1>0, <1>2, PolicyAssumption DEF WholeStopTasks, TaskChange
  <2> QED
    BY <1>2, <2>1
       DEF WholeStopTasks, RowChange, StopChange, PublishChange, ParentChange
<1>3. CASE WholeStopApply(d)
  BY <1>3 DEF WholeStopApply, RowChange, StopChange, PublishChange,
              ParentChange, TaskChange
<1>4. CASE WholeStopDone(d)
  BY <1>4 DEF WholeStopDone, RowChange, StopChange, PublishChange,
              ParentChange, TaskChange
<1>5. CASE WholePoll(d)
  <2>1. At(d, "wholePoll") /\ UNCHANGED <<stopReq, published>>
    BY <1>5 DEF WholePoll
  <2>2. \A o \in Ops : taskState'[o] \in {taskState[o], "running", "completed",
                                          "failed"}
    BY <1>5, SyncedType DEF WholePoll
  <2>3. \A o \in Ops : TaskChange(o)
    BY <2>1, <2>2 DEF TaskChange
  <2> QED
    BY <2>1, <2>3 DEF RowChange, StopChange, PublishChange, ParentChange
<1>6. CASE WholeFail(d)
  <2>1. \A o \in Ops : TaskChange(o)
    BY <1>0, <1>6 DEF WholeFail, TaskChange
  <2>2. ParentChange
    BY <1>6 DEF WholeFail, ParentChange
  <2> QED
    BY <1>6, <2>1, <2>2 DEF WholeFail, RowChange, StopChange, PublishChange
<1> QED
  BY <1>1, <1>2, <1>3, <1>4, <1>5, <1>6

\* What a step does to the parent row, the tasks, the stop request and the
\* summaries.
LEMMA RowStep ==
  ASSUME TypeInv, [Next]_vars
  PROVE  RowChange
<1> USE DEF applyVars, opVars, remoteVars
<1>1. ASSUME NEW d \in Drivers, DriveStep(d)
      PROVE  RowChange
  BY <1>1, DrivingRows, SettlingRows, WholeRows DEF DriveStep
<1>2. CASE \E d \in Drivers : ClaimStopReconciliation(d)
  BY <1>2 DEF ClaimStopReconciliation, RowChange, StopChange, PublishChange,
              ParentChange, TaskChange
<1>3. CASE ExpireRetryable
  <2>1. \A o \in Ops : TaskChange(o)
    BY <1>3 DEF ExpireRetryable, TasksSettled, TaskChange
  <2>2. ParentChange
    BY <1>3 DEF ExpireRetryable, ParentChange, IsTerminal, TerminalApplyState
  <2> QED
    BY <1>3, <2>1, <2>2
       DEF ExpireRetryable, RowChange, StopChange, PublishChange
<1>4. CASE ValidateStop \/ QueueStop
  BY <1>4 DEF ValidateStop, QueueStop, RowChange, StopChange, PublishChange,
              ParentChange, TaskChange
<1>5. CASE \E d \in Drivers, o \in Ops : Claim(d, o)
  <2>1. UNCHANGED <<applyState, taskState, stopReq, published>>
    BY <1>5, Zenon
       DEF Claim, ClaimPending, ClaimStale, ClaimRetryable, ClaimCutover
  <2> QED
    BY <2>1, QuietRow
<1>6. CASE \/ \E d \in Drivers : Heartbeat(d) \/ AbortLostLease(d) \/ Crash(d)
           \/ \E o \in Ops : GoStale(o)
           \/ \E o \in Ops, k \in Attempts : RemoteStep(o, k)
           \/ ApplyGoesStale \/ ApplyAges \/ UNCHANGED vars
  <2>1. UNCHANGED <<applyState, taskState, stopReq, published>>
    BY <1>6 DEF Heartbeat, AbortLostLease, Crash, GoStale, RemoteStep,
                ApplyGoesStale, ApplyAges, vars
  <2> QED
    BY <2>1, QuietRow
<1> QED
  BY <1>1, <1>2, <1>3, <1>4, <1>5, <1>6 DEF Next

----------------------------------------------------------------------------
\* What is reported completed is completed.

AllCompleted == \A o \in Ops : RemoteCompleted(o)

\* A parent state that is completed, or about to be made so from a state read
\* earlier, has every remote completed.
RealInv ==
  /\ \A d \in Drivers : At(d, "wholePoll") => wholeRemote
  /\ \/ wholeRemote
     \/ /\ \A o \in Ops : /\ taskState[o] = "completed" => RemoteCompleted(o)
                          /\ opState[o] = "completed" => RemoteCompleted(o)
        /\ applyState = "completed" => AllCompleted
        /\ \A d \in Drivers :
             /\ At(d, "mirror") /\ dr[d].snap = "completed" => AllCompleted
             /\ At(d, "cas") /\ dr[d].rep = "completed" => AllCompleted

LEMMA InitReal == Init => RealInv
BY DEF Init, RealInv, At, Idle

\* A derived state is completed only if every child is.
LEMMA DeriveCompleted ==
  /\ \A s : DeriveApplyState({s}) = "completed" => s = "completed"
  /\ Derived = "completed" => \A o \in Ops : opState[o] = "completed"
<1>1. \A s : normalizeApplyState(s) = "completed" => s = "completed"
  BY DEF normalizeApplyState
<1>2. ASSUME NEW raw, DeriveApplyState(raw) = "completed"
      PROVE  \A s \in raw : s = "completed"
  <2>1. {normalizeApplyState(s) : s \in raw} = {"completed"}
    BY <1>2 DEF DeriveApplyState
  <2> QED
    BY <1>1, <2>1
<1>3. ASSUME Derived = "completed" PROVE \A o \in Ops : opState[o] = "completed"
  <2>1. DeriveApplyState({Children[i].state : i \in DOMAIN Children})
          = "completed"
    BY <1>3 DEF Derived, DeriveRolloutApplyState
  <2>2. \A i \in DOMAIN Children : Children[i].state = "completed"
    BY <1>2, <2>1
  <2> QED
    BY <2>2, Zenon DEF Children
<1> QED
  BY <1>2, <1>3

\* A completed remote apply stays completed, and the row points to it for good.
LEMMA RemoteCompletedStays ==
  ASSUME TypeInv, [Next]_vars, NEW o \in Ops, RemoteCompleted(o)
  PROVE  RemoteCompleted(o)'
<1>1. opRemote[o] \in Attempts /\ opRemote'[o] = opRemote[o]
  BY RemoteSteps DEF RemoteCompleted, Kept, TypeInv, RowsOK
<1>2. RemoteChange(o, opRemote[o])
  BY <1>1, RemoteSteps
<1>3. remote'[o][opRemote[o]] = "completed"
  BY <1>2 DEF RemoteCompleted, RemoteChange, RemoteNext
<1> QED
  BY <1>1, <1>3 DEF RemoteCompleted

LEMMA WholeStays == TypeInv /\ [Next]_vars /\ wholeRemote => wholeRemote'
<1> SUFFICES ASSUME TypeInv, [Next]_vars, wholeRemote PROVE wholeRemote'
  OBVIOUS
<1> USE DEF applyVars, opVars, remoteVars
<1>1. CASE \E d \in Drivers : DriveStep(d)
  <2>1. PICK d \in Drivers : DriveStep(d)
    BY <1>1
  <2>2. CASE \/ Load(d) \/ Mirror(d) \/ List(d) \/ UpdateDerivedState(d)
             \/ Scope(d) \/ CheckStop(d) \/ StopUndispatchedOperation(d)
             \/ SendStop(d) \/ StopProgress(d)
             \/ PrepareDispatch(d) \/ Dispatch(d) \/ PersistRemoteApplyID(d)
             \/ StartRemote(d) \/ Progress(d) \/ Preflight(d) \/ SendCutover(d)
             \/ MarkRemoteApplyFailed(d)
    BY <2>2, Zenon DEF Load, Mirror, List, UpdateDerivedState, Scope,
       CheckStop, StopUndispatchedOperation, SendStop, StopProgress,
       PrepareDispatch, Dispatch, PersistRemoteApplyID, StartRemote, Progress,
       Preflight, SendCutover, MarkRemoteApplyFailed
  <2>3. CASE \/ MarkOperation(d) \/ StopPendingSiblings(d)
             \/ Reload(d) \/ Publish(d) \/ Finish(d)
             \/ WholeDrive(d) \/ WholeStopTasks(d) \/ WholeStopApply(d)
             \/ WholeStopDone(d) \/ WholeStopOperations(d)
             \/ WholePoll(d) \/ WholeFail(d)
    BY <2>3, Zenon DEF MarkOperation, StopPendingSiblings, Reload, Publish,
       Finish, WholeDrive, WholeStopTasks, WholeStopApply, WholeStopDone,
       WholeStopOperations, WholePoll, WholeFail
  <2>4. CASE WholeDispatch(d)
    BY <2>4, Zenon DEF WholeDispatch
  <2> QED
    BY <2>1, <2>2, <2>3, <2>4 DEF DriveStep
<1>2. CASE \/ \E d \in Drivers, o \in Ops : Claim(d, o)
           \/ \E d \in Drivers : ClaimStopReconciliation(d)
  BY <1>2, Zenon
     DEF Claim, ClaimPending, ClaimStale, ClaimRetryable, ClaimCutover,
              ClaimStopReconciliation
<1>3. CASE \/ \E d \in Drivers : Heartbeat(d) \/ AbortLostLease(d) \/ Crash(d)
           \/ \E o \in Ops : GoStale(o)
           \/ \E o \in Ops, k \in Attempts : RemoteStep(o, k)
           \/ ExpireRetryable \/ ApplyGoesStale \/ ApplyAges
           \/ ValidateStop \/ QueueStop \/ UNCHANGED vars
  BY <1>3, Zenon DEF Heartbeat, AbortLostLease, Crash, GoStale, RemoteStep,
     ExpireRetryable, ApplyGoesStale, ApplyAges, ValidateStop, QueueStop, vars
<1> QED
  BY <1>1, <1>2, <1>3 DEF Next

LEMMA StepReal == TypeInv /\ RealInv /\ [Next]_vars => RealInv'
<1> SUFFICES ASSUME TypeInv, RealInv, [Next]_vars PROVE RealInv'
  OBVIOUS
<1>1. \A d \in Drivers : At(d, "wholePoll")' => wholeRemote'
  BY CarryStep, WholeStays DEF Carries, RealInv, At
<1>2. CASE wholeRemote
  BY <1>1, <1>2, WholeStays DEF RealInv
<1>3. CASE ~wholeRemote
  <2>0. \A d \in Drivers : ~At(d, "wholePoll")
    BY <1>3 DEF RealInv
  <2>1. AllCompleted => AllCompleted'
    BY RemoteCompletedStays DEF AllCompleted
  <2>2. \A o \in Ops : taskState'[o] = "completed" => RemoteCompleted(o)'
    BY <1>3, <2>0, RowStep, RemoteCompletedStays
       DEF RealInv, RowChange, TaskChange, RemoteIs, RemoteCompleted
  <2>3. ASSUME NEW o \in Ops, opState'[o] = "completed"
        PROVE  RemoteCompleted(o)'
    <3>1. CASE opState[o] = "completed"
      BY <1>3, <3>1, RemoteCompletedStays DEF RealInv
    <3>2. CASE opState[o] # "completed"
      <4>1. PICK d \in Drivers : dr[d].op = o /\ Settles(d, "completed")
        BY <2>3, <3>2, OperationStep DEF OpChange
      <4>2. \/ At(d, "mirror") /\ dr[d].snap = "completed"
            \/ DeriveApplyState({taskState[o]}) = "completed"
        BY <4>1, PolicyAssumption DEF Settles
      <4>3. RemoteCompleted(o)
        BY <1>3, <4>2, DeriveCompleted, Zenon DEF RealInv, AllCompleted
      <4> QED
        BY <4>3, RemoteCompletedStays
    <3> QED
      BY <3>1, <3>2
  <2>4. applyState' = "completed" => AllCompleted'
    <3>1. applyState' = "completed" =>
            \/ applyState = "completed"
            \/ \E d \in Drivers : At(d, "cas") /\ dr[d].rep = "completed"
      BY <2>0, RowStep, PolicyAssumption DEF RowChange, ParentChange
    <3> QED
      BY <1>3, <2>1, <3>1 DEF RealInv
  <2>5. Derived = "completed" => AllCompleted
    BY <1>3, DeriveCompleted DEF RealInv, AllCompleted
  <2>6. ASSUME NEW d \in Drivers
        PROVE  /\ At(d, "mirror")' /\ dr'[d].snap = "completed" => AllCompleted'
               /\ At(d, "cas")' /\ dr'[d].rep = "completed" => AllCompleted'
    <3>1. Carries(dr[d], dr'[d])
      BY CarryStep
    <3> QED
      BY <1>3, <2>1, <2>5, <3>1 DEF Carries, Derives, RealInv, At
  <2> QED
    BY <1>1, <2>2, <2>3, <2>4, <2>6 DEF RealInv
<1> QED
  BY <1>2, <1>3

\* Whatever drivers crash, stall or lose their lease, a completed operation has
\* a completed remote apply, and a completed apply has only such operations
\* (markOperationFromOwnResult, UpdateDerivedState).
THEOREM CompletedIsRealHolds == Spec => []CompletedIsReal
<1>1. RealInv => CompletedIsReal
  BY DEF RealInv, CompletedIsReal, AllCompleted
<1> QED
  BY <1>1, InitType, InitReal, StepType, StepReal, PTL DEF Spec

----------------------------------------------------------------------------
\* Swaps do not overlap.

\* A remote apply swaps only when told to, and only the one the row points to
\* is told.
SwapInv == Barrier => \A o \in Ops, k \in Attempts :
  /\ <<o, k>> \in remoteCut => opRemote[o] = k
  /\ remote[o][k] = "cutting_over" => <<o, k>> \in remoteCut

LEMMA InitSwap == Init => SwapInv
BY DEF Init, SwapInv

LEMMA RemoteCutKept ==
  ASSUME TypeInv, [Next]_vars
  PROVE  remoteCut \subseteq remoteCut'
<1> USE DEF applyVars, opVars, remoteVars
<1>1. ASSUME NEW d \in Drivers, DriveStep(d) PROVE remoteCut \subseteq remoteCut'
  <2>1. CASE SendCutover(d)
    BY <2>1 DEF SendCutover
  <2>2. CASE \/ Load(d) \/ Mirror(d) \/ List(d) \/ UpdateDerivedState(d)
             \/ Scope(d) \/ CheckStop(d) \/ StopUndispatchedOperation(d)
             \/ SendStop(d) \/ StopProgress(d)
             \/ PrepareDispatch(d) \/ Dispatch(d) \/ PersistRemoteApplyID(d)
             \/ StartRemote(d) \/ Progress(d) \/ Preflight(d)
             \/ MarkRemoteApplyFailed(d)
    <3>1. UNCHANGED remoteCut
      BY <2>2, Zenon DEF Load, Mirror, List, UpdateDerivedState, Scope,
         CheckStop, StopUndispatchedOperation, SendStop, StopProgress,
         PrepareDispatch, Dispatch, PersistRemoteApplyID, StartRemote,
         Progress, Preflight, MarkRemoteApplyFailed
    <3> QED
      BY <3>1
  <2>3. CASE \/ MarkOperation(d) \/ StopPendingSiblings(d)
             \/ Reload(d) \/ Publish(d) \/ Finish(d)
             \/ WholeDrive(d) \/ WholeStopTasks(d) \/ WholeStopApply(d)
             \/ WholeStopDone(d) \/ WholeStopOperations(d)
             \/ WholeDispatch(d) \/ WholePoll(d) \/ WholeFail(d)
    <3>1. UNCHANGED remoteCut
      BY <2>3, Zenon DEF MarkOperation, StopPendingSiblings, Reload, Publish,
         Finish, WholeDrive, WholeStopTasks, WholeStopApply, WholeStopDone,
         WholeStopOperations, WholeDispatch, WholePoll, WholeFail
    <3> QED
      BY <3>1
  <2> QED
    BY <1>1, <2>1, <2>2, <2>3 DEF DriveStep
<1>2. CASE \/ \E d \in Drivers, o \in Ops : Claim(d, o)
           \/ \E d \in Drivers : ClaimStopReconciliation(d)
  BY <1>2, Zenon
     DEF Claim, ClaimPending, ClaimStale, ClaimRetryable, ClaimCutover,
              ClaimStopReconciliation
<1>3. CASE \/ \E d \in Drivers : Heartbeat(d) \/ AbortLostLease(d) \/ Crash(d)
           \/ \E o \in Ops : GoStale(o)
           \/ \E o \in Ops, k \in Attempts : RemoteStep(o, k)
           \/ ExpireRetryable \/ ApplyGoesStale \/ ApplyAges
           \/ ValidateStop \/ QueueStop \/ UNCHANGED vars
  BY <1>3 DEF Heartbeat, AbortLostLease, Crash, GoStale, RemoteStep,
     ExpireRetryable, ApplyGoesStale, ApplyAges, ValidateStop, QueueStop, vars
<1> QED
  BY <1>1, <1>2, <1>3 DEF Next

LEMMA StepSwap == TypeInv /\ SwapInv /\ [Next]_vars => SwapInv'
<1> SUFFICES ASSUME TypeInv, SwapInv, [Next]_vars, Barrier,
                    NEW o \in Ops, NEW k \in Attempts
             PROVE  /\ <<o, k>> \in remoteCut' => opRemote'[o] = k
                    /\ remote'[o][k] = "cutting_over" => <<o, k>> \in remoteCut'
  BY DEF SwapInv, Barrier
<1>1. k # NoRemote
  BY BudgetAssumption DEF Attempts, NoRemote
<1>2. <<o, k>> \in remoteCut' => opRemote[o] = k
  BY RemoteSteps DEF CutChange, SwapInv
<1>3. <<o, k>> \in remoteCut' => opRemote'[o] = k
  BY <1>1, <1>2, RemoteSteps DEF Kept
<1>4. remote'[o][k] = "cutting_over" => <<o, k>> \in remoteCut
  <2>1. "cutting_over" \in RemoteNext(o, k) => <<o, k>> \in remoteCut
    BY PolicyAssumption DEF RemoteNext
  <2> QED
    BY <2>1, RemoteSteps DEF RemoteChange, SwapInv
<1> QED
  BY <1>3, <1>4, RemoteCutKept

\* Under the barrier policy two deployments never swap at the same time, unless
\* on_failure lets a rollout go past a failed deployment, or the apply was also
\* dispatched as a whole (FindNextApplyOperationCutover).
THEOREM SwapsNeverOverlapHolds ==
  ASSUME OnFailure # "continue"
  PROVE  Spec => [](wholeRemote \/ SwapsNeverOverlap)
<1>1. CutInv /\ SwapInv /\ CompletedIsReal => wholeRemote \/ SwapsNeverOverlap
  <2> SUFFICES ASSUME CutInv, SwapInv, CompletedIsReal, ~wholeRemote, Barrier,
                      NEW i \in Ops, NEW j \in Ops, i < j,
                      NEW k \in Attempts, NEW l \in Attempts,
                      remote[i][k] = "cutting_over",
                      remote[j][l] = "cutting_over"
               PROVE  FALSE
    BY OpsAssumption DEF SwapsNeverOverlap
  <2>1. RemoteCompleted(i)
    BY DEF CutInv, CutActive, SwapStarted, CompletedIsReal
  <2>2. opRemote[i] = k
    BY Zenon DEF SwapInv
  <2> QED
    BY <2>1, <2>2 DEF RemoteCompleted
<1>2. RealInv => CompletedIsReal
  BY DEF RealInv, CompletedIsReal, AllCompleted
<1> QED
  BY <1>1, <1>2, InitType, InitLease, InitCut, InitSwap, InitReal, StepType,
     StepLease, StepCut, StepSwap, StepReal, PTL DEF Spec

----------------------------------------------------------------------------
\* A terminal apply stays terminal, its summary is published once, and a served
\* stop leaves it terminal.

\* Unless on_failure is "continue", a failed child fails the rollout.
LEMMA NeverDegraded ==
  ASSUME OnFailure # "continue"
  PROVE  Derived # "running_degraded"
<1>1. \A s : normalizeApplyState(s) = "failed" => s = "failed"
  BY DEF normalizeApplyState
<1>2. ASSUME NEW raw, DeriveApplyState(raw) = "failed"
      PROVE  "failed" \in raw
  <2>1. "failed" \in {normalizeApplyState(s) : s \in raw}
    BY <1>2 DEF DeriveApplyState
  <2> QED
    BY <1>1, <2>1
<1>3. \A raw : DeriveApplyState(raw) # "running_degraded"
  <2>1. \A raw : "running_degraded" # DeriveApplyState(raw)
    BY DEF DeriveApplyState
  <2> QED
    BY <2>1
<1>4. \A i \in DOMAIN Children :
        Children[i].continueOnFailure <=> Children[i].pauseOnFailure
  BY Zenon DEF Children
<1> QED
  BY <1>2, <1>3, <1>4 DEF Derived, DeriveRolloutApplyState

EndInv ==
  \/ wholeRemote
  \/ /\ \A d \in Drivers :
          /\ At(d, "cas") /\ IsTerminal(dr[d].snap) => IsTerminal(dr[d].rep)
          /\ At(d, "wholeDone") => IsTerminal(applyState)
          /\ At(d, "publish") => IsTerminal(applyState) /\ published = 0
     /\ \A d, e \in Drivers : At(d, "publish") /\ At(e, "publish") => d = e
     /\ published \in {0, 1}
     /\ published = 1 => IsTerminal(applyState)
     /\ stopReq = "completed" => IsTerminal(applyState)

LEMMA InitEnd == Init => EndInv
BY DEF Init, EndInv, At, Idle

\* Only the driver that ended the apply comes to publish its summary.
LEMMA StepEnd ==
  ASSUME OnFailure # "continue"
  PROVE  TypeInv /\ RealInv /\ EndInv /\ [Next]_vars => EndInv'
<1> SUFFICES ASSUME TypeInv, RealInv, EndInv, [Next]_vars, ~wholeRemote'
             PROVE  EndInv'
  BY DEF EndInv
<1>0. ~wholeRemote
  BY WholeStays
<1>1. \A d \in Drivers : ~At(d, "wholePoll")
  BY <1>0 DEF RealInv
<1>2. IsTerminal(applyState) => IsTerminal(applyState')
  <2>1. IsTerminal(StoppedState) /\ IsTerminal("failed") /\ ~IsTerminal("pending")
    BY PolicyAssumption DEF IsTerminal, TerminalApplyState
  <2> QED
    BY <1>0, <1>1, <2>1, RowStep DEF RowChange, ParentChange, EndInv
<1>3. \A d \in Drivers : Carries(dr[d], dr'[d])
  BY CarryStep
<1>4. ASSUME NEW d \in Drivers
      PROVE  /\ At(d, "cas")' /\ IsTerminal(dr'[d].snap)
                  => IsTerminal(dr'[d].rep)
             /\ At(d, "wholeDone")' => IsTerminal(applyState')
  BY <1>0, <1>2, <1>3, NeverDegraded DEF Carries, Derives, EndInv, At
<1>5. stopReq' = "completed" => IsTerminal(applyState')
  BY <1>0, <1>2, RowStep DEF RowChange, StopChange, EndInv
\* A driver comes to publish: the apply was not terminal, so nothing had been
\* published and nobody was about to.
<1>6. ASSUME NEW d \in Drivers, At(d, "publish")', ~At(d, "publish")
      PROVE  /\ IsTerminal(applyState') /\ published' = 0
             /\ \A e \in Drivers \ {d} : ~At(e, "publish")'
  <2>1. EndsApply(dr[d])
    BY <1>3, <1>6 DEF Carries, At
  <2>2. published = 0 /\ \A e \in Drivers : ~At(e, "publish")
    BY <1>0, <2>1 DEF EndInv, EndsApply
  <2>3. published' = 0
    BY <2>2, RowStep DEF RowChange, PublishChange
  <2>4. \A e \in Drivers \ {d} : ~At(e, "publish")'
    BY <1>6, <2>2, OneMoves DEF At
  <2> QED
    BY <2>1, <2>3, <2>4 DEF EndsApply
\* A driver publishes: it was the only one, and is past it.
<1>7. ASSUME published' # published
      PROVE  /\ IsTerminal(applyState') /\ published' = 1
             /\ \A e \in Drivers : ~At(e, "publish")'
  <2>1. PICK d \in Drivers : /\ At(d, "publish") /\ IsTerminal(applyState)
                             /\ published' = published + 1
                             /\ dr'[d].pc # "publish"
    BY <1>7, RowStep DEF RowChange, PublishChange
  <2>2. published = 0 /\ \A e \in Drivers : At(e, "publish") => e = d
    BY <1>0, <2>1 DEF EndInv
  <2>3. \A e \in Drivers : ~At(e, "publish")'
    BY <2>1, <2>2, OneMoves DEF At
  <2> QED
    BY <1>2, <2>1, <2>2, <2>3
<1>8. CASE \E d \in Drivers : At(d, "publish")' /\ ~At(d, "publish")
  BY <1>4, <1>5, <1>6, <1>8 DEF EndInv
<1>9. CASE published' # published
  BY <1>4, <1>5, <1>7, <1>9 DEF EndInv
<1>10. CASE /\ published' = published
            /\ \A d \in Drivers : At(d, "publish")' => At(d, "publish")
  BY <1>0, <1>2, <1>4, <1>5, <1>10 DEF EndInv
<1> QED
  BY <1>8, <1>9, <1>10

\* The terminal summary of a rollout is published at most once, for an apply
\* that stays terminal, unless on_failure holds failed rollouts open
\* (publishTerminalSummaryIfWon).
THEOREM SummaryOnceHolds ==
  ASSUME OnFailure # "continue"
  PROVE  Spec => []SummaryOnce
<1>1. EndInv => SummaryOnce
  BY DEF EndInv, SummaryOnce
<1> QED
  BY <1>1, InitType, InitReal, InitEnd, StepType, StepReal, StepEnd, PTL
     DEF Spec

\* A stop is completed only for a terminal apply, which is not set going again,
\* unless on_failure holds failed rollouts open
\* (completePendingStopIfApplyResolved).
THEOREM StopCompletedTerminalHolds ==
  ASSUME OnFailure # "continue"
  PROVE  Spec => []StopCompletedTerminal
<1>1. EndInv => StopCompletedTerminal
  BY DEF EndInv, StopCompletedTerminal
<1> QED
  BY <1>1, InitType, InitReal, InitEnd, StepType, StepReal, StepEnd, PTL
     DEF Spec
============================================================================
