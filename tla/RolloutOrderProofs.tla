------------------------- MODULE RolloutOrderProofs -------------------------
(***************************************************************************)
(* The order of a rollout, for any number of operations, drivers, retries  *)
(* and faults: the swaps under the barrier policy, the dispatches under    *)
(* the rolling policy.                                                     *)
(*                                                                         *)
(* Both rest on one fact: a completed operation stays completed. A driver  *)
(* may be slow, stalled or dispossessed, but of the drivers of an          *)
(* operation only one holds the lease, and the one that completed it has   *)
(* written the row for the last time.                                      *)
(***************************************************************************)
EXTENDS RolloutSteps

LeaseUnique ==
  \A d, e \in Drivers :
    dr[d].lease /\ dr[e].lease /\ dr[d].op = dr[e].op => d = e

CompletedIsSettled ==
  \A d \in Drivers :
    /\ dr[d].op \in Ops /\ dr[d].lease /\ opState[dr[d].op] = "completed"
    => Settled(dr[d])

LeaseInv == LeaseUnique /\ CompletedIsSettled

LEMMA InitLease == Init => LeaseInv
BY DEF Init, LeaseInv, LeaseUnique, CompletedIsSettled, Idle

\* A claim leaves the other drivers where they are.
LEMMA LeaseOthers ==
  ASSUME TypeInv, NEW d \in Drivers, NEW o, NEW r, Lease(d, o, r)
  PROVE  /\ dr'[d] = r
         /\ \A e \in Drivers \ {d} :
              /\ dr'[e].op = dr[e].op /\ dr'[e].pc = dr[e].pc
              /\ dr'[e].then = dr[e].then /\ dr'[e].cut = dr[e].cut
              /\ dr'[e].lease => dr[e].lease /\ dr[e].op # o
<1>1. \A e \in Drivers : dr[e] \in Drive
  BY DEF TypeInv, DriversOK, Good
<1>2. \A e \in Drivers \ {d} :
        dr'[e] = IF dr[e].op = o THEN [dr[e] EXCEPT !.lease = FALSE]
                 ELSE dr[e]
  BY DEF Lease
<1> QED
  BY <1>1, <1>2 DEF Drive, Lease

LEMMA StepLeaseUnique ==
  ASSUME TypeInv, LeaseUnique, [Next]_vars
  PROVE  LeaseUnique'
<1>1. ASSUME NEW d \in Drivers, NEW o, NEW r, r.op = o, Lease(d, o, r)
      PROVE  LeaseUnique'
  BY <1>1, LeaseOthers DEF LeaseUnique
<1>2. CASE \A e \in Drivers : Moves(dr[e], dr'[e])
  BY <1>2 DEF LeaseUnique, Moves
<1>3. CASE \E d \in Drivers, o \in Ops, cut \in BOOLEAN : Claims(d, o, cut)
  <2>1. PICK d \in Drivers, o \in Ops, cut \in BOOLEAN : Claims(d, o, cut)
    BY <1>3
  <2>2. Claimed(o, cut).op = o
    BY DEF Claimed, Idle
  <2> QED
    BY <1>1, <2>1, <2>2 DEF Claims
<1>4. CASE \E d \in Drivers :
             Lease(d, 0, [Idle EXCEPT !.pc = "whole", !.lease = TRUE,
                                      !.mem = applyState])
  <2>1. PICK r : /\ r = [Idle EXCEPT !.pc = "whole", !.lease = TRUE,
                                     !.mem = applyState]
                 /\ \E d \in Drivers : Lease(d, 0, r)
    BY <1>4
  <2>2. r.op = 0
    BY <2>1 DEF Idle
  <2> QED
    BY <1>1, <2>1, <2>2
<1> QED
  BY <1>2, <1>3, <1>4, DriverStep

\* A completed operation stays completed: the third part of TerminalFinal.
LEMMA CompletedStays ==
  ASSUME TypeInv, LeaseInv, [Next]_vars
  PROVE  \A o \in Ops : opState[o] = "completed" => opState'[o] = "completed"
<1> SUFFICES ASSUME NEW o \in Ops, opState[o] = "completed"
             PROVE  opState'[o] = "completed"
  OBVIOUS
<1>1. \A d \in Drivers : dr[d].op = o => ~Settles(d, opState'[o])
  BY DEF LeaseInv, CompletedIsSettled, Settles
<1> QED
  BY <1>1, OperationStep DEF OpChange

LEMMA StepCompletedIsSettled ==
  ASSUME TypeInv, LeaseInv, [Next]_vars
  PROVE  CompletedIsSettled'
<1> SUFFICES ASSUME NEW d \in Drivers, dr'[d].op \in Ops, dr'[d].lease,
                    opState'[dr'[d].op] = "completed"
             PROVE  Settled(dr'[d])
  BY DEF CompletedIsSettled, Settled
<1> DEFINE o == dr'[d].op
\* The operation was completed before: a driver that holds its lease had settled
\* it, and it is not claimed again.
<1>1. CASE opState[o] = "completed"
  <2>1. ASSUME dr[d].op = o, dr[d].lease
        PROVE  Settled(dr[d])
    BY <1>1, <2>1 DEF LeaseInv, CompletedIsSettled
  <2>2. CASE \A e \in Drivers : Moves(dr[e], dr'[e])
    BY <2>1, <2>2 DEF Moves
  <2>3. ASSUME NEW e \in Drivers, NEW p, NEW r, r.op = p, Lease(e, p, r),
               p \in Ops => opState[p] # "completed"
        PROVE  Settled(dr'[d])
    <3>1. e # d
      BY <1>1, <2>3, LeaseOthers
    <3> QED
      BY <2>1, <2>3, <3>1, LeaseOthers DEF Settled
  <2>4. CASE \E e \in Drivers, p \in Ops, cut \in BOOLEAN : Claims(e, p, cut)
    <3>1. PICK e \in Drivers, p \in Ops, cut \in BOOLEAN : Claims(e, p, cut)
      BY <2>4
    <3>2. Claimed(p, cut).op = p
      BY DEF Claimed, Idle
    <3> QED
      BY <2>3, <3>1, <3>2 DEF Claims, IsTerminal, TerminalApplyState
  <2>5. CASE \E e \in Drivers :
               Lease(e, 0, [Idle EXCEPT !.pc = "whole", !.lease = TRUE,
                                        !.mem = applyState])
    <3>1. PICK r : /\ r = [Idle EXCEPT !.pc = "whole", !.lease = TRUE,
                                       !.mem = applyState]
                   /\ \E e \in Drivers : Lease(e, 0, r)
      BY <2>5
    <3>2. r.op = 0 /\ 0 \notin Ops
      BY <3>1, OpsAssumption DEF Idle
    <3> QED
      BY <2>3, <3>1, <3>2
  <2> QED
    BY <2>2, <2>4, <2>5, DriverStep
\* It is completed by this step: by the driver that holds the lease, which has
\* thereby settled it.
<1>2. CASE opState[o] # "completed"
  <2>1. PICK e \in Drivers : dr[e].op = o /\ Settles(e, "completed")
    BY <1>2, OperationStep DEF OpChange
  <2>2. Settled(dr'[e]) /\ ~Settled(dr[e]) /\ dr[e].lease
    BY <2>1, PolicyAssumption DEF Settles
  <2>3. CASE \A f \in Drivers : Moves(dr[f], dr'[f])
    BY <2>1, <2>2, <2>3 DEF Moves, LeaseInv, LeaseUnique
  <2>4. ASSUME NEW f \in Drivers, NEW p, NEW r, Lease(f, p, r), At(f, "idle")
        PROVE  FALSE
    <3>1. f # e
      <4>1. Shape(dr[f])
        BY DEF TypeInv, DriversOK, Good
      <4> QED
        BY <2>2, <2>4, <4>1 DEF At, Shape
    <3> QED
      BY <2>2, <2>4, <3>1, LeaseOthers DEF Settled
  <2> QED
    BY <2>3, <2>4, DriverStep DEF Claims
<1> QED
  BY <1>1, <1>2

LEMMA StepLease == TypeInv /\ LeaseInv /\ [Next]_vars => LeaseInv'
BY StepLeaseUnique, StepCompletedIsSettled DEF LeaseInv

\* At most one driver holds the lease of an operation, and the one that holds
\* it on a completed operation is done with it (operationWriteGuardFromContext).
THEOREM LeaseInvariant == Spec => [](TypeInv /\ LeaseInv)
BY InitType, StepType, InitLease, StepLease, PTL DEF Spec

----------------------------------------------------------------------------
\* The barrier policy.

\* Operation j is being cut over, or its swap was asked for, has begun or is
\* done.
CutActive(j) == \/ opState[j] = "cutting_over"
                \/ \E d \in Drivers : dr[d].op = j /\ dr[d].cut
                \/ SwapStarted(j)

CutInv == Barrier => \A i, j \in Ops :
                       i < j /\ CutActive(j) => opState[i] = "completed"

LEMMA InitCut == Init => CutInv
BY DEF Init, CutInv, CutActive, SwapStarted, Idle

\* No driver that settles an operation leaves it cutting over.
LEMMA NeverSettledCutting ==
  ASSUME NEW d \in Drivers
  PROVE  ~Settles(d, "cutting_over")
BY PolicyAssumption
   DEF Settles, IsTerminal, TerminalApplyState, Persisted

\* An operation becomes active only when no earlier one blocks its cutover.
LEMMA CutActivates ==
  ASSUME TypeInv, Barrier, [Next]_vars, NEW j \in Ops, ~CutActive(j),
         CutActive(j)'
  PROVE  \A i \in Ops : ~BlocksCutover(i, j)
<1>1. CASE opState'[j] = "cutting_over"
  BY <1>1, OperationStep, NeverSettledCutting DEF OpChange, CutActive
<1>2. CASE \E d \in Drivers : dr'[d].op = j /\ dr'[d].cut
  <2>1. PICK d \in Drivers : dr'[d].op = j /\ dr'[d].cut
    BY <1>2
  <2>2. ~(dr[d].op = j /\ dr[d].cut)
    BY DEF CutActive
  <2>3. CASE \A e \in Drivers : Moves(dr[e], dr'[e])
    BY <2>1, <2>2, <2>3 DEF Moves
  <2>4. CASE \E e \in Drivers, o \in Ops, cut \in BOOLEAN : Claims(e, o, cut)
    <3>1. PICK e \in Drivers, o \in Ops, cut \in BOOLEAN : Claims(e, o, cut)
      BY <2>4
    <3>2. e = d
      BY <2>1, <2>2, <3>1, LeaseOthers DEF Claims
    <3>3. dr'[d] = Claimed(o, cut)
      BY <3>1, <3>2, LeaseOthers DEF Claims
    <3>4. cut /\ o = j
      BY <2>1, <3>3 DEF Claimed, Idle
    <3> QED
      BY <3>1, <3>4 DEF Claims, CutActive
  <2>5. CASE \E e \in Drivers :
               Lease(e, 0, [Idle EXCEPT !.pc = "whole", !.lease = TRUE,
                                        !.mem = applyState])
    <3>1. PICK r : /\ r = [Idle EXCEPT !.pc = "whole", !.lease = TRUE,
                                       !.mem = applyState]
                   /\ \E e \in Drivers : Lease(e, 0, r)
      BY <2>5
    <3>2. PICK e \in Drivers : Lease(e, 0, r)
      BY <3>1
    <3>3. ~r.cut
      BY <3>1 DEF Idle
    <3>4. dr'[e] = r /\ \A f \in Drivers \ {e} : dr'[f].op = dr[f].op
                                               /\ dr'[f].cut = dr[f].cut
      BY <3>2, LeaseOthers
    <3> QED
      BY <2>1, <2>2, <3>3, <3>4
  <2> QED
    BY <2>3, <2>4, <2>5, DriverStep
<1>3. ~SwapStarted(j)'
  <2>1. \A k \in Attempts : /\ <<j, k>> \notin remoteCut
                            /\ remote[j][k] \notin {"cutting_over", "completed"}
                            /\ <<j, k>> \notin remoteCut'
    BY RemoteSteps DEF CutActive, SwapStarted, CutChange
  <2>2. ASSUME NEW k \in Attempts
        PROVE  remote'[j][k] \notin {"cutting_over", "completed"}
    <3>1. RemoteNext(j, k) \cap {"cutting_over", "completed"} = {}
      BY <2>1, PolicyAssumption DEF RemoteNext
    <3> QED
      BY <2>1, <3>1, RemoteSteps DEF RemoteChange
  <2> QED
    BY <2>1, <2>2 DEF SwapStarted
<1> QED
  BY <1>1, <1>2, <1>3 DEF CutActive

LEMMA StepCut ==
  ASSUME OnFailure # "continue"
  PROVE  TypeInv /\ LeaseInv /\ CutInv /\ [Next]_vars => CutInv'
<1> SUFFICES ASSUME TypeInv, LeaseInv, CutInv, [Next]_vars, Barrier,
                    NEW i \in Ops, NEW j \in Ops, i < j, CutActive(j)'
             PROVE  opState'[i] = "completed"
  BY DEF CutInv, Barrier
<1>1. opState[i] = "completed"
  <2>1. CASE CutActive(j)
    BY <2>1 DEF CutInv
  <2>2. CASE ~CutActive(j)
    BY <2>2, CutActivates DEF BlocksCutover
  <2> QED
    BY <2>1, <2>2
<1> QED
  BY <1>1, CompletedStays

\* Under the barrier policy, and unless on_failure lets a rollout go past a
\* failed deployment, no deployment swaps before every earlier one has completed
\* (FindNextApplyOperationCutover, triggerRemoteOperationCutover).
THEOREM CutoverOrderHolds ==
  ASSUME OnFailure # "continue"
  PROVE  Spec => []CutoverOrder
<1>1. CutInv => CutoverOrder
  BY DEF CutInv, CutActive, CutoverOrder, Cleared
<1> QED
  BY <1>1, InitType, InitLease, InitCut, StepType, StepLease, StepCut, PTL
     DEF Spec

----------------------------------------------------------------------------
\* The rolling policy.

\* Operation j has been started: claimed, driven or dispatched.
Started(j) == \/ opState[j] \notin {"pending", "stopped"}
              \/ \E d \in Drivers : dr[d].op = j
              \/ \E k \in Attempts : remote[j][k] # "none"

RollInv == ~Barrier => \A i, j \in Ops :
             i < j /\ Deployment[i] # Deployment[j] /\ Started(j)
               => opState[i] = "completed"

LEMMA InitRoll == Init => RollInv
<1> SUFFICES ASSUME Init, NEW j \in Ops PROVE ~Started(j)
  BY DEF RollInv
<1>1. \A d \in Drivers : dr[d].op = 0
  BY DEF Init, Idle
<1> QED
  BY <1>1, OpsAssumption DEF Init, Started

\* An operation starts only when no earlier one blocks it.
LEMMA Starts ==
  ASSUME TypeInv, ~Barrier, [Next]_vars, NEW j \in Ops, ~Started(j), Started(j)'
  PROVE  \A i \in Ops : ~Blocks(i, j)
<1>0. j # 0 /\ \A d \in Drivers : dr[d].op # j
  BY OpsAssumption DEF Started
<1>1. CASE opState'[j] \notin {"pending", "stopped"}
  BY <1>0, <1>1, OperationStep DEF OpChange, Started
<1>2. CASE \E d \in Drivers : dr'[d].op = j
  <2>1. PICK d \in Drivers : dr'[d].op = j
    BY <1>2
  <2>2. CASE \A e \in Drivers : Moves(dr[e], dr'[e])
    BY <1>0, <2>1, <2>2 DEF Moves
  <2>3. CASE \E e \in Drivers, o \in Ops, cut \in BOOLEAN : Claims(e, o, cut)
    <3>1. PICK e \in Drivers, o \in Ops, cut \in BOOLEAN : Claims(e, o, cut)
      BY <2>3
    <3>2. e = d /\ dr'[d] = Claimed(o, cut)
      BY <1>0, <2>1, <3>1, LeaseOthers DEF Claims
    <3>3. o = j
      BY <2>1, <3>2 DEF Claimed, Idle
    <3>4. opState[j] = "pending" /\ ~cut
      BY <3>1, <3>3 DEF Claims, Started, IsTerminal, TerminalApplyState
    <3> QED
      BY <3>1, <3>3, <3>4 DEF Claims
  <2>4. CASE \E e \in Drivers :
               Lease(e, 0, [Idle EXCEPT !.pc = "whole", !.lease = TRUE,
                                        !.mem = applyState])
    <3>1. PICK r : /\ r = [Idle EXCEPT !.pc = "whole", !.lease = TRUE,
                                       !.mem = applyState]
                   /\ \E e \in Drivers : Lease(e, 0, r)
      BY <2>4
    <3>2. PICK e \in Drivers : Lease(e, 0, r)
      BY <3>1
    <3>3. r.op = 0
      BY <3>1 DEF Idle
    <3>4. dr'[e] = r /\ \A f \in Drivers \ {e} : dr'[f].op = dr[f].op
      BY <3>2, LeaseOthers
    <3> QED
      BY <1>0, <2>1, <3>3, <3>4
  <2> QED
    BY <2>2, <2>3, <2>4, DriverStep
<1>3. \A k \in Attempts : remote'[j][k] = "none"
  <2>1. ASSUME NEW k \in Attempts PROVE remote'[j][k] = "none"
    <3>1. remote[j][k] = "none" /\ RemoteNext(j, k) = {}
      BY DEF Started, RemoteNext
    <3> QED
      BY <1>0, <3>1, RemoteSteps DEF RemoteChange
  <2> QED
    BY <2>1
<1> QED
  BY <1>1, <1>2, <1>3 DEF Started

LEMMA StepRoll ==
  ASSUME OnFailure # "continue"
  PROVE  TypeInv /\ LeaseInv /\ RollInv /\ [Next]_vars => RollInv'
<1> SUFFICES ASSUME TypeInv, LeaseInv, RollInv, [Next]_vars, ~Barrier,
                    NEW i \in Ops, NEW j \in Ops, i < j,
                    Deployment[i] # Deployment[j], Started(j)'
             PROVE  opState'[i] = "completed"
  BY DEF RollInv, Barrier
<1>1. opState[i] = "completed"
  <2>1. CASE Started(j)
    BY <2>1 DEF RollInv
  <2>2. CASE ~Started(j)
    BY <2>2, Starts DEF Blocks
  <2> QED
    BY <2>1, <2>2
<1> QED
  BY <1>1, CompletedStays

\* Under the rolling policy, and unless on_failure lets a rollout go past a
\* failed deployment, nothing is dispatched to a deployment before every earlier
\* deployment has completed (FindNextApplyOperation, dispatchPendingApply).
THEOREM RollingOrderHolds ==
  ASSUME OnFailure # "continue"
  PROVE  Spec => []RollingOrder
<1>1. RollInv => RollingOrder
  BY DEF RollInv, Started, RollingOrder, Cleared
<1> QED
  BY <1>1, InitType, InitLease, InitRoll, StepType, StepLease, StepRoll, PTL
     DEF Spec
============================================================================
