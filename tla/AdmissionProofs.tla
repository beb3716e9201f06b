-------------------------- MODULE AdmissionProofs --------------------------
(***************************************************************************)
(* What the target lock and the idempotency key are good for, for any calls, *)
(* drivers, deployments, keys and number of faults.                        *)
(*                                                                         *)
(* OneActiveApply is not inductive: the check for other active applies is  *)
(* made in one step and used in a later one. It holds because whoever has  *)
(* made the check still has the lock (Locked), because without the lock no *)
(* step makes an ended apply active (Quiet), and so the answer of the check *)
(* is still true when it is used (Clear).                                  *)
(***************************************************************************)
EXTENDS AdmissionRows

\* Whoever is between the check and the end of its transaction has the lock.
Locked ==
  /\ \A c \in Calls : call[c].pc = "insert" => lock = c
  /\ \A v \in Drivers : drv[v].pc \in LockedPC => lock = v

\* The answer of the check still holds when it is used.
Clear ==
  /\ \A c \in Calls : call[c].pc = "insert" /\ call[c].clear
                        => checkNoActiveApplyForTargets(Targets(c), 0)
  /\ \A v \in Drivers :
       drv[v].pc \in LockedPC /\ drv[v].clear
         => checkNoActiveApplyForTargets(Wants(drv[v].a), drv[v].a)

UniqueKeys ==
  \A a, b \in AIds : rows[a].key # "" /\ rows[a].key = rows[b].key => a = b

AdmitInv == Types /\ Shapes /\ Locked /\ Clear /\ UniqueKeys /\ OneActiveApply

----------------------------------------------------------------------------
\* The steps, by what they do under and without the target lock.

\* No apply is created, and none that had ended becomes active.
Quiet ==
  /\ Kept /\ AIds' = AIds
  /\ \A a \in AIds : rows'[a].state \in ActiveState
                       => rows[a].state \in ActiveState

LEMMA QuietUnchanged ==
  ASSUME Types, UNCHANGED rows
  PROVE  Quiet
BY KeptUnchanged DEF Quiet, AIds, Types

LEMMA QuietWrite ==
  ASSUME Types, NEW a \in AIds, NEW r \in Row, Writes(a, r),
         SameApply(rows[a], r),
         r.state \in ActiveState => rows[a].state \in ActiveState
  PROVE  Quiet
<1>1. Kept
  BY KeptByWrite DEF Types
<1> QED
  BY <1>1, Written DEF Quiet, Types

CallKind(c) ==
  \/ Quiet /\ UNCHANGED lock /\ call'[c].pc # "insert"
  \/ /\ UNCHANGED rows /\ lock = "free" /\ lock' = c
     /\ call'[c].clear => checkNoActiveApplyForTargets(Targets(c), 0)
  \/ /\ call[c].pc = "insert" /\ call'[c].pc # "insert" /\ lock' = "free"
     /\ \/ UNCHANGED rows
        \/ /\ rows' = Append(rows, NewRow(c))
           /\ call[c].clear /\ KeyOwner(c) = {}

DrvKind(v) ==
  \/ /\ OnFailure = "halt" => Quiet
     /\ AIds' = AIds /\ drv'[v].pc \notin LockedPC
     /\ UNCHANGED lock \/ (lock = v /\ lock' = "free")
  \/ /\ UNCHANGED rows /\ lock = "free" /\ lock' = v
     /\ drv'[v].clear
          => checkNoActiveApplyForTargets(Wants(drv'[v].a), drv'[v].a)
  \/ \E r \in Row :
       /\ Writes(drv[v].a, r) /\ SameApply(rows[drv[v].a], r)
       /\ drv[v].pc \in LockedPC /\ drv[v].clear
       /\ lock' = "free" /\ drv'[v].pc \notin LockedPC

CallOK(c) ==
  /\ Kept /\ UNCHANGED <<script, drv>>
  /\ call' \in [Calls -> CallRec]
  /\ \A b \in Calls : b # c => call'[b] = call[b]
  /\ CallShape(c)' /\ CallKind(c)

DrvOK(v) ==
  /\ Kept /\ UNCHANGED <<script, call>>
  /\ drv' \in [Drivers -> DrvRec]
  /\ \A u \in Drivers : u # v => drv'[u] = drv[u]
  /\ Shaped(drv[v])' /\ DrvKind(v)

LEMMA GoesOK ==
  ASSUME Types, Shapes, NEW c \in Calls, NEW p \in CallPC, Goes(c, p),
         UNCHANGED <<script, drv, lock>>, Quiet, p # "insert",
         p \in {"plan", "conflict", "relookup"} => Ask(c).op = "dispatch",
         p \in ControlPC => Ask(c).op \in {"stop", "start", "cutover"}
                            /\ call[c].a \in AIds
  PROVE  CallOK(c)
<1>1. CallTo(c, p, call[c].answer)
  BY GoesTo
<1>2. Ask(c)' = Ask(c) /\ Kept /\ AIds' = AIds
  BY DEF Ask, Quiet
<1>3. call[c].answer \in AIds => rows'[call[c].answer].key
                                    = rows[call[c].answer].key
  BY <1>2, KeptWants DEF Types
<1>4. CallShape(c)'
  BY <1>1, <1>2, <1>3 DEF CallShape, CallTo, Shapes
<1> QED
  BY <1>1, <1>2, <1>4 DEF CallOK, CallTo, CallKind

LEMMA AnswerOK ==
  ASSUME Types, Shapes, NEW c \in Calls, NEW n \in Nat, Answered(c, n),
         UNCHANGED <<script, drv, lock>>, Quiet,
         Ask(c).op = "dispatch" /\ n # 0
           => n \in AIds /\ rows[n].key = Ask(c).key
  PROVE  CallOK(c)
<1>1. CallTo(c, "done", n)
  BY AnsweredTo
<1>2. Ask(c)' = Ask(c) /\ Kept /\ AIds' = AIds
  BY DEF Ask, Quiet
<1>3. n \in AIds => rows'[n].key = rows[n].key
  BY <1>2, KeptWants DEF Types
<1>4. CallShape(c)'
  BY <1>1, <1>2, <1>3 DEF CallShape, CallTo, ControlPC
<1> QED
  BY <1>1, <1>2, <1>4 DEF CallOK, CallTo, CallKind

\* A control call answers with an apply or with nothing.
LEMMA ControlAnswerOK ==
  ASSUME Types, Shapes, NEW c \in Calls, call[c].pc \in ControlPC,
         NEW n \in {0, call[c].a}, Answered(c, n),
         UNCHANGED <<script, drv, lock>>, Quiet
  PROVE  CallOK(c)
<1>1. Ask(c).op # "dispatch" /\ n \in Nat
  BY DEF Shapes, CallShape, Types, CallRec
<1> QED
  BY <1>1, AnswerOK

LEMMA ControlGoesOK ==
  ASSUME Types, Shapes, NEW c \in Calls, call[c].pc \in ControlPC,
         NEW p \in ControlPC, Goes(c, p),
         UNCHANGED <<script, drv, lock>>, Quiet
  PROVE  CallOK(c)
<1>1. /\ Ask(c).op \in {"stop", "start", "cutover"} /\ call[c].a \in AIds
  BY DEF Shapes, CallShape
<1>2. p \in CallPC /\ p # "insert" /\ p \notin {"plan", "conflict", "relookup"}
  BY DEF CallPC, ControlPC
<1> QED
  BY <1>1, <1>2, GoesOK

\* The calls that create applies.
LEMMA CreateCalls ==
  ASSUME Types, Shapes, NEW c \in Calls,
         \/ existingIdempotentApply(c) \/ planForApplyRequest(c)
         \/ loadPlanForApply(c) \/ checkActiveTaskConflict(c) \/ Relookup(c)
         \/ queueValidatedApply(c) \/ createWithRows(c)
  PROVE  CallOK(c)
<1>1. AIds \subseteq Nat \ {0}
  BY DEF AIds, Types
<1>2. \A b \in KeyOwner(c) : b \in AIds /\ rows[b].key = Ask(c).key
  BY DEF KeyOwner
<1>3. {"plan", "conflict", "create", "relookup"} \subseteq CallPC
  BY DEF CallPC
<1>4. {"plan", "conflict", "create", "relookup"} \cap ControlPC = {}
  BY DEF ControlPC
<1>5. CASE existingIdempotentApply(c)
  <2>1. Quiet /\ UNCHANGED <<script, drv, lock>> /\ Ask(c).op = "dispatch"
    BY <1>5, QuietUnchanged DEF existingIdempotentApply
  <2>2. CASE Goes(c, "plan")
    BY <1>3, <1>4, <2>1, <2>2, GoesOK
  <2>3. CASE \E b \in KeyOwner(c) : Answered(c, b)
    <3>1. PICK b \in KeyOwner(c) : Answered(c, b)
      BY <2>3
    <3> QED
      BY <1>1, <1>2, <2>1, <3>1, AnswerOK
  <2> QED
    BY <1>5, <2>2, <2>3 DEF existingIdempotentApply
<1>6. CASE planForApplyRequest(c)
  <2>1. Quiet /\ UNCHANGED <<script, drv, lock>> /\ Ask(c).op = "dispatch"
    BY <1>6, QuietUnchanged DEF planForApplyRequest, Shapes, CallShape
  <2>2. CASE Goes(c, "conflict")
    BY <1>3, <1>4, <2>1, <2>2, GoesOK
  <2>3. CASE Answered(c, 0)
    BY <2>1, <2>3, AnswerOK
  <2> QED
    BY <1>6, <2>2, <2>3 DEF planForApplyRequest
<1>7. CASE loadPlanForApply(c)
  <2>1. Quiet /\ UNCHANGED <<script, drv, lock>>
    BY <1>7, QuietUnchanged DEF loadPlanForApply
  <2>2. CASE Goes(c, "create")
    BY <1>3, <1>4, <2>1, <2>2, GoesOK
  <2>3. CASE Answered(c, 0)
    BY <2>1, <2>3, AnswerOK
  <2> QED
    BY <1>7, <2>2, <2>3 DEF loadPlanForApply
<1>8. CASE checkActiveTaskConflict(c)
  <2>1. Quiet /\ UNCHANGED <<script, drv, lock>> /\ Ask(c).op = "dispatch"
    BY <1>8, QuietUnchanged DEF checkActiveTaskConflict, Shapes, CallShape
  <2>2. Goes(c, "relookup") \/ Goes(c, "create")
    BY <1>8 DEF checkActiveTaskConflict
  <2> QED
    BY <1>3, <1>4, <2>1, <2>2, GoesOK
<1>9. CASE Relookup(c)
  <2>1. Quiet /\ UNCHANGED <<script, drv, lock>>
    BY <1>9, QuietUnchanged DEF Relookup
  <2>2. CASE Answered(c, 0)
    BY <2>1, <2>2, AnswerOK
  <2>3. CASE \E b \in KeyOwner(c) : Answered(c, b)
    <3>1. PICK b \in KeyOwner(c) : Answered(c, b)
      BY <2>3
    <3> QED
      BY <1>1, <1>2, <2>1, <3>1, AnswerOK
  <2> QED
    BY <1>9, <2>2, <2>3 DEF Relookup
<1>10. CASE queueValidatedApply(c)
  <2> DEFINE x == checkNoActiveApplyForTargets(Targets(c), 0)
             k == [call[c] EXCEPT !.pc = "insert", !.clear = x]
  <2>1. /\ lock = "free" /\ lock' = c /\ UNCHANGED <<script, rows, drv>>
        /\ call' = [call EXCEPT ![c].pc = "insert", ![c].clear = x]
    BY <1>10 DEF queueValidatedApply, CallLocks
  <2>2. x \in BOOLEAN /\ "insert" \in CallPC /\ call[c] \in CallRec
    BY DEF checkNoActiveApplyForTargets, CallPC, Types
  <2> HIDE DEF x
  <2>3. k \in CallRec
    BY <2>2, Zenon DEF CallRec
  <2>4. k.pc = "insert" /\ k.clear = x /\ k.answer = call[c].answer
    BY <2>2 DEF CallRec
  <2>5. call' = [call EXCEPT ![c] = k]
    BY <2>1, <2>2 DEF Types, CallRec
  <2> HIDE DEF k
  <2>6. /\ call' \in [Calls -> CallRec] /\ call'[c] = k
        /\ \A b \in Calls : b # c => call'[b] = call[b]
    BY <2>3, <2>5 DEF Types
  <2>7. CallShape(c)'
    BY <2>1, <2>4, <2>6 DEF CallShape, Shapes, ControlPC, Ask, AIds
  <2>8. CallKind(c)
    BY <2>1, <2>4, <2>6 DEF CallKind, x
  <2>9. Kept
    BY <2>1, KeptUnchanged DEF Types
  <2> QED
    BY <2>1, <2>6, <2>7, <2>8, <2>9 DEF CallOK
<1>11. CASE createWithRows(c)
  <2>1. call[c].pc = "insert" /\ lock' = "free" /\ UNCHANGED <<script, drv>>
    BY <1>11 DEF createWithRows
  <2>2. Ask(c)' = Ask(c)
    BY <2>1 DEF Ask
  <2>3. CASE call[c].clear /\ KeyOwner(c) = {}
    <3> DEFINE n == Len(rows) + 1
    <3>1. rows' = Append(rows, NewRow(c)) /\ Answered(c, n)
      BY <1>11, <2>3 DEF createWithRows
    <3>2. NewRow(c) \in Row /\ NewRow(c).key = Ask(c).key
      BY NewRowTyped
    <3>3. /\ rows' \in Seq(Row) /\ n \in AIds' /\ rows'[n] = NewRow(c)
          /\ n \in Nat /\ \A a \in AIds : a \in AIds' /\ rows'[a] = rows[a]
      BY <3>1, <3>2 DEF Types, AIds
    <3>4. CallTo(c, "done", n)
      BY <3>1, <3>3, AnsweredTo
    <3>5. Kept
      BY <3>3 DEF Kept, SameApply
    <3>6. CallShape(c)'
      BY <2>2, <3>2, <3>3, <3>4 DEF CallShape, CallTo, ControlPC
    <3>7. CallKind(c)
      BY <2>1, <2>3, <3>1, <3>4 DEF CallKind, CallTo
    <3> QED
      BY <2>1, <3>4, <3>5, <3>6, <3>7 DEF CallOK, CallTo
  <2>4. CASE ~(call[c].clear /\ KeyOwner(c) = {})
    <3>1. UNCHANGED rows
      BY <1>11, <2>4 DEF createWithRows
    <3>2. Kept
      BY <3>1, KeptUnchanged DEF Types
    <3>3. CASE Ask(c).op = "dispatch" /\ Goes(c, "relookup")
      <4>1. CallTo(c, "relookup", call[c].answer)
        BY <1>3, <3>3, GoesTo
      <4>2. CallShape(c)'
        BY <2>2, <3>1, <3>3, <4>1 DEF CallShape, CallTo, ControlPC, Shapes, AIds
      <4>3. CallKind(c)
        BY <2>1, <3>1, <4>1 DEF CallKind, CallTo
      <4> QED
        BY <2>1, <3>2, <4>1, <4>2, <4>3 DEF CallOK, CallTo
    <3>4. CASE Answered(c, 0)
      <4>1. CallTo(c, "done", 0)
        BY <3>4, AnsweredTo
      <4>2. CallShape(c)'
        BY <2>2, <3>1, <4>1 DEF CallShape, CallTo, ControlPC
      <4>3. CallKind(c)
        BY <2>1, <3>1, <4>1 DEF CallKind, CallTo
      <4> QED
        BY <2>1, <3>2, <4>1, <4>2, <4>3 DEF CallOK, CallTo
    <3> QED
      BY <1>11, <2>4, <3>3, <3>4 DEF createWithRows
  <2> QED
    BY <2>3, <2>4
<1> QED
  BY <1>5, <1>6, <1>7, <1>8, <1>9, <1>10, <1>11

\* The calls that control an apply.
LEMMA ControlCalls ==
  ASSUME Types, Shapes, NEW c \in Calls,
         \/ \E a \in AIds : ReadApply(c, a)
         \/ queueStopForApplyOwner(c) \/ createStopRequest(c)
         \/ tryImmediateStopAfterQueue(c)
         \/ completeImmediateStopRequestIfStopped(c)
         \/ completeResolvedStopBeforeStart(c)
         \/ queueStoppedApplyForOperator(c)
         \/ ensureStoredApplyStoppedForStartClaim(c)
         \/ persistStartRequestForOperator(c)
         \/ cutoverRequestReadiness(c) \/ executeCutoverForApply(c)
  PROVE  CallOK(c)
<1> DEFINE a == call[c].a
<1>1. /\ "pending" \in RequestState /\ "completed" \in RequestState
      /\ "stopped" \in ApplyState /\ "stopped" \notin ActiveState
  BY DEF RequestState, ApplyState, ActiveState, TerminalApplyState
<1>2. call[c].pc \in ControlPC => a \in AIds
  BY DEF Shapes, CallShape
<1>3. {"queueStop", "stopNow", "stopDone", "startGate", "startQueue",
       "startPersist", "cutoverPersist"} \subseteq ControlPC
  BY DEF ControlPC
<1>4. CASE \E b \in AIds : ReadApply(c, b)
  <2>1. PICK b \in AIds : ReadApply(c, b)
    BY <1>4
  <2> DEFINE p == Ask(c).op
             s == rows[b].state
             k == [call[c] EXCEPT !.pc = p, !.a = b, !.seen = s]
  <2>2. /\ UNCHANGED <<script, rows, lock, drv>>
        /\ Ask(c).op \in {"stop", "start", "cutover"}
        /\ call' = [call EXCEPT ![c].pc = p, ![c].a = b, ![c].seen = s]
    BY <2>1 DEF ReadApply
  <2>3. /\ p \in CallPC /\ b \in Nat /\ s \in State /\ call[c] \in CallRec
        /\ p # "insert" /\ p \notin {"plan", "conflict", "relookup"}
    <3>1. rows[b] \in Row /\ b \in Nat /\ call[c] \in CallRec
      BY DEF Types, AIds
    <3>2. s \in State
      BY <3>1 DEF Row, State
    <3>3. p \in CallPC
      BY <2>2 DEF CallPC, ControlPC
    <3> QED
      BY <2>2, <3>1, <3>2, <3>3
  <2> HIDE DEF p, s
  <2>4. k \in CallRec
    BY <2>3, Zenon DEF CallRec
  <2>5. k.pc = p /\ k.a = b /\ k.answer = call[c].answer
    BY <2>3 DEF CallRec
  <2>6. call' = [call EXCEPT ![c] = k]
    BY <2>2, <2>3 DEF Types, CallRec
  <2> HIDE DEF k
  <2>7. /\ call' \in [Calls -> CallRec] /\ call'[c] = k
        /\ \A d \in Calls : d # c => call'[d] = call[d]
    BY <2>4, <2>6 DEF Types
  <2>8. CallShape(c)'
    BY <2>2, <2>3, <2>5, <2>7 DEF CallShape, Shapes, Ask, AIds
  <2>9. Quiet /\ Kept
    BY <2>2, QuietUnchanged DEF Quiet
  <2>10. CallKind(c)
    BY <2>2, <2>3, <2>5, <2>7, <2>9 DEF CallKind
  <2> QED
    BY <2>2, <2>7, <2>8, <2>9, <2>10 DEF CallOK
<1>5. CASE queueStopForApplyOwner(c)
  <2>1. Quiet /\ UNCHANGED <<script, drv, lock>> /\ call[c].pc \in ControlPC
    BY <1>5, QuietUnchanged DEF queueStopForApplyOwner, ControlPC
  <2>2. Answered(c, a) \/ Answered(c, 0) \/ Goes(c, "queueStop")
    BY <1>5 DEF queueStopForApplyOwner
  <2> QED
    BY <1>3, <2>1, <2>2, ControlAnswerOK, ControlGoesOK
<1>6. CASE createStopRequest(c)
  <2>1. /\ UNCHANGED <<script, drv, lock>> /\ call[c].pc \in ControlPC
        /\ Set(a, "stop", "pending")
    BY <1>6 DEF createStopRequest, ControlPC
  <2>2. PICK r \in Row : /\ Writes(a, r) /\ Rest(rows[a], r)
                         /\ r.state = rows[a].state
    BY <1>1, <1>2, <2>1, SetStop DEF Types
  <2>3. Quiet
    BY <1>2, <2>1, <2>2, QuietWrite DEF Rest
  <2>4. Answered(c, a) \/ Goes(c, "stopNow")
    BY <1>6 DEF createStopRequest
  <2> QED
    BY <1>3, <2>1, <2>3, <2>4, ControlAnswerOK, ControlGoesOK
<1>7. CASE tryImmediateStopAfterQueue(c)
  <2>1. /\ UNCHANGED <<script, drv, lock>> /\ call[c].pc \in ControlPC
        /\ UNCHANGED rows \/ Set(a, "stop", "pending")
        /\ Goes(c, "stopDone")
    BY <1>7 DEF tryImmediateStopAfterQueue, ControlPC
  <2>2. CASE Set(a, "stop", "pending")
    <3>1. PICK r \in Row : /\ Writes(a, r) /\ Rest(rows[a], r)
                           /\ r.state = rows[a].state
      BY <1>1, <1>2, <2>1, <2>2, SetStop DEF Types
    <3>2. Quiet
      BY <1>2, <2>1, <3>1, QuietWrite DEF Rest
    <3> QED
      BY <1>3, <2>1, <3>2, ControlGoesOK
  <2>3. CASE UNCHANGED rows
    BY <1>3, <2>1, <2>3, QuietUnchanged, ControlGoesOK
  <2> QED
    BY <2>1, <2>2, <2>3
<1>8. CASE completeImmediateStopRequestIfStopped(c)
  <2>1. /\ UNCHANGED <<script, drv, lock>> /\ call[c].pc \in ControlPC
        /\ UNCHANGED rows \/ Set(a, "stop", "completed")
        /\ Answered(c, a)
    BY <1>8 DEF completeImmediateStopRequestIfStopped, ControlPC
  <2>2. CASE Set(a, "stop", "completed")
    <3>1. PICK r \in Row : /\ Writes(a, r) /\ Rest(rows[a], r)
                           /\ r.state = rows[a].state
      BY <1>1, <1>2, <2>1, <2>2, SetStop DEF Types
    <3>2. Quiet
      BY <1>2, <2>1, <3>1, QuietWrite DEF Rest
    <3> QED
      BY <2>1, <3>2, ControlAnswerOK
  <2>3. CASE UNCHANGED rows
    BY <2>1, <2>3, QuietUnchanged, ControlAnswerOK
  <2> QED
    BY <2>1, <2>2, <2>3
<1>9. CASE completeResolvedStopBeforeStart(c)
  <2>1. UNCHANGED <<script, drv, lock>> /\ call[c].pc \in ControlPC
    BY <1>9 DEF completeResolvedStopBeforeStart, ControlPC
  <2>2. Quiet
    BY <1>1, <1>2, <1>9, <2>1, ResolvedWrites, QuietUnchanged, QuietWrite
    DEF Rest
  <2>3. CASE Answered(c, 0) \/ Goes(c, "startGate")
    BY <1>3, <2>1, <2>2, <2>3, ControlAnswerOK, ControlGoesOK
  <2>4. CASE call' = [call EXCEPT ![c].pc = "startGate", ![c].seen = "stopped"]
    <3> DEFINE k == [call[c] EXCEPT !.pc = "startGate", !.seen = "stopped"]
    <3>1. /\ call[c] \in CallRec /\ "startGate" \in CallPC
          /\ "stopped" \in State
      BY <1>1 DEF Types, CallPC, ControlPC, State
    <3>2. k \in CallRec
      BY <3>1, Zenon DEF CallRec
    <3>3. k.pc = "startGate" /\ k.a = a /\ k.answer = call[c].answer
      BY <3>1 DEF CallRec
    <3>4. call' = [call EXCEPT ![c] = k]
      BY <2>4, <3>1 DEF Types, CallRec
    <3> HIDE DEF k
    <3>5. /\ call' \in [Calls -> CallRec] /\ call'[c] = k
          /\ \A d \in Calls : d # c => call'[d] = call[d]
      BY <3>2, <3>4 DEF Types
    <3>6. AIds' = AIds /\ Ask(c)' = Ask(c) /\ Ask(c).op # "dispatch"
          /\ Ask(c).op \in {"stop", "start", "cutover"}
      BY <2>1, <2>2 DEF Quiet, Ask, Shapes, CallShape
    <3>7. CallShape(c)'
      BY <1>2, <2>1, <3>3, <3>5, <3>6 DEF CallShape
    <3>8. CallKind(c)
      BY <2>1, <2>2, <3>3, <3>5 DEF CallKind
    <3> QED
      BY <2>1, <2>2, <3>5, <3>7, <3>8 DEF CallOK, Quiet
  <2> QED
    BY <1>9, <2>3, <2>4 DEF completeResolvedStopBeforeStart
<1>10. CASE queueStoppedApplyForOperator(c)
  <2>1. Quiet /\ UNCHANGED <<script, drv, lock>> /\ call[c].pc \in ControlPC
    BY <1>10, QuietUnchanged DEF queueStoppedApplyForOperator, ControlPC
  <2>2. Answered(c, a) \/ Answered(c, 0) \/ Goes(c, "startQueue")
    BY <1>10 DEF queueStoppedApplyForOperator
  <2> QED
    BY <1>3, <2>1, <2>2, ControlAnswerOK, ControlGoesOK
<1>11. CASE ensureStoredApplyStoppedForStartClaim(c)
  <2>1. /\ UNCHANGED <<script, drv, lock>> /\ call[c].pc \in ControlPC
        /\ UNCHANGED rows \/ Set(a, "state", "stopped")
        /\ Goes(c, "startPersist")
    BY <1>11 DEF ensureStoredApplyStoppedForStartClaim, ControlPC
  <2>2. CASE Set(a, "state", "stopped")
    <3>1. PICK r \in Row : /\ Writes(a, r) /\ Rest(rows[a], r)
                           /\ r.state = "stopped"
      BY <1>1, <1>2, <2>1, <2>2, SetState DEF Types
    <3>2. Quiet
      BY <1>1, <1>2, <2>1, <3>1, QuietWrite DEF Rest
    <3> QED
      BY <1>3, <2>1, <3>2, ControlGoesOK
  <2>3. CASE UNCHANGED rows
    BY <1>3, <2>1, <2>3, QuietUnchanged, ControlGoesOK
  <2> QED
    BY <2>1, <2>2, <2>3
<1>12. CASE persistStartRequestForOperator(c)
  <2>1. /\ UNCHANGED <<script, drv, lock>> /\ call[c].pc \in ControlPC
        /\ Set(a, "start", "pending") /\ Answered(c, a)
    BY <1>12 DEF persistStartRequestForOperator, ControlPC
  <2>2. PICK r \in Row : /\ Writes(a, r) /\ Rest(rows[a], r)
                         /\ r.state = rows[a].state
    BY <1>1, <1>2, <2>1, SetStart DEF Types
  <2>3. Quiet
    BY <1>2, <2>1, <2>2, QuietWrite DEF Rest
  <2> QED
    BY <2>1, <2>3, ControlAnswerOK
<1>13. CASE cutoverRequestReadiness(c)
  <2>1. Quiet /\ UNCHANGED <<script, drv, lock>> /\ call[c].pc \in ControlPC
    BY <1>13, QuietUnchanged DEF cutoverRequestReadiness, ControlPC
  <2>2. Answered(c, a) \/ Answered(c, 0) \/ Goes(c, "cutoverPersist")
    BY <1>13 DEF cutoverRequestReadiness
  <2> QED
    BY <1>3, <2>1, <2>2, ControlAnswerOK, ControlGoesOK
<1>14. CASE executeCutoverForApply(c)
  <2>1. /\ UNCHANGED <<script, drv, lock>> /\ call[c].pc \in ControlPC
        /\ Set(a, "cutover", "pending") /\ Answered(c, a)
    BY <1>14 DEF executeCutoverForApply, ControlPC
  <2>2. PICK r \in Row : /\ Writes(a, r) /\ Rest(rows[a], r)
                         /\ r.state = rows[a].state
    BY <1>1, <1>2, <2>1, SetCutover DEF Types
  <2>3. Quiet
    BY <1>2, <2>1, <2>2, QuietWrite DEF Rest
  <2> QED
    BY <2>1, <2>3, ControlAnswerOK
<1> QED
  BY <1>4, <1>5, <1>6, <1>7, <1>8, <1>9, <1>10, <1>11, <1>12, <1>13, <1>14

LEMMA CallSteps ==
  ASSUME Types, Shapes, NEW c \in Calls, CallStep(c)
  PROVE  CallOK(c)
BY CreateCalls, ControlCalls DEF CallStep

\* A driver's record stays in shape whatever becomes of the rows.
LEMMA ShapedKept ==
  ASSUME Types, Kept, NEW d \in DrvRec, Shaped(d)
  PROVE  Shaped(d)'
<1>1. d.a \in AIds => /\ d.a \in AIds' /\ Multi(d.a)' = Multi(d.a)
                      /\ DOMAIN rows'[d.a].ops = DOMAIN rows[d.a].ops
  BY KeptWants DEF Kept, Types
<1> QED
  BY <1>1 DEF Shaped, SinglePC, LockedPC, WritePC

\* A driver that neither takes the lock nor uses it.
LEMMA MoveOK ==
  ASSUME Types, NEW v \in Drivers, NEW d, DrvTo(v, d), Shaped(d),
         d.pc \notin LockedPC, UNCHANGED <<script, call>>,
         Kept, AIds' = AIds, OnFailure = "halt" => Quiet,
         UNCHANGED lock \/ (lock = v /\ lock' = "free")
  PROVE  DrvOK(v)
<1>1. Shaped(d)'
  BY ShapedKept DEF DrvTo
<1> QED
  BY <1>1 DEF DrvOK, DrvKind, DrvTo

LEMMA EndOK ==
  ASSUME Types, NEW v \in Drivers, Ends(v), UNCHANGED <<script, call>>,
         Kept, AIds' = AIds, OnFailure = "halt" => Quiet,
         UNCHANGED lock \/ (lock = v /\ lock' = "free")
  PROVE  DrvOK(v)
<1>1. DrvTo(v, Idle) /\ Idle.pc = "idle"
  BY EndsTo
<1>2. Shaped(Idle) /\ Idle.pc \notin LockedPC
  BY <1>1 DEF Shaped, SinglePC, LockedPC, WritePC
<1> QED
  BY <1>1, <1>2, MoveOK

LEMMA QuietKept ==
  ASSUME Quiet
  PROVE  Kept /\ AIds' = AIds
BY DEF Quiet

\* The driver's own record, while it is at work.
LEMMA AtWork ==
  ASSUME Types, Shapes, NEW v \in Drivers, drv[v].pc # "idle"
  PROVE  /\ drv[v] \in DrvRec /\ Shaped(drv[v])
         /\ drv[v].a \in AIds /\ drv[v].i \in DOMAIN rows[drv[v].a].ops
         /\ rows[drv[v].a] \in Row /\ rows[drv[v].a].state \in ApplyState
<1>1. /\ drv[v] \in DrvRec /\ Shaped(drv[v])
      /\ drv[v].a \in AIds /\ drv[v].i \in DOMAIN rows[drv[v].a].ops
  BY DEF Types, Shapes, Shaped
<1>2. rows[drv[v].a] \in Row
  BY <1>1 DEF Types, AIds
<1> QED
  BY <1>1, <1>2 DEF Row

LEMMA PCs ==
  /\ {"idle", "load", "mirror", "drive", "mark", "list", "project",
      "settle", "parent", "stoppedClaim", "write", "stoppedLocked",
      "resumeLocked", "writeLocked"} \subseteq DrvPC
  /\ {"stoppedLocked", "resumeLocked", "writeLocked"} = LockedPC
  /\ {"write", "writeLocked"} = WritePC
  /\ {"parent", "stoppedClaim", "write", "stoppedLocked", "resumeLocked",
      "writeLocked"} = SinglePC
BY DEF DrvPC, SinglePC, LockedPC, WritePC

LEMMA ClaimSteps ==
  ASSUME Types, Shapes, NEW v \in Drivers,
         \/ \E a \in AIds : \E i \in DOMAIN rows[a].ops :
              FindNextApplyOperation(v, a, i)
         \/ ClaimApplyByID(v) \/ driveClaimedMultiOperation(v)
         \/ reconcileClaimedOperationFromTerminalParent(v)
  PROVE  DrvOK(v)
<1>1. CASE \E a \in AIds : \E i \in DOMAIN rows[a].ops :
             FindNextApplyOperation(v, a, i)
  <2>0. PICK a \in AIds : \E i \in DOMAIN rows[a].ops :
                            FindNextApplyOperation(v, a, i)
    BY <1>1
  <2>1. PICK i \in DOMAIN rows[a].ops : FindNextApplyOperation(v, a, i)
    BY <2>0
  <2>2. UNCHANGED <<script, call, lock>>
    BY <2>1 DEF FindNextApplyOperation
  <2>3. Quiet
    BY <2>1, FindWrites, QuietWrite DEF Rest
  <2> DEFINE p == IF Multi(a) THEN "load" ELSE "parent"
             d == [Idle EXCEPT !.pc = p, !.a = a, !.i = i]
  <2>4. a \in Nat /\ i \in Nat /\ p \in DrvPC /\ Idle \in DrvRec
    <3>1. i \in Nat
      BY RowOps DEF Types, AIds
    <3>2. Idle \in DrvRec
      BY DEF Idle, DrvRec, DrvPC, State
    <3> QED
      BY <3>1, <3>2, PCs DEF Types, AIds
  <2>5. drv' = [drv EXCEPT ![v] = d]
    BY <2>1 DEF FindNextApplyOperation
  <2>6. d \in DrvRec
    BY <2>4, Zenon DEF DrvRec
  <2>7. d.pc = p /\ d.a = a /\ d.i = i
    BY <2>4 DEF DrvRec
  <2> HIDE DEF d
  <2>8. DrvTo(v, d)
    BY <2>5, <2>6, MovesTo
  <2>9. Shaped(d) /\ d.pc \notin LockedPC
    BY <2>7, PCs DEF Shaped
  <2> QED
    BY <2>2, <2>3, <2>8, <2>9, MoveOK, QuietKept
<1>2. CASE ClaimApplyByID(v)
  <2> DEFINE a == drv[v].a
  <2>1. /\ UNCHANGED <<script, call, lock>> /\ drv[v].pc = "parent"
        /\ drv[v].pc # "idle"
    BY <1>2 DEF ClaimApplyByID, At
  <2>2. ~Multi(a)
    BY <2>1, AtWork, PCs DEF Shaped
  <2>3. Quiet
    BY <1>2, <2>1, ClaimWrites, QuietUnchanged, QuietWrite, AtWork
  <2>4. CASE Ends(v)
    BY <2>1, <2>3, <2>4, EndOK, QuietKept
  <2>5. CASE \E p \in {"stoppedClaim", "drive"} : Steps(v, p)
    <3>1. PICK p \in {"stoppedClaim", "drive"} : Steps(v, p)
      BY <2>5
    <3>2. PICK d \in DrvRec :
            /\ DrvTo(v, d) /\ d.pc = p /\ d.a = drv[v].a /\ d.i = drv[v].i
      BY <3>1, StepsTo, PCs
    <3>3. Shaped(d) /\ d.pc \notin LockedPC
      BY <2>1, <2>2, <3>2, AtWork, PCs DEF Shaped
    <3> QED
      BY <2>1, <2>3, <3>2, <3>3, MoveOK, QuietKept
  <2>6. CASE IsTerminal(rows[a].state)
             /\ drv' = [drv EXCEPT ![v].pc = "mirror", ![v].seen = rows[a].state]
    <3>1. /\ rows[a].state \in State /\ drv[v].to \in To
      BY <2>1, AtWork DEF State, DrvRec, To
    <3>2. Sees(v, "mirror", drv[v].to, rows[a].state)
      BY <2>1, <2>6, AtWork DEF DrvRec, Types, Sees
    <3>3. PICK d \in DrvRec :
            /\ DrvTo(v, d) /\ d.pc = "mirror" /\ d.a = drv[v].a
            /\ d.i = drv[v].i /\ d.seen = rows[a].state
      <4>1. "mirror" \in DrvPC
        BY PCs
      <4> HIDE DEF a
      <4> QED
        BY <3>1, <3>2, <4>1, SeesTo
    <3>4. Shaped(d) /\ d.pc \notin LockedPC
      BY <2>1, <2>6, <3>3, AtWork, PCs DEF Shaped
    <3> QED
      BY <2>1, <2>3, <3>3, <3>4, MoveOK, QuietKept
  <2> QED
    BY <1>2, <2>4, <2>5, <2>6 DEF ClaimApplyByID
<1>3. CASE driveClaimedMultiOperation(v)
  <2> DEFINE a == drv[v].a
             p == IF IsTerminal(rows[a].state) THEN "mirror" ELSE "project"
  <2>1. /\ UNCHANGED <<script, call, lock, rows>> /\ drv[v].pc = "load"
        /\ drv[v].pc # "idle"
        /\ drv' = [drv EXCEPT ![v].pc = p, ![v].seen = rows[a].state,
                              ![v].to = "drive"]
    BY <1>3 DEF driveClaimedMultiOperation, At
  <2>2. Quiet /\ Multi(a)
    BY <2>1, QuietUnchanged, AtWork DEF Shaped
  <2>3. rows[a].state \in State /\ "drive" \in To /\ p \in DrvPC
    BY <2>1, AtWork, PCs DEF State, To
  <2>4. Sees(v, p, "drive", rows[a].state)
    <3> HIDE DEF p
    <3> QED
      BY <2>1, AtWork DEF DrvRec, Types, Sees
  <2>5. PICK d \in DrvRec :
          /\ DrvTo(v, d) /\ d.pc = p /\ d.a = drv[v].a
          /\ d.i = drv[v].i /\ d.seen = rows[a].state /\ d.to = "drive"
    BY <2>3, <2>4, SeesTo
  <2>6. Shaped(d) /\ d.pc \notin LockedPC
    BY <2>1, <2>2, <2>5, AtWork, PCs DEF Shaped
  <2> QED
    BY <2>1, <2>2, <2>5, <2>6, MoveOK, QuietKept
<1>4. CASE reconcileClaimedOperationFromTerminalParent(v)
  <2>1. /\ UNCHANGED <<script, call, lock>> /\ drv[v].pc = "mirror"
        /\ drv[v].pc # "idle"
    BY <1>4 DEF reconcileClaimedOperationFromTerminalParent, At
  <2>2. Quiet
    BY <1>4, <2>1, MirrorWrites, QuietUnchanged, QuietWrite, AtWork DEF Rest
  <2>3. CASE Ends(v)
    BY <2>1, <2>2, <2>3, EndOK, QuietKept
  <2>4. CASE drv' = [drv EXCEPT ![v].pc = "project", ![v].to = "idle"]
    <3>1. drv[v].seen \in State /\ "idle" \in To
      BY <2>1, AtWork DEF DrvRec, To
    <3>2. Sees(v, "project", "idle", drv[v].seen)
      BY <2>1, <2>4, AtWork DEF DrvRec, Types, Sees
    <3>3. PICK d \in DrvRec :
            /\ DrvTo(v, d) /\ d.pc = "project" /\ d.a = drv[v].a
            /\ d.i = drv[v].i /\ d.to = "idle"
      <4>1. "project" \in DrvPC
        BY PCs
      <4> QED
        BY <3>1, <3>2, <4>1, SeesTo
    <3>4. Shaped(d) /\ d.pc \notin LockedPC
      BY <2>1, <3>3, AtWork, PCs DEF Shaped
    <3> QED
      BY <2>1, <2>2, <3>3, <3>4, MoveOK, QuietKept
  <2> QED
    BY <1>4, <2>3, <2>4 DEF reconcileClaimedOperationFromTerminalParent
<1> QED
  BY <1>1, <1>2, <1>3, <1>4

\* A driver that takes the lock, and learns whether its targets are free.
LEMMA LockOK ==
  ASSUME Types, Shapes, NEW v \in Drivers, NEW p \in LockedPC,
         drv[v].pc # "idle", ~Multi(drv[v].a),
         p \in WritePC => drv[v].pc \in WritePC,
         DriverLocks(v, p, drv[v].a)
  PROVE  DrvOK(v)
<1>1. PICK d \in DrvRec :
        /\ DrvTo(v, d) /\ d.pc = p /\ d.a = drv[v].a /\ d.i = drv[v].i
        /\ d.seen = drv[v].seen /\ d.to = drv[v].to
        /\ d.clear <=> checkNoActiveApplyForTargets(Wants(drv[v].a), drv[v].a)
  BY LocksTo
<1>2. UNCHANGED <<script, rows, call>> /\ lock = "free" /\ lock' = v
  BY DEF DriverLocks
<1>3. Quiet
  BY <1>2, QuietUnchanged
<1>4. Shaped(d)
  BY <1>1, AtWork, PCs DEF Shaped
<1>5. Shaped(d)'
  BY <1>3, <1>4, ShapedKept, QuietKept
<1>6. drv'[v] = d
  BY <1>1 DEF DrvTo
<1>7. DrvKind(v)
  BY <1>1, <1>2, <1>6 DEF DrvKind
<1> QED
  BY <1>1, <1>2, <1>3, <1>5, <1>6, <1>7 DEF DrvOK, DrvTo, Quiet

\* A driver that writes its apply under the lock, which it gives back.
LEMMA WriteOK ==
  ASSUME Types, Shapes, NEW v \in Drivers, NEW p \in {"drive", "mark"},
         drv[v].pc \in LockedPC, drv[v].clear, lock' = "free",
         Steps(v, p), UNCHANGED <<script, call>>,
         NEW r \in Row, Writes(drv[v].a, r), SameApply(rows[drv[v].a], r)
  PROVE  DrvOK(v)
<1>1. PICK d \in DrvRec :
        /\ DrvTo(v, d) /\ d.pc = p /\ d.a = drv[v].a /\ d.i = drv[v].i
  BY StepsTo, PCs
<1>2. drv[v].pc # "idle"
  BY PCs
<1>3. Kept
  BY <1>2, KeptByWrite, AtWork DEF Types
<1>4. Shaped(d) /\ d.pc \notin LockedPC
  BY <1>1, <1>2, AtWork, PCs DEF Shaped
<1>5. Shaped(d)' /\ drv'[v] = d
  BY <1>1, <1>3, <1>4, ShapedKept DEF DrvTo
<1>6. DrvKind(v)
  BY <1>4, <1>5 DEF DrvKind
<1> QED
  BY <1>1, <1>3, <1>5, <1>6 DEF DrvOK, DrvTo

\* A driver that moves on to p with what it has read.
LEMMA StepOK ==
  ASSUME Types, Shapes, NEW v \in Drivers, drv[v].pc # "idle",
         NEW p \in {"drive", "mark", "list", "settle"},
         Steps(v, p), UNCHANGED <<script, call>>,
         Kept, AIds' = AIds, OnFailure = "halt" => Quiet,
         UNCHANGED lock \/ (lock = v /\ lock' = "free")
  PROVE  DrvOK(v)
<1>1. PICK d \in DrvRec :
        /\ DrvTo(v, d) /\ d.pc = p /\ d.a = drv[v].a /\ d.i = drv[v].i
  BY StepsTo, PCs
<1>2. Shaped(d) /\ d.pc \notin LockedPC
  BY <1>1, AtWork, PCs DEF Shaped
<1> QED
  BY <1>1, <1>2, MoveOK

LEMMA LockSteps ==
  ASSUME Types, Shapes, Locked, NEW v \in Drivers,
         \/ StoppedClaimLocks(v) \/ claimStoppedApplyUnderTargetLock(v)
         \/ ResumeLocks(v) \/ Resume(v) \/ WriteLocks(v) \/ UpdateApply(v)
  PROVE  DrvOK(v)
<1>1. CASE StoppedClaimLocks(v)
  <2>1. drv[v].pc = "stoppedClaim" /\ DriverLocks(v, "stoppedLocked", drv[v].a)
    BY <1>1 DEF StoppedClaimLocks, At
  <2>2. ~Multi(drv[v].a)
    BY <2>1, PCs DEF Shapes, Shaped
  <2> QED
    BY <2>1, <2>2, LockOK, PCs
<1>2. CASE claimStoppedApplyUnderTargetLock(v)
  <2> DEFINE a == drv[v].a
  <2>1. /\ drv[v].pc = "stoppedLocked" /\ drv[v].pc # "idle" /\ lock' = "free"
        /\ UNCHANGED <<script, call>> /\ drv[v].pc \in LockedPC
    BY <1>2, PCs DEF claimStoppedApplyUnderTargetLock, At
  <2>2. lock = v
    BY <2>1 DEF Locked
  <2>3. CASE UNCHANGED rows /\ Ends(v)
    BY <2>1, <2>2, <2>3, QuietUnchanged, QuietKept, EndOK
  <2>4. CASE \E r \in Row :
              /\ Writes(a, r) /\ Rest(rows[a], r) /\ r.state = rows[a].state
              /\ drv' = [drv EXCEPT ![v].pc = "mirror", ![v].seen = "stopped"]
    <3>1. Quiet
      BY <2>1, <2>4, QuietWrite, AtWork DEF Rest
    <3>2. /\ "stopped" \in State /\ drv[v].to \in To /\ IsTerminal("stopped")
      BY <2>1, AtWork DEF State, ApplyState, DrvRec, To, IsTerminal,
                          TerminalApplyState
    <3>3. Sees(v, "mirror", drv[v].to, "stopped")
      BY <2>1, <2>4, AtWork DEF DrvRec, Types, Sees
    <3>4. PICK d \in DrvRec :
            /\ DrvTo(v, d) /\ d.pc = "mirror" /\ d.a = drv[v].a
            /\ d.i = drv[v].i /\ d.seen = "stopped"
      <4>1. "mirror" \in DrvPC
        BY PCs
      <4> HIDE DEF a
      <4> QED
        BY <3>2, <3>3, <4>1, SeesTo
    <3>5. Shaped(d) /\ d.pc \notin LockedPC
      BY <2>1, <3>2, <3>4, AtWork, PCs DEF Shaped
    <3> QED
      BY <2>1, <2>2, <3>1, <3>4, <3>5, MoveOK, QuietKept
  <2>5. CASE \E r \in Row :
              /\ Writes(a, r) /\ SameApply(rows[a], r)
              /\ drv' = [drv EXCEPT ![v].pc = "drive"] /\ drv[v].clear
    BY <2>1, <2>5, WriteOK DEF Steps
  <2> QED
    BY <1>2, <2>3, <2>4, <2>5, StoppedClaimWrites
<1>3. CASE ResumeLocks(v)
  <2>1. /\ drv[v].pc = "drive" /\ ~Multi(drv[v].a)
        /\ DriverLocks(v, "resumeLocked", drv[v].a)
    BY <1>3 DEF ResumeLocks, At
  <2> QED
    BY <2>1, LockOK, PCs
<1>4. CASE Resume(v)
  <2> DEFINE a == drv[v].a
  <2>1. /\ drv[v].pc # "idle" /\ lock' = "free"
        /\ UNCHANGED <<script, call>> /\ drv[v].pc \in LockedPC
    BY <1>4, PCs DEF Resume, At
  <2>2. lock = v
    BY <2>1 DEF Locked
  <2>3. CASE UNCHANGED rows /\ Ends(v)
    BY <2>1, <2>2, <2>3, QuietUnchanged, QuietKept, EndOK
  <2>4. CASE \E r \in Row :
              /\ Writes(a, r) /\ SameApply(rows[a], r)
              /\ drv' = [drv EXCEPT ![v].pc = "drive"] /\ drv[v].clear
    BY <2>1, <2>4, WriteOK DEF Steps
  <2> QED
    BY <1>4, <2>3, <2>4, ResumeWrites
<1>5. CASE WriteLocks(v)
  <2>1. drv[v].pc = "write" /\ DriverLocks(v, "writeLocked", drv[v].a)
    BY <1>5 DEF WriteLocks, At
  <2>2. ~Multi(drv[v].a)
    BY <2>1, PCs DEF Shapes, Shaped
  <2> QED
    BY <2>1, <2>2, LockOK, PCs
<1>6. CASE UpdateApply(v)
  <2> DEFINE a == drv[v].a
             s == drv[v].to
             ended == IsTerminal(drv[v].seen)
             p == IF s = "waiting_for_cutover" THEN "drive" ELSE "mark"
  <2>1. /\ drv[v].pc # "idle" /\ UNCHANGED <<script, call>>
        /\ \/ drv[v].pc = "write" /\ UNCHANGED lock /\ (ended \/ IsTerminal(s))
           \/ drv[v].pc \in LockedPC /\ lock' = "free"
    BY <1>6, PCs DEF UpdateApply, At
  <2>2. UNCHANGED lock \/ (lock = v /\ lock' = "free")
    BY <2>1 DEF Locked
  <2>3. CASE UNCHANGED rows /\ Ends(v)
    BY <2>1, <2>2, <2>3, QuietUnchanged, QuietKept, EndOK
  <2>4. CASE \E r \in Row :
              /\ Writes(a, r) /\ Rest(rows[a], r)
              /\ r.state = IF ended THEN rows[a].state ELSE s
              /\ ended \/ IsTerminal(s) \/ drv[v].clear
              /\ Steps(v, p)
    <3>1. PICK r \in Row :
              /\ Writes(a, r) /\ Rest(rows[a], r)
              /\ r.state = IF ended THEN rows[a].state ELSE s
              /\ ended \/ IsTerminal(s) \/ drv[v].clear
              /\ Steps(v, p)
      BY <2>4
    <3>2. p \in {"drive", "mark"}
      OBVIOUS
    <3> HIDE DEF p
    <3>3. CASE ended \/ IsTerminal(s)
      <4>1. r.state \in ActiveState => rows[a].state \in ActiveState
        BY <3>1, <3>3 DEF ActiveState, IsTerminal
      <4>2. Quiet
        BY <2>1, <3>1, <4>1, QuietWrite, AtWork DEF Rest
      <4> QED
        BY <2>1, <2>2, <3>1, <3>2, <4>2, StepOK, QuietKept
    <3>4. CASE ~(ended \/ IsTerminal(s))
      <4>1. drv[v].pc \in LockedPC /\ lock' = "free" /\ drv[v].clear
        BY <2>1, <3>1, <3>4
      <4> QED
        BY <2>1, <3>1, <3>2, <4>1, WriteOK DEF Rest
    <3> QED
      BY <3>3, <3>4
  <2> QED
    BY <1>6, <2>3, <2>4, UpdateWrites
<1> QED
  BY <1>1, <1>2, <1>3, <1>4, <1>5, <1>6

\* When a failure halts the apply no failed apply is reopened.
LEMMA HaltStays ==
  ASSUME OnFailure = "halt", NEW a
  PROVE  Derived(a) # "running_degraded"
<1> DEFINE ch == [i \in DOMAIN rows[a].ops |->
                   [state |-> rows[a].ops[i].state, pauseOnFailure |-> FALSE,
                    continueOnFailure |-> OnFailure = "continue"]]
           raw == {ch[i].state : i \in DOMAIN ch}
           failed == {i \in DOMAIN ch : ch[i].state = "failed"}
           hard == \E i \in failed :
                     ch[i].continueOnFailure <=> ch[i].pauseOnFailure
<1>1. ~(OnFailure = "continue")
  OBVIOUS
<1>2. \A i \in DOMAIN ch : ~ch[i].pauseOnFailure /\ ~ch[i].continueOnFailure
  BY <1>1
<1>3. Derived(a) = DeriveRolloutApplyState(ch)
  BY DEF Derived
<1> HIDE DEF ch
<1>4. DeriveApplyState(raw) # "running_degraded"
  BY DEF DeriveApplyState
<1>5. DeriveApplyState(raw) = "failed" => hard
  <2>1. SUFFICES ASSUME DeriveApplyState(raw) = "failed" PROVE hard
    OBVIOUS
  <2>2. "failed" \in {normalizeApplyState(s) : s \in raw}
    BY <2>1 DEF DeriveApplyState
  <2>3. "failed" \in raw
    BY <2>2 DEF normalizeApplyState
  <2> QED
    BY <1>2, <2>3
<1>6. CASE DeriveApplyState(raw) # "failed"
  <2>1. DeriveRolloutApplyState(ch) = DeriveApplyState(raw)
    BY <1>6 DEF DeriveRolloutApplyState
  <2> QED
    BY <1>3, <1>4, <2>1
<1>7. CASE hard /\ DeriveApplyState(raw) = "failed"
  <2>1. DeriveRolloutApplyState(ch) = "failed"
    BY <1>7 DEF DeriveRolloutApplyState
  <2> QED
    BY <1>3, <2>1
<1> QED
  BY <1>5, <1>6, <1>7

LEMMA WorkSteps ==
  ASSUME Types, Shapes, NEW v \in Drivers,
         \/ RefuseStart(v) \/ Drive(v) \/ Cancelled(v)
         \/ markOperationFromOwnResult(v) \/ ReloadApply(v)
         \/ completePendingStopIfApplyResolved(v)
         \/ \E a \in AIds : ExpireRetryable(v, a)
  PROVE  DrvOK(v)
<1> DEFINE a == drv[v].a
<1>1. CASE RefuseStart(v)
  <2>1. /\ UNCHANGED <<script, call, lock>> /\ drv[v].pc # "idle" /\ Ends(v)
    BY <1>1 DEF RefuseStart, At
  <2>2. "stopped" \notin ActiveState
    BY DEF ActiveState, TerminalApplyState
  <2>3. Quiet
    BY <1>1, <2>1, <2>2, RefuseWrites, QuietWrite, AtWork DEF Rest
  <2> QED
    BY <2>1, <2>3, EndOK, QuietKept
<1>2. CASE Drive(v)
  <2>1. /\ UNCHANGED <<script, call, lock>> /\ drv[v].pc # "idle"
        /\ At(v, "drive") /\ \E s \in Result : DriveTo(v, s)
    BY <1>2 DEF Drive, At, DriveTo, Outcomes, Result
  <2>2. PICK t \in Task, r \in Row :
          /\ Writes(a, r) /\ SameApply(rows[a], r) /\ r.state = rows[a].state
          /\ drv' = [drv EXCEPT ![v].pc = IF Multi(a) THEN "mark" ELSE "write",
                                ![v].to = t, ![v].seen = rows[a].state]
    BY <2>1, DriveWrites
  <2> DEFINE p == IF Multi(a) THEN "mark" ELSE "write"
  <2>3. p \in DrvPC /\ rows[a].state \in State /\ t \in To
    BY <2>1, AtWork, PCs DEF State, To
  <2>4. Sees(v, p, t, rows[a].state)
    <3>1. drv' = [drv EXCEPT ![v].pc = p, ![v].to = t,
                             ![v].seen = rows[a].state]
      BY <2>2
    <3> HIDE DEF p
    <3> QED
      BY <2>1, <3>1, AtWork DEF DrvRec, Types, Sees
  <2>5. PICK d \in DrvRec :
          /\ DrvTo(v, d) /\ d.pc = p /\ d.a = drv[v].a /\ d.i = drv[v].i
          /\ d.seen = rows[a].state /\ d.to = t
    <3> HIDE DEF p, a
    <3> QED
      BY <2>3, <2>4, SeesTo
  <2>6. Shaped(d) /\ d.pc \notin LockedPC
    BY <2>1, <2>5, AtWork, PCs DEF Shaped
  <2>7. Quiet
    BY <2>1, <2>2, QuietWrite, AtWork
  <2> QED
    BY <2>1, <2>5, <2>6, <2>7, MoveOK, QuietKept
<1>3. CASE Cancelled(v)
  BY <1>3, QuietUnchanged, QuietKept, EndOK DEF Cancelled
<1>4. CASE markOperationFromOwnResult(v)
  <2>1. UNCHANGED <<script, call, lock>> /\ drv[v].pc # "idle"
    BY <1>4 DEF markOperationFromOwnResult, At
  <2>2. CASE UNCHANGED rows /\ Ends(v)
    BY <2>1, <2>2, QuietUnchanged, QuietKept, EndOK
  <2>3. CASE \E r \in Row :
              /\ Writes(a, r) /\ Rest(rows[a], r) /\ r.state = rows[a].state
              /\ Steps(v, "list")
    <3>1. Quiet
      BY <2>1, <2>3, QuietWrite, AtWork DEF Rest
    <3> QED
      BY <2>1, <2>3, <3>1, StepOK, QuietKept
  <2> QED
    BY <1>4, <2>2, <2>3, MarkWrites
<1>5. CASE ReloadApply(v)
  <2>1. /\ UNCHANGED <<script, call, lock, rows>> /\ drv[v].pc # "idle"
        /\ drv' = [drv EXCEPT ![v].pc = "project", ![v].to = "settle",
                              ![v].seen = rows[a].state]
    BY <1>5 DEF ReloadApply, At
  <2>2. rows[a].state \in State /\ "settle" \in To /\ Quiet
    BY <2>1, AtWork, QuietUnchanged DEF State, To
  <2>3. Sees(v, "project", "settle", rows[a].state)
    BY <2>1, AtWork DEF DrvRec, Types, Sees
  <2>4. PICK d \in DrvRec :
          /\ DrvTo(v, d) /\ d.pc = "project" /\ d.a = drv[v].a
          /\ d.i = drv[v].i /\ d.to = "settle"
    <3>1. "project" \in DrvPC
      BY PCs
    <3> QED
      BY <2>2, <2>3, <3>1, SeesTo
  <2>5. Shaped(d) /\ d.pc \notin LockedPC
    BY <2>1, <2>4, AtWork, PCs DEF Shaped
  <2> QED
    BY <2>1, <2>2, <2>4, <2>5, MoveOK, QuietKept
<1>6. CASE completePendingStopIfApplyResolved(v)
  <2>1. UNCHANGED <<script, call, lock>> /\ drv[v].pc # "idle" /\ Ends(v)
    BY <1>6 DEF completePendingStopIfApplyResolved, At
  <2>2. Quiet
    BY <1>6, <2>1, SettleWrites, QuietUnchanged, QuietWrite, AtWork DEF Rest
  <2> QED
    BY <2>1, <2>2, EndOK, QuietKept
<1>7. CASE \E b \in AIds : ExpireRetryable(v, b)
  <2>1. PICK b \in AIds : ExpireRetryable(v, b)
    BY <1>7
  <2>2. UNCHANGED <<script, call, lock, drv>> /\ drv[v].pc = "idle"
    BY <2>1 DEF ExpireRetryable, At
  <2>3. "failed" \notin ActiveState
    BY DEF ActiveState, TerminalApplyState
  <2>4. Quiet
    BY <2>1, <2>3, ExpireWrites, QuietWrite
  <2>5. DrvTo(v, drv[v]) /\ Shaped(drv[v]) /\ drv[v].pc \notin LockedPC
    BY <2>2, PCs DEF DrvTo, Types, Shapes
  <2> QED
    BY <2>2, <2>4, <2>5, MoveOK, QuietKept
<1> QED
  BY <1>1, <1>2, <1>3, <1>4, <1>5, <1>6, <1>7

LEMMA ProjectStep ==
  ASSUME Types, Shapes, NEW v \in Drivers, updateApplyStateFromOperations(v)
  PROVE  DrvOK(v)
<1> DEFINE a == drv[v].a
<1>1. /\ UNCHANGED <<script, call, lock>> /\ drv[v].pc = "project"
      /\ drv[v].pc # "idle"
  BY DEF updateApplyStateFromOperations, At
<1>2. Kept /\ AIds' = AIds /\ (OnFailure = "halt" => Quiet)
  <2>1. CASE UNCHANGED rows
    BY <2>1, QuietUnchanged, QuietKept
  <2>2. CASE ~UNCHANGED rows
    <3>1. PICK r \in Row :
            /\ Writes(a, r) /\ Rest(rows[a], r) /\ r.state = Derived(a)
            /\ rows[a].state = drv[v].seen
            /\ \/ ~IsTerminal(drv[v].seen) \/ IsTerminal(Derived(a))
               \/ Derived(a) = "running_degraded"
      BY <2>2, ProjectWrites
    <3>2. Kept /\ AIds' = AIds
      BY <1>1, <3>1, KeptByWrite, Written, AtWork DEF Types, Rest
    <3>3. ASSUME OnFailure = "halt" PROVE Quiet
      <4>1. r.state \in ActiveState => rows[a].state \in ActiveState
        BY <1>1, <3>1, <3>3, HaltStays, AtWork DEF ActiveState, IsTerminal
      <4> QED
        BY <1>1, <3>1, <4>1, QuietWrite, AtWork DEF Rest
    <3> QED
      BY <3>2, <3>3
  <2> QED
    BY <2>1, <2>2
<1>3. CASE Ends(v)
  BY <1>1, <1>2, <1>3, EndOK
<1>4. CASE drv[v].to # "idle" /\ Steps(v, drv[v].to)
  <2>1. drv[v].to \in {"drive", "settle"}
    BY <1>1, <1>4, AtWork DEF Shaped
  <2> QED
    BY <1>1, <1>2, <1>4, <2>1, StepOK
<1> QED
  BY <1>3, <1>4, ProjectWrites

LEMMA DriverSteps ==
  ASSUME Types, Shapes, Locked, NEW v \in Drivers, DriverStep(v) \/ Crash(v)
  PROVE  DrvOK(v)
<1>1. CASE DriverStep(v)
  BY <1>1, ClaimSteps, LockSteps, WorkSteps, ProjectStep DEF DriverStep
<1>2. CASE Crash(v)
  <2>1. /\ UNCHANGED <<script, rows, call>> /\ Ends(v)
        /\ UNCHANGED lock \/ (lock = v /\ lock' = "free")
    BY <1>2 DEF Crash
  <2> QED
    BY <2>1, QuietUnchanged, QuietKept, EndOK
<1> QED
  BY <1>1, <1>2

----------------------------------------------------------------------------
\* What every step keeps.

\* A step of the system: one call's, one driver's, or the ageing of a
\* heartbeat, which changes nothing that is looked at here.
Ages == Quiet /\ UNCHANGED <<script, lock, call, drv>>

LEMMA StepKinds ==
  ASSUME Types, Shapes, Locked, [Next]_vars
  PROVE  \/ \E c \in Calls : CallOK(c)
         \/ \E v \in Drivers : DrvOK(v)
         \/ Ages
<1>1. CASE \E c \in Calls : CallStep(c)
  BY <1>1, CallSteps
<1>2. CASE \E v \in Drivers : DriverStep(v) \/ Crash(v)
  BY <1>2, DriverSteps
<1>3. CASE \E a \in AIds : \E i \in DOMAIN rows[a].ops : HeartbeatExpires(a, i)
  <2>1. PICK a \in AIds : \E i \in DOMAIN rows[a].ops : HeartbeatExpires(a, i)
    BY <1>3
  <2>2. PICK i \in DOMAIN rows[a].ops : HeartbeatExpires(a, i)
    BY <2>1
  <2>3. UNCHANGED <<script, lock, call, drv>>
    BY <2>2 DEF HeartbeatExpires
  <2> QED
    BY <2>2, <2>3, HeartbeatWrites, QuietWrite DEF Ages, Rest
<1>4. CASE UNCHANGED vars
  BY <1>4, QuietUnchanged DEF vars, Ages
<1> QED
  BY <1>1, <1>2, <1>3, <1>4 DEF Next

\* Every step keeps the applies and the script, and with them the types and
\* the shape of the processes.
LEMMA ShapesKept ==
  ASSUME Types, Shapes, Locked, [Next]_vars
  PROVE  Kept /\ Types' /\ Shapes' /\ UNCHANGED script
<1>1. ASSUME Kept, UNCHANGED script, NEW c \in Calls, call'[c] = call[c]
      PROVE  CallShape(c)'
  <2>1. Ask(c)' = Ask(c) /\ CallShape(c)
    BY <1>1 DEF Ask, Shapes
  <2>2. \A a \in AIds : a \in AIds' /\ rows'[a].key = rows[a].key
    BY <1>1 DEF Kept, SameApply
  <2> QED
    BY <1>1, <2>1, <2>2 DEF CallShape
<1>2. ASSUME Kept, NEW v \in Drivers, drv'[v] = drv[v]
      PROVE  Shaped(drv[v])'
  <2>1. PICK d : d = drv[v]
    OBVIOUS
  <2>2. d \in DrvRec /\ Shaped(d)
    BY <2>1 DEF Types, Shapes
  <2>3. Shaped(d)'
    BY <1>2, <2>2, ShapedKept
  <2> QED
    BY <1>2, <2>1, <2>3 DEF Shaped
<1>3. CASE \E c \in Calls : CallOK(c)
  <2>1. PICK c \in Calls : CallOK(c)
    BY <1>3
  <2>2. /\ Kept /\ UNCHANGED <<script, drv>> /\ call' \in [Calls -> CallRec]
        /\ CallShape(c)' /\ \A b \in Calls : b # c => call'[b] = call[b]
    BY <2>1 DEF CallOK
  <2>3. Calls' = Calls /\ Types'
    BY <2>2 DEF Types, Calls, Kept
  <2> QED
    BY <1>1, <1>2, <2>2, <2>3 DEF Shapes
<1>4. CASE \E v \in Drivers : DrvOK(v)
  <2>1. PICK v \in Drivers : DrvOK(v)
    BY <1>4
  <2>2. /\ Kept /\ UNCHANGED <<script, call>> /\ drv' \in [Drivers -> DrvRec]
        /\ Shaped(drv[v])' /\ \A u \in Drivers : u # v => drv'[u] = drv[u]
    BY <2>1 DEF DrvOK
  <2>3. Calls' = Calls /\ Types'
    BY <2>2 DEF Types, Calls, Kept
  <2> QED
    BY <1>1, <1>2, <2>2, <2>3 DEF Shapes
<1>5. CASE Ages
  <2>1. Kept /\ UNCHANGED <<script, call, drv>>
    BY <1>5 DEF Ages, Quiet
  <2>2. Calls' = Calls /\ Types'
    BY <2>1 DEF Types, Calls, Kept
  <2> QED
    BY <1>1, <1>2, <2>1, <2>2 DEF Shapes
<1> QED
  BY <1>3, <1>4, <1>5, StepKinds

\* Calls, drivers and a free lock are told apart.
LEMMA Holders ==
  ASSUME Types
  PROVE  /\ "free" \notin Drivers /\ "free" \notin Calls
         /\ \A c \in Calls, v \in Drivers : c # v
BY AdmissionConstants DEF Types, Calls

LEMMA LockedKept ==
  ASSUME Types, Shapes, Locked, [Next]_vars
  PROVE  Locked'
<1>1. CASE \E c \in Calls : CallOK(c)
  <2>1. PICK c \in Calls : CallOK(c)
    BY <1>1
  <2>2. /\ UNCHANGED <<script, drv>> /\ CallKind(c)
        /\ \A b \in Calls : b # c => call'[b] = call[b]
    BY <2>1 DEF CallOK
  <2> QED
    BY <2>2, Holders DEF Locked, CallKind, Calls
<1>2. CASE \E v \in Drivers : DrvOK(v)
  <2>1. PICK v \in Drivers : DrvOK(v)
    BY <1>2
  <2>2. /\ UNCHANGED <<script, call>> /\ DrvKind(v)
        /\ \A u \in Drivers : u # v => drv'[u] = drv[u]
    BY <2>1 DEF DrvOK
  <2> QED
    BY <2>2, Holders DEF Locked, DrvKind, Calls
<1>3. CASE Ages
  BY <1>3 DEF Ages, Locked, Calls
<1> QED
  BY <1>1, <1>2, <1>3, StepKinds

\* A row that is created has a key of its own, if it has one.
LEMMA KeysKept ==
  ASSUME Types, Shapes, Locked, UniqueKeys, [Next]_vars
  PROVE  UniqueKeys'
<1>1. Kept
  BY ShapesKept
<1>2. \A a \in AIds : rows'[a].key = rows[a].key
  BY <1>1 DEF Kept, SameApply
<1>3. CASE AIds' = AIds
  <2>1. SUFFICES ASSUME NEW a \in AIds, NEW b \in AIds, rows'[a].key # "",
                        rows'[a].key = rows'[b].key
                 PROVE  a = b
    BY <1>3 DEF UniqueKeys
  <2> QED
    BY <1>2, <2>1 DEF UniqueKeys
<1>4. CASE \E c \in Calls : rows' = Append(rows, NewRow(c)) /\ KeyOwner(c) = {}
  <2>1. PICK c \in Calls : rows' = Append(rows, NewRow(c)) /\ KeyOwner(c) = {}
    BY <1>4
  <2>2. NewRow(c) \in Row /\ NewRow(c).key = Ask(c).key
    BY NewRowTyped
  <2>3. PICK n : n = Len(rows) + 1
    OBVIOUS
  <2>4. /\ AIds' = AIds \cup {n} /\ rows'[n] = NewRow(c)
        /\ \A a \in AIds : rows'[a] = rows[a]
    BY <2>1, <2>2, <2>3 DEF Types, AIds
  <2>5. rows'[n].key # "" => \A a \in AIds : rows[a].key # rows'[n].key
    BY <2>1, <2>2, <2>4 DEF KeyOwner
  <2>6. SUFFICES ASSUME NEW a \in AIds \cup {n}, NEW b \in AIds \cup {n},
                        rows'[a].key # "", rows'[a].key = rows'[b].key
                 PROVE  a = b
    BY <2>4 DEF UniqueKeys
  <2> QED
    BY <2>4, <2>5, <2>6 DEF UniqueKeys
<1>5. \/ AIds' = AIds
      \/ \E c \in Calls : rows' = Append(rows, NewRow(c)) /\ KeyOwner(c) = {}
  <2>1. CASE \E c \in Calls : CallOK(c)
    BY <2>1 DEF CallOK, CallKind, Quiet, AIds
  <2>2. CASE \E v \in Drivers : DrvOK(v)
    <3>1. PICK v \in Drivers : DrvOK(v)
      BY <2>2
    <3>2. CASE \E r \in Row : Writes(drv[v].a, r)
      BY <3>2 DEF Writes, AIds, Types
    <3> QED
      BY <3>1, <3>2 DEF DrvOK, DrvKind, AIds
  <2>3. CASE Ages
    BY <2>3 DEF Ages, Quiet
  <2> QED
    BY <2>1, <2>2, <2>3, StepKinds
<1> QED
  BY <1>3, <1>4, <1>5

\* A check that has been made stays true while nothing becomes active.
LEMMA QuietClear ==
  ASSUME Types, Quiet, NEW deps, NEW a, checkNoActiveApplyForTargets(deps, a)
  PROVE  checkNoActiveApplyForTargets(deps, a)'
<1>1. SUFFICES ASSUME NEW b \in AIds' \ {a}, rows'[b].state \in ActiveState
               PROVE  Wants(b)' \cap deps = {}
  BY DEF checkNoActiveApplyForTargets, ActiveState
<1>2. b \in AIds /\ rows[b].state \in ActiveState /\ Kept
  BY <1>1 DEF Quiet
<1>3. Wants(b)' = Wants(b)
  BY <1>2, KeptWants DEF Types
<1> QED
  BY <1>1, <1>2, <1>3 DEF checkNoActiveApplyForTargets

LEMMA QuietActive ==
  ASSUME Types, Quiet, OneActiveApply
  PROVE  OneActiveApply'
<1>1. AIds' = AIds /\ \A a \in AIds : Wants(a)' = Wants(a)
  BY KeptWants DEF Quiet, Types
<1>2. ActiveState' = ActiveState
  BY DEF ActiveState
<1> QED
  BY <1>1, <1>2 DEF OneActiveApply, Quiet

\* One apply is written or created whose targets were found free.
LEMMA GrantedActive ==
  ASSUME Types, Types', Kept, OneActiveApply, NEW a \in AIds',
         \A b \in AIds' : b # a => b \in AIds /\ rows'[b] = rows[b],
         checkNoActiveApplyForTargets(Wants(a)', a)
  PROVE  OneActiveApply'
<1>1. ActiveState' = ActiveState
  BY DEF ActiveState
<1>2. \A b \in AIds' : b # a => Wants(b)' = Wants(b)
  BY KeptWants DEF Types
<1>3. \A b \in AIds' : b # a /\ rows'[b].state \in ActiveState
                         => Wants(b)' \cap Wants(a)' = {}
  BY <1>2 DEF checkNoActiveApplyForTargets
<1>4. \A b, c \in AIds' :
        /\ b # a /\ c # a /\ b # c
        /\ rows'[b].state \in ActiveState /\ rows'[c].state \in ActiveState
        => Wants(b)' \cap Wants(c)' = {}
  BY <1>2 DEF OneActiveApply
<1>5. SUFFICES ASSUME NEW b \in AIds', NEW c \in AIds', b # c,
                      rows'[b].state \in ActiveState,
                      rows'[c].state \in ActiveState
               PROVE  Wants(b)' \cap Wants(c)' = {}
  BY <1>1 DEF OneActiveApply
<1>6. CASE b = a
  BY <1>3, <1>5, <1>6
<1>7. CASE c = a
  BY <1>3, <1>5, <1>7
<1> QED
  BY <1>4, <1>5, <1>6, <1>7

LEMMA ClearUnchanged ==
  ASSUME UNCHANGED rows, NEW deps, NEW a
  PROVE  /\ checkNoActiveApplyForTargets(deps, a)'
              = checkNoActiveApplyForTargets(deps, a)
         /\ Wants(a)' = Wants(a)
BY DEF checkNoActiveApplyForTargets, AIds, Wants, ActiveState

LEMMA ClearQuiet ==
  ASSUME Types, Shapes, Clear, Quiet, UNCHANGED script
  PROVE  /\ \A c \in Calls : call'[c] = call[c] /\ call[c].pc = "insert"
              /\ call[c].clear
              => checkNoActiveApplyForTargets(Targets(c), 0)'
         /\ \A v \in Drivers : drv'[v] = drv[v] /\ drv[v].pc \in LockedPC
              /\ drv[v].clear
              => checkNoActiveApplyForTargets(Wants(drv[v].a), drv[v].a)'
<1>1. ASSUME NEW c \in Calls, call[c].pc = "insert", call[c].clear
      PROVE  checkNoActiveApplyForTargets(Targets(c), 0)'
  <2> DEFINE t == Targets(c)
  <2>1. checkNoActiveApplyForTargets(t, 0) /\ t' = t
    BY <1>1 DEF Clear, Targets, Ask
  <2> HIDE DEF t
  <2>2. checkNoActiveApplyForTargets(t, 0)'
    <3> DEFINE T == t
    <3>1. checkNoActiveApplyForTargets(T, 0)
      BY <2>1
    <3> QED
      BY <2>1, <3>1, QuietClear
  <2> QED
    BY <2>2 DEF t
<1>2. ASSUME NEW v \in Drivers, drv'[v] = drv[v], drv[v].pc \in LockedPC,
             drv[v].clear
      PROVE  checkNoActiveApplyForTargets(Wants(drv[v].a), drv[v].a)'
  <2>1. PICK a : a = drv[v].a
    OBVIOUS
  <2>2. PICK t : t = Wants(a)
    OBVIOUS
  <2>3. checkNoActiveApplyForTargets(t, a)
    BY <1>2, <2>1, <2>2 DEF Clear
  <2>4. a \in AIds
    BY <1>2, <2>1, PCs DEF Shapes, Shaped
  <2>5. Wants(a)' = t
    BY <2>2, <2>4, KeptWants DEF Quiet, Types
  <2>6. checkNoActiveApplyForTargets(t, a)'
    BY <2>3, QuietClear
  <2> QED
    BY <1>2, <2>1, <2>5, <2>6 DEF checkNoActiveApplyForTargets
<1> QED
  BY <1>1, <1>2

LEMMA ClearKept ==
  ASSUME OnFailure = "halt", Types, Shapes, Locked, Clear, OneActiveApply,
         [Next]_vars
  PROVE  Clear' /\ OneActiveApply'
<1>1. Kept /\ Types' /\ Calls' = Calls /\ UNCHANGED script
  BY ShapesKept DEF Calls
<1>2. CASE \E c \in Calls : CallOK(c)
  <2>1. PICK c \in Calls : CallOK(c)
    BY <1>2
  <2>2. /\ UNCHANGED <<script, drv>> /\ CallKind(c)
        /\ \A b \in Calls : b # c => call'[b] = call[b]
    BY <2>1 DEF CallOK
  <2>3. CASE Quiet /\ UNCHANGED lock /\ call'[c].pc # "insert"
    <3>1. Clear'
      BY <1>1, <2>2, <2>3, ClearQuiet DEF Clear
    <3> QED
      BY <2>3, <3>1, QuietActive
  <2>4. CASE /\ UNCHANGED rows /\ lock = "free" /\ lock' = c
             /\ call'[c].clear => checkNoActiveApplyForTargets(Targets(c), 0)
    <3>1. /\ \A b \in Calls : call[b].pc # "insert"
          /\ \A v \in Drivers : drv[v].pc \notin LockedPC
      BY <2>4, Holders DEF Locked
    <3>2. call'[c].clear => checkNoActiveApplyForTargets(Targets(c), 0)'
      <4>1. PICK t : t = Targets(c)
        OBVIOUS
      <4>2. Targets(c)' = t
        BY <1>1, <4>1 DEF Targets, Ask
      <4>3. checkNoActiveApplyForTargets(t, 0)'
              = checkNoActiveApplyForTargets(t, 0)
        BY <2>4, ClearUnchanged
      <4> QED
        BY <2>4, <4>1, <4>2, <4>3 DEF checkNoActiveApplyForTargets
    <3>3. Clear'
      BY <1>1, <2>2, <3>1, <3>2 DEF Clear
    <3> QED
      BY <2>4, <3>3, QuietUnchanged, QuietActive
  <2>5. CASE /\ call[c].pc = "insert" /\ call'[c].pc # "insert"
             /\ lock' = "free"
             /\ \/ UNCHANGED rows
                \/ /\ rows' = Append(rows, NewRow(c)) /\ call[c].clear
    <3>1. /\ \A b \in Calls : b # c => call[b].pc # "insert"
          /\ \A v \in Drivers : drv[v].pc \notin LockedPC
      BY <2>5, Holders DEF Locked
    <3>2. Clear'
      BY <1>1, <2>2, <2>5, <3>1 DEF Clear
    <3>3. CASE UNCHANGED rows
      BY <3>2, <3>3, QuietUnchanged, QuietActive
    <3>4. CASE rows' = Append(rows, NewRow(c)) /\ call[c].clear
      <4>0. PICK n : n = Len(rows) + 1
        OBVIOUS
      <4>1. /\ NewRow(c) \in Row
            /\ {NewRow(c).ops[i].dep : i \in DOMAIN NewRow(c).ops} = Targets(c)
        BY NewRowTyped
      <4>2. /\ AIds' = AIds \cup {n} /\ rows'[n] = NewRow(c) /\ n \notin AIds
            /\ \A b \in AIds : rows'[b] = rows[b]
        BY <3>4, <4>0, <4>1 DEF Types, AIds
      <4>3. 0 \notin AIds
        BY DEF Types, AIds
      <4>4. Wants(n)' = Targets(c)
        BY <4>1, <4>2 DEF Wants
      <4>5. checkNoActiveApplyForTargets(Targets(c), n)
        BY <2>5, <3>4, <4>2, <4>3 DEF Clear, checkNoActiveApplyForTargets
      <4>6. OneActiveApply'
        BY <1>1, <4>2, <4>4, <4>5, GrantedActive
      <4> QED
        BY <3>2, <4>6
    <3> QED
      BY <2>5, <3>3, <3>4
  <2> QED
    BY <2>2, <2>3, <2>4, <2>5 DEF CallKind
<1>3. CASE \E v \in Drivers : DrvOK(v)
  <2>1. PICK v \in Drivers : DrvOK(v)
    BY <1>3
  <2>2. /\ UNCHANGED <<script, call>> /\ DrvKind(v)
        /\ \A u \in Drivers : u # v => drv'[u] = drv[u]
    BY <2>1 DEF DrvOK
  <2>3. CASE Quiet /\ drv'[v].pc \notin LockedPC
    <3>1. Clear'
      BY <1>1, <2>2, <2>3, ClearQuiet DEF Clear
    <3> QED
      BY <2>3, <3>1, QuietActive
  <2>4. CASE /\ UNCHANGED rows /\ lock = "free" /\ lock' = v
             /\ drv'[v].clear => checkNoActiveApplyForTargets(
                                   Wants(drv'[v].a), drv'[v].a)
    <3>1. /\ \A b \in Calls : call[b].pc # "insert"
          /\ \A u \in Drivers : drv[u].pc \notin LockedPC
      BY <2>4, Holders DEF Locked
    <3>2. drv'[v].clear
            => checkNoActiveApplyForTargets(Wants(drv[v].a), drv[v].a)'
      <4>1. PICK a : a = drv'[v].a
        OBVIOUS
      <4>2. PICK t : t = Wants(a)
        OBVIOUS
      <4>3. Wants(a)' = t
        BY <2>4, <4>2, ClearUnchanged
      <4>4. checkNoActiveApplyForTargets(t, a)'
              = checkNoActiveApplyForTargets(t, a)
        BY <2>4, ClearUnchanged
      <4> QED
        BY <2>4, <4>1, <4>2, <4>3, <4>4 DEF checkNoActiveApplyForTargets
    <3>3. Clear'
      BY <1>1, <2>2, <3>1, <3>2 DEF Clear
    <3> QED
      BY <2>4, <3>3, QuietUnchanged, QuietActive
  <2>5. CASE \E r \in Row :
               /\ Writes(drv[v].a, r) /\ SameApply(rows[drv[v].a], r)
               /\ drv[v].pc \in LockedPC /\ drv[v].clear
               /\ lock' = "free" /\ drv'[v].pc \notin LockedPC
    <3>0. PICK a : a = drv[v].a
      OBVIOUS
    <3>1. PICK r \in Row :
            /\ Writes(a, r) /\ SameApply(rows[a], r)
            /\ drv[v].pc \in LockedPC /\ drv[v].clear
            /\ lock' = "free" /\ drv'[v].pc \notin LockedPC
      BY <2>5, <3>0
    <3>2. /\ \A b \in Calls : call[b].pc # "insert"
          /\ \A u \in Drivers : u # v => drv[u].pc \notin LockedPC
      BY <3>1, Holders DEF Locked
    <3>3. Clear'
      BY <1>1, <2>2, <3>1, <3>2 DEF Clear
    <3>4. a \in AIds /\ checkNoActiveApplyForTargets(Wants(a), a)
      BY <3>0, <3>1, PCs DEF Shapes, Shaped, Clear
    <3>5. /\ AIds' = AIds /\ \A b \in AIds : b # a => rows'[b] = rows[b]
      BY <3>1, <3>4, Written DEF Types
    <3>6. Wants(a)' = Wants(a)
      BY <1>1, <3>4, KeptWants DEF Types
    <3>7. OneActiveApply'
      BY <1>1, <3>4, <3>5, <3>6, GrantedActive
    <3> QED
      BY <3>3, <3>7
  <2> QED
    BY <2>2, <2>3, <2>4, <2>5 DEF DrvKind
<1>4. CASE Ages
  <2>1. Clear'
    BY <1>1, <1>4, ClearQuiet DEF Clear, Ages
  <2> QED
    BY <1>4, <2>1, QuietActive DEF Ages
<1> QED
  BY <1>2, <1>3, <1>4, StepKinds

LEMMA InitAdmit ==
  ASSUME Init
  PROVE  AdmitInv
<1>1. rows \in Seq(Row) /\ AIds = {}
  BY DEF Init, AIds
<1>2. call \in [Calls -> CallRec]
  BY DEF Init, CallRec, CallPC, State
<1>3. drv \in [Drivers -> DrvRec]
  <2>1. Idle \in DrvRec
    BY DEF Idle, DrvRec, DrvPC, State
  <2> QED
    BY <2>1 DEF Init
<1>4. /\ \A c \in Calls : call[c].pc = "new" /\ call[c].answer = 0
      /\ \A v \in Drivers : drv[v].pc = "idle"
  BY DEF Init, Idle
<1>5. Types
  BY <1>1, <1>2, <1>3 DEF Init, Types
<1>6. Shapes
  BY <1>4, PCs DEF Shapes, CallShape, Shaped, ControlPC
<1>7. Locked /\ Clear
  BY <1>4, PCs DEF Locked, Clear
<1> QED
  BY <1>1, <1>5, <1>6, <1>7 DEF AdmitInv, UniqueKeys, OneActiveApply

\* Deliveries of one dispatch create one apply and are answered with it, under
\* either failure policy, whatever calls come and whichever drivers fail.
THEOREM DispatchesOnce == Spec => []DispatchedOnce
<1> DEFINE I == Types /\ Shapes /\ Locked /\ UniqueKeys
<1>1. Init => I
  BY InitAdmit DEF AdmitInv
<1>2. I /\ [Next]_vars => I'
  BY ShapesKept, LockedKept, KeysKept
<1>3. I => DispatchedOnce
  BY DEF Shapes, CallShape, UniqueKeys, DispatchedOnce
<1> QED
  BY <1>1, <1>2, <1>3, PTL DEF Spec

LEMMA AdmitKept ==
  ASSUME OnFailure = "halt", AdmitInv, [Next]_vars
  PROVE  AdmitInv'
BY ShapesKept, LockedKept, KeysKept, ClearKept DEF AdmitInv

\* When a failure halts an apply, two active applies never share a deployment.
\* (With on_failure continue a failed apply is reopened without the lock.)
THEOREM TargetsExclusive ==
  ASSUME OnFailure = "halt"
  PROVE  Spec => []OneActiveApply
<1>1. Init => AdmitInv
  BY InitAdmit
<1>2. AdmitInv /\ [Next]_vars => AdmitInv'
  BY AdmitKept
<1>3. AdmitInv => OneActiveApply
  BY DEF AdmitInv
<1> QED
  BY <1>1, <1>2, <1>3, PTL DEF Spec
============================================================================
