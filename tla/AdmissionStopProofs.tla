------------------------ MODULE AdmissionStopProofs ------------------------
(***************************************************************************)
(* A stop that was reported done stays done, for any calls, drivers,       *)
(* deployments and number of faults.                                       *)
(*                                                                         *)
(* StopKept needs that an ended apply stays ended until its first start    *)
(* (Firm). That needs to know what a driver with the apply's lease may still *)
(* write (DriverKnows), what a call has read (CallKnows), and why a task is *)
(* stopped at all (RowKnows).                                              *)
(***************************************************************************)
EXTENDS AdmissionProofs

----------------------------------------------------------------------------
\* What is known of an apply that nobody has asked to start.

\* The driver with the lease of an apply of one operation is at work on it.
Driving(v) ==
  /\ drv[v].pc \in WritePC \cup {"drive"}
  /\ ~Multi(drv[v].a) /\ HoldsApply(v)

\* Such a driver writes what it has brought the task to. An apply that has
\* ended since the driver read it was written stopped along with its task, so
\* what the driver writes is an ended state too.
DriverKnows(v) ==
  LET d == drv[v]
      r == rows[drv[v].a]
  IN
  /\ Driving(v) => r.state # "failed_retryable"
  /\ Driving(v) /\ d.pc \in WritePC => r.ops[d.i].task = d.to
  /\ Driving(v) /\ d.pc \in WritePC /\ r.start = "none" /\ IsTerminal(r.state)
       => IsTerminal(d.seen) \/ IsTerminal(d.to)
  /\ d.pc \in WritePC /\ r.start = "none" /\ IsTerminal(d.seen)
       => IsTerminal(r.state)
  /\ d.pc \in {"stoppedClaim", "stoppedLocked", "resumeLocked"}
       => r.start # "none"

\* What a call has read of an apply that nobody has started is still true.
CallKnows(c) ==
  LET k == call[c]
      r == rows[call[c].a]
  IN
  /\ k.pc = "start" /\ r.start = "none" /\ IsTerminal(k.seen)
       => IsTerminal(r.state)
  /\ k.pc = "startQueue" /\ r.start = "none" => IsTerminal(r.state)

\* A task is stopped only by a stop request, which does not go away.
RowKnows(a) ==
  /\ rows[a].state = "resuming" => rows[a].start # "none"
  /\ rows[a].start = "none" /\ Stopped(a)
       => rows[a].stop \in {"pending", "completed"}

StopInv ==
  /\ AdmitInv
  /\ \A v \in Drivers : DriverKnows(v)
  /\ \A c \in Calls : CallKnows(c)
  /\ \A a \in AIds : RowKnows(a)
  /\ StopKept

----------------------------------------------------------------------------
\* A stop that was reported done.

StopOf(r) ==
  /\ r.state = "resuming" => r.start # "none"
  /\ r.start = "none" /\ (\E i \in DOMAIN r.ops : r.ops[i].task = "stopped")
       => r.stop \in {"pending", "completed"}
  /\ r.stop = "completed" /\ r.start = "none" => IsTerminal(r.state)

\* Until its first start an ended apply stays ended; a request to start stays.
Firm(q, r) ==
  r.start = "none" => /\ q.start = "none"
                      /\ IsTerminal(q.state) => IsTerminal(r.state)

\* What x writes leaves the driver with the lease, if it is not x, with a row
\* it can go on from.
Fair(a, r, x) ==
  /\ r.lease \in {rows[a].lease, x}
  /\ \A u \in Drivers :
       u # x /\ Driving(u) /\ drv[u].a = a /\ r.lease = u
         => /\ SameTasks(rows[a], r) /\ r.state # "failed_retryable"
            /\ IsTerminal(r.state) /\ r.start = "none"
                 => IsTerminal(rows[a].state) \/ IsTerminal(rows[a].ops[1].task)

\* Apply a is written r by x.
Gentle(a, r, x) ==
  /\ Writes(a, r) /\ SameApply(rows[a], r)
  /\ Firm(rows[a], r) /\ StopOf(r) /\ Fair(a, r, x)

LEMMA StopOfRows ==
  /\ (\A a \in AIds : StopOf(rows[a]))
       <=> (\A a \in AIds : RowKnows(a)) /\ StopKept
  /\ (\A a \in AIds' : StopOf(rows'[a]))
       <=> (\A a \in AIds : RowKnows(a))' /\ StopKept'
BY DEF StopOf, RowKnows, Stopped, StopKept

\* What a driver knows is about its record d and the row of its apply.
Knows(v, d, r) ==
  LET at == /\ d.pc \in WritePC \cup {"drive"} /\ ~(Len(r.ops) > 1)
            /\ r.lease = v
  IN
  /\ at => r.state # "failed_retryable"
  /\ at /\ d.pc \in WritePC => r.ops[d.i].task = d.to
  /\ at /\ d.pc \in WritePC /\ r.start = "none" /\ IsTerminal(r.state)
       => IsTerminal(d.seen) \/ IsTerminal(d.to)
  /\ d.pc \in WritePC /\ r.start = "none" /\ IsTerminal(d.seen)
       => IsTerminal(r.state)
  /\ d.pc \in {"stoppedClaim", "stoppedLocked", "resumeLocked"}
       => r.start # "none"

LEMMA KnowsDriver ==
  /\ \A v : DriverKnows(v) <=> Knows(v, drv[v], rows[drv[v].a])
  /\ \A v : DriverKnows(v)' <=> Knows(v, drv'[v], rows'[drv'[v].a])
BY DEF DriverKnows, Knows, Driving, HoldsApply, Multi

\* A driver that has nothing to know.
LEMMA KnowsNothing ==
  ASSUME NEW v, NEW d, NEW r,
         d.pc \in {"idle", "load", "mirror", "mark", "list", "project",
                   "settle", "parent"}
  PROVE  Knows(v, d, r)
BY PCs DEF Knows

\* The other processes know what they knew.
LEMMA GentleFrame ==
  ASSUME StopInv, NEW a \in AIds, NEW r \in Row, NEW x, Gentle(a, r, x),
         UNCHANGED script
  PROVE  /\ \A b \in AIds' : StopOf(rows'[b])
         /\ \A c \in Calls : call'[c] = call[c] => CallKnows(c)'
         /\ \A u \in Drivers : u # x /\ drv'[u] = drv[u] => DriverKnows(u)'
<1>1. Types /\ Shapes
  BY DEF StopInv, AdmitInv
<1>2. /\ rows' \in Seq(Row) /\ AIds' = AIds /\ rows'[a] = r
      /\ \A b \in AIds : b # a => rows'[b] = rows[b]
  BY <1>1, Written DEF Types, Gentle
<1>3. \A b \in AIds : StopOf(rows[b])
  BY StopOfRows DEF StopInv
<1>4. \A b \in AIds' : StopOf(rows'[b])
  BY <1>2, <1>3 DEF Gentle
<1>5. \A b \in AIds : Firm(rows[b], rows'[b])
  BY <1>2 DEF Gentle, Firm
<1>6. ASSUME NEW c \in Calls, call'[c] = call[c] PROVE CallKnows(c)'
  <2>1. CallKnows(c)
    BY DEF StopInv
  <2>2. call[c].pc \in {"start", "startQueue"} => call[c].a \in AIds
    BY <1>1 DEF Shapes, CallShape, ControlPC
  <2> QED
    BY <1>5, <1>6, <2>1, <2>2 DEF CallKnows, Firm
<1>7. ASSUME NEW u \in Drivers, u # x, drv'[u] = drv[u] PROVE DriverKnows(u)'
  <2> DEFINE d == drv[u]
             b == drv[u].a
  <2>1. Knows(u, d, rows[b])
    BY KnowsDriver DEF StopInv
  <2>2. SUFFICES Knows(u, d, rows'[b])
    BY <1>7, KnowsDriver
  <2>3. CASE d.pc = "idle"
    BY <2>3, KnowsNothing
  <2>4. CASE d.pc # "idle" /\ b # a
    <3>1. b \in AIds
      BY <1>1, <2>4, AtWork
    <3> QED
      BY <1>2, <2>1, <2>4, <3>1
  <2>5. CASE d.pc # "idle" /\ b = a
    <3>1. d.i \in DOMAIN rows[a].ops /\ rows[a] \in Row /\ rows'[b] = r
      BY <1>1, <1>2, <2>5, AtWork
    <3>2. Firm(rows[a], r) /\ Len(r.ops) = Len(rows[a].ops)
      BY DEF Gentle, SameApply
    <3>3. d.pc \in WritePC /\ r.start = "none" /\ IsTerminal(d.seen)
            => IsTerminal(r.state)
      BY <2>1, <2>5, <3>2 DEF Knows, Firm
    <3>4. d.pc \in {"stoppedClaim", "stoppedLocked", "resumeLocked"}
            => r.start # "none"
      BY <2>1, <2>5, <3>2 DEF Knows, Firm
    <3>5. CASE ~(d.pc \in WritePC \cup {"drive"} /\ ~(Len(r.ops) > 1)
                 /\ r.lease = u)
      BY <3>1, <3>3, <3>4, <3>5 DEF Knows
    <3>6. CASE /\ d.pc \in WritePC \cup {"drive"} /\ ~(Len(r.ops) > 1)
               /\ r.lease = u
      <4>1. rows[a].lease = u
        BY <1>7, <3>6 DEF Gentle, Fair
      <4>2. Driving(u)
        BY <2>5, <3>2, <3>6, <4>1 DEF Driving, Multi, HoldsApply
      <4>3. /\ SameTasks(rows[a], r) /\ r.state # "failed_retryable"
            /\ IsTerminal(r.state) /\ r.start = "none"
                 => IsTerminal(rows[a].state) \/ IsTerminal(rows[a].ops[1].task)
        BY <1>7, <2>5, <3>6, <4>2 DEF Gentle, Fair
      <4>4. d.i = 1 /\ 1 \in 1..Len(rows[a].ops)
        BY <3>1, <3>2, <3>6, RowOps
      <4>5. r.ops[d.i].task = rows[a].ops[d.i].task
        BY <4>3, <4>4 DEF SameTasks
      <4>6. d.pc \in WritePC => rows[a].ops[d.i].task = d.to
        BY <2>1, <2>5, <3>2, <3>6, <4>1 DEF Knows
      <4>7. /\ d.pc \in WritePC /\ r.start = "none" /\ IsTerminal(r.state)
            => IsTerminal(d.seen) \/ IsTerminal(d.to)
        BY <2>1, <2>5, <3>2, <3>6, <4>1, <4>3, <4>4, <4>6 DEF Knows, Firm
      <4> QED
        BY <3>1, <3>3, <3>4, <4>3, <4>5, <4>6, <4>7 DEF Knows
    <3> QED
      BY <3>5, <3>6
  <2> QED
    BY <2>3, <2>4, <2>5
<1> QED
  BY <1>4, <1>6, <1>7

\* The same when nothing is written.
LEMMA StillFrame ==
  ASSUME StopInv, UNCHANGED <<script, rows>>
  PROVE  /\ \A b \in AIds' : StopOf(rows'[b])
         /\ \A c \in Calls : call'[c] = call[c] => CallKnows(c)'
         /\ \A u \in Drivers : drv'[u] = drv[u] => DriverKnows(u)'
<1>1. \A b \in AIds : StopOf(rows[b])
  BY StopOfRows DEF StopInv
<1>2. \A c \in Calls : call'[c] = call[c] => CallKnows(c)'
  BY DEF StopInv, CallKnows
<1>3. \A u \in Drivers : drv'[u] = drv[u] => DriverKnows(u)'
  BY KnowsDriver DEF StopInv
<1> QED
  BY <1>1, <1>2, <1>3 DEF AIds

\* A write of requests, leases or operations that leaves the state alone, and
\* reports a stop done only for an apply that has ended.
LEMMA PlainWrite ==
  ASSUME StopInv, NEW a \in AIds, NEW r \in Row, NEW x,
         Writes(a, r), Rest(rows[a], r), r.state = rows[a].state,
         r.start = rows[a].start \/ r.start # "none",
         \/ r.stop \in {"pending", rows[a].stop}
         \/ /\ r.stop = "completed"
            /\ rows[a].start = "none" => IsTerminal(rows[a].state)
  PROVE  Gentle(a, r, x)
<1> DEFINE q == rows[a]
<1>1. q \in Row /\ StopOf(q)
  BY StopOfRows DEF StopInv, AdmitInv, Types, AIds
<1>2. /\ SameApply(q, r) /\ SameTasks(q, r) /\ r.lease = q.lease
  BY DEF Rest
<1>3. (\E i \in DOMAIN r.ops : r.ops[i].task = "stopped")
        => \E i \in DOMAIN q.ops : q.ops[i].task = "stopped"
  BY <1>1, <1>2, RowOps DEF SameApply, SameTasks
<1>4. StopOf(r)
  BY <1>1, <1>3 DEF StopOf
<1>5. Firm(q, r)
  BY DEF Firm
<1>6. \A u \in Drivers : Driving(u) /\ drv[u].a = a
                           => q.state # "failed_retryable"
  BY DEF StopInv, DriverKnows
<1>7. Fair(a, r, x)
  BY <1>2, <1>6 DEF Fair
<1> QED
  BY <1>2, <1>4, <1>5, <1>7 DEF Gentle

LEMMA NewFrame ==
  ASSUME StopInv, NEW c \in Calls, rows' = Append(rows, NewRow(c)),
         UNCHANGED <<script, drv>>
  PROVE  /\ \A b \in AIds' : StopOf(rows'[b])
         /\ \A k \in Calls : call'[k] = call[k] => CallKnows(k)'
         /\ \A u \in Drivers : DriverKnows(u)'
<1> DEFINE n == Len(rows) + 1
<1>1. Types /\ Shapes
  BY DEF StopInv, AdmitInv
<1>2. /\ NewRow(c) \in Row /\ NewRow(c).state = "pending"
      /\ NewRow(c).stop = "none"
      /\ \A i \in DOMAIN NewRow(c).ops : NewRow(c).ops[i].task = "pending"
  BY <1>1, NewRowTyped
<1>3. /\ AIds' = AIds \cup {n} /\ rows'[n] = NewRow(c)
      /\ \A b \in AIds : rows'[b] = rows[b]
  BY <1>1, <1>2 DEF Types, AIds
<1>4. \A b \in AIds : StopOf(rows[b])
  BY StopOfRows DEF StopInv
<1>5. StopOf(NewRow(c))
  BY <1>2 DEF StopOf
<1> HIDE DEF n
<1>6. ASSUME NEW k \in Calls, call'[k] = call[k] PROVE CallKnows(k)'
  <2>1. call[k].pc \in {"start", "startQueue"} => call[k].a \in AIds
    BY <1>1 DEF Shapes, CallShape, ControlPC
  <2>2. CallKnows(k)
    BY DEF StopInv
  <2> QED
    BY <1>3, <1>6, <2>1, <2>2 DEF CallKnows
<1>7. ASSUME NEW u \in Drivers PROVE DriverKnows(u)'
  <2>1. Knows(u, drv[u], rows[drv[u].a])
    BY KnowsDriver DEF StopInv
  <2>2. CASE drv[u].pc = "idle"
    BY <2>2, KnowsNothing, KnowsDriver
  <2>3. CASE drv[u].pc # "idle"
    BY <1>1, <1>3, <2>1, <2>3, AtWork, KnowsDriver
  <2> QED
    BY <2>2, <2>3
<1> QED
  BY <1>3, <1>4, <1>5, <1>6, <1>7

\* What StopInv says beyond AdmitInv.
StopRest ==
  /\ \A b \in AIds : StopOf(rows[b])
  /\ \A c \in Calls : CallKnows(c)
  /\ \A v \in Drivers : DriverKnows(v)

LEMMA StopInvParts ==
  /\ StopInv <=> AdmitInv /\ StopRest
  /\ StopInv' <=> AdmitInv' /\ StopRest'
BY StopOfRows DEF StopInv, StopRest

\* A call that writes nothing, or writes gently.
LEMMA CallStops ==
  ASSUME StopInv, NEW c \in Calls, CallOK(c), CallKnows(c)',
         \/ UNCHANGED rows
         \/ \E a \in AIds, r \in Row : Gentle(a, r, c)
         \/ rows' = Append(rows, NewRow(c))
  PROVE  StopRest'
<1>1. /\ UNCHANGED <<script, drv>> /\ Types
      /\ \A b \in Calls : b # c => call'[b] = call[b]
  BY DEF CallOK, StopInv, AdmitInv
<1>2. Calls' = Calls /\ c \notin Drivers
  BY <1>1, Holders DEF Calls
<1>3. CASE UNCHANGED rows
  BY <1>1, <1>2, <1>3, StillFrame DEF StopRest
<1>4. CASE \E a \in AIds, r \in Row : Gentle(a, r, c)
  <2>1. PICK a \in AIds, r \in Row : Gentle(a, r, c)
    BY <1>4
  <2>2. /\ \A b \in AIds' : StopOf(rows'[b])
        /\ \A k \in Calls : call'[k] = call[k] => CallKnows(k)'
        /\ \A u \in Drivers : u # c /\ drv'[u] = drv[u] => DriverKnows(u)'
    BY <1>1, <2>1, GentleFrame
  <2>3. \A u \in Drivers : DriverKnows(u)'
    BY <1>1, <1>2, <2>2
  <2> QED
    BY <1>1, <1>2, <2>2, <2>3 DEF StopRest
<1>5. CASE rows' = Append(rows, NewRow(c))
  BY <1>1, <1>2, <1>5, NewFrame DEF StopRest
<1> QED
  BY <1>3, <1>4, <1>5

LEMMA NothingRead ==
  ASSUME NEW c, call'[c].pc \notin {"start", "startQueue"}
  PROVE  CallKnows(c)'
BY DEF CallKnows

LEMMA GoneOn ==
  ASSUME Types, NEW c \in Calls, NEW p, NEW n,
         \/ p \in CallPC \ {"start", "startQueue"} /\ Goes(c, p)
         \/ n \in Nat /\ Answered(c, n)
  PROVE  CallKnows(c)'
<1>2. CASE p \in CallPC \ {"start", "startQueue"} /\ Goes(c, p)
  <2>1. call'[c].pc = p
    BY <1>2, GoesTo DEF CallTo
  <2> QED
    BY <1>2, <2>1, NothingRead
<1>3. CASE n \in Nat /\ Answered(c, n)
  <2>1. call'[c].pc = "done"
    BY <1>3, AnsweredTo DEF CallTo
  <2> QED
    BY <2>1, NothingRead
<1> QED
  BY <1>2, <1>3

LEMMA CreateStops ==
  ASSUME StopInv, NEW c \in Calls, CallOK(c),
         \/ existingIdempotentApply(c) \/ planForApplyRequest(c)
         \/ loadPlanForApply(c) \/ checkActiveTaskConflict(c) \/ Relookup(c)
         \/ queueValidatedApply(c) \/ createWithRows(c)
  PROVE  StopRest'
<1>1. Types /\ AIds \subseteq Nat
  BY DEF StopInv, AdmitInv, Types, AIds
<1>2. {"plan", "conflict", "create", "relookup"}
        \subseteq CallPC \ {"start", "startQueue"}
  BY DEF CallPC
<1>3. CASE queueValidatedApply(c)
  <2>1. UNCHANGED rows /\ call'[c].pc = "insert"
    BY <1>1, <1>3 DEF queueValidatedApply, CallLocks, Types, CallRec
  <2>2. CallKnows(c)'
    BY <2>1, NothingRead
  <2> QED
    BY <2>1, <2>2, CallStops
<1>4. CASE ~queueValidatedApply(c)
  <2>1. \/ UNCHANGED rows
        \/ rows' = Append(rows, NewRow(c))
    BY <1>4 DEF existingIdempotentApply, planForApplyRequest, loadPlanForApply,
         checkActiveTaskConflict, Relookup, createWithRows
  <2>2. \/ \E p \in {"plan", "conflict", "create", "relookup"} : Goes(c, p)
        \/ \E n \in Nat : Answered(c, n)
    <3>1. KeyOwner(c) \subseteq Nat
      BY <1>1 DEF KeyOwner
    <3>2. Len(rows) + 1 \in Nat
      BY <1>1 DEF Types
    <3> QED
      BY <1>4, <3>1, <3>2 DEF existingIdempotentApply, planForApplyRequest,
           loadPlanForApply, checkActiveTaskConflict, Relookup, createWithRows
  <2>3. CallKnows(c)'
    BY <1>1, <1>2, <2>2, GoneOn
  <2> QED
    BY <2>1, <2>3, CallStops
<1> QED
  BY <1>3, <1>4

LEMMA ControlStops ==
  ASSUME StopInv, NEW c \in Calls, CallOK(c),
         \/ \E a \in AIds : ReadApply(c, a)
         \/ queueStopForApplyOwner(c) \/ createStopRequest(c)
         \/ tryImmediateStopAfterQueue(c)
         \/ completeImmediateStopRequestIfStopped(c)
         \/ completeResolvedStopBeforeStart(c)
         \/ queueStoppedApplyForOperator(c)
         \/ ensureStoredApplyStoppedForStartClaim(c)
         \/ persistStartRequestForOperator(c) \/ cutoverRequestReadiness(c)
         \/ executeCutoverForApply(c)
  PROVE  StopRest'
<1> DEFINE a == call[c].a
           q == rows[a]
<1>1. Types /\ Shapes /\ rows \in Seq(Row) /\ a \in Nat /\ call[c] \in CallRec
  BY DEF StopInv, AdmitInv, Types, CallRec
<1>2. call[c].pc \in ControlPC => a \in AIds /\ q \in Row
  BY <1>1 DEF Shapes, CallShape, AIds
<1>3. /\ {"queueStop", "stopNow", "stopDone", "startGate", "startPersist",
          "cutoverPersist"} \subseteq CallPC \ {"start", "startQueue"}
      /\ "startQueue" \in CallPC
  BY DEF CallPC, ControlPC
<1>4. {"none", "pending", "completed", "failed"} = RequestState
  BY DEF RequestState
<1>5. CallKnows(c) /\ (call[c].pc \in ControlPC => StopOf(q))
  BY <1>2, StopOfRows DEF StopInv
<1>6. CASE \E b \in AIds : ReadApply(c, b)
  <2>1. PICK b \in AIds : ReadApply(c, b)
    BY <1>6
  <2>2. UNCHANGED rows /\ call'[c].a = b /\ call'[c].seen = rows[b].state
    BY <1>1, <2>1 DEF ReadApply, CallRec, Types
  <2>3. call'[c].pc # "startQueue"
    BY <1>1, <2>1 DEF ReadApply, CallRec, Types
  <2>4. CallKnows(c)'
    BY <2>2, <2>3 DEF CallKnows
  <2> QED
    BY <2>2, <2>4, CallStops
<1>7. CASE queueStopForApplyOwner(c)
  <2>1. CallKnows(c)'
    BY <1>1, <1>3, <1>7, GoneOn DEF queueStopForApplyOwner
  <2> QED
    BY <1>7, <2>1, CallStops DEF queueStopForApplyOwner
<1>8. CASE createStopRequest(c)
  <2>1. Set(a, "stop", "pending") /\ a \in AIds
    BY <1>2, <1>8 DEF createStopRequest, ControlPC
  <2>2. CallKnows(c)'
    BY <1>1, <1>3, <1>8, GoneOn DEF createStopRequest
  <2>3. \E r \in Row : Gentle(a, r, c)
    BY <1>1, <1>4, <2>1, SetStop, PlainWrite
  <2> QED
    BY <2>1, <2>2, <2>3, CallStops
<1>9. CASE tryImmediateStopAfterQueue(c)
  <2>1. a \in AIds /\ (UNCHANGED rows \/ Set(a, "stop", "pending"))
    BY <1>2, <1>9 DEF tryImmediateStopAfterQueue, ControlPC
  <2>2. CallKnows(c)'
    BY <1>1, <1>3, <1>9, GoneOn DEF tryImmediateStopAfterQueue
  <2>3. UNCHANGED rows \/ \E r \in Row : Gentle(a, r, c)
    BY <1>1, <1>4, <2>1, SetStop, PlainWrite
  <2> QED
    BY <2>1, <2>2, <2>3, CallStops
<1>10. CASE completeImmediateStopRequestIfStopped(c)
  <2>1. /\ a \in AIds
        /\ \/ UNCHANGED rows
           \/ IsTerminal(q.state) /\ Set(a, "stop", "completed")
    BY <1>2, <1>10 DEF completeImmediateStopRequestIfStopped, ControlPC
  <2>2. CallKnows(c)'
    BY <1>1, <1>10, GoneOn DEF completeImmediateStopRequestIfStopped
  <2>3. UNCHANGED rows \/ \E r \in Row : Gentle(a, r, c)
    BY <1>1, <1>4, <2>1, SetStop, PlainWrite
  <2> QED
    BY <2>1, <2>2, <2>3, CallStops
<1>11. CASE completeResolvedStopBeforeStart(c)
  <2>1. a \in AIds /\ call[c].pc = "start"
    BY <1>2, <1>11 DEF completeResolvedStopBeforeStart, ControlPC
  <2>2. call'[c].pc \in {"done", "startGate"}
    BY <1>1, <1>11 DEF completeResolvedStopBeforeStart, Goes, Answered, Types,
                       CallRec
  <2>3. CallKnows(c)'
    BY <2>2, NothingRead
  <2>4. CASE \E r \in Row :
              /\ Writes(a, r) /\ Rest(q, r) /\ r.state = q.state
              /\ r.start = q.start /\ r.stop = "completed"
              /\ IsTerminal(call[c].seen)
    <3>1. q.start = "none" /\ IsTerminal(call[c].seen) => IsTerminal(q.state)
      BY <1>5, <2>1 DEF CallKnows
    <3>2. \E r \in Row : Gentle(a, r, c)
      BY <2>1, <2>4, <3>1, PlainWrite
    <3> QED
      BY <2>1, <2>3, <3>2, CallStops
  <2>5. CASE \E r \in Row :
              /\ Writes(a, r) /\ Rest(q, r) /\ r.state = "stopped"
              /\ r.start = q.start /\ r.stop = "completed"
              /\ ~Multi(a) /\ q.ops[1].task = "stopped"
    <3>1. PICK r \in Row :
              /\ Writes(a, r) /\ Rest(q, r) /\ r.state = "stopped"
              /\ r.start = q.start /\ r.stop = "completed"
              /\ q.ops[1].task = "stopped"
      BY <2>5
    <3>2. IsTerminal("stopped")
      BY DEF IsTerminal, TerminalApplyState
    <3>3. StopOf(r) /\ Firm(q, r)
      BY <3>1, <3>2 DEF StopOf, Firm
    <3>4. Fair(a, r, c)
      BY <3>1, <3>2 DEF Fair, Rest
    <3>5. Gentle(a, r, c)
      BY <3>1, <3>3, <3>4 DEF Gentle, Rest
    <3> QED
      BY <2>1, <2>3, <3>5, CallStops
  <2> QED
    BY <1>1, <1>11, <2>3, <2>4, <2>5, ResolvedWrites, CallStops
<1>12. CASE queueStoppedApplyForOperator(c)
  <2>1. UNCHANGED rows /\ a \in AIds /\ call[c].pc \in ControlPC
    BY <1>2, <1>12 DEF queueStoppedApplyForOperator, ControlPC
  <2>2. CASE Answered(c, a) \/ Answered(c, 0)
    <3>1. CallKnows(c)'
      BY <1>1, <2>2, GoneOn
    <3> QED
      BY <2>1, <3>1, CallStops
  <2>3. CASE Goes(c, "startQueue") /\ q.stop # "pending" /\ Stopped(a)
    <3>1. call'[c].pc = "startQueue" /\ call'[c].a = a
      BY <1>1, <1>3, <2>3, GoesTo DEF CallTo
    <3>2. q.start = "none" => IsTerminal(q.state)
      BY <1>5, <2>1, <2>3 DEF StopOf, Stopped
    <3>3. CallKnows(c)'
      BY <2>1, <3>1, <3>2 DEF CallKnows
    <3> QED
      BY <2>1, <3>3, CallStops
  <2> QED
    BY <1>12, <2>2, <2>3 DEF queueStoppedApplyForOperator
<1>13. CASE ensureStoredApplyStoppedForStartClaim(c)
  <2>1. /\ a \in AIds /\ q \in Row /\ call[c].pc = "startQueue" /\ StopOf(q)
        /\ UNCHANGED rows \/ Set(a, "state", "stopped")
    BY <1>2, <1>5, <1>13 DEF ensureStoredApplyStoppedForStartClaim, ControlPC
  <2>2. CallKnows(c)'
    BY <1>1, <1>3, <1>13, GoneOn DEF ensureStoredApplyStoppedForStartClaim
  <2>3. CASE UNCHANGED rows
    BY <2>2, <2>3, CallStops
  <2>4. CASE Set(a, "state", "stopped")
    <3>1. IsTerminal("stopped") /\ "stopped" \in ApplyState
      BY DEF IsTerminal, TerminalApplyState, ApplyState
    <3>2. PICK r \in Row : /\ Writes(a, r) /\ Rest(q, r)
                           /\ r.state = "stopped" /\ r.start = q.start
                           /\ r.stop = q.stop
      BY <1>1, <2>1, <2>4, <3>1, SetState
    <3>3. q.start = "none" => IsTerminal(q.state)
      BY <1>5, <2>1 DEF CallKnows
    <3>4. (\E i \in DOMAIN r.ops : r.ops[i].task = "stopped")
            => \E i \in DOMAIN q.ops : q.ops[i].task = "stopped"
      BY <2>1, <3>2, RowOps DEF SameApply, SameTasks, Rest
    <3>5. StopOf(r) /\ Firm(q, r)
      BY <2>1, <3>1, <3>2, <3>4 DEF StopOf, Firm
    <3>6. Fair(a, r, c)
      BY <3>1, <3>2, <3>3 DEF Fair, Rest
    <3>7. Gentle(a, r, c)
      BY <3>2, <3>5, <3>6 DEF Gentle, Rest
    <3> QED
      BY <2>1, <2>2, <3>7, CallStops
  <2> QED
    BY <2>1, <2>3, <2>4
<1>14. CASE persistStartRequestForOperator(c)
  <2>1. Set(a, "start", "pending") /\ a \in AIds
    BY <1>2, <1>14 DEF persistStartRequestForOperator, ControlPC
  <2>2. CallKnows(c)'
    BY <1>1, <1>14, GoneOn DEF persistStartRequestForOperator
  <2>3. \E r \in Row : Gentle(a, r, c)
    BY <1>1, <1>4, <2>1, SetStart, PlainWrite
  <2> QED
    BY <2>1, <2>2, <2>3, CallStops
<1>15. CASE cutoverRequestReadiness(c)
  <2>1. CallKnows(c)'
    BY <1>1, <1>3, <1>15, GoneOn DEF cutoverRequestReadiness
  <2> QED
    BY <1>15, <2>1, CallStops DEF cutoverRequestReadiness
<1>16. CASE executeCutoverForApply(c)
  <2>1. Set(a, "cutover", "pending") /\ a \in AIds
    BY <1>2, <1>16 DEF executeCutoverForApply, ControlPC
  <2>2. CallKnows(c)'
    BY <1>1, <1>16, GoneOn DEF executeCutoverForApply
  <2>3. \E r \in Row : Gentle(a, r, c)
    BY <1>1, <1>4, <2>1, SetCutover, PlainWrite
  <2> QED
    BY <2>1, <2>2, <2>3, CallStops
<1> QED
  BY <1>6, <1>7, <1>8, <1>9, <1>10, <1>11, <1>12, <1>13, <1>14, <1>15, <1>16

\* A driver that writes nothing, or writes gently.
LEMMA DriverStops ==
  ASSUME StopInv, NEW v \in Drivers, DrvOK(v), DriverKnows(v)',
         \/ UNCHANGED rows
         \/ \E a \in AIds, r \in Row : Gentle(a, r, v)
  PROVE  StopRest'
<1>1. /\ UNCHANGED <<script, call>> /\ Calls' = Calls
      /\ \A u \in Drivers : u # v => drv'[u] = drv[u]
  BY DEF DrvOK, Calls
<1>2. CASE UNCHANGED rows
  BY <1>1, <1>2, StillFrame DEF StopRest
<1>3. CASE \E a \in AIds, r \in Row : Gentle(a, r, v)
  <2>1. PICK a \in AIds, r \in Row : Gentle(a, r, v)
    BY <1>3
  <2>2. /\ \A b \in AIds' : StopOf(rows'[b])
        /\ \A k \in Calls : call'[k] = call[k] => CallKnows(k)'
        /\ \A u \in Drivers : u # v /\ drv'[u] = drv[u] => DriverKnows(u)'
    BY <1>1, <2>1, GentleFrame
  <2> QED
    BY <1>1, <2>2 DEF StopRest
<1> QED
  BY <1>2, <1>3

\* Steps after which a driver has nothing to know.
LEMMA Forgets ==
  ASSUME Types, NEW v \in Drivers,
         \/ Ends(v)
         \/ \E p \in {"mark", "list", "settle"} : Steps(v, p)
         \/ drv'[v].pc \in {"idle", "load", "mirror", "mark", "list",
                            "project", "settle", "parent"}
  PROVE  DriverKnows(v)'
<1>1. drv'[v].pc \in {"idle", "load", "mirror", "mark", "list",
                      "project", "settle", "parent"}
  <2>1. CASE Ends(v)
    BY <2>1, EndsTo DEF DrvTo
  <2>2. CASE \E p \in {"mark", "list", "settle"} : Steps(v, p)
    BY <2>2 DEF Steps, Types, DrvRec
  <2> QED
    BY <2>1, <2>2
<1> QED
  BY <1>1, KnowsNothing, KnowsDriver

LEMMA StepsAre ==
  ASSUME Types, NEW v \in Drivers, NEW p, drv' = [drv EXCEPT ![v].pc = p]
  PROVE  /\ drv'[v].pc = p /\ drv'[v].a = drv[v].a /\ drv'[v].i = drv[v].i
         /\ drv'[v].seen = drv[v].seen /\ drv'[v].to = drv[v].to
BY DEF Types, DrvRec

\* Steps that claim or take up an apply.
LEMMA ClaimStops ==
  ASSUME StopInv, NEW v \in Drivers, DrvOK(v),
         \/ \E a \in AIds : \E i \in DOMAIN rows[a].ops :
              FindNextApplyOperation(v, a, i)
         \/ ClaimApplyByID(v) \/ StoppedClaimLocks(v)
         \/ claimStoppedApplyUnderTargetLock(v)
         \/ driveClaimedMultiOperation(v)
         \/ reconcileClaimedOperationFromTerminalParent(v)
  PROVE  StopRest'
<1> DEFINE a == drv[v].a
           q == rows[a]
<1>1. Types /\ Shapes
  BY DEF StopInv, AdmitInv
<1>2. drv[v].pc # "idle" => a \in AIds /\ q \in Row /\ StopOf(q)
  BY <1>1, AtWork, StopOfRows DEF StopInv
<1>3. Knows(v, drv[v], q)
  BY KnowsDriver DEF StopInv
<1>4. CASE \E b \in AIds : \E i \in DOMAIN rows[b].ops :
             FindNextApplyOperation(v, b, i)
  <2>0. PICK b \in AIds : \E i \in DOMAIN rows[b].ops :
                            FindNextApplyOperation(v, b, i)
    BY <1>4
  <2>1. PICK i \in DOMAIN rows[b].ops : FindNextApplyOperation(v, b, i)
    BY <2>0
  <2>2. \E r \in Row : Gentle(b, r, v)
    BY <1>1, <2>1, FindWrites, PlainWrite
  <2>3. drv'[v].pc \in {"load", "parent"}
    BY <1>1, <2>1 DEF FindNextApplyOperation, Idle, Types
  <2>4. DriverKnows(v)'
    BY <1>1, <2>3, Forgets
  <2> QED
    BY <2>2, <2>4, DriverStops
<1>5. CASE ClaimApplyByID(v)
  <2>1. drv[v].pc = "parent" /\ drv[v].pc # "idle"
    BY <1>5 DEF ClaimApplyByID, At
  <2>2. CASE \E r \in Row :
              /\ Writes(a, r) /\ SameApply(q, r) /\ SameTasks(q, r)
              /\ q.state \in ActiveState
              /\ r.state \in ActiveState \ {"failed_retryable"}
              /\ r.state \in {"running", q.state}
              /\ r.lease = v /\ r.start = q.start
              /\ r.stop = q.stop /\ drv' = [drv EXCEPT ![v].pc = "drive"]
    <3>1. PICK r \in Row :
              /\ Writes(a, r) /\ SameApply(q, r) /\ SameTasks(q, r)
              /\ q.state \in ActiveState
              /\ r.state \in ActiveState \ {"failed_retryable"}
              /\ r.state \in {"running", q.state}
              /\ r.lease = v /\ r.start = q.start
              /\ r.stop = q.stop /\ drv' = [drv EXCEPT ![v].pc = "drive"]
      BY <2>2
    <3>2. ~IsTerminal(q.state)
      BY <3>1 DEF ActiveState, IsTerminal
    <3>3. (\E i \in DOMAIN r.ops : r.ops[i].task = "stopped")
            => \E i \in DOMAIN q.ops : q.ops[i].task = "stopped"
      BY <1>2, <2>1, <3>1, RowOps DEF SameApply, SameTasks
    <3>4. StopOf(r) /\ Firm(q, r) /\ Fair(a, r, v)
      BY <1>2, <2>1, <3>1, <3>2, <3>3 DEF StopOf, Firm, Fair
    <3>5. Gentle(a, r, v)
      BY <3>1, <3>4 DEF Gentle
    <3>6. drv'[v].pc = "drive" /\ drv'[v].a = a
      BY <1>1, <3>1, StepsAre
    <3>7. rows'[a] = r
      BY <1>1, <1>2, <2>1, <3>1, Written DEF Types
    <3>8. Knows(v, drv'[v], r)
      BY <3>1, <3>6, PCs DEF Knows
    <3>9. DriverKnows(v)'
      BY <3>6, <3>7, <3>8, KnowsDriver
    <3> QED
      BY <1>2, <2>1, <3>5, <3>9, DriverStops
  <2>3. CASE UNCHANGED rows
    <3>1. CASE drv' = [drv EXCEPT ![v].pc = "mirror", ![v].seen = q.state]
               \/ Ends(v)
      <4>1. drv'[v].pc = "mirror" \/ Ends(v)
        BY <1>1, <3>1 DEF Types, DrvRec
      <4>2. DriverKnows(v)'
        BY <1>1, <4>1, Forgets
      <4> QED
        BY <2>3, <4>2, DriverStops
    <3>2. CASE ParentClaimable(a) /\ q.state = "stopped"
               /\ Steps(v, "stoppedClaim")
      <4>1. q.start = "pending"
        BY <3>2 DEF ParentClaimable, ClaimableState, Retryable
      <4>2. drv'[v].pc = "stoppedClaim" /\ drv'[v].a = a
        BY <1>1, <3>2, StepsAre DEF Steps
      <4>3. Knows(v, drv'[v], q)
        BY <4>1, <4>2, PCs DEF Knows
      <4>4. DriverKnows(v)'
        BY <2>3, <4>2, <4>3, KnowsDriver
      <4> QED
        BY <2>3, <4>4, DriverStops
    <3>3. CASE Steps(v, "drive") /\ ParentClaimable(a) /\ q.state # "stopped"
      <4>1. rows' = [rows EXCEPT
               ![a].lease = v, ![a].stale = FALSE,
               ![a].attempt = IF rows[a].state = "failed_retryable"
                              THEN @ + 1 ELSE @,
               ![a].state = IF @ \in {"pending", "failed_retryable"}
                            THEN "running" ELSE @]
        BY <1>5, <3>3 DEF ClaimApplyByID
      <4>2. rows'[a].state # "failed_retryable"
        BY <1>1, <1>2, <2>1, <4>1 DEF Types, Row, AIds
      <4>3. drv'[v].pc = "drive" /\ drv'[v].a = a
        BY <1>1, <3>3, StepsAre DEF Steps
      <4>4. Knows(v, drv'[v], rows'[a])
        BY <4>2, <4>3, PCs DEF Knows
      <4>5. DriverKnows(v)'
        BY <4>3, <4>4, KnowsDriver
      <4> QED
        BY <2>3, <4>5, DriverStops
    <3> QED
      BY <1>5, <3>1, <3>2, <3>3 DEF ClaimApplyByID
  <2> QED
    BY <1>1, <1>5, <2>2, <2>3, ClaimWrites
<1>6. CASE StoppedClaimLocks(v)
  <2>1. /\ UNCHANGED rows /\ drv[v].pc = "stoppedClaim"
        /\ drv'[v].pc = "stoppedLocked" /\ drv'[v].a = a
    BY <1>1, <1>6 DEF StoppedClaimLocks, DriverLocks, At, Types, DrvRec
  <2>2. q.start # "none"
    BY <1>3, <2>1 DEF Knows
  <2>3. Knows(v, drv'[v], q)
    BY <2>1, <2>2, PCs DEF Knows
  <2>4. DriverKnows(v)'
    BY <2>1, <2>3, KnowsDriver
  <2> QED
    BY <2>1, <2>4, DriverStops
<1>7. CASE claimStoppedApplyUnderTargetLock(v)
  <2>1. drv[v].pc = "stoppedLocked" /\ drv[v].pc # "idle"
    BY <1>7 DEF claimStoppedApplyUnderTargetLock, At
  <2>2. q.start # "none"
    BY <1>3, <2>1 DEF Knows
  <2>3. CASE UNCHANGED rows /\ Ends(v)
    <3>1. DriverKnows(v)'
      BY <1>1, <2>3, Forgets
    <3> QED
      BY <2>3, <3>1, DriverStops
  <2>4. CASE \E r \in Row :
              /\ Writes(a, r) /\ Rest(q, r) /\ r.state = q.state
              /\ r.start = q.start \/ r.start = "failed"
              /\ r.stop = q.stop
              /\ drv' = [drv EXCEPT ![v].pc = "mirror", ![v].seen = "stopped"]
    <3>1. \E r \in Row : Gentle(a, r, v)
      BY <1>2, <2>1, <2>4, PlainWrite
    <3>2. drv'[v].pc = "mirror"
      BY <1>1, <2>4 DEF Types, DrvRec
    <3>3. DriverKnows(v)'
      BY <1>1, <3>2, Forgets
    <3> QED
      BY <1>2, <2>1, <3>1, <3>3, DriverStops
  <2>5. CASE \E r \in Row :
              /\ Writes(a, r) /\ SameApply(q, r) /\ SameTasks(q, r)
              /\ r.state = "resuming" /\ r.lease = v
              /\ r.start = q.start /\ r.stop = q.stop
              /\ drv' = [drv EXCEPT ![v].pc = "drive"]
    <3>1. PICK r \in Row :
              /\ Writes(a, r) /\ SameApply(q, r) /\ SameTasks(q, r)
              /\ r.state = "resuming" /\ r.lease = v
              /\ r.start = q.start /\ r.stop = q.stop
              /\ drv' = [drv EXCEPT ![v].pc = "drive"]
      BY <2>5
    <3>2. StopOf(r) /\ Firm(q, r) /\ Fair(a, r, v)
      BY <2>2, <3>1 DEF StopOf, Firm, Fair
    <3>3. Gentle(a, r, v)
      BY <3>1, <3>2 DEF Gentle
    <3>4. drv'[v].pc = "drive" /\ drv'[v].a = a
      BY <1>1, <3>1, StepsAre
    <3>5. rows'[a] = r
      BY <1>1, <1>2, <2>1, <3>1, Written DEF Types
    <3>6. Knows(v, drv'[v], r)
      BY <3>1, <3>4, PCs DEF Knows
    <3>7. DriverKnows(v)'
      BY <3>4, <3>5, <3>6, KnowsDriver
    <3> QED
      BY <1>2, <2>1, <3>3, <3>7, DriverStops
  <2> QED
    BY <1>1, <1>7, <2>3, <2>4, <2>5, StoppedClaimWrites
<1>8. CASE driveClaimedMultiOperation(v)
  <2>1. UNCHANGED rows /\ drv'[v].pc \in {"mirror", "project"}
    BY <1>1, <1>8 DEF driveClaimedMultiOperation, Types, DrvRec
  <2>2. DriverKnows(v)'
    BY <1>1, <2>1, Forgets
  <2> QED
    BY <2>1, <2>2, DriverStops
<1>9. CASE reconcileClaimedOperationFromTerminalParent(v)
  <2>1. drv[v].pc # "idle"
    BY <1>9 DEF reconcileClaimedOperationFromTerminalParent, At
  <2>2. Ends(v) \/ drv'[v].pc = "project"
    BY <1>1, <1>9 DEF reconcileClaimedOperationFromTerminalParent, Types, DrvRec
  <2>3. DriverKnows(v)'
    BY <1>1, <2>2, Forgets
  <2>4. UNCHANGED rows \/ \E r \in Row : Gentle(a, r, v)
    BY <1>1, <1>2, <1>9, <2>1, MirrorWrites, PlainWrite
  <2> QED
    BY <1>2, <2>1, <2>3, <2>4, DriverStops
<1> QED
  BY <1>4, <1>5, <1>6, <1>7, <1>8, <1>9

\* Steps that drive an apply.
LEMMA DriveStops ==
  ASSUME OnFailure = "halt", StopInv, NEW v \in Drivers, DrvOK(v),
         \/ RefuseStart(v) \/ ResumeLocks(v) \/ Resume(v) \/ Drive(v)
         \/ WriteLocks(v) \/ UpdateApply(v) \/ Cancelled(v)
  PROVE  StopRest'
<1> DEFINE a == drv[v].a
           q == rows[a]
<1>1. Types /\ Shapes
  BY DEF StopInv, AdmitInv
<1>2. drv[v].pc # "idle"
  BY DEF RefuseStart, ResumeLocks, Resume, Drive, WriteLocks, UpdateApply,
         Cancelled, At
<1>3. a \in AIds /\ q \in Row /\ StopOf(q) /\ drv[v].i \in DOMAIN q.ops
  BY <1>1, <1>2, AtWork, StopOfRows DEF StopInv
<1>4. Knows(v, drv[v], q)
  BY KnowsDriver DEF StopInv
<1>5. Multi(a) <=> Len(q.ops) > 1
  BY DEF Multi
<1>6. CASE RefuseStart(v)
  <2>1. Ends(v) /\ q.lease = v
    BY <1>6 DEF RefuseStart, HoldsApply
  <2>2. PICK r \in Row :
           /\ Writes(a, r) /\ Rest(q, r) /\ r.state = "stopped"
           /\ r.start = q.start \/ r.start = "failed"
           /\ r.stop = q.stop
    BY <1>1, <1>6, RefuseWrites
  <2>3. IsTerminal("stopped")
    BY DEF IsTerminal, TerminalApplyState
  <2>4. (\E i \in DOMAIN r.ops : r.ops[i].task = "stopped")
          => \E i \in DOMAIN q.ops : q.ops[i].task = "stopped"
    BY <1>3, <2>2, RowOps DEF SameApply, SameTasks, Rest
  <2>5. StopOf(r) /\ Firm(q, r)
    BY <1>3, <2>2, <2>3, <2>4 DEF StopOf, Firm
  <2>6. Fair(a, r, v)
    BY <2>1, <2>2 DEF Fair, Rest
  <2>7. Gentle(a, r, v)
    BY <2>2, <2>5, <2>6 DEF Gentle, Rest
  <2>8. DriverKnows(v)'
    BY <1>1, <2>1, Forgets
  <2> QED
    BY <1>3, <2>7, <2>8, DriverStops
<1>7. CASE ResumeLocks(v)
  <2>1. /\ UNCHANGED rows /\ q.state = "resuming"
        /\ drv'[v].pc = "resumeLocked" /\ drv'[v].a = a
    BY <1>1, <1>7 DEF ResumeLocks, DriverLocks, Types, DrvRec
  <2>2. q.start # "none"
    BY <1>3, <2>1 DEF StopOf
  <2>3. Knows(v, drv'[v], q)
    BY <2>1, <2>2, PCs DEF Knows
  <2>4. DriverKnows(v)'
    BY <2>1, <2>3, KnowsDriver
  <2> QED
    BY <2>1, <2>4, DriverStops
<1>8. CASE Resume(v)
  <2>1. q.start # "none"
    BY <1>4, <1>8 DEF Knows, Resume, At
  <2>2. CASE UNCHANGED rows /\ Ends(v)
    <3>1. DriverKnows(v)'
      BY <1>1, <2>2, Forgets
    <3> QED
      BY <2>2, <3>1, DriverStops
  <2>3. CASE \E r \in Row :
              /\ Writes(a, r) /\ SameApply(q, r)
              /\ r.state = "running" /\ r.lease = q.lease
              /\ r.lease = v
              /\ r.start = q.start \/ r.start = "completed"
              /\ drv' = [drv EXCEPT ![v].pc = "drive"]
    <3>1. PICK r \in Row :
              /\ Writes(a, r) /\ SameApply(q, r)
              /\ r.state = "running" /\ r.lease = v
              /\ r.start = q.start \/ r.start = "completed"
              /\ drv' = [drv EXCEPT ![v].pc = "drive"]
      BY <2>3
    <3>2. StopOf(r) /\ Firm(q, r) /\ Fair(a, r, v)
      BY <2>1, <3>1 DEF StopOf, Firm, Fair
    <3>3. Gentle(a, r, v)
      BY <3>1, <3>2 DEF Gentle
    <3>4. drv'[v].pc = "drive" /\ drv'[v].a = a
      BY <1>1, <3>1, StepsAre
    <3>5. rows'[a] = r
      BY <1>1, <1>3, <3>1, Written DEF Types
    <3>6. Knows(v, drv'[v], r)
      BY <3>1, <3>4, PCs DEF Knows
    <3>7. DriverKnows(v)'
      BY <3>4, <3>5, <3>6, KnowsDriver
    <3> QED
      BY <1>3, <3>3, <3>7, DriverStops
  <2> QED
    BY <1>1, <1>8, <2>2, <2>3, ResumeWrites
<1>9. CASE Drive(v)
  <2>1. PICK s \in Result : /\ DriveTo(v, s)
                            /\ s = "stopped" => q.stop = "pending"
    BY <1>9 DEF Drive, Outcomes, Result
  <2>2. At(v, "drive")
    BY <1>9 DEF Drive
  <2>3. PICK t \in Task, r \in Row :
           /\ t = taskStateWithNoBackwardProgress(q.ops[drv[v].i].task, s)
           /\ Writes(a, r) /\ SameApply(q, r)
           /\ r.state = q.state /\ r.lease = q.lease
           /\ r.start = q.start /\ r.stop = q.stop
           /\ r.ops[drv[v].i].task = t
           /\ \A j \in 1..Len(q.ops) :
                j # drv[v].i => r.ops[j].task = q.ops[j].task
           /\ drv' = [drv EXCEPT ![v].pc = IF Multi(a) THEN "mark" ELSE "write",
                                 ![v].to = t, ![v].seen = q.state]
           /\ ~Multi(a) => HoldsApply(v)
    BY <1>1, <2>1, <2>2, DriveWrites
  <2>4. q.ops[drv[v].i].task \in Task
    BY <1>3, RowOps DEF OpRow
  <2>5. t \in {q.ops[drv[v].i].task, s}
    BY <2>3, <2>4, NoBackward
  <2>6. (\E i \in DOMAIN r.ops : r.ops[i].task = "stopped")
          => \/ q.stop = "pending"
             \/ \E i \in DOMAIN q.ops : q.ops[i].task = "stopped"
    BY <1>3, <2>1, <2>3, <2>5, RowOps DEF SameApply
  <2>7. StopOf(r) /\ Firm(q, r)
    BY <1>3, <2>3, <2>6 DEF StopOf, Firm
  <2>8. Fair(a, r, v)
    BY <1>5, <2>3 DEF Fair, Driving, HoldsApply
  <2>9. Gentle(a, r, v)
    BY <2>3, <2>7, <2>8 DEF Gentle
  <2>10. rows'[a] = r
    BY <1>1, <1>3, <2>3, Written DEF Types
  <2>11. /\ drv'[v].pc = (IF Multi(a) THEN "mark" ELSE "write")
         /\ drv'[v].to = t /\ drv'[v].seen = q.state /\ drv'[v].a = a
         /\ drv'[v].i = drv[v].i
    BY <1>1, <2>3 DEF Types, DrvRec
  <2>12. CASE Multi(a)
    <3>1. DriverKnows(v)'
      BY <1>1, <2>11, <2>12, Forgets
    <3> QED
      BY <1>3, <2>9, <3>1, DriverStops
  <2>13. CASE ~Multi(a)
    <3>1. q.state # "failed_retryable"
      BY <1>4, <1>5, <2>2, <2>3, <2>13 DEF Knows, At, HoldsApply
    <3>2. /\ drv'[v].pc = "write" /\ drv'[v].to = t /\ drv'[v].seen = r.state
          /\ r.ops[drv'[v].i].task = t /\ r.state # "failed_retryable"
      BY <2>3, <2>11, <2>13, <3>1
    <3>3. Knows(v, drv'[v], r)
      BY <3>2 DEF Knows
    <3>4. DriverKnows(v)'
      BY <2>10, <2>11, <3>3, KnowsDriver
    <3> QED
      BY <1>3, <2>9, <3>4, DriverStops
  <2> QED
    BY <2>12, <2>13
<1>10. CASE WriteLocks(v)
  <2>1. /\ UNCHANGED rows /\ drv[v].pc = "write"
        /\ drv'[v].pc = "writeLocked" /\ drv'[v].a = a
        /\ drv'[v].i = drv[v].i /\ drv'[v].to = drv[v].to
        /\ drv'[v].seen = drv[v].seen
    BY <1>1, <1>10 DEF WriteLocks, DriverLocks, At, Types, DrvRec
  <2>2. Knows(v, drv'[v], q)
    BY <1>4, <2>1, PCs DEF Knows
  <2>3. DriverKnows(v)'
    BY <2>1, <2>2, KnowsDriver
  <2> QED
    BY <2>1, <2>3, DriverStops
<1>11. CASE UpdateApply(v)
  <2> DEFINE s == drv[v].to
             ended == IsTerminal(drv[v].seen)
  <2>1. drv[v].pc \in WritePC
    BY <1>11, PCs DEF UpdateApply, At
  <2>2. ~Multi(a) /\ s \in Task
    BY <1>1, <2>1, PCs DEF Shapes, Shaped
  <2>3. CASE UNCHANGED rows /\ Ends(v)
    <3>1. DriverKnows(v)'
      BY <1>1, <2>3, Forgets
    <3> QED
      BY <2>3, <3>1, DriverStops
  <2>4. CASE ~(UNCHANGED rows /\ Ends(v))
    <3>1. PICK r \in Row :
              /\ Writes(a, r) /\ Rest(q, r)
              /\ r.state = IF ended THEN q.state ELSE s
              /\ r.start = q.start
              /\ r.stop = IF q.stop = "pending" /\ (ended \/ IsTerminal(s))
                          THEN "completed" ELSE q.stop
              /\ q.lease = v
              /\ Steps(v, IF s = "waiting_for_cutover" THEN "drive" ELSE "mark")
      BY <1>1, <1>11, <2>4, UpdateWrites
    <3>2. /\ q.state # "failed_retryable"
          /\ q.start = "none" /\ IsTerminal(q.state) => ended \/ IsTerminal(s)
          /\ q.start = "none" /\ ended => IsTerminal(q.state)
      BY <1>4, <1>5, <2>1, <2>2, <3>1 DEF Knows
    <3>3. (\E i \in DOMAIN r.ops : r.ops[i].task = "stopped")
            => \E i \in DOMAIN q.ops : q.ops[i].task = "stopped"
      BY <1>3, <3>1, RowOps DEF SameApply, SameTasks, Rest
    <3>4. s # "resuming"
      BY <2>2 DEF Task, TaskState
    <3>5. Firm(q, r)
      BY <3>1, <3>2 DEF Firm
    <3>6. StopOf(r)
      <4>1. r.state = "resuming" => r.start # "none"
        BY <1>3, <3>1, <3>4 DEF StopOf
      <4>2. /\ r.start = "none"
            /\ \E i \in DOMAIN r.ops : r.ops[i].task = "stopped"
            => r.stop \in {"pending", "completed"}
        BY <1>3, <3>1, <3>3 DEF StopOf
      <4>3. r.stop = "completed" /\ r.start = "none" => IsTerminal(r.state)
        BY <1>3, <3>1, <3>2 DEF StopOf
      <4> QED
        BY <4>1, <4>2, <4>3 DEF StopOf
    <3>7. Fair(a, r, v)
      BY <3>1 DEF Fair, Rest
    <3>8. Gentle(a, r, v)
      BY <3>1, <3>5, <3>6, <3>7 DEF Gentle, Rest
    <3>9. rows'[a] = r
      BY <1>1, <1>3, <3>1, Written DEF Types
    <3>10. CASE s = "waiting_for_cutover"
      <4>1. drv'[v].pc = "drive" /\ drv'[v].a = a
        BY <1>1, <3>1, <3>10, StepsAre DEF Steps
      <4>2. Knows(v, drv'[v], r)
        BY <3>1, <3>2, <3>10, <4>1, PCs DEF Knows
      <4>3. DriverKnows(v)'
        BY <3>9, <4>1, <4>2, KnowsDriver
      <4> QED
        BY <1>3, <3>8, <4>3, DriverStops
    <3>11. CASE s # "waiting_for_cutover"
      <4>1. DriverKnows(v)'
        BY <1>1, <3>1, <3>11, Forgets
      <4> QED
        BY <1>3, <3>8, <4>1, DriverStops
    <3> QED
      BY <3>10, <3>11
  <2> QED
    BY <2>3, <2>4
<1>12. CASE Cancelled(v)
  <2>1. DriverKnows(v)'
    BY <1>1, <1>12, Forgets DEF Cancelled
  <2> QED
    BY <1>12, <2>1, DriverStops DEF Cancelled
<1> QED
  BY <1>6, <1>7, <1>8, <1>9, <1>10, <1>11, <1>12

LEMMA DerivedNotResuming == \A b : Derived(b) # "resuming"
<1>1. \A raw : DeriveApplyState(raw) # "resuming"
  BY DEF DeriveApplyState
<1>2. \A ch : DeriveRolloutApplyState(ch) # "resuming"
  BY <1>1 DEF DeriveRolloutApplyState
<1> QED
  BY <1>2 DEF Derived

\* Steps after the drive.
LEMMA FinishStops ==
  ASSUME OnFailure = "halt", StopInv, NEW v \in Drivers, DrvOK(v),
         \/ markOperationFromOwnResult(v) \/ ReloadApply(v)
         \/ updateApplyStateFromOperations(v)
         \/ completePendingStopIfApplyResolved(v)
         \/ \E a \in AIds : ExpireRetryable(v, a)
         \/ Crash(v)
  PROVE  StopRest'
<1> DEFINE a == drv[v].a
           q == rows[a]
<1>1. Types /\ Shapes
  BY DEF StopInv, AdmitInv
<1>2. drv[v].pc # "idle" => a \in AIds /\ q \in Row /\ StopOf(q)
  BY <1>1, AtWork, StopOfRows DEF StopInv
<1>3. CASE markOperationFromOwnResult(v)
  <2>1. drv[v].pc # "idle"
    BY <1>3 DEF markOperationFromOwnResult, At
  <2>2. DriverKnows(v)'
    BY <1>1, <1>3, Forgets DEF markOperationFromOwnResult
  <2>3. UNCHANGED rows \/ \E r \in Row : Gentle(a, r, v)
    BY <1>1, <1>2, <1>3, <2>1, MarkWrites, PlainWrite
  <2> QED
    BY <1>2, <2>1, <2>2, <2>3, DriverStops
<1>4. CASE ReloadApply(v)
  <2>1. UNCHANGED rows /\ drv'[v].pc = "project"
    BY <1>1, <1>4 DEF ReloadApply, Types, DrvRec
  <2>2. DriverKnows(v)'
    BY <1>1, <2>1, Forgets
  <2> QED
    BY <2>1, <2>2, DriverStops
<1>5. CASE updateApplyStateFromOperations(v)
  <2>1. drv[v].pc = "project" /\ drv[v].pc # "idle"
    BY <1>5 DEF updateApplyStateFromOperations, At
  <2>2. a \in AIds /\ q \in Row /\ StopOf(q)
    BY <1>2, <2>1
  <2>3. DriverKnows(v)'
    <3>1. CASE drv[v].to = "drive"
      <4>1. Multi(a)
        BY <1>1, <2>1, <3>1 DEF Shapes, Shaped
      <4>2. drv'[v].pc = "drive" /\ drv'[v].a = a
        BY <1>1, <1>5, <3>1, StepsAre DEF updateApplyStateFromOperations, Steps
      <4>3. Len(rows'[a].ops) > 1
        BY <1>1, <2>2, <4>1, KeptWants DEF Multi, DrvOK, Types
      <4>4. Knows(v, drv'[v], rows'[a])
        BY <4>2, <4>3, PCs DEF Knows
      <4> QED
        BY <4>2, <4>4, KnowsDriver
    <3>2. CASE drv[v].to # "drive"
      <4>1. drv[v].to \in {"idle", "settle"}
        BY <1>1, <2>1, <3>2 DEF Shapes, Shaped
      <4> QED
        BY <1>1, <1>5, <4>1, Forgets DEF updateApplyStateFromOperations
    <3> QED
      BY <3>1, <3>2
  <2>4. CASE UNCHANGED rows
    BY <2>3, <2>4, DriverStops
  <2>5. CASE ~UNCHANGED rows
    <3>1. PICK r \in Row :
                 /\ Writes(a, r) /\ Rest(q, r) /\ r.state = Derived(a)
                 /\ r.start = q.start /\ r.stop = q.stop
                 /\ q.state = drv[v].seen
                 /\ \/ ~IsTerminal(drv[v].seen) \/ IsTerminal(Derived(a))
                    \/ Derived(a) = "running_degraded"
                 /\ ~Multi(a) => q.lease = v
      BY <1>1, <1>5, <2>5, ProjectWrites
    <3>2. IsTerminal(q.state) => IsTerminal(r.state)
      BY <3>1, HaltStays
    <3>3. (\E i \in DOMAIN r.ops : r.ops[i].task = "stopped")
            => \E i \in DOMAIN q.ops : q.ops[i].task = "stopped"
      BY <2>2, <3>1, RowOps DEF SameApply, SameTasks, Rest
    <3>4. StopOf(r) /\ Firm(q, r)
      BY <2>2, <3>1, <3>2, <3>3, DerivedNotResuming DEF StopOf, Firm
    <3>5. Fair(a, r, v)
      BY <3>1 DEF Fair, Rest, Driving
    <3>6. Gentle(a, r, v)
      BY <3>1, <3>4, <3>5 DEF Gentle, Rest
    <3> QED
      BY <2>2, <2>3, <3>6, DriverStops
  <2> QED
    BY <2>4, <2>5
<1>6. CASE completePendingStopIfApplyResolved(v)
  <2>1. drv[v].pc # "idle"
    BY <1>6 DEF completePendingStopIfApplyResolved, At
  <2>2. DriverKnows(v)'
    BY <1>1, <1>6, Forgets DEF completePendingStopIfApplyResolved
  <2>3. UNCHANGED rows \/ \E r \in Row : Gentle(a, r, v)
    BY <1>1, <1>2, <1>6, <2>1, SettleWrites, PlainWrite
  <2> QED
    BY <1>2, <2>1, <2>2, <2>3, DriverStops
<1>7. CASE \E b \in AIds : ExpireRetryable(v, b)
  <2>1. PICK b \in AIds : ExpireRetryable(v, b)
    BY <1>7
  <2>2. PICK r \in Row :
           /\ Writes(b, r) /\ SameApply(rows[b], r)
           /\ rows[b].state = "failed_retryable" /\ r.state = "failed"
           /\ r.lease = rows[b].lease
           /\ r.start = rows[b].start /\ r.stop = rows[b].stop
           /\ \A j \in 1..Len(rows[b].ops) :
                r.ops[j].task \in {"failed", rows[b].ops[j].task}
    BY <1>1, <2>1, ExpireWrites
  <2>3. rows[b] \in Row /\ StopOf(rows[b])
    <3>1. rows[b] \in Row
      BY <1>1 DEF Types, AIds
    <3> QED
      BY <3>1, StopOfRows, Zenon DEF StopInv
  <2>4. (\E i \in DOMAIN r.ops : r.ops[i].task = "stopped")
          => \E i \in DOMAIN rows[b].ops : rows[b].ops[i].task = "stopped"
    BY <2>2, <2>3, RowOps DEF SameApply
  <2>5. StopOf(r) /\ Firm(rows[b], r)
    BY <2>2, <2>3, <2>4 DEF StopOf, Firm, IsTerminal, TerminalApplyState
  <2>6. \A u \in Drivers : Driving(u) => rows[drv[u].a].state # "failed_retryable"
    BY DEF StopInv, DriverKnows
  <2>7. Fair(b, r, v)
    BY <2>2, <2>6 DEF Fair
  <2>8. Gentle(b, r, v)
    BY <2>2, <2>5, <2>7 DEF Gentle
  <2>9. drv'[v].pc = "idle"
    BY <2>1 DEF ExpireRetryable, At
  <2>10. DriverKnows(v)'
    BY <1>1, <2>9, Forgets
  <2> QED
    BY <2>8, <2>10, DriverStops
<1>8. CASE Crash(v)
  <2>1. DriverKnows(v)' /\ UNCHANGED rows
    BY <1>1, <1>8, Forgets DEF Crash
  <2> QED
    BY <2>1, DriverStops
<1> QED
  BY <1>3, <1>4, <1>5, <1>6, <1>7, <1>8

LEMMA StopStep ==
  ASSUME OnFailure = "halt", StopInv, [Next]_vars
  PROVE  StopInv'
<1>1. Types /\ Shapes /\ Locked /\ AdmitInv
  BY DEF StopInv, AdmitInv
<1>2. AdmitInv'
  BY <1>1, AdmitKept
<1>3. CASE \E c \in Calls : CallStep(c)
  <2>1. PICK c \in Calls : CallStep(c)
    BY <1>3
  <2>2. CallOK(c)
    BY <1>1, <2>1, CallSteps
  <2>3. StopRest'
    BY <2>1, <2>2, CreateStops, ControlStops DEF CallStep
  <2> QED
    BY <1>2, <2>3, StopInvParts
<1>4. CASE \E v \in Drivers : DriverStep(v) \/ Crash(v)
  <2>1. PICK v \in Drivers : DriverStep(v) \/ Crash(v)
    BY <1>4
  <2>2. DrvOK(v)
    BY <1>1, <2>1, DriverSteps
  <2>3. StopRest'
    BY <2>1, <2>2, ClaimStops, DriveStops, FinishStops DEF DriverStep
  <2> QED
    BY <1>2, <2>3, StopInvParts
<1>5. CASE \E a \in AIds : \E i \in DOMAIN rows[a].ops : HeartbeatExpires(a, i)
  <2>1. PICK a \in AIds : \E i \in DOMAIN rows[a].ops : HeartbeatExpires(a, i)
    BY <1>5
  <2>2. PICK i \in DOMAIN rows[a].ops : HeartbeatExpires(a, i)
    BY <2>1
  <2>3. UNCHANGED <<script, call, drv>> /\ Calls' = Calls
    BY <2>2 DEF HeartbeatExpires, Calls
  <2>4. PICK r \in Row : Gentle(a, r, "free")
    BY <1>1, <2>2, HeartbeatWrites, PlainWrite
  <2>5. StopRest'
    BY <1>1, <2>3, <2>4, GentleFrame, Holders DEF StopRest
  <2> QED
    BY <1>2, <2>5, StopInvParts
<1>6. CASE UNCHANGED vars
  <2>1. UNCHANGED <<script, rows, call, drv>> /\ Calls' = Calls
    BY <1>6 DEF vars, Calls
  <2>2. StopRest'
    BY <2>1, StillFrame DEF StopRest
  <2> QED
    BY <1>2, <2>2, StopInvParts
<1> QED
  BY <1>3, <1>4, <1>5, <1>6 DEF Next

LEMMA InitStop ==
  ASSUME Init
  PROVE  StopInv
<1>1. AdmitInv
  BY InitAdmit
<1>2. AIds = {}
  BY DEF Init, AIds
<1>3. \A c \in Calls : CallKnows(c)
  BY DEF Init, CallKnows
<1>4. \A v \in Drivers : DriverKnows(v)
  <2>1. \A v \in Drivers : drv[v].pc = "idle"
    BY DEF Init, Idle
  <2> QED
    BY <2>1, KnowsNothing, KnowsDriver
<1> QED
  BY <1>1, <1>2, <1>3, <1>4 DEF StopInv, StopKept

\* When a failure halts an apply, a stop that was reported done stays done:
\* until someone asks for a start the apply has ended, whatever a driver that
\* read it earlier still writes.
THEOREM StopsStay ==
  ASSUME OnFailure = "halt"
  PROVE  Spec => []StopKept
<1>1. Init => StopInv
  BY InitStop
<1>2. StopInv /\ [Next]_vars => StopInv'
  BY StopStep
<1>3. StopInv => StopKept
  BY DEF StopInv
<1> QED
  BY <1>1, <1>2, <1>3, PTL DEF Spec
============================================================================
