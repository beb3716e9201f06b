--------------------------- MODULE AdmissionRows ---------------------------
(***************************************************************************)
(* What each step of Admission writes. A step writes one apply or none; for *)
(* each step that writes there is a lemma with the row it writes, of which *)
(* the later proofs only use what it says. The values of the variables, and *)
(* what the step that a process is at tells about the rest of its record,  *)
(* are part of the inductive invariant.                                    *)
(***************************************************************************)
EXTENDS Admission, TLAPS

----------------------------------------------------------------------------
\* The values of the variables.

Asks == UNION {{s.calls[c] : c \in DOMAIN s.calls} : s \in Scripts}
Dep == UNION {{k.want[i] : i \in DOMAIN k.want} : k \in Asks}
Key == {k.key : k \in Asks}
Lease == {"none"} \cup Drivers
State == ApplyState \cup {"none"}
Task == TaskState \ {"checksumming"}

OpRow == [dep : Dep, state : ApplyState, task : Task, lease : Lease,
          stale : BOOLEAN]

Row == [state : ApplyState, key : Key, attempt : Nat, lease : Lease,
        stale : BOOLEAN, stop : RequestState, start : RequestState,
        cutover : RequestState, ops : Seq(OpRow)]

ControlPC == {"stop", "start", "cutover", "queueStop", "stopNow", "stopDone",
              "startGate", "startQueue", "startPersist", "cutoverPersist"}
CallPC == {"new", "plan", "conflict", "relookup", "create", "insert", "done"}
            \cup ControlPC
CallRec == [pc : CallPC, a : Nat, seen : State, clear : BOOLEAN, answer : Nat]

LockedPC == {"stoppedLocked", "resumeLocked", "writeLocked"}
WritePC == {"write", "writeLocked"}
SinglePC == {"parent", "stoppedClaim"} \cup LockedPC \cup WritePC
DrvPC == {"idle", "load", "mirror", "drive", "mark", "list", "project",
          "settle"} \cup SinglePC
DrvRec == [pc : DrvPC, a : Nat, i : Nat, seen : State,
           to : Task \cup {"none", "idle", "drive", "settle"},
           clear : BOOLEAN]

Types ==
  /\ script \in Scripts
  /\ rows \in Seq(Row)
  /\ call \in [Calls -> CallRec]
  /\ drv \in [Drivers -> DrvRec]

----------------------------------------------------------------------------
\* What the step of a call or of a driver tells about the rest of its record.

CallShape(c) ==
  /\ call[c].pc \in {"plan", "conflict", "relookup"} => Ask(c).op = "dispatch"
  /\ call[c].pc \in ControlPC
       => Ask(c).op \in {"stop", "start", "cutover"} /\ call[c].a \in AIds
  /\ Ask(c).op = "dispatch" /\ call[c].answer # 0
       => /\ call[c].answer \in AIds
          /\ rows[call[c].answer].key = Ask(c).key

Shaped(d) ==
  /\ d.pc # "idle" => d.a \in AIds /\ d.i \in DOMAIN rows[d.a].ops
  /\ d.pc = "load" => Multi(d.a)
  /\ d.pc \in SinglePC => ~Multi(d.a)
  /\ d.pc = "mirror" => IsTerminal(d.seen)
  /\ d.pc = "project" => d.to \in {"idle", "drive", "settle"}
  /\ d.pc = "project" /\ d.to = "drive" => Multi(d.a)
  /\ d.pc \in WritePC => d.to \in Task /\ d.seen \in ApplyState

Shapes == /\ \A c \in Calls : CallShape(c)
          /\ \A v \in Drivers : Shaped(drv[v])

----------------------------------------------------------------------------
\* How a step writes the rows.

\* Apply r is apply q but for what is written of it: its key and the
\* deployments of its operations are those it was created with.
SameApply(q, r) ==
  /\ r.key = q.key /\ Len(r.ops) = Len(q.ops)
  /\ \A i \in 1..Len(q.ops) : r.ops[i].dep = q.ops[i].dep
SameTasks(q, r) == \A i \in 1..Len(q.ops) : r.ops[i].task = q.ops[i].task

Writes(a, r) == rows' = [rows EXCEPT ![a] = r]

\* Every apply there was is still what it was created as.
Kept ==
  /\ rows' \in Seq(Row)
  /\ \A a \in AIds : a \in AIds' /\ SameApply(rows[a], rows[a]')

LEMMA Written ==
  ASSUME rows \in Seq(Row), NEW a \in AIds, NEW r \in Row, Writes(a, r)
  PROVE  /\ rows' \in Seq(Row) /\ AIds' = AIds /\ rows'[a] = r
         /\ \A b \in AIds : b # a => rows'[b] = rows[b]
BY DEF Writes, AIds

LEMMA RowOps ==
  ASSUME NEW q \in Row
  PROVE  /\ q.ops \in Seq(OpRow) /\ DOMAIN q.ops = 1..Len(q.ops)
         /\ Len(q.ops) \in Nat /\ \A i \in DOMAIN q.ops : q.ops[i] \in OpRow
BY DEF Row

LEMMA KeptByWrite ==
  ASSUME rows \in Seq(Row), NEW a \in AIds, NEW r \in Row, Writes(a, r),
         SameApply(rows[a], r)
  PROVE  Kept
<1>1. \A b \in AIds : SameApply(rows[b], rows[b])
  BY DEF SameApply
<1> QED
  BY <1>1, Written DEF Kept, AIds

LEMMA KeptUnchanged ==
  ASSUME rows \in Seq(Row), UNCHANGED rows
  PROVE  Kept
BY DEF Kept, AIds, SameApply

\* Applies keep their deployments.
LEMMA KeptWants ==
  ASSUME rows \in Seq(Row), Kept, NEW a \in AIds
  PROVE  /\ Wants(a)' = Wants(a) /\ Multi(a)' = Multi(a)
         /\ (DOMAIN rows[a].ops)' = DOMAIN rows[a].ops
         /\ rows'[a].key = rows[a].key
<1>1. rows[a] \in Row /\ rows'[a] \in Row
  BY DEF Kept, AIds
<1>2. SameApply(rows[a], rows'[a])
  BY DEF Kept
<1>3. DOMAIN rows'[a].ops = DOMAIN rows[a].ops
  BY <1>1, <1>2, RowOps DEF SameApply
<1> QED
  BY <1>1, <1>2, <1>3, RowOps DEF Wants, Multi, SameApply

\* All that a step on one request, or on the state, leaves alone.
Rest(q, r) == SameApply(q, r) /\ SameTasks(q, r) /\ r.lease = q.lease

LEMMA RestOfSame ==
  ASSUME NEW q \in Row, NEW r \in Row, r.key = q.key, r.ops = q.ops,
         r.lease = q.lease
  PROVE  Rest(q, r)
BY DEF Rest, SameApply, SameTasks

LEMMA SetState ==
  ASSUME rows \in Seq(Row), NEW a \in AIds, NEW x \in ApplyState,
         Set(a, "state", x)
  PROVE  \E r \in Row : /\ Writes(a, r) /\ Rest(rows[a], r)
                        /\ r.state = x /\ r.start = rows[a].start
                        /\ r.stop = rows[a].stop
<1> DEFINE q == rows[a]
           r == [q EXCEPT !.state = x]
<1>1. q \in Row
  BY DEF AIds
<1>2. r \in Row
  BY <1>1, Zenon DEF Row
<1>3. /\ r.key = q.key /\ r.ops = q.ops /\ r.lease = q.lease
      /\ r.state = x /\ r.start = q.start /\ r.stop = q.stop
  BY <1>1 DEF Row
<1>4. Writes(a, r)
  BY DEF Writes, Set
<1> HIDE DEF r
<1> QED
  BY <1>1, <1>2, <1>3, <1>4, RestOfSame

LEMMA SetStop ==
  ASSUME rows \in Seq(Row), NEW a \in AIds, NEW x \in RequestState,
         Set(a, "stop", x)
  PROVE  \E r \in Row : /\ Writes(a, r) /\ Rest(rows[a], r)
                        /\ r.state = rows[a].state /\ r.start = rows[a].start
                        /\ r.stop = x
<1> DEFINE q == rows[a]
           r == [q EXCEPT !.stop = x]
<1>1. q \in Row
  BY DEF AIds
<1>2. r \in Row
  BY <1>1, Zenon DEF Row
<1>3. /\ r.key = q.key /\ r.ops = q.ops /\ r.lease = q.lease
      /\ r.state = q.state /\ r.start = q.start /\ r.stop = x
  BY <1>1 DEF Row
<1>4. Writes(a, r)
  BY DEF Writes, Set
<1> HIDE DEF r
<1> QED
  BY <1>1, <1>2, <1>3, <1>4, RestOfSame

LEMMA SetStart ==
  ASSUME rows \in Seq(Row), NEW a \in AIds, NEW x \in RequestState,
         Set(a, "start", x)
  PROVE  \E r \in Row : /\ Writes(a, r) /\ Rest(rows[a], r)
                        /\ r.state = rows[a].state /\ r.start = x
                        /\ r.stop = rows[a].stop
<1> DEFINE q == rows[a]
           r == [q EXCEPT !.start = x]
<1>1. q \in Row
  BY DEF AIds
<1>2. r \in Row
  BY <1>1, Zenon DEF Row
<1>3. /\ r.key = q.key /\ r.ops = q.ops /\ r.lease = q.lease
      /\ r.state = q.state /\ r.start = x /\ r.stop = q.stop
  BY <1>1 DEF Row
<1>4. Writes(a, r)
  BY DEF Writes, Set
<1> HIDE DEF r
<1> QED
  BY <1>1, <1>2, <1>3, <1>4, RestOfSame

LEMMA SetCutover ==
  ASSUME rows \in Seq(Row), NEW a \in AIds, NEW x \in RequestState,
         Set(a, "cutover", x)
  PROVE  \E r \in Row : /\ Writes(a, r) /\ Rest(rows[a], r)
                        /\ r.state = rows[a].state /\ r.start = rows[a].start
                        /\ r.stop = rows[a].stop
<1> DEFINE q == rows[a]
           r == [q EXCEPT !.cutover = x]
<1>1. q \in Row
  BY DEF AIds
<1>2. r \in Row
  BY <1>1, Zenon DEF Row
<1>3. /\ r.key = q.key /\ r.ops = q.ops /\ r.lease = q.lease
      /\ r.state = q.state /\ r.start = q.start /\ r.stop = q.stop
  BY <1>1 DEF Row
<1>4. Writes(a, r)
  BY DEF Writes, Set
<1> HIDE DEF r
<1> QED
  BY <1>1, <1>2, <1>3, <1>4, RestOfSame

----------------------------------------------------------------------------
\* What the drivers write.

LEMMA OpWritten ==
  ASSUME NEW q \in Row, NEW r \in Row, NEW i \in DOMAIN q.ops, NEW o \in OpRow,
         o.dep = q.ops[i].dep, r.key = q.key, r.ops = [q.ops EXCEPT ![i] = o]
  PROVE  /\ SameApply(q, r) /\ r.ops[i] = o
         /\ \A j \in 1..Len(q.ops) : j # i => r.ops[j] = q.ops[j]
         /\ o.task = q.ops[i].task => SameTasks(q, r)
BY RowOps DEF SameApply, SameTasks

LEMMA OpSeq ==
  ASSUME NEW q \in Row, NEW i \in DOMAIN q.ops, NEW o \in OpRow
  PROVE  [q.ops EXCEPT ![i] = o] \in Seq(OpRow)
BY RowOps

LEMMA FindWrites ==
  ASSUME Types, NEW v \in Drivers, NEW a \in AIds,
         NEW i \in DOMAIN rows[a].ops, FindNextApplyOperation(v, a, i)
  PROVE  \E r \in Row : /\ Writes(a, r) /\ Rest(rows[a], r)
                        /\ r.state = rows[a].state /\ r.start = rows[a].start
                        /\ r.stop = rows[a].stop
<1> DEFINE q == rows[a]
           p == q.ops[i]
           s == CASE p.state = "pending" -> "running"
                  [] p.state = "stopped" -> "resuming"
                  [] OTHER -> p.state
           o == [p EXCEPT !.lease = v, !.stale = FALSE, !.state = s]
           n == IF p.state = "failed_retryable" /\ Retryable(a) /\ Multi(a)
                THEN q.attempt + 1 ELSE q.attempt
           r == [q EXCEPT !.ops = [q.ops EXCEPT ![i] = o], !.attempt = n]
<1>1. q \in Row /\ p \in OpRow
  BY RowOps DEF AIds, Types
<1>2. s \in ApplyState
  BY <1>1 DEF OpRow, ApplyState
<1>3. o \in OpRow /\ o.dep = p.dep /\ o.task = p.task
  <2>1. o \in OpRow
    BY <1>1, <1>2, Zenon DEF OpRow, Lease
  <2> QED
    BY <1>1, <2>1 DEF OpRow
<1>4. [q.ops EXCEPT ![i] = o] \in Seq(OpRow)
  BY <1>1, <1>3, OpSeq
<1>5. n \in Nat
  BY <1>1 DEF Row
<1>6. r \in Row
  BY <1>1, <1>4, <1>5, Zenon DEF Row
<1>7. /\ r.key = q.key /\ r.ops = [q.ops EXCEPT ![i] = o]
      /\ r.lease = q.lease /\ r.state = q.state /\ r.start = q.start
      /\ r.stop = q.stop
  BY <1>1 DEF Row
<1>8. Writes(a, r)
  BY <1>1 DEF Writes, FindNextApplyOperation, Row, AIds
<1> HIDE DEF r, o
<1>9. SameApply(q, r) /\ SameTasks(q, r)
  BY <1>1, <1>3, <1>6, <1>7, OpWritten
<1> QED
  BY <1>6, <1>7, <1>8, <1>9 DEF Rest

LEMMA ClaimWrites ==
  ASSUME Types, Shapes, NEW v \in Drivers, ClaimApplyByID(v)
  PROVE  LET a == drv[v].a IN
         \/ UNCHANGED rows
         \/ \E r \in Row :
              /\ Writes(a, r) /\ SameApply(rows[a], r) /\ SameTasks(rows[a], r)
              /\ rows[a].state \in ActiveState
              /\ r.state \in ActiveState \ {"failed_retryable"}
              /\ r.state \in {"running", rows[a].state}
              /\ r.lease = v /\ r.start = rows[a].start
              /\ r.stop = rows[a].stop /\ drv' = [drv EXCEPT ![v].pc = "drive"]
<1> DEFINE a == drv[v].a
           q == rows[a]
           n == IF q.state = "failed_retryable" THEN q.attempt + 1
                ELSE q.attempt
           s == IF q.state \in {"pending", "failed_retryable"} THEN "running"
                ELSE q.state
           r == [q EXCEPT !.lease = v, !.stale = FALSE, !.attempt = n,
                          !.state = s]
<1>1. a \in AIds /\ q \in Row
  BY DEF Shapes, Shaped, ClaimApplyByID, At, Types, AIds
<1>2. SUFFICES ASSUME rows' # rows
               PROVE  /\ r \in Row /\ Writes(a, r) /\ SameApply(q, r)
                      /\ SameTasks(q, r) /\ q.state \in ActiveState
                      /\ r.state \in ActiveState \ {"failed_retryable"}
                      /\ r.state \in {"running", q.state}
                      /\ r.lease = v /\ r.start = q.start /\ r.stop = q.stop
                      /\ drv' = [drv EXCEPT ![v].pc = "drive"]
  OBVIOUS
<1>3. /\ ParentClaimable(a) /\ q.state # "stopped" /\ Steps(v, "drive")
      /\ Writes(a, r)
  BY <1>1, <1>2 DEF ClaimApplyByID, Writes, Row, AIds
<1>4. n \in Nat /\ q.state \in ActiveState /\ s \in ApplyState
      /\ s \in ActiveState \ {"failed_retryable"}
  <2>1. q.state \in {"pending", "failed_retryable"} \cup ClaimableState
    BY <1>3 DEF ParentClaimable, Retryable
  <2>2. n \in Nat
    BY <1>1 DEF Row
  <2> QED
    BY <2>1, <2>2 DEF ActiveState, ApplyState, TerminalApplyState,
                      ClaimableState
<1>5. r \in Row
  BY <1>1, <1>4, Zenon DEF Row, Lease
<1>6. /\ r.key = q.key /\ r.ops = q.ops /\ r.lease = v /\ r.state = s
      /\ r.start = q.start /\ r.stop = q.stop
  BY <1>1 DEF Row
<1> HIDE DEF r
<1> QED
  BY <1>1, <1>3, <1>4, <1>5, <1>6 DEF SameApply, SameTasks, Steps

LEMMA StoppedClaimWrites ==
  ASSUME Types, Shapes, NEW v \in Drivers, claimStoppedApplyUnderTargetLock(v)
  PROVE  LET a == drv[v].a IN
         \/ UNCHANGED rows /\ Ends(v)
         \/ \E r \in Row :
              /\ Writes(a, r) /\ Rest(rows[a], r) /\ r.state = rows[a].state
              /\ r.start = rows[a].start \/ r.start = "failed"
              /\ r.stop = rows[a].stop
              /\ drv' = [drv EXCEPT ![v].pc = "mirror", ![v].seen = "stopped"]
         \/ \E r \in Row :
              /\ Writes(a, r) /\ SameApply(rows[a], r) /\ SameTasks(rows[a], r)
              /\ r.state = "resuming" /\ r.lease = v
              /\ r.start = rows[a].start /\ r.stop = rows[a].stop
              /\ drv' = [drv EXCEPT ![v].pc = "drive"]
              /\ drv[v].clear
<1> DEFINE a == drv[v].a
           q == rows[a]
           x == IF q.start = "pending" THEN "failed" ELSE q.start
<1>1. a \in AIds /\ q \in Row
  BY DEF Shapes, Shaped, claimStoppedApplyUnderTargetLock, At, Types, AIds
<1>2. CASE ~drv[v].clear
  <2> DEFINE r == [q EXCEPT !.start = x]
  <2>1. x \in RequestState
    BY <1>1 DEF Row, RequestState
  <2>2. r \in Row
    BY <1>1, <2>1, Zenon DEF Row
  <2>3. /\ r.key = q.key /\ r.ops = q.ops /\ r.lease = q.lease
        /\ r.state = q.state /\ r.start = x /\ r.stop = q.stop
    BY <1>1 DEF Row
  <2>4. Writes(a, r)
    BY <1>1, <1>2 DEF Writes, claimStoppedApplyUnderTargetLock, Row, AIds
  <2> HIDE DEF r
  <2>5. Rest(q, r)
    BY <1>1, <2>2, <2>3, RestOfSame
  <2> QED
    BY <1>2, <2>2, <2>3, <2>4, <2>5 DEF claimStoppedApplyUnderTargetLock
<1>3. CASE drv[v].clear /\ q.state = "stopped"
  <2> DEFINE r == [q EXCEPT !.state = "resuming", !.lease = v, !.stale = FALSE]
  <2>1. r \in Row
    <3>1. "resuming" \in ApplyState
      BY DEF ApplyState
    <3> QED
      BY <1>1, <3>1, Zenon DEF Row, Lease
  <2>2. /\ r.key = q.key /\ r.ops = q.ops /\ r.lease = v
        /\ r.state = "resuming" /\ r.start = q.start /\ r.stop = q.stop
    BY <1>1 DEF Row
  <2>3. Writes(a, r)
    BY <1>1, <1>3 DEF Writes, claimStoppedApplyUnderTargetLock, Row, AIds
  <2> HIDE DEF r
  <2> QED
    BY <1>3, <2>1, <2>2, <2>3
    DEF claimStoppedApplyUnderTargetLock, SameApply, SameTasks, Steps
<1>4. CASE drv[v].clear /\ q.state # "stopped"
  BY <1>4 DEF claimStoppedApplyUnderTargetLock
<1> QED
  BY <1>2, <1>3, <1>4

LEMMA MirrorWrites ==
  ASSUME Types, Shapes, NEW v \in Drivers,
         reconcileClaimedOperationFromTerminalParent(v)
  PROVE  LET a == drv[v].a IN
         \/ UNCHANGED rows /\ Ends(v)
         \/ \E r \in Row :
              /\ Writes(a, r) /\ Rest(rows[a], r) /\ r.state = rows[a].state
              /\ r.start = rows[a].start /\ r.stop = rows[a].stop
              /\ drv' = [drv EXCEPT ![v].pc = "project", ![v].to = "idle"]
<1> DEFINE a == drv[v].a
           q == rows[a]
           i == drv[v].i
           o == [q.ops[i] EXCEPT !.state = drv[v].seen]
           r == [q EXCEPT !.ops = [q.ops EXCEPT ![i] = o]]
<1>1. /\ a \in AIds /\ q \in Row /\ i \in DOMAIN q.ops /\ q.ops[i] \in OpRow
      /\ drv[v].seen \in ApplyState
  BY RowOps
  DEF Shapes, Shaped, reconcileClaimedOperationFromTerminalParent, At, Types,
      AIds, IsTerminal, TerminalApplyState, ApplyState
<1>2. o \in OpRow /\ o.dep = q.ops[i].dep /\ o.task = q.ops[i].task
  <2>1. o \in OpRow
    BY <1>1, Zenon DEF OpRow
  <2> QED
    BY <1>1, <2>1 DEF OpRow
<1>3. [q.ops EXCEPT ![i] = o] \in Seq(OpRow)
  BY <1>1, <1>2, OpSeq
<1>4. r \in Row
  BY <1>1, <1>3, Zenon DEF Row
<1>5. /\ r.key = q.key /\ r.ops = [q.ops EXCEPT ![i] = o]
      /\ r.lease = q.lease /\ r.state = q.state /\ r.start = q.start
      /\ r.stop = q.stop
  BY <1>1 DEF Row
<1>6. HoldsOp(v) => Writes(a, r)
  BY <1>1
  DEF Writes, reconcileClaimedOperationFromTerminalParent, Row, AIds
<1> HIDE DEF r, o, i, q
<1>7. SameApply(q, r) /\ SameTasks(q, r)
  BY <1>1, <1>2, <1>4, <1>5, OpWritten
<1> QED
  BY <1>4, <1>5, <1>6, <1>7
  DEF Rest, reconcileClaimedOperationFromTerminalParent, q

LEMMA RefuseWrites ==
  ASSUME Types, Shapes, NEW v \in Drivers, RefuseStart(v)
  PROVE  LET a == drv[v].a IN
         \E r \in Row :
           /\ Writes(a, r) /\ Rest(rows[a], r) /\ r.state = "stopped"
           /\ r.start = rows[a].start \/ r.start = "failed"
           /\ r.stop = rows[a].stop
<1> DEFINE a == drv[v].a
           q == rows[a]
           x == IF q.start = "pending" THEN "failed" ELSE q.start
           r == [q EXCEPT !.state = "stopped", !.start = x]
<1>1. a \in AIds /\ q \in Row
  BY DEF Shapes, Shaped, RefuseStart, At, Types, AIds
<1>2. x \in RequestState /\ "stopped" \in ApplyState
  BY <1>1 DEF Row, RequestState, ApplyState
<1>3. r \in Row
  BY <1>1, <1>2, Zenon DEF Row
<1>4. /\ r.key = q.key /\ r.ops = q.ops /\ r.lease = q.lease
      /\ r.state = "stopped" /\ r.start = x /\ r.stop = q.stop
  BY <1>1 DEF Row
<1>5. Writes(a, r)
  BY <1>1 DEF Writes, RefuseStart, Row, AIds
<1> HIDE DEF r
<1> QED
  BY <1>1, <1>3, <1>4, <1>5, RestOfSame

LEMMA ResumeWrites ==
  ASSUME Types, Shapes, NEW v \in Drivers, Resume(v)
  PROVE  LET a == drv[v].a IN
         \/ UNCHANGED rows /\ Ends(v)
         \/ \E r \in Row :
              /\ Writes(a, r) /\ SameApply(rows[a], r)
              /\ r.state = "running" /\ r.lease = rows[a].lease
              /\ r.lease = v
              /\ r.start = rows[a].start \/ r.start = "completed"
              /\ r.stop = rows[a].stop
              /\ \A j \in 1..Len(rows[a].ops) :
                   r.ops[j].task \in {"running", rows[a].ops[j].task}
              /\ drv' = [drv EXCEPT ![v].pc = "drive"]
              /\ drv[v].clear
<1> DEFINE a == drv[v].a
           q == rows[a]
           x == IF q.start = "pending" THEN "completed" ELSE q.start
           o == [q.ops[1] EXCEPT !.task = "running"]
           r == [q EXCEPT !.state = "running",
                          !.ops = [q.ops EXCEPT ![1] = o], !.start = x]
<1>1. a \in AIds /\ q \in Row /\ drv[v].i \in DOMAIN q.ops
  BY DEF Shapes, Shaped, Resume, At, Types, AIds
<1>2. 1 \in DOMAIN q.ops /\ q.ops[1] \in OpRow
  BY <1>1, RowOps
<1>3. o \in OpRow /\ o.dep = q.ops[1].dep /\ o.task = "running"
  <2>1. o \in OpRow
    <3>1. "running" \in Task
      BY DEF Task, TaskState
    <3> QED
      BY <1>2, <3>1, Zenon DEF OpRow
  <2> QED
    BY <1>2, <2>1 DEF OpRow
<1>4. [q.ops EXCEPT ![1] = o] \in Seq(OpRow)
  BY <1>1, <1>2, <1>3, OpSeq
<1>5. x \in RequestState /\ "running" \in ApplyState
  BY <1>1 DEF Row, RequestState, ApplyState
<1>6. r \in Row
  BY <1>1, <1>4, <1>5, Zenon DEF Row
<1>7. /\ r.key = q.key /\ r.ops = [q.ops EXCEPT ![1] = o]
      /\ r.lease = q.lease /\ r.state = "running" /\ r.start = x
      /\ r.stop = q.stop
  BY <1>1 DEF Row
<1>8. drv[v].clear /\ HoldsApply(v) => Writes(a, r)
  BY <1>1, <1>2 DEF Writes, Resume, Row, AIds
<1> HIDE DEF r, o, q
<1>9. /\ SameApply(q, r) /\ r.ops[1] = o
      /\ \A j \in 1..Len(q.ops) : j # 1 => r.ops[j] = q.ops[j]
  BY <1>1, <1>2, <1>3, <1>6, <1>7, OpWritten
<1>10. \A j \in 1..Len(q.ops) : r.ops[j].task \in {"running", q.ops[j].task}
  BY <1>3, <1>9
<1> QED
  BY <1>6, <1>7, <1>8, <1>9, <1>10 DEF Resume, HoldsApply, Steps, q

LEMMA NoBackward ==
  ASSUME NEW s \in Task, NEW t
  PROVE  taskStateWithNoBackwardProgress(s, t) \in {s, t}
BY DEF taskStateWithNoBackwardProgress

\* What a drive may bring its task to.
Result == {"stopped", "completed", "failed", "waiting_for_cutover",
           "failed_retryable"}

LEMMA DriveWrites ==
  ASSUME Types, Shapes, NEW v \in Drivers, At(v, "drive"),
         NEW s \in Result, DriveTo(v, s)
  PROVE  LET a == drv[v].a IN
         \E t \in Task, r \in Row :
           /\ t = taskStateWithNoBackwardProgress(rows[a].ops[drv[v].i].task, s)
           /\ Writes(a, r) /\ SameApply(rows[a], r)
           /\ r.state = rows[a].state /\ r.lease = rows[a].lease
           /\ r.start = rows[a].start /\ r.stop = rows[a].stop
           /\ r.ops[drv[v].i].task = t
           /\ \A j \in 1..Len(rows[a].ops) :
                j # drv[v].i => r.ops[j].task = rows[a].ops[j].task
           /\ drv' = [drv EXCEPT ![v].pc = IF Multi(a) THEN "mark" ELSE "write",
                                 ![v].to = t, ![v].seen = rows[a].state]
           /\ ~Multi(a) => HoldsApply(v)
<1> DEFINE a == drv[v].a
           q == rows[a]
           i == drv[v].i
           t == taskStateWithNoBackwardProgress(q.ops[i].task, s)
           o == [q.ops[i] EXCEPT !.task = t]
           r == [q EXCEPT !.ops = [q.ops EXCEPT ![i] = o]]
<1>1. a \in AIds /\ q \in Row /\ i \in DOMAIN q.ops /\ q.ops[i] \in OpRow
  BY RowOps DEF Shapes, Shaped, At, Types, AIds
<1>2. t \in Task
  BY <1>1, NoBackward DEF OpRow, Task, TaskState, Result
<1>3. Writes(a, r)
  BY <1>1 DEF Writes, DriveTo, Op, Row, AIds
<1>4. drv' = [drv EXCEPT ![v].pc = IF Multi(a) THEN "mark" ELSE "write",
                         ![v].to = t, ![v].seen = q.state]
  BY DEF DriveTo, Op
<1> HIDE DEF t
<1>5. o \in OpRow /\ o.dep = q.ops[i].dep /\ o.task = t
  <2>1. o \in OpRow
    BY <1>1, <1>2, Zenon DEF OpRow
  <2> QED
    BY <1>1, <2>1 DEF OpRow
<1>6. [q.ops EXCEPT ![i] = o] \in Seq(OpRow)
  BY <1>1, <1>5, OpSeq
<1>7. r \in Row
  BY <1>1, <1>6, Zenon DEF Row
<1>8. /\ r.key = q.key /\ r.ops = [q.ops EXCEPT ![i] = o]
      /\ r.lease = q.lease /\ r.state = q.state /\ r.start = q.start
      /\ r.stop = q.stop
  BY <1>1 DEF Row
<1> HIDE DEF r, o, q, i
<1>9. /\ SameApply(q, r) /\ r.ops[i] = o
      /\ \A j \in 1..Len(q.ops) : j # i => r.ops[j] = q.ops[j]
  BY <1>1, <1>5, <1>7, <1>8, OpWritten
<1>10. ~Multi(a) => HoldsApply(v)
  BY DEF DriveTo
<1>11. \A j \in 1..Len(q.ops) : j # i => r.ops[j].task = q.ops[j].task
  BY <1>9
<1>12. t = taskStateWithNoBackwardProgress(q.ops[i].task, s)
  BY DEF t
<1> QED
  BY <1>2, <1>3, <1>4, <1>5, <1>7, <1>8, <1>9, <1>10, <1>11, <1>12 DEF q, i

LEMMA UpdateWrites ==
  ASSUME Types, Shapes, NEW v \in Drivers, UpdateApply(v)
  PROVE  LET a == drv[v].a
             q == rows[a]
             s == drv[v].to
             ended == IsTerminal(drv[v].seen)
         IN
         \/ UNCHANGED rows /\ Ends(v)
         \/ \E r \in Row :
              /\ Writes(a, r) /\ Rest(q, r)
              /\ r.state = IF ended THEN q.state ELSE s
              /\ r.start = q.start
              /\ r.stop = IF q.stop = "pending" /\ (ended \/ IsTerminal(s))
                          THEN "completed" ELSE q.stop
              /\ q.lease = v /\ (ended \/ IsTerminal(s) \/ drv[v].clear)
              /\ Steps(v, IF s = "waiting_for_cutover" THEN "drive" ELSE "mark")
<1> DEFINE a == drv[v].a
           q == rows[a]
           s == drv[v].to
           ended == IsTerminal(drv[v].seen)
           z == IF ended THEN q.state ELSE s
           x == IF q.stop = "pending" /\ (ended \/ IsTerminal(s))
                THEN "completed" ELSE q.stop
           y == IF q.cutover = "pending" /\ IsTerminal(s)
                THEN (IF s = "completed" THEN s ELSE "failed") ELSE q.cutover
           r == [q EXCEPT !.state = z, !.stop = x, !.cutover = y]
<1>1. a \in AIds /\ q \in Row /\ s \in Task
  BY DEF Shapes, Shaped, UpdateApply, At, Types, AIds, WritePC
<1>2. z \in ApplyState /\ x \in RequestState /\ y \in RequestState
  BY <1>1 DEF Row, RequestState, Task, TaskState, ApplyState
<1>3. r \in Row
  BY <1>1, <1>2, Zenon DEF Row
<1>4. /\ r.key = q.key /\ r.ops = q.ops /\ r.lease = q.lease
      /\ r.state = z /\ r.start = q.start /\ r.stop = x
  BY <1>1 DEF Row
<1>5. CASE ~HoldsApply(v) \/ ~(ended \/ IsTerminal(s) \/ drv[v].clear)
  BY <1>5 DEF UpdateApply
<1>6. CASE ~(~HoldsApply(v) \/ ~(ended \/ IsTerminal(s) \/ drv[v].clear))
  <2>1. Writes(a, r)
    BY <1>1, <1>6 DEF Writes, UpdateApply, Row, AIds
  <2>2. Steps(v, IF s = "waiting_for_cutover" THEN "drive" ELSE "mark")
    BY <1>6 DEF UpdateApply
  <2> HIDE DEF r
  <2>3. Rest(q, r)
    BY <1>1, <1>3, <1>4, RestOfSame
  <2> QED
    BY <1>3, <1>4, <1>6, <2>1, <2>2, <2>3 DEF HoldsApply
<1> QED
  BY <1>5, <1>6

LEMMA MarkWrites ==
  ASSUME Types, Shapes, NEW v \in Drivers, markOperationFromOwnResult(v)
  PROVE  LET a == drv[v].a IN
         \/ UNCHANGED rows /\ Ends(v)
         \/ \E r \in Row :
              /\ Writes(a, r) /\ Rest(rows[a], r) /\ r.state = rows[a].state
              /\ r.start = rows[a].start /\ r.stop = rows[a].stop
              /\ Steps(v, "list")
<1> DEFINE a == drv[v].a
           q == rows[a]
           s == DeriveApplyState({Op(v).task})
           o(j) == IF j = drv[v].i THEN [q.ops[j] EXCEPT !.state = s]
                   ELSE IF q.stop = "pending" /\ q.ops[j].state = "pending"
                   THEN [q.ops[j] EXCEPT !.state = "stopped"] ELSE q.ops[j]
           f == [j \in DOMAIN q.ops |-> o(j)]
           r == [q EXCEPT !.ops = f]
<1>1. a \in AIds /\ q \in Row
  BY DEF Shapes, Shaped, markOperationFromOwnResult, At, Types, AIds
<1>2. CASE ~(HoldsOp(v) /\ s \in Persisted)
  BY <1>2 DEF markOperationFromOwnResult
<1>3. CASE HoldsOp(v) /\ s \in Persisted
  <2>1. s \in ApplyState /\ "stopped" \in ApplyState
    BY <1>3 DEF Persisted, ApplyState, TerminalApplyState
  <2>2. Writes(a, r) /\ Steps(v, "list")
    BY <1>1, <1>3 DEF Writes, markOperationFromOwnResult, Row, AIds
  <2> HIDE DEF s
  <2>3. ASSUME NEW j \in DOMAIN q.ops
        PROVE  /\ o(j) \in OpRow /\ o(j).dep = q.ops[j].dep
               /\ o(j).task = q.ops[j].task
    <3>1. q.ops[j] \in OpRow
      BY <1>1, RowOps
    <3>2. o(j) \in OpRow
      <4>1. [q.ops[j] EXCEPT !.state = s] \in OpRow
        BY <2>1, <3>1, Zenon DEF OpRow
      <4>2. [q.ops[j] EXCEPT !.state = "stopped"] \in OpRow
        BY <2>1, <3>1, Zenon DEF OpRow
      <4> QED
        BY <3>1, <4>1, <4>2
    <3> QED
      BY <3>1, <3>2 DEF OpRow
  <2> HIDE DEF o
  <2>4. f \in [1..Len(q.ops) -> OpRow] /\ Len(q.ops) \in Nat
    BY <1>1, <2>3, RowOps
  <2>5. f \in Seq(OpRow) /\ Len(f) = Len(q.ops)
    BY <2>4
  <2> HIDE DEF f
  <2>6. r \in Row
    BY <1>1, <2>5, Zenon DEF Row
  <2>7. /\ r.key = q.key /\ r.ops = f /\ r.lease = q.lease
        /\ r.state = q.state /\ r.start = q.start /\ r.stop = q.stop
    BY <1>1 DEF Row
  <2> HIDE DEF r
  <2>8. SameApply(q, r) /\ SameTasks(q, r)
    BY <1>1, <2>3, <2>5, <2>7, RowOps DEF SameApply, SameTasks, f
  <2> QED
    BY <2>2, <2>6, <2>7, <2>8 DEF Rest
<1> QED
  BY <1>2, <1>3

LEMMA DeriveTyped == \A raw : DeriveApplyState(raw) \in ApplyState
BY DEF DeriveApplyState, ApplyState

LEMMA RolloutTyped == \A rs : DeriveRolloutApplyState(rs) \in ApplyState
BY DeriveTyped DEF DeriveRolloutApplyState, ApplyState

LEMMA DerivedTyped == \A a : Derived(a) \in ApplyState
BY RolloutTyped DEF Derived

LEMMA ProjectWrites ==
  ASSUME Types, Shapes, NEW v \in Drivers, updateApplyStateFromOperations(v)
  PROVE  LET a == drv[v].a
             s == drv[v].seen
             d == Derived(a)
         IN
         /\ IF drv[v].to = "idle" THEN Ends(v) ELSE Steps(v, drv[v].to)
         /\ \/ UNCHANGED rows
            \/ \E r \in Row :
                 /\ Writes(a, r) /\ Rest(rows[a], r) /\ r.state = d
                 /\ r.start = rows[a].start /\ r.stop = rows[a].stop
                 /\ rows[a].state = s
                 /\ \/ ~IsTerminal(s) \/ IsTerminal(d)
                    \/ s = "failed" /\ d = "running_degraded"
                 /\ ~Multi(a) => rows[a].lease = v
<1> DEFINE a == drv[v].a
           q == rows[a]
           s == drv[v].seen
           d == Derived(a)
           reopens == /\ s = "failed" /\ d = "running_degraded"
                      /\ drv[v].to # "idle"
           guard == /\ q.state = s
                    /\ ~IsTerminal(s) \/ IsTerminal(d) \/ reopens
                    /\ IF Multi(a) THEN HoldsOp(v) ELSE HoldsApply(v)
<1>1. a \in AIds /\ q \in Row
  BY DEF Shapes, Shaped, updateApplyStateFromOperations, At, Types, AIds
<1>2. d \in ApplyState
  BY DerivedTyped
<1>3. IF drv[v].to = "idle" THEN Ends(v) ELSE Steps(v, drv[v].to)
  BY DEF updateApplyStateFromOperations
<1>4. CASE ~guard
  BY <1>3, <1>4 DEF updateApplyStateFromOperations
<1>5. CASE guard
  <2>1. Set(a, "state", d)
    BY <1>5 DEF updateApplyStateFromOperations, Set
  <2>2. PICK r \in Row : /\ Writes(a, r) /\ Rest(q, r)
                         /\ r.state = d /\ r.start = q.start
                         /\ r.stop = q.stop
    BY <1>1, <1>2, <2>1, SetState DEF Types
  <2>3. ~Multi(a) => q.lease = v
    BY <1>5 DEF HoldsApply
  <2> QED
    BY <1>3, <1>5, <2>2, <2>3
<1> QED
  BY <1>4, <1>5

LEMMA SettleWrites ==
  ASSUME Types, Shapes, NEW v \in Drivers, completePendingStopIfApplyResolved(v)
  PROVE  LET a == drv[v].a IN
         \/ UNCHANGED rows
         \/ \E r \in Row :
              /\ Writes(a, r) /\ Rest(rows[a], r) /\ r.state = rows[a].state
              /\ r.start = rows[a].start /\ r.stop = "completed"
              /\ IsTerminal(rows[a].state)
<1> DEFINE a == drv[v].a
<1>1. a \in AIds
  BY DEF Shapes, Shaped, completePendingStopIfApplyResolved, At
<1>2. ASSUME rows' # rows
      PROVE  IsTerminal(rows[a].state) /\ Set(a, "stop", "completed")
  BY <1>2 DEF completePendingStopIfApplyResolved, Set
<1>3. "completed" \in RequestState
  BY DEF RequestState
<1> QED
  BY <1>1, <1>2, <1>3, SetStop DEF Types

LEMMA ExpireWrites ==
  ASSUME Types, NEW v \in Drivers, NEW a \in AIds, ExpireRetryable(v, a)
  PROVE  \E r \in Row :
           /\ Writes(a, r) /\ SameApply(rows[a], r)
           /\ rows[a].state = "failed_retryable" /\ r.state = "failed"
           /\ r.lease = rows[a].lease
           /\ r.start = rows[a].start /\ r.stop = rows[a].stop
           /\ \A j \in 1..Len(rows[a].ops) :
                r.ops[j].task \in {"failed", rows[a].ops[j].task}
<1> DEFINE q == rows[a]
           o(j) == [q.ops[j] EXCEPT
                      !.task = IF q.ops[j].task \in TerminalTaskState
                               THEN q.ops[j].task ELSE "failed",
                      !.state = IF q.ops[j].state = "failed_retryable"
                                THEN "failed" ELSE q.ops[j].state]
           f == [j \in DOMAIN q.ops |-> o(j)]
           r == [q EXCEPT !.state = "failed", !.ops = f]
<1>1. q \in Row
  BY DEF Types, AIds
<1>2. Writes(a, r)
  <2> DEFINE m == [rows EXCEPT ![a].state = "failed"]
  <2>1. m[a] = [q EXCEPT !.state = "failed"] /\ m[a].ops = q.ops
    BY <1>1 DEF Row, AIds
  <2>2. rows' = [m EXCEPT ![a].ops = f]
    BY Zenon DEF ExpireRetryable, Expired
  <2> HIDE DEF f
  <2> QED
    BY <1>1, <2>1, <2>2 DEF Writes, Row, AIds
<1>3. ASSUME NEW j \in DOMAIN q.ops
      PROVE  /\ o(j) \in OpRow /\ o(j).dep = q.ops[j].dep
             /\ o(j).task \in {"failed", q.ops[j].task}
  <2> DEFINE t == IF q.ops[j].task \in TerminalTaskState
                  THEN q.ops[j].task ELSE "failed"
             s == IF q.ops[j].state = "failed_retryable"
                  THEN "failed" ELSE q.ops[j].state
  <2>1. q.ops[j] \in OpRow
    BY <1>1, RowOps
  <2>2. t \in Task /\ s \in ApplyState /\ t \in {"failed", q.ops[j].task}
    BY <2>1 DEF OpRow, Task, TaskState, ApplyState
  <2>3. o(j) = [q.ops[j] EXCEPT !.task = t, !.state = s]
    OBVIOUS
  <2> HIDE DEF t, s, o
  <2>4. [q.ops[j] EXCEPT !.task = t, !.state = s] \in OpRow
    BY <2>1, <2>2, Zenon DEF OpRow
  <2> QED
    BY <2>1, <2>2, <2>3, <2>4 DEF OpRow
<1> HIDE DEF o
<1>4. f \in [1..Len(q.ops) -> OpRow] /\ Len(q.ops) \in Nat
  BY <1>1, <1>3, RowOps
<1>5. f \in Seq(OpRow) /\ Len(f) = Len(q.ops)
  BY <1>4
<1> HIDE DEF f
<1>6. r \in Row
  <2>1. "failed" \in ApplyState
    BY DEF ApplyState
  <2> QED
    BY <1>1, <1>5, <2>1, Zenon DEF Row
<1>7. /\ r.key = q.key /\ r.ops = f /\ r.lease = q.lease
      /\ r.state = "failed" /\ r.start = q.start /\ r.stop = q.stop
  BY <1>1 DEF Row
<1> HIDE DEF r
<1>8. /\ SameApply(q, r)
      /\ \A j \in 1..Len(q.ops) : r.ops[j].task \in {"failed", q.ops[j].task}
  BY <1>1, <1>3, <1>5, <1>7, RowOps DEF SameApply, f
<1> QED
  BY <1>2, <1>6, <1>7, <1>8 DEF ExpireRetryable

LEMMA HeartbeatWrites ==
  ASSUME Types, NEW a \in AIds, NEW i \in DOMAIN rows[a].ops,
         HeartbeatExpires(a, i)
  PROVE  \E r \in Row : /\ Writes(a, r) /\ Rest(rows[a], r)
                        /\ r.state = rows[a].state /\ r.start = rows[a].start
                        /\ r.stop = rows[a].stop
<1> DEFINE q == rows[a]
           x == IF Multi(a) THEN q.stale ELSE TRUE
           o == [q.ops[i] EXCEPT !.stale = TRUE]
           r == [q EXCEPT !.ops = [q.ops EXCEPT ![i] = o], !.stale = x]
<1>1. q \in Row /\ q.ops[i] \in OpRow
  BY RowOps DEF AIds, Types
<1>2. o \in OpRow /\ o.dep = q.ops[i].dep /\ o.task = q.ops[i].task
  <2>1. o \in OpRow
    BY <1>1, Zenon DEF OpRow
  <2> QED
    BY <1>1, <2>1 DEF OpRow
<1>3. [q.ops EXCEPT ![i] = o] \in Seq(OpRow)
  BY <1>1, <1>2, OpSeq
<1>4. x \in BOOLEAN
  BY <1>1 DEF Row
<1>5. Writes(a, r)
  BY <1>1 DEF Writes, HeartbeatExpires, Row, AIds
<1> HIDE DEF x
<1>6. r \in Row
  BY <1>1, <1>3, <1>4, Zenon DEF Row
<1>7. /\ r.key = q.key /\ r.ops = [q.ops EXCEPT ![i] = o]
      /\ r.lease = q.lease /\ r.state = q.state /\ r.start = q.start
      /\ r.stop = q.stop
  BY <1>1 DEF Row
<1> HIDE DEF r, o
<1>8. SameApply(q, r) /\ SameTasks(q, r)
  BY <1>1, <1>2, <1>6, <1>7, OpWritten
<1> QED
  BY <1>5, <1>6, <1>7, <1>8 DEF Rest

LEMMA ResolvedWrites ==
  ASSUME Types, Shapes, NEW c \in Calls, completeResolvedStopBeforeStart(c)
  PROVE  LET a == call[c].a IN
         \/ UNCHANGED rows
         \/ \E r \in Row :
              /\ Writes(a, r) /\ Rest(rows[a], r) /\ r.state = rows[a].state
              /\ r.start = rows[a].start /\ r.stop = "completed"
              /\ IsTerminal(call[c].seen)
         \/ \E r \in Row :
              /\ Writes(a, r) /\ Rest(rows[a], r) /\ r.state = "stopped"
              /\ r.start = rows[a].start /\ r.stop = "completed"
              /\ ~Multi(a) /\ rows[a].ops[1].task = "stopped"
<1> DEFINE a == call[c].a
           q == rows[a]
           r == [q EXCEPT !.state = "stopped", !.stop = "completed"]
           early == /\ isStartRequestAllowedState(call[c].seen)
                    /\ q.stop = "pending" /\ IsTerminal(call[c].seen)
           late == /\ isStartRequestAllowedState(call[c].seen)
                   /\ q.stop = "pending" /\ ~IsTerminal(call[c].seen)
                   /\ script.remote /\ ~Multi(a) /\ q.ops[1].task = "stopped"
<1>1. a \in AIds /\ q \in Row
  BY DEF Shapes, CallShape, ControlPC, completeResolvedStopBeforeStart, Types,
         AIds
<1>2. "completed" \in RequestState /\ "stopped" \in ApplyState
  BY DEF RequestState, ApplyState
<1>3. CASE early
  <2>1. Set(a, "stop", "completed")
    BY <1>3 DEF completeResolvedStopBeforeStart
  <2> QED
    BY <1>1, <1>2, <1>3, <2>1, SetStop DEF Types
<1>4. CASE late
  <2>1. Writes(a, r)
    BY <1>1, <1>4 DEF completeResolvedStopBeforeStart, Writes, Row, AIds
  <2>2. r \in Row
    BY <1>1, <1>2, Zenon DEF Row
  <2>3. /\ r.key = q.key /\ r.ops = q.ops /\ r.lease = q.lease
        /\ r.state = "stopped" /\ r.start = q.start /\ r.stop = "completed"
    BY <1>1 DEF Row
  <2> HIDE DEF r
  <2>4. Rest(q, r)
    BY <1>1, <2>2, <2>3, RestOfSame
  <2> QED
    BY <1>4, <2>1, <2>2, <2>3, <2>4
<1>5. CASE ~early /\ ~late
  BY <1>5 DEF completeResolvedStopBeforeStart
<1> QED
  BY <1>3, <1>4, <1>5

LEMMA NewRowTyped ==
  ASSUME Types, NEW c \in Calls
  PROVE  /\ NewRow(c) \in Row /\ NewRow(c).key = Ask(c).key
         /\ NewRow(c).state = "pending" /\ NewRow(c).stop = "none"
         /\ NewRow(c).start = "none"
         /\ {NewRow(c).ops[i].dep : i \in DOMAIN NewRow(c).ops} = Targets(c)
         /\ \A i \in DOMAIN NewRow(c).ops : NewRow(c).ops[i].task = "pending"
<1> DEFINE want == Ask(c).want
           f == [i \in DOMAIN want |->
                  [dep |-> want[i], state |-> "pending", task |-> "pending",
                   lease |-> "none", stale |-> FALSE]]
<1>1. want \in Seq({want[i] : i \in DOMAIN want})
  BY AdmissionConstants DEF Types, Calls, Ask
<1>2. Ask(c) \in Asks
  BY DEF Types, Calls, Ask, Asks
<1>3. \A i \in DOMAIN want : want[i] \in Dep
  BY <1>2 DEF Dep
<1>4. Ask(c).key \in Key
  BY <1>2 DEF Key
<1>5. \A i \in DOMAIN want : f[i] \in OpRow
  BY <1>3 DEF OpRow, ApplyState, Task, TaskState, Lease
<1>6. DOMAIN want = 1..Len(want) /\ Len(want) \in Nat
  BY <1>1
<1>7. f \in [1..Len(want) -> OpRow]
  BY <1>5, <1>6
<1>8. f \in Seq(OpRow)
  BY <1>6, <1>7
<1>9. NewRow(c).ops = f
  BY DEF NewRow
<1>10. \A i \in DOMAIN f : f[i].dep = want[i] /\ f[i].task = "pending"
  OBVIOUS
<1>11. DOMAIN f = DOMAIN want
  OBVIOUS
<1> HIDE DEF f
<1>12. NewRow(c) \in Row
  <2>1. NewRow(c) = [state |-> "pending", key |-> Ask(c).key, attempt |-> 0,
                     lease |-> "none", stale |-> FALSE,
                     stop |-> "none", start |-> "none", cutover |-> "none",
                     ops |-> f]
    BY DEF NewRow, f
  <2> QED
    BY <1>4, <1>8, <2>1 DEF Row, RequestState, Lease, ApplyState
<1> QED
  BY <1>9, <1>10, <1>11, <1>12 DEF NewRow, Targets

----------------------------------------------------------------------------
\* How a step moves a call or a driver.

\* Call c moves to step p with answer n; what it has read is kept.
CallTo(c, p, n) ==
  /\ call' \in [Calls -> CallRec]
  /\ call'[c].pc = p /\ call'[c].answer = n /\ call'[c].a = call[c].a
  /\ \A b \in Calls : b # c => call'[b] = call[b]

LEMMA GoesTo ==
  ASSUME Types, NEW c \in Calls, NEW p \in CallPC, Goes(c, p)
  PROVE  CallTo(c, p, call[c].answer) /\ call'[c].seen = call[c].seen
<1> DEFINE k == [call[c] EXCEPT !.pc = p]
<1>1. call[c] \in CallRec
  BY DEF Types
<1>2. k \in CallRec
  BY <1>1, Zenon DEF CallRec
<1>3. /\ k.pc = p /\ k.answer = call[c].answer /\ k.a = call[c].a
      /\ k.seen = call[c].seen
  BY <1>1 DEF CallRec
<1>4. call' = [call EXCEPT ![c] = k]
  BY DEF Goes
<1> HIDE DEF k
<1> QED
  BY <1>2, <1>3, <1>4 DEF Types, CallTo

LEMMA AnsweredTo ==
  ASSUME Types, NEW c \in Calls, NEW n \in Nat, Answered(c, n)
  PROVE  CallTo(c, "done", n)
<1> DEFINE k == [call[c] EXCEPT !.pc = "done", !.answer = n]
<1>1. call[c] \in CallRec
  BY DEF Types
<1>2. k \in CallRec
  <2>1. "done" \in CallPC
    BY DEF CallPC
  <2> QED
    BY <1>1, <2>1, Zenon DEF CallRec
<1>3. k.pc = "done" /\ k.answer = n /\ k.a = call[c].a
  BY <1>1 DEF CallRec
<1>4. call' = [call EXCEPT ![c] = k]
  BY <1>1 DEF Answered, Types, CallRec
<1> HIDE DEF k
<1> QED
  BY <1>2, <1>3, <1>4 DEF Types, CallTo

\* Driver v moves to record d.
DrvTo(v, d) ==
  /\ d \in DrvRec /\ drv' \in [Drivers -> DrvRec] /\ drv'[v] = d
  /\ \A u \in Drivers : u # v => drv'[u] = drv[u]

To == Task \cup {"none", "idle", "drive", "settle"}

LEMMA MovesTo ==
  ASSUME Types, NEW v \in Drivers, NEW d \in DrvRec,
         drv' = [drv EXCEPT ![v] = d]
  PROVE  DrvTo(v, d)
BY DEF Types, DrvTo

LEMMA EndsTo ==
  ASSUME Types, NEW v \in Drivers, Ends(v)
  PROVE  DrvTo(v, Idle) /\ Idle.pc = "idle"
<1>1. Idle \in DrvRec
  BY DEF Idle, DrvRec, DrvPC, State
<1> QED
  BY <1>1, MovesTo DEF Ends, Idle

LEMMA StepsTo ==
  ASSUME Types, NEW v \in Drivers, NEW p \in DrvPC, Steps(v, p)
  PROVE  \E d \in DrvRec :
           /\ DrvTo(v, d) /\ d.pc = p /\ d.a = drv[v].a /\ d.i = drv[v].i
           /\ d.seen = drv[v].seen /\ d.to = drv[v].to
<1> DEFINE d == [drv[v] EXCEPT !.pc = p]
<1>1. drv[v] \in DrvRec
  BY DEF Types
<1>2. d \in DrvRec
  BY <1>1, Zenon DEF DrvRec
<1>3. /\ d.pc = p /\ d.a = drv[v].a /\ d.i = drv[v].i
      /\ d.seen = drv[v].seen /\ d.to = drv[v].to
  BY <1>1 DEF DrvRec
<1>4. drv' = [drv EXCEPT ![v] = d]
  BY DEF Steps
<1> HIDE DEF d
<1> QED
  BY <1>2, <1>3, <1>4, MovesTo

Sees(v, p, t, s) ==
  drv' = [drv EXCEPT ![v] = [drv[v] EXCEPT !.pc = p, !.to = t, !.seen = s]]

LEMMA SeesTo ==
  ASSUME Types, NEW v \in Drivers, NEW p \in DrvPC, NEW s \in State,
         NEW t \in To, Sees(v, p, t, s)
  PROVE  \E d \in DrvRec :
           /\ DrvTo(v, d) /\ d.pc = p /\ d.a = drv[v].a /\ d.i = drv[v].i
           /\ d.seen = s /\ d.to = t
<1> DEFINE d == [drv[v] EXCEPT !.pc = p, !.to = t, !.seen = s]
<1>1. drv[v] \in DrvRec
  BY DEF Types
<1>2. d \in DrvRec
  BY <1>1, Zenon DEF DrvRec, To
<1>3. /\ d.pc = p /\ d.a = drv[v].a /\ d.i = drv[v].i
      /\ d.seen = s /\ d.to = t
  BY <1>1 DEF DrvRec
<1>4. drv' = [drv EXCEPT ![v] = d]
  BY DEF Sees
<1> HIDE DEF d
<1> QED
  BY <1>2, <1>3, <1>4, MovesTo

LEMMA LocksTo ==
  ASSUME Types, NEW v \in Drivers, NEW p \in LockedPC, NEW a,
         DriverLocks(v, p, a)
  PROVE  \E d \in DrvRec :
           /\ DrvTo(v, d) /\ d.pc = p /\ d.a = drv[v].a /\ d.i = drv[v].i
           /\ d.seen = drv[v].seen /\ d.to = drv[v].to
           /\ d.clear <=> checkNoActiveApplyForTargets(Wants(a), a)
<1> DEFINE x == checkNoActiveApplyForTargets(Wants(a), a)
           d == [drv[v] EXCEPT !.pc = p, !.clear = x]
<1>1. drv[v] \in DrvRec /\ p \in DrvPC
  BY DEF Types, DrvPC, SinglePC
<1>2. x \in BOOLEAN
  BY DEF checkNoActiveApplyForTargets
<1>3. drv' = [drv EXCEPT ![v].pc = p, ![v].clear = x]
  BY DEF DriverLocks
<1> HIDE DEF x
<1>4. d \in DrvRec
  BY <1>1, <1>2, Zenon DEF DrvRec
<1>5. /\ d.pc = p /\ d.a = drv[v].a /\ d.i = drv[v].i
      /\ d.seen = drv[v].seen /\ d.to = drv[v].to /\ d.clear = x
  BY <1>1 DEF DrvRec
<1>6. drv' = [drv EXCEPT ![v] = d]
  BY <1>1, <1>3 DEF DrvRec, Types
<1> HIDE DEF d
<1>7. DrvTo(v, d)
  BY <1>4, <1>6, MovesTo
<1> QED
  BY <1>4, <1>5, <1>7 DEF x
============================================================================
