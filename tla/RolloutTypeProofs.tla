------------------------- MODULE RolloutTypeProofs -------------------------
(***************************************************************************)
(* Type correctness of the rollout, for any operations, drivers, policies, *)
(* retry budget and number of faults.                                      *)
(*                                                                         *)
(* TypeOK is not inductive. A driver calls its remote with the id it       *)
(* holds, so one must know at which steps a driver has an operation and a  *)
(* remote id (Shape), that its id is the row's and known to the remote     *)
(* (Joined, RemoteKnown), and that an operation's attempt never exceeds    *)
(* the parent's, which the claim bounds (RetriesCounted).                  *)
(***************************************************************************)
EXTENDS Rollout, TLAPS

----------------------------------------------------------------------------
\* Facts about the operators of ApplyStates.

LEMMA DeriveType == \A raw : DeriveApplyState(raw) \in ApplyState
BY DEF DeriveApplyState, ApplyState

LEMMA DerivedType == Derived \in ApplyState
BY DeriveType DEF Derived, DeriveRolloutApplyState, ApplyState

LEMMA ProgressType ==
  \A s, r : applyStateFromRemoteProgress(s, r) \in {s, r}
BY DEF applyStateFromRemoteProgress

LEMMA TaskProgressType ==
  \A s, r : taskStateWithNoBackwardProgress(s, r) \in {s, r}
BY DEF taskStateWithNoBackwardProgress

LEMMA SyncedType == \A s, r : SyncedTask(s, r) \in {s, r}
BY TaskProgressType DEF SyncedTask

LEMMA StateSets ==
  /\ RemoteState \ {"none"} \subseteq ApplyState
  /\ RemoteState \ {"none"} \subseteq TaskState
  /\ TerminalApplyState \subseteq ApplyState
  /\ StoppedState \in ApplyState /\ StoppedState \in TaskState
  /\ StoppedState \in RemoteState
BY PolicyAssumption
   DEF RemoteState, ApplyState, TaskState, TerminalApplyState

----------------------------------------------------------------------------
\* The inductive invariant behind TypeOK. A report of a remote apply is typed
\* only because a driver is never attached to a remote apply that does not
\* exist, and an attempt stays in its range only because no operation has
\* retried more often than its apply.

\* The steps that a check for a stop may lead to.
NextSteps == {"prepare", "dispatch", "start", "progress", "preflight",
              "cutover", "fail"}
CheckPC == {"check", "sendStop", "stopProgress", "stopOperation"}

\* What a driver's step tells about the rest of its record.
Shape(r) ==
  /\ r.pc = "idle" => r.op = 0 /\ ~r.lease
  /\ r.pc \in DrivePC \cup {"load", "mirror", "mark", "siblings"}
       => r.op \in Ops
  /\ r.pc \in WholePC => r.op = 0
  /\ r.pc = "mirror" => IsTerminal(r.snap)
  /\ r.pc \in {"list", "cas"} => r.then \in {"drive", "mirrored", "finish"}
  /\ r.pc \in {"list", "cas"} /\ r.then \in {"drive", "mirrored"}
       => r.op \in Ops
  /\ r.pc = "cas" => r.rep \in ApplyState
  /\ r.pc = "fail" => r.rep \in {"failed", "failed_retryable"}
  /\ r.pc \in CheckPC => r.then \in NextSteps
  /\ r.pc \in CheckPC /\ r.then = "fail"
       => r.rep = "failed" /\ r.rid = NoRemote
  /\ r.pc \in {"start", "preflight", "cutover", "sendStop", "stopProgress"}
       => r.rid # NoRemote
  /\ r.pc \in CheckPC /\ r.then \in {"start", "preflight", "cutover"}
       => r.rid # NoRemote
  /\ r.pc \in {"preflight", "cutover"} => r.cut
  /\ r.pc \in CheckPC /\ r.then \in {"preflight", "cutover"} => r.cut
  /\ r.rid # NoRemote => r.pc \in DrivePC

\* A driver is attached to the remote apply of the row, and stores the id only
\* of a remote apply that exists.
Joined(r) ==
  /\ r.rid # NoRemote => opRemote[r.op] = r.rid
  /\ r.pc = "persist" => remote[r.op][r.att] # "none"

Good(r) == r \in Drive /\ Shape(r) /\ Joined(r)

RowsOK ==
  /\ applyState \in ApplyState /\ applyAttempt \in Attempts
  /\ applyAge \in {"fresh", "stale", "aged"}
  /\ opState \in [Ops -> ApplyState] /\ opFresh \in [Ops -> BOOLEAN]
  /\ opAttempt \in [Ops -> Attempts]
  /\ opRemote \in [Ops -> Attempts \cup {NoRemote}]
  /\ taskState \in [Ops -> TaskState]
  /\ stopReq \in {"none", "validated", "pending", "completed"}
  /\ remote \in [Ops -> [Attempts -> RemoteState]]
  /\ remoteStop \subseteq Ops \X Attempts
  /\ remoteCut \subseteq Ops \X Attempts
  /\ wholeRemote \in BOOLEAN
  /\ published \in Nat /\ faults \in 0..MaxFaults

RetriesCounted == \A o \in Ops : opAttempt[o] <= applyAttempt

RemoteKnown == \A o \in Ops : opRemote[o] # NoRemote
                                => remote[o][opRemote[o]] # "none"

DriversOK == /\ DOMAIN dr = Drivers /\ dr = [d \in Drivers |-> dr[d]]
             /\ \A d \in Drivers : Good(dr[d])

TypeInv == RowsOK /\ RetriesCounted /\ RemoteKnown /\ DriversOK

LEMMA TypeInvType == TypeInv => TypeOK
<1>1. ASSUME DriversOK PROVE dr \in [Drivers -> Drive]
  BY <1>1 DEF DriversOK, Good
<1> QED
  BY <1>1, Zenon DEF TypeInv, TypeOK, RowsOK

\* The steps of a driver, one by one.
LEMMA Steps ==
  /\ \A p \in DrivePC \cup SettlePC \cup WholePC : p \in PC
  /\ "idle" \in PC /\ "load" \in PC /\ "mirror" \in PC
  /\ "list" \in PC /\ "cas" \in PC /\ "mark" \in PC
BY DEF PC

LEMMA IdleGood == Good(Idle)
<1>1. Idle \in Drive
  BY BudgetAssumption DEF Idle, Drive, PC, Attempts, ApplyState, NoRemote
<1> QED
  BY <1>1 DEF Good, Joined, Idle, Shape, DrivePC, WholePC, CheckPC, NoRemote

LEMMA ToMarkGood ==
  ASSUME NEW d \in Drivers, dr[d] \in Drive, dr[d].op \in Ops
  PROVE  Good(ToMark(d))
<1>1. ToMark(d) \in Drive
  <2>1. Idle \in Drive
    BY IdleGood DEF Good
  <2> QED
    BY <2>1, Steps, Zenon DEF ToMark, Drive
<1>2. /\ ToMark(d).pc = "mark" /\ ToMark(d).op = dr[d].op
      /\ ToMark(d).rid = NoRemote
  BY DEF ToMark, Idle
<1> QED
  BY <1>1, <1>2 DEF Good, Joined, Shape, DrivePC, WholePC, CheckPC

LEMMA ToFailGood ==
  ASSUME NEW d \in Drivers, dr[d] \in Drive, dr[d].op \in Ops,
         NEW s \in {"failed", "failed_retryable"}
  PROVE  Good(ToFail(d, s))
<1>1. ToFail(d, s) \in Drive
  <2>1. ToMark(d) \in Drive
    BY ToMarkGood DEF Good
  <2>2. s \in ApplyState \cup {"none", "error"} /\ "fail" \in PC
    BY DEF ApplyState, PC, DrivePC
  <2> QED
    BY <2>1, <2>2, Zenon DEF ToFail, Drive
<1>2. /\ ToFail(d, s).pc = "fail" /\ ToFail(d, s).op = dr[d].op
      /\ ToFail(d, s).rid = NoRemote /\ ToFail(d, s).rep = s
  BY DEF ToFail, ToMark, Idle
<1> QED
  BY <1>1, <1>2 DEF Good, Joined, Shape, DrivePC, WholePC, CheckPC

\* No step forgets a remote id or a remote apply.
Kept == \A o \in Ops : /\ opRemote[o] # NoRemote => opRemote'[o] = opRemote[o]
                       /\ \A k \in Attempts : remote[o][k] # "none"
                                                => remote'[o][k] # "none"

LEMMA GoodKept ==
  ASSUME NEW r, Good(r), Kept
  PROVE  Good(r)'
<1>1. r.rid # NoRemote \/ r.pc = "persist" => r.op \in Ops
  BY DEF Good, Shape, DrivePC
<1>2. r.att \in Attempts
  BY DEF Good, Drive
<1> QED
  BY <1>1, <1>2 DEF Good, Joined, Kept

LEMMA GotoGood ==
  ASSUME DriversOK, Kept, NEW d \in Drivers, NEW r, Good(r)', Goto(d, r)
  PROVE  DriversOK'
<1>1. ASSUME NEW e \in Drivers
      PROVE  Good(dr[e])'
  <2>1. CASE e = d
    BY <2>1 DEF DriversOK, Goto, Good, Joined
  <2>2. CASE e # d
    <3> DEFINE s == dr[e]
    <3>1. dr'[e] = s /\ Good(s)
      BY <2>2 DEF DriversOK, Goto
    <3>2. /\ s \in Drive /\ Shape(s)
          /\ s.rid # NoRemote => opRemote'[s.op] = s.rid
          /\ s.pc = "persist" => remote'[s.op][s.att] # "none"
      <4> HIDE DEF s
      <4> QED BY <3>1, GoodKept DEF Good, Joined
    <3> QED BY <3>1, <3>2 DEF Good, Joined
  <2> QED BY <2>1, <2>2
<1> QED
  BY <1>1 DEF DriversOK, Goto

LEMMA LeaseGood ==
  ASSUME DriversOK, Kept, NEW d \in Drivers, NEW o, NEW r, Good(r)',
         Lease(d, o, r)
  PROVE  DriversOK'
<1>1. ASSUME NEW s, Good(s)
      PROVE  Good([s EXCEPT !.lease = FALSE])
  <2>1. [s EXCEPT !.lease = FALSE] \in Drive
    BY <1>1, Zenon DEF Good, Drive
  <2>2. Shape([s EXCEPT !.lease = FALSE])
    BY <1>1, SMT DEF Good, Drive, Shape
  <2> QED
    BY <1>1, <2>1, <2>2 DEF Good, Drive, Joined
<1>2. ASSUME NEW e \in Drivers
      PROVE  Good(dr[e])'
  <2>1. CASE e = d
    BY <2>1 DEF DriversOK, Lease, Good, Joined
  <2>2. CASE e # d
    <3> DEFINE s == IF dr[e].op = o THEN [dr[e] EXCEPT !.lease = FALSE]
                    ELSE dr[e]
    <3>1. dr'[e] = s /\ Good(s)
      BY <1>1, <2>2 DEF DriversOK, Lease
    <3>2. /\ s \in Drive /\ Shape(s)
          /\ s.rid # NoRemote => opRemote'[s.op] = s.rid
          /\ s.pc = "persist" => remote'[s.op][s.att] # "none"
      <4> HIDE DEF s
      <4> QED BY <3>1, GoodKept DEF Good, Joined
    <3> QED BY <3>1, <3>2 DEF Good, Joined
  <2> QED BY <2>1, <2>2
<1> QED
  BY <1>2 DEF DriversOK, Lease

\* A driver that stays with its operation, and attached or not as before.
LEMMA MovedGood ==
  ASSUME NEW s, Good(s), NEW r \in Drive, Shape(r), r.op = s.op,
         r.rid = s.rid, r.pc # "persist"
  PROVE  Good(r)
BY DEF Good, Joined

LEMMA ClaimedGood ==
  ASSUME NEW o \in Ops, NEW c \in BOOLEAN
  PROVE  Good(Claimed(o, c))
<1>1. Idle \in Drive
  BY IdleGood DEF Good
<1>2. Claimed(o, c) \in Drive
  BY <1>1, Steps, Zenon DEF Claimed, Drive
<1>3. /\ Claimed(o, c).pc = "load" /\ Claimed(o, c).op = o
      /\ Claimed(o, c).rid = NoRemote
  BY DEF Claimed, Idle
<1> QED
  BY <1>2, <1>3 DEF Good, Joined, Shape, DrivePC, WholePC, CheckPC

LEMMA WholeGood ==
  ASSUME NEW a \in ApplyState
  PROVE  Good([Idle EXCEPT !.pc = "whole", !.lease = TRUE, !.mem = a])
<1> DEFINE r == [Idle EXCEPT !.pc = "whole", !.lease = TRUE, !.mem = a]
<1>1. Idle \in Drive
  BY IdleGood DEF Good
<1>2. "whole" \in PC
  BY DEF PC, WholePC
<1>3. r \in Drive
  BY <1>1, <1>2, Zenon DEF Drive
<1>4. r.pc = "whole" /\ r.op = 0 /\ r.rid = NoRemote
  BY DEF Idle
<1>5. Good(r)
  <2> HIDE DEF r
  <2> QED
    BY <1>3, <1>4 DEF Good, Joined, Shape, DrivePC, WholePC, CheckPC
<1> QED
  BY <1>5

LEMMA ToSettleGood ==
  ASSUME NEW d \in Drivers, dr[d] \in Drive, NEW p \in {"publish", "finish"}
  PROVE  Good([ToMark(d) EXCEPT !.pc = p])
<1> DEFINE r == [ToMark(d) EXCEPT !.pc = p]
<1>1. Idle \in Drive /\ "mark" \in PC /\ p \in PC
  BY IdleGood DEF Good, PC, SettlePC
<1>2. r \in Drive
  BY <1>1, Zenon DEF Drive, ToMark
<1>3. r.pc = p /\ r.rid = NoRemote
  BY DEF ToMark, Idle
<1>4. Good(r)
  <2> HIDE DEF r
  <2> QED
    BY <1>2, <1>3 DEF Good, Joined, Shape, DrivePC, WholePC, CheckPC
<1> QED
  BY <1>4

LEMMA LoadGood ==
  ASSUME NEW s, Good(s), s.pc = "load", NEW a \in ApplyState
  PROVE  /\ IsTerminal(a) => Good([s EXCEPT !.pc = "mirror", !.snap = a])
         /\ Good([s EXCEPT !.pc = "list", !.then = "drive", !.snap = a,
                           !.mem = a])
<1> DEFINE m == [s EXCEPT !.pc = "mirror", !.snap = a]
           l == [s EXCEPT !.pc = "list", !.then = "drive", !.snap = a,
                          !.mem = a]
<1>1. m \in Drive /\ l \in Drive
  BY Steps, Zenon DEF Drive, Good
<1>2. /\ IsTerminal(a) => Shape(m)
      /\ m.op = s.op /\ m.rid = s.rid /\ m.pc = "mirror"
  BY SMT DEF Good, Shape, Drive, DrivePC, WholePC, CheckPC
<1>3. Shape(l) /\ l.op = s.op /\ l.rid = s.rid /\ l.pc = "list"
  BY SMT DEF Good, Shape, Drive, DrivePC, WholePC, CheckPC
<1> HIDE DEF m, l
<1>4. (IsTerminal(a) => Good(m)) /\ Good(l)
  BY <1>1, <1>2, <1>3, MovedGood
<1> QED
  BY <1>4 DEF m, l

LEMMA ProjectionGood ==
  ASSUME NEW d \in Drivers, Good(dr[d]), dr[d].pc \in {"list", "cas"}
  PROVE  Good(AfterProjection(d))
<1> DEFINE s == dr[d]
           r == [s EXCEPT !.pc = "scope", !.then = "idle", !.snap = "pending",
                          !.rep = "none"]
<1>0. Good(s) /\ dr[d] \in Drive /\ s.pc \in {"list", "cas"}
  BY DEF Good
<1>1. CASE s.then = "drive"
  <2>1. "scope" \in PC /\ "pending" \in ApplyState
    BY DEF PC, DrivePC, ApplyState
  <2>2. r \in Drive
    BY <1>0, <2>1, Steps, Zenon DEF Drive, Good
  <2>3. Shape(r) /\ r.op = s.op /\ r.rid = s.rid /\ r.pc = "scope"
    <3> HIDE DEF s
    <3> QED BY <1>0, <1>1, SMT DEF Good, Shape, Drive, DrivePC, WholePC, CheckPC
  <2>4. Good(r)
    <3> HIDE DEF r, s
    <3> QED BY <1>0, <2>2, <2>3, MovedGood
  <2> QED
    BY <1>1, <2>4 DEF AfterProjection
<1>2. CASE s.then = "finish"
  BY <1>0, <1>2, ToSettleGood DEF AfterProjection
<1>3. CASE s.then \notin {"drive", "finish"}
  BY <1>3, IdleGood DEF AfterProjection
<1> QED
  BY <1>1, <1>2, <1>3

LEMMA MirrorGood ==
  ASSUME NEW s, Good(s), s.pc = "mirror"
  PROVE  Good([s EXCEPT !.pc = "list", !.then = "mirrored"])
<1> DEFINE r == [s EXCEPT !.pc = "list", !.then = "mirrored"]
<1>2. r \in Drive
  BY Steps, Zenon DEF Drive, Good
<1>3. Shape(r) /\ r.op = s.op /\ r.rid = s.rid /\ r.pc # "persist"
  BY SMT DEF Good, Shape, Drive, DrivePC, WholePC, SettlePC, CheckPC, NextSteps
<1>4. Good(r)
  <2> HIDE DEF r
  <2> QED BY <1>2, <1>3, MovedGood
<1> QED
  BY <1>4

LEMMA ListGood ==
  ASSUME NEW s, Good(s), s.pc = "list", NEW a \in ApplyState
  PROVE  Good([s EXCEPT !.pc = "cas", !.rep = a])
<1> DEFINE r == [s EXCEPT !.pc = "cas", !.rep = a]
<1>2. r \in Drive
  BY Steps, Zenon DEF Drive, Good
<1>3. Shape(r) /\ r.op = s.op /\ r.rid = s.rid /\ r.pc # "persist"
  BY SMT DEF Good, Shape, Drive, DrivePC, WholePC, SettlePC, CheckPC, NextSteps
<1>4. Good(r)
  <2> HIDE DEF r
  <2> QED BY <1>2, <1>3, MovedGood
<1> QED
  BY <1>4

LEMMA CheckGood ==
  ASSUME NEW s, Good(s), s.pc \in DrivePC \ CheckPC, s.pc # "scope",
         NEW t \in NextSteps \ {"start", "preflight", "fail"}, NEW m \in ApplyState,
         t = "cutover" => s.pc = "preflight"
  PROVE  /\ Good([s EXCEPT !.pc = "check", !.then = t])
         /\ Good([[s EXCEPT !.pc = "check", !.then = t] EXCEPT !.mem = m])
<1> DEFINE r1 == [s EXCEPT !.pc = "check", !.then = t]
           r2 == [[s EXCEPT !.pc = "check", !.then = t] EXCEPT !.mem = m]
<1>1. "check" \in PC /\ t \in PC
  BY DEF PC, DrivePC, SettlePC, WholePC, ApplyState, NextSteps
<1>2. r1 \in Drive /\ r2 \in Drive
  BY <1>1, Steps, Zenon DEF Drive, Good
<1>3. Shape(r1) /\ r1.op = s.op /\ r1.rid = s.rid /\ r1.pc # "persist"
  BY <1>1, SMT DEF Good, Shape, Drive, DrivePC, WholePC, SettlePC, CheckPC, NextSteps
<1>4. Shape(r2) /\ r2.op = s.op /\ r2.rid = s.rid /\ r2.pc # "persist"
  BY <1>1, SMT DEF Good, Shape, Drive, DrivePC, WholePC, SettlePC, CheckPC, NextSteps
<1>5. Good(r1) /\ Good(r2)
  <2> HIDE DEF r1, r2
  <2> QED BY <1>2, <1>3, <1>4, MovedGood
<1> QED
  BY <1>5

LEMMA ProceedGood ==
  ASSUME NEW s, Good(s), s.pc \in CheckPC, NEW m \in ApplyState
  PROVE  /\ Good([s EXCEPT !.pc = s.then, !.then = "idle"])
         /\ Good([s EXCEPT !.pc = s.then, !.then = "idle", !.mem = m])
<1> DEFINE r1 == [s EXCEPT !.pc = s.then, !.then = "idle"]
           r2 == [s EXCEPT !.pc = s.then, !.then = "idle", !.mem = m]
<1>1. s.then \in PC
  BY DEF Good, Shape, PC, DrivePC, NextSteps
<1>2. r1 \in Drive /\ r2 \in Drive
  BY <1>1, Steps, Zenon DEF Drive, Good
<1>3. Shape(r1) /\ r1.op = s.op /\ r1.rid = s.rid /\ r1.pc # "persist"
  BY <1>1, SMT DEF Good, Shape, Drive, DrivePC, WholePC, SettlePC, CheckPC, NextSteps
<1>4. Shape(r2) /\ r2.op = s.op /\ r2.rid = s.rid /\ r2.pc # "persist"
  BY <1>1, SMT DEF Good, Shape, Drive, DrivePC, WholePC, SettlePC, CheckPC, NextSteps
<1>5. Good(r1) /\ Good(r2)
  <2> HIDE DEF r1, r2
  <2> QED BY <1>2, <1>3, <1>4, MovedGood
<1> QED
  BY <1>5

LEMMA ServeGood ==
  ASSUME NEW s, Good(s), s.pc = "check"
  PROVE  Good([s EXCEPT !.pc = IF s.rid = NoRemote THEN "stopOperation"
                                ELSE "sendStop"])
<1> DEFINE r == [s EXCEPT !.pc = IF s.rid = NoRemote THEN "stopOperation"
                                ELSE "sendStop"]
<1>1. "stopOperation" \in PC /\ "sendStop" \in PC
  BY DEF PC, DrivePC, SettlePC, WholePC, ApplyState, NextSteps
<1>2. r \in Drive
  BY <1>1, Steps, Zenon DEF Drive, Good
<1>3. Shape(r) /\ r.op = s.op /\ r.rid = s.rid /\ r.pc # "persist"
  BY <1>1, SMT DEF Good, Shape, Drive, DrivePC, WholePC, SettlePC, CheckPC, NextSteps
<1>4. Good(r)
  <2> HIDE DEF r
  <2> QED BY <1>2, <1>3, MovedGood
<1> QED
  BY <1>4

LEMMA SendStopGood ==
  ASSUME NEW s, Good(s), s.pc = "sendStop"
  PROVE  /\ Good([s EXCEPT !.pc = "stopProgress"])
         /\ Good([s EXCEPT !.pc = "stopProgress", !.rep = "error"])
<1> DEFINE r1 == [s EXCEPT !.pc = "stopProgress"]
           r2 == [s EXCEPT !.pc = "stopProgress", !.rep = "error"]
<1>1. "stopProgress" \in PC
  BY DEF PC, DrivePC, SettlePC, WholePC, ApplyState, NextSteps
<1>2. r1 \in Drive /\ r2 \in Drive
  BY <1>1, Steps, Zenon DEF Drive, Good
<1>3. Shape(r1) /\ r1.op = s.op /\ r1.rid = s.rid /\ r1.pc # "persist"
  BY <1>1, SMT DEF Good, Shape, Drive, DrivePC, WholePC, SettlePC, CheckPC, NextSteps
<1>4. Shape(r2) /\ r2.op = s.op /\ r2.rid = s.rid /\ r2.pc # "persist"
  BY <1>1, SMT DEF Good, Shape, Drive, DrivePC, WholePC, SettlePC, CheckPC, NextSteps
<1>5. Good(r1) /\ Good(r2)
  <2> HIDE DEF r1, r2
  <2> QED BY <1>2, <1>3, <1>4, MovedGood
<1> QED
  BY <1>5

LEMMA SettleGood ==
  ASSUME NEW s, Good(s), s.pc \in {"mark", "siblings", "reload", "publish", "stopPending"},
         NEW a \in ApplyState
  PROVE  /\ Good([s EXCEPT !.pc = "reload"])
         /\ Good([s EXCEPT !.pc = "list", !.then = "finish", !.snap = a])
         /\ Good([s EXCEPT !.pc = "finish"])
<1> DEFINE r1 == [s EXCEPT !.pc = "reload"]
           r2 == [s EXCEPT !.pc = "list", !.then = "finish", !.snap = a]
           r3 == [s EXCEPT !.pc = "finish"]
<1>1. "reload" \in PC /\ "finish" \in PC
  BY DEF PC, DrivePC, SettlePC, WholePC, ApplyState, NextSteps
<1>2. r1 \in Drive /\ r2 \in Drive /\ r3 \in Drive
  BY <1>1, Steps, Zenon DEF Drive, Good
<1>3. Shape(r1) /\ r1.op = s.op /\ r1.rid = s.rid /\ r1.pc # "persist"
  BY <1>1, SMT DEF Good, Shape, Drive, DrivePC, WholePC, SettlePC, CheckPC, NextSteps
<1>4. Shape(r2) /\ r2.op = s.op /\ r2.rid = s.rid /\ r2.pc # "persist"
  BY <1>1, SMT DEF Good, Shape, Drive, DrivePC, WholePC, SettlePC, CheckPC, NextSteps
<1>5. Shape(r3) /\ r3.op = s.op /\ r3.rid = s.rid /\ r3.pc # "persist"
  BY <1>1, SMT DEF Good, Shape, Drive, DrivePC, WholePC, SettlePC, CheckPC, NextSteps
<1>6. Good(r1) /\ Good(r2) /\ Good(r3)
  <2> HIDE DEF r1, r2, r3
  <2> QED BY <1>2, <1>3, <1>4, <1>5, MovedGood
<1> QED
  BY <1>6

LEMMA MarkedGood ==
  ASSUME NEW s, Good(s), s.pc = "mark"
  PROVE  Good([s EXCEPT !.pc = "siblings"])
<1> DEFINE r == [s EXCEPT !.pc = "siblings"]
<1>1. "siblings" \in PC
  BY DEF PC, DrivePC, SettlePC, WholePC, ApplyState, NextSteps
<1>2. r \in Drive
  BY <1>1, Steps, Zenon DEF Drive, Good
<1>3. Shape(r) /\ r.op = s.op /\ r.rid = s.rid /\ r.pc # "persist"
  BY <1>1, SMT DEF Good, Shape, Drive, DrivePC, WholePC, SettlePC, CheckPC, NextSteps
<1>4. Good(r)
  <2> HIDE DEF r
  <2> QED BY <1>2, <1>3, MovedGood
<1> QED
  BY <1>4

LEMMA WholeStepGood ==
  ASSUME NEW s, Good(s), s.pc \in WholePC, NEW p \in WholePC
  PROVE  Good([s EXCEPT !.pc = p])
<1> DEFINE r == [s EXCEPT !.pc = p]
<1>1. p \in PC
  BY DEF PC, DrivePC, SettlePC, WholePC, ApplyState, NextSteps
<1>2. r \in Drive
  BY <1>1, Steps, Zenon DEF Drive, Good
<1>3. Shape(r) /\ r.op = s.op /\ r.rid = s.rid /\ r.pc # "persist"
  BY <1>1, SMT DEF Good, Shape, Drive, DrivePC, WholePC, SettlePC, CheckPC, NextSteps
<1>4. Good(r)
  <2> HIDE DEF r
  <2> QED BY <1>2, <1>3, MovedGood
<1> QED
  BY <1>4

LEMMA ScopeGood ==
  ASSUME NEW s, Good(s), s.pc = "scope", s.op \in Ops,
         NEW q \in Attempts \cup {NoRemote}, q = opRemote[s.op],
         NEW k \in Attempts,
         NEW t \in NextSteps \ {"dispatch", "cutover", "fail"},
         t \in {"start", "preflight"} => q # NoRemote,
         t = "preflight" => s.cut
  PROVE  Good([[s EXCEPT !.pc = "check", !.rid = q, !.att = k]
                 EXCEPT !.then = t])
<1> DEFINE r == [[s EXCEPT !.pc = "check", !.rid = q, !.att = k]
                   EXCEPT !.then = t]
<1>1. t \in PC /\ "check" \in PC
  BY DEF PC, DrivePC, NextSteps
<1>2. r \in Drive
  BY <1>1, Zenon DEF Drive, Good
<1>3. Shape(r) /\ r.op = s.op /\ r.rid = q /\ r.pc = "check"
  BY <1>1, SMT DEF Good, Shape, Drive, DrivePC, WholePC, SettlePC, CheckPC,
                   NextSteps
<1>4. Good(r)
  <2> HIDE DEF r
  <2> QED BY <1>2, <1>3 DEF Good, Joined
<1> QED
  BY <1>4

LEMMA ScopeFailGood ==
  ASSUME NEW s, Good(s), s.pc = "scope", s.op \in Ops, NEW k \in Attempts
  PROVE  Good([[s EXCEPT !.pc = "check", !.rid = NoRemote, !.att = k]
                 EXCEPT !.then = "fail", !.rep = "failed"])
<1> DEFINE r == [[s EXCEPT !.pc = "check", !.rid = NoRemote, !.att = k]
                   EXCEPT !.then = "fail", !.rep = "failed"]
<1>1. "fail" \in PC /\ "check" \in PC /\ "failed" \in ApplyState
  BY DEF PC, DrivePC, NextSteps, ApplyState
<1>2. r \in Drive
  BY <1>1, Zenon DEF Drive, Good
<1>3. Shape(r) /\ r.rid = NoRemote /\ r.pc = "check"
  BY <1>1, SMT DEF Good, Shape, Drive, DrivePC, WholePC, SettlePC, CheckPC,
                   NextSteps
<1>4. Good(r)
  <2> HIDE DEF r
  <2> QED BY <1>2, <1>3 DEF Good, Joined
<1> QED
  BY <1>4

LEMMA DispatchGood ==
  ASSUME NEW s, Good(s), s.pc = "dispatch", Kept,
         remote'[s.op][s.att] # "none",
         NEW r, r = [s EXCEPT !.pc = "persist"]
  PROVE  Good(r)'
<1>1. "persist" \in PC
  BY DEF PC, DrivePC
<1>2. r \in Drive
  BY <1>1, Zenon DEF Drive, Good
<1>3. /\ Shape(r) /\ r.op = s.op /\ r.rid = s.rid /\ r.pc = "persist"
      /\ r.att = s.att
  BY SMT DEF Good, Shape, Drive, DrivePC, WholePC, CheckPC, NextSteps
<1>4. s.rid # NoRemote => opRemote'[s.op] = s.rid
  BY GoodKept DEF Good, Joined
<1> QED
  BY <1>2, <1>3, <1>4 DEF Good, Joined

LEMMA PersistGood ==
  ASSUME NEW s, Good(s), s.pc = "persist", NEW k \in Attempts, Kept,
         opRemote'[s.op] = k,
         NEW r, r = [s EXCEPT !.pc = "check", !.then = "progress", !.rid = k,
                              !.att = 0, !.mem = "running"]
  PROVE  Good(r)'
<1>1. /\ "check" \in PC /\ "progress" \in PC /\ "running" \in ApplyState
      /\ 0 \in Attempts
  BY BudgetAssumption DEF PC, DrivePC, ApplyState, Attempts
<1>2. r \in Drive
  BY <1>1, Zenon DEF Drive, Good
<1>3. Shape(r) /\ r.op = s.op /\ r.rid = k /\ r.pc = "check"
  BY SMT DEF Good, Shape, Drive, DrivePC, WholePC, CheckPC, NextSteps
<1> QED
  BY <1>2, <1>3 DEF Good, Joined

----------------------------------------------------------------------------
\* Every step keeps TypeInv.

LEMMA InitType == Init => TypeInv
<1> SUFFICES ASSUME Init PROVE TypeInv
  OBVIOUS
<1>1. RowsOK
  <2>1. /\ "pending" \in ApplyState /\ "pending" \in TaskState
        /\ "none" \in RemoteState
    BY DEF ApplyState, TaskState, RemoteState
  <2>2. 0 \in Attempts /\ 0 \in 0..MaxFaults
    BY BudgetAssumption DEF Attempts
  <2>3. remote \in [Ops -> [Attempts -> RemoteState]]
    BY <2>1 DEF Init
  <2> QED
    BY <2>1, <2>2, <2>3 DEF Init, RowsOK
<1>2. RetriesCounted /\ RemoteKnown
  BY DEF Init, RetriesCounted, RemoteKnown
<1>3. DriversOK
  BY IdleGood DEF Init, DriversOK
<1> QED
  BY <1>1, <1>2, <1>3 DEF TypeInv

\* A step that leaves retries and remote applies alone.
LEMMA QuietType ==
  ASSUME TypeInv, UNCHANGED <<applyAttempt, opAttempt, opRemote, remote>>
  PROVE  RetriesCounted' /\ RemoteKnown' /\ Kept
BY DEF TypeInv, RetriesCounted, RemoteKnown, Kept

\* The step of a driver that leaves them alone.
LEMMA QuietGoto ==
  ASSUME TypeInv, UNCHANGED <<applyAttempt, opAttempt, opRemote, remote>>,
         RowsOK', NEW d \in Drivers, NEW r, Good(r), Goto(d, r)
  PROVE  TypeInv'
<1>1. RetriesCounted' /\ RemoteKnown' /\ Kept
  BY QuietType
<1>2. Good(r)'
  BY <1>1, GoodKept
<1> QED
  BY <1>1, <1>2, GotoGood DEF TypeInv

LEMMA QuietLease ==
  ASSUME TypeInv, UNCHANGED <<applyAttempt, opAttempt, opRemote, remote>>,
         RowsOK', NEW d \in Drivers, NEW o, NEW r, Good(r), Lease(d, o, r)
  PROVE  TypeInv'
<1>1. RetriesCounted' /\ RemoteKnown' /\ Kept
  BY QuietType
<1>2. Good(r)'
  BY <1>1, GoodKept
<1> QED
  BY <1>1, <1>2, LeaseGood DEF TypeInv

LEMMA ClaimType ==
  ASSUME TypeInv, NEW d \in Drivers, NEW o \in Ops, Claim(d, o)
  PROVE  TypeInv'
<1> USE DEF applyVars, opVars, remoteVars
<1>1. CASE ClaimPending(d, o)
  <2>1. RowsOK'
    BY <1>1 DEF ClaimPending, TypeInv, RowsOK, ApplyState
  <2> QED
    BY <1>1, <2>1, QuietLease, ClaimedGood DEF ClaimPending
<1>2. CASE ClaimStale(d, o)
  <2>1. RowsOK'
    BY <1>2 DEF ClaimStale, TypeInv, RowsOK
  <2> QED
    BY <1>2, <2>1, QuietLease, ClaimedGood DEF ClaimStale
<1>3. CASE ClaimRetryable(d, o)
  <2>1. RowsOK' /\ RetriesCounted'
    <3>1. CASE RetryAdmitted /\ opAttempt' = [opAttempt EXCEPT ![o] = @ + 1]
                 /\ applyAttempt' = applyAttempt + 1 /\ applyAge' = "fresh"
      <4>1. /\ applyAttempt' \in Attempts /\ opAttempt' \in [Ops -> Attempts]
            /\ RetriesCounted'
        BY <3>1, BudgetAssumption
           DEF TypeInv, RowsOK, RetriesCounted, RetryAdmitted, Attempts
      <4> QED
        BY <1>3, <3>1, <4>1 DEF ClaimRetryable, TypeInv, RowsOK
    <3>2. CASE UNCHANGED <<opAttempt, applyAttempt, applyAge>>
      BY <1>3, <3>2 DEF ClaimRetryable, TypeInv, RowsOK, RetriesCounted
    <3> QED
      BY <1>3, <3>1, <3>2 DEF ClaimRetryable
  <2>2. RemoteKnown' /\ Kept
    BY <1>3 DEF ClaimRetryable, TypeInv, RemoteKnown, Kept
  <2>3. Good(Claimed(o, FALSE))'
    BY <2>2, ClaimedGood, GoodKept
  <2>4. DriversOK'
    BY <1>3, <2>2, <2>3, LeaseGood DEF ClaimRetryable, TypeInv
  <2> QED
    BY <2>1, <2>2, <2>4 DEF TypeInv
<1>4. CASE ClaimCutover(d, o)
  <2>1. RowsOK'
    BY <1>4 DEF ClaimCutover, TypeInv, RowsOK, ApplyState
  <2> QED
    BY <1>4, <2>1, QuietLease, ClaimedGood DEF ClaimCutover
<1> QED
  BY <1>1, <1>2, <1>3, <1>4 DEF Claim

LEMMA ReconciliationType ==
  ASSUME TypeInv, NEW d \in Drivers, ClaimStopReconciliation(d)
  PROVE  TypeInv'
<1> USE DEF applyVars, opVars, remoteVars
<1>1. RowsOK'
  BY DEF ClaimStopReconciliation, TypeInv, RowsOK, ApplyState
<1>2. Good([Idle EXCEPT !.pc = "whole", !.lease = TRUE, !.mem = applyState])
  BY WholeGood, Zenon DEF TypeInv, RowsOK
<1> QED
  BY <1>1, <1>2, QuietLease DEF ClaimStopReconciliation

\* A driver that gives up.
LEMMA EndType ==
  ASSUME TypeInv, UNCHANGED <<applyAttempt, opAttempt, opRemote, remote>>,
         RowsOK', NEW d \in Drivers, End(d)
  PROVE  TypeInv'
BY QuietGoto, IdleGood DEF End

LEMMA ProjectionType ==
  ASSUME TypeInv, NEW d \in Drivers,
         Load(d) \/ Mirror(d) \/ List(d) \/ UpdateDerivedState(d)
  PROVE  TypeInv'
<1> USE DEF applyVars, opVars, remoteVars
<1>0. Good(dr[d]) /\ dr[d] \in Drive
  BY DEF TypeInv, DriversOK, Good
<1>1. CASE Load(d)
  <2>1. RowsOK'
    BY <1>1 DEF Load, TypeInv, RowsOK
  <2>2. applyState \in ApplyState
    BY DEF TypeInv, RowsOK
  <2>3. CASE IsTerminal(applyState)
    BY <1>0, <1>1, <2>1, <2>2, <2>3, QuietGoto, LoadGood, Zenon DEF Load, At
  <2>4. CASE ~IsTerminal(applyState)
    BY <1>0, <1>1, <2>1, <2>2, <2>4, QuietGoto, LoadGood, Zenon DEF Load, At
  <2> QED
    BY <2>3, <2>4
<1>2. CASE Mirror(d)
  <2>1. RowsOK'
    <3>1. dr[d].snap \in ApplyState
      BY <1>0 DEF Drive
    <3> QED
      BY <1>2, <3>1 DEF Mirror, TypeInv, RowsOK
  <2>2. CASE dr[d].lease
    BY <1>0, <1>2, <2>1, <2>2, QuietGoto, MirrorGood, Zenon DEF Mirror, At
  <2>3. CASE ~dr[d].lease
    BY <1>2, <2>1, <2>3, EndType DEF Mirror
  <2> QED
    BY <2>2, <2>3
<1>3. CASE List(d)
  <2>1. RowsOK'
    BY <1>3 DEF List, TypeInv, RowsOK
  <2>2. Good(AfterProjection(d))
    BY <1>0, <1>3, ProjectionGood DEF List, At
  <2>3. Good([dr[d] EXCEPT !.pc = "cas", !.rep = Derived])
    BY <1>0, <1>3, ListGood, DerivedType, Zenon DEF List, At
  <2>4. PICK r : Good(r) /\ Goto(d, r)
    BY <1>3, <2>2, <2>3, IdleGood DEF List
  <2> QED
    BY <1>3, <2>1, <2>4, QuietGoto DEF List
<1>4. CASE UpdateDerivedState(d)
  <2>1. RowsOK'
    <3>1. dr[d].rep \in ApplyState
      BY <1>0, <1>4 DEF Good, Shape, UpdateDerivedState, At
    <3> QED
      BY <1>4, <3>1 DEF UpdateDerivedState, TypeInv, RowsOK
  <2>2. Good(AfterProjection(d))
    BY <1>0, <1>4, ProjectionGood DEF UpdateDerivedState, At
  <2>3. Good([ToMark(d) EXCEPT !.pc = "publish"])
    BY <1>0, ToSettleGood
  <2>4. PICK r : Good(r) /\ Goto(d, r)
    BY <1>4, <2>2, <2>3, IdleGood DEF UpdateDerivedState
  <2> QED
    BY <1>4, <2>1, <2>4, QuietGoto DEF UpdateDerivedState
<1> QED
  BY <1>1, <1>2, <1>3, <1>4

\* The remote apply a driver is attached to exists.
LEMMA ReportType ==
  ASSUME TypeInv, NEW d \in Drivers, dr[d].rid # NoRemote
  PROVE  /\ dr[d].op \in Ops /\ dr[d].rid \in Attempts
         /\ Report(d) \in RemoteState \ {"none"}
         /\ Report(d) \in ApplyState /\ Report(d) \in TaskState
<1>1. Good(dr[d]) /\ dr[d] \in Drive
  BY DEF TypeInv, DriversOK, Good
<1>2. dr[d].op \in Ops
  BY <1>1 DEF Good, Shape
<1>3. dr[d].rid \in Attempts /\ opRemote[dr[d].op] = dr[d].rid
  BY <1>1 DEF Good, Joined, Drive
<1>4. Report(d) \in RemoteState \ {"none"}
  BY <1>2, <1>3 DEF Report, TypeInv, RemoteKnown, RowsOK
<1> QED
  BY <1>2, <1>3, <1>4, StateSets

\* A task write leaves the tasks typed.
LEMMA SetTaskType ==
  ASSUME TypeInv, NEW d \in Drivers, NEW s \in TaskState, SetTask(d, s)
  PROVE  taskState' \in [Ops -> TaskState]
BY DEF SetTask, TypeInv, RowsOK

LEMMA MyTaskType ==
  ASSUME TypeInv, NEW d \in Drivers, dr[d].op \in Ops
  PROVE  MyTask(d) \in TaskState
BY DEF MyTask, TypeInv, RowsOK

LEMMA ReconcileType ==
  ASSUME TypeInv, NEW d \in Drivers, dr[d].rid # NoRemote, ReconcileTerminal(d)
  PROVE  taskState' \in [Ops -> TaskState] /\ Goto(d, ToMark(d))
<1>1. MyTask(d) \in TaskState /\ Report(d) \in TaskState
  BY ReportType, MyTaskType
<1>2. SyncedTask(MyTask(d), Report(d)) \in TaskState
  BY <1>1, SyncedType
<1>3. (IF AdoptsTerminal(Report(d)) THEN SyncedTask(MyTask(d), Report(d))
       ELSE MyTask(d)) \in TaskState
  BY <1>1, <1>2
<1> QED
  BY <1>3, SetTaskType DEF ReconcileTerminal

LEMMA StopStepsType ==
  ASSUME TypeInv, NEW d \in Drivers,
         \/ Scope(d) \/ CheckStop(d) \/ StopUndispatchedOperation(d)
         \/ SendStop(d) \/ StopProgress(d)
  PROVE  TypeInv'
<1> USE DEF applyVars, opVars, remoteVars
<1>0. Good(dr[d]) /\ dr[d] \in Drive
  BY DEF TypeInv, DriversOK, Good
<1>a. dr[d].op \in Ops
  BY <1>0 DEF Scope, CheckStop, StopUndispatchedOperation, SendStop,
              StopProgress, At, Good, Shape, DrivePC
<1>b. Good(ToMark(d))
  BY <1>0, <1>a, ToMarkGood
<1>1. CASE Scope(d)
  <2>1. RowsOK'
    BY <1>1 DEF Scope, TypeInv, RowsOK
  <2> DEFINE o == dr[d].op
             k == IF opRemote[o] = NoRemote THEN opAttempt[o] ELSE 0
             q == opRemote[o]
             r(t) == [[dr[d] EXCEPT !.pc = "check", !.rid = q, !.att = k]
                        EXCEPT !.then = t]
  <2>2. q \in Attempts \cup {NoRemote} /\ k \in Attempts
    BY <1>a, BudgetAssumption DEF TypeInv, RowsOK, Attempts
  <2>3. /\ Good(r("progress")) /\ Good(r("prepare"))
        /\ q # NoRemote => Good(r("start"))
        /\ q # NoRemote /\ dr[d].cut => Good(r("preflight"))
    <3> HIDE DEF k
    <3> QED
      BY <1>0, <1>1, <1>a, <2>2, ScopeGood, Zenon DEF Scope, At, NextSteps
  <2>4. q = NoRemote => Good([[dr[d] EXCEPT !.pc = "check", !.rid = q, !.att = k]
                                EXCEPT !.then = "fail", !.rep = "failed"])
    <3> HIDE DEF k
    <3> QED
      BY <1>0, <1>1, <1>a, <2>2, ScopeFailGood, Zenon DEF Scope, At
  <2>5. PICK s : Good(s) /\ Goto(d, s)
    <3>1. CASE dr[d].cut
      BY <1>1, <1>b, <2>3, <3>1 DEF Scope
    <3>2. CASE ~dr[d].cut /\ q # NoRemote
      BY <1>1, <2>3, <3>2 DEF Scope
    <3>3. CASE ~dr[d].cut /\ q = NoRemote
      BY <1>1, <2>3, <2>4, <3>3 DEF Scope
    <3> QED
      BY <3>1, <3>2, <3>3
  <2> QED
    BY <1>1, <2>1, <2>5, QuietGoto DEF Scope
<1>2. CASE CheckStop(d)
  <2>1. RowsOK'
    BY <1>2 DEF CheckStop, TypeInv, RowsOK
  <2>2. Good([dr[d] EXCEPT !.pc = dr[d].then, !.then = "idle"])
    BY <1>0, <1>2, ProceedGood, Zenon DEF CheckStop, At, CheckPC, Drive
  <2>3. Good([dr[d] EXCEPT !.pc = IF dr[d].rid = NoRemote
                                  THEN "stopOperation" ELSE "sendStop"])
    BY <1>0, <1>2, ServeGood DEF CheckStop, At
  <2>4. PICK s : Good(s) /\ Goto(d, s)
    BY <1>2, <1>b, <2>2, <2>3 DEF CheckStop
  <2> QED
    BY <1>2, <2>1, <2>4, QuietGoto DEF CheckStop
<1>3. CASE StopUndispatchedOperation(d)
  <2>1. taskState' \in [Ops -> TaskState]
    BY <1>3, <1>a, SetTaskType, MyTaskType, StateSets
       DEF StopUndispatchedOperation
  <2>2. opState' \in [Ops -> ApplyState]
    BY <1>3, StateSets DEF StopUndispatchedOperation, TypeInv, RowsOK
  <2>3. RowsOK'
    BY <1>3, <2>1, <2>2 DEF StopUndispatchedOperation, TypeInv, RowsOK
  <2> QED
    BY <1>3, <1>b, <2>3, QuietGoto DEF StopUndispatchedOperation
<1>4. CASE SendStop(d)
  <2>1. Me(d) \in Ops \X Attempts
    BY <1>0, <1>4, ReportType DEF SendStop, At, Good, Shape, Me
  <2>2. RowsOK'
    BY <1>4, <2>1, BudgetAssumption
       DEF SendStop, Fault, TypeInv, RowsOK
  <2>3. /\ Good([dr[d] EXCEPT !.pc = "stopProgress"])
        /\ Good([dr[d] EXCEPT !.pc = "stopProgress", !.rep = "error"])
    BY <1>0, <1>4, SendStopGood, Zenon DEF SendStop, At
  <2>4. PICK s : Good(s) /\ Goto(d, s)
    BY <1>4, <2>3 DEF SendStop
  <2> QED
    BY <1>4, <2>2, <2>4, QuietGoto DEF SendStop
<1>5. CASE StopProgress(d)
  <2>1. dr[d].rid # NoRemote
    BY <1>0, <1>5 DEF StopProgress, At, Good, Shape
  <2>2. /\ MyTask(d) \in TaskState /\ Report(d) \in TaskState
        /\ Report(d) \in ApplyState
    BY <2>1, ReportType, MyTaskType
  <2>3. applyStateFromRemoteProgress(dr[d].mem, Report(d)) \in ApplyState
    BY <1>0, <2>2, ProgressType DEF Drive
  <2>4. Good([dr[d] EXCEPT !.pc = dr[d].then, !.then = "idle",
                !.mem = applyStateFromRemoteProgress(@, Report(d))])
    BY <1>0, <1>5, <2>3, ProceedGood, Zenon DEF StopProgress, At, CheckPC
  <2>5. taskState' \in [Ops -> TaskState]
    BY <1>5, <2>1, <2>2, ReconcileType, SetTaskType, SyncedType
       DEF StopProgress, TypeInv, RowsOK
  <2>6. RowsOK'
    BY <1>5, <2>5 DEF StopProgress, TypeInv, RowsOK
  <2>7. PICK s : Good(s) /\ Goto(d, s)
    BY <1>5, <1>b, <2>4 DEF StopProgress, ReconcileTerminal
  <2> QED
    BY <1>5, <2>6, <2>7, QuietGoto DEF StopProgress
<1> QED
  BY <1>1, <1>2, <1>3, <1>4, <1>5

\* A remote apply takes another state, but is not forgotten.
LEMMA RemoteUpdate ==
  ASSUME TypeInv, NEW o \in Ops, NEW k \in Attempts,
         NEW s \in RemoteState \ {"none"}
  PROVE  /\ [remote EXCEPT ![o][k] = s] \in [Ops -> [Attempts -> RemoteState]]
         /\ \A p \in Ops, j \in Attempts :
              [remote EXCEPT ![o][k] = s][p][j]
                = IF p = o /\ j = k THEN s ELSE remote[p][j]
BY DEF TypeInv, RowsOK

LEMMA DispatchType ==
  ASSUME TypeInv, NEW d \in Drivers,
         PrepareDispatch(d) \/ Dispatch(d) \/ PersistRemoteApplyID(d)
  PROVE  TypeInv'
<1> USE DEF applyVars, opVars, remoteVars
<1>0. Good(dr[d]) /\ dr[d] \in Drive
  BY DEF TypeInv, DriversOK, Good
<1>a. dr[d].op \in Ops /\ dr[d].att \in Attempts
  BY <1>0 DEF PrepareDispatch, Dispatch, PersistRemoteApplyID, At, Good, Shape,
              DrivePC, Drive
<1>b. /\ Good(ToMark(d)) /\ Good(ToFail(d, "failed"))
      /\ Good(ToFail(d, "failed_retryable"))
  BY <1>0, <1>a, ToMarkGood, ToFailGood
<1>1. CASE PrepareDispatch(d)
  <2>1. taskState' \in [Ops -> TaskState]
    <3>1. "pending" \in TaskState
      BY DEF TaskState
    <3> QED
      BY <1>1, <3>1, SetTaskType DEF PrepareDispatch, TypeInv, RowsOK
  <2>2. RowsOK'
    BY <1>1, <2>1 DEF PrepareDispatch, TypeInv, RowsOK
  <2>3. Good(ToCheck(d, "dispatch"))
    <3>1. dr[d].pc = "prepare" /\ dr[d].mem \in ApplyState
      BY <1>0, <1>1 DEF PrepareDispatch, At, Drive
    <3> QED
      BY <1>0, <3>1, CheckGood, Zenon DEF DrivePC, CheckPC, NextSteps, ToCheck
  <2>4. PICK s : Good(s) /\ Goto(d, s)
    BY <1>1, <1>b, <2>3 DEF PrepareDispatch
  <2> QED
    BY <1>1, <2>2, <2>4, QuietGoto DEF PrepareDispatch
<1>2. CASE Dispatch(d)
  <2> DEFINE o == dr[d].op
             k == dr[d].att
  <2>1. /\ Dispatched(o, k) \in [Ops -> [Attempts -> RemoteState]]
        /\ \A p \in Ops, j \in Attempts :
             remote[p][j] # "none" => Dispatched(o, k)[p][j] # "none"
        /\ RemoteAccepts(o, k) => Dispatched(o, k)[o][k] # "none"
    <3>1. "running" \in RemoteState
      BY DEF RemoteState
    <3> QED
      BY <1>a, <3>1 DEF Dispatched, TypeInv, RowsOK
  <2>2. remote' \in {remote, Dispatched(o, k)}
    BY <1>2 DEF Dispatch
  <2>3. RowsOK'
    BY <1>2, <2>1, <2>2, BudgetAssumption DEF Dispatch, Fault, TypeInv, RowsOK
  <2>4. RetriesCounted' /\ Kept
    BY <1>2, <2>1, <2>2 DEF Dispatch, TypeInv, RetriesCounted, Kept
  <2>5. RemoteKnown'
    BY <1>2, <2>4 DEF Dispatch, TypeInv, RowsOK, RemoteKnown, Kept
  <2>6. CASE /\ RemoteAccepts(o, k) /\ remote' = Dispatched(o, k)
             /\ Goto(d, [dr[d] EXCEPT !.pc = "persist"])
    <3>1. PICK s : s = dr[d]
      OBVIOUS
    <3>2. PICK r : r = [s EXCEPT !.pc = "persist"]
      OBVIOUS
    <3>3. s.pc = "dispatch" /\ Good(s) /\ remote'[s.op][s.att] # "none"
      BY <1>0, <1>2, <2>1, <2>6, <3>1 DEF Dispatch, At
    <3>4. Good(r)'
      BY <2>4, <3>2, <3>3, DispatchGood
    <3>5. Goto(d, r)
      BY <2>6, <3>1, <3>2
    <3> QED
      BY <2>3, <2>4, <2>5, <3>4, <3>5, GotoGood DEF TypeInv
  <2>7. CASE ~ /\ RemoteAccepts(o, k) /\ remote' = Dispatched(o, k)
               /\ Goto(d, [dr[d] EXCEPT !.pc = "persist"])
    <3>1. PICK s : Good(s) /\ Goto(d, s)
      BY <1>2, <1>b, <2>7 DEF Dispatch, Goto
    <3>2. Good(s)'
      BY <2>4, <3>1, GoodKept
    <3> QED
      BY <2>3, <2>4, <2>5, <3>1, <3>2, GotoGood DEF TypeInv
  <2> QED
    BY <2>6, <2>7
<1>3. CASE PersistRemoteApplyID(d)
  <2> DEFINE o == dr[d].op
             k == dr[d].att
  <2>1. CASE dr[d].lease /\ opRemote[o] \in {NoRemote, k}
    <3>1. RowsOK'
      BY <1>3, <1>a, <2>1 DEF PersistRemoteApplyID, TypeInv, RowsOK
    <3>2. RetriesCounted' /\ Kept
      BY <1>3, <1>a, <2>1
         DEF PersistRemoteApplyID, TypeInv, RowsOK, RetriesCounted, Kept
    <3>3. RemoteKnown'
      <4>1. remote[o][k] # "none"
        BY <1>0, <1>3 DEF PersistRemoteApplyID, At, Good, Joined
      <4> QED
        BY <1>3, <1>a, <2>1, <4>1
           DEF PersistRemoteApplyID, TypeInv, RowsOK, RemoteKnown
    <3>4. opRemote'[o] = k /\ dr[d].pc = "persist"
      BY <1>3, <1>a, <2>1 DEF PersistRemoteApplyID, At, TypeInv, RowsOK
    <3>5. PICK s : s = dr[d]
      OBVIOUS
    <3>6. PICK r : r = [s EXCEPT !.pc = "check", !.then = "progress",
                                 !.rid = s.att, !.att = 0, !.mem = "running"]
      OBVIOUS
    <3>7. /\ Good(s) /\ s.pc = "persist" /\ s.att \in Attempts
          /\ opRemote'[s.op] = s.att
      BY <1>0, <1>a, <3>4, <3>5
    <3>8. Good(r)'
      BY <3>2, <3>6, <3>7, PersistGood, Zenon
    <3>9. Goto(d, r)
      BY <1>3, <2>1, <3>5, <3>6 DEF PersistRemoteApplyID
    <3> QED
      BY <3>1, <3>2, <3>3, <3>8, <3>9, GotoGood DEF TypeInv
  <2>2. CASE ~(dr[d].lease /\ opRemote[o] \in {NoRemote, k})
    <3>1. RowsOK'
      BY <1>3, <2>2 DEF PersistRemoteApplyID, TypeInv, RowsOK
    <3> QED
      BY <1>3, <1>b, <2>2, <3>1, QuietGoto DEF PersistRemoteApplyID
  <2> QED
    BY <2>1, <2>2
<1> QED
  BY <1>1, <1>2, <1>3

LEMMA PollType ==
  ASSUME TypeInv, NEW d \in Drivers,
         \/ StartRemote(d) \/ Progress(d) \/ Preflight(d) \/ SendCutover(d)
         \/ MarkRemoteApplyFailed(d)
  PROVE  TypeInv'
<1> USE DEF applyVars, opVars, remoteVars
<1>0. Good(dr[d]) /\ dr[d] \in Drive /\ dr[d].mem \in ApplyState
  BY DEF TypeInv, DriversOK, Good, Drive
<1>a. dr[d].op \in Ops /\ MyTask(d) \in TaskState
  <2>1. dr[d].op \in Ops
    BY <1>0 DEF StartRemote, Progress, Preflight, SendCutover,
                MarkRemoteApplyFailed, At, Good, Shape, DrivePC
  <2> QED
    BY <2>1, MyTaskType
<1>b. /\ Good(ToMark(d)) /\ Good(ToFail(d, "failed"))
      /\ Good(ToFail(d, "failed_retryable"))
  BY <1>0, <1>a, ToMarkGood, ToFailGood
<1>c. ASSUME NEW m \in ApplyState, ~At(d, "fail")
      PROVE  /\ Good([ToCheck(d, "progress") EXCEPT !.mem = m])
             /\ At(d, "preflight") => Good(ToCheck(d, "cutover"))
  <2>1. dr[d].pc \in DrivePC \ CheckPC /\ dr[d].pc # "scope"
    BY <1>c DEF StartRemote, Progress, Preflight, SendCutover,
                MarkRemoteApplyFailed, At, DrivePC, CheckPC
  <2>2. /\ "progress" \in NextSteps \ {"start", "preflight", "fail"}
        /\ "cutover" \in NextSteps \ {"start", "preflight", "fail"}
    BY DEF NextSteps
  <2> QED
    BY <1>0, <1>c, <2>1, <2>2, CheckGood, Zenon DEF ToCheck, At
<1>1. CASE StartRemote(d)
  <2>1. dr[d].rid \in Attempts
    BY <1>0, <1>1, ReportType DEF StartRemote, At, Good, Shape
  <2>2. /\ remote' \in [Ops -> [Attempts -> RemoteState]]
        /\ \A p \in Ops, j \in Attempts :
             remote[p][j] # "none" => remote'[p][j] # "none"
    <3>1. "running" \in RemoteState \ {"none"}
      BY DEF RemoteState
    <3>2. \/ remote' = [remote EXCEPT ![dr[d].op][dr[d].rid] = "running"]
          \/ remote' = remote
      BY <1>1 DEF StartRemote
    <3>3. CASE remote' = remote
      BY <3>3 DEF TypeInv, RowsOK
    <3>4. CASE remote' = [remote EXCEPT ![dr[d].op][dr[d].rid] = "running"]
      <4> DEFINE o == dr[d].op
                 k == dr[d].rid
      <4>1. o \in Ops /\ k \in Attempts
        BY <1>a, <2>1
      <4> HIDE DEF o, k
      <4>2. remote' = [remote EXCEPT ![o][k] = "running"]
        BY <3>4 DEF o, k
      <4> QED
        BY <3>1, <4>1, <4>2, RemoteUpdate
    <3> QED
      BY <3>2, <3>3, <3>4
  <2>3. RowsOK'
    BY <1>1, <2>2 DEF StartRemote, TypeInv, RowsOK
  <2>4. RetriesCounted' /\ Kept
    BY <1>1, <2>2 DEF StartRemote, TypeInv, RetriesCounted, Kept
  <2>5. RemoteKnown'
    BY <1>1, <2>4 DEF StartRemote, TypeInv, RowsOK, RemoteKnown, Kept
  <2>6. PICK s : Good(s) /\ Goto(d, s)
    <3>1. Good([ToCheck(d, "progress") EXCEPT !.mem = "running"])
      BY <1>1, <1>c DEF StartRemote, At, ApplyState
    <3> QED
      BY <1>1, <1>b, <3>1 DEF StartRemote
  <2>7. Good(s)'
    BY <2>4, <2>6, GoodKept
  <2> QED
    BY <2>3, <2>4, <2>5, <2>6, <2>7, GotoGood DEF TypeInv
<1>2. CASE Progress(d)
  <2>1. taskState' \in [Ops -> TaskState]
    <3>1. CASE dr[d].rid # NoRemote
      BY <1>2, <1>a, <3>1, ReportType, ReconcileType, SetTaskType, SyncedType
         DEF Progress, TypeInv, RowsOK
    <3>2. CASE dr[d].rid = NoRemote
      BY <1>2, <3>2 DEF Progress, TypeInv, RowsOK
    <3> QED
      BY <3>1, <3>2
  <2>2. RowsOK'
    BY <1>2, <2>1, BudgetAssumption DEF Progress, Fault, TypeInv, RowsOK
  <2>3. PICK s : Good(s) /\ Goto(d, s)
    <3> DEFINE m == applyStateFromRemoteProgress(dr[d].mem, Report(d))
    <3>1. dr[d].rid # NoRemote
            => Good([ToCheck(d, "progress") EXCEPT !.mem = m])
      BY <1>0, <1>2, <1>c, ReportType, ProgressType DEF Progress, At
    <3> HIDE DEF m
    <3>2. CASE dr[d].rid = NoRemote /\ Goto(d, ToFail(d, "failed"))
      BY <1>b, <3>2
    <3>3. CASE Goto(d, ToMark(d))
      BY <1>b, <3>3
    <3>4. CASE /\ dr[d].rid # NoRemote
               /\ Goto(d, [ToCheck(d, "progress") EXCEPT !.mem = m])
      BY <3>1, <3>4
    <3>5. CASE \E s \in {"failed", "failed_retryable"} : Goto(d, ToFail(d, s))
      BY <1>b, <3>5
    <3> QED
      BY <1>2, <3>2, <3>3, <3>4, <3>5 DEF Progress, ReconcileTerminal, m
  <2> QED
    BY <1>2, <2>2, <2>3, QuietGoto DEF Progress
<1>3. CASE Preflight(d)
  <2>1. dr[d].rid # NoRemote
    BY <1>0, <1>3 DEF Preflight, At, Good, Shape
  <2>2. taskState' \in [Ops -> TaskState]
    BY <1>3, <2>1, ReconcileType DEF Preflight, TypeInv, RowsOK
  <2>3. RowsOK'
    BY <1>3, <2>2, BudgetAssumption DEF Preflight, Fault, TypeInv, RowsOK
  <2>4. /\ Good([ToCheck(d, "progress") EXCEPT !.mem = Report(d)])
        /\ Good(ToCheck(d, "cutover"))
    BY <1>3, <1>c, <2>1, ReportType DEF Preflight, At
  <2>5. PICK s : Good(s) /\ Goto(d, s)
    BY <1>3, <1>b, <2>4 DEF Preflight, ReconcileTerminal, Goto
  <2> QED
    BY <1>3, <2>3, <2>5, QuietGoto DEF Preflight
<1>4. CASE SendCutover(d)
  <2>1. Me(d) \in Ops \X Attempts
    BY <1>0, <1>4, ReportType DEF SendCutover, At, Good, Shape, Me
  <2>2. RowsOK'
    BY <1>4, <2>1, BudgetAssumption DEF SendCutover, Fault, TypeInv, RowsOK
  <2>3. Good([ToCheck(d, "progress") EXCEPT !.mem = "cutting_over"])
    BY <1>4, <1>c DEF SendCutover, At, ApplyState
  <2>4. PICK s : Good(s) /\ Goto(d, s)
    BY <1>4, <1>b, <2>3 DEF SendCutover
  <2> QED
    BY <1>4, <2>2, <2>4, QuietGoto DEF SendCutover
<1>5. CASE MarkRemoteApplyFailed(d)
  <2>1. dr[d].rep \in TaskState
    BY <1>0, <1>5 DEF MarkRemoteApplyFailed, At, Good, Shape, TaskState
  <2>2. taskState' \in [Ops -> TaskState]
    BY <1>5, <1>a, <2>1, SetTaskType DEF MarkRemoteApplyFailed
  <2>3. RowsOK'
    BY <1>5, <2>2 DEF MarkRemoteApplyFailed, TypeInv, RowsOK
  <2> QED
    BY <1>5, <1>b, <2>3, QuietGoto DEF MarkRemoteApplyFailed
<1> QED
  BY <1>1, <1>2, <1>3, <1>4, <1>5

LEMMA SettleType ==
  ASSUME TypeInv, NEW d \in Drivers,
         \/ MarkOperation(d) \/ StopPendingSiblings(d) \/ Reload(d)
         \/ Publish(d) \/ Finish(d)
  PROVE  TypeInv'
<1> USE DEF applyVars, opVars, remoteVars
<1>0. Good(dr[d]) /\ applyState \in ApplyState
  BY DEF TypeInv, DriversOK, RowsOK
<1>1. CASE MarkOperation(d)
  <2>1. RowsOK'
    <3>1. DeriveApplyState({MyTask(d)}) \in ApplyState
      BY DeriveType
    <3>2. /\ opState' \in [Ops -> ApplyState] /\ opFresh' \in [Ops -> BOOLEAN]
      BY <1>1, <3>1 DEF MarkOperation, TypeInv, RowsOK
    <3> QED
      BY <1>1, <3>2 DEF MarkOperation, TypeInv, RowsOK
  <2>2. PICK s : Good(s) /\ Goto(d, s)
    BY <1>0, <1>1, IdleGood, MarkedGood DEF MarkOperation, At, End
  <2> QED
    BY <1>1, <2>1, <2>2, QuietGoto DEF MarkOperation
<1>2. CASE StopPendingSiblings(d)
  <2>1. PendingStopped \in [Ops -> ApplyState]
    BY DEF PendingStopped, TypeInv, RowsOK, ApplyState
  <2>2. RowsOK'
    BY <1>2, <2>1 DEF StopPendingSiblings, TypeInv, RowsOK
  <2>3. PICK s : Good(s) /\ Goto(d, s)
    BY <1>0, <1>2, IdleGood, SettleGood, Zenon DEF StopPendingSiblings, At, End
  <2> QED
    BY <1>2, <2>2, <2>3, QuietGoto DEF StopPendingSiblings
<1>3. CASE Reload(d)
  <2>1. RowsOK'
    BY <1>3 DEF Reload, TypeInv, RowsOK
  <2> QED
    BY <1>0, <1>3, <2>1, SettleGood, QuietGoto, Zenon DEF Reload, At
<1>4. CASE Publish(d)
  <2>1. RowsOK'
    BY <1>4 DEF Publish, TypeInv, RowsOK
  <2> QED
    BY <1>0, <1>4, <2>1, SettleGood, QuietGoto, Zenon DEF Publish, At
<1>5. CASE Finish(d)
  <2>1. RowsOK'
    BY <1>5 DEF Finish, CompleteStop, TypeInv, RowsOK
  <2> QED
    BY <1>5, <2>1, EndType DEF Finish
<1> QED
  BY <1>1, <1>2, <1>3, <1>4, <1>5

LEMMA WholeType ==
  ASSUME TypeInv, NEW d \in Drivers,
         \/ WholeDrive(d) \/ WholeStopTasks(d) \/ WholeStopApply(d)
         \/ WholeStopDone(d) \/ WholeStopOperations(d)
         \/ WholeDispatch(d) \/ WholePoll(d) \/ WholeFail(d)
  PROVE  TypeInv'
<1> USE DEF applyVars, opVars, remoteVars
<1>0. Good(dr[d]) /\ applyState \in ApplyState
  BY DEF TypeInv, DriversOK, RowsOK
<1>1. \A p \in WholePC : Good([dr[d] EXCEPT !.pc = p])
  BY <1>0, WholeStepGood DEF WholeDrive, WholeStopTasks, WholeStopApply, At,
     WholeStopDone, WholeStopOperations, WholeDispatch, WholePoll, WholeFail,
     WholePC
<1>2. ASSUME NEW s \in TaskState
      PROVE  TasksSettled(s) \in [Ops -> TaskState]
  BY DEF TasksSettled, TypeInv, RowsOK
<1>3. CASE WholeDrive(d)
  <2>1. RowsOK'
    BY <1>3 DEF WholeDrive, TypeInv, RowsOK
  <2>2. PICK p \in WholePC : Goto(d, [dr[d] EXCEPT !.pc = p])
    BY <1>3 DEF WholeDrive, WholePC
  <2> QED
    BY <1>1, <1>3, <2>1, <2>2, QuietGoto DEF WholeDrive
<1>4. ASSUME NEW p \in WholePC \cup {"reload"}, Onward(d, p),
             p = "reload" => At(d, "stopPending")
      PROVE  \E s : Good(s) /\ Goto(d, s)
  BY <1>0, <1>1, <1>4, IdleGood, SettleGood, Zenon DEF Onward, At
<1>5. CASE WholeStopTasks(d)
  <2>1. RowsOK'
    BY <1>2, <1>5, StateSets DEF WholeStopTasks, TypeInv, RowsOK
  <2>2. PICK s : Good(s) /\ Goto(d, s)
    BY <1>4, <1>5 DEF WholeStopTasks, WholePC
  <2> QED
    BY <1>5, <2>1, <2>2, QuietGoto DEF WholeStopTasks
<1>6. CASE WholeStopApply(d)
  <2>1. RowsOK'
    BY <1>6, StateSets DEF WholeStopApply, TypeInv, RowsOK
  <2>2. PICK s : Good(s) /\ Goto(d, s)
    BY <1>4, <1>6 DEF WholeStopApply, WholePC
  <2> QED
    BY <1>6, <2>1, <2>2, QuietGoto DEF WholeStopApply
<1>7. CASE WholeStopDone(d)
  <2>1. RowsOK'
    BY <1>7 DEF WholeStopDone, TypeInv, RowsOK
  <2>2. PICK s : Good(s) /\ Goto(d, s)
    BY <1>4, <1>7 DEF WholeStopDone, WholePC
  <2> QED
    BY <1>7, <2>1, <2>2, QuietGoto DEF WholeStopDone
<1>8. CASE WholeStopOperations(d)
  <2>1. PendingStopped \in [Ops -> ApplyState]
    BY DEF PendingStopped, TypeInv, RowsOK, ApplyState
  <2>2. RowsOK'
    BY <1>8, <2>1 DEF WholeStopOperations, TypeInv, RowsOK
  <2>3. PICK s : Good(s) /\ Goto(d, s)
    BY <1>4, <1>8 DEF WholeStopOperations
  <2> QED
    BY <1>8, <2>2, <2>3, QuietGoto DEF WholeStopOperations
<1>9. CASE WholeDispatch(d)
  <2>1. RowsOK'
    BY <1>9 DEF WholeDispatch, TypeInv, RowsOK
  <2>2. PICK p \in WholePC : Goto(d, [dr[d] EXCEPT !.pc = p])
    BY <1>9 DEF WholeDispatch, WholePC
  <2> QED
    BY <1>1, <1>9, <2>1, <2>2, QuietGoto DEF WholeDispatch
<1>10. CASE WholePoll(d)
  <2>1. \A report \in {"running", "completed", "failed"} :
          /\ report \in ApplyState
          /\ [o \in Ops |-> SyncedTask(taskState[o], report)]
               \in [Ops -> TaskState]
    <3>1. \A report \in {"running", "completed", "failed"} :
            report \in ApplyState /\ report \in TaskState
      BY DEF ApplyState, TaskState
    <3>2. taskState \in [Ops -> TaskState]
      BY DEF TypeInv, RowsOK
    <3> QED
      BY <3>1, <3>2, SyncedType
  <2>2. RowsOK'
    BY <1>10, <2>1 DEF WholePoll, TypeInv, RowsOK
  <2>3. PICK s : Good(s) /\ Goto(d, s)
    BY <1>0, <1>1, <1>10, IdleGood DEF WholePoll, End, WholePC
  <2> QED
    BY <1>10, <2>2, <2>3, QuietGoto DEF WholePoll
<1>11. CASE WholeFail(d)
  <2>1. "failed" \in TaskState /\ "failed" \in ApplyState
    BY DEF TaskState, ApplyState
  <2>2. RowsOK'
    BY <1>2, <1>11, <2>1 DEF WholeFail, TypeInv, RowsOK
  <2> QED
    BY <1>11, <2>2, EndType DEF WholeFail
<1> QED
  BY <1>3, <1>5, <1>6, <1>7, <1>8, <1>9, <1>10, <1>11

LEMMA EnvironmentType ==
  ASSUME TypeInv,
         \/ \E d \in Drivers : Heartbeat(d) \/ AbortLostLease(d) \/ Crash(d)
         \/ \E o \in Ops : GoStale(o)
         \/ \E o \in Ops, k \in Attempts : RemoteStep(o, k)
         \/ ExpireRetryable \/ ApplyGoesStale \/ ApplyAges
         \/ ValidateStop \/ QueueStop
  PROVE  TypeInv'
<1> USE DEF applyVars, opVars, remoteVars
\* A step of the environment that leaves the drivers alone.
<1>0. ASSUME RowsOK', UNCHANGED dr,
             UNCHANGED <<applyAttempt, opAttempt, opRemote, remote>>
      PROVE  TypeInv'
  <2>1. RetriesCounted' /\ RemoteKnown'
    BY <1>0, QuietType
  <2>2. DriversOK'
    BY <1>0 DEF TypeInv, DriversOK, Good, Joined
  <2> QED
    BY <1>0, <2>1, <2>2 DEF TypeInv
<1>1. ASSUME NEW d \in Drivers, Heartbeat(d) PROVE TypeInv'
  <2>1. RowsOK'
    BY <1>1 DEF Heartbeat, TypeInv, RowsOK
  <2> QED
    BY <1>0, <1>1, <2>1 DEF Heartbeat
<1>2. ASSUME NEW d \in Drivers, AbortLostLease(d) PROVE TypeInv'
  <2>1. RowsOK'
    BY <1>2 DEF AbortLostLease, TypeInv, RowsOK
  <2> QED
    BY <1>2, <2>1, EndType DEF AbortLostLease
<1>3. ASSUME NEW d \in Drivers, Crash(d) PROVE TypeInv'
  <2>1. RowsOK'
    BY <1>3, BudgetAssumption DEF Crash, Fault, TypeInv, RowsOK
  <2> QED
    BY <1>3, <2>1, EndType DEF Crash
<1>4. ASSUME NEW o \in Ops, GoStale(o) PROVE TypeInv'
  <2>1. RowsOK'
    BY <1>4, BudgetAssumption DEF GoStale, Fault, TypeInv, RowsOK
  <2> QED
    BY <1>0, <1>4, <2>1 DEF GoStale
<1>5. ASSUME NEW o \in Ops, NEW k \in Attempts, RemoteStep(o, k) PROVE TypeInv'
  <2>1. PICK s \in RemoteNext(o, k) : remote' = [remote EXCEPT ![o][k] = s]
    BY <1>5 DEF RemoteStep
  <2>2. s \in RemoteState \ {"none"}
    BY PolicyAssumption DEF RemoteNext, RemoteState
  <2>3. /\ remote' \in [Ops -> [Attempts -> RemoteState]]
        /\ \A p \in Ops, j \in Attempts :
             remote[p][j] # "none" => remote'[p][j] # "none"
    BY <2>1, <2>2, RemoteUpdate
  <2>4. RowsOK'
    BY <1>5, <2>3 DEF RemoteStep, TypeInv, RowsOK
  <2>5. RetriesCounted' /\ Kept
    BY <1>5, <2>3 DEF RemoteStep, TypeInv, RetriesCounted, Kept
  <2>6. RemoteKnown'
    BY <1>5, <2>5 DEF RemoteStep, TypeInv, RowsOK, RemoteKnown, Kept
  <2>7. DriversOK'
    <3>1. ASSUME NEW d \in Drivers PROVE Good(dr[d])'
      <4>1. PICK r : r = dr[d]
        OBVIOUS
      <4>2. Good(r) /\ dr'[d] = r
        BY <1>5, <4>1 DEF RemoteStep, TypeInv, DriversOK
      <4> QED
        BY <2>5, <4>2, GoodKept DEF Good, Joined
    <3> QED
      BY <1>5, <3>1 DEF RemoteStep, TypeInv, DriversOK
  <2> QED
    BY <2>4, <2>5, <2>6, <2>7 DEF TypeInv
<1>6. CASE ExpireRetryable
  <2>1. "failed" \in TaskState /\ "failed" \in ApplyState
    BY DEF TaskState, ApplyState
  <2>2. RowsOK'
    BY <1>6, <2>1 DEF ExpireRetryable, TasksSettled, TypeInv, RowsOK
  <2> QED
    BY <1>0, <1>6, <2>2 DEF ExpireRetryable
<1>7. CASE ApplyGoesStale \/ ApplyAges \/ ValidateStop \/ QueueStop
  <2>1. RowsOK'
    BY <1>7 DEF ApplyGoesStale, ApplyAges, ValidateStop, QueueStop, TypeInv,
                RowsOK
  <2> QED
    BY <1>0, <1>7, <2>1 DEF ApplyGoesStale, ApplyAges, ValidateStop, QueueStop
<1> QED
  BY <1>1, <1>2, <1>3, <1>4, <1>5, <1>6, <1>7

LEMMA StutterType == ASSUME TypeInv, UNCHANGED vars PROVE TypeInv'
<1>1. RowsOK' /\ RetriesCounted' /\ RemoteKnown'
  BY DEF vars, applyVars, opVars, remoteVars, TypeInv, RowsOK, RetriesCounted,
         RemoteKnown
<1>2. DriversOK'
  BY DEF vars, applyVars, opVars, remoteVars, TypeInv, DriversOK, Good, Joined
<1> QED
  BY <1>1, <1>2 DEF TypeInv

LEMMA StepType == TypeInv /\ [Next]_vars => TypeInv'
<1> SUFFICES ASSUME TypeInv, [Next]_vars PROVE TypeInv'
  OBVIOUS
<1>1. ASSUME NEW d \in Drivers, DriveStep(d) PROVE TypeInv'
  BY <1>1, ProjectionType, StopStepsType, DispatchType, PollType, SettleType,
     WholeType DEF DriveStep
<1> QED
  BY <1>1, ClaimType, ReconciliationType, EnvironmentType, StutterType DEF Next

\* The inductive invariant holds: no driver is ever attached to a remote apply
\* that does not exist (persistRemoteApplyID, loadOperationApplyTaskScope).
THEOREM TypeInvariant == Spec => []TypeInv
BY InitType, StepType, PTL DEF Spec

\* The rows, the requests and the drivers keep their types for any number of
\* operations, drivers, retries and faults; in particular the retry budget
\* bounds the attempts (FindNextApplyOperation).
THEOREM TypeCorrect == Spec => []TypeOK
BY TypeInvariant, TypeInvType, PTL
============================================================================
