------------------------------ MODULE MCEngines -----------------------------
(***************************************************************************)
(* One model for three parts of the data plane that share only the target  *)
(* database: the Spirit engine, the quarantine of dropped tables with its  *)
(* cleaners, and the per-shard progress of a Vitess change.  The initial   *)
(* state picks the part; the variables of the others stay 0.               *)
(***************************************************************************)
EXTENDS Naturals, Sequences

CONSTANTS Tables, Instances, PoolTargets     \* PendingDrops
CONSTANTS MaxTries                           \* VitessProgress

VARIABLES which,
          script, mig, cur, go, db, call, cfg, told, seen,
          now, live, next, pending, passes, lock, faults,
          scn, own, other, deploy, meta, holder, drv, tasks, op, hit
svars == <<script, mig, cur, go, db, call, cfg, told, seen>>
pvars == <<now, live, next, pending, passes, lock, faults>>
qvars == <<scn, own, other, deploy, meta, holder, drv, tasks, op, hit>>
vars == <<which, svars, pvars, qvars>>

Phases == {"create", "alter", "drop"}
Script(plan, defer, ops, again, fail) ==
    [plan |-> plan, defer |-> defer, ops |-> ops, again |-> again, race |-> FALSE, fail |-> fail,
     stops |-> \E i \in 1..Len(ops) : ops[i] = "stop", volumes |-> {3, 5, 6}]
\* A stop, with one failing statement; two volume changes, with or without a
\* second change after the first; a deferred cutover, with a volume change or a
\* stop before it.
Scenarios ==
    {Script(p, FALSE, <<"stop">>, TRUE, 1) : p \in SUBSET Phases \ {{}}}
      \cup {Script(p, FALSE, <<"volume", "volume">>, a, 0) :
               p \in {Phases, {"alter"}, {"create", "drop"}}, a \in BOOLEAN}
      \cup {Script(p, TRUE, o, FALSE, 0) : p \in {Phases, {"alter"}},
               o \in {<<"cutover">>, <<"volume", "cutover">>, <<"stop", "cutover">>}}
\* Each with the operator's calls while the drive polls, and at any moment.
EngineScripts ==
    Scenarios \cup {[s EXCEPT !.race = TRUE] : s \in {r \in Scenarios : r.plan = Phases}}

sp == INSTANCE SpiritEngine WITH Scripts <- EngineScripts, MaxMig <- 2, MaxGo <- 4
pd == INSTANCE PendingDrops
        WITH Targets <- PoolTargets, Retention <- 1, MaxTime <- 2, MaxRows <- 2, MaxFault <- 1

\* A drive displaced, or lost beside another change; a change begun meanwhile; a
\* deferred deploy; a shard and a write that fail; an unreadable baseline.
Change(deferred, beside, flt) == [deferred |-> deferred, other |-> beside, faults |-> flt]
VitessChanges ==
    {Change(FALSE, "none", {"displace"}), Change(FALSE, "old", {"crash"}), Change(FALSE, "later", {}),
     Change(TRUE, "none", {"crash"}), Change(FALSE, "none", {"write", "fail"}), Change(FALSE, "old", {"unread"})}
vp == INSTANCE VitessProgress WITH Shards <- 1..2, MaxDrives <- 2, Changes <- VitessChanges

SpiritOff ==
    script = 0 /\ mig = 0 /\ cur = 0 /\ go = 0 /\ db = 0 /\ call = 0 /\ cfg = 0 /\ told = 0 /\ seen = 0
DropsOff == now = 0 /\ live = 0 /\ next = 0 /\ pending = 0 /\ passes = 0 /\ lock = 0 /\ faults = 0
VitessOff ==
    /\ scn = 0 /\ own = 0 /\ other = 0 /\ deploy = 0 /\ meta = 0
    /\ holder = 0 /\ drv = 0 /\ tasks = 0 /\ op = 0 /\ hit = 0

Init ==
    \/ which = "spirit" /\ sp!Init /\ DropsOff /\ VitessOff
    \/ which = "drops" /\ pd!Init /\ SpiritOff /\ VitessOff
    \/ which = "vitess" /\ vp!Init /\ SpiritOff /\ DropsOff

InSpirit(A) == which = "spirit" /\ A /\ UNCHANGED <<which, pvars, qvars>>
InDrops(A) == which = "drops" /\ A /\ UNCHANGED <<which, svars, qvars>>
InVitess(A) == which = "vitess" /\ A /\ UNCHANGED <<which, svars, pvars>>

Next == InSpirit(sp!Next) \/ InDrops(pd!Next) \/ InVitess(vp!Next)
Spec == Init /\ [][Next]_vars
\* The fairness of the FairSpec of each part.  A behaviour stays in one part, so
\* weak fairness of a disjunction over parts is that of each of its disjuncts.
Runner(g) == InSpirit(g <= Len(go) /\ sp!executeMigration(g))
FairSpec ==
    /\ Spec
    /\ WF_vars(Runner(1) \/ InDrops(pd!Tick) \/ InVitess(vp!Drive(1)))
    /\ WF_vars(Runner(2) \/ InVitess(vp!Drive(2)))
    /\ WF_vars(Runner(3) \/ InVitess(\E d \in 1..2 : vp!Claim(d)))
    /\ WF_vars(Runner(4) \/ InVitess(vp!VitessStarts \/ vp!DeployEnds))
    /\ WF_vars(InSpirit(sp!Drive)) /\ WF_vars(InSpirit(sp!ControlCalls))
    /\ \A i \in Instances : WF_vars(InSpirit(sp!ControlReturns) \/ InDrops(pd!Cleaner(i)))
-----------------------------------------------------------------------------
\* A completed migration has its whole plan live, and tables are dropped last
\* (SpiritEngine!CompletedIsLive, DropsLast).
CompletedIsLive == which = "spirit" => sp!CompletedIsLive /\ sp!DropsLast

\* One goroutine at a time runs the ALTER, and none works on a change after Stop
\* has answered (SpiritEngine!OneRunner, StoppedIsQuiet).
StoppedIsQuiet == which = "spirit" => sp!OneRunner /\ sp!StoppedIsQuiet

\* The drive's poll never sees the stop inside a volume change, which leaves the
\* settings asked for (SpiritEngine!VolumeHidden, VolumeServed).
VolumeKept == which = "spirit" => sp!VolumeHidden /\ sp!VolumeServed

\* Rows leave the server only after a full retention period in quarantine, and
\* what a change drops is in quarantine under a name that tells when
\* (PendingDrops!RowsKept).
RowsKept ==
    [][which = "drops" =>
        /\ \A q \in pending :
             q \notin pending' /\ (live'[q.table] # q.rows) => q.named /\ now > q.ts + 1
        /\ \A t \in Tables :
             live[t] # 0 /\ live'[t] = 0
               => \E q \in pending' : q.table = t /\ q.rows = live[t] /\ q.named /\ q.ts = now]_vars

\* Another change is not taken for this one (VitessProgress!ContextIsOwn).
ContextIsOwn == which = "vitess" => vp!ContextIsOwn

\* A table's headline is the worst of its shards, a shard has one task row, and at
\* the end the rows show how each shard ended (VitessProgress!ShardsShown).
ShardsShown == which = "vitess" => vp!ShardsShown

\* What was begun comes to its end: every control call returns and the drive sees
\* the change end (SpiritEngine!Settles), an expired table goes
\* (PendingDrops!ExpiredGoes), a running change gets its context and shard rows
\* and an ended one ends the operation (VitessProgress!ProgressAttaches).
WorkEnds ==
    []<>(/\ which = "spirit" =>
              \/ call["control"].pc = "idle" /\ (sp!Used = {} \/ sp!IsTerminal(seen))
              \/ script.race /\ script.defer
         /\ which = "drops" => (now = 2 => ~\E q \in pending : q.named /\ now > q.ts + 1)
         /\ which = "vitess" => vp!Attached)
=============================================================================
