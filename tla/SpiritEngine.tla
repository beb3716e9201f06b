---------------------------- MODULE SpiritEngine ----------------------------
(***************************************************************************)
(* The embedded MySQL engine (pkg/engine/spirit): one Engine value shared  *)
(* by the drive that applies a plan and by the control handlers.  The      *)
(* engine keeps one pointer, e.runningMigration, guarded by e.mu; each     *)
(* Apply or Start spawns a goroutine that runs the plan in three phases    *)
(* (CREATE, the combined ALTER, DROP) and records the outcome through      *)
(* whatever the pointer holds at that moment.  Every section under e.mu is *)
(* one step here, every gap between two sections is an interleaving point. *)
(* A plan has at most one statement per phase; Spirit's runner and the     *)
(* target database are external and modelled by what the engine sees.      *)
(***************************************************************************)
EXTENDS Naturals, FiniteSets, Sequences

CONSTANTS Scripts,   \* the scenarios: plan, defer, ops, again, race
          MaxMig,    \* runningMigration values ever created
          MaxGo      \* goroutines ever spawned

VARIABLES script,    \* the scenario
          mig,       \* the runningMigration values, by number
          cur,       \* e.runningMigration: a number, or 0 for nil
          go,        \* the goroutines, in the order they were spawned
          db,        \* the target: statements applied, the sentinel table
          call,      \* the call each caller is in
          cfg,       \* e.threads, e.targetChunkTime, e.lockWaitTimeout
          told,      \* what the last returning control call answered
          seen       \* the state the drive's last Progress poll saw
vars == <<script, mig, cur, go, db, call, cfg, told, seen>>

Phases == {"create", "alter", "drop"}
Callers == {"drive", "control"}
IsTerminal(s) == s \in {"completed", "failed", "stopped"}

\* Config defaults and New: the settings of a fresh engine (milliseconds).
New == [threads |-> 2, chunk |-> 2000, lock |-> 30000]

\* cpuScaledThreads: ceil(cpuHint / divisor), or the fallback, in [2, 16].
cpuScaledThreads(hint, divisor, fallback) ==
    LET n == IF hint > 0 THEN (hint + divisor - 1) \div divisor ELSE fallback
        low == IF n < 2 THEN 2 ELSE n
    IN  IF low > 16 THEN 16 ELSE low

\* volumeToSpiritSettings: threads, chunk time and lock timeout of a volume.
volumeToSpiritSettings(volume, hint) ==
    LET S(t, c, l) == [threads |-> t, chunk |-> c, lock |-> l]
        Cpu(d, f, l) == S(cpuScaledThreads(hint, d, f), 5000, l)
    IN  CASE volume = 1  -> S(1, 100, 10000)
          [] volume = 2  -> S(2, 500, 15000)
          [] volume = 4  -> S(4, 2000, 60000)
          [] volume = 5  -> S(8, 2000, 60000)
          [] volume = 6  -> Cpu(16, 8, 60000)
          [] volume = 7  -> Cpu(12, 8, 60000)
          [] volume = 8  -> Cpu(8, 12, 60000)
          [] volume = 9  -> Cpu(6, 12, 60000)
          [] volume = 10 -> Cpu(4, 16, 600000)
          [] volume = 11 -> Cpu(2, 16, 600000)
          [] OTHER       -> S(2, 2000, 30000)

\* settingsToVolume: the volume a Volume call takes to be the current one.
settingsToVolume(s) ==
    CASE s.threads <= 1  -> 1
      [] s.threads <= 2  -> IF s.chunk <= 1000 THEN 2 ELSE 3
      [] s.threads <= 4  -> 4
      [] s.threads <= 8  -> IF s.chunk <= 2000 THEN 5 ELSE 6
      [] s.threads <= 12 -> 8
      [] OTHER           -> 10

NoMig == [state |-> "none", ddl |-> {}, stmt |-> FALSE, cancel |-> 0, vol |-> FALSE]
Idle == [pc |-> "idle", m |-> 0, op |-> "none", ddl |-> {}, stmt |-> FALSE, vol |-> 0]

Init ==
    /\ script \in Scripts
    /\ mig = [m \in 1..MaxMig |-> NoMig]
    /\ cur = 0
    /\ go = <<>>
    /\ db = [applied |-> {}, sentinel |-> FALSE, fail |-> script.fail]
    /\ call = [c \in Callers |-> Idle]
    /\ cfg = New
    /\ told = [op |-> "none", ok |-> TRUE, m |-> 0, vol |-> 0]
    /\ seen = "none"

Used == {m \in 1..MaxMig : mig[m].state # "none"}
wg(m) == {g \in 1..Len(go) : go[g].m = m /\ go[g].pc # "exit"}
Become(c, pc) == call' = [call EXCEPT ![c].pc = pc]
Return(c, ok) ==
    /\ call' = [call EXCEPT ![c] = Idle]
    /\ told' = [op |-> call[c].op, ok |-> ok, m |-> call[c].m, vol |-> call[c].vol]
Spawn(g) == go' = Append(go, g)
-----------------------------------------------------------------------------
(* The drive: resume drains the engine, plans what is missing, calls Apply. *)

\* Drain reads e.runningMigration; with none it returns at once.
DrainReads(c, wait, done) ==
    call' = [call EXCEPT ![c].m = cur, ![c].pc = IF cur = 0 THEN done ELSE wait]

\* resumeApplyWithTasks (and a first claim): Drain before the plan is made.  The
\* drive resumes once it saw the change end and no control call is under way.
ResumeDrains ==
    /\ call["drive"].pc = "idle"
    /\ Used # {} => script.again /\ IsTerminal(seen)
    /\ Used # {} => script.race \/ call["control"].pc = "idle"
    /\ Cardinality(Used) < MaxMig
    /\ DrainReads("drive", "predrain", "plan")
    /\ seen' = "none"
    /\ UNCHANGED <<script, mig, cur, go, db, cfg, told>>

\* rm.wg.Wait() of Drain: every goroutine of the migration has exited.
DrainWaited(c, from, to) ==
    /\ call[c].pc = from
    /\ wg(call[c].m) = {}
    /\ Become(c, to)
    /\ UNCHANGED <<script, mig, cur, go, db, cfg, told, seen>>

\* The last section of Drain: e.runningMigration = nil.
DrainClears(c, from, to) ==
    /\ call[c].pc = from
    /\ cur' = 0
    /\ Become(c, to)
    /\ UNCHANGED <<script, mig, go, db, cfg, told, seen>>

\* The plan of what is not live yet; with nothing left the drive completes, and
\* Apply with no statement returns at once.
Plan ==
    /\ call["drive"].pc = "plan"
    /\ LET ddl == script.plan \ db.applied
       IN  IF ddl = {}
           THEN /\ call' = [call EXCEPT !["drive"] = Idle]
                /\ seen' = "completed"
           ELSE /\ call' = [call EXCEPT !["drive"].ddl = ddl, !["drive"].m = cur,
                                !["drive"].pc = IF cur = 0 THEN "install" ELSE "drain"]
                /\ UNCHANGED seen
    /\ UNCHANGED <<script, mig, cur, go, db, cfg, told>>

\* Apply installs the new runningMigration under e.mu.
ApplyInstalls ==
    /\ call["drive"].pc = "install"
    /\ LET m == Cardinality(Used) + 1
       IN  /\ mig' = [mig EXCEPT ![m] = [NoMig EXCEPT !.state = "running",
                                                     !.ddl = call["drive"].ddl]]
           /\ cur' = m
           /\ call' = [call EXCEPT !["drive"].m = m, !["drive"].pc = "spawn"]
    /\ UNCHANGED <<script, go, db, cfg, told, seen>>

\* Apply spawns the goroutine and returns.
ApplySpawns ==
    /\ call["drive"].pc = "spawn"
    /\ Len(go) < MaxGo
    /\ Spawn([m |-> call["drive"].m, pc |-> "enter", ctx |-> FALSE, resume |-> FALSE,
              ddl |-> call["drive"].ddl])
    /\ call' = [call EXCEPT !["drive"] = Idle]
    /\ UNCHANGED <<script, mig, cur, db, cfg, told, seen>>
-----------------------------------------------------------------------------
(* The goroutine.                                                          *)

Goto(g, pc) == go' = [go EXCEPT ![g].pc = pc]
\* setMigrationFailed and setMigrationCompleted write to the current migration.
Record(s) == mig' = IF cur = 0 THEN mig ELSE [mig EXCEPT ![cur].state = s]

\* The first section of the goroutine: it stores its cancel in the current
\* migration, whichever that is.
StoreCancel(g) ==
    /\ go[g].pc = "enter"
    /\ mig' = IF cur = 0 THEN mig ELSE [mig EXCEPT ![cur].cancel = g]
    /\ go' = [go EXCEPT ![g].pc = IF go[g].resume THEN "setup" ELSE "create"]
    /\ UNCHANGED <<script, cur, db, call, cfg, told, seen>>

\* Every statement fails once its context is cancelled.
Cancelled(g) == go[g].ctx

\* executeCreateStatements and executeDropStatements: one statement of phase p.
\* It cannot run twice: CREATE finds the table, the DROP misses it.
executeSingleStatement(g, p, next) ==
    /\ go[g].pc = p
    /\ \/ /\ p \notin go[g].ddl
          /\ Goto(g, next)
          /\ UNCHANGED <<mig, db>>
       \/ /\ p \in go[g].ddl /\ Cancelled(g)
          /\ Goto(g, "exit")
          /\ UNCHANGED <<mig, db>>
       \/ /\ p \in go[g].ddl /\ ~Cancelled(g) /\ p \notin db.applied
          /\ db' = [db EXCEPT !.applied = @ \cup {p}]
          /\ Goto(g, next)
          /\ UNCHANGED mig
       \/ /\ p \in go[g].ddl /\ ~Cancelled(g)
          /\ p \in db.applied \/ db.fail > 0
          /\ db' = [db EXCEPT !.fail = IF p \in db.applied THEN @ ELSE @ - 1]
          /\ Record("failed")
          /\ Goto(g, "exit")
    /\ UNCHANGED <<script, cur, call, cfg, told, seen>>

\* executeAlterPhase and executeSpiritMigration up to Run: the runner and the
\* combined statement are recorded in the current migration.  Spirit creates
\* the sentinel when the cutover is deferred, unless it resumes a checkpoint.
SetupAlter(g) ==
    /\ go[g].pc = "setup"
    /\ IF "alter" \notin go[g].ddl
       THEN Goto(g, "drop") /\ UNCHANGED <<mig, db>>
       ELSE /\ mig' = IF cur = 0 THEN mig ELSE [mig EXCEPT ![cur].stmt = TRUE]
            /\ \E s \in {script.defer} \cup (IF go[g].resume THEN {db.sentinel} ELSE {}) :
                 db' = [db EXCEPT !.sentinel = s]
            /\ Goto(g, "alter")
    /\ UNCHANGED <<script, cur, call, cfg, told, seen>>

\* resumeMigration skips the CREATE phase; stopped during its ALTER it returns,
\* where executeMigration enters the drop phase.
resumeMigration(g) == IF go[g].resume /\ go[g].ctx THEN "exit" ELSE "drop"

\* runner.Run of the combined ALTER.  A cancelled run returns nil, so the drop
\* phase may be entered with a cancelled context.
\* An ALTER that is live already fails or changes nothing.
RunAlter(g) ==
    /\ go[g].pc = "alter"
    /\ \/ /\ go[g].ctx
          /\ Goto(g, resumeMigration(g))
          /\ UNCHANGED <<mig, db>>
       \/ /\ script.defer => ~db.sentinel
          /\ db' = [db EXCEPT !.applied = @ \cup {"alter"}]
          /\ Goto(g, resumeMigration(g))
          /\ UNCHANGED mig
       \/ /\ ~go[g].ctx
          /\ "alter" \in db.applied \/ db.fail > 0
          /\ db' = [db EXCEPT !.fail = IF "alter" \in db.applied THEN @ ELSE @ - 1]
          /\ Record("failed")
          /\ Goto(g, "exit")
    /\ UNCHANGED <<script, cur, call, cfg, told, seen>>

\* As Finish, but a migration that Volume is restarting is taken for a stopped one.
FinishUnlessRestarted(g) ==
    /\ go[g].pc = "finish"
    /\ Goto(g, IF go[g].ctx \/ (cur # 0 /\ mig[cur].vol) THEN "exit" ELSE "complete")
    /\ UNCHANGED <<script, mig, cur, db, call, cfg, told, seen>>

\* The end of executeMigration: ctx.Err() is read before the outcome is set.
Finish(g) ==
    /\ go[g].pc = "finish"
    /\ Goto(g, IF go[g].ctx THEN "exit" ELSE "complete")
    /\ UNCHANGED <<script, mig, cur, db, call, cfg, told, seen>>

setMigrationCompleted(g) ==
    /\ go[g].pc = "complete"
    /\ Record("completed")
    /\ Goto(g, "exit")
    /\ UNCHANGED <<script, cur, db, call, cfg, told, seen>>

\* As the code, but completion is recorded before the DROP phase.
CompletedBeforeDrops(g) ==
    \/ StoreCancel(g)
    \/ executeSingleStatement(g, "create", "setup")
    \/ SetupAlter(g)
    \/ RunAlter(g)
    \/ /\ go[g].pc = "drop" /\ Record("completed") /\ Goto(g, "late")
       /\ UNCHANGED <<script, cur, db, call, cfg, told, seen>>
    \/ /\ go[g].pc = "late" /\ Goto(g, "exit")
       /\ db' = [db EXCEPT !.applied = @ \cup (go[g].ddl \cap {"drop"})]
       /\ UNCHANGED <<script, mig, cur, call, cfg, told, seen>>

\* executeMigration: CREATE, the combined ALTER, DROP, completion.
executeMigration(g) ==
    \/ StoreCancel(g)
    \/ executeSingleStatement(g, "create", "setup")
    \/ SetupAlter(g)
    \/ RunAlter(g)
    \/ executeSingleStatement(g, "drop", "finish")
    \/ Finish(g)
    \/ setMigrationCompleted(g)
-----------------------------------------------------------------------------
(* Progress.                                                               *)

\* As progressState, but the restart flag is not looked at.
StateAsTracked(m) == mig[m].state

\* progressState: a stopped migration that Volume is restarting is running; a
\* deferred one whose runner waits on the sentinel is waiting for cutover.
progressState(m) ==
    LET s == IF mig[m].state = "stopped" /\ mig[m].vol THEN "running" ELSE mig[m].state
        waits == \E g \in 1..Len(go) : go[g].pc = "alter" /\ go[g].m = m
    IN  IF ~IsTerminal(s) /\ script.defer /\ db.sentinel /\ waits
        THEN "waiting_for_cutover" ELSE s

\* The drive polls; a nil migration reads as pending.
Progress ==
    /\ call["drive"].pc = "idle"
    /\ Used # {}
    /\ ~IsTerminal(seen)
    /\ seen' = IF cur = 0 THEN "pending" ELSE progressState(cur)
    /\ seen' # seen
    /\ UNCHANGED <<script, mig, cur, go, db, call, cfg, told>>
-----------------------------------------------------------------------------
(* Control calls: Stop, Cutover, Volume (which calls Stop, then Start).     *)

\* A control handler acts on an active task once Apply has returned.  Without
\* script.race it comes while the drive polls, after the goroutine has stored
\* its cancel: neither is enforced by the code.
Control(op) ==
    /\ call["control"].pc = "idle"
    /\ script.ops # <<>> /\ Head(script.ops) = op
    /\ go # <<>>
    /\ ~script.race => /\ call["drive"].pc = "idle" /\ ~IsTerminal(seen)
                       /\ \A g \in 1..Len(go) : go[g].pc # "enter"
    /\ script' = [script EXCEPT !.ops = Tail(@)]

\* Stop's first section; with no migration it is refused, a stopped one is
\* answered at once.  The checkpoint it forces next is Spirit's.
StopReads(c) ==
    IF cur = 0 THEN Return(c, FALSE)
    ELSE IF mig[cur].state = "stopped" /\ call[c].op = "stop" THEN Return(c, TRUE)
    ELSE /\ call' = [call EXCEPT ![c].m = cur,
                         ![c].pc = IF mig[cur].state = "stopped" THEN "resettings"
                                   ELSE "cancel"]
         /\ UNCHANGED told

Stop ==
    /\ Control("stop")
    /\ call' = [call EXCEPT !["control"].op = "stop", !["control"].pc = "stop"]
    /\ UNCHANGED <<mig, cur, go, db, cfg, told, seen>>

StopStarts ==
    /\ call["control"].pc = "stop"
    /\ StopReads("control")
    /\ UNCHANGED <<script, mig, cur, go, db, cfg, seen>>

\* Stop's second section: cancel the stored context, record stopped.
StopCancels ==
    /\ call["control"].pc = "cancel"
    /\ LET m == call["control"].m
           g == mig[m].cancel
       IN  /\ mig' = [mig EXCEPT ![m].state = "stopped"]
           /\ go' = IF g = 0 THEN go ELSE [go EXCEPT ![g].ctx = TRUE]
           /\ Become("control", "stopped")
    /\ UNCHANGED <<script, cur, db, cfg, told, seen>>

\* As StopWaits, but Stop answers while the goroutine still winds down.
StopDoesNotWait ==
    /\ call["control"].pc = "stopped"
    /\ IF call["control"].op = "stop" THEN Return("control", TRUE)
       ELSE Become("control", "resettings") /\ UNCHANGED told
    /\ UNCHANGED <<script, mig, cur, go, db, cfg, seen>>

\* Stop waits for the goroutine, then answers; in a Volume the call goes on.
StopWaits ==
    /\ call["control"].pc = "stopped"
    /\ wg(call["control"].m) = {}
    /\ IF call["control"].op = "stop" THEN Return("control", TRUE)
       ELSE Become("control", "resettings") /\ UNCHANGED told
    /\ UNCHANGED <<script, mig, cur, go, db, cfg, seen>>

\* setVolumeRestartInProgress: only while the migration is still the current one.
setVolumeRestartInProgress(m, on) ==
    mig' = IF cur = m /\ m # 0 THEN [mig EXCEPT ![m].vol = on] ELSE mig

\* Volume up to its Stop: an unchanged volume returns without a restart.
Volume ==
    /\ Control("volume")
    /\ \E v \in script.volumes :
         /\ IF cur = 0 \/ settingsToVolume(cfg) = v
            THEN /\ told' = [op |-> "volume", ok |-> cur # 0, m |-> cur, vol |-> v]
                 /\ UNCHANGED <<call, mig>>
            ELSE /\ call' = [call EXCEPT !["control"] = [Idle EXCEPT !.op = "volume",
                                 !.m = cur, !.vol = v, !.pc = "stop"]]
                 /\ setVolumeRestartInProgress(cur, TRUE)
                 /\ UNCHANGED told
    /\ UNCHANGED <<cur, go, db, cfg, seen>>

\* The new settings, then Start's first section: it captures what it resumes.
VolumeSets ==
    /\ call["control"].pc = "resettings"
    /\ cfg' = volumeToSpiritSettings(call["control"].vol, 0)
    /\ IF cur # 0 /\ mig[cur].state = "stopped"
       THEN /\ call' = [call EXCEPT !["control"].pc = "restart", !["control"].m = cur,
                                    !["control"].stmt = mig[cur].stmt,
                                    !["control"].ddl = mig[cur].ddl]
            /\ UNCHANGED <<mig, told>>
       ELSE /\ setVolumeRestartInProgress(call["control"].m, FALSE)
            /\ Return("control", cur # 0 /\ mig[cur].state = "running")
    /\ UNCHANGED <<script, cur, go, db, seen>>

\* Start's second section.
StartRuns ==
    /\ call["control"].pc = "restart"
    /\ mig' = [mig EXCEPT ![call["control"].m].state = "running"]
    /\ Become("control", "respawn")
    /\ UNCHANGED <<script, cur, go, db, cfg, told, seen>>

\* Start spawns resumeMigration: from the combined statement when one was
\* recorded, otherwise the whole plan again.
StartSpawns ==
    /\ call["control"].pc = "respawn"
    /\ Len(go) < MaxGo
    /\ Spawn([m |-> call["control"].m, pc |-> "enter", ctx |-> FALSE,
              resume |-> call["control"].stmt, ddl |-> call["control"].ddl])
    /\ Become("control", "unflag")
    /\ UNCHANGED <<script, mig, cur, db, cfg, told, seen>>

\* The end of Volume.
VolumeReturns ==
    /\ call["control"].pc = "unflag"
    /\ setVolumeRestartInProgress(call["control"].m, FALSE)
    /\ Return("control", TRUE)
    /\ UNCHANGED <<script, cur, go, db, cfg, seen>>

\* Cutover drops the sentinel table; refused when the change is not deferred.
\* The caller asks for it once the change was reported as waiting for it.
Cutover ==
    /\ Control("cutover")
    /\ script.defer => /\ seen = "waiting_for_cutover"
                       /\ script.race \/ progressState(cur) = seen
    /\ told' = [op |-> "cutover", ok |-> script.defer \/ cur = 0, m |-> cur, vol |-> 0]
    /\ db' = IF script.defer \/ cur = 0 THEN [db EXCEPT !.sentinel = FALSE] ELSE db
    /\ UNCHANGED <<mig, cur, go, call, cfg, seen>>
-----------------------------------------------------------------------------
Goroutine == \E g \in 1..Len(go) : executeMigration(g)
Drive ==
    \/ ResumeDrains
    \/ DrainWaited("drive", "predrain", "predrained")
    \/ DrainClears("drive", "predrained", "plan")
    \/ Plan
    \/ DrainWaited("drive", "drain", "drained")
    \/ DrainClears("drive", "drained", "install")
    \/ ApplyInstalls
    \/ ApplySpawns
    \/ Progress
ControlCalls == Stop \/ Volume \/ Cutover
ControlReturns ==
    StopStarts \/ StopCancels \/ StopWaits \/ VolumeSets \/ StartRuns \/ StartSpawns
    \/ VolumeReturns
Next == Goroutine \/ Drive \/ ControlCalls \/ ControlReturns
Spec == Init /\ [][Next]_vars
\* The Go scheduler runs every runnable goroutine, and the operator makes the
\* calls of the scenario: a deferred change needs its cutover.
FairSpec ==
    /\ Spec
    /\ \A g \in 1..MaxGo : WF_vars(g <= Len(go) /\ executeMigration(g))
    /\ WF_vars(Drive)
    /\ WF_vars(ControlReturns)
    /\ WF_vars(ControlCalls)
-----------------------------------------------------------------------------
(* Properties.                                                             *)

\* A migration recorded as completed has its whole plan live: completion is
\* signalled only after every phase has run, and no other goroutine's outcome
\* lands in it although outcomes are written through the shared pointer.
CompletedIsLive ==
    \A m \in 1..MaxMig : mig[m].state = "completed" => mig[m].ddl \subseteq db.applied

\* A table is dropped only when every CREATE and ALTER of the plan is live,
\* also after a stop, which leaves the ALTER phase as if it had succeeded.
DropsLast == "drop" \in db.applied => script.plan \subseteq db.applied

\* At most one goroutine runs the combined ALTER: Stop waits for the old one
\* before Start or Apply spawns the next.
OneRunner == Cardinality({g \in 1..Len(go) : go[g].pc = "alter"}) <= 1

\* When Stop has answered that the change is stopped, no goroutine works on it
\* until it is started again.  (With script.race a Stop between Apply's install
\* and its spawn finds nothing to wait for.)
StoppedIsQuiet ==
    ~script.race /\ told.op = "stop" /\ told.ok /\ told.m # 0 /\ mig[told.m].state = "stopped"
        /\ call["control"].pc = "idle"
        => wg(told.m) = {}

\* A volume change stops and restarts the migration, and the drive's poll never
\* sees that stop: it would end the apply as stopped.  (With script.race the
\* Stop inside Volume may hit the next migration, which carries no flag.)
VolumeHidden == ~script.stops /\ ~script.race => seen # "stopped"

\* A volume change that was answered as done, or as unchanged, leaves the engine
\* with the settings of the volume asked for.
VolumeServed ==
    told.op = "volume" /\ told.ok /\ call["control"].pc = "idle"
        => cfg = volumeToSpiritSettings(told.vol, 0)

\* Every control call returns and the drive sees the change end, whatever was
\* stopped, restarted or failed: Stop's wait ends because the context it cancelled
\* ends the goroutine.  (With script.race a Stop may come before the cancel is
\* stored; it then waits for the whole change, a deferred one for ever.)
Settles ==
    []<>(\/ call["control"].pc = "idle" /\ (Used = {} \/ IsTerminal(seen))
         \/ script.race /\ script.defer)
=============================================================================
