----------------------------- MODULE LocalDrive -----------------------------
(***************************************************************************)
(* One apply on a MySQL data plane: LocalClient and the Spirit engine in   *)
(* its process.  The Apply RPC starts a drive without a lease; operators   *)
(* take over applies that are queued, stale, retryable or asked to start   *)
(* (FindNextApply, ResumeApply) and write under the lease of the apply     *)
(* row.  A drive without --defer-cutover runs one table after another; a   *)
(* deferred one hands all tables to the engine and waits for a cutover.    *)
(*                                                                         *)
(* The engine lives in the process: a crash ends it together with every    *)
(* drive, while the rows, the requests, the changed tables and Spirit's    *)
(* sentinel table stay.  A drive reads and writes the stored task rows     *)
(* where the code keeps copies; mem is its copy of the apply's state.      *)
(***************************************************************************)
EXTENDS ApplyStates, Sequences

CONSTANTS N,            \* tables of the plan, in the order they are run
          Drivers,      \* the operator drivers of the process
          Plans,        \* the plans: what each table's statement is
          MaxAttempts,  \* maxRecoveryAttempts
          Faults,       \* the kinds of fault that may happen
          MaxFaults,    \* how many faults may happen
          MaxAsks       \* how many stop requests the operator may make

ASSUME LocalDriveConstants ==
  /\ Plans \subseteq [1..N -> {"create", "alter", "drop"}]
  /\ N \in Nat \ {0} /\ MaxAttempts \in Nat /\ MaxFaults \in Nat
  /\ MaxAsks \in Nat /\ "inline" \notin Drivers
  /\ Faults \subseteq {"crash", "stall", "conflict", "overlap",
                       "apply_error", "cutover_error", "timeout"}

Tasks == 1..N
Proc  == {"inline"} \cup Drivers

VARIABLES
  apply,     \* [state, started, attempt] of the apply row
  task,      \* the state of each task row
  req,       \* the pending control requests
  live,      \* the tables whose change has reached the schema
  eng,       \* the engine: its state and the tables of its migration
  sentinel,  \* Spirit's sentinel table exists
  kind,      \* the plan
  deferred,  \* the apply was made with defer_cutover
  owner,     \* the driver whose lease token the apply row holds
  fresh,     \* the heartbeat of the apply row is under a minute old
  dr,        \* the drives
  faults,    \* the faults so far
  asks       \* the stop requests so far

vars == <<apply, task, req, live, eng, sentinel, kind, deferred, owner, fresh,
          dr, faults, asks>>
engine == <<live, eng, sentinel>>
lease  == <<owner, fresh>>
given  == <<kind, deferred>>
bounds == <<given, faults, asks>>

Idle == [pc |-> "off", i |-> 1, mem |-> "pending", queued |-> FALSE,
         resumed |-> FALSE, outcome |-> "none", reg |-> FALSE]

Init ==
  /\ apply = [state |-> "absent", started |-> FALSE, attempt |-> 0]
  /\ task = [t \in Tasks |-> "pending"]
  /\ req = {} /\ live = {}
  /\ eng = [state |-> "none", on |-> {}]
  /\ sentinel = FALSE /\ kind \in Plans /\ deferred \in BOOLEAN
  /\ owner = "none" /\ fresh = TRUE
  /\ dr = [p \in Proc |-> Idle]
  /\ faults = <<>> /\ asks = 0

Fault(f) == /\ f \in Faults /\ Len(faults) < MaxFaults
            /\ faults' = Append(faults, f)

\* Only faults of these kinds have happened so far.
Only(kinds) == \A i \in DOMAIN faults : faults[i] \in kinds

\* The drive the Apply RPC starts holds no lease, so nothing guards its
\* writes; a driver's writes are refused once its token is replaced.
Holds(p) == p = "inline" \/ owner = p

SetApply(p, s) ==
  apply' = IF Holds(p) THEN [apply EXCEPT !.state = s] ELSE apply
SetTasks(p, f) == task' = IF Holds(p) THEN f ELSE task
ResolveAllButStart(p, ops) ==
  req' = IF Holds(p) THEN req \ (ops \ {"start"}) ELSE req
Resolve(p, ops) == req' = IF Holds(p) THEN req \ ops ELSE req

At(p, pc) == dr[p].pc = pc
Goto(p, pc) == dr' = [dr EXCEPT ![p].pc = pc]
Exit(p) == dr' = [dr EXCEPT ![p] = Idle]

\* setApplyCancel: a drive that starts replaces the registered cancel function.
Register(p, d) ==
  dr' = [q \in Proc |-> IF q = p THEN [d EXCEPT !.reg = TRUE]
                        ELSE [dr[q] EXCEPT !.reg = FALSE]]

----------------------------------------------------------------------------
(* The engine. *)

Working == {"running", "copying", "waiting_for_cutover", "swapping"}
Executing(e) == e.state \in Working
EngineTerminal == eng.state \in {"completed", "failed", "stopped"}

\* Spirit tells running from waiting at its sentinel table, and no more.
progressState == IF eng.state \in {"copying", "swapping"} THEN "running"
                 ELSE eng.state

\* The task state a progress report stands for; a failure of Spirit is always
\* worth a retry, and an engine without a migration reports pending.
taskStateFromProgressResult ==
  CASE eng.state = "none"   -> "pending"
    [] eng.state = "failed" -> "failed_retryable"
    [] OTHER                -> progressState

Of(k) == {t \in eng.on : kind[t] = k}

\* A deferred migration respects the sentinel table.
NoSentinel == TRUE
SentinelGone == ~sentinel

\* The statements of a migration run in three phases: tables are created one
\* by one, all ALTERs are copied and swapped together, tables are dropped one
\* by one.  A deferred swap waits until the sentinel table is gone.
EngineStep ==
  /\ \/ /\ eng.state = "running"
        /\ \E t \in Of("create") \ live : live' = live \cup {t}
        /\ UNCHANGED <<eng, sentinel>>
     \/ /\ eng.state = "running" /\ Of("create") \subseteq live
        /\ ~(Of("alter") \subseteq live)
        /\ eng' = [eng EXCEPT !.state = IF deferred THEN "copying"
                                       ELSE "swapping"]
        /\ sentinel' = (deferred \/ sentinel) /\ UNCHANGED live
     \/ /\ eng.state = "copying"
        /\ eng' = [eng EXCEPT !.state = "waiting_for_cutover"]
        /\ UNCHANGED <<live, sentinel>>
     \/ /\ eng.state = "waiting_for_cutover" /\ SentinelGone
        /\ eng' = [eng EXCEPT !.state = "swapping"]
        /\ UNCHANGED <<live, sentinel>>
     \/ /\ eng.state = "swapping"
        /\ live' = live \cup Of("alter")
        /\ eng' = [eng EXCEPT !.state = "running"] /\ UNCHANGED sentinel
     \/ /\ eng.state = "running"
        /\ Of("create") \cup Of("alter") \subseteq live
        /\ \E t \in Of("drop") \ live : live' = live \cup {t}
        /\ UNCHANGED <<eng, sentinel>>
     \/ /\ eng.state = "running" /\ eng.on \subseteq live
        /\ eng' = [eng EXCEPT !.state = "completed"]
        /\ UNCHANGED <<live, sentinel>>
  /\ UNCHANGED <<apply, task, req, dr, lease, bounds>>

EngineFails ==
  /\ Executing(eng)
  /\ eng' = [eng EXCEPT !.state = "failed"]
  /\ UNCHANGED <<apply, task, req, live, sentinel, dr, lease, bounds>>

\* Engine.Apply waits for the migration goroutine of the previous run.
EngineApply(ts) ==
  /\ ~Executing(eng)
  /\ eng' = [state |-> "running", on |-> ts]
  /\ UNCHANGED <<live, sentinel>>

----------------------------------------------------------------------------
(* Requests of the operator and of the control plane. *)

Apply ==
  /\ apply.state = "absent"
  /\ apply' = [apply EXCEPT !.state = "pending"]
  /\ Register("inline", [Idle EXCEPT !.pc = "begin"])
  /\ UNCHANGED <<task, req, engine, lease, bounds>>

IsInFlightTaskState(s) ==
  s \in {"running", "checksumming", "waiting_for_cutover", "cutting_over",
         "waiting_for_deploy", "recovering"}

\* The conflict check resolves a task whose engine reports a terminal state,
\* or an in-flight task of an engine without a migration.
resolvesStaleTask(t) ==
  EngineTerminal \/ (eng.state = "none" /\ IsInFlightTaskState(task[t]))

\* An Apply request with another key checks the tasks of the database in turn,
\* up to the first one that still blocks it, and is then refused.
checkActiveTaskConflict ==
  /\ ~(apply.state = "absent" \/ IsTerminal(apply.state))
  /\ LET open == {t \in Tasks : task[t] \notin TerminalTaskState}
         hit(t) == /\ t \in open
                   /\ \A u \in open : u <= t => resolvesStaleTask(u)
     IN  /\ \E t \in Tasks : hit(t)
         /\ task' = [t \in Tasks |->
                      IF ~hit(t) THEN task[t]
                      ELSE IF EngineTerminal THEN eng.state
                      ELSE "failed"]
  /\ Fault("conflict")
  /\ UNCHANGED <<apply, req, engine, dr, lease, given, asks>>

requestStop ==
  /\ apply.state # "absent" /\ "stop" \notin req /\ asks < MaxAsks
  /\ req' = req \cup {"stop"} /\ asks' = asks + 1
  /\ UNCHANGED <<apply, task, engine, dr, lease, given, faults>>

\* Start is accepted for an apply that is stopped, or is still shown running
\* while its tasks are stopped.
requestStart ==
  /\ apply.state \in {"stopped", "running"} /\ "start" \notin req
  /\ \E t \in Tasks : task[t] = "stopped"
  /\ req' = req \cup {"start"}
  /\ UNCHANGED <<apply, task, engine, dr, lease, bounds>>

queueCutoverRequest ==
  /\ apply.state # "absent" /\ "cutover" \notin req /\ deferred
  /\ req' = req \cup {"cutover"}
  /\ UNCHANGED <<apply, task, engine, dr, lease, bounds>>

----------------------------------------------------------------------------
(* Stop, processed by whichever drive sees the request first. *)

StopChecks == {"next", "run", "poll", "gapply", "tick", "settle", "resume"}

\* Every guarded step of a drive looks for a stop request first.
NoStop(p) == "stop" \notin req

\* A stop of an apply that is settled, in the row or in the drive's copy, is
\* completed on the spot; if a start is pending too, the drive carries on.
processPendingStopControlRequest(p) ==
  /\ dr[p].pc \in StopChecks /\ "stop" \in req
  /\ IF IsTerminal(apply.state) \/ IsTerminal(dr[p].mem)
     THEN /\ Resolve(p, {"stop"})
          /\ IF Holds(p) /\ "start" \in req
             THEN dr' = [dr EXCEPT ![p].mem =
                           IF IsTerminal(apply.state) THEN apply.state ELSE @]
             ELSE Exit(p)
     ELSE Goto(p, "stopping") /\ UNCHANGED req
  /\ UNCHANGED <<apply, task, engine, lease, bounds>>

hasLiveEngineWork(s) ==
  s \in {"running", "waiting_for_cutover", "cutting_over", "recovering",
         "waiting_for_deploy", "failed_retryable"}

stopEngineLater(work) == (work => eng.state # "none") /\ UNCHANGED eng

\* The engine as a stop leaves it; one without a migration refuses to stop.
stopEngineForTasks(work) ==
  /\ work => eng.state # "none"
  /\ eng' = IF work THEN [eng EXCEPT !.state = "stopped"] ELSE eng

\* The engine is stopped before anything is recorded, and the drive that
\* registered last is cancelled.  When the engine refuses, the stop stays
\* pending for the next drive.
stopOwnedApply(p) ==
  /\ At(p, "stopping")
  /\ LET work == \E t \in Tasks : hasLiveEngineWork(task[t]) IN
     \/ /\ work /\ eng.state = "none"
        /\ Exit(p) /\ UNCHANGED eng
     \/ /\ stopEngineForTasks(work)
        /\ dr' = [q \in Proc |->
                    IF q = p THEN [dr[p] EXCEPT !.pc = "stopmark"]
                    ELSE IF dr[q].reg THEN Idle ELSE dr[q]]
  /\ UNCHANGED <<apply, task, req, live, sentinel, lease, bounds>>

\* When all tasks had settled, the apply takes the state they project.
handleStopAllTasksTerminal(p) ==
  /\ SetApply(p, IF IsTerminal(apply.state) THEN apply.state
                 ELSE DeriveApplyState({task[t] : t \in Tasks}))
  /\ Resolve(p, {"stop"})
  /\ Exit(p)

\* The open tasks become stopped.
markTasksWithState(p) ==
  /\ At(p, "stopmark")
  /\ LET open == {t \in Tasks : task[t] \notin TerminalTaskState} IN
     IF open # {}
     THEN /\ SetTasks(p, [t \in Tasks |->
                            IF t \in open THEN "stopped" ELSE task[t]])
          /\ Goto(p, "stopend") /\ UNCHANGED <<apply, req>>
     ELSE handleStopAllTasksTerminal(p) /\ UNCHANGED task
  /\ UNCHANGED <<engine, lease, bounds>>

markApplyStopped(p) ==
  /\ At(p, "stopend")
  /\ SetApply(p, IF IsTerminal(apply.state) THEN apply.state ELSE "stopped")
  /\ Resolve(p, {"stop"})
  /\ Exit(p)
  /\ UNCHANGED <<task, engine, lease, bounds>>

----------------------------------------------------------------------------
(* One table after another. *)

\* executeApplySequential and executeGroupedApply first show the apply running.
beginDrive(p) ==
  /\ At(p, "begin")
  /\ apply' = IF Holds(p) THEN [apply EXCEPT !.state = "running",
                                             !.started = TRUE]
              ELSE apply
  /\ dr' = [dr EXCEPT ![p].mem = "running", ![p].resumed = FALSE,
                      ![p].pc = IF deferred THEN "gapply" ELSE "next"]
  /\ UNCHANGED <<task, req, engine, lease, bounds>>

\* checkTaskReady: a settled task is skipped, a stopped one ends the drive.
nextTask(p) ==
  /\ At(p, "next") /\ NoStop(p)
  /\ LET i == dr[p].i IN
     dr' = IF i > N THEN [dr EXCEPT ![p].pc = "final"]
           ELSE IF task[i] = "stopped"
                THEN [dr EXCEPT ![p].pc = "final", ![p].outcome = "stopped"]
           ELSE IF task[i] \in TerminalTaskState
                THEN [dr EXCEPT ![p].i = @ + 1]
           ELSE [dr EXCEPT ![p].pc = IF dr[p].resumed THEN "drain" ELSE "run"]
  /\ UNCHANGED <<apply, task, req, engine, lease, bounds>>

\* The table's DDL is still in a plan made against the live schema.
tableStillNeedsChange(t) == t \notin live

\* A resumed drive waits for the engine and asks the live schema again.
drainAndReplan(p) ==
  /\ At(p, "drain") /\ ~Executing(eng)
  /\ eng' = [state |-> "none", on |-> {}]
  /\ LET i == dr[p].i IN
     IF ~tableStillNeedsChange(i)
     THEN /\ SetTasks(p, [task EXCEPT ![i] = "completed"])
          /\ dr' = [dr EXCEPT ![p].i = @ + 1, ![p].pc = "next"]
     ELSE Goto(p, "run") /\ UNCHANGED task
  /\ UNCHANGED <<apply, req, live, sentinel, lease, bounds>>

runEngineTask(p) ==
  /\ At(p, "run") /\ NoStop(p)
  /\ \/ /\ EngineApply({dr[p].i})
        /\ SetTasks(p, [task EXCEPT ![dr[p].i] = "running"])
        /\ Goto(p, "poll") /\ UNCHANGED faults
     \/ /\ Fault("apply_error")
        /\ SetTasks(p, [task EXCEPT ![dr[p].i] = "failed"])
        /\ dr' = [dr EXCEPT ![p].pc = "final", ![p].outcome = "failed"]
        /\ UNCHANGED engine
  /\ UNCHANGED <<apply, req, lease, given, asks>>

\* The poll adopts a settled task row, else stores what the engine reports.
pollTaskToCompletion(p) ==
  /\ At(p, "poll") /\ NoStop(p)
  /\ LET i == dr[p].i
         s == IF task[i] \in TerminalTaskState THEN task[i]
              ELSE taskStateFromProgressResult
     IN  /\ SetTasks(p, [task EXCEPT ![i] = s])
         /\ dr' = IF s \in {"failed", "failed_retryable", "stopped"}
                  THEN [dr EXCEPT ![p].pc = "final", ![p].outcome = s]
                  ELSE IF s \in TerminalTaskState
                       THEN [dr EXCEPT ![p].i = @ + 1, ![p].pc = "next"]
                  ELSE dr
  /\ UNCHANGED <<apply, req, engine, lease, bounds>>

finalizeSequentialApply(p) ==
  /\ At(p, "final")
  /\ LET s == CASE dr[p].outcome = "none" -> "completed"
                [] OTHER -> dr[p].outcome
     IN  IF IsTerminal(apply.state)
         THEN Resolve(p, {"stop"}) /\ UNCHANGED <<apply, task>>
         ELSE /\ SetApply(p, s)
              /\ SetTasks(p, [t \in Tasks |->
                                IF s = "failed" /\ task[t] = "pending"
                                THEN "cancelled" ELSE task[t]])
              /\ Resolve(p, IF IsTerminal(s) THEN {"stop"} ELSE {})
  /\ Exit(p)
  /\ UNCHANGED <<engine, lease, bounds>>

----------------------------------------------------------------------------
(* All tables in one engine run, with a deferred cutover. *)

failApplyWithTasks(p, ts) ==
  /\ SetTasks(p, [t \in Tasks |->
                    IF t \in ts /\ task[t] \notin TerminalTaskState
                    THEN "failed" ELSE task[t]])
  /\ SetApply(p, IF IsTerminal(apply.state) THEN apply.state ELSE "failed")

executeGroupedApply(p) ==
  /\ At(p, "gapply") /\ NoStop(p)
  /\ \/ /\ EngineApply(Tasks)
        /\ SetTasks(p, [t \in Tasks |-> "running"])
        /\ SetApply(p, "running")
        /\ Goto(p, "tick") /\ UNCHANGED faults
     \/ /\ Fault("apply_error")
        /\ failApplyWithTasks(p, Tasks)
        /\ Exit(p) /\ UNCHANGED engine
  /\ UNCHANGED <<req, lease, given, asks>>

\* The tasks follow the engine, never backwards.
syncAtomicTaskProgress(p) ==
  /\ At(p, "tick") /\ NoStop(p)
  /\ LET s == taskStateFromProgressResult IN
     SetTasks(p, [t \in Tasks |-> taskStateWithNoBackwardProgress(task[t], s)])
  /\ Goto(p, "settle")
  /\ UNCHANGED <<apply, req, engine, lease, bounds>>

cutoverRequestResolvedByApplyState(s) ==
  s \in {"revert_window", "completed", "reverted"}

applyReadyForCutoverRequest(s) ==
  \/ s \in {"waiting_for_cutover", "cutting_over"}
  \/ /\ s = "running"
     /\ \E t \in Tasks : task[t] \in {"waiting_for_cutover", "cutting_over"}

\* The cutover drops the sentinel table; a failed one fails the request and
\* ends the drive, and the engine waits on.
cutover(p) ==
  \/ /\ Holds(p) /\ sentinel' = FALSE
     /\ dr' = [dr EXCEPT ![p].mem = "cutting_over", ![p].pc = "project"]
     /\ UNCHANGED faults
  \/ /\ Fault("cutover_error") /\ Exit(p) /\ UNCHANGED sentinel
  \/ /\ ~Holds(p) /\ Exit(p) /\ UNCHANGED <<sentinel, faults>>

markApplyCuttingOver(p) == SetApply(p, "cutting_over")

processPendingCutoverControlRequest(p) ==
  /\ At(p, "settle") /\ NoStop(p)
  /\ LET s == dr[p].mem IN
     \/ /\ \/ "cutover" \notin req \/ s = "recovering"
           \/ ~IsTerminal(s) /\ ~applyReadyForCutoverRequest(s)
        /\ Goto(p, "project")
        /\ UNCHANGED <<apply, req, sentinel, faults>>
     \/ /\ "cutover" \in req /\ IsTerminal(s)
        /\ Resolve(p, {"cutover"})
        /\ IF cutoverRequestResolvedByApplyState(s) THEN Goto(p, "project")
           ELSE Exit(p)
        /\ UNCHANGED <<apply, sentinel, faults>>
     \/ /\ "cutover" \in req /\ applyReadyForCutoverRequest(s)
        /\ markApplyCuttingOver(p) /\ Resolve(p, {"cutover"})
        /\ cutover(p)
  /\ UNCHANGED <<task, live, eng, lease, given, asks>>

\* A deferred cutover that nobody asks for in time is stopped in the engine;
\* the next poll finds the tasks stopped.
waitingForManualActionTimeout(p) ==
  /\ At(p, "project") /\ eng.state = "waiting_for_cutover" /\ deferred
  /\ Fault("timeout")
  /\ eng' = [eng EXCEPT !.state = "stopped"]
  /\ UNCHANGED <<apply, task, req, live, sentinel, dr, lease, given, asks>>

\* The apply takes the state its tasks project, unless the row has settled.
projectApplyState(p) ==
  /\ At(p, "project")
  /\ LET s == DeriveApplyState({task[t] : t \in Tasks}) IN
     IF IsTerminal(apply.state)
     THEN Resolve(p, {"stop"}) /\ Exit(p) /\ UNCHANGED apply
     ELSE /\ SetApply(p, s)
          /\ IF IsTerminal(s) \/ s = "failed_retryable"
             THEN Resolve(p, {"stop"}) /\ Exit(p)
             ELSE /\ dr' = [dr EXCEPT ![p].mem = s, ![p].pc = "tick"]
                  /\ UNCHANGED req
  /\ UNCHANGED <<task, engine, lease, bounds>>

----------------------------------------------------------------------------
(* Taking over. *)

replanWithoutRetryable ==
  {t \in Tasks : /\ task[t] \notin {"completed", "failed_retryable"}
                 /\ tableStillNeedsChange(t)}

\* The tasks a re-plan against the live schema leaves to do.
replanAndFilterTasks ==
  {t \in Tasks : task[t] # "completed" /\ tableStillNeedsChange(t)}
Replanned == [t \in Tasks |-> IF t \in live THEN "completed" ELSE task[t]]

shouldInspectDeferredCutoverSignal(s) ==
  deferred /\ s \in {"waiting_for_cutover", "recovering"}

\* Retryable tasks are queued again, and stopped ones when a start is pending.
prepareTasksForResume(p) ==
  [t \in Tasks |->
     IF \/ dr[p].mem = "failed_retryable" /\ Replanned[t] = "failed_retryable"
        \/ "start" \in req /\ Replanned[t] = "stopped"
     THEN "pending" ELSE Replanned[t]]

\* A queued apply is started as the Apply RPC would have started it.
dispatchQueuedApply(p) == Register(p, [dr[p] EXCEPT !.pc = "begin"])

\* The sentinel table proves that the cutover has not begun: the apply waits
\* in recovering until the engine is ready again.
markApplyRecovering(p) ==
  /\ SetTasks(p, [t \in Tasks |-> IF task[t] \in TerminalTaskState
                                  THEN task[t] ELSE "recovering"])
  /\ SetApply(p, "recovering")
  /\ IF Holds(p)
     THEN Register(p, [dr[p] EXCEPT !.mem = "recovering", !.pc = "launch"])
     ELSE Exit(p)

resumeApplyWithTasks(p) ==
  /\ At(p, "resume") /\ NoStop(p)
  /\ LET inspect == shouldInspectDeferredCutoverSignal(dr[p].mem)
         active  == replanAndFilterTasks
     IN
     \/ /\ dr[p].queued
        /\ dispatchQueuedApply(p)
        /\ UNCHANGED <<apply, task, req>>
     \/ /\ ~dr[p].queued /\ inspect /\ sentinel
        /\ markApplyRecovering(p)
        /\ UNCHANGED req
     \/ /\ ~dr[p].queued /\ ~(inspect /\ sentinel) /\ active = {}
        /\ SetTasks(p, Replanned) /\ SetApply(p, "completed")
        /\ Resolve(p, {"start"}) /\ Exit(p)
     \/ /\ ~dr[p].queued /\ inspect /\ ~sentinel /\ active # {}
        /\ failApplyWithTasks(p, active)
        /\ Exit(p) /\ UNCHANGED req
     \/ /\ ~dr[p].queued /\ ~inspect /\ active # {} /\ deferred
        /\ SetTasks(p, prepareTasksForResume(p))
        /\ Register(p, [dr[p] EXCEPT !.pc = "launch"])
        /\ UNCHANGED <<apply, req>>
     \/ /\ ~dr[p].queued /\ active # {} /\ ~deferred
        /\ SetTasks(p, prepareTasksForResume(p)) /\ SetApply(p, "running")
        /\ Resolve(p, {"start"})
        /\ IF Holds(p)
           THEN Register(p, [dr[p] EXCEPT !.mem = "running", !.i = 1,
                                          !.resumed = TRUE, !.pc = "next"])
           ELSE Exit(p)
  /\ UNCHANGED <<engine, lease, bounds>>

\* An engine that refuses the resumed work fails the apply.
handleGroupedResumeFailure(p, ts, start) ==
  /\ failApplyWithTasks(p, ts) /\ Resolve(p, start)
  /\ Exit(p)

\* The engine is drained, the schema planned once more, and what is left is
\* handed to the engine.  No heartbeat runs until the engine has accepted.
launchAtomicResume(p) ==
  /\ At(p, "launch") /\ ~Executing(eng)
  /\ LET active == replanAndFilterTasks
         s == IF dr[p].mem = "recovering" THEN "recovering" ELSE "running"
         start == IF dr[p].mem = "recovering" THEN {} ELSE {"start"}
     IN
     \/ /\ active = {}
        /\ SetTasks(p, Replanned) /\ SetApply(p, "completed")
        /\ Resolve(p, start)
        /\ eng' = [state |-> "none", on |-> {}]
        /\ Exit(p) /\ UNCHANGED <<live, sentinel, faults>>
     \/ /\ active # {} /\ EngineApply(active)
        /\ SetTasks(p, [t \in Tasks |-> IF t \in active THEN s
                                        ELSE Replanned[t]])
        /\ SetApply(p, s) /\ Resolve(p, start)
        /\ IF Holds(p)
           THEN dr' = [dr EXCEPT ![p].mem = s, ![p].pc = "tick"]
           ELSE Exit(p)
        /\ UNCHANGED faults
     \/ /\ active # {} /\ Fault("apply_error")
        /\ handleGroupedResumeFailure(p, active, start)
        /\ eng' = [state |-> "none", on |-> {}]
        /\ UNCHANGED <<live, sentinel>>
  /\ UNCHANGED <<lease, given, asks>>

RetryAllowed == apply.attempt < MaxAttempts

\* The row after a claim: a new lease token, the state of a claimed apply, and
\* a retry charged to the budget.
persistApplyClaim(d) ==
  /\ apply' =
       [apply EXCEPT
          !.state = CASE @ \in {"pending", "failed_retryable"} -> "running"
                      [] @ = "stopped" -> "resuming"
                      [] OTHER -> @,
          !.attempt = IF apply.state = "failed_retryable" THEN @ + 1 ELSE @]
  /\ owner' = d /\ fresh' = TRUE

\* The operator claims the apply: queued, stale, retryable within its budget,
\* or stopped with a pending start.  The drive keeps the state from before.
FindNextApply(d) ==
  /\ At(d, "off")
  /\ \/ /\ apply.state = "pending"
        /\ IF At("inline", "begin") THEN Fault("overlap")
           ELSE UNCHANGED faults
     \/ /\ \/ apply.state \in ClaimableState /\ ~fresh
           \/ apply.state = "failed_retryable" /\ RetryAllowed
           \/ apply.state = "stopped" /\ "start" \in req
        /\ UNCHANGED faults
  /\ persistApplyClaim(d)
  /\ dr' = [dr EXCEPT ![d] =
              [Idle EXCEPT !.pc = "resume", !.mem = apply.state,
                 !.queued = apply.state = "pending" /\ ~apply.started]]
  /\ UNCHANGED <<task, req, engine, given, asks>>

\* An apply without retries left fails with its open tasks.
ExpireRetryable ==
  /\ apply.state = "failed_retryable" /\ apply.attempt >= MaxAttempts
  /\ apply' = [apply EXCEPT !.state = "failed"]
  /\ task' = [t \in Tasks |-> IF task[t] \in TerminalTaskState THEN task[t]
                              ELSE "failed"]
  /\ UNCHANGED <<req, engine, dr, lease, bounds>>

----------------------------------------------------------------------------
(* Leases, crashes. *)

HasHeartbeat(p) ==
  Holds(p) /\ ~At(p, "off") /\ ~(At(p, "launch") /\ Executing(eng))

\* The heartbeat grows old when no drive refreshes it, as while a drive waits
\* for the engine to drain, or when a drive or its writes stall.
HeartbeatExpires ==
  /\ fresh /\ apply.state \in ClaimableState
  /\ IF \E p \in Proc : HasHeartbeat(p) THEN Fault("stall")
     ELSE UNCHANGED faults
  /\ fresh' = FALSE
  /\ UNCHANGED <<apply, task, req, engine, owner, dr, given, asks>>

\* A heartbeat under a replaced token cancels its drive.
startApplyHeartbeat(d) ==
  /\ owner # d /\ dr[d].pc \notin {"off", "resume", "launch"}
  /\ Exit(d)
  /\ UNCHANGED <<apply, task, req, engine, lease, bounds>>

Crash ==
  /\ Fault("crash")
  /\ dr' = [p \in Proc |-> Idle]
  /\ eng' = [state |-> "none", on |-> {}]
  /\ UNCHANGED <<apply, task, req, live, sentinel, lease, given, asks>>

Drive(p) ==
  \/ processPendingStopControlRequest(p) \/ stopOwnedApply(p)
  \/ markTasksWithState(p) \/ markApplyStopped(p)
  \/ beginDrive(p) \/ nextTask(p) \/ drainAndReplan(p) \/ runEngineTask(p)
  \/ pollTaskToCompletion(p) \/ finalizeSequentialApply(p)
  \/ executeGroupedApply(p) \/ syncAtomicTaskProgress(p)
  \/ processPendingCutoverControlRequest(p) \/ projectApplyState(p)
  \/ waitingForManualActionTimeout(p)
  \/ resumeApplyWithTasks(p) \/ launchAtomicResume(p)

Next ==
  \/ Apply \/ checkActiveTaskConflict
  \/ requestStop \/ requestStart \/ queueCutoverRequest
  \/ EngineStep \/ EngineFails
  \/ \E p \in Proc : Drive(p)
  \/ \E d \in Drivers : FindNextApply(d) \/ startApplyHeartbeat(d)
  \/ ExpireRetryable \/ HeartbeatExpires \/ Crash

Spec == Init /\ [][Next]_vars

\* The engine works, the drives of the process poll, its drivers look for
\* work to claim or to expire, and a heartbeat nobody refreshes grows old.
FairSpec ==
  /\ Spec
  /\ WF_vars(EngineStep)
  /\ WF_vars(HeartbeatExpires /\ UNCHANGED faults)
  /\ WF_vars(UNCHANGED faults /\ \E p \in Proc : Drive(p))
  /\ WF_vars(\/ ExpireRetryable
             \/ UNCHANGED faults /\ \E d \in Drivers : FindNextApply(d))

----------------------------------------------------------------------------
(* What the Progress RPC answers. *)

\* The state the tasks stand for; the last task at work decides which phase.
deriveOverallState ==
  LET S == {task[t] : t \in Tasks}
      working == {t \in Tasks : task[t] \in {"running", "waiting_for_cutover",
                                            "cutting_over"}}
  IN  IF working # {}
      THEN task[CHOOSE t \in working : \A u \in working : u <= t]
      ELSE IF S \cap {"failed", "cancelled"} # {} THEN "failed"
      ELSE IF "failed_retryable" \in S THEN "failed_retryable"
      ELSE IF "pending" \in S          THEN "pending"
      ELSE IF "stopped" \in S          THEN "stopped"
      ELSE IF "revert_window" \in S    THEN "revert_window"
      ELSE IF "completed" \in S        THEN "completed"
      ELSE task[1]

Progress ==
  IF apply.state = "failed_retryable" \/ IsTerminal(apply.state)
  THEN apply.state ELSE deriveOverallState

----------------------------------------------------------------------------
(* Properties. *)

\* The faults, one at a time, that an apply survives without a wrong report.
Tolerated == {"crash", "apply_error", "cutover_error"}

\* The faults that leave no migration behind without a drive that polls it.
Drained == {"crash", "apply_error", "conflict"}

DrivePC == {"off", "begin", "next", "drain", "run", "poll", "final", "gapply",
            "tick", "settle", "project", "resume", "launch", "stopping",
            "stopmark", "stopend"}

\* The rows, the engine and the drives hold the values the code gives them.
TypeOK ==
  /\ apply \in [state : ApplyState \cup {"absent"}, started : BOOLEAN,
                attempt : 0..MaxAttempts]
  /\ task \in [Tasks -> TaskState]
  /\ req \subseteq {"stop", "start", "cutover"} /\ live \subseteq Tasks
  /\ eng \in [state : Working \cup {"none", "completed", "failed", "stopped"},
              on : SUBSET Tasks]
  /\ sentinel \in BOOLEAN /\ kind \in Plans /\ deferred \in BOOLEAN
  /\ fresh \in BOOLEAN
  /\ owner \in Drivers \cup {"none"}
  /\ dr \in [Proc -> [pc : DrivePC, i : 1..(N + 1), mem : ApplyState,
                      queued : BOOLEAN, resumed : BOOLEAN,
                      outcome : {"none", "failed", "failed_retryable",
                                 "stopped"},
                      reg : BOOLEAN]]
  /\ faults \in Seq(Faults) /\ Len(faults) <= MaxFaults /\ asks \in 0..MaxAsks

\* An apply is shown completed only when every table of the plan has its new
\* schema: no drive settles an apply whose tasks it has skipped.
CompletedIsLive ==
  Only(Tolerated) /\ apply.state = "completed" => live = Tasks

\* While the apply is shown stopped no migration executes: stopOwnedApply
\* stops the engine before it records the stop.
StoppedIsQuiet ==
  Only(Drained) /\ apply.state = "stopped" => ~Executing(eng)

\* A table is changed once and not before its time.  The engine is never handed
\* a table that is live already: a drive that takes over drains the engine and
\* plans again before it runs anything.  A deferred change reaches no existing
\* table before its cutover was requested: as long as the sentinel table exists
\* nothing is altered.
ChangedOnceInTime ==
  [][/\ Only(Tolerated \cup {"conflict"})' /\ eng.on # eng'.on
          /\ eng'.state = "running" => eng'.on \cap live = {}
     /\ sentinel /\ sentinel' => \A t \in live' \ live : kind[t] = "create"]_vars

\* The apply as whoever polls the data plane sees it.
DP == INSTANCE DataPlane WITH Tables <- Tasks, reported <- apply.state,
                              live <- live, asked <- req,
                              intact <- Only(Tolerated)

\* Every step of the data plane is one that its pollers rely on.
ImplementsDataPlane == DP!Spec

\* A start that was accepted is taken up by a driver: it is resolved, or the
\* apply it was made for has settled for good.
StartResolved ==
  []<>(\/ "start" \notin req \/ apply.state \in {"completed", "failed"}
       \/ ~Only(Drained))
============================================================================
