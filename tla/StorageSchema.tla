--------------------------- MODULE StorageSchema ---------------------------
(* SchemaBot's own storage schema at startup: EnsureSchema, run by every pod and
   retried by the server's start loop, with an advisory lock that serialises
   the cleaning of Spirit's internal tables and the change itself.

   A schema is the version of the embedded files it was made from.  A runner is
   the Spirit goroutine of one attempt of one pod; its internal tables stand in
   "shadows" under its name.  Logging and the diagnostic preamble are left out. *)
EXTENDS Naturals, FiniteSets

CONSTANTS
    Pods,
    Scripts,      \* [version : [Pods -> Nat], timeouts : BOOLEAN]
    MaxAttempts,  \* maxRetries of the start loop
    MaxFaults     \* bound: pods killed, database errors, deadlines passed

VARIABLES
    script,
    live,      \* the version of the storage schema
    shadows,   \* runners whose internal tables exist (dead runners' too)
    runners,   \* the Spirit goroutines alive: [pod, life, attempt, at]
    lock,      \* holder of schemabot_ensure_schema: a pod, or None
    pc,        \* where each pod's EnsureSchema stands
    attempt,   \* the start loop's attempt
    life,      \* process incarnation of each pod
    result,    \* what the engine of the attempt under way reports
    faults

vars == <<script, live, shadows, runners, lock, pc, attempt, life, result, faults>>

None == "none"
Id(p) == <<p, life[p], attempt[p]>>

Init ==
    /\ script \in Scripts
    /\ live = 0 /\ shadows = {} /\ runners = {} /\ lock = None
    /\ pc = [p \in Pods |-> "plan"]
    /\ attempt = [p \in Pods |-> 1]
    /\ life = [p \in Pods |-> 1]
    /\ result = [p \in Pods |-> "none"]
    /\ faults = 0

Goto(p, l) == pc' = [pc EXCEPT ![p] = l]
Unlock(p) == lock' = IF lock = p THEN None ELSE lock

\* spirit Plan of the embedded files against the live schema.
NoChanges(p) == live = script.version[p]

\* EnsureSchemaTimeout passes.
Expires == script.timeouts /\ faults < MaxFaults /\ faults' = faults + 1

\* The server's start loop: EnsureSchema again, or leave the process.
Returns(p) ==
    IF attempt[p] < MaxAttempts
        THEN /\ attempt' = [attempt EXCEPT ![p] = @ + 1]
             /\ Goto(p, "plan")
             /\ UNCHANGED <<runners, life>>
        ELSE /\ attempt' = [attempt EXCEPT ![p] = 1]
             /\ life' = [life EXCEPT ![p] = @ + 1]
             /\ runners' = {r \in runners : r.id[1] # p}
             /\ Goto(p, "plan")

\* The plan without the lock.
FastPlan(p) ==
    /\ pc[p] = "plan"
    /\ Goto(p, IF NoChanges(p) THEN "stale" ELSE "lock")
    /\ UNCHANGED <<script, live, shadows, runners, lock, attempt, life, result, faults>>

\* The schema is current: done unless internal tables are left to clean.
staleSpiritTableNames(p) ==
    /\ pc[p] = "stale"
    /\ Goto(p, IF shadows = {} THEN "serving" ELSE "lock")
    /\ UNCHANGED <<script, live, shadows, runners, lock, attempt, life, result, faults>>

acquireEnsureSchemaLock(p) ==
    /\ pc[p] = "lock"
    /\ lock = None
    /\ lock' = p
    /\ Goto(p, "clean")
    /\ UNCHANGED <<script, live, shadows, runners, attempt, life, result, faults>>

\* GET_LOCK returns 0: the whole timeout went by behind another pod's change.
LockTimesOut(p) ==
    /\ pc[p] = "lock" /\ lock # None
    /\ Expires
    /\ Returns(p)
    /\ UNCHANGED <<script, live, shadows, lock, result>>

\* Drops every Spirit internal table of the storage database.
cleanStaleSpiritTables(p) ==
    /\ pc[p] = "clean"
    /\ shadows' = {}
    /\ Goto(p, "replan")
    /\ UNCHANGED <<script, live, runners, lock, attempt, life, result, faults>>

\* The plan under the lock: nothing left to do, or Spirit's Apply, whose
\* goroutine does not inherit the deadline (context.WithoutCancel).
Replan(p) ==
    /\ pc[p] = "replan"
    /\ IF NoChanges(p)
           THEN /\ Goto(p, "serving") /\ Unlock(p)
                /\ UNCHANGED <<runners, result>>
           ELSE /\ runners' = runners \cup {[id |-> Id(p), at |-> "start"]}
                /\ result' = [result EXCEPT ![p] = "running"]
                /\ Goto(p, "poll")
                /\ UNCHANGED lock
    /\ UNCHANGED <<script, live, shadows, attempt, life, faults>>

\* As Poll, but a failed change is a terminal one like any other.
PollTerminal(p) ==
    /\ pc[p] = "poll" /\ result[p] # "running"
    /\ Unlock(p)
    /\ Goto(p, "serving")
    /\ UNCHANGED <<script, live, shadows, runners, attempt, life, result, faults>>

\* A tick sees the change end.  The deferred close of the connection frees the lock.
Poll(p) ==
    /\ pc[p] = "poll" /\ result[p] # "running"
    /\ Unlock(p)
    /\ IF result[p] = "completed"
           THEN Goto(p, "serving") /\ UNCHANGED <<runners, attempt, life>>
           ELSE Returns(p)
    /\ UNCHANGED <<script, live, shadows, result, faults>>

\* EnsureSchemaTimeout runs out: the lock goes, the goroutine stays.
ensureSchemaTimeoutError(p) ==
    /\ pc[p] = "poll" /\ result[p] = "running"
    /\ Expires
    /\ Unlock(p)
    /\ Returns(p)
    /\ UNCHANGED <<script, live, shadows, result>>

\* A plan, a cleaning or a read fails: the error is returned to the start loop.
Errs(p) ==
    /\ faults < MaxFaults
    /\ faults' = faults + 1
    /\ pc[p] \in {"plan", "stale", "lock", "clean", "replan"}
    /\ Unlock(p)
    /\ Returns(p)
    /\ UNCHANGED <<script, live, shadows, result>>

\* The pod is killed, at any point, and started again by its scheduler.
Killed(p) ==
    /\ faults < MaxFaults
    /\ faults' = faults + 1
    /\ Unlock(p)
    /\ runners' = {r \in runners : r.id[1] # p}
    /\ attempt' = [attempt EXCEPT ![p] = 1]
    /\ life' = [life EXCEPT ![p] = @ + 1]
    /\ Goto(p, "plan")
    /\ UNCHANGED <<script, live, shadows, result>>

Reports(r, s) ==
    result' = IF Id(r.id[1]) = r.id THEN [result EXCEPT ![r.id[1]] = s] ELSE result

\* Spirit makes its internal tables, replacing the ones it finds.
RunnerCopies(r) ==
    /\ r.at = "start"
    /\ shadows' = {r.id}
    /\ runners' = (runners \ {r}) \cup {[r EXCEPT !.at = "copying"]}
    /\ UNCHANGED <<script, live, lock, pc, attempt, life, result, faults>>

RunnerCutsOver(r) ==
    /\ r.at = "copying" /\ r.id \in shadows
    /\ live' = script.version[r.id[1]]
    /\ runners' = (runners \ {r}) \cup {[r EXCEPT !.at = "renamed"]}
    /\ UNCHANGED <<script, shadows, lock, pc, attempt, life, result, faults>>

RunnerEnds(r) ==
    /\ r.at = "renamed"
    /\ shadows' = shadows \ {r.id}
    /\ runners' = runners \ {r}
    /\ Reports(r, "completed")
    /\ UNCHANGED <<script, live, lock, pc, attempt, life, faults>>

\* The shadow table is gone ("table definition changed"), or the copy fails.
RunnerFails(r) ==
    /\ r.at = "copying"
    /\ r.id \in shadows => faults < MaxFaults
    /\ faults' = IF r.id \in shadows THEN faults + 1 ELSE faults
    /\ runners' = runners \ {r}
    /\ Reports(r, "failed")
    /\ UNCHANGED <<script, live, shadows, lock, pc, attempt, life>>

PodStep(p) ==
    \/ FastPlan(p) \/ staleSpiritTableNames(p) \/ acquireEnsureSchemaLock(p)
    \/ cleanStaleSpiritTables(p) \/ Replan(p) \/ Poll(p)
RunnerStep(r) == RunnerCopies(r) \/ RunnerCutsOver(r) \/ RunnerEnds(r) \/ RunnerFails(r)

Done == (\A p \in Pods : pc[p] = "serving") /\ runners = {} /\ UNCHANGED vars

Next ==
    \/ \E p \in Pods : \/ PodStep(p) \/ LockTimesOut(p) \/ ensureSchemaTimeoutError(p)
                       \/ Errs(p) \/ Killed(p)
    \/ \E r \in runners : RunnerStep(r)
    \/ Done

Spec == Init /\ [][Next]_vars

Same == \A p, q \in Pods : script.version[p] = script.version[q]

\* While no deadline runs out, a change of the storage schema runs only under the
\* advisory lock of its own pod, and nobody's cleaning takes its shadow tables.
RunsUnderLock ==
    ~script.timeouts =>
        \A r \in runners : /\ lock = r.id[1]
                           /\ r.at # "start" => r.id \in shadows

\* A pod that serves finds the schema its build was written for.  (Pods of two
\* builds starting together put each other's schema back: Same is needed.)
ServingIsCurrent ==
    Same => \A p \in Pods : pc[p] = "serving" => live = script.version[p]

\* Once every pod serves, no interrupted change has left its tables behind.
NothingLeft ==
    ~script.timeouts /\ (\A p \in Pods : pc[p] = "serving") => shadows = {}

\* Every pod gets to serve, whoever was killed holding the lock.
PodsServe == \A p \in Pods : (Same /\ ~script.timeouts) ~> (pc[p] = "serving")

=============================================================================
