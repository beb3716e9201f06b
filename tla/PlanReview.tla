----------------------------- MODULE PlanReview -----------------------------
(* A reviewed plan on its way to a deployment that did not make it: the primary
   deployment's LocalClient plans against its own live schema and stores the
   plan; the control plane dispatches it, perhaps more than once, to a secondary
   whose LocalClient has no such plan, recomputes its own, compares the two, and
   materialises the plan only if they are the same.

   A table's definition is a number, 0 for no table.  The DDL the differ writes
   depends on where the table is and where it goes, so a change is the record
   [table, from, to]; its operation follows from the two numbers.  One namespace. *)
EXTENDS Naturals, FiniteSets, FiniteSetsExt

CONSTANTS
    Cases,       \* [tables, shards, versions] : the shapes of a database
    Dispatches,  \* Apply requests of one plan: attempts and repeated dispatches
    MaxDrifts    \* bound: changes made to the secondary behind SchemaBot's back

VARIABLES
    case,
    files,    \* the declarative files: [table -> version], and the VSchema
    primary,  \* live schema of the planning deployment, by shard
    live,     \* live schema of the secondary, by shard
    plan,     \* the plan the primary stored, or NoPlan
    row,      \* the plan row of the secondary, or NoPlan
    req,      \* the Apply requests on the secondary
    drifts

vars == <<case, files, primary, live, plan, row, req, drifts>>

None == [vschema |-> "unread"]
NoPlan == [tables |-> {}, shards |-> {}, vschema |-> FALSE, stored |-> FALSE]

Versions == case.versions

\* A live schema: the tables of every shard, and the keyspace's VSchema.
Schema(c) == [tables : [c.shards \X c.tables -> c.versions], vschema : {0, 1}]

\* The schema with one table of one shard, or the VSchema, redefined.
Places == (case.shards \X case.tables) \cup {<<"vschema">>}
Touched(db, p, v) ==
    IF p = <<"vschema">> THEN [db EXCEPT !.vschema = v] ELSE [db EXCEPT !.tables[p] = v]

Init ==
    /\ case \in Cases
    /\ files \in [tables : [case.tables -> Versions], vschema : {0, 1}]
    /\ primary \in Schema(case)
    /\ live \in {primary} \cup {Touched(primary, p, v) : p \in Places, v \in Versions}
    /\ plan = NoPlan /\ row = NoPlan
    /\ req = [d \in Dispatches |-> [pc |-> "idle", seen |-> None, at |-> 0]]
    /\ drifts = 0

\* The engine's PlanResult: the changes of every shard, with their shard.
planWithEngine(db) ==
    {[shard |-> s, table |-> t, from |-> db.tables[<<s, t>>], to |-> files.tables[t]] :
        s \in case.shards, t \in case.tables}
VSchemaChanged(db) == db.vschema # files.vschema
Changes(db) == {c \in planWithEngine(db) : c.from # c.to}

Key(c) == [table |-> c.table, from |-> c.from, to |-> c.to]

\* The first of a table's changes in the engine's order of shards.
FirstOf(cs, t) == CHOOSE c \in cs : /\ c.table = t
                                    /\ \A d \in cs : d.table = t => c.shard <= d.shard

\* LocalClient.Plan on the primary: per-namespace data, each table once whatever
\* its shards say; the membership of the shards; the VSchema only when it
\* changed.  An empty plan is not stored.
Plan ==
    /\ plan = NoPlan
    /\ LET cs == Changes(primary) IN
         /\ cs # {} \/ VSchemaChanged(primary)
         /\ plan' = [tables |-> {Key(FirstOf(cs, t)) : t \in {c.table : c \in cs}},
                     shards |-> IF Cardinality(case.shards) = 1 THEN {} ELSE {c.shard : c \in cs},
                     vschema |-> VSchemaChanged(primary), stored |-> TRUE]
    /\ UNCHANGED <<case, files, primary, live, row, req, drifts>>

Goto(d, l) == req' = [req EXCEPT ![d].pc = l]

\* Apply begins: planForApplyRequest prefers a row of the deployment's own storage.
planForApplyRequest(d) ==
    /\ plan # NoPlan /\ req[d].pc = "idle"
    /\ Goto(d, IF row # NoPlan THEN "run" ELSE "verify")
    /\ UNCHANGED <<case, files, primary, live, plan, row, drifts>>

\* namespacesFromApplyRequest: what the request's changes and files amount to.
namespacesFromApplyRequest == [plan EXCEPT !.shards = {}]

\* driftMultiset...: how often each change is planned.
driftMultisetFromPlanResult(k) == Cardinality({c \in Changes(live) : Key(c) = k})
driftMultisetFromApplyRequest(k) == IF k \in plan.tables THEN 1 ELSE 0
Keys == {Key(c) : c \in Changes(live)} \cup plan.tables

\* As compareDriftMultisets, but only the reviewed changes are looked for.
MissingOnly ==
    \A k \in Keys : driftMultisetFromPlanResult(k) >= driftMultisetFromApplyRequest(k)

compareDriftMultisets ==
    \A k \in Keys : driftMultisetFromPlanResult(k) = driftMultisetFromApplyRequest(k)

compareVSchemaParity == VSchemaChanged(live) = plan.vschema

\* Shard-scoped applies are refused; otherwise the two plans must be the same.
verifyMaterializedPlanMatchesLiveSchema(d) ==
    /\ req[d].pc = "verify"
    /\ req' = [req EXCEPT ![d] =
                 [pc |-> IF plan.shards = {} /\ compareDriftMultisets /\ compareVSchemaParity
                         THEN "create" ELSE "refused",
                  seen |-> live, at |-> drifts]]
    /\ UNCHANGED <<case, files, primary, live, plan, row, drifts>>

\* The plan row; a concurrent drive's row is used instead of failing.
materializeApplyRequestPlan(d) ==
    /\ req[d].pc = "create"
    /\ row' = IF row = NoPlan THEN namespacesFromApplyRequest ELSE row
    /\ Goto(d, "run")
    /\ UNCHANGED <<case, files, primary, live, plan, drifts>>

Fits(c) == \A s \in case.shards : live.tables[<<s, c.table>>] = c.from
After ==
    [tables  |-> [p \in case.shards \X case.tables |->
                    IF \E c \in row.tables : c.table = p[2] THEN files.tables[p[2]] ELSE live.tables[p]],
     vschema |-> IF row.vschema THEN files.vschema ELSE live.vschema]

\* The accepted apply runs: a statement that does not fit its table fails.  (One
\* apply at a time; a second one of the plan finds its changes made and fails.)
startApplyExecution(d) ==
    /\ req[d].pc = "run"
    /\ IF \A c \in row.tables : Fits(c)
           THEN live' = After /\ Goto(d, "completed")
           ELSE Goto(d, "failed") /\ UNCHANGED live
    /\ UNCHANGED <<case, files, primary, plan, row, drifts>>

\* Somebody changes the secondary by hand.
Drift ==
    /\ drifts < MaxDrifts /\ plan # NoPlan
    /\ drifts' = drifts + 1
    /\ \E p \in Places, v \in Versions : live' = Touched(live, p, v)
    /\ live' # live
    /\ UNCHANGED <<case, files, primary, plan, row, req>>

Dispatch(d) ==
    \/ planForApplyRequest(d) \/ verifyMaterializedPlanMatchesLiveSchema(d)
    \/ materializeApplyRequestPlan(d) \/ startApplyExecution(d)

Ended(d) == req[d].pc \in {"refused", "completed", "failed"}
Done == (plan = NoPlan \/ \A d \in Dispatches : Ended(d)) /\ UNCHANGED vars

Next == Plan \/ (\E d \in Dispatches : Dispatch(d)) \/ Drift \/ Done

Spec == Init /\ [][Next]_vars

Desired == Changes(live) = {} /\ ~VSchemaChanged(live)

\* A plan reviewed on the primary leaves a secondary that checked it, and whose
\* schema nobody changed since, exactly as the files say: nothing is left out of
\* a completed apply, and nothing else comes with it.
CompletedIsDesired ==
    \A d \in Dispatches :
        req[d].pc = "completed" /\ req[d].seen # None /\ req[d].at = drifts => Desired

\* Only drift is refused: a dispatch that found the schema the plan was made
\* against gets its plan row, also when it loses the race to create it.  (A
\* sharded plan is always refused.)
NoFalseRefusal ==
    \A d \in Dispatches :
        req[d].pc = "refused" /\ plan.shards = {} /\ drifts = 0
            => req[d].seen # primary

\* Every dispatch of a stored plan is answered.
DispatchEnds == (plan # NoPlan) ~> (\A d \in Dispatches : Ended(d))
=============================================================================
