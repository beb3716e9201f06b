--------------------------- MODULE VitessProgress ---------------------------
(***************************************************************************)
(* Per-shard progress of a Vitess change.  A deploy request makes Vitess   *)
(* run one migration per shard under a migration context that nobody tells *)
(* SchemaBot.  The drive captures the contexts that exist before the       *)
(* deploy, looks for a new one afterwards, keeps it in the resume state of *)
(* the operation, and from then on copies the shards' states into one task *)
(* row per shard.  A drive may die or be displaced by another at any step; *)
(* other changes may run on the same database.                             *)
(* Abstracted: keyspaces are read together; a deploy request is created    *)
(* ready, and its record is stored with it (DeployRequests and             *)
(* PlanetScaleDrive have the steps between); the change has one table.     *)
(***************************************************************************)
EXTENDS Naturals, Sequences, FiniteSets, Functions

CONSTANTS Shards,       \* numbered in the order of their names
          MaxDrives,    \* drives alive at once
          Changes,      \* what may happen: [deferred, other, faults]
          MaxTries      \* attempts of a discovery with retry
Nobody == 0
Drives == 1..MaxDrives

VARIABLES
    scn,      \* the member of Changes this behaviour is about
    own,      \* SHOW VITESS_MIGRATIONS, this change: per shard, state and ready_to_complete
    other,    \* the same for another change: its state, and when it was requested
    deploy,   \* deployment_state of the deploy request
    meta,     \* engine resume state of the operation: context and baseline
    holder,   \* the drive whose operation lease is current
    drv,      \* the drives
    tasks,    \* the rows of each shard in the tasks table
    op,       \* the operation: "running" or "over"
    hit       \* the faults that have happened

vitess == <<own, other, deploy>>
vars == <<scn, vitess, meta, holder, drv, tasks, op, hit>>

Row(s, r) == [status |-> s, ready |-> r]
NoRow == Row("none", FALSE)
NoMeta == [ctx |-> "none", base |-> {}]
\* In memory: the resume state, what the discovery under way found of the
\* earlier attempts, and the tick's reading of the deploy request and shards.
Idle == [pc |-> "idle", ctx |-> "none", base |-> {}, tries |-> 0,
         fresh |-> FALSE, over |-> FALSE, seen |-> <<>>, todo |-> {}]

Init ==
    /\ scn \in Changes
    /\ own = [s \in Shards |-> NoRow]
    /\ other = IF scn.other = "old" THEN [status |-> "running", at |-> 0] ELSE [status |-> "none", at |-> 0]
    /\ deploy = "none" /\ meta = NoMeta /\ holder = Nobody
    /\ drv = [d \in Drives |-> Idle]
    /\ tasks = [s \in Shards |-> <<>>]
    /\ op = "running" /\ hit = {}

\* One fault of each kind the scenario allows.
Fault(f) == f \in scn.faults \ hit /\ hit' = hit \cup {f}
At(d, pc) == drv[d].pc = pc
Go(d, rec) == drv' = [drv EXCEPT ![d] = rec]

(***************************************************************************)
(* Contexts.                                                               *)
(***************************************************************************)
IsTerminalVitessState(s) == s \in {"complete", "failed", "cancelled"}
Started == \E s \in Shards : own[s].status # "none"
Contexts == (IF Started THEN {"own"} ELSE {}) \cup (IF other.status = "none" THEN {} ELSE {"other"})
Rows(c) == IF c = "own" THEN {own[s].status : s \in Shards} ELSE {other.status}
\* When a context was requested; the deploy request was created at 1.
RequestedAt(c) == IF c = "other" THEN other.at ELSE IF other.at = 1 THEN 2 ELSE 1
isRealVitessContext(c) == c \in {"own", "other"}

\* Mutant: a context of the baseline is a candidate as well.
AnyContext(base) ==
    LET candidates == {c \in Contexts : \E s \in Rows(c) : ~IsTerminalVitessState(s)}
        since == {c \in candidates : RequestedAt(c) >= 1}
    IN  IF Cardinality(candidates) <= 1 THEN candidates
        ELSE {c \in since : \A e \in since : RequestedAt(c) <= RequestedAt(e)}

\* The new context among the rows: not in the baseline and not all over.  With
\* several, the earliest requested since the deploy request was created.
selectSchemaChangeContext(base) ==
    LET candidates == {c \in Contexts \ base : \E s \in Rows(c) : ~IsTerminalVitessState(s)}
        since == {c \in candidates : RequestedAt(c) >= 1}
    IN  IF Cardinality(candidates) <= 1 THEN candidates
        ELSE {c \in since : \A e \in since : RequestedAt(c) <= RequestedAt(e)}

discoverMigrationContext(base) == selectSchemaChangeContext(base)

\* A keyspace that cannot be read is left out of the baseline.
captureExistingContexts(base) ==
    \/ base = Contexts /\ UNCHANGED hit
    \/ base = {} /\ Fault("unread")

\* The resume state is written under the operation lease.
Save(d, ctx, base) ==
    IF holder = d THEN meta' = [ctx |-> ctx, base |-> base] ELSE UNCHANGED meta

(***************************************************************************)
(* The drive: up to the deploy.                                            *)
(***************************************************************************)
\* A drive claims the operation when nobody drives it, or while the holder is
\* alive but silent past the lease (once its first record is stored).  Drives
\* are numbered in the order in which they claim.
Claim(d) ==
    /\ op = "running" /\ At(d, "idle") /\ d = (holder % MaxDrives) + 1
    /\ \/ \A e \in Drives : At(e, "idle") /\ UNCHANGED hit
       \/ holder # Nobody /\ ~At(holder, "idle") /\ meta # NoMeta /\ Fault("displace")
    /\ holder' = d
    /\ Go(d, [Idle EXCEPT !.pc = IF meta = NoMeta THEN "capture" ELSE "resume",
                          !.ctx = meta.ctx, !.base = meta.base])
    /\ UNCHANGED <<scn, vitess, meta, tasks, op>>

\* Fresh apply: the baseline, before the deploy request exists.
CaptureBaseline(d) ==
    /\ At(d, "capture")
    /\ \E base \in SUBSET {"own", "other"} :
         /\ captureExistingContexts(base)
         /\ Go(d, [drv[d] EXCEPT !.pc = "create", !.base = base, !.fresh = TRUE])
    /\ UNCHANGED <<scn, vitess, meta, holder, tasks, op>>

\* The deploy request is created and recorded, with the identifier of the apply
\* where the context will go.  A deferred deploy is left to the operator.
createDeployRequest(d) ==
    /\ At(d, "create")
    /\ deploy' = "ready" /\ Save(d, "apply", drv[d].base)
    /\ Go(d, [drv[d] EXCEPT !.pc = IF scn.deferred THEN "poll" ELSE "deploy", !.ctx = "apply"])
    /\ UNCHANGED <<scn, own, other, holder, tasks, op, hit>>

\* DeployDeployRequest: accepted once; the loser of a race gets an error, which
\* ends its drive.
Deploy(d) ==
    /\ At(d, "deploy")
    /\ IF deploy = "ready"
       THEN deploy' = "deploying" /\ Go(d, [drv[d] EXCEPT !.pc = "discover", !.tries = 0])
       ELSE UNCHANGED deploy /\ Go(d, Idle)
    /\ UNCHANGED <<scn, own, other, meta, holder, tasks, op, hit>>

\* Resume: a request never deployed is deployed, against a new baseline; an
\* identifier in place of a context starts a discovery against the stored one.
resumeExistingDeployRequest(d) ==
    /\ At(d, "resume")
    /\ \/ /\ deploy = "ready" /\ ~scn.deferred
          /\ \E base \in SUBSET {"own", "other"} :
               /\ captureExistingContexts(base)
               /\ Go(d, [drv[d] EXCEPT !.pc = "deploy", !.base = base])
       \/ /\ ~(deploy = "ready" /\ ~scn.deferred)
          /\ Go(d, [drv[d] EXCEPT !.pc = IF isRealVitessContext(drv[d].ctx) THEN "poll" ELSE "discover"])
          /\ UNCHANGED hit
    /\ UNCHANGED <<scn, vitess, meta, holder, tasks, op>>

\* When the attempts run out a fresh apply returns no context, a resumed one the
\* value it had.
resolveResumeSchemaChangeContext(d) == IF drv[d].fresh THEN "" ELSE drv[d].ctx

\* The outcome is stored, and the poll begins.
persistResumeSchemaChangeContext(d, c) ==
    /\ Save(d, c, meta.base)
    /\ Go(d, IF holder = d
             THEN [drv[d] EXCEPT !.pc = "poll", !.ctx = c, !.base = meta.base, !.tries = 0, !.fresh = FALSE]
             ELSE Idle)

\* One attempt of a discovery with retry.
discoverSchemaChangeContextWithRetry(d) ==
    LET found == discoverMigrationContext(drv[d].base)
        last == drv[d].tries + 1 >= MaxTries
    IN  /\ At(d, "discover")
        /\ \/ \E c \in found : persistResumeSchemaChangeContext(d, c)
           \/ found = {} /\ ~last /\ Go(d, [drv[d] EXCEPT !.tries = @ + 1]) /\ UNCHANGED meta
           \/ found = {} /\ last /\ persistResumeSchemaChangeContext(d, resolveResumeSchemaChangeContext(d))
        /\ UNCHANGED <<scn, vitess, holder, tasks, op, hit>>

(***************************************************************************)
(* The drive: a tick of the progress poll.                                 *)
(***************************************************************************)
\* running and ready_to_complete is ready_to_complete.
EffectiveState(r) == IF r.status = "running" /\ r.ready THEN "ready_to_complete" ELSE r.status

NormalizeShardStatus(s) ==
    CASE s = "queued" -> "pending"
      [] s = "ready_to_complete" -> "waiting_for_cutover"
      [] s = "complete" -> "completed"
      [] OTHER -> s

\* The rows of a context, of the tables of this change.
queryVitessMigrations(c) == IF c = "own" THEN own ELSE <<>>

\* Progress reads the deploy request first ...
ReadDeployRequest(d) ==
    /\ At(d, "poll")
    /\ Go(d, [drv[d] EXCEPT !.pc = "query", !.over = deploy \in {"complete", "error"}])
    /\ UNCHANGED <<scn, vitess, meta, holder, tasks, op, hit>>

\* ... then looks for a context if it has none, and reads the shards of the one
\* it has.  The drive stores the context, or exits when it has lost the lease.
Progress(d) ==
    LET found == IF drv[d].ctx = "" THEN discoverMigrationContext(drv[d].base) ELSE {}
        c == IF found = {} THEN drv[d].ctx ELSE CHOOSE f \in found : TRUE
    IN  /\ At(d, "query")
        /\ Save(d, c, drv[d].base)
        /\ Go(d, IF holder = d
                 THEN [drv[d] EXCEPT !.pc = "write", !.ctx = c, !.seen = queryVitessMigrations(c),
                                     !.todo = DOMAIN queryVitessMigrations(c)]
                 ELSE Idle)
        /\ UNCHANGED <<scn, vitess, holder, tasks, op, hit>>

\* The shards in the order of their names.
NextShard(d) == CHOOSE s \in drv[d].todo : \A t \in drv[d].todo : s <= t
Written(d, s) == [drv[d] EXCEPT !.pc = "write", !.todo = @ \ {s}, !.seen[s] = NoRow]
\* The lease is gone: no further shard is written.
Displaced(d) == [drv[d] EXCEPT !.pc = "write", !.todo = {}, !.seen = <<>>]
Value(d, s) == NormalizeShardStatus(EffectiveState(drv[d].seen[s]))

\* Mutant: the update does not ask for the lease.
UpsertUnguarded(d) ==
    LET s == NextShard(d) IN
    /\ At(d, "write") /\ drv[d].todo # {}
    /\ \/ /\ tasks[s] # <<>> /\ UNCHANGED hit
          /\ tasks' = [tasks EXCEPT ![s][1] = Value(d, s)] /\ Go(d, Written(d, s))
       \/ /\ tasks[s] = <<>> /\ UNCHANGED <<tasks, hit>>
          /\ Go(d, [drv[d] EXCEPT !.pc = "insert"])
       \/ Fault("write") /\ UNCHANGED tasks /\ Go(d, Written(d, s))
    /\ UNCHANGED <<scn, vitess, meta, holder, op>>

\* Look the row of the shard up; update it under the lease, or go on to insert it.
\* A failed write is logged and passed over.
UpsertShardProgress(d) ==
    LET s == NextShard(d) IN
    /\ At(d, "write") /\ drv[d].todo # {}
    /\ \/ /\ tasks[s] # <<>> /\ UNCHANGED hit
          /\ IF holder = d
             THEN tasks' = [tasks EXCEPT ![s][1] = Value(d, s)] /\ Go(d, Written(d, s))
             ELSE UNCHANGED tasks /\ Go(d, Displaced(d))
       \/ /\ tasks[s] = <<>> /\ UNCHANGED <<tasks, hit>>
          /\ Go(d, [drv[d] EXCEPT !.pc = "insert"])
       \/ Fault("write") /\ UNCHANGED tasks /\ Go(d, Written(d, s))
    /\ UNCHANGED <<scn, vitess, meta, holder, op>>

\* The insert selects from the operation row with the drive's token.
insertShardTaskGuarded(d) ==
    LET s == NextShard(d) IN
    /\ At(d, "insert")
    /\ IF holder = d
       THEN tasks' = [tasks EXCEPT ![s] = Append(@, Value(d, s))] /\ Go(d, Written(d, s))
       ELSE UNCHANGED tasks /\ Go(d, Displaced(d))
    /\ UNCHANGED <<scn, vitess, meta, holder, op, hit>>

\* The end of the tick: the task takes the state of the deploy request, under the
\* lease, and the drive stops when that is an end.
EndTick(d) ==
    /\ At(d, "write") /\ drv[d].todo = {}
    /\ IF drv[d].over
       THEN op' = (IF holder = d THEN "over" ELSE op) /\ Go(d, Idle)
       ELSE UNCHANGED op /\ Go(d, [drv[d] EXCEPT !.pc = "poll", !.over = FALSE, !.seen = <<>>])
    /\ UNCHANGED <<scn, vitess, meta, holder, tasks, hit>>

Crash(d) ==
    /\ ~At(d, "idle") /\ Fault("crash")
    /\ Go(d, Idle)
    /\ UNCHANGED <<scn, vitess, meta, holder, tasks, op>>

Drive(d) ==
    \/ CaptureBaseline(d) \/ createDeployRequest(d) \/ Deploy(d)
    \/ resumeExistingDeployRequest(d) \/ discoverSchemaChangeContextWithRetry(d)
    \/ ReadDeployRequest(d) \/ Progress(d)
    \/ UpsertShardProgress(d) \/ insertShardTaskGuarded(d) \/ EndTick(d)

(***************************************************************************)
(* PlanetScale, Vitess, the operator and other changes.                    *)
(***************************************************************************)
Others == UNCHANGED <<scn, meta, holder, drv, tasks, op>>

\* The operator triggers a deferred deploy.
DeployDeferred ==
    /\ scn.deferred /\ deploy = "ready" /\ meta # NoMeta
    /\ deploy' = "deploying"
    /\ Others /\ UNCHANGED <<own, other, hit>>

VitessStarts ==
    /\ deploy = "deploying"
    /\ deploy' = "in_progress" /\ own' = [s \in Shards |-> Row("queued", FALSE)]
    /\ Others /\ UNCHANGED <<other, hit>>

ShardSteps(s) ==
    /\ deploy = "in_progress" /\ ~IsTerminalVitessState(own[s].status)
    /\ own' = [own EXCEPT ![s] = CASE @.status = "queued" -> Row("running", FALSE)
                                   [] @ = Row("running", FALSE) -> Row("running", TRUE)
                                   [] @ = Row("running", TRUE) -> Row("complete", TRUE)]
    /\ Others /\ UNCHANGED <<other, deploy, hit>>

\* A shard fails, and the shards still at work are cancelled.
ShardFails(s) ==
    /\ deploy = "in_progress" /\ own[s].status = "running" /\ Fault("fail")
    /\ own' = [t \in Shards |-> IF t = s THEN Row("failed", FALSE)
                                ELSE IF IsTerminalVitessState(own[t].status) THEN own[t]
                                ELSE Row("cancelled", FALSE)]
    /\ Others /\ UNCHANGED <<other, deploy>>

DeployEnds ==
    /\ deploy = "in_progress" /\ \A s \in Shards : IsTerminalVitessState(own[s].status)
    /\ deploy' = IF \A s \in Shards : own[s].status = "complete" THEN "complete" ELSE "error"
    /\ Others /\ UNCHANGED <<own, other, hit>>

OtherStarts ==
    /\ scn.other = "later" /\ other.status = "none"
    /\ other' = [status |-> "running", at |-> IF deploy = "none" THEN 0 ELSE IF Started THEN 2 ELSE 1]
    /\ Others /\ UNCHANGED <<own, deploy, hit>>

OtherEnds ==
    /\ other.status = "running"
    /\ other' = [other EXCEPT !.status = "complete"]
    /\ Others /\ UNCHANGED <<own, deploy, hit>>

Next ==
    \/ \E d \in Drives : Claim(d) \/ Drive(d) \/ Crash(d)
    \/ DeployDeferred \/ VitessStarts \/ DeployEnds \/ OtherStarts \/ OtherEnds
    \/ \E s \in Shards : ShardSteps(s) \/ ShardFails(s)

Spec == Init /\ [][Next]_vars

\* Live drives go on, an undriven operation is claimed, and PlanetScale answers;
\* how long a shard copies, and whether an operator ever deploys, is open.
FairSpec ==
    /\ Spec
    /\ \A d \in Drives : WF_vars(Drive(d))
    /\ WF_vars(\E d \in Drives : Claim(d)) /\ WF_vars(VitessStarts \/ DeployEnds)

(***************************************************************************)
(* The table's headline, from its shards.                                  *)
(***************************************************************************)

resolveTableState(table, shard) ==
    CASE shard \in {"failed", "cancelled"} -> "failed"
      [] shard = "running" /\ table # "failed" -> "running"
      [] shard = "queued" /\ table \notin {"failed", "running"} -> "queued"
      [] shard = "ready_to_complete" /\ table = "complete" -> "ready_to_complete"
      [] OTHER -> table

RowsTotal == 2
\* The state and the percentage of the table, given the rows Vitess says each
\* shard has copied: more or fewer than the shard has, since it estimates both.
aggregateShardProgress(copied) ==
    LET st == [s \in Shards |-> EffectiveState(own[s])]
        Copied(s) == IF st[s] \in {"ready_to_complete", "complete"} /\ copied[s] < RowsTotal
                     THEN RowsTotal ELSE copied[s]
        sum == FoldFunction(+, 0, [s \in Shards |-> Copied(s)])
        pct == (sum * 100) \div (RowsTotal * Cardinality(Shards))
    IN  [state |-> FoldFunction(LAMBDA x, acc : resolveTableState(acc, x), "complete", st),
         pct |-> IF pct > 100 THEN 100 ELSE pct]
-----------------------------------------------------------------------------
\* As a poll reads it, a table is shown ready to complete only when every shard
\* is ready or complete, and complete only when every one is; it is then at 100%
\* whatever Vitess counted; a failed or cancelled shard always shows
\* (aggregateShardProgress, resolveTableState).
HeadlineIsWorst ==
    Started /\ (\E d \in Drives : At(d, "query")) =>
      \A copied \in [Shards -> 0..RowsTotal + 1] :
        LET t == aggregateShardProgress(copied)
            st == {EffectiveState(own[s]) : s \in Shards}
        IN  /\ t.state = "complete" <=> st = {"complete"}
            /\ t.state = "ready_to_complete" =>
                 st \subseteq {"complete", "ready_to_complete"} /\ "ready_to_complete" \in st
            /\ t.state \in {"complete", "ready_to_complete"} => t.pct = 100
            /\ t.state = "failed" <=> st \cap {"failed", "cancelled"} # {}

\* The context an operation records is that of its own change, when the baseline
\* was readable and no other change starts meanwhile: neither the history of the
\* database nor a change already under way is taken for it.
ContextIsOwn ==
    scn.other # "later" /\ "unread" \notin hit => meta.ctx # "other"

\* A shard has at most one task row, though the table has no unique key and the
\* row is looked up before it is inserted: only the holder of the lease inserts.
ShardRowsUnique == \A s \in Shards : Len(tasks[s]) <= 1

\* When the operation is over the rows of the shards show how each ended: no
\* displaced drive writes an older state over it (a write that failed on the last
\* tick is not repeated, and is left out).
ShardsShowTheEnd ==
    op = "over" /\ meta.ctx = "own" /\ "write" \notin hit =>
      \A s \in Shards : tasks[s] = <<NormalizeShardStatus(own[s].status)>>

\* What is shown of the shards is true: the headline of their table, their rows
\* while the change runs, and how they ended.
ShardsShown == HeadlineIsWorst /\ ShardRowsUnique /\ ShardsShowTheEnd

\* The shard rows of a running change are there, and the operation of one that is
\* over has ended.  Left out: another change taken for this one, a failed write,
\* and an apply identifier in the place of the context, which a deferred deploy
\* or a resume whose discovery ran out leaves there and Progress does not replace.
Attached ==
    /\ deploy = "in_progress" /\ meta.ctx # "other" /\ "write" \notin hit =>
         \/ meta.ctx = "own" /\ \A s \in Shards : tasks[s] # <<>>
         \/ meta.ctx = "apply" /\ (scn.deferred \/ hit \cap {"crash", "displace"} # {})
    /\ deploy \in {"complete", "error"} => op = "over"

\* A change that Vitess is running gets its context and with it its shard rows,
\* however late Vitess shows it; and a deploy that is over ends the operation.
ProgressAttaches == []<>Attached
=============================================================================
