---------------------------- MODULE PullRequest ----------------------------
(***************************************************************************)
(* The webhook layer of one SchemaBot instance: pull request events and    *)
(* comment commands, the stored check rows, the aggregate check run on     *)
(* GitHub and the database locks.                                          *)
(*                                                                         *)
(* Every delivery is handled by goroutines of its own. A goroutine is a    *)
(* thread here: a record with a program counter and what it has read. One  *)
(* step is one statement on the store or one call to GitHub, with the      *)
(* local computation around it. A thread that has returned is removed.     *)
(*                                                                         *)
(* A schema is a number; a head of a pull request gives each database the  *)
(* schema it declares, 0 when the head does not touch the database. A plan *)
(* is the pair of the live schema and the declared one. The instance owns  *)
(* every environment, so one aggregate check run speaks for all of them.   *)
(***************************************************************************)
EXTENDS Naturals, Sequences, FiniteSets, TLC

CONSTANT Scripts   \* what to try: environments in promotion order, databases,
                   \* the heads of each pull request, the deliveries, the ends
                   \* an apply may have, and how many threads may die

VARIABLES
  script,    \* the script of this behaviour
  sent,      \* deliveries so far
  head,      \* current head of each pull request
  live,      \* live schema of each target (environment and database)
  locks,     \* database locks
  applies,   \* the applies of pull requests, in the order of their ids
  rows,      \* stored check rows per pull request and target
  agg,       \* stored aggregate check row per pull request
  runs,      \* aggregate check runs on GitHub per pull request and head
  th,        \* the threads
  faults     \* threads that died

vars == <<script, sent, head, live, locks, applies, rows, agg, runs, th, faults>>
store == <<rows, agg, runs>>
world == <<script, sent, head, live, locks, applies, faults>>

PRs == DOMAIN script.want
Targets == {<<script.envs[i], d>> : i \in DOMAIN script.envs, d \in script.dbs}
Declared(p, h, d) == script.want[p][h][d]
Affected(p, h) == {d \in script.dbs : Declared(p, h, d) # 0}

NoRow == [head |-> 0, res |-> "none", apply |-> 0, block |-> "none"]
NoRun == [head |-> 0, run |-> 0, res |-> "none"]
NoPlan == [kind |-> "none", env |-> "none", head |-> 0, from |-> 0, to |-> 0]
NoLock == [owner |-> 0, plan |-> NoPlan]
Started(row) == row.res = "in_progress" \/ row.apply # 0
Ended == {"completed", "failed", "stopped"}
Running(a) == applies[a].state \notin Ended

\* A thread before it has read anything. cur is the head kept by the request's
\* cache (0 without one), sha the head it works for, pub the head to publish on.
Thread == [kind |-> "none", pr |-> 0, t |-> <<>>, pc |-> "none", next |-> "none",
           cur |-> 0, sha |-> 0, pub |-> 0, fresh |-> FALSE, hit |-> FALSE,
           left |-> <<>>, found |-> {}, plan |-> NoPlan, shown |-> NoPlan,
           a |-> 0, run |-> 0, row |-> NoRow, snap |-> <<>>, res |-> "none"]

Init ==
  /\ script \in Scripts
  /\ sent = 0 /\ faults = 0
  /\ head = [p \in PRs |-> 1]
  /\ live = [t \in Targets |-> 1]
  /\ locks = [d \in script.dbs |-> NoLock]
  /\ applies = <<>>
  /\ rows = [p \in PRs |-> [t \in Targets |-> NoRow]]
  /\ agg = [p \in PRs |-> NoRun]
  /\ runs = [p \in PRs |-> [h \in DOMAIN script.want[p] |-> <<>>]]
  /\ th = <<>>

At(n, pc) == th[n].pc = pc
PR(n) == th[n].pr
Db(n) == th[n].t[2]
MyRow(n) == rows[PR(n)][th[n].t]
Return(n) == th' = [k \in DOMAIN th \ {n} |-> th[k]]
Goto(n, pc) == th' = [th EXCEPT ![n].pc = pc]

\* The head a cached fetch answers: the first one this request saw.
FetchPullRequest(n) == IF th[n].cur # 0 THEN th[n].cur ELSE head[PR(n)]

\* A script that is to be repaired by its last delivery is left alone from then.
Undisturbed == script.heals /\ sent = Len(script.sends)
MayFail == faults < script.faults /\ ~Undisturbed

\* Go and publish the aggregate on head h, then continue at pc.
Publish(n, h, pc) ==
  th' = [th EXCEPT ![n].pc = "agg", ![n].pub = h, ![n].next = pc]

Newest(p, t) ==
  LET mine == {a \in DOMAIN applies : applies[a].pr = p /\ applies[a].t = t}
  IN IF mine = {} THEN 0 ELSE CHOOSE a \in mine : \A b \in mine : b <= a

(***************************************************************************)
(* Deliveries. A push moves the head before its event arrives; "moved" is  *)
(* a push whose event is still under way. A delivery is sent at any time,  *)
(* when nothing is being handled, or while an apply is running.            *)
(***************************************************************************)
FirstStep(kind) ==
  CASE kind \in {"opened", "push"} -> "discover"
    [] kind \in {"plan", "planall"} -> "reconcile"
    [] kind \in {"apply", "apply-y", "confirm"} -> "schema"
    [] kind \in {"unlock", "unlock-force"} -> "unlock"
    [] kind = "rollback" -> "rbsource"
    [] kind = "rollback-confirm" -> "rbconfirm"
    [] kind = "closed" -> "close"

Deliver ==
  /\ sent < Len(script.sends)
  /\ LET d == script.sends[sent + 1]
         new == [Thread EXCEPT !.kind = d.kind, !.pr = d.pr, !.t = d.t,
                               !.pc = FirstStep(d.kind), !.sha = head'[d.pr],
                               !.left = IF d.kind = "plan" THEN <<d.t[1]>> ELSE script.envs]
         driven == \E a \in DOMAIN applies : Running(a)
     IN /\ CASE d.at = "any" -> TRUE
             [] d.at = "calm" -> th = <<>> /\ ~driven
             [] d.at = "applying" -> driven
             [] d.at = "driving" -> th = <<>> /\ driven
        /\ head' = [head EXCEPT ![d.pr] = IF d.kind \in {"push", "moved"} THEN @ + 1 ELSE @]
        /\ th' = IF d.kind = "moved" THEN th ELSE (<<"cmd", sent + 1>> :> new) @@ th
  /\ sent' = sent + 1
  /\ UNCHANGED <<script, live, locks, applies, rows, agg, runs, faults>>

\* The files of the pull request are read at its head of now, whatever head
\* the event was for. Cleanup and one plan per database run on their own.
runAutoPlanForPR(n) ==
  /\ At(n, "discover")
  /\ LET p == PR(n)
         found == Affected(p, head[p])
         clean == <<"clean", n[2]>> :>
                    [th[n] EXCEPT !.kind = "clean", !.pc = "clean", !.found = found]
         pass == <<"pass", n[2]>> :> [th[n] EXCEPT !.kind = "pass", !.pc = "pass"]
         plan == [k \in {<<"plan", n[2], d>> : d \in found} |->
                   [th[n] EXCEPT !.kind = "auto", !.pc = "reconcile",
                                 !.t = <<"none", k[3]>>]]
         rest == [k \in DOMAIN th \ {n} |-> th[k]]
     IN th' = clean @@ (IF found = {} THEN pass ELSE plan) @@ rest
  /\ UNCHANGED <<world, store>>

\* Discovery that fails reports a failing aggregate.
postConfigDiscoveryFailure(n) ==
  /\ At(n, "discover")
  /\ MayFail
  /\ faults' = faults + 1
  /\ Goto(n, "fail")
  /\ UNCHANGED <<script, sent, head, live, locks, applies, store>>

(***************************************************************************)
(* The aggregate check run. Reading the rows, writing to GitHub and        *)
(* storing the aggregate row are three steps.                              *)
(***************************************************************************)
Stored(p) == {rows[p][t] : t \in {u \in Targets : rows[p][u].head # 0}}

\* The worst of the rows, whatever head each row was written for.
computeAggregate(results) ==
  CASE "in_progress" \in results -> "in_progress"
    [] "failure" \in results -> "failure"
    [] "action_required" \in results -> "action_required"
    [] OTHER -> "success"

\* The head of now, or the cached one, decides whether the work is stale.
verifyHeadSHAStillCurrentForPR(n, h) ==
  h = IF th[n].fresh THEN head[PR(n)] ELSE FetchPullRequest(n)

Leave(n, pc) ==
  IF pc = "return" THEN Return(n)
  ELSE th' = [th EXCEPT ![n].pc = pc, ![n].fresh = FALSE]

updateAggregateCheck(n) ==
  /\ At(n, "agg")
  /\ IF verifyHeadSHAStillCurrentForPR(n, th[n].pub) /\ Stored(PR(n)) # {}
     THEN th' = [th EXCEPT ![n].pc = "post",
                   ![n].res = computeAggregate({r.res : r \in Stored(PR(n))})]
     ELSE Leave(n, th[n].next)
  /\ UNCHANGED <<world, store>>

\* The run stored for this head is updated, otherwise a new one is created.
PostTo(n, p, h, i) ==
  /\ runs' = [runs EXCEPT ![p][h] = IF i = 0 THEN Append(@, th[n].res)
                                             ELSE [@ EXCEPT ![i] = th[n].res]]
  /\ th' = [th EXCEPT ![n].pc = "keep", ![n].run = IF i = 0 THEN Len(runs[p][h]) + 1 ELSE i]
  /\ UNCHANGED <<world, rows, agg>>

upsertAggregateCheckRun(n) ==
  /\ At(n, "post")
  /\ LET p == PR(n)
         h == th[n].pub
     IN PostTo(n, p, h, IF agg[p].head = h THEN agg[p].run ELSE 0)

StoreAggregate(n) ==
  /\ At(n, "keep")
  /\ agg' = [agg EXCEPT ![PR(n)] = [head |-> th[n].pub, run |-> th[n].run, res |-> th[n].res]]
  /\ Leave(n, th[n].next)
  /\ UNCHANGED <<world, rows, runs>>

\* No configuration is touched: pass, unless a stored row stands against it.
postPassingAggregates(n) ==
  /\ At(n, "pass")
  /\ IF /\ th[n].sha = head[PR(n)]
        /\ \A r \in Stored(PR(n)) :
             ~Started(r) /\ r.res \notin {"failure", "action_required"}
     THEN th' = [th EXCEPT ![n].pc = "passpost"]
     ELSE Return(n)
  /\ UNCHANGED <<world, store>>

PostPassing(n) ==
  /\ At(n, "passpost")
  /\ LET p == PR(n)
         h == th[n].sha
     IN IF agg[p].head = h /\ agg[p].res = "success"
        THEN Return(n) /\ UNCHANGED <<world, store>>
        ELSE /\ th' = [th EXCEPT ![n].pc = "post", ![n].pub = h, ![n].next = "return",
                                 ![n].res = "success"]
             /\ UNCHANGED <<world, store>>

\* A failing aggregate is always a new run.
postFailingAggregates(n) ==
  /\ At(n, "fail")
  /\ IF verifyHeadSHAStillCurrentForPR(n, th[n].sha)
     THEN /\ runs' = [runs EXCEPT ![PR(n)][th[n].sha] = Append(@, "failure")]
          /\ th' = [th EXCEPT ![n].pc = "keep", ![n].pub = th[n].sha,
                              ![n].run = Len(runs'[PR(n)][th[n].sha]),
                              ![n].res = "failure", ![n].next = "return"]
     ELSE Return(n) /\ UNCHANGED runs
  /\ UNCHANGED <<world, rows, agg>>

(***************************************************************************)
(* Writes of check rows.                                                   *)
(***************************************************************************)
Owned(row) == row.res = "in_progress" /\ row.apply # 0

\* Mutant: a plan result replaces whatever row is there.
UpsertAnyPlanResult(row, new) == new

\* A plan result replaces every row but one a started apply still owns.
UpsertPlanResult(row, new) == IF Owned(row) THEN row ELSE new

\* A manual plan without changes takes such a row back, on the same head.
RecoverApplyOwnedCheckWithNoOpPlan(row, new) ==
  IF new.res = "success" /\ Owned(row) /\ row.head = new.head THEN new ELSE row

\* The end of apply a may be written if the row is still its own and there
\* is no newer apply.
CompleteForApply(p, t, a) ==
  /\ rows[p][t].res = "in_progress"
  /\ rows[p][t].apply = a
  /\ Newest(p, t) = a

\* The row for the end of apply a, from what was read of it.
ApplyResult(read, a) ==
  LET res == IF applies[a].state # "completed" THEN "failure"
             ELSE IF read.block = "removed" THEN "action_required" ELSE "success"
  IN [read EXCEPT !.res = res, !.apply = a,
                  !.block = IF res = "success" THEN "none" ELSE @]

MarkActionRequiredForApply(p, t, a) ==
  [rows[p][t] EXCEPT !.res = "action_required", !.apply = 0, !.block = "rollback"]

IsRollback(a) == applies[a].plan.kind = "rollback"

(***************************************************************************)
(* Rows left in progress by an apply that has ended are completed first.   *)
(***************************************************************************)
\* Mutant: a row of an apply that failed is left as it is.
LeftBehindCompleted(p, t) ==
  LET a == Newest(p, t)
  IN /\ a # 0 /\ rows[p][t].head # 0
     /\ applies[a].state = "completed"
     /\ CompleteForApply(p, t, a)

LeftBehind(p, t) ==
  LET a == Newest(p, t)
  IN /\ a # 0 /\ rows[p][t].head # 0
     /\ applies[a].state \in {"completed", "failed"}
     /\ CompleteForApply(p, t, a)

\* Where a command goes on once the rows are reconciled.
AfterReconcile(n) == IF th[n].kind \in {"apply", "apply-y"} THEN "gate" ELSE "schema"

\* One row; a completed rollback publishes on its own, against the head of now.
ReconcileRow(n, t) ==
  LET p == PR(n)
      a == Newest(p, t)
  IN /\ At(n, "reconcile")
     /\ LeftBehind(p, t)
     /\ IF IsRollback(a) /\ applies[a].state = "completed"
        THEN /\ rows' = [rows EXCEPT ![p][t] = MarkActionRequiredForApply(p, t, a)]
             /\ th' = [th EXCEPT ![n].pc = "agg", ![n].pub = rows[p][t].head,
                                 ![n].fresh = TRUE, ![n].hit = TRUE,
                                 ![n].next = "reconcile"]
        ELSE /\ rows' = [rows EXCEPT ![p][t] = ApplyResult(@, a)]
             /\ th' = [th EXCEPT ![n].hit = TRUE]
     /\ UNCHANGED <<world, agg, runs>>

reconcileStaleChecks(n) ==
  /\ At(n, "reconcile")
  /\ \A t \in Targets : ~LeftBehind(PR(n), t)
  /\ LET h == FetchPullRequest(n)
     IN th' = [th EXCEPT ![n].pc = IF th[n].hit THEN "agg" ELSE AfterReconcile(n),
                         ![n].cur = IF th[n].hit THEN h ELSE @,
                         ![n].pub = h, ![n].hit = FALSE,
                         ![n].next = AfterReconcile(n)]
  /\ UNCHANGED <<world, store>>

(***************************************************************************)
(* Plans, by command or by event.                                          *)
(***************************************************************************)
\* The schema files are read at the cached head; a head that does not touch
\* the database ends the command.
createManagedSchemaRequestFromPR(n) ==
  /\ At(n, "schema")
  /\ LET h == FetchPullRequest(n)
         to == CASE th[n].kind \in {"apply", "apply-y"} -> "reconcile"
                 [] th[n].kind = "confirm" -> "fresh"
                 [] OTHER -> "plan"
     IN IF Declared(PR(n), h, Db(n)) = 0
        THEN Return(n)
        ELSE th' = [th EXCEPT ![n].cur = h, ![n].sha = h, ![n].pc = to]
  /\ UNCHANGED <<world, store>>

PlanOf(n, env) ==
  [kind |-> "plan", env |-> env, head |-> th[n].sha, from |-> live[<<env, Db(n)>>],
   to |-> Declared(PR(n), th[n].sha, Db(n))]

\* The environment that is planned now, and the way on after it: the aggregate
\* is published if any environment has a result, otherwise it fails.
Env(n) == Head(th[n].left)

NextEnvironment(n, hit) ==
  IF Len(th[n].left) > 1
  THEN th' = [th EXCEPT ![n].pc = "plan", ![n].left = Tail(@), ![n].hit = hit]
  ELSE IF hit THEN Publish(n, th[n].sha, "return") ELSE Goto(n, "fail")

\* A manual plan looks at the head of now before its first environment; an
\* automatic one does not.
ExecutePlan(n) ==
  /\ At(n, "plan")
  /\ IF /\ th[n].kind \in {"plan", "planall"} /\ th[n].plan = NoPlan
        /\ th[n].sha # head[PR(n)]
     THEN Return(n)
     ELSE th' = [th EXCEPT ![n].pc = "record", ![n].plan = PlanOf(n, Env(n)),
                           ![n].t = <<Env(n), Db(n)>>]
  /\ UNCHANGED <<world, store>>

PlanFails(n) ==
  /\ At(n, "plan")
  /\ MayFail
  /\ faults' = faults + 1
  /\ NextEnvironment(n, th[n].hit)
  /\ UNCHANGED <<script, sent, head, live, locks, applies, store>>

PlanRow(n) ==
  [head |-> th[n].sha, apply |-> 0, block |-> "none",
   res |-> IF th[n].plan.from = th[n].plan.to THEN "success" ELSE "action_required"]

\* The result is stored unless the cached head is another one than the plan's.
upsertPlanCheckRecord(n) ==
  LET new == PlanRow(n)
      row == UpsertPlanResult(MyRow(n), new)
  IN IF FetchPullRequest(n) # th[n].sha THEN MyRow(n)
     ELSE IF th[n].kind \in {"plan", "planall"}
          THEN RecoverApplyOwnedCheckWithNoOpPlan(row, new)
          ELSE row

handleMultiEnvPlan(n) ==
  /\ At(n, "record")
  /\ rows' = [rows EXCEPT ![PR(n)][th[n].t] = upsertPlanCheckRecord(n)]
  /\ NextEnvironment(n, TRUE)
  /\ UNCHANGED <<world, agg, runs>>

(***************************************************************************)
(* Database locks.                                                         *)
(***************************************************************************)
Locked(d, p, plan) ==
  locks' = [locks EXCEPT ![d] = [owner |-> p, plan |-> plan]]

\* Release deletes the lock if it is the pull request's own.
Released(d, p) ==
  locks' = [locks EXCEPT ![d] = IF @.owner = p THEN NoLock ELSE @]

Free(d, p) == locks[d].owner \in {0, p}

ReleaseAndReturn(n) ==
  /\ Released(Db(n), PR(n)) /\ Return(n)
  /\ UNCHANGED <<script, sent, head, live, applies, faults, store>>

ActiveOn(d) == {a \in DOMAIN applies : Running(a) /\ applies[a].t[2] = d}

(***************************************************************************)
(* apply: gates, lock, plan, and with -y the apply itself.                 *)
(***************************************************************************)
\* Every earlier environment must show success for this database.
checkPriorEnvironments(n) ==
  \A i, j \in DOMAIN script.envs :
    (i < j /\ script.envs[j] = th[n].t[1]) =>
      rows[PR(n)][<<script.envs[i], Db(n)>>].res = "success"

\* The actor, the reviews, the other checks of the head, an unsafe change or a
\* plan that fails end the command with a comment.
Refused(n) ==
  /\ th[n].pc \in {"gate", "aplan", "fresh", "replan"}
  /\ Return(n)
  /\ UNCHANGED <<world, store>>

Gate(n) ==
  /\ At(n, "gate")
  /\ IF checkPriorEnvironments(n) THEN Goto(n, "lockcheck") ELSE Return(n)
  /\ UNCHANGED <<world, store>>

\* A lock of this pull request without an active apply is given back.
LockCheck(n) ==
  /\ At(n, "lockcheck")
  /\ LET own == locks[Db(n)].owner
     IN IF \/ ~Free(Db(n), PR(n))
           \/ own = PR(n) /\ \E a \in ActiveOn(Db(n)) : applies[a].pr = own
        THEN Return(n)
        ELSE Goto(n, IF own = 0 THEN "aplan" ELSE "relock")
  /\ UNCHANGED <<world, store>>

ReleaseOwnLock(n) ==
  /\ At(n, "relock")
  /\ Released(Db(n), PR(n))
  /\ Goto(n, "aplan")
  /\ UNCHANGED <<script, sent, head, live, applies, faults, store>>

ApplyPlan(n) ==
  /\ At(n, "aplan")
  /\ LET plan == PlanOf(n, th[n].t[1])
     IN IF plan.from = plan.to THEN Return(n)
        ELSE th' = [th EXCEPT ![n].plan = plan, ![n].pc = "acquire"]
  /\ UNCHANGED <<world, store>>

AcquireForPlan(n) ==
  /\ At(n, "acquire")
  /\ IF Free(Db(n), PR(n))
     THEN Locked(Db(n), PR(n), th[n].plan) /\ Goto(n, "recheck")
     ELSE Return(n) /\ UNCHANGED locks
  /\ UNCHANGED <<script, sent, head, live, applies, faults, store>>

\* The head of now must still be the plan's and, with -y, its other checks
\* must still pass, or the lock is given back.
RecheckHead(n) ==
  /\ At(n, "recheck")
  /\ \/ /\ th[n].sha # head[PR(n)] \/ th[n].kind = "apply-y"
        /\ ReleaseAndReturn(n)
     \/ /\ th[n].sha = head[PR(n)]
        /\ Goto(n, "pending") /\ UNCHANGED <<world, store>>

\* The plan becomes the stored result and waits for its confirmation; with -y
\* the command goes on if the plan can be read back.
storeApplyPlanCheckRecord(n) ==
  /\ At(n, "pending")
  /\ rows' = [rows EXCEPT ![PR(n)][th[n].t] = upsertPlanCheckRecord(n)]
  /\ \E next \in {"return"} \cup (IF th[n].kind = "apply-y" THEN {"replan"} ELSE {}) :
       Publish(n, th[n].sha, next)
  /\ UNCHANGED <<world, agg, runs>>

(***************************************************************************)
(* apply-confirm.                                                          *)
(***************************************************************************)
SchemaStillCurrent(n) ==
  /\ At(n, "fresh")
  /\ IF th[n].sha # head[PR(n)]
     THEN ReleaseAndReturn(n)
     ELSE Goto(n, "confirm") /\ UNCHANGED <<world, store>>

\* Mutant: the pinned plan may be of an older head.
AnyPlanIsCurrent(n) == TRUE

\* A plan pinned on the lock must be of the head that was just read; a lock
\* without one is not refused.
assertPlanStillCurrent(n) ==
  LET plan == locks[Db(n)].plan IN plan.kind = "none" \/ plan.head = th[n].sha

handleApplyConfirmCommand(n) ==
  /\ At(n, "confirm")
  /\ LET lock == locks[Db(n)]
     IN IF lock.owner # PR(n) \/ lock.plan.kind = "rollback"
        THEN Return(n) /\ UNCHANGED <<world, store>>
        ELSE IF assertPlanStillCurrent(n)
             THEN /\ th' = [th EXCEPT ![n].pc = "replan", ![n].plan = lock.plan]
                  /\ UNCHANGED <<world, store>>
             ELSE ReleaseAndReturn(n)

(***************************************************************************)
(* executeApply: plan again, queue the apply, mark its check row.          *)
(***************************************************************************)
\* With -y the new plan must be the one that was shown.
ddlMatchesStoredPlan(n, plan) ==
  th[n].kind = "apply-y" => plan.from = th[n].plan.from /\ plan.to = th[n].plan.to

Replan(n) ==
  /\ At(n, "replan")
  /\ LET plan == PlanOf(n, th[n].t[1])
     IN IF plan.from = plan.to
        THEN ReleaseAndReturn(n)
        ELSE /\ IF ddlMatchesStoredPlan(n, plan)
                THEN th' = [th EXCEPT ![n].pc = "queue", ![n].plan = plan,
                                      ![n].shown = th[n].plan]
                ELSE Return(n)
             /\ UNCHANGED <<world, store>>

\* The apply is created unless one is active on its target, whatever the lock
\* says now. shown is the plan that was confirmed.
ExecuteApply(n) ==
  /\ At(n, "queue")
  /\ IF \E a \in DOMAIN applies : Running(a) /\ applies[a].t = th[n].t
     THEN Return(n) /\ UNCHANGED applies
     ELSE /\ applies' = Append(applies, [pr |-> PR(n), t |-> th[n].t, plan |-> th[n].plan,
                                         state |-> "running", by |-> th[n].kind,
                                         shown |-> th[n].shown])
          /\ th' = [th EXCEPT ![n].pc = "startread", ![n].a = Len(applies) + 1]
  /\ UNCHANGED <<script, sent, head, live, locks, faults, store>>

\* The row is read, then written back as the apply's, without a guard.
StartRead(n) ==
  /\ At(n, "startread")
  /\ LET row == IF MyRow(n).head = 0 THEN [NoRow EXCEPT !.head = FetchPullRequest(n)]
                                     ELSE MyRow(n)
     IN th' = [th EXCEPT ![n].pc = "start", ![n].row = row]
  /\ UNCHANGED <<world, store>>

\* Mutant: the old result stays in the row.
StartKeepsResult(n) ==
  /\ At(n, "start")
  /\ rows' = [rows EXCEPT ![PR(n)][th[n].t] = [th[n].row EXCEPT !.apply = th[n].a]]
  /\ Publish(n, th[n].row.head, "return")
  /\ UNCHANGED <<world, agg, runs>>

updateCheckRecordForApplyStart(n) ==
  /\ At(n, "start")
  /\ rows' = [rows EXCEPT ![PR(n)][th[n].t] =
                [head |-> th[n].row.head, res |-> "in_progress", apply |-> th[n].a,
                 block |-> "none"]]
  /\ Publish(n, th[n].row.head, "return")
  /\ UNCHANGED <<world, agg, runs>>

(***************************************************************************)
(* The end of an apply, and the check update of whoever observes it: the   *)
(* observer of the command that created it, or the one any other driver    *)
(* or process attaches.                                                    *)
(***************************************************************************)
FinishApply(a) ==
  /\ Running(a)
  /\ <<"hook", a>> \notin DOMAIN th
  /\ \E end \in script.ends, kind \in {applies[a].by, "refresh"} :
       /\ applies' = [applies EXCEPT ![a].state = end]
       /\ live' = IF end = "completed" THEN [live EXCEPT ![applies[a].t] = applies[a].plan.to]
                  ELSE live
       /\ th' = (<<"hook", a>> :>
                   [Thread EXCEPT !.kind = kind, !.pr = applies[a].pr, !.t = applies[a].t,
                                  !.a = a, !.res = end, !.fresh = TRUE,
                                  !.pc = IF /\ kind = "refresh" /\ end = "completed"
                                            /\ IsRollback(a)
                                         THEN "mark" ELSE "hookread"]) @@ th
  /\ UNCHANGED <<script, sent, head, locks, faults, store>>

\* A stopped apply may be started again.
RestartApply(a) ==
  /\ applies[a].state = "stopped" /\ ~Undisturbed
  /\ <<"hook", a>> \notin DOMAIN th
  /\ \A b \in DOMAIN applies : applies[b].t = applies[a].t => ~Running(b)
  /\ applies' = [applies EXCEPT ![a].state = "restarted"]
  /\ UNCHANGED <<script, sent, head, live, locks, faults, store, th>>

\* A stopped apply keeps its row, a row that is gone is an error.
HookRead(n) ==
  /\ At(n, "hookread")
  /\ IF MyRow(n).head = 0 \/ th[n].res = "stopped"
     THEN Return(n)
     ELSE th' = [th EXCEPT ![n].row = MyRow(n), ![n].pc = "hookwrite"]
  /\ UNCHANGED <<world, store>>

\* What is written is made from the row as it was read.
updateCheckRecordForApplyResult(n) ==
  LET a == th[n].a
  IN /\ At(n, "hookwrite")
     /\ IF CompleteForApply(PR(n), th[n].t, a)
        THEN /\ rows' = [rows EXCEPT ![PR(n)][th[n].t] = ApplyResult(th[n].row, a)]
             /\ IF th[n].kind = "rollback-confirm" /\ th[n].res = "completed"
                THEN Goto(n, "mark")
                ELSE Goto(n, "hookrow")
        ELSE Return(n) /\ UNCHANGED rows
     /\ UNCHANGED <<world, agg, runs>>

HookPublish(n) ==
  /\ At(n, "hookrow")
  /\ IF MyRow(n).head = 0 THEN Return(n) ELSE Publish(n, MyRow(n).head, "return")
  /\ UNCHANGED <<world, store>>

\* A completed rollback asks for action again.
setCheckActionRequired(n) ==
  LET p == PR(n)
      t == th[n].t
  IN /\ At(n, "mark")
     /\ IF MyRow(n).head # 0 /\ MyRow(n).apply = th[n].a /\ Newest(p, t) = th[n].a
        THEN /\ rows' = [rows EXCEPT ![p][t] = MarkActionRequiredForApply(p, t, th[n].a)]
             /\ Publish(n, MyRow(n).head, "return")
        ELSE Return(n) /\ UNCHANGED rows
     /\ UNCHANGED <<world, agg, runs>>

(***************************************************************************)
(* unlock, rollback, rollback-confirm.                                     *)
(***************************************************************************)
\* A lock of another pull request only goes by force, and no lock goes while
\* an apply of its database is active.
handleUnlockCommand(n) ==
  /\ At(n, "unlock")
  /\ LET own == locks[Db(n)].owner
     IN IF \/ own = 0 \/ ActiveOn(Db(n)) # {}
           \/ own # PR(n) /\ th[n].kind # "unlock-force"
        THEN Return(n) ELSE Goto(n, "unlocked")
  /\ UNCHANGED <<world, store>>

Unlock(n) ==
  /\ At(n, "unlocked")
  /\ IF th[n].kind = "unlock-force"
     THEN locks' = [locks EXCEPT ![Db(n)] = NoLock]
     ELSE Released(Db(n), PR(n))
  /\ Return(n)
  /\ UNCHANGED <<script, sent, head, live, applies, faults, store>>

\* The apply to roll back: this pull request's, completed, and the last one
\* completed on its target.
RollbackSource(n) ==
  {a \in DOMAIN applies :
     /\ applies[a].state = "completed" /\ applies[a].t = th[n].t
     /\ applies[a].pr = PR(n)
     /\ \A b \in DOMAIN applies :
          applies[b].state = "completed" /\ applies[b].t = th[n].t => b <= a}

\* A free lock is taken at once, without a plan.
RollbackLock(n) ==
  /\ At(n, "rbsource")
  /\ IF RollbackSource(n) # {} /\ Free(Db(n), PR(n))
     THEN /\ th' = [th EXCEPT ![n].pc = "rbplan", ![n].hit = locks[Db(n)].owner = 0]
          /\ IF locks[Db(n)].owner = 0 THEN Locked(Db(n), PR(n), NoPlan)
                                       ELSE UNCHANGED locks
     ELSE Return(n) /\ UNCHANGED locks
  /\ UNCHANGED <<script, sent, head, live, applies, faults, store>>

\* The plan goes back to the schema the source was planned from; without a
\* change the lock goes too, if this command took it.
ExecuteRollbackPlanForApply(n) ==
  /\ At(n, "rbplan")
  /\ \/ \E a \in RollbackSource(n) :
          /\ live[th[n].t] # applies[a].plan.from
          /\ th' = [th EXCEPT ![n].pc = "rbpin",
                      ![n].plan = [kind |-> "rollback", env |-> th[n].t[1], head |-> 0,
                                   from |-> live[th[n].t], to |-> applies[a].plan.from]]
          /\ UNCHANGED locks
     \/ /\ \A a \in RollbackSource(n) : live[th[n].t] = applies[a].plan.from
        /\ IF th[n].hit THEN Released(Db(n), PR(n)) ELSE UNCHANGED locks
        /\ Return(n)
  /\ UNCHANGED <<script, sent, head, live, applies, faults, store>>

PinRollbackPlan(n) ==
  /\ At(n, "rbpin")
  /\ IF Free(Db(n), PR(n)) THEN Locked(Db(n), PR(n), th[n].plan) ELSE UNCHANGED locks
  /\ Return(n)
  /\ UNCHANGED <<script, sent, head, live, applies, faults, store>>

\* The pinned plan is executed as it is.
handleRollbackConfirmCommand(n) ==
  /\ At(n, "rbconfirm")
  /\ LET lock == locks[Db(n)]
     IN IF /\ lock.owner = PR(n) /\ lock.plan.kind = "rollback"
           /\ lock.plan.env = th[n].t[1]
        THEN th' = [th EXCEPT ![n].pc = "queue", ![n].plan = lock.plan, ![n].shown = lock.plan]
        ELSE Return(n)
  /\ UNCHANGED <<world, store>>

(***************************************************************************)
(* Cleanup after a push, and of a closed pull request.                     *)
(***************************************************************************)
\* Rows are read once, then each of a database that is no longer touched is
\* rewritten.
cleanupStaleChecks(n) ==
  /\ At(n, "clean")
  /\ LET p == PR(n)
         old == {t \in Targets : rows[p][t].head # 0 /\ t[2] \notin th[n].found}
     IN IF th[n].sha = head[p]
        THEN th' = [th EXCEPT ![n].pc = "cleanrow", ![n].snap = [t \in old |-> rows[p][t]]]
        ELSE Return(n)
  /\ UNCHANGED <<world, store>>

\* A started apply keeps its row, which now blocks; written as it was read.
Blocking(read, h) ==
  [read EXCEPT !.head = h, !.block = "removed",
               !.res = IF @ = "in_progress" THEN @ ELSE "action_required"]

MarkStalePlanSuccessful(row, h) ==
  IF row.head # 0 /\ ~Started(row)
  THEN [head |-> h, res |-> "success", apply |-> 0, block |-> "none"]
  ELSE row

CleanRow(n, t) ==
  LET p == PR(n)
      read == th[n].snap[t]
      new == IF Started(read) THEN Blocking(read, th[n].sha)
                              ELSE MarkStalePlanSuccessful(rows[p][t], th[n].sha)
  IN /\ At(n, "cleanrow")
     /\ rows' = [rows EXCEPT ![p][t] = new]
     /\ th' = [th EXCEPT ![n].hit = @ \/ new.res = "success" \/ Started(read),
                         ![n].snap = [u \in DOMAIN @ \ {t} |-> @[u]]]
     /\ UNCHANGED <<world, agg, runs>>

CleanDone(n) ==
  /\ At(n, "cleanrow")
  /\ th[n].snap = <<>>
  /\ IF th[n].hit THEN Publish(n, th[n].sha, "return") ELSE Return(n)
  /\ UNCHANGED <<world, store>>

\* Databases with an apply in flight keep their lock, and then every row stays.
inFlightAppliesForClosedPR(n) ==
  /\ At(n, "close")
  /\ th' = [th EXCEPT ![n].pc = "closelocks",
              ![n].found = {applies[a].t[2] : a \in {b \in DOMAIN applies :
                              Running(b) /\ applies[b].pr = PR(n)}}]
  /\ UNCHANGED <<world, store>>

releaseLocksForClosedPR(n) ==
  /\ At(n, "closelocks")
  /\ locks' = [d \in script.dbs |-> IF locks[d].owner = PR(n) /\ d \notin th[n].found
                                    THEN NoLock ELSE locks[d]]
  /\ IF th[n].found = {} THEN Goto(n, "closerows") ELSE Return(n)
  /\ UNCHANGED <<script, sent, head, live, applies, faults, store>>

DeleteByPRExcludingApplyOwned(n) ==
  /\ At(n, "closerows")
  /\ rows' = [rows EXCEPT ![PR(n)] = [t \in Targets |-> IF Owned(@[t]) THEN @[t] ELSE NoRow]]
  /\ agg' = [agg EXCEPT ![PR(n)] = NoRun]
  /\ Return(n)
  /\ UNCHANGED <<world, runs>>

(***************************************************************************)
(* A thread dies: its process, its deadline or a call it makes.            *)
(***************************************************************************)
Die(n) ==
  /\ MayFail
  /\ faults' = faults + 1
  /\ Return(n)
  /\ UNCHANGED <<script, sent, head, live, locks, applies, store>>

Handler(n) ==
  \/ runAutoPlanForPR(n) \/ postConfigDiscoveryFailure(n)
  \/ updateAggregateCheck(n) \/ upsertAggregateCheckRun(n) \/ StoreAggregate(n)
  \/ postPassingAggregates(n) \/ PostPassing(n) \/ postFailingAggregates(n)
  \/ (\E t \in Targets : ReconcileRow(n, t)) \/ reconcileStaleChecks(n)
  \/ createManagedSchemaRequestFromPR(n)
  \/ ExecutePlan(n) \/ PlanFails(n) \/ handleMultiEnvPlan(n)
  \/ Refused(n) \/ Gate(n) \/ LockCheck(n) \/ ReleaseOwnLock(n) \/ ApplyPlan(n)
  \/ AcquireForPlan(n) \/ RecheckHead(n) \/ storeApplyPlanCheckRecord(n)
  \/ SchemaStillCurrent(n) \/ handleApplyConfirmCommand(n)
  \/ Replan(n) \/ ExecuteApply(n) \/ StartRead(n) \/ updateCheckRecordForApplyStart(n)
  \/ HookRead(n) \/ updateCheckRecordForApplyResult(n) \/ HookPublish(n)
  \/ setCheckActionRequired(n)
  \/ handleUnlockCommand(n) \/ Unlock(n)
  \/ RollbackLock(n) \/ ExecuteRollbackPlanForApply(n) \/ PinRollbackPlan(n)
  \/ handleRollbackConfirmCommand(n)
  \/ cleanupStaleChecks(n) \/ (\E t \in DOMAIN th[n].snap : CleanRow(n, t)) \/ CleanDone(n)
  \/ inFlightAppliesForClosedPR(n) \/ releaseLocksForClosedPR(n)
  \/ DeleteByPRExcludingApplyOwned(n)

Next ==
  \/ Deliver
  \/ \E n \in DOMAIN th : Handler(n) \/ Die(n)
  \/ \E a \in DOMAIN applies : FinishApply(a) \/ RestartApply(a)

Spec == Init /\ [][Next]_vars

(***************************************************************************)
(* Properties.                                                             *)
(***************************************************************************)

\* The step of a manual plan that takes a row back from its apply.
TakenBack(p, t) ==
  \E n \in DOMAIN th : /\ th[n].pr = p /\ th[n].t = t /\ At(n, "record")
                       /\ th[n].kind \in {"plan", "planall"}
                       /\ th[n].plan.from = th[n].plan.to

\* A row that a running apply owns never passes: only a manual plan that finds
\* the live schema equal to the declared one may take it back. Plans, late
\* observers, reconciliation and cleanup of other deliveries leave it blocking.
OwnedNeverPasses ==
  [][\A p \in PRs : \A t \in Targets :
       /\ Owned(rows[p][t]) /\ Running(rows[p][t].apply)
       /\ rows'[p][t].res = "success"
       => TakenBack(p, t)]_vars

\* A passing row that names an apply names one that completed.
PassingApplyCompleted ==
  \A p \in PRs : \A t \in Targets :
    rows[p][t].res = "success" /\ rows[p][t].apply # 0 =>
      applies[rows[p][t].apply].state = "completed"

\* What is applied is what was shown: with -y exactly the plan of the comment,
\* after a confirmation the schema of the head whose plan was pinned.
AppliedAsShown ==
  \A a \in DOMAIN applies :
    LET x == applies[a] IN
      /\ x.by = "apply-y" => x.plan = x.shown
      /\ x.by = "confirm" /\ x.shown.kind = "plan" => x.plan.head = x.shown.head
      /\ x.by = "rollback-confirm" => x.shown.kind = "rollback" /\ x.plan = x.shown

Quiet == /\ th = <<>> /\ sent = Len(script.sends)
         /\ \A a \in DOMAIN applies : ~Running(a)

\* After a plan of every environment that nothing disturbs, whatever earlier
\* races and crashes left behind is repaired: the check run the store knows is
\* on the current head and shows the worst of the rows, no row still waits for
\* the newest apply when that has ended, and the run passes only if every environment has
\* the declared schema.
PlanRepairs ==
  Quiet /\ script.heals =>
    \A p \in PRs : \A d \in Affected(p, head[p]) :
      LET shown == runs[p][head[p]][agg[p].run]
      IN /\ agg[p].head = head[p]
         /\ shown = computeAggregate({r.res : r \in Stored(p)})
         /\ \A t \in Targets :
              Owned(rows[p][t]) /\ rows[p][t].apply = Newest(p, t) =>
                applies[Newest(p, t)].state = "stopped"
         /\ shown = "success" =>
              \A i \in DOMAIN script.envs :
                live[<<script.envs[i], d>>] = Declared(p, head[p], d)
=============================================================================
