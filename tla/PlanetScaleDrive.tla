-------------------------- MODULE PlanetScaleDrive --------------------------
(***************************************************************************)
(* One Vitess apply driven by the PlanetScale engine                       *)
(* (src/pkg/engine/planetscale) from the grouped drive of a LocalClient    *)
(* (src/pkg/tern/local_apply_grouped.go) against the deploy request server *)
(* of DeployRequests.  The engine keeps no state: what survives a crash is *)
(* the metadata it persists along the way, and a new drive continues from  *)
(* that metadata and from what the server answers.                         *)
(***************************************************************************)
EXTENDS DeployRequests

CONSTANT Scripts   \* the applies and the faults that are explored

VARIABLES script,  \* the options of the apply and its budgets, chosen at first
          task,    \* state of the apply's tasks in storage
          saved,   \* resume metadata in storage
          d,       \* the drive: program counter and what it holds in memory
          asked,   \* durable control requests that are pending
          left     \* operator requests and faults still to come

drive == <<script, task, saved, d, asked, left>>
vars == <<server, drive>>

\* psMetadata, the saved resume data, before anything is saved: the deploy request
\* it names (0 for none) and what the request was created with.
NoMeta == [set |-> FALSE, dr |-> 0, deferred |-> FALSE, instant |-> FALSE]

TerminalTask == {"completed", "failed", "stopped", "cancelled", "reverted"}
activeTaskProgressRank ==
  [pending |-> 0, waiting_for_deploy |-> 1, running |-> 2, waiting_for_cutover |-> 4,
   cutting_over |-> 5, revert_window |-> 6]

\* began: a drive has claimed the apply before; keep: the fresh path may
\* persist; skipped: this drive has asked to close the revert window.
NoDrive(began) == [pc |-> "idle", how |-> "fresh", meta |-> NoMeta, todo |-> {},
                   keep |-> TRUE, skipped |-> FALSE, began |-> began]

DriveInit ==
  /\ script \in Scripts
  /\ branch = IF script.reuse THEN [st |-> "ready", has |-> Stale]
              ELSE [st |-> "absent", has |-> {}]
  /\ task = "pending"
  /\ saved = NoMeta
  /\ d = NoDrive(FALSE)
  /\ asked = {}
  /\ left = [ops |-> script.ops, crash |-> script.crash, fail |-> script.fail]

Init == ServerInit /\ DriveInit

Take(op) == op \in left.ops /\ left' = [left EXCEPT !.ops = @ \ {op}]
Hold == UNCHANGED <<script, left>>

----------------------------------------------------------------------------
(* Claiming the apply *)

End(s) == task' = s /\ d' = [d EXCEPT !.pc = "done"]

Calls(op, n, pc) ==
  /\ call["drive"] = Idle
  /\ call' = [call EXCEPT !["drive"] = [op |-> op, n |-> n, at |-> "read"]]
  /\ d' = [d EXCEPT !.pc = pc]
  /\ UNCHANGED <<live, branch, dr, mig, exec, proc>>

Claimable == d.pc = "idle" /\ task \notin TerminalTask

\* A stop is served before anything else.  A task the drive never marked as
\* running is cancelled in storage only; a revert window refuses the stop; any
\* other task is stopped in the engine.
processPendingStop(n) ==
  \/ /\ task = "pending"
     /\ End("cancelled")
     /\ asked' = asked \ {"stop"}
     /\ UNCHANGED <<server, saved, script, left>>
  \/ /\ task = "revert_window"
     /\ asked' = asked \ {"stop"}
     /\ UNCHANGED <<server, task, saved, d, script, left>>
  \/ /\ task \notin {"pending", "revert_window"}
     /\ Calls("cancel", n, "stop")
     /\ UNCHANGED <<task, saved, asked, script, left>>

ClaimStop == Claimable /\ "stop" \in asked /\ processPendingStop(saved.dr)

\* A recovering drive plans again: tables that already have the declared
\* schema need no apply.
replan == d.began /\ Ddl \subseteq live

ClaimConverged ==
  /\ Claimable /\ "stop" \notin asked /\ replan
  /\ End("completed")
  /\ UNCHANGED <<server, saved, asked>> /\ Hold

Start(how, meta, keep, pc) ==
  d' = [d EXCEPT !.how = how, !.meta = meta, !.keep = keep, !.pc = pc,
                 !.began = TRUE, !.skipped = FALSE]

\* Which way Apply goes on: afresh, on the saved branch, or at the saved
\* deploy request.
resolveResume ==
  CASE ~saved.set -> "fresh" [] saved.dr = 0 -> "branch" [] OTHER -> "request"

deployRequestNeedsResumeDeploy(n) == dr[n].state = "ready" /\ ~saved.deferred

ClaimFresh ==
  /\ Claimable /\ "stop" \notin asked /\ ~replan
  /\ resolveResume = "fresh"
  /\ Start("fresh", NoMeta, TRUE, "branch")
  /\ UNCHANGED <<server, task, saved, asked>> /\ Hold

\* resumeApply: without its branch the saved metadata is dropped, and the
\* fresh apply has nowhere to persist.
resumeApply ==
  /\ Claimable /\ "stop" \notin asked /\ ~replan
  /\ resolveResume = "branch"
  /\ IF branch.st = "absent" THEN Start("fresh", NoMeta, FALSE, "branch")
     ELSE Start("resume", saved, TRUE, "ready")
  /\ UNCHANGED <<server, task, saved, asked>> /\ Hold

resumeExistingDeployRequest ==
  /\ Claimable /\ "stop" \notin asked /\ ~replan
  /\ resolveResume = "request"
  /\ IF dr[saved.dr].state \in {"error", "complete_error"}
     THEN Start("fresh", NoMeta, FALSE, "branch")
     ELSE Start("resume", saved, TRUE,
                IF deployRequestNeedsResumeDeploy(saved.dr) THEN "deploy" ELSE "accepted")
  /\ UNCHANGED <<server, task, saved, asked>> /\ Hold

----------------------------------------------------------------------------
(* Apply: branch, changes, deploy request, deploy *)

Fails == /\ End("failed")
         /\ UNCHANGED <<server, saved, asked>> /\ Hold

\* The branch name is persisted before the branch is created.
persistState ==
  /\ d.pc = "branch"
  /\ saved' = IF d.keep THEN [NoMeta EXCEPT !.set = TRUE] ELSE saved
  /\ d' = [d EXCEPT !.pc = "create"]
  /\ UNCHANGED <<server, task, asked>> /\ Hold

\* A new branch is created, a reused one is refreshed from main.
createBranch ==
  /\ d.pc = "create"
  /\ IF script.reuse THEN BranchReady /\ handleRefreshSchema ELSE handleCreateBranch
  /\ d' = [d EXCEPT !.pc = "ready"]
  /\ UNCHANGED <<live, dr, mig, exec, proc, call, task, saved, asked>> /\ Hold

verifyBranchMatchesMain == branch.has = live

\* Mutant: only what is missing is added.
AddsMissingOnly == Ddl \ branch.has

\* What brings the tables of the branch to the declared schema.
diffBranchForResume == (Ddl \ branch.has) \cup (Stale \cap branch.has)

\* A fresh apply has the whole plan to do, on a branch that must be like main
\* when it is reused; a resumed one has what the branch lacks.  Every VSchema
\* is written again.
waitForBranchReady ==
  /\ d.pc = "ready" /\ BranchReady
  /\ IF d.how = "fresh" /\ script.reuse /\ ~verifyBranchMatchesMain THEN Fails
     ELSE /\ d' = [d EXCEPT !.pc = "change",
                            !.todo = VSchema \cup (IF d.how = "fresh" THEN Ddl \ live
                                                   ELSE diffBranchForResume)]
          /\ UNCHANGED <<server, task, saved, asked>> /\ Hold

\* A statement that the branch already has, or a branch without databases, is
\* a permanent error; a VSchema is simply written again.
applyChangesToBranch ==
  /\ d.pc = "change" /\ d.todo # {}
  /\ \E c \in d.todo :
       IF branch.st = "dropped" \/ (c \in Ddl /\ c \in branch.has) THEN Fails
       ELSE /\ IF c \in VSchema THEN handleUpdateKeyspaceVSchema(c) ELSE ExecuteOnBranch(c)
            /\ d' = [d EXCEPT !.todo = @ \ {c}]
            /\ UNCHANGED <<live, dr, mig, exec, proc, call, task, saved, asked>> /\ Hold

\* The fresh path compares the branch with the declared schema first.
verifyBranchMatchesDesired == branch.has = Ddl \cup VSchema

createDeployRequest ==
  /\ d.pc = "change" /\ d.todo = {}
  /\ Len(dr) < MaxRequests
  /\ IF d.how = "fresh" /\ ~verifyBranchMatchesDesired THEN Fails
     ELSE /\ handleCreateDeployRequest(~script.deferCutover)
          /\ d' = [d EXCEPT !.pc = IF d.how = "fresh" THEN "record" ELSE "diff",
                            !.meta.set = TRUE, !.meta.dr = Len(dr) + 1]
          /\ UNCHANGED <<live, branch, mig, exec, proc, call, task, saved, asked>> /\ Hold

\* Mutant: the number is persisted when Apply returns.
PersistedLate ==
  /\ d.pc = "record"
  /\ d' = [d EXCEPT !.pc = "diff"]
  /\ UNCHANGED <<server, task, saved, asked>> /\ Hold

\* The fresh path persists the number at once, without the options of the
\* deploy; the resumed one persists both after the diff.
persistDeployRequest ==
  /\ d.pc = "record"
  /\ saved' = IF d.keep THEN d.meta ELSE saved
  /\ d' = [d EXCEPT !.pc = "diff"]
  /\ UNCHANGED <<server, task, asked>> /\ Hold

waitForDeployRequestPending ==
  LET n == d.meta.dr
      meta == [d.meta EXCEPT !.instant = dr[n].eligible, !.deferred = script.deferDeploy]
  IN /\ d.pc = "diff" /\ dr[n].state # "pending"
     /\ IF dr[n].state \in {"error", "no_changes"} THEN Fails
        ELSE /\ d' = [d EXCEPT !.meta = meta,
                               !.pc = IF script.deferDeploy THEN "accepted" ELSE "deploy"]
             /\ saved' = IF d.how = "resume" THEN meta ELSE saved
             /\ UNCHANGED <<server, task, asked>> /\ Hold

\* A refused deploy fails the apply.
DeployDeployRequest ==
  /\ d.pc = "deploy"
  /\ IF DeployRefused(d.meta.dr) THEN Fails
     ELSE /\ handleDeployDeployRequest(d.meta.dr, d.meta.instant)
          /\ d' = [d EXCEPT !.pc = "accepted"]
          /\ UNCHANGED <<live, branch, mig, proc, call, task, saved, asked>> /\ Hold

\* The grouped drive saves the resume state that Apply returned and marks the
\* tasks as running.
executeGroupedApply ==
  /\ d.pc = "accepted"
  /\ saved' = d.meta
  /\ task' = IF task = "pending" THEN "running" ELSE task
  /\ d' = [d EXCEPT !.pc = "poll"]
  /\ UNCHANGED <<server, asked>> /\ Hold

----------------------------------------------------------------------------
(* Polling *)

deployStateToEngineState(n) ==
  CASE dr[n].state = "ready" /\ d.meta.deferred -> "waiting_for_deploy"
    [] dr[n].state \in {"pending", "ready"} -> "pending"
    [] dr[n].state \in {"complete", "no_changes"} -> "completed"
    [] dr[n].state = "complete_pending_revert" -> "revert_window"
    [] dr[n].state = "pending_cutover" -> "waiting_for_cutover"
    [] dr[n].state = "in_progress_cutover" -> "cutting_over"
    [] dr[n].state \in {"error", "complete_error", "complete_revert_error"} -> "failed"
    [] dr[n].state \in {"in_progress_cancel", "complete_cancel"} -> "stopped"
    [] dr[n].state = "complete_revert" -> "reverted"
    [] OTHER -> "running"

taskStateWithNoBackwardProgress(s) ==
  CASE s \in TerminalTask -> s
    [] task = "running" /\ s = "waiting_for_deploy" -> s
    [] activeTaskProgressRank[s] < activeTaskProgressRank[task] -> task
    [] OTHER -> s

\* The stop check that begins every tick.
PollStop ==
  /\ d.pc = "poll" /\ "stop" \in asked
  /\ processPendingStop(d.meta.dr)

\* Progress, and what is stored of it.  A cutover that was asked for is sent
\* now; a tick that sees a wait which needs nobody goes on by itself; the
\* revert window is closed at once under skip_revert, else when it has lasted.
handleAtomicProgressTick ==
  LET n == d.meta.dr
      seen == deployStateToEngineState(n)
  IN /\ d.pc = "poll" /\ "stop" \notin asked
     /\ task' = taskStateWithNoBackwardProgress(seen)
     /\ asked' = IF task' \in {"cutting_over", "revert_window"} THEN asked \ {"cutover"} ELSE asked
     /\ UNCHANGED <<saved, script, left>>
     /\ CASE seen \in TerminalTask ->
               d' = [d EXCEPT !.pc = "done"] /\ UNCHANGED server
          [] task' = "waiting_for_cutover" /\ "cutover" \in asked -> Calls("cutover", n, "cutover")
          [] seen = "waiting_for_cutover" /\ ~script.deferCutover -> Calls("cutover", n, "act")
          [] seen = "revert_window" /\ script.skipRevert /\ ~d.skipped -> Calls("skip", n, "act")
          [] OTHER -> UNCHANGED <<server, d>>

\* revertWindowDeadline has passed.
RevertDeadline ==
  /\ d.pc = "poll" /\ "stop" \notin asked
  /\ task = "revert_window" /\ ~script.skipRevert /\ ~d.skipped
  /\ deployStateToEngineState(d.meta.dr) = "revert_window"
  /\ Take("deadline")
  /\ Calls("skip", d.meta.dr, "act")
  /\ UNCHANGED <<task, saved, asked, script>>

\* waitingForManualActionTimeout has passed since the wait began.
ManualTimeout ==
  /\ d.pc = "poll" /\ "stop" \notin asked
  /\ \/ script.deferDeploy /\ deployStateToEngineState(d.meta.dr) = "waiting_for_deploy"
     \/ script.deferCutover /\ deployStateToEngineState(d.meta.dr) = "waiting_for_cutover"
  /\ Take("timeout")
  /\ Calls("cancel", d.meta.dr, "act")
  /\ UNCHANGED <<task, saved, asked, script>>

\* A refused automatic call is tried again by a later tick; a refused cutover
\* or stop request ends the drive, and the next claim meets it again.
CallReturns ==
  /\ call["drive"].at \in {"done", "refused"}
  /\ LET done == call["drive"].at = "done"
         op == call["drive"].op
     IN /\ call' = [call EXCEPT !["drive"] = Idle]
        /\ CASE d.pc = "act" ->
                  /\ d' = [d EXCEPT !.pc = "poll", !.skipped = @ \/ op = "skip"]
                  /\ UNCHANGED <<task, asked>>
             [] d.pc = "cutover" ->
                  /\ asked' = asked \ {"cutover"}
                  /\ d' = IF done THEN [d EXCEPT !.pc = "poll"] ELSE NoDrive(TRUE)
                  /\ UNCHANGED task
             [] d.pc = "stop" /\ done ->
                  End("cancelled") /\ asked' = asked \ {"stop"}
             [] d.pc = "stop" /\ ~done -> d' = NoDrive(TRUE) /\ UNCHANGED <<task, asked>>
             [] OTHER -> UNCHANGED <<d, task, asked>>
  /\ UNCHANGED <<live, branch, dr, mig, exec, proc, saved, script, left>>

----------------------------------------------------------------------------
(* The operator, and faults *)

\* A stop is recorded while the stored tasks show no revert window, a cutover
\* while they wait for one.
RequestControl ==
  /\ \E op \in {"stop", "cutover"} :
       /\ Take(op)
       /\ IF op = "stop" THEN task \notin TerminalTask \cup {"revert_window"}
          ELSE task = "waiting_for_cutover"
       /\ asked' = asked \cup {op}
  /\ UNCHANGED <<server, script, task, saved, d>>

\* startDeferredDeploy: the operator's start deploys the request in place.
startDeferredDeploy ==
  /\ Take("deploy") /\ task = "waiting_for_deploy" /\ "stop" \notin asked
  /\ handleDeployDeployRequest(saved.dr, saved.instant)
  /\ task' = "running"
  /\ UNCHANGED <<live, branch, mig, proc, call, script, saved, d, asked>>

\* Revert and SkipRevert go to the engine directly.
RevertControl ==
  /\ call["operator"] = Idle
  /\ task = "revert_window"
  /\ \E op \in {"revert", "skip"} :
       /\ Take(op)
       /\ call' = [call EXCEPT !["operator"] = [op |-> op, n |-> saved.dr, at |-> "read"]]
  /\ UNCHANGED <<live, branch, dr, mig, exec, proc, script, task, saved, d, asked>>

OperatorReturns ==
  /\ call["operator"].at \in {"done", "refused"}
  /\ call' = [call EXCEPT !["operator"] = Idle]
  /\ UNCHANGED <<live, branch, dr, mig, exec, proc, script, task, saved, d, asked, left>>

\* The process stops between two steps.  A call in flight is carried through
\* by the server.
Crash ==
  /\ left.crash > 0 /\ d.pc \notin {"idle", "done"}
  /\ left' = [left EXCEPT !.crash = @ - 1]
  /\ d' = NoDrive(TRUE)
  /\ UNCHANGED <<server, script, task, saved, asked>>

Fault ==
  /\ left.fail > 0
  /\ left' = [left EXCEPT !.fail = @ - 1]
  /\ \/ \E n \in DOMAIN dr : ExecFails(n) \/ \E c \in Tables : VitessFails(n, c)
     \/ SubmittingExpires
  /\ UNCHANGED <<script, task, saved, d, asked>>

----------------------------------------------------------------------------
Drive ==
  \/ ClaimStop \/ ClaimConverged \/ ClaimFresh \/ resumeApply
  \/ resumeExistingDeployRequest \/ persistState \/ createBranch
  \/ waitForBranchReady \/ applyChangesToBranch \/ createDeployRequest
  \/ persistDeployRequest \/ waitForDeployRequestPending \/ DeployDeployRequest
  \/ executeGroupedApply \/ PollStop \/ handleAtomicProgressTick \/ CallReturns

Server ==
  /\ \/ snapshotBranch
     \/ \E n \in DOMAIN dr :
          \/ computeDeployRequestDiff(n, script.eligible)
          \/ ExecStep(n)
          \/ \E c \in Tables : VitessStep(n, c)
     \/ ProcessorReads \/ ProcessorActs \/ ProcessorWrites
     \/ \E p \in Callers : HandlerReads(p) \/ HandlerStep(p)
  /\ UNCHANGED drive

Operator == RequestControl \/ startDeferredDeploy \/ RevertControl \/ OperatorReturns

Next == \/ Drive \/ Server \/ Operator \/ RevertDeadline \/ ManualTimeout \/ Crash \/ Fault
        \/ RevertExpires /\ UNCHANGED drive

Spec == Init /\ [][Next]_vars

\* Every goroutine goes on; an expired revert window is closed by a tick of the
\* processor, although other ticks come before the deadline.
FairSpec ==
  /\ Spec
  /\ WF_vars(Drive) /\ WF_vars(OperatorReturns)
  /\ WF_vars(snapshotBranch /\ UNCHANGED drive)
  /\ \A n \in 1..MaxRequests :
       /\ WF_vars(n \in DOMAIN dr /\ computeDeployRequestDiff(n, script.eligible) /\ UNCHANGED drive)
       /\ WF_vars(n \in DOMAIN dr /\ ExecStep(n) /\ UNCHANGED drive)
       /\ \A c \in Tables : WF_vars(n \in DOMAIN dr /\ VitessStep(n, c) /\ UNCHANGED drive)
  /\ WF_vars((ProcessorReads \/ ProcessorActs \/ ProcessorWrites) /\ UNCHANGED drive)
  /\ \A p \in Callers : WF_vars((HandlerReads(p) \/ HandlerStep(p)) /\ UNCHANGED drive)
  /\ SF_vars(RevertExpires /\ UNCHANGED drive)

----------------------------------------------------------------------------
(* Properties *)

Asked(op) == op \in script.ops \ left.ops

\* What is on main is what the apply says, whatever crashes came before: a
\* completed apply has its whole plan there unless it was reverted, a reverted one
\* none of its tables.  Nothing but the plan goes live, although a reused branch
\* holds changes of an earlier apply and a crash may fall before it is refreshed.
\* Under defer_cutover no table changes before the operator asked for the cutover,
\* unless the change was instant.
LiveAsPlanned ==
  /\ task = "completed" => Ddl \cup VSchema \subseteq live \/ Asked("revert")
  /\ task = "reverted" => live \cap Ddl = {}
  /\ live \cap Stale = {}
  /\ script.deferCutover /\ ~script.eligible /\ live \cap Ddl # {} => Asked("cutover")

\* A request that is under way is the one in the saved metadata, so that a
\* stop, a cutover and a new drive after a crash all find it.  The one way out
\* is the drive that starts afresh after it lost its branch, which persists
\* nothing until Apply returns: a second crash would lose its request.
OpenRequestIsSaved ==
  script.crash < 2 =>
    \A n \in DOMAIN dr : dr[n].deployed /\ dr[n].state \in Active => saved.dr = n \/ ~d.keep

WaitsForOperator ==
  \/ script.deferDeploy /\ task = "waiting_for_deploy"
  \/ script.deferCutover /\ task = "waiting_for_cutover"
NeverDeployed == saved.dr # 0 /\ ~saved.deferred /\ dr[saved.dr].state = "ready"
\* The apply reaches a terminal state, or waits for an operator as it was told
\* to, except in the two ways the engine is known to get stuck: a drive that
\* crashed while the request was being diffed polls a request nobody deploys,
\* and a stop that the server refuses is tried by every later claim.  A cancelled
\* apply leaves no request open: whatever the processor, the executor and the
\* cancel handler overwrite of each other, its request reaches a terminal state.
\* (Under defer_cutover a stale write of pending_cutover may keep it open.)
Settles ==
  /\ <>[](\/ task \in TerminalTask \/ WaitsForOperator
          \/ NeverDeployed /\ script.crash > 0
          \/ "stop" \in asked)
  /\ []<>(task = "cancelled" /\ ~script.deferCutover =>
            \A n \in DOMAIN dr : dr[n].deployed => dr[n].state \in terminalDeployStates)
=============================================================================
