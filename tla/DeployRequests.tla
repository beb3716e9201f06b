--------------------------- MODULE DeployRequests ---------------------------
(***************************************************************************)
(* LocalScale: the in-repository server of the PlanetScale API             *)
(* (src/pkg/localscale).  A branch holds a copy of the schema of main; a   *)
(* deploy request compares the two and, once deployed, runs the difference *)
(* on main as Vitess online schema changes.  Four kinds of actor write the *)
(* row of a deploy request, none under a lock or a compare-and-swap:       *)
(*   - the goroutine that computes the diff of a new request;              *)
(*   - the goroutine that executes an accepted deploy;                     *)
(*   - the state processor, which reads every active row, then acts;       *)
(*   - the HTTP handlers of cancel, cutover, revert and skip-revert, which *)
(*     read the state, alter the migrations and write the state.           *)
(* A schema change is an element of Ddl or of VSchema; a schema is the set *)
(* of the changes it contains.                                             *)
(***************************************************************************)
EXTENDS Integers, Sequences, FiniteSets

CONSTANTS Ddl,          \* the table changes of the plan
          VSchema,      \* the VSchema changes of the plan
          Stale,        \* changes an earlier apply left on a reused branch
          MaxRequests   \* bound on the deploy requests of a behaviour

VARIABLES live,     \* changes present on main
          branch,   \* the schema change branch: [st, has]
          dr,       \* localscale_deploy_requests, by number
          mig,      \* Vitess migrations of each request: forward and revert
          exec,     \* the goroutine executing a deploy: its next step
          proc,     \* rows the processor has read and not yet handled
          call      \* HTTP handler in flight for each caller

server == <<live, branch, dr, mig, exec, proc, call>>

Tables == Ddl \cup Stale
Callers == {"drive", "operator"}
Idle == [op |-> "none", n |-> 0, at |-> "none"]

Active == {"submitting", "queued", "in_progress", "pending_cutover",
           "in_progress_cutover", "in_progress_vschema", "in_progress_cancel",
           "in_progress_revert", "in_progress_revert_vschema",
           "complete_pending_revert"}
terminalDeployStates == {"complete", "complete_error", "complete_revert",
                         "complete_cancel", "complete_revert_error", "error",
                         "no_changes"}
Ended == {"complete", "failed", "cancelled"}

NoMigrations == [fwd |-> [c \in Tables |-> "none"], rev |-> [c \in Tables |-> "none"],
                 go |-> {}]

ServerInit ==
  /\ live = {}
  /\ dr = <<>>
  /\ mig = [n \in 1..MaxRequests |-> NoMigrations]
  /\ exec = [n \in 1..MaxRequests |-> "none"]
  /\ proc = {}
  /\ call = [p \in Callers |-> Idle]

----------------------------------------------------------------------------
(* Branches *)

\* A name that is taken is answered with a conflict, which the client turns
\* into a read of the existing branch: either way the branch is there.
handleCreateBranch ==
  branch' = IF branch.st = "absent" THEN [st |-> "creating", has |-> {}] ELSE branch

\* The background copy of main's tables and VSchema; the branch is ready last.
snapshotBranch ==
  /\ branch.st = "creating"
  /\ branch' = [st |-> "ready", has |-> live]
  /\ UNCHANGED <<live, dr, mig, exec, proc, call>>

\* The databases go at once; the copy is made again in the background.
handleRefreshSchema == branch' = [st |-> "creating", has |-> {}]

\* A statement over a branch connection, and a VSchema, which is written whole.
ExecuteOnBranch(c) ==
  branch' = [branch EXCEPT !.has = IF c \in Stale THEN @ \ {c} ELSE @ \cup {c}]
handleUpdateKeyspaceVSchema(c) == branch' = [branch EXCEPT !.has = @ \cup {c}]

\* The branch row stays and still reads as ready; its databases are gone.
dropBranchDatabases == branch' = [st |-> "dropped", has |-> {}]

BranchReady == branch.st \in {"ready", "dropped"}

----------------------------------------------------------------------------
(* Deploy requests: creation, diff, deploy *)

updateDeployState(n, s) == dr' = [dr EXCEPT ![n].state = s]

NewRow(autoCutover) ==
  [state |-> "pending", deployed |-> FALSE, cancelled |-> FALSE, auto |-> autoCutover,
   ddl |-> {}, vs |-> {}, eligible |-> FALSE, instant |-> FALSE, vApplied |-> FALSE,
   hasOrig |-> FALSE, orig |-> {}, before |-> {}]

handleCreateDeployRequest(autoCutover) == dr' = Append(dr, NewRow(autoCutover))

checkInstantEligibility(eligible, ddl) == eligible /\ ddl # {}

\* The background diff.  A branch whose databases were dropped cannot be read.
computeDeployRequestDiff(n, eligible) ==
  LET ddl == (branch.has \ live) \cap Tables
      vs == (branch.has \ live) \cap VSchema
  IN /\ dr[n].state = "pending"
     /\ IF branch.st = "dropped" THEN updateDeployState(n, "error")
        ELSE dr' = [dr EXCEPT ![n].ddl = ddl, ![n].vs = vs,
                              ![n].eligible = checkInstantEligibility(eligible, ddl),
                              ![n].state = IF ddl \cup vs = {} THEN "no_changes"
                                           ELSE "ready"]
     /\ UNCHANGED <<live, branch, mig, exec, proc, call>>

\* The request that the deploy handler compares with: the newest other one
\* that was deployed and not cancelled.
Previous(n) == LET prev == {k \in DOMAIN dr : k # n /\ dr[k].deployed /\ ~dr[k].cancelled}
               IN {k \in prev : \A j \in prev : j <= k}

DeployRefused(n) == \/ dr[n].state = "pending"
                    \/ dr[n].deployed
                    \/ \E k \in Previous(n) : dr[k].state \notin terminalDeployStates

handleDeployDeployRequest(n, instant) ==
  /\ ~DeployRefused(n)
  /\ IF dr[n].ddl \cup dr[n].vs = {}
     THEN /\ dr' = [dr EXCEPT ![n].deployed = TRUE, ![n].state = "no_changes"]
          /\ UNCHANGED exec
     ELSE /\ dr' = [dr EXCEPT ![n].deployed = TRUE, ![n].instant = instant,
                              ![n].state = "submitting"]
          /\ exec' = [exec EXCEPT ![n] = "vschema"]

\* Saves what main has now as the original, then replaces it.
applyPendingVSchema(n, applied) ==
  /\ dr' = [dr EXCEPT ![n].orig = live \cap dr[n].vs, ![n].hasOrig = TRUE,
                      ![n].vApplied = applied]
  /\ live' = live \cup dr[n].vs

snapshotSchema == live \cap Tables
submitOnlineDDL(n, c) == mig' = [mig EXCEPT ![n].fwd[c] = "queued"]

\* The executing goroutine: VSchema first, for routing; then a snapshot of the
\* tables and the statements one by one; then an unguarded state write.
executeDeployRequest(n) ==
  \/ /\ exec[n] = "vschema"
     /\ IF dr[n].vs = {} THEN UNCHANGED <<dr, live>>
        ELSE applyPendingVSchema(n, dr[n].ddl = {})
     /\ exec' = [exec EXCEPT ![n] = IF dr[n].ddl = {} THEN "finish" ELSE "submit"]
     /\ UNCHANGED mig
  \/ /\ exec[n] = "submit"
     /\ \E c \in dr[n].ddl :
          /\ mig[n].fwd[c] = "none"
          /\ submitOnlineDDL(n, c)
          /\ exec' = [exec EXCEPT ![n] =
               IF \A e \in dr[n].ddl \ {c} : mig[n].fwd[e] # "none" THEN "finish" ELSE @]
     /\ dr' = IF \A c \in dr[n].ddl : mig[n].fwd[c] = "none"
              THEN [dr EXCEPT ![n].before = snapshotSchema] ELSE dr
     /\ UNCHANGED live
  \/ /\ exec[n] = "finish"
     /\ updateDeployState(n, IF dr[n].ddl = {} THEN "complete_pending_revert" ELSE "queued")
     /\ exec' = [exec EXCEPT ![n] = "none"]
     /\ UNCHANGED <<live, mig>>

ExecStep(n) == executeDeployRequest(n) /\ UNCHANGED <<branch, proc, call>>

\* A statement is refused: the goroutine records the error and ends.
ExecFails(n) ==
  /\ exec[n] = "submit"
  /\ updateDeployState(n, "error")
  /\ exec' = [exec EXCEPT ![n] = "none"]
  /\ UNCHANGED <<live, branch, mig, proc, call>>

----------------------------------------------------------------------------
(* Vitess, as the server drives it *)

\* Instant and revert migrations are not postponed.
buildDDLStrategy(n, dir) == IF dir = "rev" \/ dr[n].instant THEN "free" ELSE "postpone"

\* A migration runs by itself; a postponed one waits until it is told to
\* complete.
VitessStep(n, c) ==
  /\ \E dir \in {"fwd", "rev"} :
       LET s == mig[n][dir][c]
           postponed == buildDDLStrategy(n, dir) = "postpone"
           next == CASE s = "queued" -> "running"
                     [] s = "running" /\ postponed -> "ready_to_complete"
                     [] OTHER -> "complete"
       IN /\ s \in {"queued", "running", "ready_to_complete"}
          /\ s = "ready_to_complete" => c \in mig[n].go
          /\ mig' = [mig EXCEPT ![n][dir][c] = next]
          /\ live' = IF next # "complete" THEN live
                     ELSE IF dir = "fwd" THEN live \cup {c} ELSE live \ {c}
  /\ UNCHANGED <<branch, dr, exec, proc, call>>

VitessFails(n, c) ==
  /\ mig[n].fwd[c] = "running"
  /\ mig' = [mig EXCEPT ![n].fwd[c] = "failed"]
  /\ UNCHANGED <<live, branch, dr, exec, proc, call>>

\* ALTER VITESS_MIGRATION on every migration visible under the context.
alterVitessMigrations(n, action) ==
  LET open == {c \in Tables : mig[n].fwd[c] \notin Ended \cup {"none"}}
  IN mig' = IF action = "COMPLETE" THEN [mig EXCEPT ![n].go = @ \cup open]
            ELSE [mig EXCEPT ![n].fwd = [c \in Tables |-> IF c \in open THEN "cancelled"
                                                        ELSE @[c]]]

\* SHOW VITESS_MIGRATIONS under the context of a request.
showMigrations(status) == {c \in Tables : status[c] # "none"}

\* The state that a set of migrations stands for, "cancelled" being a signal.
deriveDeployState(status, cutover, instant) ==
  LET shown == showMigrations(status)
      is(s) == {c \in shown : status[c] = s}
      waiting == is("ready_to_complete")
  IN CASE is("failed") # {} -> "complete_error"
       [] is("cancelled") # {} -> "cancelled"
       [] is("complete") = shown -> IF instant THEN "complete" ELSE "complete_pending_revert"
       [] cutover /\ (\/ is("complete") # {} \/ is("running") # {}
                      \/ waiting # {} /\ is("queued") = {}) -> "in_progress_cutover"
       [] waiting # {} /\ is("running") = {} /\ is("queued") = {} -> "pending_cutover"
       [] is("queued") # {} /\ is("running") \cup is("complete") \cup waiting = {} -> "queued"
       [] OTHER -> "in_progress"

deriveRevertState(n) ==
  LET s == deriveDeployState(mig[n].rev, TRUE, FALSE)
  IN CASE showMigrations(mig[n].rev) = {} -> "in_progress_revert"
       [] s = "complete_error" -> "complete_revert_error"
       [] s = "complete_pending_revert" -> "complete_revert"
       [] OTHER -> "in_progress_revert"

----------------------------------------------------------------------------
(* The state processor *)

ReadRows(states) ==
  /\ proc = {}
  /\ proc' = {[n |-> n, row |-> dr[n], put |-> ""] :
                n \in {k \in DOMAIN dr : dr[k].state \in states /\ dr[k].deployed}}
  /\ proc' # {}
  /\ UNCHANGED <<live, branch, dr, mig, exec, call>>

\* One query reads every active deployed row.
ProcessorReads == ReadRows(Active)

\* Mutant: cancelled migrations are left to the cancel handler.
DerivedWithoutCancel(r) ==
  LET new == deriveDeployState(mig[r.n].fwd, r.row.state = "in_progress_cutover", r.row.instant)
  IN IF new \in {"cancelled", r.row.state} THEN "skip" ELSE new

\* What the processor decides for the row it read, from the migrations it sees
\* now; "skip" leaves the row alone.
Derived(r) ==
  LET new == deriveDeployState(mig[r.n].fwd, r.row.state = "in_progress_cutover",
                               r.row.instant)
      put == CASE new = "cancelled" -> "in_progress_cancel"
               [] new = "complete_pending_revert" /\ r.row.vs # {} /\ ~r.row.vApplied
                    -> "in_progress_vschema"
               [] OTHER -> new
  IN IF showMigrations(mig[r.n].fwd) = {} \/ put = r.row.state THEN "skip" ELSE put

Decide(r, put) == proc' = (proc \ {r}) \cup {[r EXCEPT !.put = put]}

\* The switch over the state that was read, with the ALTERs of its case.
processActiveDeployRequest(r) ==
  LET n == r.n
  IN CASE r.row.state = "pending_cutover" /\ r.row.auto ->
            /\ alterVitessMigrations(n, "COMPLETE")
            /\ Decide(r, "in_progress_cutover") /\ UNCHANGED <<dr, live>>
       [] r.row.state \in {"queued", "in_progress", "in_progress_cutover"} ->
            /\ Decide(r, Derived(r))
            /\ IF /\ r.row.state = "in_progress_cutover"
                  /\ \E c \in Tables : mig[n].fwd[c] = "ready_to_complete"
               THEN alterVitessMigrations(n, "COMPLETE") ELSE UNCHANGED mig
            /\ UNCHANGED <<dr, live>>
       [] r.row.state = "in_progress_vschema" ->
            /\ applyPendingVSchema(n, TRUE)
            /\ Decide(r, "complete_pending_revert") /\ UNCHANGED mig
       [] r.row.state = "in_progress_cancel" ->
            /\ alterVitessMigrations(n, "CANCEL")
            /\ Decide(r, IF showMigrations(mig[n].fwd) = {} THEN "skip"
                         ELSE "complete_cancel")
            /\ UNCHANGED <<dr, live>>
       [] r.row.state = "in_progress_revert" ->
            /\ Decide(r, IF deriveRevertState(n) = r.row.state THEN "skip"
                         ELSE deriveRevertState(n))
            /\ UNCHANGED <<dr, mig, live>>
       [] OTHER -> Decide(r, "skip") /\ UNCHANGED <<dr, mig, live>>

ProcessorActs ==
  /\ \E r \in proc : r.put = "" /\ processActiveDeployRequest(r)
  /\ UNCHANGED <<branch, exec, call>>

\* The unguarded write of the decided state.
ProcessorWrites ==
  /\ \E r \in proc :
       /\ r.put # ""
       /\ proc' = proc \ {r}
       /\ dr' = CASE r.put = "skip" -> dr
                  [] r.put = "complete_cancel" ->
                       [dr EXCEPT ![r.n].state = r.put, ![r.n].cancelled = TRUE]
                  [] OTHER -> [dr EXCEPT ![r.n].state = r.put]
  /\ UNCHANGED <<live, branch, mig, exec, call>>

\* A row read as submitting was created more than two minutes ago, whenever it
\* was deployed: the executor is taken for dead.
SubmittingExpires ==
  /\ \E r \in proc : /\ r.put = "" /\ r.row.state = "submitting"
                     /\ proc' = proc \ {r}
                     /\ updateDeployState(r.n, "error")
  /\ UNCHANGED <<live, branch, mig, exec, call>>

\* The revert window of a row the processor read has passed.
RevertExpires ==
  /\ \E r \in proc : /\ r.put = "" /\ r.row.state = "complete_pending_revert"
                     /\ proc' = proc \ {r}
                     /\ updateDeployState(r.n, "complete")
  /\ dropBranchDatabases
  /\ UNCHANGED <<live, mig, exec, call>>

----------------------------------------------------------------------------
(* The control handlers: read and check, alter, write *)

Requires(op) ==
  CASE op = "cancel" -> {"queued", "in_progress", "pending_cutover", "submitting"}
    [] op = "cutover" -> {"pending_cutover"}
    [] OTHER -> {"complete_pending_revert"}

\* getDeployRequestInfo and the state check: a conflict ends the call.
HandlerReads(p) ==
  /\ call[p].at = "read"
  /\ call' = [call EXCEPT ![p].at =
                IF dr[call[p].n].state \in Requires(call[p].op) THEN "alter" ELSE "refused"]
  /\ UNCHANGED <<live, branch, dr, mig, exec, proc>>

handleCancelDeployRequest(p) ==
  /\ call[p].op = "cancel"
  /\ \/ /\ call[p].at = "alter"
        /\ alterVitessMigrations(call[p].n, "CANCEL")
        /\ call' = [call EXCEPT ![p].at = "write"] /\ UNCHANGED dr
     \/ /\ call[p].at = "write"
        /\ updateDeployState(call[p].n, "in_progress_cancel")
        /\ call' = [call EXCEPT ![p].at = "done"] /\ UNCHANGED mig
  /\ UNCHANGED <<live, branch>>

handleApplyDeployRequest(p) ==
  /\ call[p].op = "cutover"
  /\ \/ /\ call[p].at = "alter"
        /\ alterVitessMigrations(call[p].n, "COMPLETE")
        /\ call' = [call EXCEPT ![p].at = "write"] /\ UNCHANGED dr
     \/ /\ call[p].at = "write"
        /\ updateDeployState(call[p].n, "in_progress_cutover")
        /\ call' = [call EXCEPT ![p].at = "done"] /\ UNCHANGED mig
  /\ UNCHANGED <<live, branch>>

\* What the revert must undo: the tables of the request that main has now and
\* had not before the deploy.
computeReverseDDL(n) == (dr[n].ddl \cap live) \ dr[n].before

revertPendingVSchema(n) ==
  live' = IF dr[n].hasOrig THEN (live \ dr[n].vs) \cup dr[n].orig ELSE live

\* VSchema first, then the reverse statements, then the state.
handleRevertDeployRequest(p) ==
  LET n == call[p].n
      undo == computeReverseDDL(n)
  IN /\ call[p].op = "revert"
     /\ \/ /\ call[p].at = "alter"
           /\ call' = [call EXCEPT ![p].at = "vschema"]
           /\ IF dr[n].hasOrig THEN updateDeployState(n, "in_progress_revert_vschema")
              ELSE UNCHANGED dr
           /\ UNCHANGED <<live, mig>>
        \/ /\ call[p].at = "vschema"
           /\ call' = [call EXCEPT ![p].at = "submit"]
           /\ revertPendingVSchema(n)
           /\ UNCHANGED <<dr, mig>>
        \/ /\ call[p].at = "submit"
           /\ call' = [call EXCEPT ![p].at = IF undo = {} THEN "reverted" ELSE "write"]
           /\ mig' = [mig EXCEPT ![n].rev = [c \in Tables |-> IF c \in undo THEN "queued" ELSE @[c]]]
           /\ UNCHANGED <<dr, live>>
        \/ /\ call[p].at \in {"write", "reverted"}
           /\ call' = [call EXCEPT ![p].at = "done"]
           /\ updateDeployState(n, IF call[p].at = "write" THEN "in_progress_revert"
                                   ELSE "complete_revert")
           /\ UNCHANGED <<live, mig>>
     /\ UNCHANGED branch

handleSkipRevertDeployRequest(p) ==
  /\ call[p].op = "skip" /\ call[p].at = "alter"
  /\ call' = [call EXCEPT ![p].at = "done"]
  /\ updateDeployState(call[p].n, "complete")
  /\ dropBranchDatabases
  /\ UNCHANGED <<live, mig>>

HandlerStep(p) ==
  /\ \/ handleCancelDeployRequest(p)
     \/ handleApplyDeployRequest(p)
     \/ handleRevertDeployRequest(p)
     \/ handleSkipRevertDeployRequest(p)
  /\ UNCHANGED <<exec, proc>>

=============================================================================
