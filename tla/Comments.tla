------------------------------ MODULE Comments ------------------------------
(***************************************************************************)
(* The pull request comments of one apply (webhook/comment_observer.go and *)
(* the apply_comments rows).  GitHub has no transaction with MySQL: a      *)
(* comment is created or edited first and recorded after, with the apply   *)
(* lease checked before each, by the driver that owns the apply and,       *)
(* perhaps, by one that has just lost it.  The webhook handler posts the   *)
(* first progress comment, the observer edits it, freezes it at a stop,    *)
(* posts a new one after a resume and a summary at the end; a restart      *)
(* posts summaries that are missing.                                       *)
(***************************************************************************)
EXTENDS Naturals, FiniteSets, Sequences

CONSTANTS Scripts,    \* scenarios: ops, defer, watch; resumes, crashes, refused, expires
          Drivers,
          Watcher     \* the process that accepted the apply and only watches it

VARIABLES script,     \* the scenario, counting down what may still happen
          apply,      \* the applies row: state, lease owner, token
          rows,       \* apply_comments: comment_state -> [id, sup], id 0 = no row
          gh,         \* the comments on the pull request, in order
          obs,        \* driver -> its observer and the callback it is in
          hand,       \* the webhook handler that started the apply
          repair,     \* ReconcileMissingSummaryComments of a restarted process
          hist        \* what happened so far, for the properties only
vars == <<script, apply, rows, gh, obs, hand, repair, hist>>

Observers == Drivers \cup {Watcher}
Kinds == {"progress", "cutover", "summary"}
NoRow == [id |-> 0, sup |-> FALSE]
IsTerminalApplyState(s) == s \in {"completed", "failed", "stopped"}

\* NewCommentObserver: nothing known of earlier callbacks.
NewCommentObserver(token) ==
    [up |-> TRUE, token |-> token, cut |-> FALSE, rot |-> FALSE, pc |-> "idle",
     st |-> "none", kind |-> "none", id |-> 0, then |-> "idle", agg |-> FALSE]
Down == [NewCommentObserver(0) EXCEPT !.up = FALSE]

Init ==
    /\ script \in Scripts
    /\ apply = [state |-> "pending", token |-> 0]
    /\ rows = [k \in Kinds |-> NoRow]
    /\ gh = <<>>
    /\ obs = [d \in Observers |->
                 IF d = Watcher /\ script.watch THEN NewCommentObserver(0) ELSE Down]
    /\ hand = [pc |-> "post", id |-> 0]
    /\ repair = [pc |-> "off", id |-> 0]
    /\ hist = [ends |-> 0, drives |-> 0, resumes |-> 0, crashes |-> 0, refused |-> 0,
                overlap |-> FALSE, recorded |-> FALSE]
-----------------------------------------------------------------------------
(* GitHub and storage.                                                     *)

Create(kind, body) == gh' = Append(gh, [kind |-> kind, body |-> body])

\* applyCommentStore.Upsert: insert, or overwrite the id and clear superseded_at.
Upsert(kind, id) == rows' = [rows EXCEPT ![kind] = [id |-> id, sup |-> FALSE]]

\* The lease guard of the store's writes, and leaseStillOwnsObserver: the token
\* is the apply's; the winner of the projection is not asked for one.
leaseStillOwnsObserver(d) == obs[d].agg \/ obs[d].token = apply.token

Set(d, o) == obs' = [obs EXCEPT ![d] = o]
\* The call GitHub refuses: the observer logs it and goes on.
Refused == script.refused > 0
CountRefused ==
    /\ script' = [script EXCEPT !.refused = @ - 1]
    /\ hist' = [hist EXCEPT !.refused = @ + 1]
-----------------------------------------------------------------------------
(* The webhook handler: h.postAndTrackComment of the first progress comment, *)
(* without a lease, after the apply was queued.                              *)
HandlerPosts ==
    /\ hand.pc = "post"
    /\ hand' = [pc |-> "track", id |-> Len(gh) + 1]
    /\ Create("progress", "pending")
    /\ UNCHANGED <<script, apply, rows, obs, repair, hist>>

HandlerTracks ==
    /\ hand.pc = "track"
    /\ Upsert("progress", hand.id)
    /\ hand' = [hand EXCEPT !.pc = "done"]
    /\ UNCHANGED <<script, apply, gh, obs, repair, hist>>
-----------------------------------------------------------------------------
(* The driver.                                                             *)

Busy(d) == \E o \in Observers \ {d} : obs[o].pc # "idle"
Owns(d) == obs[d].up /\ obs[d].token = apply.token
Owned == \E d \in Drivers : Owns(d)

\* A driver claims the apply with a new token and OnApplyRecovered gives it a
\* new observer; a driver that stalls loses its lease (script.expires).
Claim(d) ==
    /\ obs[d].pc = "idle"
    /\ \/ apply.state = "pending"
       \/ apply.state \in {"running", "cutting_over"} /\ ~Owned
       \/ apply.state \in {"running", "cutting_over"} /\ Owned /\ ~Owns(d) /\ script.expires > 0
    /\ script' = IF apply.state # "pending" /\ Owned
                 THEN [script EXCEPT !.expires = @ - 1] ELSE script
    /\ apply' = [state |-> IF apply.state = "pending" THEN "running" ELSE apply.state,
                 token |-> apply.token + 1]
    /\ Set(d, NewCommentObserver(apply.token + 1))
    /\ hist' = [hist EXCEPT !.drives = @ + 1, !.overlap = @ \/ Busy(d)]
    /\ UNCHANGED <<rows, gh, hand, repair>>

\* The owner stores a new state; a terminal one is followed by OnTerminal.  With
\* several operations the winner of the projection runs a one-shot observer.
Drive(d) ==
    /\ Owns(d) /\ obs[d].pc = "idle" /\ apply.state \in {"running", "cutting_over"}
    /\ \E s \in {"cutting_over", "completed", "failed", "stopped"} :
         /\ s = "cutting_over" => script.defer /\ apply.state = "running"
         /\ s = "completed" => (script.defer => apply.state = "cutting_over")
         /\ s = "stopped" => script.resumes > 0 /\ apply.state = "running"
         /\ apply' = [apply EXCEPT !.state = s]
         /\ IF IsTerminalApplyState(s)
            THEN /\ Set(d, [obs[d] EXCEPT !.pc = "terminal", !.st = s, !.agg = script.ops > 1])
                 /\ hist' = [hist EXCEPT !.ends = @ + 1, !.recorded = rows["progress"].id # 0]
            ELSE UNCHANGED <<obs, hist>>
    /\ UNCHANGED <<script, rows, gh, hand, repair>>

\* The stopped apply is started again and waits for a claim.
Start ==
    /\ apply.state = "stopped" /\ script.resumes > 0
    /\ script' = [script EXCEPT !.resumes = @ - 1]
    /\ hist' = [hist EXCEPT !.resumes = @ + 1, !.overlap = @ \/ \E o \in Observers : obs[o].pc # "idle"]
    /\ apply' = [apply EXCEPT !.state = "pending"]
    /\ UNCHANGED <<rows, gh, obs, hand, repair>>

\* pollAndNotifyObserver of the accepting process: its observer has no lease of
\* its own, so it takes the one of the row it has just read.
Watch ==
    /\ obs[Watcher].up /\ obs[Watcher].pc = "idle" /\ obs[Watcher].token # apply.token
    /\ Set(Watcher, [obs[Watcher] EXCEPT !.token = apply.token])
    /\ UNCHANGED <<script, apply, rows, gh, hand, repair, hist>>

\* It calls OnTerminal once and then removes the observer.
WatchTerminal ==
    /\ Owns(Watcher) /\ obs[Watcher].pc = "idle" /\ IsTerminalApplyState(apply.state)
    /\ Set(Watcher, [obs[Watcher] EXCEPT !.pc = "terminal", !.st = apply.state, !.up = FALSE])
    /\ UNCHANGED <<script, apply, rows, gh, hand, repair, hist>>
-----------------------------------------------------------------------------
(* OnProgress.                                                             *)

\* rotateProgressCommentForResume's test: no rotation by this observer yet, and a summary that is not superseded while the apply is active: it was resumed.
Resumed(o) == ~o.rot /\ rows["summary"].id # 0 /\ ~rows["summary"].sup

\* OnProgress up to its first GitHub call: the cutover comment once, then
\* nothing; a new progress comment after a resume; otherwise an edit, when the
\* throttle lets it through.  Several operations have no per-driver observer.
OnProgress(d) ==
    /\ Owns(d) /\ obs[d].pc = "idle" /\ script.ops = 1
    /\ apply.state \in {"running", "cutting_over"}
    /\ LET cut == obs[d].cut \/ rows["cutover"].id # 0
           o == [obs[d] EXCEPT !.st = apply.state, !.cut = cut]
       IN  \/ /\ apply.state = "cutting_over" /\ script.defer /\ ~cut
              /\ Set(d, [o EXCEPT !.pc = "post", !.kind = "cutover", !.cut = TRUE, !.then = "idle"])
           \/ /\ ~cut /\ ~(apply.state = "cutting_over" /\ script.defer) /\ Resumed(o)
              /\ Set(d, [o EXCEPT !.pc = "post", !.kind = "progress", !.rot = TRUE,
                                  !.then = "supersede"])
           \/ /\ ~cut /\ ~(apply.state = "cutting_over" /\ script.defer) /\ ~Resumed(o)
              /\ Set(d, [o EXCEPT !.pc = "edit", !.kind = "progress", !.then = "idle"])
    /\ UNCHANGED <<script, apply, rows, gh, hand, repair, hist>>

\* postAndTrackComment: the lease, then the call.  CreateIssueComment may fail.
PostChecks(d) ==
    /\ obs[d].pc = "post"
    /\ Set(d, [obs[d] EXCEPT !.pc = IF leaseStillOwnsObserver(d) THEN "create" ELSE obs[d].then])
    /\ UNCHANGED <<script, apply, rows, gh, hand, repair, hist>>

CreateIssueComment(d) ==
    /\ obs[d].pc = "create"
    /\ \/ /\ Create(obs[d].kind, obs[d].st)
          /\ Set(d, [obs[d] EXCEPT !.pc = "track", !.id = Len(gh) + 1])
          /\ UNCHANGED <<script, hist>>
       \/ /\ Refused /\ CountRefused
          /\ Set(d, [obs[d] EXCEPT !.pc = obs[d].then])
          /\ UNCHANGED gh
    /\ UNCHANGED <<apply, rows, hand, repair>>

\* The lease-guarded Upsert that records the comment.
TrackComment(d) ==
    /\ obs[d].pc = "track"
    /\ IF leaseStillOwnsObserver(d) THEN Upsert(obs[d].kind, obs[d].id) ELSE UNCHANGED rows
    /\ Set(d, [obs[d] EXCEPT !.pc = obs[d].then])
    /\ UNCHANGED <<script, apply, gh, hand, repair, hist>>

\* Supersede: the summary marker of the stop is consumed, under the lease.
\* When storage refuses it, the observer remembers that it has rotated.
Supersede(d) ==
    /\ obs[d].pc = "supersede"
    /\ \/ /\ rows' = IF leaseStillOwnsObserver(d) THEN [rows EXCEPT !["summary"].sup = TRUE] ELSE rows
          /\ UNCHANGED <<script, hist>>
       \/ Refused /\ CountRefused /\ UNCHANGED rows
    /\ Set(d, [obs[d] EXCEPT !.pc = "idle"])
    /\ UNCHANGED <<apply, gh, hand, repair>>

\* editTrackedComment: the row is looked up, the lease checked, then the edit.
EditLooksUp(d) ==
    /\ obs[d].pc = "edit"
    /\ LET id == rows[obs[d].kind].id
       IN  Set(d, [obs[d] EXCEPT !.id = id,
                       !.pc = IF id # 0 /\ leaseStillOwnsObserver(d) THEN "write" ELSE obs[d].then])
    /\ UNCHANGED <<script, apply, rows, gh, hand, repair, hist>>

EditIssueComment(d) ==
    /\ obs[d].pc = "write"
    /\ \/ /\ gh' = [gh EXCEPT ![obs[d].id].body = obs[d].st]
          /\ UNCHANGED <<script, hist>>
       \/ /\ Refused /\ CountRefused
          /\ UNCHANGED gh
    /\ Set(d, [obs[d] EXCEPT !.pc = obs[d].then])
    /\ UNCHANGED <<apply, rows, hand, repair>>
-----------------------------------------------------------------------------
(* OnTerminal.                                                             *)

\* As shouldPublishSeparateSummary, but every observer publishes.
EveryoneSummarises(d) == TRUE
\* The aggregate observer always; a driver's own when there is one operation.
shouldPublishSeparateSummary(d) == obs[d].agg \/ script.ops = 1

\* OnTerminal picks the comment to finish: the cutover comment, when there is
\* one, doubles as the summary.
OnTerminal(d) ==
    /\ obs[d].pc = "terminal"
    /\ LET kind == IF rows["cutover"].id # 0 THEN "cutover" ELSE "progress"
       IN  IF ~leaseStillOwnsObserver(d)
           THEN Set(d, [obs[d] EXCEPT !.pc = "idle", !.agg = FALSE])
           ELSE Set(d, [obs[d] EXCEPT !.pc = "edit", !.kind = kind,
                            !.then = IF kind = "cutover" THEN "mark" ELSE "summary"])
    /\ UNCHANGED <<script, apply, rows, gh, hand, repair, hist>>

\* markSummaryPosted: the summary row points at the cutover comment.
markSummaryPosted(d) ==
    /\ obs[d].pc = "mark"
    /\ IF leaseStillOwnsObserver(d) THEN Upsert("summary", rows["cutover"].id) ELSE UNCHANGED rows
    /\ Set(d, [obs[d] EXCEPT !.pc = "hook"])
    /\ UNCHANGED <<script, apply, gh, hand, repair, hist>>

SummaryStarts(d) ==
    /\ obs[d].pc = "summary"
    /\ Set(d, [obs[d] EXCEPT !.kind = "summary", !.then = "hook",
                   !.pc = IF shouldPublishSeparateSummary(d) THEN "post" ELSE "hook"])
    /\ UNCHANGED <<script, apply, rows, gh, hand, repair, hist>>

\* OnTerminalHook (the check runs, elsewhere); the callback returns.
TerminalHook(d) ==
    /\ obs[d].pc = "hook"
    /\ Set(d, [obs[d] EXCEPT !.pc = "idle", !.agg = FALSE])
    /\ UNCHANGED <<script, apply, rows, gh, hand, repair, hist>>
-----------------------------------------------------------------------------
(* Crash, restart and repair.                                              *)

\* A process dies in any callback.
Crash(d) ==
    /\ obs[d].up /\ script.crashes > 0 /\ repair.pc = "off"
    /\ script' = [script EXCEPT !.crashes = @ - 1]
    /\ hist' = [hist EXCEPT !.crashes = @ + 1]
    /\ Set(d, Down)
    /\ repair' = [pc |-> "find", id |-> 0]
    /\ UNCHANGED <<apply, rows, gh, hand>>

\* As FindMissingSummaryComment, but only completed applies are looked for.
OnlyCompleted == apply.state = "completed" /\ rows["progress"].id # 0 /\ rows["summary"].id = 0
\* Applies that ended for good, have a progress row and no summary row at all.
FindMissingSummaryComment ==
    apply.state \in {"completed", "failed"} /\ rows["progress"].id # 0 /\ rows["summary"].id = 0

\* ReconcileMissingSummaryComments, at the startup of the restarted process.
ReconcileFinds ==
    /\ repair.pc = "find"
    /\ repair' = [repair EXCEPT !.pc = IF FindMissingSummaryComment THEN "post" ELSE "off"]
    /\ UNCHANGED <<script, apply, rows, gh, obs, hand, hist>>

ReconcilePosts ==
    /\ repair.pc = "post"
    /\ Create("summary", apply.state)
    /\ repair' = [pc |-> "track", id |-> Len(gh) + 1]
    /\ UNCHANGED <<script, apply, rows, obs, hand, hist>>

ReconcileTracks ==
    /\ repair.pc = "track"
    /\ Upsert("summary", repair.id)
    /\ repair' = [pc |-> "off", id |-> 0]
    /\ UNCHANGED <<script, apply, gh, obs, hand, hist>>
-----------------------------------------------------------------------------
Callback(d) ==
    \/ PostChecks(d) \/ CreateIssueComment(d) \/ TrackComment(d) \/ Supersede(d)
    \/ EditLooksUp(d) \/ EditIssueComment(d)
    \/ OnTerminal(d) \/ markSummaryPosted(d) \/ SummaryStarts(d) \/ TerminalHook(d)
Handler == HandlerPosts \/ HandlerTracks
Watching == Watch \/ WatchTerminal
Reconcile == ReconcileFinds \/ ReconcilePosts \/ ReconcileTracks
Next ==
    \/ Handler \/ Reconcile \/ Start \/ Watching
    \/ \E d \in Drivers : Claim(d) \/ Drive(d)
    \/ \E d \in Observers : OnProgress(d) \/ Callback(d) \/ Crash(d)
Spec == Init /\ [][Next]_vars
\* Callbacks run on, a restarted process repairs, an unowned apply is claimed
\* and its owner drives it; the handler is a goroutine of a live process.
FairSpec ==
    /\ Spec
    /\ WF_vars(Handler) /\ WF_vars(Reconcile)
    /\ \A d \in Observers : WF_vars(Callback(d))
    /\ WF_vars(\E d \in Drivers : ~Owned /\ Claim(d))
    /\ SF_vars(\E d \in Drivers : Drive(d))
-----------------------------------------------------------------------------
(* Properties.                                                             *)
Comments(k) == {i \in 1..Len(gh) : gh[i].kind = k}

\* One end of the apply is announced by one summary, whoever finishes: a driver,
\* the winner of the projection or the repair at startup.  A crash adds one at
\* most, and so does a second process that watches an apply of one operation.
SummaryOnce ==
    Cardinality(Comments("summary")) <=
        hist.ends + hist.crashes + (IF script.watch /\ script.ops = 1 THEN hist.ends ELSE 0)

\* The pull request has one progress comment from the handler and, after a
\* resume, at most one per drive, even when the stop's marker cannot be consumed.
ProgressOnce ==
    Cardinality(Comments("progress")) <=
        1 + (IF hist.resumes = 0 THEN 0 ELSE hist.drives - 1 + (IF script.watch THEN 1 ELSE 0))

Announced == \E i \in Comments("summary") \cup Comments("cutover") : gh[i].body = apply.state
Over == apply.state \in {"completed", "failed"} /\ hist.recorded

\* Every apply that ends for good with its progress comment recorded gets a
\* summary, or a finished cutover comment, that tells how it ended, even when the process dies on the
\* way: the driver posts it or the repair at startup does.  (Left out: an apply
\* that was stopped and resumed and then loses its process, refused calls.)
SummaryPosted ==
    Over ~> (Announced \/ hist.refused > 0 \/ (hist.resumes > 0 /\ hist.crashes > 0))

=============================================================================
