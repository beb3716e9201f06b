-------------------------- MODULE MCPullRequest --------------------------
(***************************************************************************)
(* Instances of PullRequest.                                               *)
(***************************************************************************)
EXTENDS PullRequest

\* Deliveries for pull request p, target <<env, database>>.
Send(kind, p, env) == [kind |-> kind, pr |-> p, t |-> <<env, "db">>, at |-> "any"]
Calm(kind, p, env) == [Send(kind, p, env) EXCEPT !.at = "calm"]
While(kind, p, env) == [Send(kind, p, env) EXCEPT !.at = "applying"]
Driving(kind, p, env) == [Send(kind, p, env) EXCEPT !.at = "driving"]

One == <<"staging">>
Two == <<"staging", "production">>

\* heads: the schema each head of each pull request declares.
Script(envs, heads, sends, ends, n, heals) ==
  [envs |-> envs, dbs |-> {"db"}, sends |-> sends, ends |-> ends, faults |-> n,
   heals |-> heals,
   want |-> [p \in DOMAIN heads |-> [h \in DOMAIN heads[p] |-> [d \in {"db"} |-> heads[p][h]]]]]

\* A push while the first head is still being planned, then a plan.
Push ==
  Script(One, <<<<2, 3>>>>,
    <<Send("opened", 1, "none"), Send("push", 1, "none"), Calm("planall", 1, "none")>>,
    {"completed"}, 1, TRUE)

\* The schema change is removed while its apply runs.
Remove ==
  Script(One, <<<<2, 0>>>>,
    <<Calm("opened", 1, "none"), Calm("apply-y", 1, "staging"), Send("push", 1, "none")>>,
    {"completed", "failed"}, 0, FALSE)

\* The head moves while the pull request confirms; the event comes late.
Confirm ==
  Script(One, <<<<2, 3>>>>,
    <<Calm("apply", 1, "staging"), Send("confirm", 1, "staging"), Send("moved", 1, "none"),
      Calm("opened", 1, "none")>>,
    {"completed"}, 0, FALSE)

\* An automatic plan while an apply runs.
PlanAgain ==
  Script(One, <<<<2>>>>,
    <<Calm("apply-y", 1, "staging"), While("opened", 1, "none")>>,
    {"completed"}, 0, FALSE)

\* The schema change is removed before it is applied; one of two databases is
\* no longer touched.
Revert ==
  Script(One, <<<<2, 0>>>>, <<Calm("opened", 1, "none"), Send("push", 1, "none")>>,
    {"completed"}, 1, FALSE)

TwoDatabases ==
  [Script(One, <<<<2, 2>>>>, <<Calm("opened", 1, "none"), Calm("push", 1, "none")>>,
     {"completed"}, 0, FALSE)
   EXCEPT !.dbs = {"db", "eb"}, !.want = <<<<[db |-> 2, eb |-> 2], [db |-> 2, eb |-> 0]>>>>]

\* Two pull requests, one database: the first gives up its lock, by its own
\* command or by force of the second, while it confirms.
GiveUp ==
  Script(One, <<<<2>>, <<3>>>>,
    <<Calm("apply", 1, "staging"), Send("confirm", 1, "staging"), Send("unlock", 1, "staging"),
      Calm("apply-y", 2, "staging")>>,
    {"completed"}, 0, FALSE)

TakeOver ==
  Script(One, <<<<2>>, <<3>>>>,
    <<Calm("apply", 1, "staging"), Send("confirm", 1, "staging"),
      Send("unlock-force", 2, "staging"), Driving("apply-y", 2, "staging")>>,
    {"completed"}, 0, FALSE)

\* A completed apply is rolled back while somebody plans.
Rollback ==
  Script(One, <<<<2>>>>,
    <<Calm("apply-y", 1, "staging"), Calm("rollback", 1, "staging"),
      Send("rollback-confirm", 1, "staging"), Send("plan", 1, "staging")>>,
    {"completed"}, 0, FALSE)

RollbackEvent ==
  Script(One, <<<<2>>>>,
    <<Calm("apply-y", 1, "staging"), Calm("rollback", 1, "staging"),
      Calm("rollback-confirm", 1, "staging"), While("opened", 1, "none")>>,
    {"completed", "failed"}, 0, FALSE)

\* A rollback that takes a free lock, and a confirmation at the same time.
RollbackUnlocked ==
  Script(One, <<<<2>>>>,
    <<Calm("apply-y", 1, "staging"), Calm("unlock", 1, "staging"),
      Send("rollback", 1, "staging"), Send("confirm", 1, "staging"),
      Calm("rollback", 1, "staging")>>,
    {"completed"}, 0, FALSE)

\* An apply that may stop and restart, a crash, and a plan.
Crash ==
  Script(One, <<<<2>>>>,
    <<Calm("apply-y", 1, "staging"), Calm("apply-y", 1, "staging"), Calm("planall", 1, "none")>>,
    {"completed", "failed", "stopped"}, 1, TRUE)

\* The pull request is closed while it confirms, and opened again.
Close ==
  Script(One, <<<<2>>>>,
    <<Calm("apply", 1, "staging"), Send("confirm", 1, "staging"), Send("closed", 1, "none"),
      Calm("opened", 1, "none")>>,
    {"completed"}, 0, FALSE)

\* Staging, then production.
Promote ==
  Script(Two, <<<<2>>>>,
    <<Calm("opened", 1, "none"), Calm("apply-y", 1, "staging"), Calm("apply-y", 1, "production")>>,
    {"completed", "failed"}, 0, FALSE)

MCScripts == {Push, Remove, Confirm, PlanAgain, Revert, TwoDatabases, GiveUp, TakeOver, Rollback, RollbackEvent,
              RollbackUnlocked, Crash, Close, Promote}

==========================================================================
