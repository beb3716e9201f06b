-------------------------------- MODULE Gates -------------------------------
(***************************************************************************)
(* The gates an apply command on a pull request passes before anything is  *)
(* queued: who may command it (webhook/actor_authorization.go), where the  *)
(* schema may come from (api/source_policy.go), who reviewed it            *)
(* (webhook/review_gate.go, github/reviews.go), what the other checks of   *)
(* the commit say (webhook/apply_gating.go, github/client.go) and whether  *)
(* the environment before is done (webhook/check_prior_env.go).  Each is a *)
(* decision from evidence that may be partly unreadable; the evidence is   *)
(* enumerated and every decision is compared with a definition of what it  *)
(* should be.  The last gate reads GitHub several times while it changes.  *)
(***************************************************************************)
EXTENDS Naturals, FiniteSets, Sequences, SequencesExt

CONSTANTS MaxReviews, MaxSegs, MaxAttempts

VARIABLES q,        \* the question: which gate, and its evidence
          answer,   \* "none", then "proceed", "blocked" or "error"
          attempt,  \* reads of the prior environment's check so far
          last      \* what the last of them found
vars == <<q, answer, attempt, last>>

Users == {"author", "ann", "bob"}
Verdict(ok) == IF ok THEN "proceed" ELSE "blocked"
-----------------------------------------------------------------------------
(* Teams and users.  A team list may be empty, readable or unreadable.     *)

Team == [set : BOOLEAN, readable : BOOLEAN, members : {{}, {"ann"}}]
NoTeam == [set |-> FALSE, readable |-> TRUE, members |-> {}]
Teams == {NoTeam} \cup {t \in Team : t.set}

\* Membership of a user in the configured team: yes, no or error.
actorInAnyTeam(team, user) ==
    IF ~team.set THEN "no"
    ELSE IF ~team.readable THEN "error"
    ELSE IF user \in team.members THEN "yes" ELSE "no"

\* The first list that does not say "no" decides; teams and users alternate.
FirstAnswer(answers) ==
    LET said == SelectSeq(answers, LAMBDA a : a # "no")
    IN  IF said = <<>> THEN "no" ELSE Head(said)
matchedUserPrincipal(users, user) == IF user \in users THEN "yes" ELSE "no"
-----------------------------------------------------------------------------
(* Actor authorization.                                                    *)
ActorQuestions ==
    [gate : {"actor"}, enabled : BOOLEAN, actor : {"ann", "bob", "none"}, configured : BOOLEAN,
     adminTeam : Teams, adminUsers : {{}, {"bob"}}, operatorTeam : Teams, operatorUsers : {{}, {"bob"}}]

\* Admin teams, admin users, then the operators of this database; an error of a
\* lookup ends the search.
authorizeConfiguredDatabaseActor(e) ==
    LET said == FirstAnswer(<<actorInAnyTeam(e.adminTeam, e.actor),
                              matchedUserPrincipal(e.adminUsers, e.actor),
                              actorInAnyTeam(e.operatorTeam, e.actor),
                              matchedUserPrincipal(e.operatorUsers, e.actor)>>)
    IN  IF e.actor = "none" \/ ~e.configured THEN "blocked"
        ELSE IF ~e.adminTeam.set /\ ~e.operatorTeam.set
                /\ e.adminUsers \cup e.operatorUsers = {} THEN "blocked"
        ELSE IF said = "error" THEN "error" ELSE Verdict(said = "yes")

authorizePRCommandActor(e) ==
    IF ~e.enabled THEN "proceed" ELSE authorizeConfiguredDatabaseActor(e)
-----------------------------------------------------------------------------
(* Reviews.  A review has its author, its kind and a time; two reviews may  *)
(* have the same time.                                                      *)
Review == [user : {"author", "ann"}, state : {"approved", "changes_requested", "commented"},
           at : 0..1]
\* The CODEOWNERS file, when there is one: rules with one owner each, in the order
\* of the file; match tells whether the rule is for the schema's path.
Ruleset == {<<>>, <<[match |-> FALSE, owner |-> "ann"]>>,
            <<[match |-> TRUE, owner |-> "ann"], [match |-> TRUE, owner |-> "bob"]>>}
SeqsUpTo(S, n) == UNION {[1..k -> S] : k \in 0..n}
ReviewQuestions ==
    [gate : {"review"}, enabled : {TRUE}, reviews : SeqsUpTo(Review, MaxReviews),
     adminTeam : Teams, adminUsers : {{}, {"ann"}}, codeowners : Ruleset]

\* As GetApprovedReviewers, but any approval a user ever gave counts.
EverApproved(reviews) ==
    {r.user : r \in {reviews[i] : i \in {j \in 1..Len(reviews) : reviews[j].state = "approved"}}}
\* The users whose last decisive review is an approval: in the order of the
\* list, a review replaces one that is not later; comments are skipped.
GetApprovedReviewers(reviews) ==
    LET add(latest, r) == IF r.state = "commented" \/ latest[r.user].at > r.at THEN latest
                          ELSE [latest EXCEPT ![r.user] = [state |-> r.state, at |-> r.at]]
        latest == FoldLeft(add, [u \in Users |-> [state |-> "none", at |-> 0]], reviews)
    IN  {u \in Users : latest[u].state = "approved"}

\* The last rule that matches the path; without one, the owners of all rules.
matchReviewGateCodeowners(rules) ==
    LET hits == {i \in 1..Len(rules) : rules[i].match}
    IN  IF hits = {} THEN {rules[i].owner : i \in 1..Len(rules)}
        ELSE {rules[CHOOSE i \in hits : \A j \in hits : j <= i].owner}

\* loadReviewGatePolicy: the principals; none at all is an error.
HasReviewers(e) == e.adminTeam.set \/ e.adminUsers # {} \/ e.codeowners # <<>>

\* reviewGatePolicy.Matches.
Matches(e, user) ==
    FirstAnswer(<<actorInAnyTeam(e.adminTeam, user), matchedUserPrincipal(e.adminUsers, user),
                  matchedUserPrincipal(matchReviewGateCodeowners(e.codeowners), user)>>)

\* One approval by somebody other than the author whom the policy names.
checkReviewGate(e) ==
    LET valid == GetApprovedReviewers(e.reviews) \ {"author"}
    IN  IF ~e.enabled THEN "proceed"
        ELSE IF ~HasReviewers(e) THEN "error"
        ELSE IF \E u \in valid : Matches(e, u) = "error" THEN "error"
        ELSE Verdict(\E u \in valid : Matches(e, u) = "yes")
-----------------------------------------------------------------------------
(* The checks of the commit: commit statuses (no app) and check runs.      *)
Outcome == {<<"completed", "success">>, <<"completed", "failure">>, <<"completed", "skipped">>,
            <<"in_progress", "">>, <<"waiting", "">>}
Row == [name : {"build", "lint"}, out : Outcome, run : {TRUE}, own : BOOLEAN]
         \cup [name : {"build", "lint"}, out : Outcome \ {<<"waiting", "">>}, run : {FALSE}, own : {FALSE}]
CheckQuestions ==
    [gate : {"checks"}, rows : {{}} \cup {{a, b, c} : a, b, c \in Row},
     required : SUBSET {"build", "lint"}, unreadable : {"nothing"}]
    \cup [gate : {"checks"}, rows : {{r} : r \in Row},
          required : SUBSET {"build", "lint"}, unreadable : {"statuses", "runs"}]

\* fetchPRCheckStatuses: the check runs are not read when the commit statuses
\* already name every required check.
StatusesSuffice(e) ==
    e.required # {} /\ e.required \subseteq {r.name : r \in {x \in e.rows : ~x.run}}
fetchPRCheckStatuses(e) == {r \in e.rows : r.run => ~StatusesSuffice(e)}
FetchFails(e) == e.unreadable = "statuses" \/ (e.unreadable = "runs" /\ ~StatusesSuffice(e))

\* The rows that gate: not SchemaBot's own and, as soon as one required check
\* is among them, only the required ones.
statusesContainRequiredCheck(e, rows) == \E r \in rows : ~r.own /\ r.name \in e.required
Gating(e, rows) ==
    {r \in rows : ~r.own /\ (statusesContainRequiredCheck(e, rows) => r.name \in e.required)}

missingRequiredChecks(e, rows) == e.required \ {r.name : r \in rows}

isPassingCheckConclusion(c) == c \in {"success", "neutral", "skipped"}
filterNonPassingNonSchemaBotChecks(e, rows) ==
    {r \in Gating(e, rows) : r.out[1] = "completed" /\ ~isPassingCheckConclusion(r.out[2])}
filterInProgressNonSchemaBotChecks(e, rows) ==
    {r \in Gating(e, rows) : r.out[1] \in {"in_progress", "queued", "pending"}}

enforcePassingChecks(e) ==
    LET rows == fetchPRCheckStatuses(e)
    IN  IF FetchFails(e) THEN "error"
        ELSE Verdict(/\ filterNonPassingNonSchemaBotChecks(e, rows) = {}
                     /\ filterInProgressNonSchemaBotChecks(e, rows) = {}
                     /\ missingRequiredChecks(e, rows) = {})
-----------------------------------------------------------------------------
(* Source policy.  A path is a sequence of names; <<>> is the root.        *)
Segs == {"a", "b", ".", ".."}
Paths == {p \in SeqsUpTo(Segs, MaxSegs) : p # <<>>}
SourceQuestions ==
    [gate : {"source"}, repoOK : BOOLEAN, repos : BOOLEAN, path : Paths,
     dirs : {{}} \cup {{d} : d \in SeqsUpTo({"a", "b", "."}, 2) \ {<<>>}}]

\* path.Clean, a name at a time.
Step1(done, seg) ==
    IF seg = "." THEN done
    ELSE IF seg = ".." /\ done # <<>> /\ done[Len(done)] # ".." THEN Front(done)
    ELSE Append(done, seg)
\* The cleaned path; one that leaves the repository is refused (starts "..").
normalizeSchemaPath(p) == FoldLeft(Step1, <<>>, p)
Escapes(p) == normalizeSchemaPath(p) # <<>> /\ Head(normalizeSchemaPath(p)) = ".."

\* Equal to an allowed directory or below one that is not the root.
schemaPathAllowed(dirs, p) ==
    /\ ~Escapes(p)
    /\ \E d \in dirs :
         \/ normalizeSchemaPath(p) = normalizeSchemaPath(d)
         \/ normalizeSchemaPath(d) # <<>> /\ IsPrefix(normalizeSchemaPath(d), normalizeSchemaPath(p))

\* AuthorizePlanSource: no policy, no restriction; else the repository and the
\* directory, each when it is configured.
AuthorizePlanSource(e) ==
    Verdict(/\ e.repos => e.repoOK
            /\ e.dirs # {} => schemaPathAllowed(e.dirs, e.path))
-----------------------------------------------------------------------------
(* The environment before, when another deployment of SchemaBot owns it:   *)
(* its aggregate check run is read on GitHub, several times if need be.    *)
Run == [trusted : BOOLEAN, st : {"in_progress", "success", "failure"}]
PriorQuestions ==
    [gate : {"prior"}, slugs : BOOLEAN, runs : SeqsUpTo(Run, 1), mayChange : {2}]

\* The newest run of a trusted app; runs are in the order of their ids.
FindCheckRunByName(runs) ==
    LET mine == SelectSeq(runs, LAMBDA r : r.trusted)
    IN  IF mine = <<>> THEN "missing" ELSE mine[Len(mine)].st
shouldRetryGitHubPriorEnvCheck(found) == found \in {"missing", "in_progress"}

\* One turn of waitForGitHubPriorEnvCheck and, at its end, the decision.
checkPriorEnvViaGitHub ==
    /\ q.gate = "prior" /\ answer = "none"
    /\ LET found == FindCheckRunByName(q.runs)
       IN  IF ~q.slugs THEN answer' = "error" /\ UNCHANGED <<attempt, last>>
           ELSE /\ attempt' = attempt + 1
                /\ last' = found
                /\ answer' = IF shouldRetryGitHubPriorEnvCheck(found) /\ attempt + 1 < MaxAttempts
                             THEN "none" ELSE Verdict(found = "success")
    /\ UNCHANGED q

\* Meanwhile the other deployment posts a run or finishes its newest one.
ChecksChange ==
    /\ q.gate = "prior" /\ q.mayChange > 0
    /\ \/ \E r \in Run : q' = [q EXCEPT !.runs = Append(@, r), !.mayChange = @ - 1]
       \/ /\ q.runs # <<>>
          /\ \E st \in {"success", "failure"} :
               q' = [q EXCEPT !.runs[Len(q.runs)].st = st, !.mayChange = @ - 1]
    /\ UNCHANGED <<answer, attempt, last>>
-----------------------------------------------------------------------------
Init ==
    /\ \/ q \in ActorQuestions \/ q \in ReviewQuestions \/ q \in CheckQuestions
       \/ q \in SourceQuestions \/ q \in PriorQuestions
    /\ answer = "none" /\ attempt = 0 /\ last = "none"

Decide(gate, verdict) ==
    /\ q.gate = gate /\ answer = "none"
    /\ answer' = verdict
    /\ UNCHANGED <<q, attempt, last>>

Next ==
    \/ q.gate = "actor" /\ Decide("actor", authorizePRCommandActor(q))
    \/ q.gate = "review" /\ Decide("review", checkReviewGate(q))
    \/ q.gate = "checks" /\ Decide("checks", enforcePassingChecks(q))
    \/ q.gate = "source" /\ Decide("source", AuthorizePlanSource(q))
    \/ checkPriorEnvViaGitHub \/ ChecksChange
Spec == Init /\ [][Next]_vars
-----------------------------------------------------------------------------
(* Properties.                                                             *)

Passed(gate) == q.gate = gate /\ answer = "proceed"

\* A command is carried out only for an actor one of the readable lists names,
\* and an unreadable list that could have named the actor is never taken for a
\* refusal: a denial is reported as a denial only when every list was read.
ActorIsNamed ==
    LET named(t) == t.set /\ t.readable /\ q.actor \in t.members
        users == q.adminUsers \cup q.operatorUsers
    IN  q.gate = "actor" =>
          /\ answer = "proceed" /\ q.enabled =>
               q.configured /\ (named(q.adminTeam) \/ named(q.operatorTeam) \/ q.actor \in users)
          /\ answer = "blocked" /\ q.configured /\ q.actor # "none" =>
               q.adminTeam.readable /\ q.operatorTeam.readable

\* The decisive reviews of a user in the order GitHub shows them: by time, then
\* by place in the list.
After(rs, i, j) == rs[i].at > rs[j].at \/ (rs[i].at = rs[j].at /\ i > j)
Withdrawn(rs, i) ==
    \E j \in 1..Len(rs) : /\ rs[j].user = rs[i].user /\ rs[j].state = "changes_requested"
                          /\ After(rs, j, i)

\* An apply passes the review gate exactly when the policy has reviewers, its
\* lists can be read as far as needed, and somebody else than the author, whom
\* the policy names, has an approval no later change request of theirs withdraws
\* - a later comment does not.
ReviewStands ==
    LET rs == q.reviews
        standing == {rs[i].user : i \in {k \in 1..Len(rs) :
                        rs[k].state = "approved" /\ rs[k].user # "author" /\ ~Withdrawn(rs, k)}}
        named == q.adminUsers \cup (IF q.adminTeam.set THEN q.adminTeam.members ELSE {})
                   \cup matchReviewGateCodeowners(q.codeowners)
    IN  q.gate = "review" /\ answer # "none" =>
          (answer = "proceed" <=>
             /\ standing \cap named # {}
             /\ q.adminTeam.set => q.adminTeam.readable)

\* An apply passes the checks gate only when each required check has reported
\* and each check that gates it (all of the other apps' checks if none is
\* required) is complete and passing; what could not be read never passes.
\* (Left out: rows in a status the code does not know, such as "waiting".)
ChecksComplete ==
    q.gate = "checks" /\ answer = "proceed" =>
        LET known == \A r \in q.rows : r.out[1] # "waiting"
            reported == {r.name : r \in q.rows}
            external == {r \in q.rows : ~r.own /\ (q.required # {} => ~r.run \/ ~StatusesSuffice(q))}
        IN  /\ q.required \subseteq reported
            /\ known => \A r \in external :
                 \/ r.out \in {<<"completed", "success">>, <<"completed", "skipped">>}
                 \/ q.required # {} /\ r.name \notin q.required
                      /\ \E x \in external : x.name \in q.required
            /\ q.unreadable # "statuses"

\* Where a path leads when it is walked from the root of the repository.
Above(p, i) == Cardinality({k \in 1..i : p[k] = ".."}) > Cardinality({k \in 1..i : p[k] \in {"a", "b"}})
Leaves(p) == \E i \in 1..Len(p) : Above(p, i)

\* With directories configured, a schema is accepted only from a path that, when
\* walked, never leaves the repository and ends in or below a configured one.
SourceInside ==
    Passed("source") /\ q.dirs # {} =>
        /\ ~Leaves(q.path)
        /\ LET at == FoldLeft(LAMBDA done, s : IF s = "." THEN done
                                  ELSE IF s = ".." THEN Front(done) ELSE Append(done, s), <<>>, q.path)
           IN  \E d \in q.dirs : LET dir == SelectSeq(d, LAMBDA s : s # ".")
                                 IN  IsPrefix(dir, at) /\ (dir = <<>> => at = <<>>)

\* The apply is promoted only on a finished, successful run of a trusted app that
\* was the newest such run when it was read; a run that is missing or still going
\* when the attempts are used up never passes.
PriorVerified ==
    q.gate = "prior" =>
        /\ answer = "proceed" => q.slugs /\ last = "success" /\ \E i \in 1..Len(q.runs) : q.runs[i].trusted
        /\ answer = "blocked" => last = "failure" \/ attempt = MaxAttempts
=============================================================================
