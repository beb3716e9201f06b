----------------------------- MODULE MCServices -----------------------------
(***************************************************************************)
(* One model for three parts that do not interact: the comments of an      *)
(* apply, the gates a command passes, and the routing of requests.  The    *)
(* initial state picks the part; the variables of the others stay 0.       *)
(***************************************************************************)
EXTENDS Naturals, Sequences

CONSTANTS Drivers, Watcher,                        \* Comments
          Callers, Plans, Deployments, Targets     \* Routing

VARIABLES which,
          script, apply, rows, gh, obs, hand, repair, hist,
          q, answer, attempt, last,
          route, moves, plans, applies, cache, clients, pending, slot, lock, observer, calls,
          left, sent
cvars == <<script, apply, rows, gh, obs, hand, repair, hist>>
gvars == <<q, answer, attempt, last>>
rvars == <<route, moves, plans, applies, cache, clients, pending, slot, lock, observer, calls,
           left, sent>>
vars == <<which, cvars, gvars, rvars>>

Script(ops, defer, watch, resumes, crashes, refused, expires) ==
    [ops |-> ops, defer |-> defer, watch |-> watch, resumes |-> resumes, crashes |-> crashes,
     refused |-> refused, expires |-> expires]
\* A resume after an expired lease; a crash; a resume with a refused call; two
\* operations and a watching replica; two operations and a crash; a watching
\* replica, with and without a deferred cutover.
CommentScripts ==
    {Script(1, FALSE, FALSE, 1, 0, 0, 1), Script(1, FALSE, FALSE, 1, 0, 1, 0),
     Script(2, FALSE, TRUE, 1, 0, 0, 0), Script(2, FALSE, FALSE, 0, 1, 0, 0)}
      \cup {Script(1, d, FALSE, 0, 1, 0, 0) : d \in BOOLEAN}
      \cup {Script(1, d, TRUE, 0, 0, 0, 0) : d \in BOOLEAN}

cm == INSTANCE Comments WITH Scripts <- CommentScripts
gt == INSTANCE Gates WITH MaxReviews <- 3, MaxSegs <- 4, MaxAttempts <- 2
rt == INSTANCE Routing WITH MaxMoves <- 1, MaxCalls <- 4

NoComments == script = 0 /\ apply = 0 /\ rows = 0 /\ gh = 0 /\ obs = 0 /\ hand = 0 /\ repair = 0 /\ hist = 0
NoGates == q = 0 /\ answer = 0 /\ attempt = 0 /\ last = 0
NoRouting ==
    /\ route = 0 /\ moves = 0 /\ plans = 0 /\ applies = 0 /\ cache = 0 /\ clients = 0 /\ pending = 0
    /\ slot = 0 /\ lock = 0 /\ observer = 0 /\ calls = 0 /\ left = 0 /\ sent = 0

Init ==
    \/ which = "comments" /\ cm!Init /\ NoGates /\ NoRouting
    \/ which = "gates" /\ gt!Init /\ NoComments /\ NoRouting
    \/ which = "routing" /\ rt!Init /\ NoComments /\ NoGates

InComments(A) == which = "comments" /\ A /\ UNCHANGED <<which, gvars, rvars>>
InGates(A) == which = "gates" /\ A /\ UNCHANGED <<which, cvars, rvars>>
InRouting(A) == which = "routing" /\ A /\ UNCHANGED <<which, cvars, gvars>>

Next == InComments(cm!Next) \/ InGates(gt!Next) \/ InRouting(rt!Next)
Spec == Init /\ [][Next]_vars
\* The fairness of Comments!FairSpec and of Routing!FairSpec.
FairSpec ==
    /\ Spec
    /\ WF_vars(InComments(cm!Handler)) /\ WF_vars(InComments(cm!Reconcile))
    /\ \A d \in Drivers \cup {Watcher} : WF_vars(InComments(cm!Callback(d)))
    /\ WF_vars(InComments(\E d \in Drivers : ~cm!Owned /\ cm!Claim(d)))
    /\ SF_vars(InComments(\E d \in Drivers : cm!Drive(d)))
    /\ \A c \in Callers : WF_vars(InRouting(rt!Step(c)))
-----------------------------------------------------------------------------
\* One end of the apply is announced by one summary, and the pull request has one
\* progress comment and at most one per resumed drive
\* (Comments!SummaryOnce, ProgressOnce).
CommentsOnce == which = "comments" => cm!SummaryOnce /\ cm!ProgressOnce

\* Each gate opens as its reference definition says, in whatever order its lists
\* are read and whatever could not be read: actor, review, required checks, source
\* of the schema, prior environment (the five properties of Gates).
GateVerdicts ==
    which = "gates" =>
        gt!ActorIsNamed /\ gt!ReviewStands /\ gt!ChecksComplete /\ gt!SourceInside /\ gt!PriorVerified

\* What is asked of an apply reaches the open client of the target its plan was
\* made for, racing builders share one client, and an apply reports to its own
\* plan's observer or to none (Routing!RouteKept, ClientsShared, ObserverMatches).
RouteKept == which = "routing" => rt!RouteKept /\ rt!ClientsShared /\ rt!ObserverMatches

\* An apply that ended gets a comment that tells how, also after a crash
\* (Comments!SummaryPosted), and no request waits for ever for a deployment's lock
\* (Routing!CallsEnd).
WorkEnds ==
    /\ []<>(which = "comments" /\ cm!Over =>
              cm!Announced \/ hist.refused > 0 \/ (hist.resumes > 0 /\ hist.crashes > 0))
    /\ \A c \in Callers : []<>(which = "routing" => calls[c].pc = "idle")
=============================================================================
