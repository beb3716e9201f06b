------------------------------- MODULE Routing ------------------------------
(***************************************************************************)
(* How a request finds the client that carries it out: the control plane's *)
(* RoutingClient picks the deployment, the data plane's TargetRouter finds *)
(* or builds the LocalClient of the execution target.  Planning uses the   *)
(* configuration of the moment; an apply, and what is asked of it later,   *)
(* use what the plan recorded, while the configuration changes.  Several   *)
(* requests are under way at once: they race to build a client, and the    *)
(* observer of an apply travels through a slot of the deployment's client. *)
(***************************************************************************)
EXTENDS Naturals, FiniteSets, Sequences

CONSTANTS Callers, Plans, Deployments, Targets,
          MaxMoves,      \* changes of the configuration
          MaxCalls       \* requests

VARIABLES route,     \* the configured deployment and target of the database
          moves,     \* configuration changes left
          plans,     \* plan -> its stored route, or NoRoute
          applies,   \* plan -> its apply: whether started, and its remote ids
          cache,     \* clientsByTarget: <<deployment, target>> -> client, 0 if none
          clients,   \* every LocalClient built: its key and whether it is open
          pending,   \* pendingObserversByPlan
          slot,      \* deployment -> the observer set for its next Apply
          lock,      \* deployment -> the caller that holds delegateApplyLock
          observer,  \* plan -> the observer attached to its apply
          calls,     \* caller -> the request it carries out
          left,      \* requests left
          sent       \* the last request dispatched
vars == <<route, moves, plans, applies, cache, clients, pending, slot, lock, observer,
          calls, left, sent>>

None == "none"
NoRoute == [dep |-> None, target |-> None]
Idle == [pc |-> "idle", op |-> None, plan |-> None, route |-> NoRoute, client |-> 0]
Key(r) == <<r.dep, r.target>>

Init ==
    /\ route \in [dep : Deployments, target : Targets]
    /\ moves = MaxMoves /\ left = MaxCalls
    /\ plans = [p \in Plans |-> NoRoute]
    /\ \E n \in 1..2, b \in BOOLEAN :
         applies = [p \in Plans |-> [on |-> FALSE, ops |-> n, accepted |-> b]]
    /\ cache = [k \in Deployments \X Targets |-> 0]
    /\ clients = <<>>
    /\ pending = [p \in Plans |-> FALSE]
    /\ slot = [d \in Deployments |-> None]
    /\ lock = [d \in Deployments |-> None]
    /\ observer = [p \in Plans |-> None]
    /\ calls = [c \in Callers |-> Idle]
    /\ sent = [op |-> None, plan |-> None, client |-> 0]

Set(c, k) == calls' = [calls EXCEPT ![c] = k]
-----------------------------------------------------------------------------
(* The control plane.                                                      *)

\* The operator edits the routing configuration.
ConfigChanges ==
    /\ moves > 0
    /\ \E r \in [dep : Deployments, target : Targets] \ {route} : route' = r
    /\ moves' = moves - 1
    /\ UNCHANGED <<plans, applies, cache, clients, pending, slot, lock, observer, calls, left, sent>>

Begin(c, op, p, r, pc) ==
    /\ calls[c].pc = "idle" /\ left > 0
    /\ left' = left - 1
    /\ Set(c, [pc |-> pc, op |-> op, plan |-> p, route |-> r, client |-> 0])
    /\ UNCHANGED <<route, moves, plans, applies, cache, clients, slot, lock, observer, sent>>

\* RoutingClient.Plan: the single target configured now; the plan keeps it.
Plan(c, p) ==
    /\ plans[p] = NoRoute /\ \A d \in Callers : calls[d].plan # p
    /\ Begin(c, "plan", p, route, "resolve")
    /\ UNCHANGED pending

\* The deployment and target the stored plan (or apply) names.
storedRoute(p) == plans[p]

\* RoutingClient.Apply, with an observer registered for the plan or without.
Apply(c, p) ==
    /\ plans[p] # NoRoute /\ ~applies[p].on
    /\ \A d \in Callers : calls[d].plan # p
    /\ Begin(c, "apply", p, storedRoute(p), "lock")
    /\ \E b \in BOOLEAN : pending' = [pending EXCEPT ![p] = b]

\* ternApplyIdentifierForClient: a remote apply of several operations has no id
\* that a request for the whole apply could use, one not yet accepted has none.
ternApplyIdentifierForClient(p) ==
    IF applies[p].ops > 1 \/ ~applies[p].accepted THEN "error" ELSE "external"

\* routeApply: progress, cutover, stop, start, volume, revert of a stored apply.
routeApply(c, p) ==
    /\ applies[p].on /\ ternApplyIdentifierForClient(p) # "error"
    /\ Begin(c, "control", p, storedRoute(p), "resolve")
    /\ UNCHANGED pending

\* ResumeApplyOperation: by the operation's own row, whatever their number.
ResumeApplyOperation(c, p) ==
    /\ applies[p].on
    /\ Begin(c, "resume", p, storedRoute(p), "resolve")
    /\ UNCHANGED pending

\* As delegateApplyLock, but the deployment's applies are not serialised.
NoDelegateLock(c) ==
    LET k == calls[c]
    IN  /\ k.pc = "lock"
        /\ lock' = [lock EXCEPT ![k.route.dep] = c]
        /\ pending' = [pending EXCEPT ![k.plan] = FALSE]
        /\ slot' = IF pending[k.plan] THEN [slot EXCEPT ![k.route.dep] = k.plan] ELSE slot
        /\ Set(c, [k EXCEPT !.pc = "resolve"])
        /\ UNCHANGED <<route, moves, plans, applies, cache, clients, observer, left, sent>>

\* The lock of the deployment, then the plan's observer into the client's slot.
delegateApplyLock(c) ==
    LET k == calls[c]
    IN  /\ k.pc = "lock" /\ lock[k.route.dep] = None
        /\ lock' = [lock EXCEPT ![k.route.dep] = c]
        /\ pending' = [pending EXCEPT ![k.plan] = FALSE]
        /\ slot' = IF pending[k.plan] THEN [slot EXCEPT ![k.route.dep] = k.plan] ELSE slot
        /\ Set(c, [k EXCEPT !.pc = "resolve"])
        /\ UNCHANGED <<route, moves, plans, applies, cache, clients, observer, left, sent>>
-----------------------------------------------------------------------------
(* The data plane: clientForTarget.                                        *)

\* The cache is read under the mutex, which is released before a client is built.
LookUp(c) ==
    LET k == calls[c]
    IN  /\ k.pc = "resolve"
        /\ Set(c, [k EXCEPT !.client = cache[Key(k.route)],
                            !.pc = IF cache[Key(k.route)] # 0 THEN "send" ELSE "build"])
        /\ UNCHANGED <<route, moves, plans, applies, cache, clients, pending, slot, lock, observer,
                       left, sent>>

Build(c) ==
    LET k == calls[c]
    IN  /\ k.pc = "build"
        /\ clients' = Append(clients, [key |-> Key(k.route), open |-> TRUE])
        /\ Set(c, [k EXCEPT !.client = Len(clients) + 1, !.pc = "store"])
        /\ UNCHANGED <<route, moves, plans, applies, cache, pending, slot, lock, observer, left, sent>>

\* Under the mutex again: the first one stored stays, a later one is closed.
StoreClient(c) ==
    LET k == calls[c]
        existing == cache[Key(k.route)]
    IN  /\ k.pc = "store"
        /\ cache' = IF existing = 0 THEN [cache EXCEPT ![Key(k.route)] = k.client] ELSE cache
        /\ clients' = IF existing = 0 THEN clients ELSE [clients EXCEPT ![k.client].open = FALSE]
        /\ Set(c, [k EXCEPT !.pc = "send", !.client = IF existing = 0 THEN @ ELSE existing])
        /\ UNCHANGED <<route, moves, plans, applies, pending, slot, lock, observer, left, sent>>

\* The request reaches the client.  An apply consumes the observer in the slot;
\* a plan is stored with the route it was made for.
Send(c) ==
    LET k == calls[c]
    IN  /\ k.pc = "send"
        /\ sent' = [op |-> k.op, plan |-> k.plan, client |-> k.client]
        /\ plans' = IF k.op = "plan" THEN [plans EXCEPT ![k.plan] = k.route] ELSE plans
        /\ applies' = IF k.op = "apply" THEN [applies EXCEPT ![k.plan].on = TRUE] ELSE applies
        /\ IF k.op = "apply"
           THEN /\ observer' = [observer EXCEPT ![k.plan] = slot[k.route.dep]]
                /\ slot' = [slot EXCEPT ![k.route.dep] = None]
                /\ lock' = [lock EXCEPT ![k.route.dep] = None]
           ELSE UNCHANGED <<observer, slot, lock>>
        /\ Set(c, Idle)
        /\ UNCHANGED <<route, moves, cache, clients, pending, left>>

\* The client cannot be built or the request fails: nothing was started, the
\* observer of this apply leaves the slot and the lock is released.
CallFails(c) ==
    LET k == calls[c]
    IN  /\ k.pc \in {"build", "send"}
        /\ IF k.op = "apply"
           THEN /\ slot' = [slot EXCEPT ![k.route.dep] = IF @ = k.plan THEN None ELSE @]
                /\ lock' = [lock EXCEPT ![k.route.dep] = None]
           ELSE UNCHANGED <<slot, lock>>
        /\ Set(c, Idle)
        /\ UNCHANGED <<route, moves, plans, applies, cache, clients, pending, observer, left, sent>>

\* The remote deployment answers the apply without accepting it: GRPCClient.Apply
\* has consumed the observer by then, and attaches it to nothing.
NotAccepted(c) ==
    LET k == calls[c]
    IN  /\ k.pc = "send" /\ k.op = "apply"
        /\ slot' = [slot EXCEPT ![k.route.dep] = None]
        /\ lock' = [lock EXCEPT ![k.route.dep] = None]
        /\ Set(c, Idle)
        /\ UNCHANGED <<route, moves, plans, applies, cache, clients, pending, observer, left, sent>>

\* TargetRouter.Close, when the requests are over: every cached client is closed.
Close ==
    /\ left = 0 /\ \A c \in Callers : calls[c].pc = "idle"
    /\ \E k \in DOMAIN cache : cache[k] # 0
    /\ cache' = [k \in DOMAIN cache |-> 0]
    /\ clients' = [i \in DOMAIN clients |->
                     IF \E k \in DOMAIN cache : cache[k] = i THEN [clients[i] EXCEPT !.open = FALSE]
                     ELSE clients[i]]
    /\ UNCHANGED <<route, moves, plans, applies, pending, slot, lock, observer, calls, left, sent>>
-----------------------------------------------------------------------------
Step(c) ==
    \/ delegateApplyLock(c) \/ LookUp(c) \/ Build(c) \/ StoreClient(c) \/ Send(c) \/ CallFails(c) \/ NotAccepted(c)
Next ==
    \/ ConfigChanges \/ Close
    \/ \E c \in Callers :
         \/ Step(c)
         \/ \E p \in Plans : Plan(c, p) \/ Apply(c, p) \/ routeApply(c, p) \/ ResumeApplyOperation(c, p)
Spec == Init /\ [][Next]_vars
\* A request that was begun is carried to its end.
FairSpec == Spec /\ \A c \in Callers : WF_vars(Step(c))
-----------------------------------------------------------------------------
(* Properties.                                                             *)

\* An apply, and every later request about it, is carried out by the client of
\* the deployment and target its plan was made for, however the configuration
\* has changed since, and never by a client that is closed.
RouteKept ==
    /\ sent.op \in {"apply", "control", "resume"} => clients[sent.client].key = Key(plans[sent.plan])
    /\ \A c \in Callers : calls[c].pc = "send" => clients[calls[c].client].open

\* The requests that race to build a client for the same target end up sharing
\* one: a client that is open is the cached one or is still in its builder's
\* hands, so none is left open that nobody would close.
ClientsShared ==
    \A i \in 1..Len(clients) :
        clients[i].open => \/ cache[clients[i].key] = i
                           \/ \E c \in Callers : calls[c].pc = "store" /\ calls[c].client = i

\* An apply reports to the observer registered for its own plan or to none,
\* although the observer passes through a slot that all applies of the
\* deployment share and some of them fail.
ObserverMatches == \A p \in Plans : observer[p] \in {None, p}

\* Every request that was begun comes to an end: nobody waits for ever for the
\* lock of a deployment.
CallsEnd == \A c \in Callers : calls[c].pc # "idle" ~> calls[c].pc = "idle"
=============================================================================
