----------------------------- MODULE DataPlane -----------------------------
(***************************************************************************)
(* What a data plane promises about one apply, seen by whoever polls its   *)
(* progress: the reported state, the tables whose change is live, and the  *)
(* operator requests that are pending.  The control plane drives its       *)
(* remotes on the strength of these transitions and of nothing else.       *)
(***************************************************************************)
EXTENDS ApplyStates

CONSTANTS Tables    \* the tables of the apply

VARIABLES reported, \* the state the apply row reports, "absent" before Apply
          live,     \* the tables whose change has reached the schema
          asked,    \* the operator requests that are pending
          intact    \* the environment has kept to what the promise assumes

vars == <<reported, live, asked, intact>>

Active(s) == s \in ApplyState /\ ~IsTerminal(s)

Init == reported = "absent" /\ live = {} /\ asked = {}
        /\ intact = TRUE

\* A new apply is accepted.
Accept == reported = "absent" /\ reported' = "pending"

\* An apply in progress moves to another phase, or is paused for a retry.
Advance == Active(reported) /\ Active(reported')

\* An apply is completed only when every table has its new schema.
Complete == /\ Active(reported) /\ reported' = "completed"
            /\ live = Tables

Fail == Active(reported) /\ reported' = "failed"

\* Only an operator stops an apply, and only an operator starts it again.
Stop  == Active(reported) /\ reported' = "stopped" /\ "stop" \in asked
Start == reported = "stopped" /\ Active(reported') /\ "start" \in asked

\* One step: at most one change of the reported state, while the engine may
\* bring further tables live and requests come and go.  No change is undone.
\* The promise ends with the first fault it does not tolerate.
Next ==
  /\ intact' => intact
  /\ live \subseteq live' /\ live' \subseteq Tables
  /\ asked' \subseteq {"stop", "start", "cutover"}
  /\ intact' => \/ reported' = reported
                \/ Accept \/ Advance \/ Complete \/ Fail \/ Stop \/ Start

Spec == Init /\ [][Next]_vars
============================================================================
