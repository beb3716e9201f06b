--------------------------- MODULE MCPlanetScale ---------------------------
(***************************************************************************)
(* Instances of PlanetScaleDrive.                                          *)
(***************************************************************************)
EXTENDS PlanetScaleDrive

Script(ops, crash, fail) ==
  [deferDeploy |-> FALSE, deferCutover |-> FALSE, skipRevert |-> FALSE,
   eligible |-> FALSE, reuse |-> FALSE, ops |-> ops, crash |-> crash, fail |-> fail]

\* A crash and a failure; a stop around a crash.
Plain == {Script({}, 1, 1), [Script({}, 2, 0) EXCEPT !.reuse = TRUE], [Script({"stop"}, 1, 0) EXCEPT !.skipRevert = TRUE]}
\* The revert window: an operator's revert or skip against the deadlines.
Window == {Script({"revert", "skip"}, 0, 0), Script({"revert", "deadline"}, 1, 0)}
\* Instant changes, and cutovers and deploys that wait for the operator.
Instant == {[Script({"stop"}, 1, 0) EXCEPT !.eligible = TRUE]}
Cutover == {[s EXCEPT !.deferCutover = TRUE] :
              s \in {Script({"cutover"}, 2, 0), Script({"cutover", "stop", "timeout"}, 0, 0)}}
Deploy == {[s EXCEPT !.deferDeploy = TRUE] :
              s \in {Script({"deploy"}, 1, 0), Script({"deploy", "timeout", "stop"}, 0, 0)}}

MCScripts == Plain \cup Window \cup Instant \cup Cutover \cup Deploy
=============================================================================
