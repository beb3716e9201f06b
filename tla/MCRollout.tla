----------------------------- MODULE MCRollout -----------------------------
(***************************************************************************)
(* Instances of Rollout for TLC: two operations on two deployments, or     *)
(* three on two or three.                                                  *)
(***************************************************************************)
EXTENDS Rollout, TLC

TwoDeployments   == <<"east", "west">>
SharedDeployment == <<"east", "east", "west">>

\* The drivers are interchangeable: no action or property names one.
DriverSymmetry == Permutations(Drivers)
============================================================================
