---------------------------- MODULE MCAdmission ----------------------------
(***************************************************************************)
(* Instances of Admission.                                                 *)
(***************************************************************************)
EXTENDS Admission, TLC

Make(op, want, key) == [op |-> op, want |-> want, key |-> key]
Control(op) == Make(op, <<>>, "")
Script(calls, deferred, remote, n) ==
  [calls |-> calls, deferred |-> deferred, remote |-> remote, faults |-> n]

\* Two applies of the API that share a deployment, one stop and one start.
Deployments ==
  Script([c1 |-> Make("apply", <<"x", "y">>, ""),
          c2 |-> Make("apply", <<"y">>, ""),
          c3 |-> Control("stop"), c4 |-> Control("start")], FALSE, TRUE, 0)

\* The same of one deployment each.
StopAndStart ==
  Script([c1 |-> Make("apply", <<"y">>, ""), c2 |-> Make("apply", <<"y">>, ""),
          c3 |-> Control("stop"), c4 |-> Control("start")], FALSE, TRUE, 0)

\* A dispatch delivered twice, a second one, and a cutover.
Deliveries ==
  Script([c1 |-> Make("dispatch", <<"y">>, "k"),
          c2 |-> Make("dispatch", <<"y">>, "k"),
          c3 |-> Make("dispatch", <<"y">>, "l"),
          c4 |-> Control("cutover")], TRUE, FALSE, 0)

\* A driver or an engine fails once.
Failing ==
  Script([c1 |-> Make("apply", <<"y">>, ""), c2 |-> Make("apply", <<"y">>, ""),
          c3 |-> Control("stop")], FALSE, FALSE, 1)

FailingRollout ==
  Script([c1 |-> Make("apply", <<"x", "y">>, ""),
          c2 |-> Make("apply", <<"y">>, "")], FALSE, FALSE, 1)

MCScripts == {Deployments, StopAndStart, Deliveries, Failing, FailingRollout}

Symmetry == Permutations(Drivers)
============================================================================
