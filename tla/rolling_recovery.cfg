\* A rolling rollout of three operations on two deployments, with one fault, dispatches in order, and a terminal apply or completed operation is final.
SPECIFICATION Spec
CONSTANTS
  Ops = {1, 2, 3}
  Deployment <- SharedDeployment
  Drivers = {d1, d2}
  d1 = d1
  d2 = d2
  CutoverPolicy = "rolling"
  OnFailure = "continue"
  StoppedState = "stopped"
  MaxRecoveryAttempts = 1
  MaxFaults = 1
  StopAllowed = FALSE
\* A rollout that has ended takes no further step.
CHECK_DEADLOCK FALSE
SYMMETRY DriverSymmetry
INVARIANT RollingOrder
PROPERTY TerminalFinal
