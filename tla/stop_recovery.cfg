\* A stop that leaves applies cancelled, as on Vitess, races the drives and one crash, stall or failed call.
SPECIFICATION Spec
CONSTANTS
  Ops = {1, 2}
  Deployment <- TwoDeployments
  Drivers = {d1, d2}
  d1 = d1
  d2 = d2
  CutoverPolicy = "rolling"
  OnFailure = "halt"
  StoppedState = "cancelled"
  MaxRecoveryAttempts = 1
  MaxFaults = 1
  StopAllowed = TRUE
\* A rollout that has ended takes no further step.
CHECK_DEADLOCK FALSE
SYMMETRY DriverSymmetry
INVARIANT CompletedIsReal
INVARIANT SummaryOnce
INVARIANT StopCompletedTerminal
