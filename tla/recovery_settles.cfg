\* With a single driver every operation settles in spite of a crash, a stall or a failed call.
SPECIFICATION FairSpec
CONSTANTS
  Ops = {1, 2}
  Deployment <- TwoDeployments
  Drivers = {d1}
  d1 = d1
  CutoverPolicy = "rolling"
  OnFailure = "continue"
  StoppedState = "stopped"
  MaxRecoveryAttempts = 1
  MaxFaults = 1
  StopAllowed = FALSE
\* A rollout that has ended takes no further step.
CHECK_DEADLOCK FALSE
PROPERTY OperationsSettle
