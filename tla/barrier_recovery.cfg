\* A barrier rollout with one crash, stall or failed call keeps the order of its swaps, never overlaps two, and parks only what has been copied.
SPECIFICATION Spec
CONSTANTS
  Ops = {1, 2}
  Deployment <- TwoDeployments
  Drivers = {d1, d2}
  d1 = d1
  d2 = d2
  CutoverPolicy = "barrier"
  OnFailure = "halt"
  StoppedState = "stopped"
  MaxRecoveryAttempts = 1
  MaxFaults = 1
  StopAllowed = FALSE
\* A rollout that has ended takes no further step.
CHECK_DEADLOCK FALSE
SYMMETRY DriverSymmetry
INVARIANT TypeOK
INVARIANT CutoverOrder
INVARIANT SwapsNeverOverlap
INVARIANT ParkedIsReady
