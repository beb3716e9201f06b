\* One apply on a data plane, in order or with a deferred cutover, with a stop, a start, cutovers and one fault: it implements DataPlane, runs nothing twice, swaps nothing early, stops for good and starts again.
SPECIFICATION FairSpec
CONSTANTS
  N = 2
  Drivers = {d1, d2}
  Plans <- MCPlans
  MaxAttempts = 1
  Faults = {"crash", "conflict", "cutover_error", "apply_error", "timeout"}
  MaxFaults = 1
  MaxAsks = 1
\* An apply that has settled, or waits for its operator, takes no further step.
CHECK_DEADLOCK FALSE
INVARIANT StoppedIsQuiet
PROPERTY ChangedOnceInTime
 
 
