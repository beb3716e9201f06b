\* Pushes, commands and closes of one or two pull requests, one or two databases and environments, in every interleaving of their goroutines and of the applies they queue, with a goroutine that dies: applies run what was shown, rows of running applies do not pass, and an undisturbed plan repairs what earlier races left.
SPECIFICATION Spec
CONSTANTS
  Scripts <- MCScripts
\* Once every delivery is handled and every apply has ended nothing is left to do.
CHECK_DEADLOCK FALSE
INVARIANT PassingApplyCompleted
 
INVARIANT PlanRepairs
PROPERTY OwnedNeverPasses
