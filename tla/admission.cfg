\* Concurrent applies, repeated dispatches, stops, starts and cutovers against two operator drivers: no deployment gets two active applies, a dispatch creates one apply, and a stop that was reported done stays done.
SPECIFICATION Spec
CONSTANTS
  Drivers = {d1, d2}
  MaxAttempts = 1
  Scripts <- MCScripts
  OnFailure = "halt"
\* Once every call is answered and every apply has settled nothing is left to do.
CHECK_DEADLOCK FALSE
SYMMETRY Symmetry
INVARIANT OneActiveApply
INVARIANT DispatchedOnce
 
