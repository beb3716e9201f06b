\* Stop, start and cutover of a remote apply race its drive and its data plane; readers write tasks; a secondary checks a reviewed plan; pods ensure the storage schema.
SPECIFICATION FairSpec
CONSTANTS
  Parts = {"control", "view", "review", "schema"}
  Patience = {TRUE}
  Actors = {a, b}
  a = a
  b = b
  Tables = {t1, t2}
  t1 = t1
  t2 = t2
INVARIANT EndIsTrue
INVARIANT CompletedIsDesired
INVARIANT ServingIsCurrent
PROPERTY WorkEnds
 
