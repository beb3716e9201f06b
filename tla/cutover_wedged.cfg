\* A cutover that the data plane refused leaves the stored apply cutting_over, and every later cutover is answered as already in progress with nothing recorded.
SPECIFICATION FairSpec
CONSTANTS
  Parts = {"control"}
  Patience = {TRUE}
  Actors = {a, b}
  a = a
  b = b
  Tables = {t1, t2}
  t1 = t1
  t2 = t2
PROPERTY CutoverRecorded
