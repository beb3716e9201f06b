\* A Vitess apply with two tables and a VSchema through branch, deploy request, cutover and revert window, against the four unsynchronised writers of the server, with crashes, failures, stops, cutovers, reverts and deadlines anywhere.
SPECIFICATION FairSpec
CONSTANTS
  Ddl = {a, b}
  VSchema = {v}
  Stale = {x}
  MaxRequests = 3
  Scripts <- MCScripts
\* An apply that ended, or that waits for an operator, has nothing left to do.
CHECK_DEADLOCK FALSE
 
INVARIANT OpenRequestIsSaved
PROPERTY Settles
