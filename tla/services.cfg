\* The comments of an apply under resumes, expired leases, crashes, refused calls and a watching replica; the five gates of a command on all their small questions; and the routing of concurrent requests while the configuration changes.
SPECIFICATION FairSpec
CONSTANTS
  Drivers = {d1, d2}
  Watcher = w
  Callers = {c1, c2}
  Plans = {p1, p2}
  Deployments = {east, west}
  Targets = {t1}
\* An apply that is over, a gate that has answered and a service without requests take no further step.
CHECK_DEADLOCK FALSE
INVARIANT CommentsOnce
 
 
 
