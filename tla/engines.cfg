\* The Spirit engine under stops, volume changes, deferred cutovers, failing statements and calls at any moment; and the quarantine of dropped tables under two cleaning instances, recoveries, failures and the loss of an instance; and the per-shard progress of a Vitess change beside other changes, with drives lost or displaced.
SPECIFICATION FairSpec
CONSTANTS
  Tables = {orders}
  Instances = {i1, i2}
  PoolTargets = {t1}
  MaxTries = 2
\* A change that is over, with every call of the scenario made, takes no further step.
CHECK_DEADLOCK FALSE
INVARIANT CompletedIsLive
INVARIANT StoppedIsQuiet
 
 
 
PROPERTY RowsKept
PROPERTY WorkEnds
