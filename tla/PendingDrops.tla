---------------------------- MODULE PendingDrops ----------------------------
(***************************************************************************)
(* The pending drops quarantine (pkg/pendingdrops): a DROP TABLE renames   *)
(* the table into the _pending_drops database under a timestamp, and the   *)
(* cleaners of the SchemaBot instances drop it for good after the          *)
(* retention period.  Several instances clean the same server, each pass   *)
(* under an advisory lock per target; operators rename tables back.        *)
(* Time is a counter; a table's rows are told apart by an incarnation.     *)
(***************************************************************************)
EXTENDS Naturals, FiniteSets

CONSTANTS Tables,      \* table names of the application
          Instances,   \* SchemaBot instances that clean
          Targets,     \* configured targets of the one MySQL server
          Retention,   \* retention period, in ticks
          MaxTime, MaxRows, MaxFault

VARIABLES now,         \* the clock
          live,        \* table -> incarnation number of its rows, 0 = no table
          next,        \* next incarnation
          pending,     \* _pending_drops: [ts, table, rows, named]
          passes,      \* instance -> its cleanup pass
          lock,        \* target -> instance holding the advisory lock, or none
          faults       \* crashes and failing statements so far
vars == <<now, live, next, pending, passes, lock, faults>>

None == "none"
\* The name of a table in _pending_drops: ts is its prefix, the time at which it
\* was moved; named is FALSE for a name without a valid prefix.
Name(q) == <<q.named, q.ts, q.table>>
NoPass == [pc |-> "off", todo |-> {}, target |-> None, listed |-> {}, cutoff |-> 0]

Init ==
    /\ now = 0
    /\ live \in [Tables -> {1}]
    /\ next = 2
    \* A table an operator put there by hand carries no timestamp.
    /\ pending \in {{}, {[ts |-> 0, table |-> t, rows |-> 1, named |-> FALSE] : t \in Tables}}
    /\ passes = [i \in Instances |-> NoPass]
    /\ lock = [t \in Targets |-> None]
    /\ faults = 0

Tick ==
    /\ now < MaxTime
    /\ now' = now + 1
    /\ UNCHANGED <<live, next, pending, passes, lock, faults>>

\* quarantineDestinations and TableName: the destination of each moved table.
quarantineDestinations(tables) ==
    {[ts |-> now, table |-> t, rows |-> live[t], named |-> TRUE] : t \in tables}

\* MoveTables: one RENAME TABLE moves all or, when a name is taken, none.
MoveTables(tables) ==
    LET moved == quarantineDestinations(tables)
    IN  /\ \A q \in moved : Name(q) \notin {Name(p) : p \in pending}
        /\ live' = [t \in Tables |-> IF t \in tables THEN 0 ELSE live[t]]
        /\ pending' = pending \cup moved

\* quarantineDroppedTables: IF EXISTS skips missing tables, without it a missing
\* table fails the statement.
quarantineDroppedTables(tables, ifExists) ==
    LET found == {t \in tables : live[t] # 0}
    IN  /\ found # {} /\ (~ifExists => found = tables)
        /\ MoveTables(found)
        /\ UNCHANGED <<now, next, passes, lock, faults>>

\* A later change creates the table again, with rows of its own.
Recreate(t) ==
    /\ live[t] = 0 /\ next <= MaxRows
    /\ live' = [live EXCEPT ![t] = next]
    /\ next' = next + 1
    /\ UNCHANGED <<now, pending, passes, lock, faults>>

\* An operator renames a quarantined table back.
Recover(q) ==
    /\ q \in pending /\ live[q.table] = 0
    /\ live' = [live EXCEPT ![q.table] = q.rows]
    /\ pending' = pending \ {q}
    /\ UNCHANGED <<now, next, passes, lock, faults>>
-----------------------------------------------------------------------------
(* A cleaner pass.                                                         *)

\* pendingDropsCleanerLoop and runPendingDropsCleanupPass: the targets whose DSN
\* resolves.
StartPass(i) ==
    /\ passes[i].pc = "off"
    /\ \E ts \in SUBSET Targets :
         /\ ts # {}
         /\ Cardinality(Targets \ ts) + faults <= MaxFault
         /\ faults' = faults + Cardinality(Targets \ ts)
         /\ passes' = [passes EXCEPT ![i] = [NoPass EXCEPT !.pc = "lock", !.todo = ts]]
    /\ UNCHANGED <<now, live, next, pending, lock>>

\* cleanTarget: GET_LOCK with no wait; a target locked elsewhere is skipped.
TakeLock(i, t) ==
    /\ passes[i].pc = "lock" /\ t \in passes[i].todo
    /\ IF lock[t] = None
       THEN /\ lock' = [lock EXCEPT ![t] = i]
            /\ passes' = [passes EXCEPT ![i].pc = "list", ![i].target = t, ![i].todo = @ \ {t}]
       ELSE /\ passes' = [passes EXCEPT ![i].todo = @ \ {t}]
            /\ UNCHANGED lock
    /\ UNCHANGED <<now, live, next, pending, faults>>

\* As expired, but a table exactly at the cutoff counts as old.
KeptTooShort(q, cutoff) == q.named /\ q.ts <= cutoff
\* ParseTimestamp and Before(cutoff); cutoff is now - Retention at the listing.
expired(q, cutoff) == q.named /\ q.ts < cutoff

\* pendingDropsDatabaseExists and listPendingDropTables, then the cutoff.
ListTables(i) ==
    /\ passes[i].pc = "list"
    /\ passes' = [passes EXCEPT ![i].pc = "drop", ![i].listed = pending,
                      ![i].cutoff = IF now < Retention THEN 0 ELSE now - Retention]
    /\ UNCHANGED <<now, live, next, pending, lock, faults>>

\* One table of the loop: kept, skipped, or dropped by name, IF EXISTS; a drop
\* that fails leaves it for the next pass.
DropExpired(i, q) ==
    /\ passes[i].pc = "drop" /\ q \in passes[i].listed
    /\ passes' = [passes EXCEPT ![i].listed = @ \ {q}]
    /\ \/ /\ expired(q, passes[i].cutoff)
          /\ pending' = {p \in pending : Name(p) # Name(q)}
          /\ UNCHANGED faults
       \/ /\ expired(q, passes[i].cutoff) => faults < MaxFault
          /\ faults' = IF expired(q, passes[i].cutoff) THEN faults + 1 ELSE faults
          /\ UNCHANGED pending
    /\ UNCHANGED <<now, live, next, lock>>

\* The deferred RELEASE_LOCK, and the next target of the pass.
ReleaseLock(i) ==
    /\ passes[i].pc = "drop" /\ passes[i].listed = {}
    /\ lock' = [lock EXCEPT ![passes[i].target] = None]
    /\ passes' = [passes EXCEPT ![i].pc = "lock", ![i].target = None]
    /\ UNCHANGED <<now, live, next, pending, faults>>

\* Run has gone through its targets; the loop waits for the next tick.
EndPass(i) ==
    /\ passes[i].pc = "lock" /\ passes[i].todo = {}
    /\ passes' = [passes EXCEPT ![i] = NoPass]
    /\ UNCHANGED <<now, live, next, pending, lock, faults>>

\* StopPendingDropsCleaner's cancel, or a crash: the session closes, and with
\* it goes the advisory lock.
StopCleaner(i) ==
    /\ passes[i].pc # "off" /\ faults < MaxFault
    /\ faults' = faults + 1
    /\ passes' = [passes EXCEPT ![i] = NoPass]
    /\ lock' = [t \in Targets |-> IF lock[t] = i THEN None ELSE lock[t]]
    /\ UNCHANGED <<now, live, next, pending>>
-----------------------------------------------------------------------------
CleanerStep(i) ==
    \/ \E t \in Targets : TakeLock(i, t)
    \/ ListTables(i)
    \/ \E q \in passes[i].listed : DropExpired(i, q)
    \/ ReleaseLock(i)
    \/ EndPass(i)
Cleaner(i) == StartPass(i) \/ CleanerStep(i)
Next ==
    \/ Tick
    \/ \E ts \in SUBSET Tables \ {{}}, ie \in BOOLEAN : quarantineDroppedTables(ts, ie)
    \/ \E t \in Tables : Recreate(t)
    \/ \E q \in pending : Recover(q)
    \/ \E i \in Instances : Cleaner(i) \/ StopCleaner(i)
Spec == Init /\ [][Next]_vars
\* Passes come on a ticker and time passes; operators and changes owe nothing.
FairSpec == Spec /\ WF_vars(Tick) /\ \A i \in Instances : WF_vars(Cleaner(i))
-----------------------------------------------------------------------------
(* Properties.                                                             *)

\* The rows of a table leave the server only after a full retention period in
\* quarantine under a name with a valid timestamp: whatever the cleaners, the
\* recoveries and the re-drops interleave, a stale listing drops nothing young.
\* A table that a change dropped is never gone at once: its rows are in
\* quarantine under a name that tells when the table was dropped.
RowsKept ==
    [][/\ \A q \in pending :
            q \notin pending' /\ (live'[q.table] # q.rows)
              => q.named /\ now > q.ts + Retention
       /\ \A t \in Tables :
            live[t] # 0 /\ live'[t] = 0
              => \E q \in pending' : q.table = t /\ q.rows = live[t] /\ q.named /\ q.ts = now]_vars

\* An expired table does not stay for ever: skipped locks, failed drops and
\* crashed instances only defer it to a later pass.
ExpiredGoes ==
    (now = MaxTime) ~> ~\E q \in pending : q.named /\ now > q.ts + Retention
=============================================================================
