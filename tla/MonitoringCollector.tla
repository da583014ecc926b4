------------------------ MODULE MonitoringCollector ------------------------
(***************************************************************************)
(* MonitoringCollector, run by the MonitoringWorker of every replica.  A   *)
(* check holds the module's lock and its transaction from the first read   *)
(* to the commit, while it waits for the module to answer.                 *)
(***************************************************************************)
EXTENDS MonitoringStore, Selections

CONSTANT MaxClock      \* bound: real time stops here

VARIABLE job           \* [Collectors -> the check under way, or None]

\* A check under way: what was read when it started.
Check == [module : Modules, version : Nat, seen : Subject]

ASSUME NoCheckAssumption == None \notin Check

CollectorTypeOK == job \in [Collectors -> Check \cup {None}]

\* The scan of the worker lists due modules; CollectAsync asks again once it
\* has the lock, so that the list is only a hint.  Every way it has of
\* returning early leaves nothing behind.
CollectStart(c, m) ==
    /\ job[c] = None
    /\ Free(m)
    /\ Monitorable(m)
    /\ Due(m, Now(c))
    /\ locks' = locks \cup {<<m, c>>}
    /\ job' = [job EXCEPT ![c] =
           [module |-> m, version |-> modules[m].monitoringVersion, seen |-> Addressed(m)]]
    /\ UNCHANGED <<clock, hosts, modules, latest, blocks, results>>

\* A refused, failed or timed out check is an observation as well.
CollectCommit(c) ==
    /\ job[c] # None
    /\ LET m == job[c].module
           at == Now(c)
       IN \E state \in States :
             /\ latest' = [latest EXCEPT ![m] =
                    [at |-> at, freshUntil |-> at + Stale, version |-> job[c].version,
                     state |-> state, seen |-> job[c].seen]]
             /\ results' = [results EXCEPT ![m] = Append(@,
                    [at |-> at, freshUntil |-> at + Stale, state |-> state,
                     version |-> job[c].version])]
             /\ \E last \in IF blocks[m] = {} THEN {None} ELSE Newest(blocks[m]) :
                    blocks' = [blocks EXCEPT ![m] = Observe(@, last, at, at + Stale, state)]
    /\ locks' = Unlocked(c)
    /\ job' = [job EXCEPT ![c] = None]
    /\ UNCHANGED <<clock, hosts, modules>>

\* Fault: a check that a shutdown cut short is an observation, too.
CollectStopsObserved(c) ==
    /\ job[c] # None
    /\ latest' = [latest EXCEPT ![job[c].module] =
           [at |-> Now(c), freshUntil |-> Now(c) + Stale, version |-> job[c].version,
            state |-> "Unknown", seen |-> job[c].seen]]
    /\ locks' = Unlocked(c)
    /\ job' = [job EXCEPT ![c] = None]
    /\ UNCHANGED <<clock, hosts, modules, blocks, results>>

\* Fault: the lock belongs to the pooled connection, not to the transaction.
CollectStopsLocked(c) ==
    /\ job[c] # None
    /\ job' = [job EXCEPT ![c] = None]
    /\ UNCHANGED storeVars

\* Shutdown, a crash, or an error of the database: the transaction rolls back.
CollectStops(c) ==
    /\ job[c] # None
    /\ locks' = Unlocked(c)
    /\ job' = [job EXCEPT ![c] = None]
    /\ UNCHANGED <<clock, hosts, modules, latest, blocks, results>>

\* DELETE ... WHERE "End" < cutoff keeps the others.
Retained(bs, cutoff) == {b \in bs : b.end >= cutoff}

\* DELETE ... WHERE "CheckedAt" < cutoff: the rows that stay, in their order.
Recent(rows, cutoff) == Picked(rows, {i \in DOMAIN rows : rows[i].at >= cutoff})

\* Results are deleted first; the second step may never come.
RetainAll(c) ==
    /\ Now(c) >= RetentionTime
    /\ LET cutoff == Now(c) - RetentionTime
       IN /\ results' = [m \in Modules |-> Recent(results[m], cutoff)]
          /\ \/ blocks' = [m \in Modules |-> Retained(blocks[m], cutoff)]
             \/ UNCHANGED blocks
    /\ UNCHANGED <<clock, hosts, modules, latest, locks, job>>

Tick ==
    /\ clock < MaxClock
    /\ clock' = clock + 1
    /\ UNCHANGED <<hosts, modules, latest, blocks, results, locks, job>>

CollectorNext ==
    \E c \in Collectors :
        \/ \E m \in Modules : CollectStart(c, m)
        \/ CollectCommit(c)
        \/ CollectStops(c)
        \/ RetainAll(c)
=============================================================================
