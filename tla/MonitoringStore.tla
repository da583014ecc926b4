--------------------------- MODULE MonitoringStore ---------------------------
(***************************************************************************)
(* The tables that health monitoring reads and writes, the advisory locks  *)
(* (70111, module) that order those writes, and the two ways a module's    *)
(* results change: an observation, and an invalidation.                    *)
(*                                                                         *)
(* A transaction takes effect when it commits, so what it writes is one    *)
(* step.  What it reads before (READ COMMITTED) is a step of its own.      *)
(***************************************************************************)
EXTENDS Naturals, Sequences

CONSTANTS
    Modules,       \* module ids, numbers: locks are taken in their order
    Hosts,         \* host ids
    Urls,          \* values of AgentBaseUrl
    Targets,       \* type and address of a module: all a check depends on
                   \* besides the host
    AgentTargets,  \* targets of type docker or systemd, checked by an agent
    Collectors,    \* workers that may run a check at one time
    Editors,       \* requests that change a host or a module
    Skew,          \* [Collectors \cup Editors -> Nat], how far the clock of the
                   \* replica that serves it is ahead
    States,        \* what a check can say: a state and its message
    Interval,      \* IntervalSeconds
    Stale,         \* StaleSeconds
    RetentionTime, \* RetentionDays
    None           \* no host, no row, no URL

Sessions == Collectors \cup Editors

ASSUME ModulesAssumption == Modules \subseteq Nat
ASSUME TargetsAssumption == AgentTargets \subseteq Targets
ASSUME SkewAssumption    == Skew \in [Sessions -> Nat]
ASSUME TimesAssumption   == /\ Interval \in Nat \ {0}
                            /\ Stale \in Nat \ {0}
                            /\ RetentionTime \in Nat
                            /\ Stale > Interval
ASSUME NoneAssumption    == None \notin Hosts \cup Urls
ASSUME SessionsAssumption == Collectors \cap Editors = {}

VARIABLES
    clock,         \* real time
    hosts,         \* the Hosts table
    modules,       \* the Modules table
    latest,        \* the LatestMonitoring table
    blocks,        \* the MonitoringBlocks table
    results,       \* the MonitoringResults table, in insertion order
    locks          \* advisory locks and the transaction holding each

storeVars == <<clock, hosts, modules, latest, blocks, results, locks>>

Life == {"absent", "live", "deleted"}

\* "vouched" is a ghost: the URL whose agent an edit has found healthy.
HostRow == [life : Life, url : Urls, enabled : BOOLEAN, version : Nat,
            vouched : Urls \cup {None}]

ModuleRow == [life : Life, host : Hosts \cup {None}, target : Targets,
              enabled : BOOLEAN, version : Nat, monitoringVersion : Nat]

\* What a check addresses: a target, through an agent if it needs one.
Subject == [target : Targets, url : Urls \cup {None}]

\* "seen" is a ghost: what the check that made the row addressed.
LatestRow == [at : Nat, freshUntil : Nat, version : Nat, state : States, seen : Subject]

Block == [start : Nat, end : Nat, state : States]

\* "version" is a ghost: the monitoring version the result was made under.
ResultRow == [at : Nat, freshUntil : Nat, state : States \cup {"Unknown"}, version : Nat]

ASSUME NoRowAssumption == None \notin LatestRow /\ None \notin Block

StoreTypeOK ==
    /\ clock \in Nat
    /\ hosts \in [Hosts -> HostRow]
    /\ modules \in [Modules -> ModuleRow]
    /\ latest \in [Modules -> LatestRow \cup {None}]
    /\ blocks \in [Modules -> SUBSET Block]
    /\ results \in [Modules -> Seq(ResultRow)]
    /\ locks \subseteq Modules \X Sessions

-----------------------------------------------------------------------------
(* Reading *)

Now(p) == clock + Skew[p]

\* Deletion also disables a host, so that a deleted one is never enabled.
Monitorable(m) ==
    /\ modules[m].life = "live"
    /\ modules[m].enabled
    /\ modules[m].host # None => /\ hosts[modules[m].host].life = "live"
                                 /\ hosts[modules[m].host].enabled

UsesAgent(m) == modules[m].target \in AgentTargets

Addressed(m) ==
    [target |-> modules[m].target,
     url |-> IF UsesAgent(m) /\ modules[m].host # None
             THEN hosts[modules[m].host].url ELSE None]

\* MonitoringConfigurationFingerprint.  Names and descriptions are no part of it.
Fingerprint(row) == [host |-> row.host, target |-> row.target, enabled |-> row.enabled]

\* No result, one of an older configuration, or one that is an interval old.
Due(m, now) ==
    latest[m] # None => \/ latest[m].version # modules[m].monitoringVersion
                        \/ latest[m].at + Interval <= now

-----------------------------------------------------------------------------
(* Locks *)

\* Fault: every session locks something of its own.
FreeAnyway(m) == m \in Modules

Free(m) == \A l \in locks : l[1] # m

Holds(p, m) == <<m, p>> \in locks

\* Transaction locks go with the transaction, committed or not.
Unlocked(p) == {l \in locks : l[2] # p}

-----------------------------------------------------------------------------
(* MonitoringBlockProjection *)

\* ORDER BY Start DESC: the newest block.  Two blocks with one start differ in
\* their ids, which are left out.
Newest(bs) == {b \in bs : \A o \in bs : o.start <= b.start}

Trim(bs, last, at) ==
    IF last = None \/ last.end <= at THEN bs
    ELSE (bs \ {last}) \cup (IF last.start >= at THEN {} ELSE {[last EXCEPT !.end = at]})

Extends(last, at, state) ==
    last.start <= at /\ last.end >= at /\ last.state = state

\* ObserveAsync.
Observe(bs, last, at, until, state) ==
    IF last # None /\ Extends(last, at, state)
    THEN (bs \ {last}) \cup {[last EXCEPT !.end = until]}
    ELSE Trim(bs, last, at) \cup {[start |-> at, end |-> until, state |-> state]}

\* Fault: blocks that begin later than the cut are deleted, the others kept.
CutLater(bs, at) == {b \in bs : b.start < at}

\* CutAsync: later blocks are deleted, the others end at the cut.
Cut(bs, at) ==
    {[b EXCEPT !.end = IF b.end > at THEN at ELSE b.end] : b \in {x \in bs : x.start < at}}

-----------------------------------------------------------------------------
(* MonitoringInvalidation *)

\* InvalidateAsync.
Invalidate(ms, at) ==
    /\ latest' = [m \in Modules |-> IF m \in ms THEN None ELSE latest[m]]
    /\ blocks' = [m \in Modules |-> IF m \in ms THEN Cut(blocks[m], at) ELSE blocks[m]]
    /\ results' = [m \in Modules |->
           IF m \in ms
           THEN Append(results[m], [at |-> at, freshUntil |-> at, state |-> "Unknown",
                                    version |-> modules'[m].monitoringVersion])
           ELSE results[m]]

\* The new monitoring versions of dependent modules.
Bumped(ms) ==
    [m \in Modules |-> IF m \in ms THEN [modules[m] EXCEPT !.monitoringVersion = @ + 1]
                                   ELSE modules[m]]
=============================================================================
