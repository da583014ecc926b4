-------------------------- MODULE MonitoringSystem --------------------------
(***************************************************************************)
(* Monitoring of modules while users edit them and their hosts.            *)
(***************************************************************************)
EXTENDS MonitoringCollector, InventoryEdits

CONSTANTS
    InitHosts,     \* possible contents of the Hosts table at the start
    InitModules    \* possible contents of the Modules table at the start

ASSUME InitHostsAssumption ==
    \A hs \in InitHosts :
        /\ hs \in [Hosts -> HostRow]
        /\ \A h \in Hosts : hs[h].enabled => hs[h].life = "live" /\ hs[h].vouched = hs[h].url

ASSUME InitModulesAssumption ==
    \A ms \in InitModules :
        /\ ms \in [Modules -> ModuleRow]
        /\ \A m \in Modules : ms[m].enabled => ms[m].life = "live"

vars == <<storeVars, job, edit>>

Init ==
    /\ clock = 0
    /\ hosts \in InitHosts
    /\ modules \in InitModules
    /\ latest = [m \in Modules |-> None]
    /\ blocks = [m \in Modules |-> {}]
    /\ results = [m \in Modules |-> <<>>]
    /\ locks = {}
    /\ job = [c \in Collectors |-> None]
    /\ edit = [e \in Editors |-> Idle]

Next ==
    \/ CollectorNext /\ UNCHANGED edit
    \/ Tick /\ UNCHANGED edit
    \/ EditNext /\ UNCHANGED job

Spec == Init /\ [][Next]_vars

\* The worker scans every second, checks in parallel, and goes on after a
\* failure; not every check is cut short.  An editor's awaits end, and
\* PostgreSQL grants a lock in the order of the requests, so that a waiting
\* edit is not overtaken for ever by checks of the same module.
Fairness ==
    /\ WF_vars(Tick /\ UNCHANGED edit)
    /\ \A m \in Modules :
          SF_vars((\E c \in Collectors : CollectStart(c, m)) /\ UNCHANGED edit)
    /\ \A c \in Collectors : SF_vars(CollectCommit(c) /\ UNCHANGED edit)
    /\ \A e \in Editors : SF_vars(Advances(e) /\ UNCHANGED job)

FairSpec == Spec /\ Fairness

-----------------------------------------------------------------------------
(* Properties *)

TypeOK == StoreTypeOK /\ CollectorTypeOK /\ EditTypeOK

\* The latest result tells of the target and agent the module has now.
\* deploy/ui/README.md: "Configuration changes invalidate current results
\* immediately."
LatestIsCurrent ==
    \A m \in Modules : latest[m] # None /\ Monitorable(m) => latest[m].seen = Addressed(m)

\* One module is not checked twice in one interval, however many replicas run
\* and however their clocks differ.  deploy/ui/README.md: "replicas cannot
\* produce duplicate concurrent results".
ResultsAreSpaced ==
    \A m \in Modules : \A i, j \in DOMAIN results[m] :
        LET a == results[m][i]
            b == results[m][j]
        IN (i < j /\ a.version = b.version /\ a.state # "Unknown" /\ b.state # "Unknown")
               => a.at + Interval <= b.at

\* The last result at or before t, if it was still fresh, as a set of states.
Observed(m, t) ==
    LET before == {i \in DOMAIN results[m] : results[m][i].at <= t}
        last == {i \in before : \A j \in before : j <= i}
    IN {results[m][i].state : i \in {k \in last : t < results[m][k].freshUntil}}

Shown(m, t) == {b.state : b \in {x \in blocks[m] : x.start <= t /\ t < x.end}}

\* The blocks, which are updated in place, say of every moment what a replay
\* of the retained results says: no outage is invented, lost, or prolonged
\* over an edit, and no moment shows two states.
ProjectionIsExact ==
    \A m \in Modules : results[m] # <<>> =>
        \A t \in results[m][1].at .. MaxClock + Stale : Shown(m, t) = Observed(m, t)

\* An enabled host has an agent that was found healthy at the URL it has now,
\* though it was asked before the transaction, about a row read earlier still.
EnabledIsVouched ==
    \A h \in Hosts : hosts[h].enabled => hosts[h].vouched = hosts[h].url

Shows(e) ==
    CASE edit[e].kind = "editHost"   -> [url |-> hosts[edit[e].host].url,
                                         enabled |-> hosts[edit[e].host].enabled]
      [] edit[e].kind = "editModule" -> Fingerprint(modules[edit[e].module])
      [] OTHER                       -> None

\* Whoever saves an edit of a host or a module has seen what it replaces.
NothingUnseenIsReplaced ==
    [][\A e \in Editors : edit[e].pc # "saved" /\ edit'[e].pc = "saved" => edit[e].saw = Shows(e)]_vars

\* Edits that lock several modules, and checks of them, never wait in a circle.
EditsEnd == \A e \in Editors : edit[e].pc \notin Ended ~> edit[e].pc \in Ended

\* A module that can be checked is, again and again.
DueIsCollected == \A m \in Modules : []<>(~Monitorable(m) \/ ~Due(m, clock))
=============================================================================
