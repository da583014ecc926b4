--------------------------- MODULE DashboardRefresh ---------------------------
(***************************************************************************)
(* The script that keeps the tiles of the dashboard up to date             *)
(* (dashboard-refresh.js).  What the server observes is numbered; an       *)
(* answer tells of all modules it lists, and is of the moment the server   *)
(* reads its tables, some time before the page receives it.                *)
(***************************************************************************)
EXTENDS Naturals

CONSTANTS
    Cards,            \* modules with a tile on the page
    Newcomers,        \* modules that are added after the page was loaded
    MaxObservations,  \* bound on what the server observes
    MaxFailedCalls    \* bound on requests that fail or take 10 seconds

ASSUME RefreshBoundsAssumption == MaxObservations \in Nat /\ MaxFailedCalls \in Nat

\* Requests under way at once; the script itself never has two.
Slots == 1 .. 2

VARIABLES
    server,     \* the latest observation and the modules listed
    behind,     \* document.hidden
    active,     \* the flag of the script
    calls,      \* slot -> nothing, a request, or the answer under way
    tiles,      \* the observation the page shows, and the tiles not hidden
    feedback,   \* what dashboard-refresh-status says
    failed      \* requests that failed

refreshVars == <<server, behind, active, calls, tiles, feedback, failed>>

NoCall == [stage |-> "none", at |-> 0, listed |-> {}]
Sent == [NoCall EXCEPT !.stage = "sent"]

\* The script starts with a refresh, of the page as it was rendered, unless the
\* page is loaded in the background.
RefreshInit ==
    /\ server = [at |-> 0, listed |-> Cards]
    /\ behind \in BOOLEAN
    /\ active = ~behind
    /\ calls = [s \in Slots |-> IF s = 1 /\ active THEN Sent ELSE NoCall]
    /\ tiles = [at |-> 0, shown |-> Cards]
    /\ feedback = ""
    /\ failed = 0

ServerObserves ==
    /\ server.at < MaxObservations
    /\ \E listed \in SUBSET (Cards \cup Newcomers) :
           server' = [at |-> server.at + 1, listed |-> listed]
    /\ UNCHANGED <<behind, active, calls, tiles, feedback, failed>>

\* Fault: a refresh starts also while another is under way.
RefreshAnyway ==
    IF \A s \in Slots : calls[s] # NoCall THEN UNCHANGED <<active, calls>>
    ELSE \E s \in Slots :
             /\ calls[s] = NoCall /\ \A r \in Slots : r < s => calls[r] # NoCall
             /\ active' = TRUE
             /\ calls' = [calls EXCEPT ![s] = Sent]

\* refresh() up to its first await: nothing while one is active.
Refresh ==
    IF active THEN UNCHANGED <<active, calls>>
    ELSE \E s \in Slots :
             /\ calls[s] = NoCall /\ \A r \in Slots : r < s => calls[r] # NoCall
             /\ active' = TRUE
             /\ calls' = [calls EXCEPT ![s] = Sent]

\* Every 15 seconds.
RefreshTimer ==
    /\ ~behind
    /\ Refresh
    /\ UNCHANGED <<server, behind, tiles, feedback, failed>>

\* visibilitychange
TabChanges ==
    /\ behind' = ~behind
    /\ IF behind' THEN UNCHANGED <<active, calls>> ELSE Refresh
    /\ UNCHANGED <<server, tiles, feedback, failed>>

ServerAnswers(s) ==
    /\ calls[s].stage = "sent"
    /\ calls' = [calls EXCEPT ![s] = [stage |-> "answered", at |-> server.at, listed |-> server.listed]]
    /\ UNCHANGED <<server, behind, active, tiles, feedback, failed>>

\* The answer is put on the page: tiles of modules it does not list are hidden.
RefreshSucceeds(s) ==
    /\ calls[s].stage = "answered"
    /\ tiles' = [at |-> calls[s].at, shown |-> calls[s].listed \cap Cards]
    /\ feedback' = IF calls[s].listed \subseteq Cards THEN "" ELSE "reload"
    /\ active' = FALSE
    /\ calls' = [calls EXCEPT ![s] = NoCall]
    /\ UNCHANGED <<server, behind, failed>>

\* Fault: the flag is reset only after a success.
RefreshFailsActive(s) ==
    /\ calls[s] # NoCall
    /\ failed < MaxFailedCalls
    /\ failed' = failed + 1
    /\ feedback' = "stale"
    /\ calls' = [calls EXCEPT ![s] = NoCall]
    /\ UNCHANGED <<server, behind, active, tiles>>

\* An error, an unreadable answer, or 10 seconds without one.
RefreshFails(s) ==
    /\ calls[s] # NoCall
    /\ failed < MaxFailedCalls
    /\ failed' = failed + 1
    /\ feedback' = "stale"
    /\ active' = FALSE
    /\ calls' = [calls EXCEPT ![s] = NoCall]
    /\ UNCHANGED <<server, behind, tiles>>

RefreshNext ==
    \/ ServerObserves \/ RefreshTimer \/ TabChanges
    \/ \E s \in Slots : ServerAnswers(s) \/ RefreshSucceeds(s) \/ RefreshFails(s)

RefreshTypeOK ==
    /\ server \in [at : 0 .. MaxObservations, listed : SUBSET (Cards \cup Newcomers)]
    /\ behind \in BOOLEAN /\ active \in BOOLEAN
    /\ calls \in [Slots -> [stage : {"none", "sent", "answered"}, at : 0 .. MaxObservations,
                            listed : SUBSET (Cards \cup Newcomers)]]
    /\ tiles \in [at : 0 .. MaxObservations, shown : SUBSET Cards]
    /\ feedback \in {"", "reload", "stale"}
    /\ failed \in 0 .. MaxFailedCalls

\* The page never goes back to an older observation, whenever its timer, the
\* tab and the answers come: an answer overtaken by a later one is not shown.
PageNeverGoesBack == [][tiles'.at >= tiles.at]_refreshVars

\* A page that is looked at again and again shows each observation or a later
\* one in the end, however its requests failed before: "Hidden tabs pause
\* requests" (deploy/ui/README.md), and resume them.
ObservationsReachThePage ==
    []<>(~behind) => \A n \in 1 .. MaxObservations : (server.at >= n) ~> (tiles.at >= n)
=============================================================================
