------------------------ MODULE MonitoringInvariant ------------------------
(***************************************************************************)
(* Why the promises of MonitoringSystem hold, in four parts that build on  *)
(* each other: what an edit has seen of the row it changes, who holds a    *)
(* module while it is checked or edited, which results a configuration has *)
(* had, and how the blocks follow from the results.                        *)
(***************************************************************************)
EXTENDS MonitoringSystem

-----------------------------------------------------------------------------
(* Edits *)

\* Where an edit waits, by what it does.
Waits(x) ==
    \/ x.kind = "none" /\ x.pc = "idle"
    \/ x.kind # "none" /\ x.pc \in {"saved", "refused"}
    \/ x.kind = "addHost" /\ x.pc \in {"probe", "insert"}
    \/ x.kind = "editHost" /\ x.pc \in {"review", "probe", "begin", "lock"}
    \/ x.kind = "deleteHost" /\ x.pc \in {"begin", "lock"}
    \/ x.kind = "addModule" /\ x.pc \in {"validate", "insert"}
    \/ x.kind = "editModule" /\ x.pc \in {"validate", "begin", "commit"}
    \/ x.kind = "deleteModule" /\ x.pc \in {"begin", "commit"}

\* What it is about.
Concerns(x) ==
    /\ x.kind \in {"addHost", "editHost", "deleteHost"} => x.host \in Hosts
    /\ x.kind \in {"addModule", "editModule", "deleteModule"} => x.module \in Modules
    /\ x.kind \in {"addHost", "editHost"} => x.form \in HostForms
    /\ x.kind \in {"addModule", "editModule"} => x.form \in ModuleForms
    /\ x.kind \notin {"editHost", "editModule"} => x.saw = None

\* The rows it changes are there, and the page showed its own unless the version
\* of that is another one by now.
SawRow(x) ==
    /\ \A m \in x.dependents : modules[m].life # "absent"
    /\ x.kind \in {"editHost", "deleteHost"} => hosts[x.host].life # "absent"
    /\ x.kind \in {"editModule", "deleteModule"} => modules[x.module].life # "absent"
    /\ x.kind = "editHost" =>
           /\ x.version <= hosts[x.host].version
           /\ x.version = hosts[x.host].version =>
                  x.saw = [url |-> hosts[x.host].url, enabled |-> hosts[x.host].enabled]
    /\ x.kind = "editModule" =>
           /\ x.version <= modules[x.module].version
           /\ x.version = modules[x.module].version => x.saw = Fingerprint(modules[x.module])

\* A form that enables a host was probed, or the host is enabled at that URL
\* already, unless its version is another one by now.
Vouches(x) ==
    /\ x.kind = "addHost" /\ x.pc = "insert" /\ x.form.enabled => x.probed
    /\ /\ x.kind = "editHost" /\ x.pc \in {"begin", "lock"}
       /\ x.form.enabled /\ ~x.probed
       /\ x.version = hosts[x.host].version
       => hosts[x.host].enabled /\ hosts[x.host].url = x.form.url

EditsAreSane ==
    \A e \in Editors :
        Waits(edit[e]) /\ Concerns(edit[e]) /\ SawRow(edit[e]) /\ Vouches(edit[e])

-----------------------------------------------------------------------------
(* Locks *)

LocksAreExclusive == \A l, k \in locks : l[1] = k[1] => l = k

\* An edit holds what it is about to write, and knows what is written there.
EditsHold ==
    \A e \in Editors :
        /\ edit[e].pc = "lock" =>
               \A m \in edit[e].dependents \ edit[e].todo : Holds(e, m)
        /\ edit[e].pc = "commit" =>
               /\ Holds(e, edit[e].module)
               /\ edit[e].before = modules[edit[e].module]

\* A check under way is of the configuration of now.
ChecksHold ==
    \A c \in Collectors : job[c] # None =>
        /\ Holds(c, job[c].module)
        /\ modules[job[c].module].life = "live"
        /\ job[c].version = modules[job[c].module].monitoringVersion

-----------------------------------------------------------------------------
(* Results of one configuration *)

\* Nothing is known of a module that does not exist yet.
AbsentAreUnknown ==
    \A m \in Modules : modules[m].life = "absent" => latest[m] = None /\ results[m] = <<>>

\* No result is ahead of its module, and the latest is the last of its version.
ResultsAreOfModules ==
    \A m \in Modules : \A i \in DOMAIN results[m] :
        /\ results[m][i].version <= modules[m].monitoringVersion
        /\ results[m][i].version = modules[m].monitoringVersion /\ results[m][i].state # "Unknown" =>
               /\ latest[m] # None
               /\ latest[m].version = modules[m].monitoringVersion
               /\ results[m][i].at <= latest[m].at

\* A check under way started an interval after any result of its version.
ChecksWereDue ==
    \A c \in Collectors : job[c] # None =>
        \A i \in DOMAIN results[job[c].module] :
            LET r == results[job[c].module][i]
            IN  r.version = job[c].version /\ r.state # "Unknown" => r.at + Interval <= Now(c)

\* All of it together is inductive, and implies EnabledIsVouched,
\* NothingUnseenIsReplaced and ResultsAreSpaced.
MonitoringInv ==
    /\ TypeOK
    /\ EditsAreSane /\ EnabledIsVouched
    /\ LocksAreExclusive /\ EditsHold /\ ChecksHold
    /\ AbsentAreUnknown /\ ResultsAreOfModules /\ ChecksWereDue /\ ResultsAreSpaced

-----------------------------------------------------------------------------
(* The configuration of now *)

\* A module that a new URL of its host would concern.
Relies(m, h) == m \in OnHost(h) /\ UsesAgent(m)

\* No module comes to rely on a host while an edit of the host is between the
\* query for its dependents and its commit.
NoArrivals ==
    \A e \in Editors : \A m \in Modules :
        Step(e, "editHost", "lock") /\ ~Relies(m, edit[e].host) => ~Relies(m, edit[e].host)'

\* What a check addressed is what its module is now.
Tells(m, seen) ==
    /\ modules[m].life = "live"
    /\ modules[m].host # None => hosts[modules[m].host].life # "absent"
    /\ seen = Addressed(m)

LatestTells == \A m \in Modules : latest[m] # None => Tells(m, latest[m].seen)

ChecksTell == \A c \in Collectors : job[c] # None => Tells(job[c].module, job[c].seen)

\* An edit that changes the URL of a host has its dependents.
DependentsAreKnown ==
    \A e \in Editors : \A m \in Modules :
        LET h == edit[e].host
        IN  /\ Step(e, "editHost", "lock")
            /\ edit[e].version = hosts[h].version
            /\ Relies(m, h)
            /\ hosts[h].url # edit[e].form.url
            => m \in edit[e].dependents

\* Inductive as long as NoArrivals holds of every step.
CurrentInv == LatestTells /\ ChecksTell /\ DependentsAreKnown

-----------------------------------------------------------------------------
(* Blocks *)

ClocksAgree == \A p \in Sessions : Skew[p] = 0

\* Results are in the order of time, and none is of the future.
ResultsAreInOrder ==
    \A m \in Modules : \A i \in DOMAIN results[m] :
        /\ results[m][i].at <= clock
        /\ \A j \in DOMAIN results[m] : i < j => results[m][i].at <= results[m][j].at

\* Blocks do not overlap.
BlocksAreInOrder ==
    \A m \in Modules : \A b \in blocks[m] :
        /\ b.start <= clock /\ b.start < b.end
        /\ \A o \in blocks[m] \ {b} : b.start <= o.start => b.end <= o.start

\* Inductive if ClocksAgree, and implies ProjectionIsExact.
BlocksInv ==
    /\ ResultsAreInOrder /\ BlocksAreInOrder
    /\ \A m \in Modules : results[m] # <<>> =>
           \A t \in Nat : results[m][1].at <= t => Shown(m, t) = Observed(m, t)
=============================================================================
