--------------------------- MODULE InventoryEdits ---------------------------
(***************************************************************************)
(* What users do to hosts and modules: HostManagementService and           *)
(* ModuleManagementService over HostRepository and ModuleRepository.       *)
(*                                                                         *)
(* An editor is one request, from the page it opens to its answer.  The    *)
(* uniqueness of host names, texts and audit comments are left out.        *)
(***************************************************************************)
EXTENDS MonitoringStore

CONSTANT ModuleForms   \* what a module form may say

HostForms == [url : Urls, enabled : BOOLEAN]

\* What of a module its checks depend on.
Fingerprints == [host : Hosts \cup {None}, target : Targets, enabled : BOOLEAN]

\* A docker or systemd module must name a host.
ASSUME ModuleFormsAssumption ==
    /\ ModuleForms \subseteq Fingerprints
    /\ \A f \in ModuleForms : f.target \in AgentTargets => f.host # None

VARIABLE edit          \* [Editors -> one edit and the step it waits at]

Kinds == {"none", "addHost", "editHost", "deleteHost",
          "addModule", "editModule", "deleteModule"}

Idle == [kind |-> "none", pc |-> "idle", host |-> None, module |-> None, form |-> None,
         version |-> 0, probed |-> FALSE, dependents |-> {}, todo |-> {},
         before |-> None, saw |-> None]

Edit == [kind : Kinds,
         pc : {"idle", "review", "probe", "validate", "insert", "begin", "lock", "commit",
               "saved", "refused"},
         host : Hosts \cup {None},
         module : Modules \cup {None},
         form : HostForms \cup ModuleForms \cup {None},
         version : Nat,              \* the version the page showed
         probed : BOOLEAN,           \* the agent at form.url answered as healthy
         dependents : SUBSET Modules,
         todo : SUBSET Modules,      \* dependents still to lock
         before : ModuleRow \cup {None},
         saw : HostForms \cup Fingerprints \cup {None}]   \* ghost: what the page showed

EditTypeOK == edit \in [Editors -> Edit]

Ended == {"idle", "saved", "refused"}

Step(e, kind, pc) == edit[e].kind = kind /\ edit[e].pc = pc

GoTo(e, pc) == edit' = [edit EXCEPT ![e].pc = pc]

-----------------------------------------------------------------------------
(* Hosts *)

AddHost(e, h, form) ==
    /\ edit[e].pc = "idle"
    /\ hosts[h].life = "absent"
    /\ edit' = [edit EXCEPT ![e] = [Idle EXCEPT !.kind = "addHost", !.host = h, !.form = form,
                                    !.pc = IF form.enabled THEN "probe" ELSE "insert"]]
    /\ UNCHANGED storeVars

\* The page a user edits carries the row and its version.
OpenHost(e, h, form) ==
    /\ edit[e].pc = "idle"
    /\ hosts[h].life = "live"
    /\ edit' = [edit EXCEPT ![e] =
           [Idle EXCEPT !.kind = "editHost", !.pc = "review", !.host = h, !.form = form,
                        !.version = hosts[h].version,
                        !.saw = [url |-> hosts[h].url, enabled |-> hosts[h].enabled]]]
    /\ UNCHANGED storeVars

OpenDeleteHost(e, h) ==
    /\ edit[e].pc = "idle"
    /\ hosts[h].life = "live"
    /\ edit' = [edit EXCEPT ![e] = [Idle EXCEPT !.kind = "deleteHost", !.pc = "begin", !.host = h]]
    /\ UNCHANGED storeVars

\* Fault: a new URL of an enabled host is taken on trust.
NeedsProbeOnce(row, form) == form.enabled /\ ~row.enabled

NeedsProbe(row, form) == form.enabled /\ (~row.enabled \/ row.url # form.url)

\* Reads the row outside the transaction that will change it.
Review(e) ==
    LET row == hosts[edit[e].host]
    IN /\ edit[e].pc = "review"
       /\ GoTo(e, IF row.life # "live" THEN "refused"
                  ELSE IF NeedsProbe(row, edit[e].form) THEN "probe" ELSE "begin")
       /\ UNCHANGED storeVars

\* RequireHealthyAgentAsync; an agent that is not healthy ends the edit (EditStops).
Probe(e) ==
    /\ edit[e].pc = "probe"
    /\ edit' = [edit EXCEPT ![e].probed = TRUE,
                            ![e].pc = IF edit[e].kind = "addHost" THEN "insert" ELSE "begin"]
    /\ UNCHANGED storeVars

InsertHost(e) ==
    LET h == edit[e].host
        form == edit[e].form
    IN /\ Step(e, "addHost", "insert")
       /\ IF hosts[h].life = "absent"
          THEN /\ hosts' = [hosts EXCEPT ![h] =
                      [life |-> "live", url |-> form.url, enabled |-> form.enabled, version |-> 0,
                       vouched |-> IF edit[e].probed THEN form.url ELSE None]]
               /\ GoTo(e, "saved")
          ELSE /\ GoTo(e, "refused")
               /\ UNCHANGED hosts
       /\ UNCHANGED <<clock, modules, latest, blocks, results, locks>>

OnHost(h) == {m \in Modules : modules[m].life = "live" /\ modules[m].host = h}

\* Fault: a new URL leaves the results of its modules alone.
DependentsOfLifecycle(h, form) == {m \in OnHost(h) : hosts[h].enabled # form.enabled}

\* Whose results an update of host h puts in question.
Dependents(h, form) ==
    {m \in OnHost(h) :
        \/ hosts[h].enabled # form.enabled
        \/ hosts[h].url # form.url /\ UsesAgent(m)}

\* The start of the transaction: who depends on the host now.
BeginHost(e) ==
    LET h == edit[e].host
        ms == Dependents(h, edit[e].form)
    IN /\ Step(e, "editHost", "begin")
       /\ IF hosts[h].life = "live"
          THEN edit' = [edit EXCEPT ![e].pc = "lock", ![e].dependents = ms, ![e].todo = ms]
          ELSE GoTo(e, "refused")
       /\ UNCHANGED storeVars

BeginDeleteHost(e) ==
    LET ms == OnHost(edit[e].host)
    IN /\ Step(e, "deleteHost", "begin")
       /\ edit' = [edit EXCEPT ![e].pc = "lock", ![e].dependents = ms, ![e].todo = ms]
       /\ UNCHANGED storeVars

\* Fault: modules are locked in the order the query returned them.
AsQueried(todo) == todo

\* MonitoringInvalidation.LockAsync: in the order of the ids.
LowestFirst(todo) == {m \in todo : \A o \in todo : m <= o}

LockNext(e) ==
    /\ edit[e].pc = "lock"
    /\ \E m \in LowestFirst(edit[e].todo) :
          /\ Free(m)
          /\ locks' = locks \cup {<<m, e>>}
          /\ edit' = [edit EXCEPT ![e].todo = @ \ {m}]
    /\ UNCHANGED <<clock, hosts, modules, latest, blocks, results>>

Refuse(e) ==
    /\ GoTo(e, "refused")
    /\ locks' = Unlocked(e)
    /\ UNCHANGED <<hosts, modules, latest, blocks, results>>

\* Fault: the last to save wins.
AnyVersion(row, version) == row.life = "live"

\* WHERE "Id" = id AND "Version" = version AND NOT "DeletionFlag".
Unchanged(row, version) == row.life = "live" /\ row.version = version

CommitHost(e) ==
    LET h == edit[e].host
        row == hosts[h]
        form == edit[e].form
    IN /\ Step(e, "editHost", "lock")
       /\ edit[e].todo = {}
       /\ IF Unchanged(row, edit[e].version)
          THEN /\ hosts' = [hosts EXCEPT ![h] =
                      [row EXCEPT !.url = form.url, !.enabled = form.enabled,
                                  !.version = row.version + 1,
                                  !.vouched = IF edit[e].probed THEN form.url ELSE row.vouched]]
               /\ modules' = Bumped(edit[e].dependents)
               /\ Invalidate(edit[e].dependents, Now(e))
               /\ GoTo(e, "saved")
               /\ locks' = Unlocked(e)
          ELSE Refuse(e)
       /\ UNCHANGED clock

CommitDeleteHost(e) ==
    LET h == edit[e].host
        row == hosts[h]
    IN /\ Step(e, "deleteHost", "lock")
       /\ edit[e].todo = {}
       /\ IF row.life = "live"
          THEN /\ hosts' = [hosts EXCEPT ![h] =
                      [row EXCEPT !.life = "deleted", !.enabled = FALSE,
                                  !.version = row.version + 1]]
               /\ modules' = Bumped(edit[e].dependents)
               /\ Invalidate(edit[e].dependents, Now(e))
               /\ GoTo(e, "saved")
               /\ locks' = Unlocked(e)
          ELSE Refuse(e)
       /\ UNCHANGED clock

-----------------------------------------------------------------------------
(* Modules *)

AddModule(e, m, form) ==
    /\ edit[e].pc = "idle"
    /\ modules[m].life = "absent"
    /\ edit' = [edit EXCEPT ![e] = [Idle EXCEPT !.kind = "addModule", !.pc = "validate",
                                                !.module = m, !.form = form]]
    /\ UNCHANGED storeVars

OpenModule(e, m, form) ==
    /\ edit[e].pc = "idle"
    /\ modules[m].life = "live"
    /\ edit' = [edit EXCEPT ![e] =
           [Idle EXCEPT !.kind = "editModule", !.pc = "validate", !.module = m, !.form = form,
                        !.version = modules[m].version, !.saw = Fingerprint(modules[m])]]
    /\ UNCHANGED storeVars

OpenDeleteModule(e, m) ==
    /\ edit[e].pc = "idle"
    /\ modules[m].life = "live"
    /\ edit' = [edit EXCEPT ![e] = [Idle EXCEPT !.kind = "deleteModule", !.pc = "begin",
                                                !.module = m]]
    /\ UNCHANGED storeVars

\* HostExistsAsync, outside the transaction.
Validate(e) ==
    LET h == edit[e].form.host
    IN /\ edit[e].pc = "validate"
       /\ GoTo(e, IF h # None /\ hosts[h].life # "live" THEN "refused"
                  ELSE IF edit[e].kind = "addModule" THEN "insert" ELSE "begin")
       /\ UNCHANGED storeVars

InsertModule(e) ==
    LET m == edit[e].module
        form == edit[e].form
    IN /\ Step(e, "addModule", "insert")
       /\ IF modules[m].life = "absent"
          THEN /\ modules' = [modules EXCEPT ![m] =
                      [life |-> "live", host |-> form.host, target |-> form.target,
                       enabled |-> form.enabled, version |-> 0, monitoringVersion |-> 0]]
               /\ GoTo(e, "saved")
          ELSE /\ GoTo(e, "refused")
               /\ UNCHANGED modules
       /\ UNCHANGED <<clock, hosts, latest, blocks, results, locks>>

\* The lock, and the row read under it; a module already gone is found at the commit.
BeginModule(e) ==
    LET m == edit[e].module
    IN /\ edit[e].kind \in {"editModule", "deleteModule"}
       /\ edit[e].pc = "begin"
       /\ Free(m)
       /\ locks' = locks \cup {<<m, e>>}
       /\ edit' = [edit EXCEPT ![e].pc = "commit", ![e].before = modules[m]]
       /\ UNCHANGED <<clock, hosts, modules, latest, blocks, results>>

CommitModule(e) ==
    LET m == edit[e].module
        row == modules[m]
        form == edit[e].form
        changed == Fingerprint(edit[e].before) # form
    IN /\ Step(e, "editModule", "commit")
       /\ IF Unchanged(row, edit[e].version)
          THEN /\ modules' = [modules EXCEPT ![m] =
                      [row EXCEPT !.host = form.host, !.target = form.target,
                                  !.enabled = form.enabled, !.version = row.version + 1,
                                  !.monitoringVersion = edit[e].before.monitoringVersion
                                                        + (IF changed THEN 1 ELSE 0)]]
               /\ IF changed THEN Invalidate({m}, Now(e)) ELSE UNCHANGED <<latest, blocks, results>>
               /\ GoTo(e, "saved")
               /\ locks' = Unlocked(e)
               /\ UNCHANGED hosts
          ELSE Refuse(e)
       /\ UNCHANGED clock

CommitDeleteModule(e) ==
    LET m == edit[e].module
        row == modules[m]
    IN /\ Step(e, "deleteModule", "commit")
       /\ IF row.life = "live"
          THEN /\ modules' = [modules EXCEPT ![m] =
                      [row EXCEPT !.life = "deleted", !.enabled = FALSE,
                                  !.version = row.version + 1,
                                  !.monitoringVersion = row.monitoringVersion + 1]]
               /\ Invalidate({m}, Now(e))
               /\ GoTo(e, "saved")
               /\ locks' = Unlocked(e)
               /\ UNCHANGED hosts
          ELSE Refuse(e)
       /\ UNCHANGED clock

-----------------------------------------------------------------------------

\* Any await may throw: a cancelled request, an unhealthy agent, an error of
\* the database, the end of the process.
EditStops(e) ==
    /\ edit[e].pc \notin Ended
    /\ GoTo(e, "refused")
    /\ locks' = Unlocked(e)
    /\ UNCHANGED <<clock, hosts, modules, latest, blocks, results>>

Opens(e) ==
    \/ \E h \in Hosts :
          \/ \E form \in HostForms : AddHost(e, h, form) \/ OpenHost(e, h, form)
          \/ OpenDeleteHost(e, h)
    \/ \E m \in Modules :
          \/ \E form \in ModuleForms : AddModule(e, m, form) \/ OpenModule(e, m, form)
          \/ OpenDeleteModule(e, m)

Advances(e) ==
    \/ Review(e) \/ Probe(e) \/ Validate(e)
    \/ InsertHost(e) \/ InsertModule(e)
    \/ BeginHost(e) \/ BeginDeleteHost(e) \/ BeginModule(e)
    \/ LockNext(e)
    \/ CommitHost(e) \/ CommitDeleteHost(e)
    \/ CommitModule(e) \/ CommitDeleteModule(e)

EditNext == \E e \in Editors : Opens(e) \/ Advances(e) \/ EditStops(e)
=============================================================================
