-------------------------- MODULE MonitoringProofs --------------------------
EXTENDS MonitoringInvariant, SelectionProofs

-----------------------------------------------------------------------------
(* What retention keeps *)

\* How the rows after retention come from those before.
Picks(new, rows, cutoff, place) ==
    /\ \A k \in DOMAIN new : /\ place[k] \in DOMAIN rows
                             /\ new[k] = rows[place[k]]
                             /\ new[k].at >= cutoff
    /\ \A k, l \in DOMAIN new : k < l => place[k] < place[l]
    /\ \A i \in DOMAIN rows : rows[i].at >= cutoff => \E k \in DOMAIN new : place[k] = i

\* The rows kept are those that are recent, in the order they had.
LEMMA RecentRows ==
    ASSUME NEW S, NEW rows \in Seq(S), NEW cutoff
    PROVE  /\ Recent(rows, cutoff) \in Seq(S)
           /\ \E place : Picks(Recent(rows, cutoff), rows, cutoff, place)
<1> DEFINE kept == {i \in DOMAIN rows : rows[i].at >= cutoff}
           new == Recent(rows, cutoff)
           places == 1..Cardinality(kept)
           place == [k \in places |-> CHOOSE i \in kept : Rank(kept, i) = k]
<1>1. Len(rows) \in Nat /\ DOMAIN rows = 1..Len(rows) /\ \A i \in DOMAIN rows : rows[i] \in S
    OBVIOUS
<1>2. kept \in SUBSET (1..Len(rows))
    BY <1>1
<1>3. new = [k \in places |-> rows[place[k]]]
    BY DEF Recent, Picked
<1>4. /\ Cardinality(kept) \in Nat
      /\ \A i \in kept : Rank(kept, i) \in places
      /\ \A i, j \in kept : i < j => Rank(kept, i) < Rank(kept, j)
      /\ \A k \in places : \E i \in kept : Rank(kept, i) = k
    BY <1>1, <1>2, RanksAreAll
<1> HIDE DEF kept
<1>5. \A k \in places : place[k] \in kept /\ Rank(kept, place[k]) = k
    BY <1>4
<1>6. new \in Seq(S) /\ DOMAIN new = places
    <2>1. new \in [places -> S]
        BY <1>1, <1>3, <1>5 DEF kept
    <2> HIDE DEF new
    <2> QED BY <1>4, <2>1
<1>7. \A k, l \in places : k < l => place[k] < place[l]
    <2>1. ASSUME NEW k \in places, NEW l \in places, k < l
          PROVE  place[k] < place[l]
        <3>1. place[k] \in 1..Len(rows) /\ place[l] \in 1..Len(rows)
            BY <1>2, <1>5
        <3>2. ~(place[l] < place[k]) /\ place[l] # place[k]
            BY <1>4, <1>5, <2>1
        <3> QED BY <3>1, <3>2
    <2> QED BY <2>1
<1>8. ASSUME NEW i \in kept
      PROVE  \E k \in places : place[k] = i
    <2> DEFINE k == Rank(kept, i)
    <2>1. k \in places
        BY <1>4
    <2>2. place[k] \in kept /\ Rank(kept, place[k]) = Rank(kept, i)
        BY <1>5, <2>1
    <2>3. place[k] = i
        BY <1>2, <1>4, <2>1, <2>2
    <2> QED BY <2>1, <2>3
<1> HIDE DEF new, place
<1>9. \A k \in places : new[k] = rows[place[k]]
    BY <1>3
<1>10. Picks(new, rows, cutoff, place)
    BY <1>5, <1>6, <1>7, <1>8, <1>9 DEF Picks, kept
<1> QED BY <1>6, <1>10 DEF new

-----------------------------------------------------------------------------
(* Types *)

LEMMA TimesAreNumbers ==
    ASSUME TypeOK, NEW p \in Sessions
    PROVE  Now(p) \in Nat
BY SkewAssumption DEF TypeOK, StoreTypeOK, Now

LEMMA ObservedBlocks ==
    ASSUME NEW bs \in SUBSET Block, NEW last \in Block \cup {None}, NEW at \in Nat,
           NEW until \in Nat, NEW state \in States
    PROVE  Observe(bs, last, at, until, state) \in SUBSET Block
<1>1. [start |-> at, end |-> until, state |-> state] \in Block
    BY DEF Block
<1>2. CASE last = None
    BY <1>1, <1>2 DEF Observe, Trim
<1>3. CASE last \in Block
    <2>1. [last EXCEPT !.end = until] \in Block /\ [last EXCEPT !.end = at] \in Block
        BY <1>3 DEF Block
    <2>2. Trim(bs, last, at) \in SUBSET Block
        BY <2>1 DEF Trim
    <2> QED BY <1>1, <2>1, <2>2 DEF Observe
<1> QED BY <1>2, <1>3

LEMMA CutBlocks ==
    ASSUME NEW bs \in SUBSET Block, NEW at \in Nat
    PROVE  Cut(bs, at) \in SUBSET Block
<1>1. ASSUME NEW b \in Block
      PROVE  [b EXCEPT !.end = IF b.end > at THEN at ELSE b.end] \in Block
    BY DEF Block
<1> QED BY <1>1 DEF Cut

LEMMA InvalidRows ==
    ASSUME StoreTypeOK, NEW ms \in SUBSET Modules, NEW at \in Nat, Invalidate(ms, at),
           modules' \in [Modules -> ModuleRow]
    PROVE  /\ latest' \in [Modules -> LatestRow \cup {None}]
           /\ blocks' \in [Modules -> SUBSET Block]
           /\ results' \in [Modules -> Seq(ResultRow)]
<1>1. ASSUME NEW m \in Modules
      PROVE  [at |-> at, freshUntil |-> at, state |-> "Unknown",
              version |-> modules'[m].monitoringVersion] \in ResultRow
    <2>1. PICK v : v = modules'[m].monitoringVersion
        OBVIOUS
    <2>2. v \in Nat
        BY <2>1 DEF ModuleRow
    <2> QED BY <2>1, <2>2 DEF ResultRow
<1>2. \A m \in Modules : Cut(blocks[m], at) \in SUBSET Block /\ blocks[m] \in SUBSET Block
    BY CutBlocks DEF StoreTypeOK
<1>3. latest' \in [Modules -> LatestRow \cup {None}]
    BY DEF Invalidate, StoreTypeOK
<1>4. blocks' \in [Modules -> SUBSET Block]
    BY <1>2 DEF Invalidate
<1>5. results' \in [Modules -> Seq(ResultRow)]
    BY <1>1 DEF Invalidate, StoreTypeOK
<1> QED BY <1>3, <1>4, <1>5

\* What the store of a step is depends on few of its tables.
LEMMA QuietTypes ==
    ASSUME TypeOK, EditTypeOK', locks' \subseteq Modules \X Sessions,
           UNCHANGED <<clock, hosts, modules, latest, blocks, results, job>>
    PROVE  TypeOK'
BY DEF TypeOK, StoreTypeOK, CollectorTypeOK

\* Where an edit may go.
Places == {"idle", "review", "probe", "validate", "insert", "begin", "lock", "commit",
           "saved", "refused"}

LEMMA WentTypes ==
    ASSUME EditTypeOK, NEW e \in Editors, NEW pc \in Places, GoTo(e, pc)
    PROVE  EditTypeOK'
<1>1. [edit[e] EXCEPT !.pc = pc] \in Edit
    BY DEF EditTypeOK, Edit, Places
<1> QED BY <1>1 DEF EditTypeOK, GoTo

LEMMA OpenedTypes ==
    ASSUME TypeOK, NEW e \in Editors,
           \/ \E h \in Hosts :
                 \/ \E form \in HostForms : AddHost(e, h, form) \/ OpenHost(e, h, form)
                 \/ OpenDeleteHost(e, h)
           \/ \E m \in Modules :
                 \/ \E form \in ModuleForms : AddModule(e, m, form) \/ OpenModule(e, m, form)
                 \/ OpenDeleteModule(e, m),
           UNCHANGED job
    PROVE  TypeOK'
<1> USE DEF Edit, Kinds, Idle
<1>1. EditTypeOK'
    <2>1. ASSUME NEW h \in Hosts, NEW form \in HostForms, AddHost(e, h, form)
          PROVE  EditTypeOK'
        BY <2>1 DEF AddHost, TypeOK, EditTypeOK
    <2>2. ASSUME NEW h \in Hosts, NEW form \in HostForms, OpenHost(e, h, form)
          PROVE  EditTypeOK'
        <3>1. [url |-> hosts[h].url, enabled |-> hosts[h].enabled] \in HostForms
              /\ hosts[h].version \in Nat
            BY DEF TypeOK, StoreTypeOK, HostRow, HostForms
        <3> QED BY <2>2, <3>1 DEF OpenHost, TypeOK, EditTypeOK
    <2>3. ASSUME NEW h \in Hosts, OpenDeleteHost(e, h)
          PROVE  EditTypeOK'
        BY <2>3 DEF OpenDeleteHost, TypeOK, EditTypeOK
    <2>4. ASSUME NEW m \in Modules, NEW form \in ModuleForms, AddModule(e, m, form)
          PROVE  EditTypeOK'
        BY <2>4 DEF AddModule, TypeOK, EditTypeOK
    <2>5. ASSUME NEW m \in Modules, NEW form \in ModuleForms, OpenModule(e, m, form)
          PROVE  EditTypeOK'
        <3>1. Fingerprint(modules[m]) \in Fingerprints /\ modules[m].version \in Nat
            BY DEF TypeOK, StoreTypeOK, ModuleRow, Fingerprint, Fingerprints
        <3> QED BY <2>5, <3>1 DEF OpenModule, TypeOK, EditTypeOK
    <2>6. ASSUME NEW m \in Modules, OpenDeleteModule(e, m)
          PROVE  EditTypeOK'
        BY <2>6 DEF OpenDeleteModule, TypeOK, EditTypeOK
    <2> QED BY <2>1, <2>2, <2>3, <2>4, <2>5, <2>6
<1>2. UNCHANGED storeVars
    BY DEF AddHost, OpenHost, OpenDeleteHost, AddModule, OpenModule, OpenDeleteModule
<1> QED BY <1>1, <1>2, QuietTypes DEF storeVars, TypeOK, StoreTypeOK

\* The steps of an edit that write no table but the locks.
LEMMA QuietEditTypes ==
    ASSUME TypeOK, NEW e \in Editors, Waits(edit[e]), Concerns(edit[e]),
           \/ Review(e) \/ Probe(e) \/ Validate(e)
           \/ BeginHost(e) \/ BeginDeleteHost(e) \/ BeginModule(e)
           \/ LockNext(e) \/ EditStops(e),
           UNCHANGED job
    PROVE  TypeOK'
<1>0. EditTypeOK /\ edit[e] \in Edit /\ e \in Sessions
    BY DEF TypeOK, EditTypeOK, Sessions
<1>1. CASE Review(e)
    BY <1>0, <1>1, WentTypes, QuietTypes DEF Review, Places, storeVars, TypeOK, StoreTypeOK
<1>2. CASE Probe(e)
    <2>1. EditTypeOK'
        BY <1>0, <1>2 DEF Probe, EditTypeOK, Edit
    <2> QED BY <2>1, <1>2, QuietTypes DEF Probe, storeVars, TypeOK, StoreTypeOK
<1>3. CASE Validate(e)
    BY <1>0, <1>3, WentTypes, QuietTypes DEF Validate, Places, storeVars, TypeOK, StoreTypeOK
<1>4. CASE BeginHost(e)
    <2>1. Dependents(edit[e].host, edit[e].form) \in SUBSET Modules
        BY DEF Dependents, OnHost
    <2>2. EditTypeOK'
        BY <1>0, <1>4, <2>1, WentTypes DEF BeginHost, EditTypeOK, Edit, Places
    <2> QED BY <2>2, <1>4, QuietTypes DEF BeginHost, storeVars, TypeOK, StoreTypeOK
<1>5. CASE BeginDeleteHost(e)
    <2>1. OnHost(edit[e].host) \in SUBSET Modules
        BY DEF OnHost
    <2>2. EditTypeOK'
        BY <1>0, <1>5, <2>1 DEF BeginDeleteHost, EditTypeOK, Edit
    <2> QED BY <2>2, <1>5, QuietTypes DEF BeginDeleteHost, storeVars, TypeOK, StoreTypeOK
<1>6. CASE BeginModule(e)
    <2>1. edit[e].module \in Modules
        BY <1>6 DEF BeginModule, Concerns
    <2>2. modules[edit[e].module] \in ModuleRow
        BY <2>1 DEF TypeOK, StoreTypeOK
    <2>3. EditTypeOK'
        BY <1>0, <1>6, <2>2 DEF BeginModule, EditTypeOK, Edit
    <2> QED BY <2>1, <2>3, <1>0, <1>6, QuietTypes DEF BeginModule, TypeOK, StoreTypeOK
<1>7. CASE LockNext(e)
    <2>1. EditTypeOK'
        BY <1>0, <1>7 DEF LockNext, EditTypeOK, Edit
    <2>2. LowestFirst(edit[e].todo) \in SUBSET Modules
        BY <1>0 DEF LowestFirst, Edit
    <2> QED BY <2>1, <2>2, <1>0, <1>7, QuietTypes DEF LockNext, TypeOK, StoreTypeOK
<1>8. CASE EditStops(e)
    BY <1>0, <1>8, WentTypes, QuietTypes DEF EditStops, Places, Unlocked, TypeOK, StoreTypeOK
<1> QED BY <1>1, <1>2, <1>3, <1>4, <1>5, <1>6, <1>7, <1>8

LEMMA RefusedTypes ==
    ASSUME TypeOK, NEW e \in Editors, Refuse(e), UNCHANGED <<clock, job>>
    PROVE  TypeOK'
BY WentTypes, QuietTypes DEF Refuse, Places, Unlocked, TypeOK, StoreTypeOK

LEMMA BumpedTypes ==
    ASSUME StoreTypeOK, NEW ms \in SUBSET Modules
    PROVE  Bumped(ms) \in [Modules -> ModuleRow]
<1>1. ASSUME NEW m \in Modules
      PROVE  [modules[m] EXCEPT !.monitoringVersion = @ + 1] \in ModuleRow
             /\ modules[m] \in ModuleRow
    <2>1. modules[m] \in ModuleRow
        BY DEF StoreTypeOK
    <2>2. PICK v : v = modules[m].monitoringVersion + 1
        OBVIOUS
    <2>3. v \in Nat
        BY <2>1, <2>2 DEF ModuleRow
    <2>4. [modules[m] EXCEPT !.monitoringVersion = v] \in ModuleRow
        BY <2>1, <2>3 DEF ModuleRow
    <2> QED BY <2>1, <2>2, <2>4
<1> QED BY <1>1 DEF Bumped

\* An edit that is saved: its new rows, and what it invalidates.
LEMMA SavedTypes ==
    ASSUME TypeOK, NEW e \in Editors, NEW ms \in SUBSET Modules, Invalidate(ms, Now(e)),
           hosts' \in [Hosts -> HostRow], modules' \in [Modules -> ModuleRow],
           GoTo(e, "saved"), locks' = Unlocked(e), UNCHANGED <<clock, job>>
    PROVE  TypeOK'
<1>1. Now(e) \in Nat
    BY TimesAreNumbers DEF Sessions
<1>2. /\ latest' \in [Modules -> LatestRow \cup {None}]
      /\ blocks' \in [Modules -> SUBSET Block]
      /\ results' \in [Modules -> Seq(ResultRow)]
    BY <1>1, InvalidRows DEF TypeOK
<1>3. EditTypeOK'
    BY WentTypes DEF TypeOK, Places
<1>4. locks' \subseteq Modules \X Sessions
    BY DEF Unlocked, TypeOK, StoreTypeOK
<1> QED BY <1>2, <1>3, <1>4 DEF TypeOK, StoreTypeOK, CollectorTypeOK

LEMMA WritingEditTypes ==
    ASSUME TypeOK, NEW e \in Editors, Concerns(edit[e]), EditsHold,
           \/ InsertHost(e) \/ InsertModule(e)
           \/ CommitHost(e) \/ CommitDeleteHost(e)
           \/ CommitModule(e) \/ CommitDeleteModule(e),
           UNCHANGED job
    PROVE  TypeOK'
<1>0. EditTypeOK /\ StoreTypeOK /\ edit[e] \in Edit /\ edit[e].dependents \in SUBSET Modules
    BY DEF TypeOK, EditTypeOK, Edit
<1> DEFINE h == edit[e].host
           m == edit[e].module
           form == edit[e].form
<1>1. CASE InsertHost(e)
    <2>1. h \in Hosts /\ form \in HostForms
        BY <1>1 DEF InsertHost, Step, Concerns
    <2>2. form.url \in Urls /\ form.enabled \in BOOLEAN
        BY <2>1 DEF HostForms
    <2>3. [life |-> "live", url |-> form.url, enabled |-> form.enabled, version |-> 0,
           vouched |-> IF edit[e].probed THEN form.url ELSE None] \in HostRow
        BY <2>2 DEF HostRow, Life
    <2>4. hosts' \in [Hosts -> HostRow]
        BY <1>0, <1>1, <2>3 DEF InsertHost, StoreTypeOK
    <2>5. EditTypeOK'
        BY <1>0, <1>1, WentTypes DEF InsertHost, Places
    <2> QED BY <1>0, <1>1, <2>4, <2>5 DEF InsertHost, TypeOK, StoreTypeOK, CollectorTypeOK
<1>2. CASE InsertModule(e)
    <2>1. m \in Modules /\ form \in Fingerprints
        BY <1>2, ModuleFormsAssumption DEF InsertModule, Step, Concerns
    <2>2. [life |-> "live", host |-> form.host, target |-> form.target,
           enabled |-> form.enabled, version |-> 0, monitoringVersion |-> 0] \in ModuleRow
        BY <2>1 DEF ModuleRow, Life, Fingerprints
    <2>3. modules' \in [Modules -> ModuleRow]
        BY <1>0, <1>2, <2>2 DEF InsertModule, StoreTypeOK
    <2>4. EditTypeOK'
        BY <1>0, <1>2, WentTypes DEF InsertModule, Places
    <2> QED BY <1>0, <1>2, <2>3, <2>4 DEF InsertModule, TypeOK, StoreTypeOK, CollectorTypeOK
<1>3. CASE CommitHost(e)
    <2>1. h \in Hosts /\ form \in HostForms
        BY <1>3 DEF CommitHost, Step, Concerns
    <2>2. CASE Unchanged(hosts[h], edit[e].version)
        <3>1. hosts[h] \in HostRow /\ form.url \in Urls /\ form.enabled \in BOOLEAN
            BY <1>0, <2>1 DEF StoreTypeOK, HostForms
        <3>2. [hosts[h] EXCEPT !.url = form.url, !.enabled = form.enabled, !.version = @ + 1,
                   !.vouched = IF edit[e].probed THEN form.url ELSE @] \in HostRow
            <4>1. PICK v, u : /\ v = hosts[h].version + 1
                              /\ u = IF edit[e].probed THEN form.url ELSE hosts[h].vouched
                OBVIOUS
            <4>2. v \in Nat /\ u \in Urls \cup {None}
                BY <3>1, <4>1 DEF HostRow
            <4>3. [hosts[h] EXCEPT !.url = form.url, !.enabled = form.enabled, !.version = v,
                       !.vouched = u] \in HostRow
                BY <3>1, <4>2 DEF HostRow
            <4> QED BY <4>1, <4>3
        <3>3. hosts' \in [Hosts -> HostRow]
            <4> DEFINE row == [hosts[h] EXCEPT !.url = form.url, !.enabled = form.enabled, !.version = @ + 1,
                       !.vouched = IF edit[e].probed THEN form.url ELSE @]
            <4>1. hosts' = [hosts EXCEPT ![h] = row]
                BY <1>3, <2>2, <3>2 DEF CommitHost
            <4>2. row \in HostRow
                BY <3>2
            <4> HIDE DEF row
            <4> QED BY <1>0, <4>1, <4>2 DEF StoreTypeOK
        <3>4. modules' \in [Modules -> ModuleRow]
            BY <1>0, <1>3, <2>2, BumpedTypes DEF CommitHost
        <3> QED BY <1>0, <1>3, <2>2, <3>3, <3>4, SavedTypes DEF CommitHost
    <2>3. CASE ~Unchanged(hosts[h], edit[e].version)
        BY <1>3, <2>3, RefusedTypes DEF CommitHost
    <2> QED BY <2>2, <2>3
<1>4. CASE CommitDeleteHost(e)
    <2>1. h \in Hosts
        BY <1>4 DEF CommitDeleteHost, Step, Concerns
    <2>2. CASE hosts[h].life = "live"
        <3>1. hosts[h] \in HostRow
            BY <1>0, <2>1 DEF StoreTypeOK
        <3>2. [hosts[h] EXCEPT !.life = "deleted", !.enabled = FALSE, !.version = @ + 1] \in HostRow
            <4>1. PICK v : v = hosts[h].version + 1
                OBVIOUS
            <4>2. v \in Nat
                BY <3>1, <4>1 DEF HostRow
            <4>3. [hosts[h] EXCEPT !.life = "deleted", !.enabled = FALSE, !.version = v] \in HostRow
                BY <3>1, <4>2 DEF HostRow, Life
            <4> QED BY <4>1, <4>3
        <3>3. hosts' \in [Hosts -> HostRow]
            <4> DEFINE row == [hosts[h] EXCEPT !.life = "deleted", !.enabled = FALSE, !.version = @ + 1]
            <4>1. hosts' = [hosts EXCEPT ![h] = row]
                BY <1>4, <2>2, <3>2 DEF CommitDeleteHost
            <4>2. row \in HostRow
                BY <3>2
            <4> HIDE DEF row
            <4> QED BY <1>0, <4>1, <4>2 DEF StoreTypeOK
        <3>4. modules' \in [Modules -> ModuleRow]
            BY <1>0, <1>4, <2>2, BumpedTypes DEF CommitDeleteHost
        <3> QED BY <1>0, <1>4, <2>2, <3>3, <3>4, SavedTypes DEF CommitDeleteHost
    <2>3. CASE hosts[h].life # "live"
        BY <1>4, <2>3, RefusedTypes DEF CommitDeleteHost
    <2> QED BY <2>2, <2>3
<1>5. CASE CommitModule(e)
    <2>1. m \in Modules /\ form \in Fingerprints
        BY <1>5, ModuleFormsAssumption DEF CommitModule, Step, Concerns
    <2>2. CASE Unchanged(modules[m], edit[e].version)
        <3> DEFINE before == edit[e].before
                   changed == Fingerprint(before) # form
        <3>1. modules[m] \in ModuleRow /\ before \in ModuleRow
            BY <1>0, <1>5, <2>1 DEF CommitModule, Step, StoreTypeOK, EditsHold
        <3>2. before.monitoringVersion + (IF changed THEN 1 ELSE 0) \in Nat
            BY <3>1 DEF ModuleRow
        <3> HIDE DEF changed
        <3>3. [modules[m] EXCEPT !.host = form.host, !.target = form.target,
                   !.enabled = form.enabled, !.version = @ + 1,
                   !.monitoringVersion = before.monitoringVersion + (IF changed THEN 1 ELSE 0)]
              \in ModuleRow
            <4>1. PICK v, w : /\ v = modules[m].version + 1
                              /\ w = before.monitoringVersion + (IF changed THEN 1 ELSE 0)
                OBVIOUS
            <4>2. v \in Nat /\ w \in Nat
                BY <3>1, <3>2, <4>1 DEF ModuleRow
            <4>3. [modules[m] EXCEPT !.host = form.host, !.target = form.target,
                       !.enabled = form.enabled, !.version = v, !.monitoringVersion = w]
                  \in ModuleRow
                BY <2>1, <3>1, <4>2 DEF ModuleRow, Fingerprints
            <4> QED BY <4>1, <4>3
        <3>4. modules' \in [Modules -> ModuleRow]
            <4> DEFINE row == [modules[m] EXCEPT !.host = form.host, !.target = form.target,
                       !.enabled = form.enabled, !.version = @ + 1,
                       !.monitoringVersion = before.monitoringVersion
                                             + (IF changed THEN 1 ELSE 0)]
            <4>1. modules' = [modules EXCEPT ![m] = row]
                BY <1>5, <2>2, <3>3 DEF CommitModule, changed
            <4>2. row \in ModuleRow
                BY <3>3
            <4> HIDE DEF row
            <4> QED BY <1>0, <4>1, <4>2 DEF StoreTypeOK
        <3>5. hosts' \in [Hosts -> HostRow]
            BY <1>0, <1>5, <2>2 DEF CommitModule, StoreTypeOK
        <3>6. CASE changed
            BY <1>0, <1>5, <2>1, <2>2, <3>4, <3>5, <3>6, SavedTypes DEF CommitModule, changed
        <3>7. CASE ~changed
            <4>1. UNCHANGED <<clock, latest, blocks, results>> /\ GoTo(e, "saved")
                  /\ locks' = Unlocked(e)
                BY <1>5, <2>2, <3>7 DEF CommitModule, changed
            <4>2. EditTypeOK'
                BY <1>0, <4>1, WentTypes DEF Places
            <4> QED BY <1>0, <3>4, <3>5, <4>1, <4>2
                    DEF TypeOK, StoreTypeOK, CollectorTypeOK, Unlocked
        <3> QED BY <3>6, <3>7
    <2>3. CASE ~Unchanged(modules[m], edit[e].version)
        BY <1>5, <2>3, RefusedTypes DEF CommitModule
    <2> QED BY <2>2, <2>3
<1>6. CASE CommitDeleteModule(e)
    <2>1. m \in Modules
        BY <1>6 DEF CommitDeleteModule, Step, Concerns
    <2>2. CASE modules[m].life = "live"
        <3>1. modules[m] \in ModuleRow
            BY <1>0, <2>1 DEF StoreTypeOK
        <3>2. [modules[m] EXCEPT !.life = "deleted", !.enabled = FALSE, !.version = @ + 1,
                                 !.monitoringVersion = @ + 1] \in ModuleRow
            <4>1. PICK v, w : v = modules[m].version + 1 /\ w = modules[m].monitoringVersion + 1
                OBVIOUS
            <4>2. v \in Nat /\ w \in Nat
                BY <3>1, <4>1 DEF ModuleRow
            <4>3. [modules[m] EXCEPT !.life = "deleted", !.enabled = FALSE, !.version = v,
                                     !.monitoringVersion = w] \in ModuleRow
                BY <3>1, <4>2 DEF ModuleRow, Life
            <4> QED BY <4>1, <4>3
        <3>3. modules' \in [Modules -> ModuleRow] /\ hosts' \in [Hosts -> HostRow]
            <4> DEFINE row == [modules[m] EXCEPT !.life = "deleted", !.enabled = FALSE, !.version = @ + 1,
                                         !.monitoringVersion = @ + 1]
            <4>1. modules' = [modules EXCEPT ![m] = row]
                BY <1>6, <2>2, <3>2 DEF CommitDeleteModule
            <4>2. row \in ModuleRow
                BY <3>2
            <4>3. UNCHANGED hosts
                BY <1>6, <2>2 DEF CommitDeleteModule
            <4> HIDE DEF row
            <4> QED BY <1>0, <4>1, <4>2, <4>3 DEF StoreTypeOK
        <3> QED BY <1>0, <1>6, <2>1, <2>2, <3>3, SavedTypes DEF CommitDeleteModule
    <2>3. CASE modules[m].life # "live"
        BY <1>6, <2>3, RefusedTypes DEF CommitDeleteModule
    <2> QED BY <2>2, <2>3
<1> QED BY <1>1, <1>2, <1>3, <1>4, <1>5, <1>6

LEMMA CollectorTypes ==
    ASSUME TypeOK, NEW c \in Collectors,
           \/ \E m \in Modules : CollectStart(c, m)
           \/ CollectCommit(c) \/ CollectStops(c) \/ RetainAll(c),
           UNCHANGED edit
    PROVE  TypeOK'
<1> DEFINE now == Now(c)
<1>0. EditTypeOK' /\ c \in Sessions /\ now \in Nat
    BY TimesAreNumbers DEF TypeOK, EditTypeOK, Sessions
<1>1. ASSUME NEW m \in Modules, CollectStart(c, m)
      PROVE  TypeOK'
    <2>1. modules[m] \in ModuleRow
        BY DEF TypeOK, StoreTypeOK
    <2>2. Addressed(m) \in Subject
        BY <2>1 DEF Addressed, Subject, ModuleRow, TypeOK, StoreTypeOK, HostRow
    <2>3. [module |-> m, version |-> modules[m].monitoringVersion, seen |-> Addressed(m)] \in Check
        BY <2>1, <2>2 DEF Check, ModuleRow
    <2> QED BY <1>0, <1>1, <2>3 DEF CollectStart, TypeOK, StoreTypeOK, CollectorTypeOK
<1>2. CASE CollectCommit(c)
    <2> DEFINE m == job[c].module
    <2>1. job[c] \in Check /\ m \in Modules /\ now + Stale \in Nat
        BY <1>0, <1>2, TimesAssumption DEF CollectCommit, TypeOK, CollectorTypeOK, Check
    <2>2. PICK state \in States :
             /\ latest' = [latest EXCEPT ![m] =
                    [at |-> now, freshUntil |-> now + Stale, version |-> job[c].version,
                     state |-> state, seen |-> job[c].seen]]
             /\ results' = [results EXCEPT ![m] = Append(@,
                    [at |-> now, freshUntil |-> now + Stale, state |-> state,
                     version |-> job[c].version])]
             /\ \E last \in IF blocks[m] = {} THEN {None} ELSE Newest(blocks[m]) :
                    blocks' = [blocks EXCEPT ![m] = Observe(@, last, now, now + Stale, state)]
        BY <1>2 DEF CollectCommit
    <2>3. PICK last \in IF blocks[m] = {} THEN {None} ELSE Newest(blocks[m]) :
             blocks' = [blocks EXCEPT ![m] = Observe(@, last, now, now + Stale, state)]
        BY <2>2
    <2>4. blocks[m] \in SUBSET Block /\ last \in Block \cup {None}
        BY <2>1, <2>3 DEF Newest, TypeOK, StoreTypeOK
    <2>5. Observe(blocks[m], last, now, now + Stale, state) \in SUBSET Block
        BY <1>0, <2>1, <2>4, ObservedBlocks
    <2>6. [at |-> now, freshUntil |-> now + Stale, version |-> job[c].version,
           state |-> state, seen |-> job[c].seen] \in LatestRow
        BY <1>0, <2>1 DEF Check, LatestRow
    <2>7. [at |-> now, freshUntil |-> now + Stale, state |-> state,
           version |-> job[c].version] \in ResultRow
        BY <1>0, <2>1 DEF Check, ResultRow
    <2>8. /\ latest' \in [Modules -> LatestRow \cup {None}]
          /\ blocks' \in [Modules -> SUBSET Block]
        BY <2>2, <2>3, <2>5, <2>6 DEF TypeOK, StoreTypeOK
    <2>9. results' \in [Modules -> Seq(ResultRow)]
        BY <2>1, <2>2, <2>7 DEF TypeOK, StoreTypeOK
    <2> QED BY <1>0, <1>2, <2>8, <2>9
            DEF CollectCommit, TypeOK, StoreTypeOK, CollectorTypeOK, Unlocked
<1>3. CASE CollectStops(c)
    BY <1>0, <1>3 DEF CollectStops, TypeOK, StoreTypeOK, CollectorTypeOK, Unlocked
<1>4. CASE RetainAll(c)
    <2>1. \A m \in Modules : Recent(results[m], now - RetentionTime) \in Seq(ResultRow)
        BY RecentRows DEF TypeOK, StoreTypeOK
    <2>2. \A m \in Modules : Retained(blocks[m], now - RetentionTime) \in SUBSET Block
        BY DEF Retained, TypeOK, StoreTypeOK
    <2>3. results' \in [Modules -> Seq(ResultRow)] /\ blocks' \in [Modules -> SUBSET Block]
        BY <1>4, <2>1, <2>2 DEF RetainAll, TypeOK, StoreTypeOK
    <2> QED BY <1>0, <1>4, <2>3 DEF RetainAll, TypeOK, StoreTypeOK, CollectorTypeOK
<1> QED BY <1>1, <1>2, <1>3, <1>4

LEMMA NextTypes ==
    ASSUME TypeOK, EditsAreSane, EditsHold, Next
    PROVE  TypeOK'
<1>1. CASE CollectorNext /\ UNCHANGED edit
    BY <1>1, CollectorTypes DEF CollectorNext
<1>2. CASE Tick /\ UNCHANGED edit
    BY <1>2 DEF Tick, TypeOK, StoreTypeOK, CollectorTypeOK, EditTypeOK
<1>3. CASE EditNext /\ UNCHANGED job
    <2>1. PICK e \in Editors : Opens(e) \/ Advances(e) \/ EditStops(e)
        BY <1>3 DEF EditNext
    <2>2. Waits(edit[e]) /\ Concerns(edit[e])
        BY DEF EditsAreSane
    <2>3. CASE Opens(e)
        BY <1>3, <2>3, OpenedTypes DEF Opens
    <2>4. CASE Advances(e) \/ EditStops(e)
        BY <1>3, <2>2, <2>4, QuietEditTypes, WritingEditTypes DEF Advances
    <2> QED BY <2>1, <2>3, <2>4
<1> QED BY <1>1, <1>2, <1>3 DEF Next

LEMMA InitTypes == Init => TypeOK
<1> SUFFICES ASSUME Init PROVE TypeOK
    OBVIOUS
<1>1. hosts \in [Hosts -> HostRow] /\ modules \in [Modules -> ModuleRow]
    BY InitHostsAssumption, InitModulesAssumption DEF Init
<1>2. Idle \in Edit
    BY DEF Idle, Edit, Kinds
<1>3. /\ results \in [Modules -> Seq(ResultRow)] /\ blocks \in [Modules -> SUBSET Block]
      /\ latest \in [Modules -> LatestRow \cup {None}] /\ clock \in Nat
      /\ locks \subseteq Modules \X Sessions
    BY DEF Init
<1>4. job \in [Collectors -> Check \cup {None}] /\ edit \in [Editors -> Edit]
    BY <1>2 DEF Init
<1> QED BY <1>1, <1>3, <1>4 DEF TypeOK, StoreTypeOK, CollectorTypeOK, EditTypeOK

-----------------------------------------------------------------------------
(* Rows of hosts and modules *)

\* What a step may do to a row: no row goes away, and none changes what a page
\* shows without a new version.
HostGrows(h) ==
    \/ hosts'[h] = hosts[h]
    \/ hosts[h].life = "absent" /\ hosts'[h].life # "absent"
    \/ hosts[h].life = "live" /\ hosts'[h].life # "absent" /\ hosts'[h].version > hosts[h].version

ModuleGrows(m) ==
    \/ modules'[m] = modules[m]
    \/ modules[m].life = "absent" /\ modules'[m].life # "absent"
    \/ modules[m].life # "absent" /\ modules'[m].life = modules[m].life
       /\ modules'[m].version = modules[m].version
       /\ Fingerprint(modules'[m]) = Fingerprint(modules[m])
    \/ modules[m].life = "live" /\ modules'[m].life # "absent"
       /\ modules'[m].version > modules[m].version

RowsGrow == (\A h \in Hosts : HostGrows(h)) /\ (\A m \in Modules : ModuleGrows(m))

LEMMA BumpedGrow ==
    ASSUME StoreTypeOK, NEW ms \in SUBSET Modules, modules' = Bumped(ms),
           \A m \in ms : modules[m].life # "absent"
    PROVE  \A m \in Modules : ModuleGrows(m)
<1> SUFFICES ASSUME NEW m \in Modules
             PROVE  ModuleGrows(m)
    OBVIOUS
<1>1. PICK row : row = modules'[m]
    OBVIOUS
<1>2. CASE m \in ms
    <2>1. row = [modules[m] EXCEPT !.monitoringVersion = modules[m].monitoringVersion + 1]
        BY <1>1, <1>2 DEF Bumped
    <2>2. modules[m] \in ModuleRow /\ modules[m].life # "absent"
        BY <1>2 DEF StoreTypeOK
    <2>3. /\ row.life = modules[m].life /\ row.version = modules[m].version
          /\ Fingerprint(row) = Fingerprint(modules[m])
        BY <2>1, <2>2 DEF Fingerprint, ModuleRow
    <2> QED BY <1>1, <2>2, <2>3 DEF ModuleGrows
<1>3. CASE m \notin ms
    BY <1>1, <1>3 DEF Bumped, ModuleGrows
<1> QED BY <1>2, <1>3

LEMMA WritingEditsGrow ==
    ASSUME TypeOK, NEW e \in Editors, Concerns(edit[e]), SawRow(edit[e]),
           \/ InsertHost(e) \/ InsertModule(e)
           \/ CommitHost(e) \/ CommitDeleteHost(e)
           \/ CommitModule(e) \/ CommitDeleteModule(e)
    PROVE  RowsGrow
<1> DEFINE h == edit[e].host
           m == edit[e].module
           form == edit[e].form
           ms == edit[e].dependents
<1>0. /\ StoreTypeOK /\ edit[e] \in Edit /\ ms \in SUBSET Modules
      /\ \A x \in ms : modules[x].life # "absent"
    BY DEF TypeOK, EditTypeOK, Edit, SawRow
<1>1. CASE InsertHost(e)
    <2>1. UNCHANGED modules
        BY <1>1 DEF InsertHost
    <2>2. ASSUME NEW x \in Hosts
          PROVE  HostGrows(x)
        BY <1>0, <1>1 DEF InsertHost, HostGrows, StoreTypeOK
    <2> QED BY <2>1, <2>2 DEF RowsGrow, ModuleGrows
<1>2. CASE InsertModule(e)
    <2>1. UNCHANGED hosts
        BY <1>2 DEF InsertModule
    <2>2. ASSUME NEW x \in Modules
          PROVE  ModuleGrows(x)
        BY <1>0, <1>2 DEF InsertModule, ModuleGrows, StoreTypeOK
    <2> QED BY <2>1, <2>2 DEF RowsGrow, HostGrows
<1>3. CASE CommitHost(e)
    <2>1. CASE Unchanged(hosts[h], edit[e].version)
        <3> DEFINE row == [hosts[h] EXCEPT !.url = form.url, !.enabled = form.enabled,
                               !.version = hosts[h].version + 1,
                               !.vouched = IF edit[e].probed THEN form.url ELSE hosts[h].vouched]
        <3>1. hosts' = [hosts EXCEPT ![h] = row] /\ modules' = Bumped(ms)
            BY <1>3, <2>1 DEF CommitHost
        <3>2. h \in Hosts /\ hosts[h] \in HostRow /\ hosts[h].life = "live"
            BY <1>0, <1>3, <2>1 DEF CommitHost, Step, Concerns, StoreTypeOK, Unchanged
        <3>3. row.life = "live" /\ row.version = hosts[h].version + 1 /\ hosts[h].version \in Nat
            BY <3>2 DEF HostRow
        <3> HIDE DEF row
        <3>4. \A x \in Hosts : HostGrows(x)
            BY <1>0, <3>1, <3>2, <3>3 DEF HostGrows, StoreTypeOK
        <3> QED BY <1>0, <3>1, <3>4, BumpedGrow DEF RowsGrow
    <2>2. CASE ~Unchanged(hosts[h], edit[e].version)
        BY <1>3, <2>2 DEF CommitHost, Refuse, RowsGrow, HostGrows, ModuleGrows
    <2> QED BY <2>1, <2>2
<1>4. CASE CommitDeleteHost(e)
    <2>1. CASE hosts[h].life = "live"
        <3> DEFINE row == [hosts[h] EXCEPT !.life = "deleted", !.enabled = FALSE,
                               !.version = hosts[h].version + 1]
        <3>1. hosts' = [hosts EXCEPT ![h] = row] /\ modules' = Bumped(ms)
            BY <1>4, <2>1 DEF CommitDeleteHost
        <3>2. h \in Hosts /\ hosts[h] \in HostRow
            BY <1>0, <1>4 DEF CommitDeleteHost, Step, Concerns, StoreTypeOK
        <3>3. row.life = "deleted" /\ row.version = hosts[h].version + 1 /\ hosts[h].version \in Nat
            BY <3>2 DEF HostRow
        <3> HIDE DEF row
        <3>4. \A x \in Hosts : HostGrows(x)
            BY <1>0, <2>1, <3>1, <3>2, <3>3 DEF HostGrows, StoreTypeOK
        <3> QED BY <1>0, <3>1, <3>4, BumpedGrow DEF RowsGrow
    <2>2. CASE hosts[h].life # "live"
        BY <1>4, <2>2 DEF CommitDeleteHost, Refuse, RowsGrow, HostGrows, ModuleGrows
    <2> QED BY <2>1, <2>2
<1>5. CASE CommitModule(e)
    <2>1. CASE Unchanged(modules[m], edit[e].version)
        <3> DEFINE w == edit[e].before.monitoringVersion
                        + (IF Fingerprint(edit[e].before) # form THEN 1 ELSE 0)
                   row == [modules[m] EXCEPT !.host = form.host, !.target = form.target,
                               !.enabled = form.enabled, !.version = modules[m].version + 1,
                               !.monitoringVersion = w]
        <3>1. modules' = [modules EXCEPT ![m] = row] /\ UNCHANGED hosts
            BY <1>5, <2>1 DEF CommitModule
        <3> HIDE DEF w
        <3>2. m \in Modules /\ modules[m] \in ModuleRow /\ modules[m].life = "live"
            BY <1>0, <1>5, <2>1 DEF CommitModule, Step, Concerns, StoreTypeOK, Unchanged
        <3>3. row.life = "live" /\ row.version = modules[m].version + 1 /\ modules[m].version \in Nat
            BY <3>2 DEF ModuleRow
        <3> HIDE DEF row
        <3>4. \A x \in Modules : ModuleGrows(x)
            BY <1>0, <3>1, <3>2, <3>3 DEF ModuleGrows, StoreTypeOK
        <3> QED BY <3>1, <3>4 DEF RowsGrow, HostGrows
    <2>2. CASE ~Unchanged(modules[m], edit[e].version)
        BY <1>5, <2>2 DEF CommitModule, Refuse, RowsGrow, HostGrows, ModuleGrows
    <2> QED BY <2>1, <2>2
<1>6. CASE CommitDeleteModule(e)
    <2>1. CASE modules[m].life = "live"
        <3> DEFINE row == [modules[m] EXCEPT !.life = "deleted", !.enabled = FALSE,
                               !.version = modules[m].version + 1,
                               !.monitoringVersion = modules[m].monitoringVersion + 1]
        <3>1. modules' = [modules EXCEPT ![m] = row] /\ UNCHANGED hosts
            BY <1>6, <2>1 DEF CommitDeleteModule
        <3>2. m \in Modules /\ modules[m] \in ModuleRow
            BY <1>0, <1>6 DEF CommitDeleteModule, Step, Concerns, StoreTypeOK
        <3>3. row.life = "deleted" /\ row.version = modules[m].version + 1
              /\ modules[m].version \in Nat
            BY <3>2 DEF ModuleRow
        <3> HIDE DEF row
        <3>4. \A x \in Modules : ModuleGrows(x)
            BY <1>0, <2>1, <3>1, <3>2, <3>3 DEF ModuleGrows, StoreTypeOK
        <3> QED BY <3>1, <3>4 DEF RowsGrow, HostGrows
    <2>2. CASE modules[m].life # "live"
        BY <1>6, <2>2 DEF CommitDeleteModule, Refuse, RowsGrow, HostGrows, ModuleGrows
    <2> QED BY <2>1, <2>2
<1> QED BY <1>1, <1>2, <1>3, <1>4, <1>5, <1>6

LEMMA NextGrows ==
    ASSUME TypeOK, EditsAreSane, Next
    PROVE  RowsGrow
<1>1. CASE CollectorNext \/ Tick
    BY <1>1 DEF CollectorNext, CollectStart, CollectCommit, CollectStops, RetainAll, Tick,
                RowsGrow, HostGrows, ModuleGrows
<1>2. CASE EditNext
    <2>1. PICK e \in Editors : Opens(e) \/ Advances(e) \/ EditStops(e)
        BY <1>2 DEF EditNext
    <2>2. CASE Opens(e)
        BY <2>2 DEF Opens, AddHost, OpenHost, OpenDeleteHost, AddModule, OpenModule,
                    OpenDeleteModule, storeVars, RowsGrow, HostGrows, ModuleGrows
    <2>3. CASE \/ Review(e) \/ Probe(e) \/ Validate(e)
               \/ BeginHost(e) \/ BeginDeleteHost(e) \/ BeginModule(e)
               \/ LockNext(e) \/ EditStops(e)
        BY <2>3 DEF Review, Probe, Validate, BeginHost, BeginDeleteHost, BeginModule, LockNext,
                    EditStops, storeVars, RowsGrow, HostGrows, ModuleGrows
    <2>4. CASE \/ InsertHost(e) \/ InsertModule(e)
               \/ CommitHost(e) \/ CommitDeleteHost(e)
               \/ CommitModule(e) \/ CommitDeleteModule(e)
        BY <2>4, WritingEditsGrow DEF EditsAreSane
    <2> QED BY <2>1, <2>2, <2>3, <2>4 DEF Advances
<1> QED BY <1>1, <1>2 DEF Next

-----------------------------------------------------------------------------
(* Edits *)

\* What an edit saw survives the steps of others.
LEMMA StillSaw ==
    ASSUME TypeOK, TypeOK', RowsGrow, NEW x \in Edit, Concerns(x), SawRow(x)
    PROVE  SawRow(x)'
<1>1. x.dependents \in SUBSET Modules /\ x.version \in Nat
    BY DEF Edit
<1>2. \A m \in Modules : /\ ModuleGrows(m)
                         /\ modules[m].version \in Nat /\ modules'[m].version \in Nat
                         /\ modules[m].life # "absent" => modules'[m].life # "absent"
    BY DEF RowsGrow, ModuleGrows, TypeOK, StoreTypeOK, ModuleRow
<1>3. \A h \in Hosts : /\ HostGrows(h)
                       /\ hosts[h].version \in Nat /\ hosts'[h].version \in Nat
                       /\ hosts[h].life # "absent" => hosts'[h].life # "absent"
    BY DEF RowsGrow, HostGrows, TypeOK, StoreTypeOK, HostRow
<1>4. \A m \in x.dependents : modules'[m].life # "absent"
    BY <1>1, <1>2 DEF SawRow
<1>5. /\ x.kind \in {"editHost", "deleteHost"} => hosts'[x.host].life # "absent"
      /\ x.kind \in {"editModule", "deleteModule"} => modules'[x.module].life # "absent"
    BY <1>2, <1>3 DEF SawRow, Concerns
<1>6. ASSUME x.kind = "editHost"
      PROVE  /\ x.version <= hosts'[x.host].version
             /\ x.version = hosts'[x.host].version =>
                   x.saw = [url |-> hosts'[x.host].url, enabled |-> hosts'[x.host].enabled]
    <2> DEFINE h == x.host
    <2>1. /\ h \in Hosts /\ hosts[h].life # "absent" /\ x.version <= hosts[h].version
          /\ x.version = hosts[h].version =>
                x.saw = [url |-> hosts[h].url, enabled |-> hosts[h].enabled]
        BY <1>6 DEF SawRow, Concerns
    <2>2. CASE hosts'[h] = hosts[h]
        BY <2>1, <2>2
    <2>3. CASE hosts'[h].version > hosts[h].version
        BY <1>1, <1>3, <2>1, <2>3
    <2> QED BY <1>3, <2>1, <2>2, <2>3 DEF HostGrows
<1>7. ASSUME x.kind = "editModule"
      PROVE  /\ x.version <= modules'[x.module].version
             /\ x.version = modules'[x.module].version =>
                   x.saw = Fingerprint(modules'[x.module])
    <2> DEFINE m == x.module
    <2>1. /\ m \in Modules /\ modules[m].life # "absent" /\ x.version <= modules[m].version
          /\ x.version = modules[m].version => x.saw = Fingerprint(modules[m])
        BY <1>7 DEF SawRow, Concerns
    <2>2. CASE modules'[m].version = modules[m].version
               /\ Fingerprint(modules'[m]) = Fingerprint(modules[m])
        BY <2>1, <2>2
    <2>3. CASE modules'[m].version > modules[m].version
        BY <1>1, <1>2, <2>1, <2>3
    <2>4. CASE modules'[m] = modules[m]
        BY <2>1, <2>4
    <2> QED BY <1>2, <2>1, <2>2, <2>3, <2>4 DEF ModuleGrows
<1> QED BY <1>4, <1>5, <1>6, <1>7 DEF SawRow

LEMMA StillVouches ==
    ASSUME TypeOK, TypeOK', RowsGrow, NEW x \in Edit, Concerns(x), SawRow(x), Vouches(x)
    PROVE  Vouches(x)'
<1>1. \A h \in Hosts : HostGrows(h) /\ hosts[h].version \in Nat /\ hosts'[h].version \in Nat
    BY DEF RowsGrow, TypeOK, StoreTypeOK, HostRow
<1>2. x.version \in Nat
    BY DEF Edit
<1>3. ASSUME x.kind = "editHost", x.pc \in {"begin", "lock"}, x.form.enabled, ~x.probed,
             x.version = hosts'[x.host].version
      PROVE  hosts'[x.host].enabled /\ hosts'[x.host].url = x.form.url
    <2>1. x.host \in Hosts /\ hosts[x.host].life # "absent" /\ x.version <= hosts[x.host].version
        BY <1>3 DEF Concerns, SawRow
    <2>2. hosts'[x.host] = hosts[x.host]
        BY <1>1, <1>2, <1>3, <2>1 DEF HostGrows
    <2> QED BY <1>3, <2>2 DEF Vouches
<1>4. x.kind = "addHost" /\ x.pc = "insert" /\ x.form.enabled => x.probed
    BY DEF Vouches
<1> QED BY <1>3, <1>4 DEF Vouches

\* What it saw is all that is asked of an edit on its way.
LEMMA MovedSaw ==
    ASSUME NEW x, NEW y, SawRow(x)',
           y.kind = x.kind, y.host = x.host, y.module = x.module, y.form = x.form,
           y.version = x.version, y.saw = x.saw,
           \A m \in y.dependents : modules'[m].life # "absent"
    PROVE  SawRow(y)'
BY DEF SawRow

IsSane(x) == Waits(x) /\ Concerns(x) /\ SawRow(x) /\ Vouches(x)

\* As a page opens.
IsNew(x) == IsSane(x) /\ x.pc \in {"review", "probe", "validate", "insert", "begin"}

LEMMA OpenedSane ==
    ASSUME TypeOK, NEW e \in Editors, Opens(e)
    PROVE  \E y : edit' = [edit EXCEPT ![e] = y] /\ IsNew(y) /\ UNCHANGED <<hosts, modules>>
<1> USE DEF Idle, IsNew, IsSane, Waits, Concerns, SawRow, Vouches
<1>1. ASSUME NEW h \in Hosts, NEW form \in HostForms, AddHost(e, h, form)
      PROVE  \E y : edit' = [edit EXCEPT ![e] = y] /\ IsNew(y) /\ UNCHANGED <<hosts, modules>>
    <2> DEFINE y == [Idle EXCEPT !.kind = "addHost", !.host = h, !.form = form,
                                 !.pc = IF form.enabled THEN "probe" ELSE "insert"]
    <2>1. edit' = [edit EXCEPT ![e] = y] /\ UNCHANGED <<hosts, modules>>
        BY <1>1 DEF AddHost, storeVars
    <2>2. IsNew(y)
        OBVIOUS
    <2> HIDE DEF y
    <2> QED BY <2>1, <2>2
<1>2. ASSUME NEW h \in Hosts, NEW form \in HostForms, OpenHost(e, h, form)
      PROVE  \E y : edit' = [edit EXCEPT ![e] = y] /\ IsNew(y) /\ UNCHANGED <<hosts, modules>>
    <2> DEFINE y == [Idle EXCEPT !.kind = "editHost", !.pc = "review", !.host = h, !.form = form,
                                 !.version = hosts[h].version,
                                 !.saw = [url |-> hosts[h].url, enabled |-> hosts[h].enabled]]
    <2>1. edit' = [edit EXCEPT ![e] = y] /\ UNCHANGED <<hosts, modules>> /\ hosts[h].life = "live"
        BY <1>2 DEF OpenHost, storeVars
    <2>2. hosts[h].version \in Nat
        BY DEF TypeOK, StoreTypeOK, HostRow
    <2>3. IsNew(y)
        BY <2>1, <2>2
    <2> HIDE DEF y
    <2> QED BY <2>1, <2>3
<1>3. ASSUME NEW h \in Hosts, OpenDeleteHost(e, h)
      PROVE  \E y : edit' = [edit EXCEPT ![e] = y] /\ IsNew(y) /\ UNCHANGED <<hosts, modules>>
    <2> DEFINE y == [Idle EXCEPT !.kind = "deleteHost", !.pc = "begin", !.host = h]
    <2>1. edit' = [edit EXCEPT ![e] = y] /\ UNCHANGED <<hosts, modules>> /\ hosts[h].life = "live"
        BY <1>3 DEF OpenDeleteHost, storeVars
    <2>2. IsNew(y)
        BY <2>1
    <2> HIDE DEF y
    <2> QED BY <2>1, <2>2
<1>4. ASSUME NEW m \in Modules, NEW form \in ModuleForms, AddModule(e, m, form)
      PROVE  \E y : edit' = [edit EXCEPT ![e] = y] /\ IsNew(y) /\ UNCHANGED <<hosts, modules>>
    <2> DEFINE y == [Idle EXCEPT !.kind = "addModule", !.pc = "validate", !.module = m,
                                 !.form = form]
    <2>1. edit' = [edit EXCEPT ![e] = y] /\ UNCHANGED <<hosts, modules>>
        BY <1>4 DEF AddModule, storeVars
    <2>2. IsNew(y)
        OBVIOUS
    <2> HIDE DEF y
    <2> QED BY <2>1, <2>2
<1>5. ASSUME NEW m \in Modules, NEW form \in ModuleForms, OpenModule(e, m, form)
      PROVE  \E y : edit' = [edit EXCEPT ![e] = y] /\ IsNew(y) /\ UNCHANGED <<hosts, modules>>
    <2> DEFINE y == [Idle EXCEPT !.kind = "editModule", !.pc = "validate", !.module = m,
                                 !.form = form, !.version = modules[m].version,
                                 !.saw = Fingerprint(modules[m])]
    <2>1. edit' = [edit EXCEPT ![e] = y] /\ UNCHANGED <<hosts, modules>> /\ modules[m].life = "live"
        BY <1>5 DEF OpenModule, storeVars
    <2>2. modules[m].version \in Nat
        BY DEF TypeOK, StoreTypeOK, ModuleRow
    <2>3. IsNew(y)
        BY <2>1, <2>2
    <2> HIDE DEF y
    <2> QED BY <2>1, <2>3
<1>6. ASSUME NEW m \in Modules, OpenDeleteModule(e, m)
      PROVE  \E y : edit' = [edit EXCEPT ![e] = y] /\ IsNew(y) /\ UNCHANGED <<hosts, modules>>
    <2> DEFINE y == [Idle EXCEPT !.kind = "deleteModule", !.pc = "begin", !.module = m]
    <2>1. edit' = [edit EXCEPT ![e] = y] /\ UNCHANGED <<hosts, modules>> /\ modules[m].life = "live"
        BY <1>6 DEF OpenDeleteModule, storeVars
    <2>2. IsNew(y)
        BY <2>1
    <2> HIDE DEF y
    <2> QED BY <2>1, <2>2
<1> QED BY <1>1, <1>2, <1>3, <1>4, <1>5, <1>6 DEF Opens

LEMMA MovedSane ==
    ASSUME NEW x, NEW y, IsSane(x), SawRow(x)',
           y.kind = x.kind, y.host = x.host, y.module = x.module, y.form = x.form,
           y.version = x.version, y.saw = x.saw,
           \A m \in y.dependents : modules'[m].life # "absent",
           Waits(y), Vouches(y)'
    PROVE  IsSane(y)'
<1>1. SawRow(y)'
    BY MovedSaw
<1>2. Concerns(y)
    BY DEF IsSane, Concerns
<1> QED BY <1>1, <1>2 DEF IsSane, Waits, Concerns
\* Every step of an edit under way leaves it sane.
LEMMA AdvancedSane ==
    ASSUME TypeOK, TypeOK', RowsGrow, NEW e \in Editors, IsSane(edit[e]),
           Advances(e) \/ EditStops(e)
    PROVE  \E y : edit' = [edit EXCEPT ![e] = y] /\ IsSane(y)'
<1> PICK x : x = edit[e]
    OBVIOUS
<1> DEFINE at(pc) == [x EXCEPT !.pc = pc]
           goal == \E y : edit' = [edit EXCEPT ![e] = y] /\ IsSane(y)'
<1>1. x \in Edit /\ EditTypeOK /\ IsSane(x)
    BY DEF TypeOK, EditTypeOK
<1>2. SawRow(x)'
    BY <1>1, StillSaw DEF IsSane
<1>3. \A m \in x.dependents : modules'[m].life # "absent"
    BY <1>2 DEF SawRow
<1>4. ASSUME NEW pc, GoTo(e, pc), Waits(at(pc)), Vouches(at(pc))'
      PROVE  goal
    <2> PICK y : y = at(pc)
        OBVIOUS
    <2>1. edit' = [edit EXCEPT ![e] = y]
        BY <1>1, <1>4 DEF GoTo, EditTypeOK
    <2>2. /\ y.kind = x.kind /\ y.host = x.host /\ y.module = x.module /\ y.form = x.form
          /\ y.version = x.version /\ y.saw = x.saw /\ y.dependents = x.dependents
        BY <1>1 DEF Edit
    <2>3. Waits(y) /\ Vouches(y)'
        BY <1>4
    <2>4. IsSane(y)'
        BY <1>1, <1>2, <1>3, <2>2, <2>3, MovedSane
    <2> QED BY <2>1, <2>4
<1>5. \A pc : at(pc).kind = x.kind /\ at(pc).pc = pc /\ at(pc).form = x.form
              /\ at(pc).probed = x.probed /\ at(pc).version = x.version /\ at(pc).host = x.host
    BY <1>1 DEF Edit
<1>6. Waits(x)
    BY <1>1 DEF IsSane
<1>7. ASSUME NEW y, edit' = [edit EXCEPT ![e] = y],
             y.kind = x.kind, y.host = x.host, y.module = x.module, y.form = x.form,
             y.version = x.version, y.saw = x.saw,
             \A m \in y.dependents : modules'[m].life # "absent",
             Waits(y), Vouches(y)'
      PROVE  goal
    BY <1>1, <1>2, <1>7, MovedSane
<1>8. ASSUME NEW pc \in {"saved", "refused"}, GoTo(e, pc), x.kind # "none"
      PROVE  goal
    <2>1. Waits(at(pc))
        BY <1>5, <1>8 DEF Waits
    <2>2. Vouches(at(pc))'
        BY <1>5, <1>8 DEF Vouches
    <2> QED BY <1>4, <1>8, <2>1, <2>2
<1>9. CASE EditStops(e)
    BY <1>6, <1>8, <1>9 DEF EditStops, Ended, Waits
<1>10. CASE \/ InsertHost(e) \/ InsertModule(e)
            \/ CommitHost(e) \/ CommitDeleteHost(e)
            \/ CommitModule(e) \/ CommitDeleteModule(e)
    <2>1. GoTo(e, "saved") \/ GoTo(e, "refused")
        BY <1>10 DEF InsertHost, InsertModule, CommitHost, CommitDeleteHost, CommitModule,
                     CommitDeleteModule, Refuse
    <2>2. x.kind # "none"
        BY <1>10 DEF InsertHost, InsertModule, CommitHost, CommitDeleteHost, CommitModule,
                     CommitDeleteModule, Step
    <2> QED BY <1>8, <2>1, <2>2
<1>11. CASE Review(e)
    <2> DEFINE row == hosts[x.host]
    <2>1. x.kind = "editHost" /\ x.pc = "review" /\ UNCHANGED hosts
        BY <1>6, <1>11 DEF Review, Waits, storeVars
    <2>2. CASE row.life # "live"
        BY <1>8, <1>11, <2>1, <2>2 DEF Review
    <2>3. CASE row.life = "live" /\ NeedsProbe(row, x.form)
        <3>1. GoTo(e, "probe")
            BY <1>11, <2>3 DEF Review
        <3>2. Waits(at("probe")) /\ Vouches(at("probe"))'
            BY <1>5, <2>1 DEF Waits, Vouches
        <3> QED BY <1>4, <3>1, <3>2
    <2>4. CASE row.life = "live" /\ ~NeedsProbe(row, x.form)
        <3>1. GoTo(e, "begin")
            BY <1>11, <2>4 DEF Review
        <3>2. Waits(at("begin")) /\ Vouches(at("begin"))'
            BY <1>5, <2>1, <2>4 DEF Waits, Vouches, NeedsProbe
        <3> QED BY <1>4, <3>1, <3>2
    <2> QED BY <2>2, <2>3, <2>4
<1>12. CASE Probe(e)
    <2> DEFINE pc == IF x.kind = "addHost" THEN "insert" ELSE "begin"
               y == [x EXCEPT !.probed = TRUE, !.pc = pc]
    <2>1. edit' = [edit EXCEPT ![e] = y] /\ x.pc = "probe"
        BY <1>1, <1>12 DEF Probe, EditTypeOK
    <2>2. /\ y.kind = x.kind /\ y.host = x.host /\ y.module = x.module /\ y.form = x.form
          /\ y.version = x.version /\ y.saw = x.saw /\ y.dependents = x.dependents
          /\ y.probed = TRUE /\ y.pc = pc
        BY <1>1 DEF Edit
    <2> HIDE DEF y
    <2>3. Waits(y)
        BY <1>6, <2>1, <2>2 DEF Waits
    <2>4. Vouches(y)'
        BY <2>2 DEF Vouches
    <2> QED BY <1>3, <1>7, <2>1, <2>2, <2>3, <2>4
<1>13. CASE Validate(e)
    <2>1. PICK pc \in {"refused", "insert", "begin"} :
             /\ GoTo(e, pc)
             /\ pc = "insert" => x.kind = "addModule"
             /\ pc = "begin" => x.kind # "addModule"
        BY <1>13 DEF Validate
    <2>2. x.pc = "validate"
        BY <1>13 DEF Validate
    <2>3. Waits(at(pc)) /\ Vouches(at(pc))'
        BY <1>5, <1>6, <2>1, <2>2 DEF Waits, Vouches
    <2> QED BY <1>4, <2>1, <2>3
<1>14. CASE BeginHost(e)
    <2> PICK ms : ms = Dependents(x.host, x.form)
        OBVIOUS
    <2> PICK y : y = [x EXCEPT !.pc = "lock", !.dependents = ms, !.todo = ms]
        OBVIOUS
    <2>1. x.kind = "editHost" /\ x.pc = "begin" /\ UNCHANGED <<hosts, modules>>
        BY <1>14 DEF BeginHost, Step, storeVars
    <2>2. CASE hosts[x.host].life # "live"
        BY <1>8, <1>14, <2>1, <2>2 DEF BeginHost
    <2>3. CASE hosts[x.host].life = "live"
        <3>1. edit' = [edit EXCEPT ![e] = y]
            BY <1>1, <1>14, <2>3 DEF BeginHost, EditTypeOK
        <3>2. \A m \in ms : modules'[m].life # "absent"
            BY <2>1 DEF Dependents, OnHost
        <3>3. /\ y.kind = x.kind /\ y.host = x.host /\ y.module = x.module /\ y.form = x.form
              /\ y.version = x.version /\ y.saw = x.saw /\ y.dependents = ms
              /\ y.probed = x.probed /\ y.pc = "lock"
            BY <1>1 DEF Edit
        <3>4. Waits(y)
            BY <2>1, <3>3 DEF Waits
        <3>5. Vouches(y)'
            BY <1>1, <2>1, <3>3 DEF IsSane, Vouches
        <3> QED BY <1>7, <3>1, <3>2, <3>3, <3>4, <3>5
    <2> QED BY <2>2, <2>3
<1>15. CASE BeginDeleteHost(e)
    <2> PICK ms : ms = OnHost(x.host)
        OBVIOUS
    <2> PICK y : y = [x EXCEPT !.pc = "lock", !.dependents = ms, !.todo = ms]
        OBVIOUS
    <2>1. x.kind = "deleteHost" /\ x.pc = "begin" /\ UNCHANGED <<hosts, modules>>
        BY <1>15 DEF BeginDeleteHost, Step, storeVars
    <2>2. edit' = [edit EXCEPT ![e] = y]
        BY <1>1, <1>15 DEF BeginDeleteHost, EditTypeOK
    <2>3. \A m \in ms : modules'[m].life # "absent"
        BY <2>1 DEF OnHost
    <2>4. /\ y.kind = x.kind /\ y.host = x.host /\ y.module = x.module /\ y.form = x.form
          /\ y.version = x.version /\ y.saw = x.saw /\ y.dependents = ms /\ y.pc = "lock"
        BY <1>1 DEF Edit
    <2>5. Waits(y) /\ Vouches(y)'
        BY <2>1, <2>4 DEF Waits, Vouches
    <2> QED BY <1>7, <2>2, <2>3, <2>4, <2>5
<1>16. CASE BeginModule(e)
    <2> PICK y : y = [x EXCEPT !.pc = "commit", !.before = modules[x.module]]
        OBVIOUS
    <2>1. x.kind \in {"editModule", "deleteModule"}
        BY <1>16 DEF BeginModule
    <2>2. edit' = [edit EXCEPT ![e] = y]
        BY <1>1, <1>16 DEF BeginModule, EditTypeOK
    <2>3. /\ y.kind = x.kind /\ y.host = x.host /\ y.module = x.module /\ y.form = x.form
          /\ y.version = x.version /\ y.saw = x.saw /\ y.dependents = x.dependents
          /\ y.pc = "commit"
        BY <1>1 DEF Edit
    <2>4. Waits(y) /\ Vouches(y)'
        BY <2>1, <2>3 DEF Waits, Vouches
    <2> QED BY <1>3, <1>7, <2>2, <2>3, <2>4
<1>17. CASE LockNext(e)
    <2>1. x.pc = "lock" /\ UNCHANGED hosts
        BY <1>17 DEF LockNext
    <2>2. PICK m \in LowestFirst(x.todo) : edit' = [edit EXCEPT ![e].todo = x.todo \ {m}]
        BY <1>1, <1>17 DEF LockNext, EditTypeOK
    <2> DEFINE y == [x EXCEPT !.todo = x.todo \ {m}]
    <2>3. edit' = [edit EXCEPT ![e] = y]
        BY <1>1, <2>2 DEF EditTypeOK
    <2>4. /\ y.kind = x.kind /\ y.host = x.host /\ y.module = x.module /\ y.form = x.form
          /\ y.version = x.version /\ y.saw = x.saw /\ y.dependents = x.dependents
          /\ y.probed = x.probed /\ y.pc = x.pc
        BY <1>1 DEF Edit
    <2> HIDE DEF y
    <2>5. Waits(y)
        BY <1>6, <2>1, <2>4 DEF Waits
    <2>6. Vouches(y)'
        BY <1>1, <2>1, <2>4 DEF IsSane, Vouches
    <2> QED BY <1>3, <1>7, <2>3, <2>4, <2>5, <2>6
<1> QED BY <1>9, <1>10, <1>11, <1>12, <1>13, <1>14, <1>15, <1>16, <1>17 DEF Advances

LEMMA NextSane ==
    ASSUME TypeOK, TypeOK', EditsAreSane, Next
    PROVE  EditsAreSane'
<1>1. RowsGrow
    BY NextGrows
<1>2. ASSUME NEW x \in Edit, IsSane(x)
      PROVE  IsSane(x)'
    <2>1. SawRow(x)' /\ Vouches(x)'
        BY <1>1, <1>2, StillSaw, StillVouches DEF IsSane
    <2> QED BY <1>2, <2>1 DEF IsSane, Waits, Concerns
<1>3. \A e \in Editors : edit[e] \in Edit /\ IsSane(edit[e])
    BY DEF TypeOK, EditTypeOK, EditsAreSane, IsSane
<1>4. CASE UNCHANGED edit
    <2>1. ASSUME NEW e \in Editors, NEW x, x = edit'[e]
          PROVE  IsSane(x)'
        BY <1>2, <1>3, <1>4, <2>1
    <2> QED BY <2>1 DEF EditsAreSane, IsSane
<1>5. CASE EditNext
    <2>1. PICK e \in Editors : Opens(e) \/ Advances(e) \/ EditStops(e)
        BY <1>5 DEF EditNext
    <2>2. \E y : edit' = [edit EXCEPT ![e] = y] /\ IsSane(y)'
        <3>1. CASE Opens(e)
            <4>1. PICK y : edit' = [edit EXCEPT ![e] = y] /\ IsNew(y)
                           /\ UNCHANGED <<hosts, modules>>
                BY <3>1, OpenedSane
            <4>2. IsSane(y)'
                BY <4>1 DEF IsNew, IsSane, Waits, Concerns, SawRow, Vouches
            <4> QED BY <4>1, <4>2
        <3>2. CASE Advances(e) \/ EditStops(e)
            BY <1>1, <1>3, <3>2, AdvancedSane
        <3> QED BY <2>1, <3>1, <3>2
    <2>3. PICK y : edit' = [edit EXCEPT ![e] = y] /\ IsSane(y)'
        BY <2>2
    <2>4. ASSUME NEW f \in Editors, NEW x, x = edit'[f]
          PROVE  IsSane(x)'
        <3>1. CASE f = e
            <4>1. x = y
                BY <2>3, <2>4, <3>1 DEF TypeOK, EditTypeOK
            <4> QED BY <2>3, <4>1
        <3>2. CASE f # e
            <4>1. x = edit[f]
                BY <2>3, <2>4, <3>2 DEF TypeOK, EditTypeOK
            <4> QED BY <1>2, <1>3, <4>1
        <3> QED BY <3>1, <3>2
    <2> QED BY <2>4 DEF EditsAreSane, IsSane
<1> QED BY <1>4, <1>5 DEF Next

LEMMA NextVouched ==
    ASSUME TypeOK, EditsAreSane, EnabledIsVouched, Next
    PROVE  EnabledIsVouched'
<1>1. CASE UNCHANGED hosts
    BY <1>1 DEF EnabledIsVouched
<1>2. ASSUME NEW e \in Editors, InsertHost(e) \/ CommitHost(e) \/ CommitDeleteHost(e)
      PROVE  EnabledIsVouched'
    <2> DEFINE h == edit[e].host
               form == edit[e].form
               y == edit[e]
    <2>1. h \in Hosts /\ Vouches(edit[e]) /\ hosts[h] \in HostRow
          /\ \A x \in Hosts : hosts[x].enabled => hosts[x].vouched = hosts[x].url
        BY <1>2 DEF InsertHost, CommitHost, CommitDeleteHost, Step, EditsAreSane, Concerns,
                    TypeOK, StoreTypeOK, EnabledIsVouched
    <2>2. ASSUME NEW row, hosts' = [hosts EXCEPT ![h] = row],
                 row.enabled => row.vouched = row.url
          PROVE  EnabledIsVouched'
        BY <2>1, <2>2 DEF EnabledIsVouched, TypeOK, StoreTypeOK
    <2>3. CASE InsertHost(e)
        <3> DEFINE row == [life |-> "live", url |-> form.url, enabled |-> form.enabled,
                           version |-> 0,
                           vouched |-> IF edit[e].probed THEN form.url ELSE None]
        <3>1. CASE hosts[h].life = "absent"
            <4>1. hosts' = [hosts EXCEPT ![h] = row]
                BY <2>3, <3>1 DEF InsertHost
            <4>2. row.enabled => row.vouched = row.url
                BY <2>1, <2>3 DEF InsertHost, Step, Vouches
            <4> HIDE DEF row
            <4> QED BY <2>2, <4>1, <4>2
        <3>2. CASE hosts[h].life # "absent"
            BY <1>1, <2>3, <3>2 DEF InsertHost
        <3> QED BY <3>1, <3>2
    <2>4. CASE CommitHost(e)
        <3> DEFINE row == [hosts[h] EXCEPT !.url = form.url, !.enabled = form.enabled,
                               !.version = hosts[h].version + 1,
                               !.vouched = IF edit[e].probed THEN form.url ELSE hosts[h].vouched]
        <3>1. CASE Unchanged(hosts[h], edit[e].version)
            <4>1. hosts' = [hosts EXCEPT ![h] = row]
                BY <2>4, <3>1 DEF CommitHost
            <4>2. /\ row.enabled = form.enabled /\ row.url = form.url
                  /\ row.vouched = IF edit[e].probed THEN form.url ELSE hosts[h].vouched
                BY <2>1 DEF HostRow
            <4> HIDE DEF row
            <4>3. row.enabled => row.vouched = row.url
                <5>1. CASE edit[e].probed
                    BY <4>2, <5>1
                <5>2. CASE ~edit[e].probed
                    <6>1. form.enabled => hosts[h].enabled /\ hosts[h].url = form.url
                        BY <2>1, <2>4, <3>1, <5>2 DEF CommitHost, Step, Unchanged, Vouches
                    <6> QED BY <2>1, <4>2, <5>2, <6>1
                <5> QED BY <5>1, <5>2
            <4> QED BY <2>2, <4>1, <4>3
        <3>2. CASE ~Unchanged(hosts[h], edit[e].version)
            BY <1>1, <2>4, <3>2 DEF CommitHost, Refuse
        <3> QED BY <3>1, <3>2
    <2>5. CASE CommitDeleteHost(e)
        <3> DEFINE row == [hosts[h] EXCEPT !.life = "deleted", !.enabled = FALSE,
                               !.version = hosts[h].version + 1]
        <3>1. CASE hosts[h].life = "live"
            <4>1. hosts' = [hosts EXCEPT ![h] = row]
                BY <2>5, <3>1 DEF CommitDeleteHost
            <4>2. row.enabled = FALSE
                BY <2>1 DEF HostRow
            <4> HIDE DEF row
            <4> QED BY <2>2, <4>1, <4>2
        <3>2. CASE hosts[h].life # "live"
            BY <1>1, <2>5, <3>2 DEF CommitDeleteHost, Refuse
        <3> QED BY <3>1, <3>2
    <2> QED BY <1>2, <2>3, <2>4, <2>5
<1>3. CASE CollectorNext \/ Tick
    BY <1>1, <1>3 DEF CollectorNext, CollectStart, CollectCommit, CollectStops, RetainAll, Tick
<1>4. CASE EditNext
    <2>1. PICK e \in Editors : Opens(e) \/ Advances(e) \/ EditStops(e)
        BY <1>4 DEF EditNext
    <2>2. CASE Opens(e)
        BY <1>1, <2>2 DEF Opens, AddHost, OpenHost, OpenDeleteHost, AddModule, OpenModule,
                          OpenDeleteModule, storeVars
    <2>3. CASE \/ Review(e) \/ Probe(e) \/ Validate(e)
               \/ BeginHost(e) \/ BeginDeleteHost(e) \/ BeginModule(e)
               \/ LockNext(e) \/ EditStops(e)
        BY <1>1, <2>3 DEF Review, Probe, Validate, BeginHost, BeginDeleteHost, BeginModule,
                          LockNext, EditStops, storeVars
    <2>4. CASE InsertModule(e) \/ CommitModule(e) \/ CommitDeleteModule(e)
        BY <1>1, <2>4 DEF InsertModule, CommitModule, CommitDeleteModule, Refuse
    <2>5. CASE InsertHost(e) \/ CommitHost(e) \/ CommitDeleteHost(e)
        BY <1>2, <2>5
    <2> QED BY <2>1, <2>2, <2>3, <2>4, <2>5 DEF Advances
<1> QED BY <1>3, <1>4 DEF Next

\* What is saved replaces what its page showed.
LEMMA SavedWasSeen ==
    ASSUME TypeOK, EditsAreSane, Next, NEW e \in Editors,
           edit[e].pc # "saved", edit'[e].pc = "saved"
    PROVE  edit[e].saw = Shows(e)
<1>1. EditTypeOK /\ edit[e] \in Edit /\ Waits(edit[e]) /\ Concerns(edit[e]) /\ SawRow(edit[e])
    BY DEF TypeOK, EditTypeOK, EditsAreSane
<1>2. edit' # edit
    OBVIOUS
<1>3. PICK f \in Editors : Opens(f) \/ Advances(f) \/ EditStops(f)
    BY <1>2 DEF Next, EditNext
<1>4. ASSUME NEW pc, GoTo(f, pc)
      PROVE  pc = "saved" /\ f = e
    BY <1>1, <1>4 DEF GoTo, EditTypeOK, Edit
<1>5. CASE \/ edit[e].kind = "editHost" /\ edit[e].version = hosts[edit[e].host].version
           \/ edit[e].kind = "editModule" /\ edit[e].version = modules[edit[e].module].version
           \/ edit[e].kind \notin {"editHost", "editModule"}
    <2>1. CASE edit[e].kind = "editHost" /\ edit[e].version = hosts[edit[e].host].version
        <3>1. Shows(e) = [url |-> hosts[edit[e].host].url, enabled |-> hosts[edit[e].host].enabled]
            BY <2>1 DEF Shows
        <3> QED BY <1>1, <2>1, <3>1 DEF SawRow
    <2>2. CASE edit[e].kind = "editModule"
               /\ edit[e].version = modules[edit[e].module].version
        <3>1. Shows(e) = Fingerprint(modules[edit[e].module])
            BY <2>2 DEF Shows
        <3> QED BY <1>1, <2>2, <3>1 DEF SawRow
    <2>3. CASE edit[e].kind \notin {"editHost", "editModule"}
        <3>1. Shows(e) = None
            BY <2>3 DEF Shows
        <3> QED BY <1>1, <2>3, <3>1 DEF Concerns
    <2> QED BY <1>5, <2>1, <2>2, <2>3
<1>6. CASE Opens(f)
    <2>1. PICK y : edit' = [edit EXCEPT ![f] = y] /\ IsNew(y)
        BY <1>6, OpenedSane
    <2> QED BY <1>1, <2>1 DEF EditTypeOK, IsNew
<1>7. CASE Review(f) \/ Validate(f) \/ EditStops(f)
    <2>1. \E pc \in {"refused", "probe", "begin", "insert"} : GoTo(f, pc)
        BY <1>7 DEF Review, Validate, EditStops
    <2> QED BY <1>4, <2>1
<1>8. CASE Probe(f) \/ BeginHost(f) \/ BeginDeleteHost(f) \/ BeginModule(f) \/ LockNext(f)
    <2>1. CASE GoTo(f, "refused")
        BY <1>4, <2>1
    <2>2. CASE ~GoTo(f, "refused")
        BY <1>1, <1>8, <2>2 DEF Probe, BeginHost, BeginDeleteHost, BeginModule, LockNext,
                                EditTypeOK, Edit
    <2> QED BY <2>1, <2>2
<1>9. CASE InsertHost(f) \/ InsertModule(f) \/ CommitDeleteHost(f) \/ CommitDeleteModule(f)
    <2>1. f = e
        BY <1>4, <1>9 DEF InsertHost, InsertModule, CommitDeleteHost, CommitDeleteModule, Refuse
    <2> QED BY <1>5, <1>9, <2>1 DEF InsertHost, InsertModule, CommitDeleteHost,
                                   CommitDeleteModule, Step
<1>10. CASE CommitHost(f)
    <2>1. Unchanged(hosts[edit[f].host], edit[f].version) /\ f = e
        BY <1>4, <1>10 DEF CommitHost, Refuse
    <2> QED BY <1>5, <1>10, <2>1 DEF CommitHost, Step, Unchanged
<1>11. CASE CommitModule(f)
    <2>1. Unchanged(modules[edit[f].module], edit[f].version) /\ f = e
        BY <1>4, <1>11 DEF CommitModule, Refuse
    <2> QED BY <1>5, <1>11, <2>1 DEF CommitModule, Step, Unchanged
<1> QED BY <1>3, <1>6, <1>7, <1>8, <1>9, <1>10, <1>11 DEF Advances

-----------------------------------------------------------------------------
(* What an edit does to each module *)

SameOutcome(m) ==
    latest'[m] = latest[m] /\ blocks'[m] = blocks[m] /\ results'[m] = results[m]

Untouched(m) == modules'[m] = modules[m] /\ SameOutcome(m)

Inserted(m) == modules[m].life = "absent" /\ modules'[m].life = "live" /\ SameOutcome(m)

\* Saved, and still the same to a check.
Kept(m) ==
    /\ modules[m].life = "live" /\ modules'[m].life = "live"
    /\ modules'[m].monitoringVersion = modules[m].monitoringVersion
    /\ Fingerprint(modules'[m]) = Fingerprint(modules[m])
    /\ SameOutcome(m)

Invalidated(m, at) ==
    /\ modules[m].life # "absent" /\ modules'[m].life # "absent"
    /\ modules'[m].monitoringVersion = modules[m].monitoringVersion + 1
    /\ latest'[m] = None
    /\ blocks'[m] = Cut(blocks[m], at)
    /\ results'[m] = Append(results[m], [at |-> at, freshUntil |-> at, state |-> "Unknown",
                                         version |-> modules'[m].monitoringVersion])

\* A module is written by an edit that holds it and is done with it.
Affects(e, m) ==
    \/ Untouched(m)
    \/ Inserted(m)
    \/ Holds(e, m) /\ (Kept(m) \/ Invalidated(m, Now(e)))

LEMMA BumpedInvalidated ==
    ASSUME StoreTypeOK, NEW ms \in SUBSET Modules, NEW at, modules' = Bumped(ms),
           Invalidate(ms, at), \A m \in ms : modules[m].life # "absent"
    PROVE  \A m \in Modules : /\ m \in ms => Invalidated(m, at)
                              /\ m \notin ms => Untouched(m)
<1> SUFFICES ASSUME NEW m \in Modules
             PROVE  /\ m \in ms => Invalidated(m, at)
                    /\ m \notin ms => Untouched(m)
    OBVIOUS
<1>1. CASE m \notin ms
    BY <1>1 DEF Untouched, SameOutcome, Bumped, Invalidate
<1>2. CASE m \in ms
    <2>1. modules[m] \in ModuleRow /\ modules[m].life # "absent"
        BY <1>2 DEF StoreTypeOK
    <2>2. modules'[m] = [modules[m] EXCEPT !.monitoringVersion = modules[m].monitoringVersion + 1]
        BY <1>2 DEF Bumped
    <2>3. /\ modules'[m].monitoringVersion = modules[m].monitoringVersion + 1
          /\ modules'[m].life = modules[m].life
        BY <2>1, <2>2 DEF ModuleRow
    <2>4. /\ latest'[m] = None /\ blocks'[m] = Cut(blocks[m], at)
          /\ results'[m] = Append(results[m], [at |-> at, freshUntil |-> at, state |-> "Unknown",
                                               version |-> modules'[m].monitoringVersion])
        BY <1>2 DEF Invalidate
    <2> QED BY <1>2, <2>1, <2>3, <2>4 DEF Invalidated
<1> QED BY <1>1, <1>2

LEMMA EditsAffect ==
    ASSUME TypeOK, EditsHold, NEW e \in Editors, IsSane(edit[e]),
           Opens(e) \/ Advances(e) \/ EditStops(e)
    PROVE  \A m \in Modules : Affects(e, m)
<1>0. StoreTypeOK /\ EditTypeOK /\ edit[e] \in Edit
    BY DEF TypeOK, EditTypeOK
<1>1. CASE UNCHANGED <<modules, latest, blocks, results>>
    BY <1>1 DEF Affects, Untouched, SameOutcome
<1>2. CASE Opens(e)
    BY <1>1, <1>2 DEF Opens, AddHost, OpenHost, OpenDeleteHost, AddModule, OpenModule,
                      OpenDeleteModule, storeVars
<1>3. CASE \/ Review(e) \/ Probe(e) \/ Validate(e) \/ InsertHost(e)
           \/ BeginHost(e) \/ BeginDeleteHost(e) \/ BeginModule(e)
           \/ LockNext(e) \/ EditStops(e)
    BY <1>1, <1>3 DEF Review, Probe, Validate, InsertHost, BeginHost, BeginDeleteHost,
                      BeginModule, LockNext, EditStops, storeVars
<1>4. CASE Refuse(e)
    BY <1>1, <1>4 DEF Refuse
<1>5. CASE InsertModule(e)
    BY <1>0, <1>5 DEF InsertModule, Affects, Untouched, Inserted, SameOutcome, StoreTypeOK
<1>6. ASSUME CommitHost(e) \/ CommitDeleteHost(e), ~Refuse(e)
      PROVE  \A m \in Modules : Affects(e, m)
    <2> DEFINE ms == edit[e].dependents
    <2>1. modules' = Bumped(ms) /\ Invalidate(ms, Now(e))
        BY <1>6 DEF CommitHost, CommitDeleteHost
    <2>2. edit[e].pc = "lock" /\ edit[e].todo = {}
        BY <1>6 DEF CommitHost, CommitDeleteHost, Step
    <2>3. \A m \in ms : Holds(e, m)
        BY <2>2 DEF EditsHold
    <2>4. ms \in SUBSET Modules /\ \A m \in ms : modules[m].life # "absent"
        BY <1>0 DEF IsSane, SawRow, Edit
    <2> QED BY <1>0, <2>1, <2>3, <2>4, BumpedInvalidated DEF Affects
<1>7. ASSUME CommitModule(e), ~Refuse(e)
      PROVE  \A m \in Modules : Affects(e, m)
    <2> DEFINE m == edit[e].module
               form == edit[e].form
               changed == Fingerprint(modules[m]) # form
               w == modules[m].monitoringVersion + (IF changed THEN 1 ELSE 0)
               row == [modules[m] EXCEPT !.host = form.host, !.target = form.target,
                           !.enabled = form.enabled, !.version = modules[m].version + 1,
                           !.monitoringVersion = w]
    <2>1. m \in Modules /\ Holds(e, m) /\ edit[e].before = modules[m] /\ modules[m] \in ModuleRow
        BY <1>0, <1>7 DEF CommitModule, Step, EditsHold, IsSane, Concerns, StoreTypeOK
    <2>2. /\ modules' = [modules EXCEPT ![m] = row] /\ modules[m].life = "live"
          /\ IF changed THEN Invalidate({m}, Now(e)) ELSE UNCHANGED <<latest, blocks, results>>
        BY <1>7, <2>1 DEF CommitModule, Unchanged
    <2>3. /\ row.life = "live" /\ row.host = form.host /\ row.target = form.target
          /\ row.enabled = form.enabled /\ row.monitoringVersion = w
        BY <2>1, <2>2 DEF ModuleRow
    <2> HIDE DEF row
    <2>4. modules'[m] = row /\ \A x \in Modules \ {m} : modules'[x] = modules[x]
        BY <1>0, <2>1, <2>2 DEF StoreTypeOK
    <2>5. CASE changed
        <3>1. \A x \in Modules \ {m} : Untouched(x)
            BY <2>2, <2>4, <2>5 DEF Invalidate, Untouched, SameOutcome
        <3>2. /\ latest'[m] = None /\ blocks'[m] = Cut(blocks[m], Now(e))
              /\ results'[m] = Append(results[m], [at |-> Now(e), freshUntil |-> Now(e),
                     state |-> "Unknown", version |-> modules'[m].monitoringVersion])
            BY <2>1, <2>2, <2>5 DEF Invalidate
        <3>3. Invalidated(m, Now(e))
            BY <2>1, <2>2, <2>3, <2>4, <2>5, <3>2 DEF Invalidated
        <3> QED BY <2>1, <3>1, <3>3 DEF Affects
    <2>6. CASE ~changed
        <3>1. \A x \in Modules \ {m} : Untouched(x)
            BY <2>2, <2>4, <2>6 DEF Untouched, SameOutcome
        <3>2. Fingerprint(row) = Fingerprint(modules[m]) /\ w = modules[m].monitoringVersion
            BY <2>1, <2>3, <2>6 DEF Fingerprint, ModuleRow
        <3>3. Kept(m)
            BY <2>1, <2>2, <2>3, <2>4, <2>6, <3>2 DEF Kept, SameOutcome
        <3> QED BY <2>1, <3>1, <3>3 DEF Affects
    <2> QED BY <2>5, <2>6
<1>8. ASSUME CommitDeleteModule(e), ~Refuse(e)
      PROVE  \A m \in Modules : Affects(e, m)
    <2> DEFINE m == edit[e].module
               row == [modules[m] EXCEPT !.life = "deleted", !.enabled = FALSE,
                           !.version = modules[m].version + 1,
                           !.monitoringVersion = modules[m].monitoringVersion + 1]
    <2>1. m \in Modules /\ Holds(e, m) /\ modules[m] \in ModuleRow
        BY <1>0, <1>8 DEF CommitDeleteModule, Step, EditsHold, IsSane, Concerns, StoreTypeOK
    <2>2. /\ modules' = [modules EXCEPT ![m] = row] /\ modules[m].life = "live"
          /\ Invalidate({m}, Now(e))
        BY <1>8 DEF CommitDeleteModule
    <2>3. row.life = "deleted" /\ row.monitoringVersion = modules[m].monitoringVersion + 1
        BY <2>1 DEF ModuleRow
    <2> HIDE DEF row
    <2>4. modules'[m] = row /\ \A x \in Modules \ {m} : modules'[x] = modules[x]
        BY <1>0, <2>1, <2>2 DEF StoreTypeOK
    <2>5. \A x \in Modules \ {m} : Untouched(x)
        BY <2>2, <2>4 DEF Invalidate, Untouched, SameOutcome
    <2>6. /\ latest'[m] = None /\ blocks'[m] = Cut(blocks[m], Now(e))
          /\ results'[m] = Append(results[m], [at |-> Now(e), freshUntil |-> Now(e),
                 state |-> "Unknown", version |-> modules'[m].monitoringVersion])
        BY <2>1, <2>2 DEF Invalidate
    <2>7. Invalidated(m, Now(e))
        BY <2>2, <2>3, <2>4, <2>6 DEF Invalidated
    <2> QED BY <2>1, <2>5, <2>7 DEF Affects
<1> QED BY <1>2, <1>3, <1>4, <1>5, <1>6, <1>7, <1>8 DEF Advances

-----------------------------------------------------------------------------
(* Locks *)

LocksOrLetsGo(p) ==
    \/ locks' = locks
    \/ locks' = Unlocked(p)
    \/ \E m \in Modules : Free(m) /\ locks' = locks \cup {<<m, p>>}

LEMMA LocksStay ==
    ASSUME TypeOK, LocksAreExclusive, NEW p \in Sessions, LocksOrLetsGo(p)
    PROVE  /\ LocksAreExclusive'
           /\ \A q \in Sessions \ {p} : \A m \in Modules : Holds(q, m) => <<m, q>> \in locks'
<1>1. CASE locks' = locks \/ locks' = Unlocked(p)
    BY <1>1 DEF LocksAreExclusive, Unlocked, Holds
<1>2. ASSUME NEW m \in Modules, Free(m), locks' = locks \cup {<<m, p>>}
      PROVE  LocksAreExclusive'
    BY <1>2 DEF LocksAreExclusive, Free
<1> QED BY <1>1, <1>2 DEF LocksOrLetsGo, Holds

LEMMA EditsLock ==
    ASSUME TypeOK, NEW e \in Editors, IsSane(edit[e]), Opens(e) \/ Advances(e) \/ EditStops(e)
    PROVE  LocksOrLetsGo(e)
<1> USE DEF LocksOrLetsGo
<1>0. edit[e] \in Edit
    BY DEF TypeOK, EditTypeOK
<1>1. CASE Opens(e)
    BY <1>1 DEF Opens, AddHost, OpenHost, OpenDeleteHost, AddModule, OpenModule,
                OpenDeleteModule, storeVars
<1>2. CASE \/ Review(e) \/ Probe(e) \/ Validate(e) \/ InsertHost(e) \/ InsertModule(e)
           \/ BeginHost(e) \/ BeginDeleteHost(e) \/ EditStops(e)
    BY <1>2 DEF Review, Probe, Validate, InsertHost, InsertModule, BeginHost, BeginDeleteHost,
                EditStops, storeVars
<1>3. CASE BeginModule(e)
    BY <1>3 DEF BeginModule, IsSane, Concerns
<1>4. CASE LockNext(e)
    BY <1>0, <1>4 DEF LockNext, LowestFirst, Edit
<1>5. CASE CommitHost(e) \/ CommitDeleteHost(e) \/ CommitModule(e) \/ CommitDeleteModule(e)
    BY <1>5 DEF CommitHost, CommitDeleteHost, CommitModule, CommitDeleteModule, Refuse
<1> QED BY <1>1, <1>2, <1>3, <1>4, <1>5 DEF Advances

\* An edit has what it needs for its next step.
HoldsItsOwn(e, y, ls, ms) ==
    /\ y.pc = "lock" => \A m \in y.dependents \ y.todo : <<m, e>> \in ls
    /\ y.pc = "commit" => <<y.module, e>> \in ls /\ y.before = ms[y.module]

LEMMA EditsHoldOwn ==
    ASSUME TypeOK, EditsHold, NEW e \in Editors, IsSane(edit[e]),
           Opens(e) \/ Advances(e) \/ EditStops(e),
           NEW y, y = edit'[e]
    PROVE  HoldsItsOwn(e, y, locks', modules')
<1>0. EditTypeOK /\ edit[e] \in Edit
    BY DEF TypeOK, EditTypeOK
<1>1. ASSUME NEW pc, GoTo(e, pc), pc \notin {"lock", "commit"}
      PROVE  HoldsItsOwn(e, y, locks', modules')
    BY <1>0, <1>1 DEF GoTo, EditTypeOK, Edit, HoldsItsOwn
<1>2. CASE Opens(e)
    <2>1. PICK z : edit' = [edit EXCEPT ![e] = z] /\ IsNew(z)
        BY <1>2, OpenedSane
    <2> QED BY <1>0, <2>1 DEF EditTypeOK, IsNew, HoldsItsOwn
<1>3. CASE \/ Review(e) \/ Validate(e) \/ EditStops(e) \/ InsertHost(e) \/ InsertModule(e)
           \/ CommitHost(e) \/ CommitDeleteHost(e)
           \/ CommitModule(e) \/ CommitDeleteModule(e)
    <2>1. \E pc \in {"refused", "probe", "begin", "insert", "saved"} : GoTo(e, pc)
        BY <1>3 DEF Review, Validate, EditStops, InsertHost, InsertModule, CommitHost,
                    CommitDeleteHost, CommitModule, CommitDeleteModule, Refuse
    <2> QED BY <1>1, <2>1
<1>4. CASE Probe(e)
    BY <1>0, <1>4 DEF Probe, EditTypeOK, Edit, HoldsItsOwn
<1>5. CASE BeginHost(e) \/ BeginDeleteHost(e)
    <2>1. CASE GoTo(e, "refused")
        BY <1>1, <2>1
    <2>2. CASE ~GoTo(e, "refused")
        <3>1. PICK ms : edit' = [edit EXCEPT ![e].pc = "lock", ![e].dependents = ms, ![e].todo = ms]
            BY <1>5, <2>2 DEF BeginHost, BeginDeleteHost
        <3>2. y.dependents = ms /\ y.todo = ms /\ y.pc = "lock"
            BY <1>0, <3>1 DEF EditTypeOK, Edit
        <3> QED BY <3>2 DEF HoldsItsOwn
    <2> QED BY <2>1, <2>2
<1>6. CASE BeginModule(e)
    BY <1>0, <1>6 DEF BeginModule, EditTypeOK, Edit, HoldsItsOwn
<1>7. CASE LockNext(e)
    <2>1. PICK m \in LowestFirst(edit[e].todo) :
             /\ locks' = locks \cup {<<m, e>>}
             /\ edit' = [edit EXCEPT ![e].todo = @ \ {m}]
        BY <1>7 DEF LockNext
    <2>2. /\ y.todo = edit[e].todo \ {m} /\ y.dependents = edit[e].dependents
          /\ y.pc = "lock" /\ edit[e].pc = "lock"
        BY <1>0, <1>7, <2>1 DEF LockNext, EditTypeOK, Edit
    <2>3. \A x \in edit[e].dependents \ edit[e].todo : <<x, e>> \in locks
        BY <2>2 DEF EditsHold, Holds
    <2> QED BY <2>1, <2>2, <2>3 DEF HoldsItsOwn
<1> QED BY <1>2, <1>3, <1>4, <1>5, <1>6, <1>7 DEF Advances

LEMMA NextHolds ==
    ASSUME TypeOK, EditsAreSane, LocksAreExclusive, EditsHold, ChecksHold, Next
    PROVE  LocksAreExclusive' /\ EditsHold' /\ ChecksHold'
<1>0. /\ EditTypeOK /\ CollectorTypeOK /\ StoreTypeOK /\ \A e \in Editors : IsSane(edit[e])
      /\ \A e \in Editors : edit[e] \in Edit /\ edit[e].dependents \in SUBSET Modules
      /\ \A c \in Collectors : job[c] # None => job[c] \in Check /\ job[c].module \in Modules
    BY DEF TypeOK, EditsAreSane, IsSane, EditTypeOK, CollectorTypeOK, Edit, Check
<1>1. ASSUME NEW c \in Collectors, UNCHANGED <<edit, modules>>, LocksOrLetsGo(c)
      PROVE  LocksAreExclusive' /\ EditsHold'
    <2>1. LocksAreExclusive' /\ \A e \in Editors : \A m \in Modules :
              Holds(e, m) => <<m, e>> \in locks'
        BY <1>1, LocksStay, SessionsAssumption DEF Sessions
    <2>2. \A e \in Editors : edit[e].pc = "commit" => edit[e].module \in Modules
        BY <1>0 DEF IsSane, Waits, Concerns
    <2>3. EditsHold'
        BY <1>0, <1>1, <2>1, <2>2 DEF EditsHold, Holds
    <2> QED BY <2>1, <2>3
<1>2. ASSUME NEW c \in Collectors, LocksOrLetsGo(c), UNCHANGED modules,
             NEW j, job' = [job EXCEPT ![c] = j],
             j # None => /\ <<j.module, c>> \in locks'
                         /\ modules[j.module].life = "live"
                         /\ j.version = modules[j.module].monitoringVersion
      PROVE  ChecksHold'
    <2>1. \A d \in Collectors \ {c} : \A m \in Modules : Holds(d, m) => <<m, d>> \in locks'
        BY <1>2, LocksStay DEF Sessions
    <2>2. ASSUME NEW d \in Collectors, NEW x, x = job'[d], x # None
          PROVE  /\ <<x.module, d>> \in locks'
                 /\ modules[x.module].life = "live"
                 /\ x.version = modules[x.module].monitoringVersion
        <3>1. CASE d = c
            BY <1>0, <1>2, <2>2, <3>1 DEF CollectorTypeOK
        <3>2. CASE d # c
            BY <1>0, <1>2, <2>1, <2>2, <3>2 DEF CollectorTypeOK, ChecksHold
        <3> QED BY <3>1, <3>2
    <2> QED BY <1>2, <2>2 DEF ChecksHold, Holds
<1>3. CASE CollectorNext /\ UNCHANGED edit
    <2>1. PICK c \in Collectors : \/ \E m \in Modules : CollectStart(c, m)
                                  \/ CollectCommit(c) \/ CollectStops(c) \/ RetainAll(c)
        BY <1>3 DEF CollectorNext
    <2>2. ASSUME NEW m \in Modules, CollectStart(c, m)
          PROVE  LocksAreExclusive' /\ EditsHold' /\ ChecksHold'
        <3>1. LocksOrLetsGo(c) /\ UNCHANGED modules
            BY <2>2 DEF CollectStart, LocksOrLetsGo
        <3>2. PICK j : j = [module |-> m, version |-> modules[m].monitoringVersion,
                            seen |-> Addressed(m)]
            OBVIOUS
        <3>3. job' = [job EXCEPT ![c] = j] /\ <<m, c>> \in locks' /\ modules[m].life = "live"
            BY <2>2, <3>2 DEF CollectStart, Monitorable
        <3>4. j.module = m /\ j.version = modules[m].monitoringVersion
            BY <3>2
        <3> QED BY <1>1, <1>2, <1>3, <3>1, <3>3, <3>4
    <2>3. CASE CollectCommit(c) \/ CollectStops(c)
        <3>1. LocksOrLetsGo(c) /\ UNCHANGED modules /\ job' = [job EXCEPT ![c] = None]
            BY <2>3 DEF CollectCommit, CollectStops, LocksOrLetsGo
        <3> QED BY <1>1, <1>2, <1>3, <3>1
    <2>4. CASE RetainAll(c)
        BY <1>3, <2>4 DEF RetainAll, LocksAreExclusive, EditsHold, ChecksHold, Holds
    <2> QED BY <2>1, <2>2, <2>3, <2>4
<1>4. CASE Tick /\ UNCHANGED edit
    BY <1>4 DEF Tick, LocksAreExclusive, EditsHold, ChecksHold, Holds
<1>5. CASE EditNext /\ UNCHANGED job
    <2>1. PICK e \in Editors : Opens(e) \/ Advances(e) \/ EditStops(e)
        BY <1>5 DEF EditNext
    <2>2. /\ LocksAreExclusive'
          /\ \A q \in Sessions \ {e} : \A m \in Modules : Holds(q, m) => <<m, q>> \in locks'
        BY <1>0, <2>1, EditsLock, LocksStay DEF Sessions
    <2>3. \A m \in Modules : Affects(e, m)
        BY <1>0, <2>1, EditsAffect
    <2>4. PICK z : edit' = [edit EXCEPT ![e] = z]
        <3>1. CASE Opens(e)
            BY <3>1, OpenedSane
        <3>2. CASE Advances(e) \/ EditStops(e)
            BY <3>2, <1>0, NextTypes, NextGrows, AdvancedSane
        <3> QED BY <2>1, <3>1, <3>2
    <2>5. ASSUME NEW q \in Sessions \ {e}, NEW m \in Modules, Holds(q, m),
                 modules[m].life # "absent"
          PROVE  Untouched(m)
        BY <2>3, <2>5 DEF Affects, Inserted, Holds, LocksAreExclusive
    <2>6. EditsHold'
        <3>1. ASSUME NEW f \in Editors, NEW y, y = edit'[f]
              PROVE  HoldsItsOwn(f, y, locks', modules')
            <4>1. CASE f = e
                BY <1>0, <2>1, <3>1, <4>1, EditsHoldOwn
            <4>2. CASE f # e
                <5>1. y = edit[f] /\ f \in Sessions \ {e}
                    BY <1>0, <2>4, <3>1, <4>2 DEF EditTypeOK, Sessions
                <5>2. y.pc = "lock" => \A m \in y.dependents \ y.todo : <<m, f>> \in locks'
                    BY <1>0, <2>2, <5>1 DEF EditsHold
                <5>3. ASSUME y.pc = "commit"
                      PROVE  <<y.module, f>> \in locks' /\ y.before = modules'[y.module]
                    <6>1. /\ y.module \in Modules /\ modules[y.module].life # "absent"
                          /\ Holds(f, y.module) /\ y.before = modules[y.module]
                        BY <1>0, <5>1, <5>3 DEF IsSane, Waits, Concerns, SawRow, EditsHold
                    <6> QED BY <2>2, <2>5, <5>1, <6>1 DEF Untouched
                <5> QED BY <5>2, <5>3 DEF HoldsItsOwn
            <4> QED BY <4>1, <4>2
        <3> QED BY <3>1 DEF EditsHold, HoldsItsOwn, Holds
    <2>7. ChecksHold'
        <3>1. ASSUME NEW c \in Collectors, NEW x, x = job[c], x # None
              PROVE  /\ <<x.module, c>> \in locks'
                     /\ modules'[x.module].life = "live"
                     /\ x.version = modules'[x.module].monitoringVersion
            <4>1. /\ x.module \in Modules /\ Holds(c, x.module) /\ modules[x.module].life = "live"
                  /\ x.version = modules[x.module].monitoringVersion
                BY <1>0, <3>1 DEF ChecksHold
            <4>2. c \in Sessions \ {e}
                BY SessionsAssumption DEF Sessions
            <4> QED BY <2>2, <2>5, <4>1, <4>2 DEF Untouched
        <3> QED BY <1>5, <3>1 DEF ChecksHold, Holds
    <2> QED BY <2>2, <2>6, <2>7
<1> QED BY <1>3, <1>4, <1>5 DEF Next

-----------------------------------------------------------------------------
(* Results of one configuration *)

\* What is known of a module at version v: its latest row and its results.
Sound(v, last, rows) ==
    \A i \in DOMAIN rows :
        /\ rows[i].version <= v
        /\ rows[i].version = v /\ rows[i].state # "Unknown" =>
               last # None /\ last.version = v /\ rows[i].at <= last.at

Spaced(rows) ==
    \A i, j \in DOMAIN rows :
        (/\ i < j /\ rows[i].version = rows[j].version
         /\ rows[i].state # "Unknown" /\ rows[j].state # "Unknown")
            => rows[i].at + Interval <= rows[j].at

\* A check at version v may come now.
Waited(rows, v, now) ==
    \A i \in DOMAIN rows :
        rows[i].version = v /\ rows[i].state # "Unknown" => rows[i].at + Interval <= now

LEMMA Appended ==
    ASSUME NEW rows \in Seq(ResultRow), NEW r \in ResultRow, NEW new, new = Append(rows, r)
    PROVE  /\ new \in Seq(ResultRow)
           /\ DOMAIN rows = 1..Len(rows) /\ Len(rows) \in Nat
           /\ DOMAIN new = 1..(Len(rows) + 1)
           /\ new[Len(rows) + 1] = r
           /\ r.version \in Nat /\ r.at \in Nat
           /\ \A i \in DOMAIN rows : /\ new[i] = rows[i]
                                     /\ rows[i].version \in Nat /\ rows[i].at \in Nat
<1>1. /\ new \in Seq(ResultRow)
      /\ DOMAIN rows = 1..Len(rows) /\ Len(rows) \in Nat
      /\ DOMAIN new = 1..(Len(rows) + 1)
      /\ new[Len(rows) + 1] = r
      /\ \A i \in DOMAIN rows : new[i] = rows[i] /\ rows[i] \in ResultRow
    OBVIOUS
<1>2. \A x \in ResultRow : x.version \in Nat /\ x.at \in Nat
    BY DEF ResultRow
<1> QED BY <1>1, <1>2

LEMMA RowTimes ==
    ASSUME NEW rows \in Seq(ResultRow)
    PROVE  \A i \in DOMAIN rows : /\ rows[i] \in ResultRow
                                  /\ rows[i].at \in Nat /\ rows[i].freshUntil \in Nat
                                  /\ rows[i].version \in Nat
<1>1. \A i \in DOMAIN rows : rows[i] \in ResultRow
    OBVIOUS
<1>2. \A x \in ResultRow : x.at \in Nat /\ x.freshUntil \in Nat /\ x.version \in Nat
    BY DEF ResultRow
<1> QED BY <1>1, <1>2

LEMMA InvalidatedIsSound ==
    ASSUME NEW v \in Nat, NEW last, NEW rows \in Seq(ResultRow), Sound(v, last, rows), Spaced(rows),
           NEW r \in ResultRow, r.state = "Unknown", r.version = v + 1,
           NEW new, new = Append(rows, r)
    PROVE  Sound(v + 1, None, new) /\ Spaced(new) /\ \A u, now : Waited(rows, u, now) => Waited(new, u, now)
<1>1. /\ DOMAIN rows = 1..Len(rows) /\ Len(rows) \in Nat /\ DOMAIN new = 1..(Len(rows) + 1)
      /\ new[Len(rows) + 1] = r
      /\ \A i \in DOMAIN rows : new[i] = rows[i] /\ rows[i].version \in Nat
    BY Appended
<1>2. \A i \in DOMAIN new : i \in DOMAIN rows \/ i = Len(rows) + 1
    BY <1>1
<1>3. Sound(v + 1, None, new)
    BY <1>1, <1>2 DEF Sound
<1>4. Spaced(new)
    BY <1>1, <1>2 DEF Spaced
<1>5. \A u, now : Waited(rows, u, now) => Waited(new, u, now)
    BY <1>1, <1>2 DEF Waited
<1> QED BY <1>3, <1>4, <1>5

LEMMA ObservedIsSound ==
    ASSUME NEW v \in Nat, NEW last, NEW rows \in Seq(ResultRow), Sound(v, last, rows), Spaced(rows),
           NEW r \in ResultRow, r.version = v, Waited(rows, v, r.at),
           NEW new, new = Append(rows, r),
           NEW l, l # None, l.version = v, l.at = r.at
    PROVE  Sound(v, l, new) /\ Spaced(new)
<1>1. /\ DOMAIN rows = 1..Len(rows) /\ Len(rows) \in Nat /\ DOMAIN new = 1..(Len(rows) + 1)
      /\ new[Len(rows) + 1] = r
      /\ \A i \in DOMAIN rows : /\ new[i] = rows[i] /\ rows[i].version \in Nat
                                /\ rows[i].at \in Nat
      /\ r.at \in Nat /\ Interval \in Nat
    BY Appended, TimesAssumption
<1>2. \A i \in DOMAIN new : i \in DOMAIN rows \/ i = Len(rows) + 1
    BY <1>1
<1>3. Sound(v, l, new)
    <2>1. \A i \in DOMAIN rows :
             rows[i].version = v /\ rows[i].state # "Unknown" => rows[i].at <= r.at
        BY <1>1 DEF Waited
    <2> QED BY <1>1, <1>2, <2>1 DEF Sound
<1>4. Spaced(new)
    BY <1>1, <1>2 DEF Spaced, Waited
<1> QED BY <1>3, <1>4

LEMMA PickedIsSound ==
    ASSUME NEW rows \in Seq(ResultRow), NEW new \in Seq(ResultRow), NEW cutoff, NEW place,
           Picks(new, rows, cutoff, place)
    PROVE  /\ \A v, last : Sound(v, last, rows) => Sound(v, last, new)
           /\ Spaced(rows) => Spaced(new)
           /\ \A v, now : Waited(rows, v, now) => Waited(new, v, now)
<1>1. \A k \in DOMAIN new : place[k] \in DOMAIN rows /\ new[k] = rows[place[k]]
    BY DEF Picks
<1>2. \A k, l \in DOMAIN new : k < l => place[k] < place[l]
    BY DEF Picks
<1>3. \A v, last : Sound(v, last, rows) => Sound(v, last, new)
    BY <1>1 DEF Sound
<1>4. Spaced(rows) => Spaced(new)
    BY <1>1, <1>2 DEF Spaced
<1>5. \A v, now : Waited(rows, v, now) => Waited(new, v, now)
    BY <1>1 DEF Waited
<1> QED BY <1>3, <1>4, <1>5

ResultsInv == AbsentAreUnknown /\ ResultsAreOfModules /\ ChecksWereDue /\ ResultsAreSpaced

\* The same, module by module and check by check.
OutcomesAreSound ==
    /\ \A m \in Modules : /\ modules[m].life = "absent" => latest[m] = None /\ results[m] = <<>>
                          /\ Sound(modules[m].monitoringVersion, latest[m], results[m])
                          /\ Spaced(results[m])
    /\ \A c \in Collectors : job[c] # None =>
           Waited(results[job[c].module], job[c].version, Now(c))

LEMMA SoundResults == ResultsInv <=> OutcomesAreSound
BY DEF ResultsInv, OutcomesAreSound, AbsentAreUnknown, ResultsAreOfModules, ChecksWereDue,
       ResultsAreSpaced, Sound, Spaced, Waited

LEMMA WaitedLonger ==
    ASSUME NEW rows \in Seq(ResultRow), NEW v, NEW now \in Nat, NEW later \in Nat,
           Waited(rows, v, now), now <= later
    PROVE  Waited(rows, v, later)
<1>1. \A i \in DOMAIN rows : rows[i].at \in Nat
    BY RowTimes
<1>2. Interval \in Nat
    BY TimesAssumption
<1> QED BY <1>1, <1>2 DEF Waited

LEMMA EditsKeepTime ==
    ASSUME EditNext
    PROVE  UNCHANGED clock
<1>1. PICK e \in Editors : Opens(e) \/ Advances(e) \/ EditStops(e)
    BY DEF EditNext
<1>2. CASE Opens(e)
    BY <1>2 DEF Opens, AddHost, OpenHost, OpenDeleteHost, AddModule, OpenModule,
                OpenDeleteModule, storeVars
<1>3. CASE \/ Review(e) \/ Probe(e) \/ Validate(e) \/ InsertHost(e) \/ InsertModule(e)
           \/ BeginHost(e) \/ BeginDeleteHost(e) \/ BeginModule(e)
           \/ LockNext(e) \/ EditStops(e)
    BY <1>3 DEF Review, Probe, Validate, InsertHost, InsertModule, BeginHost, BeginDeleteHost,
                BeginModule, LockNext, EditStops, storeVars
<1>4. CASE CommitHost(e) \/ CommitDeleteHost(e) \/ CommitModule(e) \/ CommitDeleteModule(e)
    BY <1>4 DEF CommitHost, CommitDeleteHost, CommitModule, CommitDeleteModule
<1> QED BY <1>1, <1>2, <1>3, <1>4 DEF Advances

\* A module that a check, or another edit, holds is left alone.
LEMMA HeldIsUntouched ==
    ASSUME TypeOK, LocksAreExclusive, NEW e \in Editors, NEW q \in Sessions, q # e,
           NEW m \in Modules, Affects(e, m), Holds(q, m), modules[m].life # "absent"
    PROVE  Untouched(m)
BY DEF Affects, Inserted, Holds, LocksAreExclusive

LEMMA EditsAreSound ==
    ASSUME TypeOK, TypeOK', EditsAreSane, LocksAreExclusive, EditsHold, ChecksHold,
           OutcomesAreSound, EditNext, UNCHANGED job
    PROVE  OutcomesAreSound'
<1>0. PICK e \in Editors : Opens(e) \/ Advances(e) \/ EditStops(e)
    BY DEF EditNext
<1>1. \A m \in Modules : Affects(e, m)
    BY <1>0, EditsAffect DEF EditsAreSane, IsSane
<1>2. ASSUME NEW m \in Modules
      PROVE  /\ modules'[m].life = "absent" => latest'[m] = None /\ results'[m] = <<>>
             /\ Sound(modules'[m].monitoringVersion, latest'[m], results'[m])
             /\ Spaced(results'[m])
    <2>0. /\ modules[m].life = "absent" => latest[m] = None /\ results[m] = <<>>
          /\ Sound(modules[m].monitoringVersion, latest[m], results[m])
          /\ Spaced(results[m])
        BY DEF OutcomesAreSound
    <2>1. CASE Untouched(m)
        BY <2>0, <2>1 DEF Untouched, SameOutcome
    <2>2. CASE Inserted(m)
        BY <2>0, <2>2 DEF Inserted, SameOutcome, Sound, Spaced
    <2>3. CASE Kept(m)
        BY <2>0, <2>3 DEF Kept, SameOutcome
    <2>4. CASE Invalidated(m, Now(e))
        <3>1. PICK v : v = modules[m].monitoringVersion
            OBVIOUS
        <3>2. v \in Nat /\ results[m] \in Seq(ResultRow) /\ Now(e) \in Nat
            BY <3>1, TimesAreNumbers DEF TypeOK, StoreTypeOK, ModuleRow, Sessions
        <3>3. PICK r : r = [at |-> Now(e), freshUntil |-> Now(e), state |-> "Unknown",
                            version |-> v + 1]
            OBVIOUS
        <3>4. r \in ResultRow /\ r.state = "Unknown" /\ r.version = v + 1
            BY <3>2, <3>3 DEF ResultRow
        <3>5. results'[m] = Append(results[m], r) /\ modules'[m].monitoringVersion = v + 1
              /\ latest'[m] = None /\ modules'[m].life # "absent"
            BY <2>4, <3>1, <3>3 DEF Invalidated
        <3>6. Sound(v, latest[m], results[m]) /\ Spaced(results[m])
            BY <2>0, <3>1
        <3>7. PICK new : new = results'[m]
            OBVIOUS
        <3>8. Sound(v + 1, None, new) /\ Spaced(new)
            BY <3>2, <3>4, <3>5, <3>6, <3>7, InvalidatedIsSound
        <3> QED BY <3>5, <3>7, <3>8
    <2> QED BY <1>1, <2>1, <2>2, <2>3, <2>4 DEF Affects
<1>3. ASSUME NEW c \in Collectors, job[c] # None
      PROVE  Waited(results'[job[c].module], job[c].version, Now(c)')
    <2> DEFINE m == job[c].module
    <2>1. m \in Modules /\ Holds(c, m) /\ modules[m].life # "absent"
        BY <1>3 DEF ChecksHold, TypeOK, CollectorTypeOK, Check
    <2>2. c \in Sessions /\ c # e
        BY SessionsAssumption DEF Sessions
    <2>3. results'[m] = results[m]
        BY <1>1, <2>1, <2>2, HeldIsUntouched DEF Untouched, SameOutcome
    <2>4. Now(c)' = Now(c)
        BY EditsKeepTime DEF Now
    <2> QED BY <1>3, <2>3, <2>4 DEF OutcomesAreSound
<1> QED BY <1>2, <1>3 DEF OutcomesAreSound

LEMMA CollectorsAreSound ==
    ASSUME TypeOK, TypeOK', LocksAreExclusive, ChecksHold, OutcomesAreSound, NEW c \in Collectors,
           \/ \E m \in Modules : CollectStart(c, m)
           \/ CollectCommit(c) \/ CollectStops(c) \/ RetainAll(c)
    PROVE  OutcomesAreSound'
<1>0. /\ CollectorTypeOK /\ UNCHANGED <<clock, modules>>
      /\ \A d \in Collectors : job[d] # None => job[d].module \in Modules
      /\ \A d \in Collectors : Now(d)' = Now(d)
    BY DEF TypeOK, CollectorTypeOK, Check, CollectStart, CollectCommit, CollectStops, RetainAll, Now
<1>1. ASSUME NEW m \in Modules, CollectStart(c, m)
      PROVE  OutcomesAreSound'
    <2>1. UNCHANGED <<latest, results>>
        BY <1>1 DEF CollectStart
    <2>2. PICK j : j = [module |-> m, version |-> modules[m].monitoringVersion,
                        seen |-> Addressed(m)]
        OBVIOUS
    <2>3. job' = [job EXCEPT ![c] = j] /\ Due(m, Now(c))
        BY <1>1, <2>2 DEF CollectStart
    <2>4. j.module = m /\ j.version = modules[m].monitoringVersion
        BY <2>2
    <2>5. Waited(results[m], modules[m].monitoringVersion, Now(c))
        <3>1. ASSUME NEW i \in DOMAIN results[m],
                     results[m][i].version = modules[m].monitoringVersion,
                     results[m][i].state # "Unknown"
              PROVE  results[m][i].at + Interval <= Now(c)
            <4>1. /\ latest[m] # None /\ latest[m].version = modules[m].monitoringVersion
                  /\ results[m][i].at <= latest[m].at
                BY <3>1 DEF OutcomesAreSound, Sound
            <4>2. latest[m].at + Interval <= Now(c)
                BY <2>3, <4>1 DEF Due
            <4>3. results[m] \in Seq(ResultRow) /\ latest[m] \in LatestRow
                BY <4>1 DEF TypeOK, StoreTypeOK
            <4>4. results[m][i].at \in Nat /\ latest[m].at \in Nat
                BY <3>1, <4>3, RowTimes DEF LatestRow
            <4>5. Now(c) \in Nat /\ Interval \in Nat
                BY TimesAreNumbers, TimesAssumption DEF Sessions
            <4> QED BY <4>1, <4>2, <4>4, <4>5
        <3> QED BY <3>1 DEF Waited
    <2>6. ASSUME NEW d \in Collectors, NEW x, x = job'[d], x # None
          PROVE  Waited(results[x.module], x.version, Now(d))
        <3>1. CASE d = c
            BY <1>0, <2>3, <2>4, <2>5, <2>6, <3>1 DEF CollectorTypeOK
        <3>2. CASE d # c
            BY <1>0, <2>3, <2>6, <3>2 DEF CollectorTypeOK, OutcomesAreSound
        <3> QED BY <3>1, <3>2
    <2> QED BY <1>0, <2>1, <2>6 DEF OutcomesAreSound
<1>2. CASE CollectCommit(c)
    <2> DEFINE m == job[c].module
               now == Now(c)
    <2>1. /\ job[c] # None /\ m \in Modules /\ Holds(c, m) /\ modules[m].life = "live"
          /\ job[c].version = modules[m].monitoringVersion
          /\ job' = [job EXCEPT ![c] = None]
        BY <1>0, <1>2 DEF CollectCommit, ChecksHold
    <2>2. PICK v : v = modules[m].monitoringVersion
        OBVIOUS
    <2>3. v \in Nat /\ results[m] \in Seq(ResultRow) /\ now \in Nat /\ now + Stale \in Nat
        <3>1. modules[m] \in ModuleRow /\ results[m] \in Seq(ResultRow) /\ c \in Sessions
            BY <2>1 DEF TypeOK, StoreTypeOK, Sessions
        <3>2. now \in Nat /\ Stale \in Nat
            BY <3>1, TimesAreNumbers, TimesAssumption
        <3>3. v \in Nat
            BY <2>2, <3>1 DEF ModuleRow
        <3> QED BY <3>1, <3>2, <3>3
    <2>4. PICK state \in States :
             /\ latest' = [latest EXCEPT ![m] =
                    [at |-> now, freshUntil |-> now + Stale, version |-> job[c].version,
                     state |-> state, seen |-> job[c].seen]]
             /\ results' = [results EXCEPT ![m] = Append(@,
                    [at |-> now, freshUntil |-> now + Stale, state |-> state,
                     version |-> job[c].version])]
        BY <1>2 DEF CollectCommit
    <2>5. PICK l : l = [at |-> now, freshUntil |-> now + Stale, version |-> v,
                        state |-> state, seen |-> job[c].seen]
        OBVIOUS
    <2>6. PICK r : r = [at |-> now, freshUntil |-> now + Stale, state |-> state, version |-> v]
        OBVIOUS
    <2>7. r \in ResultRow /\ r.version = v /\ r.at = now /\ l.version = v /\ l.at = now
        BY <2>3, <2>5, <2>6 DEF ResultRow
    <2>8. /\ latest'[m] = l /\ results'[m] = Append(results[m], r)
          /\ \A x \in Modules \ {m} : latest'[x] = latest[x] /\ results'[x] = results[x]
        BY <2>1, <2>2, <2>4, <2>5, <2>6 DEF TypeOK, StoreTypeOK
    <2>9. l # None
        <3>1. latest'[m] \in LatestRow \cup {None} /\ job[c] \in Check
            BY <2>1 DEF TypeOK, StoreTypeOK, CollectorTypeOK
        <3>2. l \in LatestRow
            BY <2>3, <2>5, <3>1 DEF LatestRow, Check
        <3> QED BY <3>2, NoRowAssumption
    <2>10. Sound(v, latest[m], results[m]) /\ Spaced(results[m]) /\ Waited(results[m], v, r.at)
        BY <2>1, <2>2, <2>7 DEF OutcomesAreSound
    <2>11. PICK new : new = results'[m]
        OBVIOUS
    <2>12. Sound(v, l, new) /\ Spaced(new)
        <3>1. new = Append(results[m], r) /\ l # None /\ l.version = v /\ l.at = r.at
            BY <2>7, <2>8, <2>9, <2>11
        <3>2. v \in Nat /\ results[m] \in Seq(ResultRow) /\ r \in ResultRow /\ r.version = v
            BY <2>3, <2>7
        <3> HIDE DEF m, now
        <3> QED BY <2>10, <3>1, <3>2, ObservedIsSound
    <2>13. ASSUME NEW x \in Modules
           PROVE  /\ modules[x].life = "absent" => latest'[x] = None /\ results'[x] = <<>>
                  /\ Sound(modules[x].monitoringVersion, latest'[x], results'[x])
                  /\ Spaced(results'[x])
        BY <2>1, <2>2, <2>8, <2>11, <2>12 DEF OutcomesAreSound
    <2>14. ASSUME NEW d \in Collectors, NEW x, x = job'[d], x # None
           PROVE  Waited(results'[x.module], x.version, Now(d))
        <3>1. d # c /\ x = job[d]
            BY <1>0, <2>1, <2>14 DEF CollectorTypeOK
        <3>2. x.module \in Modules \ {m}
            BY <1>0, <2>1, <2>14, <3>1 DEF ChecksHold, LocksAreExclusive, Holds
        <3> QED BY <2>8, <2>14, <3>1, <3>2 DEF OutcomesAreSound
    <2> QED BY <1>0, <2>13, <2>14 DEF OutcomesAreSound
<1>3. CASE CollectStops(c)
    <2>1. UNCHANGED <<latest, results>> /\ job' = [job EXCEPT ![c] = None]
        BY <1>3 DEF CollectStops
    <2>2. \A d \in Collectors : job'[d] # None => job'[d] = job[d]
        BY <1>0, <2>1 DEF CollectorTypeOK
    <2> QED BY <1>0, <2>1, <2>2 DEF OutcomesAreSound
<1>4. CASE RetainAll(c)
    <2> DEFINE cutoff == Now(c) - RetentionTime
    <2>1. UNCHANGED <<latest, job>>
        BY <1>4 DEF RetainAll
    <2>2. ASSUME NEW m \in Modules
          PROVE  /\ \A v, last : Sound(v, last, results[m]) => Sound(v, last, results'[m])
                 /\ Spaced(results[m]) => Spaced(results'[m])
                 /\ \A v, now : Waited(results[m], v, now) => Waited(results'[m], v, now)
                 /\ results[m] = <<>> => results'[m] = <<>>
        <3>1. PICK new : new = Recent(results[m], cutoff)
            OBVIOUS
        <3>2. results'[m] = new
            BY <1>4, <3>1 DEF RetainAll
        <3>3. results[m] \in Seq(ResultRow)
            BY DEF TypeOK, StoreTypeOK
        <3>4. new \in Seq(ResultRow)
              /\ \E place : Picks(new, results[m], cutoff, place)
            BY <3>1, <3>3, RecentRows
        <3>5. PICK place : Picks(new, results[m], cutoff, place)
            BY <3>4
        <3>6. results[m] = <<>> => new = <<>>
            BY <3>4, <3>5 DEF Picks
        <3> QED BY <3>2, <3>3, <3>4, <3>5, <3>6, PickedIsSound
    <2> QED BY <1>0, <2>1, <2>2 DEF OutcomesAreSound
<1> QED BY <1>1, <1>2, <1>3, <1>4

LEMMA NextSound ==
    ASSUME TypeOK, TypeOK', EditsAreSane, LocksAreExclusive, EditsHold, ChecksHold,
           ResultsInv, Next
    PROVE  ResultsInv'
<1>0. OutcomesAreSound
    BY SoundResults
<1> SUFFICES OutcomesAreSound'
    BY DEF ResultsInv, OutcomesAreSound, AbsentAreUnknown, ResultsAreOfModules, ChecksWereDue,
           ResultsAreSpaced, Sound, Spaced, Waited
<1>1. CASE CollectorNext /\ UNCHANGED edit
    BY <1>0, <1>1, CollectorsAreSound DEF CollectorNext
<1>2. CASE Tick /\ UNCHANGED edit
    <2>1. UNCHANGED <<modules, latest, results, job>> /\ clock' = clock + 1
        BY <1>2 DEF Tick
    <2>2. ASSUME NEW c \in Collectors, job[c] # None
          PROVE  Waited(results[job[c].module], job[c].version, Now(c)')
        <3>1. Now(c) \in Nat /\ Now(c)' \in Nat /\ Now(c) <= Now(c)'
            BY <2>1, SkewAssumption DEF Now, TypeOK, StoreTypeOK, Sessions
        <3>2. results[job[c].module] \in Seq(ResultRow)
            BY <2>2 DEF TypeOK, StoreTypeOK, CollectorTypeOK, Check
        <3>3. Waited(results[job[c].module], job[c].version, Now(c))
            BY <1>0, <2>2 DEF OutcomesAreSound
        <3>4. PICK later : later = Now(c)'
            OBVIOUS
        <3> QED BY <3>1, <3>2, <3>3, <3>4, WaitedLonger
    <2> QED BY <1>0, <2>1, <2>2 DEF OutcomesAreSound
<1>3. CASE EditNext /\ UNCHANGED job
    BY <1>0, <1>3, EditsAreSound
<1> QED BY <1>1, <1>2, <1>3 DEF Next

-----------------------------------------------------------------------------
(* The invariant of monitoring *)

LEMMA InitMonitoring == Init => MonitoringInv
<1> SUFFICES ASSUME Init PROVE MonitoringInv
    OBVIOUS
<1>1. TypeOK
    BY InitTypes
<1>2. EditsAreSane
    BY DEF Init, EditsAreSane, Waits, Concerns, SawRow, Vouches, Idle
<1>3. EnabledIsVouched
    BY InitHostsAssumption DEF Init, EnabledIsVouched
<1>4. LocksAreExclusive /\ EditsHold /\ ChecksHold
    BY DEF Init, LocksAreExclusive, EditsHold, ChecksHold, Idle
<1>5. AbsentAreUnknown /\ ResultsAreOfModules /\ ChecksWereDue /\ ResultsAreSpaced
    BY DEF Init, AbsentAreUnknown, ResultsAreOfModules, ChecksWereDue, ResultsAreSpaced
<1> QED BY <1>1, <1>2, <1>3, <1>4, <1>5 DEF MonitoringInv

LEMMA StutterMonitoring ==
    ASSUME MonitoringInv, UNCHANGED vars
    PROVE  MonitoringInv'
<1>1. UNCHANGED <<clock, hosts, modules, latest, blocks, results, locks, job, edit>>
    BY DEF vars, storeVars
<1>2. TypeOK'
    BY <1>1 DEF MonitoringInv, TypeOK, StoreTypeOK, CollectorTypeOK, EditTypeOK
<1>3. EditsAreSane' /\ EnabledIsVouched'
    BY <1>1 DEF MonitoringInv, EditsAreSane, Waits, Concerns, SawRow, Vouches, EnabledIsVouched
<1>4. LocksAreExclusive' /\ EditsHold' /\ ChecksHold'
    BY <1>1 DEF MonitoringInv, LocksAreExclusive, EditsHold, ChecksHold, Holds
<1>5. AbsentAreUnknown' /\ ResultsAreOfModules' /\ ChecksWereDue' /\ ResultsAreSpaced'
    BY <1>1 DEF MonitoringInv, AbsentAreUnknown, ResultsAreOfModules, ChecksWereDue,
                ResultsAreSpaced, Now
<1> QED BY <1>2, <1>3, <1>4, <1>5 DEF MonitoringInv

LEMMA NextMonitoring ==
    ASSUME MonitoringInv, Next
    PROVE  MonitoringInv'
<1>1. TypeOK'
    BY NextTypes DEF MonitoringInv
<1>2. EditsAreSane' /\ EnabledIsVouched'
    BY <1>1, NextSane, NextVouched DEF MonitoringInv
<1>3. LocksAreExclusive' /\ EditsHold' /\ ChecksHold'
    BY NextHolds DEF MonitoringInv
<1>4. AbsentAreUnknown' /\ ResultsAreOfModules' /\ ChecksWereDue' /\ ResultsAreSpaced'
    BY <1>1, NextSound DEF MonitoringInv, ResultsInv
<1> QED BY <1>1, <1>2, <1>3, <1>4 DEF MonitoringInv

\* The invariant of MonitoringInvariant.tla holds for any clocks, any number of
\* collectors and editors, hosts and modules.
THEOREM MonitoringIsSafe == Spec => []MonitoringInv
<1>1. MonitoringInv /\ [Next]_vars => MonitoringInv'
    BY NextMonitoring, StutterMonitoring
<1> QED BY <1>1, InitMonitoring, PTL DEF Spec

\* Every table, check and edit has its type.
THEOREM Typed == Spec => []TypeOK
<1>1. MonitoringInv => TypeOK
    BY DEF MonitoringInv
<1> QED BY <1>1, MonitoringIsSafe, PTL

\* However edits of a host interleave with the probe of its agent, an enabled
\* host has an agent that was found healthy at its URL.
THEOREM EnabledAreVouched == Spec => []EnabledIsVouched
<1>1. MonitoringInv => EnabledIsVouched
    BY DEF MonitoringInv
<1> QED BY <1>1, MonitoringIsSafe, PTL

\* Replicas whose clocks differ in any way do not check one configuration of a
\* module twice in an interval.
THEOREM ChecksAreSpaced == Spec => []ResultsAreSpaced
<1>1. MonitoringInv => ResultsAreSpaced
    BY DEF MonitoringInv
<1> QED BY <1>1, MonitoringIsSafe, PTL

\* No edit that is saved overwrites what its user has not seen.
THEOREM NothingUnseen == Spec => NothingUnseenIsReplaced
<1>1. ASSUME MonitoringInv, [Next]_vars
      PROVE  \A e \in Editors :
                 edit[e].pc # "saved" /\ edit'[e].pc = "saved" => edit[e].saw = Shows(e)
    <2>1. CASE Next
        BY <1>1, <2>1, SavedWasSeen DEF MonitoringInv
    <2>2. CASE UNCHANGED vars
        BY <2>2 DEF vars
    <2> QED BY <1>1, <2>1, <2>2
<1> QED BY <1>1, MonitoringIsSafe, PTL DEF Spec, NothingUnseenIsReplaced

-----------------------------------------------------------------------------
(* The configuration of now *)

\* What a check of m addresses stays where it is.
HostStays(m) ==
    LET h == modules[m].host
    IN  (h # None /\ hosts[h].life # "absent") =>
            /\ hosts'[h].life # "absent"
            /\ UsesAgent(m) => hosts'[h].url = hosts[h].url

LEMMA StillTells ==
    ASSUME TypeOK, NEW m \in Modules, NEW seen, Tells(m, seen), HostStays(m),
           modules'[m].life = "live", Fingerprint(modules'[m]) = Fingerprint(modules[m])
    PROVE  Tells(m, seen)'
<1>1. modules'[m].host = modules[m].host /\ modules'[m].target = modules[m].target
    BY DEF Fingerprint
<1>2. modules[m].host # None =>
          /\ hosts[modules[m].host].life # "absent"
          /\ hosts'[modules[m].host].life # "absent"
          /\ UsesAgent(m) => hosts'[modules[m].host].url = hosts[modules[m].host].url
    BY DEF Tells, HostStays
<1>3. Addressed(m)' = Addressed(m)
    BY <1>1, <1>2 DEF Addressed, UsesAgent
<1> QED BY <1>1, <1>2, <1>3 DEF Tells

LEMMA UrlsStay ==
    ASSUME TypeOK, EditsAreSane, NEW e \in Editors, Opens(e) \/ Advances(e) \/ EditStops(e),
           ~(CommitHost(e) /\ Unchanged(hosts[edit[e].host], edit[e].version))
    PROVE  \A h \in Hosts : hosts[h].life # "absent" =>
               hosts'[h].life # "absent" /\ hosts'[h].url = hosts[h].url
<1>1. CASE UNCHANGED hosts
    BY <1>1
<1>2. CASE Opens(e)
    BY <1>1, <1>2 DEF Opens, AddHost, OpenHost, OpenDeleteHost, AddModule, OpenModule,
                      OpenDeleteModule, storeVars
<1>3. CASE \/ Review(e) \/ Probe(e) \/ Validate(e) \/ InsertModule(e)
           \/ BeginHost(e) \/ BeginDeleteHost(e) \/ BeginModule(e)
           \/ LockNext(e) \/ EditStops(e) \/ CommitModule(e) \/ CommitDeleteModule(e)
    BY <1>1, <1>3 DEF Review, Probe, Validate, InsertModule, BeginHost, BeginDeleteHost,
                      BeginModule, LockNext, EditStops, CommitModule, CommitDeleteModule, Refuse,
                      storeVars
<1>4. CASE InsertHost(e)
    BY <1>4 DEF InsertHost, TypeOK, StoreTypeOK
<1>5. CASE CommitHost(e)
    BY <1>1, <1>5 DEF CommitHost, Refuse
<1>6. CASE CommitDeleteHost(e)
    <2> DEFINE h == edit[e].host
               row == [hosts[h] EXCEPT !.life = "deleted", !.enabled = FALSE,
                           !.version = hosts[h].version + 1]
    <2>1. CASE hosts[h].life = "live"
        <3>1. hosts' = [hosts EXCEPT ![h] = row]
            BY <1>6, <2>1 DEF CommitDeleteHost
        <3>2. h \in Hosts /\ hosts[h] \in HostRow
            BY <1>6 DEF CommitDeleteHost, Step, EditsAreSane, Concerns, TypeOK, StoreTypeOK
        <3>3. row.life = "deleted" /\ row.url = hosts[h].url
            BY <3>2 DEF HostRow
        <3> HIDE DEF row
        <3> QED BY <3>1, <3>2, <3>3 DEF TypeOK, StoreTypeOK
    <2>2. CASE hosts[h].life # "live"
        BY <1>1, <1>6, <2>2 DEF CommitDeleteHost, Refuse
    <2> QED BY <2>1, <2>2
<1> QED BY <1>2, <1>3, <1>4, <1>5, <1>6 DEF Advances

\* A saved edit of a host has all modules that a new URL concerns.
LEMMA SavedHost ==
    ASSUME MonitoringInv, DependentsAreKnown, NEW e \in Editors, CommitHost(e),
           Unchanged(hosts[edit[e].host], edit[e].version)
    PROVE  \A m \in Modules :
               \/ Holds(e, m) /\ latest'[m] = None
               \/ /\ Untouched(m)
                  /\ modules[m].life = "live" => HostStays(m)
<1> DEFINE h == edit[e].host
           form == edit[e].form
           ms == edit[e].dependents
           row == [hosts[h] EXCEPT !.url = form.url, !.enabled = form.enabled,
                       !.version = hosts[h].version + 1,
                       !.vouched = IF edit[e].probed THEN form.url ELSE hosts[h].vouched]
<1>1. /\ hosts' = [hosts EXCEPT ![h] = row] /\ modules' = Bumped(ms) /\ Invalidate(ms, Now(e))
      /\ Step(e, "editHost", "lock") /\ edit[e].todo = {} /\ edit[e].version = hosts[h].version
      /\ hosts[h].life = "live"
    BY DEF CommitHost, Unchanged
<1>2. /\ h \in Hosts /\ hosts[h] \in HostRow /\ StoreTypeOK /\ ms \in SUBSET Modules
      /\ \A m \in ms : modules[m].life # "absent" /\ Holds(e, m)
    BY <1>1 DEF MonitoringInv, EditsAreSane, Concerns, SawRow, EditsHold, Step, TypeOK, StoreTypeOK,
                EditTypeOK, Edit
<1>3. row.life = hosts[h].life /\ row.url = form.url
    BY <1>2 DEF HostRow
<1> HIDE DEF row
<1>4. hosts'[h] = row /\ \A x \in Hosts \ {h} : hosts'[x] = hosts[x]
    BY <1>1, <1>2 DEF StoreTypeOK
<1>5. \A m \in Modules : /\ m \in ms => latest'[m] = None
                         /\ m \notin ms => Untouched(m)
    BY <1>1, <1>2, BumpedInvalidated DEF Invalidated
<1>6. ASSUME NEW m \in Modules, m \notin ms, modules[m].life = "live"
      PROVE  HostStays(m)
    <2>1. CASE modules[m].host = h
        <3>1. UsesAgent(m) => Relies(m, h)
            BY <1>6, <2>1 DEF Relies, OnHost
        <3>2. UsesAgent(m) => hosts[h].url = form.url
            BY <1>1, <1>6, <3>1 DEF DependentsAreKnown
        <3> QED BY <1>1, <1>3, <1>4, <2>1, <3>2 DEF HostStays
    <2>2. CASE modules[m].host # h
        <3>1. modules[m].host \in Hosts \cup {None}
            BY <1>2 DEF StoreTypeOK, ModuleRow
        <3> QED BY <1>4, <2>2, <3>1 DEF HostStays
    <2> QED BY <2>1, <2>2
<1> QED BY <1>2, <1>5, <1>6

\* Latest results and checks under way still tell of their modules.
LEMMA EditsTell ==
    ASSUME MonitoringInv, CurrentInv, EditNext, UNCHANGED job
    PROVE  LatestTells' /\ ChecksTell'
<1>0. PICK e \in Editors : Opens(e) \/ Advances(e) \/ EditStops(e)
    BY DEF EditNext
<1>1. /\ TypeOK /\ EditsAreSane /\ LocksAreExclusive /\ EditsHold /\ ChecksHold /\ StoreTypeOK
      /\ \A m \in Modules : modules[m].life = "absent" => latest[m] = None
      /\ \A m \in Modules : latest[m] # None => Tells(m, latest[m].seen)
      /\ \A c \in Collectors : job[c] # None => Tells(job[c].module, job[c].seen)
      /\ \A c \in Collectors : job[c] # None => job[c].module \in Modules /\ Holds(c, job[c].module)
                                                /\ modules[job[c].module].life = "live"
    BY DEF MonitoringInv, CurrentInv, LatestTells, ChecksTell, AbsentAreUnknown, TypeOK,
           CollectorTypeOK, Check, ChecksHold
<1>2. \A m \in Modules : Affects(e, m)
    BY <1>0, <1>1, EditsAffect DEF EditsAreSane, IsSane
<1>3. \A m \in Modules : \/ Holds(e, m) /\ latest'[m] = None
                         \/ modules[m].life = "live" => HostStays(m)
    <2>1. CASE CommitHost(e) /\ Unchanged(hosts[edit[e].host], edit[e].version)
        BY <2>1, SavedHost DEF CurrentInv
    <2>2. CASE ~(CommitHost(e) /\ Unchanged(hosts[edit[e].host], edit[e].version))
        <3>1. \A h \in Hosts : hosts[h].life # "absent" =>
                  hosts'[h].life # "absent" /\ hosts'[h].url = hosts[h].url
            BY <1>0, <1>1, <2>2, UrlsStay
        <3>2. \A m \in Modules : modules[m].host \in Hosts \cup {None}
            BY <1>1 DEF StoreTypeOK, ModuleRow
        <3> QED BY <3>1, <3>2 DEF HostStays
    <2> QED BY <2>1, <2>2
<1>4. ASSUME NEW m \in Modules, latest'[m] # None, NEW seen, seen = latest'[m].seen
      PROVE  Tells(m, seen)'
    <2>1. (Untouched(m) \/ Kept(m)) /\ latest'[m] = latest[m]
        BY <1>1, <1>2, <1>4 DEF Affects, Inserted, Invalidated, Untouched, Kept, SameOutcome
    <2>2. Tells(m, seen)
        BY <1>1, <1>4, <2>1
    <2>3. modules[m].life = "live" /\ modules'[m].life = "live"
          /\ Fingerprint(modules'[m]) = Fingerprint(modules[m])
        BY <2>1, <2>2 DEF Tells, Untouched, Kept
    <2> QED BY <1>1, <1>3, <1>4, <2>2, <2>3, StillTells
<1>5. ASSUME NEW c \in Collectors, NEW x, x = job[c], x # None
      PROVE  Tells(x.module, x.seen)'
    <2>1. /\ Tells(x.module, x.seen) /\ x.module \in Modules /\ Holds(c, x.module)
          /\ modules[x.module].life = "live"
        BY <1>1, <1>5
    <2>2. c \in Sessions /\ e \in Sessions /\ c # e
        BY SessionsAssumption DEF Sessions
    <2>3. Untouched(x.module)
        BY <1>1, <1>2, <2>1, <2>2, HeldIsUntouched
    <2>4. ~Holds(e, x.module)
        BY <1>1, <2>1, <2>2 DEF LocksAreExclusive, Holds
    <2>5. HostStays(x.module)
        BY <1>3, <2>1, <2>4
    <2> QED BY <1>1, <2>1, <2>3, <2>5, StillTells DEF Untouched
<1>6. LatestTells'
    BY <1>4 DEF LatestTells
<1>7. ChecksTell'
    BY <1>5 DEF ChecksTell
<1> QED BY <1>6, <1>7

LEMMA CollectorsTell ==
    ASSUME MonitoringInv, CurrentInv, NEW c \in Collectors,
           \/ \E m \in Modules : CollectStart(c, m)
           \/ CollectCommit(c) \/ CollectStops(c) \/ RetainAll(c)
    PROVE  LatestTells' /\ ChecksTell'
<1>0. /\ CollectorTypeOK /\ StoreTypeOK
      /\ \A m \in Modules : latest[m] # None => Tells(m, latest[m].seen)
      /\ \A d \in Collectors : job[d] # None => Tells(job[d].module, job[d].seen)
      /\ \A d \in Collectors : job[d] # None => job[d].module \in Modules
    BY DEF MonitoringInv, CurrentInv, LatestTells, ChecksTell, TypeOK, CollectorTypeOK, Check
<1>1. \A m, seen : Tells(m, seen) => Tells(m, seen)'
    <2>1. UNCHANGED <<hosts, modules>>
        BY DEF CollectStart, CollectCommit, CollectStops, RetainAll
    <2> QED BY <2>1 DEF Tells, Addressed, UsesAgent
<1>2. ASSUME UNCHANGED latest, NEW j, job' = [job EXCEPT ![c] = j],
             j # None => Tells(j.module, j.seen)
      PROVE  LatestTells' /\ ChecksTell'
    <2>1. LatestTells'
        BY <1>0, <1>1, <1>2 DEF LatestTells
    <2>2. ASSUME NEW d \in Collectors, NEW x, x = job'[d], x # None
          PROVE  Tells(x.module, x.seen)'
        <3>1. Tells(x.module, x.seen)
            BY <1>0, <1>2, <2>2 DEF CollectorTypeOK
        <3> QED BY <1>1, <3>1
    <2> QED BY <2>1, <2>2 DEF ChecksTell
<1>3. ASSUME NEW m \in Modules, CollectStart(c, m)
      PROVE  LatestTells' /\ ChecksTell'
    <2>1. PICK j : j = [module |-> m, version |-> modules[m].monitoringVersion,
                        seen |-> Addressed(m)]
        OBVIOUS
    <2>2. j.module = m /\ j.seen = Addressed(m)
        BY <2>1
    <2>3. UNCHANGED latest /\ job' = [job EXCEPT ![c] = j] /\ Monitorable(m)
        BY <1>3, <2>1 DEF CollectStart
    <2>4. Tells(m, Addressed(m))
        BY <2>3 DEF Monitorable, Tells
    <2> QED BY <1>2, <2>2, <2>3, <2>4
<1>4. CASE CollectStops(c)
    BY <1>2, <1>4 DEF CollectStops
<1>5. CASE RetainAll(c)
    BY <1>0, <1>1, <1>5 DEF RetainAll, LatestTells, ChecksTell
<1>6. CASE CollectCommit(c)
    <2> DEFINE m == job[c].module
    <2>1. PICK l : /\ latest' = [latest EXCEPT ![m] = l]
                   /\ l.seen = job[c].seen
        <3>1. PICK state \in States : latest' = [latest EXCEPT ![m] =
                  [at |-> Now(c), freshUntil |-> Now(c) + Stale, version |-> job[c].version,
                   state |-> state, seen |-> job[c].seen]]
            BY <1>6 DEF CollectCommit
        <3>2. [at |-> Now(c), freshUntil |-> Now(c) + Stale, version |-> job[c].version,
               state |-> state, seen |-> job[c].seen].seen = job[c].seen
            OBVIOUS
        <3> QED BY <3>1, <3>2
    <2>2. job[c] # None /\ job' = [job EXCEPT ![c] = None]
        BY <1>6 DEF CollectCommit
    <2>3. ASSUME NEW x \in Modules, latest'[x] # None, NEW seen, seen = latest'[x].seen
          PROVE  Tells(x, seen)'
        <3>1. Tells(x, seen)
            <4>1. CASE x = m
                BY <1>0, <2>1, <2>2, <2>3, <4>1 DEF StoreTypeOK
            <4>2. CASE x # m
                BY <1>0, <2>1, <2>3, <4>2 DEF StoreTypeOK
            <4> QED BY <4>1, <4>2
        <3> QED BY <1>1, <3>1
    <2>4. ASSUME NEW d \in Collectors, NEW x, x = job'[d], x # None
          PROVE  Tells(x.module, x.seen)'
        <3>1. x = job[d]
            BY <1>0, <2>2, <2>4 DEF CollectorTypeOK
        <3> QED BY <1>0, <1>1, <2>4, <3>1
    <2>5. LatestTells'
        BY <2>3 DEF LatestTells
    <2>6. ChecksTell'
        BY <2>4 DEF ChecksTell
    <2> QED BY <2>5, <2>6
<1> QED BY <1>3, <1>4, <1>5, <1>6

LEMMA DependentsStayKnown ==
    ASSUME MonitoringInv, CurrentInv, Next, NoArrivals
    PROVE  DependentsAreKnown'
<1>1. /\ TypeOK /\ TypeOK' /\ EditsAreSane /\ EditTypeOK /\ RowsGrow
      /\ \A e \in Editors : edit[e] \in Edit /\ IsSane(edit[e])
    BY NextMonitoring, NextGrows DEF MonitoringInv, TypeOK, EditTypeOK, EditsAreSane, IsSane
<1> SUFFICES ASSUME NEW e \in Editors, NEW m \in Modules, NEW y, y = edit'[e],
                    y.kind = "editHost", y.pc = "lock",
                    y.version = hosts'[y.host].version,
                    Relies(m, y.host)',
                    hosts'[y.host].url # y.form.url
             PROVE  m \in y.dependents
    BY DEF DependentsAreKnown, Step
<1>2. ASSUME edit[e].kind = "editHost", edit[e].pc = "lock", y.host = edit[e].host,
             y.version = edit[e].version, y.form = edit[e].form
      PROVE  m \in edit[e].dependents
    <2> DEFINE h == edit[e].host
    <2>1. /\ h \in Hosts /\ hosts[h].life # "absent" /\ edit[e].version <= hosts[h].version
          /\ edit[e].version \in Nat
        BY <1>1, <1>2 DEF IsSane, Concerns, SawRow, Edit
    <2>2. hosts'[h] = hosts[h]
        <3>1. HostGrows(h) /\ hosts[h].version \in Nat /\ hosts'[h].version = edit[e].version
            BY <1>1, <1>2, <2>1 DEF RowsGrow, TypeOK, StoreTypeOK, HostRow
        <3> QED BY <2>1, <3>1 DEF HostGrows
    <2>3. Relies(m, h)
        <3>1. Step(e, "editHost", "lock")
            BY <1>2 DEF Step
        <3>2. edit'[e].host = h
            BY <1>2
        <3>3. ~Relies(m, edit[e].host) => ~Relies(m, edit[e].host)'
            BY <3>1 DEF NoArrivals
        <3>4. Relies(m, edit[e].host)'
            BY <1>2, <3>2 DEF Relies, OnHost, UsesAgent
        <3> QED BY <3>3, <3>4
    <2> QED BY <1>2, <2>2, <2>3 DEF CurrentInv, DependentsAreKnown, Step
<1>3. CASE edit'[e] = edit[e]
    BY <1>2, <1>3
<1>4. ASSUME edit'[e] # edit[e]
      PROVE  m \in y.dependents
    <2>1. EditNext
        BY <1>4 DEF Next
    <2>2. PICK f \in Editors : Opens(f) \/ Advances(f) \/ EditStops(f)
        BY <2>1 DEF EditNext
    <2>3. f = e
        <3>1. CASE Opens(f)
            <4>1. PICK z : edit' = [edit EXCEPT ![f] = z]
                BY <1>1, <3>1, OpenedSane
            <4> QED BY <1>1, <1>4, <4>1 DEF EditTypeOK
        <3>2. CASE Advances(f) \/ EditStops(f)
            <4>1. PICK z : edit' = [edit EXCEPT ![f] = z]
                BY <1>1, <3>2, AdvancedSane
            <4> QED BY <1>1, <1>4, <4>1 DEF EditTypeOK
        <3> QED BY <2>2, <3>1, <3>2
    <2>4. ASSUME NEW pc, GoTo(e, pc)
          PROVE  pc = "lock"
        BY <1>1, <2>4 DEF GoTo, EditTypeOK, Edit
    <2>5. CASE BeginHost(e)
        <3> DEFINE h == edit[e].host
                   ms == Dependents(h, edit[e].form)
        <3>1. edit' = [edit EXCEPT ![e].pc = "lock", ![e].dependents = ms, ![e].todo = ms]
            BY <2>4, <2>5 DEF BeginHost
        <3>2. UNCHANGED <<hosts, modules>>
            BY <2>5 DEF BeginHost, storeVars
        <3>3. y.host = h /\ y.form = edit[e].form /\ y.dependents = ms
            <4> HIDE DEF ms
            <4> QED BY <1>1, <3>1 DEF EditTypeOK, Edit
        <3>4. m \in OnHost(h) /\ UsesAgent(m)
            BY <3>2, <3>3 DEF Relies, OnHost, UsesAgent
        <3> QED BY <3>2, <3>3, <3>4 DEF Dependents
    <2>6. CASE LockNext(e)
        <3>1. PICK n \in LowestFirst(edit[e].todo) : edit' = [edit EXCEPT ![e].todo = @ \ {n}]
            BY <2>6 DEF LockNext
        <3>2. /\ y.host = edit[e].host /\ y.form = edit[e].form /\ y.version = edit[e].version
              /\ y.dependents = edit[e].dependents /\ y.kind = edit[e].kind /\ y.pc = edit[e].pc
            BY <1>1, <3>1 DEF EditTypeOK, Edit
        <3> QED BY <1>2, <3>2
    <2>7. CASE Opens(e)
        <3>1. PICK z : edit' = [edit EXCEPT ![e] = z] /\ IsNew(z)
            BY <1>1, <2>7, OpenedSane
        <3> QED BY <1>1, <3>1 DEF EditTypeOK, IsNew
    <2>8. CASE \/ Review(e) \/ Validate(e) \/ EditStops(e) \/ InsertHost(e) \/ InsertModule(e)
               \/ CommitHost(e) \/ CommitDeleteHost(e)
               \/ CommitModule(e) \/ CommitDeleteModule(e)
        <3>1. \E pc \in {"refused", "probe", "begin", "insert", "saved"} : GoTo(e, pc)
            BY <2>8 DEF Review, Validate, EditStops, InsertHost, InsertModule, CommitHost,
                        CommitDeleteHost, CommitModule, CommitDeleteModule, Refuse
        <3> QED BY <2>4, <3>1
    <2>9. CASE Probe(e) \/ BeginModule(e)
        BY <1>1, <2>9 DEF Probe, BeginModule, EditTypeOK, Edit
    <2>10. CASE BeginDeleteHost(e)
        BY <1>1, <2>10 DEF BeginDeleteHost, Step, EditTypeOK, Edit
    <2> QED BY <2>2, <2>3, <2>5, <2>6, <2>7, <2>8, <2>9, <2>10 DEF Advances
<1> QED BY <1>3, <1>4

LEMMA NextCurrent ==
    ASSUME MonitoringInv, CurrentInv, [Next]_vars, NoArrivals
    PROVE  CurrentInv'
<1>1. CASE UNCHANGED vars
    BY <1>1 DEF CurrentInv, LatestTells, ChecksTell, DependentsAreKnown, Tells, Addressed, UsesAgent,
                Step, Relies, OnHost, vars, storeVars
<1>2. CASE Next
    <2>1. DependentsAreKnown'
        BY <1>2, DependentsStayKnown
    <2>2. CASE CollectorNext
        BY <2>1, <2>2, CollectorsTell DEF CollectorNext, CurrentInv
    <2>3. CASE Tick
        <3>1. UNCHANGED <<hosts, modules, latest, job>>
            BY <2>3 DEF Tick
        <3>2. LatestTells' /\ ChecksTell'
            BY <3>1 DEF CurrentInv, LatestTells, ChecksTell, Tells, Addressed, UsesAgent
        <3> QED BY <2>1, <3>2 DEF CurrentInv
    <2>4. CASE EditNext /\ UNCHANGED job
        BY <2>1, <2>4, EditsTell DEF CurrentInv
    <2> QED BY <1>2, <2>2, <2>3, <2>4 DEF Next
<1> QED BY <1>1, <1>2

\* The latest result of a module tells of its present target and agent, as long
\* as no module moves to a host while an edit of the host is between its query
\* for dependents and its commit (the run monitoring_moved shows what happens
\* otherwise).
THEOREM LatestStaysCurrent == Spec /\ [][NoArrivals]_vars => []LatestIsCurrent
<1>1. Init => CurrentInv
    BY DEF Init, CurrentInv, LatestTells, ChecksTell, DependentsAreKnown, Step, Idle
<1>2. MonitoringInv /\ CurrentInv /\ [Next]_vars /\ [NoArrivals]_vars => CurrentInv'
    <2>1. ASSUME MonitoringInv, CurrentInv, UNCHANGED vars
          PROVE  CurrentInv'
        BY <2>1 DEF CurrentInv, LatestTells, ChecksTell, DependentsAreKnown, Tells, Addressed,
                    UsesAgent, Step, Relies, OnHost, vars, storeVars
    <2> QED BY <2>1, NextCurrent
<1>3. CurrentInv => LatestIsCurrent
    BY DEF CurrentInv, LatestTells, Tells, LatestIsCurrent
<1> QED BY <1>1, <1>2, <1>3, MonitoringIsSafe, PTL DEF Spec

-----------------------------------------------------------------------------
(* Blocks *)

\* What a replay of the results, and what the blocks, say of time t.
IsLast(rows, i, t) ==
    /\ rows[i].at <= t
    /\ \A j \in DOMAIN rows : rows[j].at <= t => j <= i

Says(rows, t, s) ==
    \E i \in DOMAIN rows : IsLast(rows, i, t) /\ t < rows[i].freshUntil /\ rows[i].state = s

Covers(bs, t, s) == \E b \in bs : b.start <= t /\ t < b.end /\ b.state = s

InOrder(rows, now) ==
    \A i \in DOMAIN rows :
        /\ rows[i].at <= now
        /\ \A j \in DOMAIN rows : i < j => rows[i].at <= rows[j].at

Tidy(bs, now) ==
    \A b \in bs :
        /\ b.start <= now /\ b.start < b.end
        /\ \A o \in bs \ {b} : b.start <= o.start => b.end <= o.start

LEMMA AppendedSays ==
    ASSUME NEW rows \in Seq(ResultRow), NEW now \in Nat, InOrder(rows, now),
           NEW r \in ResultRow, r.at = now, NEW new, new = Append(rows, r)
    PROVE  /\ InOrder(new, now)
           /\ \A t \in Nat : \A s : t < now => (Says(new, t, s) <=> Says(rows, t, s))
           /\ \A t \in Nat : \A s : now <= t => (Says(new, t, s) <=> t < r.freshUntil /\ s = r.state)
<1> DEFINE n == Len(rows)
<1>1. /\ DOMAIN rows = 1..n /\ n \in Nat /\ DOMAIN new = 1..(n + 1)
      /\ new[n + 1] = r
      /\ \A i \in DOMAIN rows : new[i] = rows[i] /\ rows[i].at \in Nat
    BY Appended
<1> HIDE DEF n
<1>2. \A i \in DOMAIN new : i \in DOMAIN rows \/ i = n + 1
    BY <1>1
<1>3. InOrder(new, now)
    BY <1>1, <1>2 DEF InOrder
<1>4. ASSUME NEW t \in Nat, NEW s, t < now
      PROVE  Says(new, t, s) <=> Says(rows, t, s)
    <2>1. ~(r.at <= t)
        BY <1>4
    <2>2. \A i \in DOMAIN rows : IsLast(new, i, t) <=> IsLast(rows, i, t)
        BY <1>1, <1>2, <2>1 DEF IsLast
    <2>3. ~IsLast(new, n + 1, t)
        BY <1>1, <2>1 DEF IsLast
    <2> QED BY <1>1, <1>2, <2>2, <2>3 DEF Says
<1>5. ASSUME NEW t \in Nat, NEW s, now <= t
      PROVE  Says(new, t, s) <=> t < r.freshUntil /\ s = r.state
    <2>1. n + 1 \in DOMAIN new /\ new[n + 1].at <= t
        BY <1>1, <1>5
    <2>2. IsLast(new, n + 1, t)
        BY <1>1, <2>1 DEF IsLast
    <2>3. \A i \in DOMAIN new : IsLast(new, i, t) => i = n + 1
        BY <1>1, <2>1 DEF IsLast
    <2> QED BY <1>1, <2>1, <2>2, <2>3 DEF Says
<1> QED BY <1>3, <1>4, <1>5

LEMMA PickedSays ==
    ASSUME NEW rows \in Seq(ResultRow), NEW new \in Seq(ResultRow), NEW now \in Nat,
           InOrder(rows, now), NEW cutoff \in Int, NEW place, Picks(new, rows, cutoff, place)
    PROVE  /\ InOrder(new, now)
           /\ new # <<>> => /\ rows # <<>> /\ rows[1].at <= new[1].at /\ new[1].at >= cutoff
                            /\ \A t \in Nat : \A s : new[1].at <= t =>
                                   (Says(new, t, s) <=> Says(rows, t, s))
<1>1. /\ \A k \in DOMAIN new : /\ place[k] \in DOMAIN rows /\ new[k] = rows[place[k]]
                               /\ new[k].at >= cutoff
      /\ \A k, l \in DOMAIN new : k < l => place[k] < place[l]
      /\ \A i \in DOMAIN rows : rows[i].at >= cutoff => \E k \in DOMAIN new : place[k] = i
    BY DEF Picks
<1>2. /\ Len(rows) \in Nat /\ DOMAIN rows = 1..Len(rows)
      /\ Len(new) \in Nat /\ DOMAIN new = 1..Len(new)
      /\ \A i \in DOMAIN rows : rows[i].at \in Nat
    BY RowTimes
<1>3. InOrder(new, now)
    BY <1>1 DEF InOrder
<1>4. ASSUME new # <<>>
      PROVE  1 \in DOMAIN new /\ rows # <<>> /\ rows[1].at <= new[1].at /\ new[1].at >= cutoff
    <2>1. 1 \in DOMAIN new
        BY <1>2, <1>4
    <2>2. place[1] \in DOMAIN rows /\ new[1] = rows[place[1]]
        BY <1>1, <2>1
    <2>3. 1 \in DOMAIN rows /\ (1 = place[1] \/ 1 < place[1])
        BY <1>2, <2>2
    <2>4. rows[1].at <= rows[place[1]].at
        BY <1>2, <2>2, <2>3 DEF InOrder
    <2> QED BY <1>1, <2>1, <2>2, <2>3, <2>4
<1>5. ASSUME new # <<>>, NEW t \in Nat, NEW s, new[1].at <= t
      PROVE  Says(new, t, s) <=> Says(rows, t, s)
    <2>1. \A i, j \in DOMAIN rows : i <= j => rows[i].at <= rows[j].at
        BY <1>2 DEF InOrder
    <2>2. ASSUME NEW i \in DOMAIN rows, IsLast(rows, i, t)
          PROVE  \E k \in DOMAIN new : place[k] = i /\ IsLast(new, k, t)
        <3>1. place[1] \in DOMAIN rows /\ rows[place[1]].at <= t
            BY <1>1, <1>4, <1>5
        <3>2. place[1] <= i
            BY <2>2, <3>1 DEF IsLast
        <3>3. rows[place[1]].at <= rows[i].at
            BY <2>1, <3>1, <3>2
        <3>4. rows[i].at >= cutoff
            BY <1>1, <1>2, <1>4, <1>5, <3>1, <3>3
        <3>5. PICK k \in DOMAIN new : place[k] = i
            BY <1>1, <3>4
        <3>6. ASSUME NEW l \in DOMAIN new, new[l].at <= t
              PROVE  l <= k
            <4>1. place[l] <= i
                BY <1>1, <2>2, <3>6 DEF IsLast
            <4>2. ~(k < l)
                BY <1>1, <1>2, <3>5, <4>1
            <4> QED BY <1>2, <4>2
        <3> QED BY <1>1, <2>2, <3>5, <3>6 DEF IsLast
    <2>3. ASSUME NEW k \in DOMAIN new, IsLast(new, k, t)
          PROVE  place[k] \in DOMAIN rows /\ IsLast(rows, place[k], t)
        <3>1. place[k] \in DOMAIN rows /\ rows[place[k]].at <= t /\ rows[place[k]].at >= cutoff
            BY <1>1, <2>3 DEF IsLast
        <3>2. ASSUME NEW j \in DOMAIN rows, rows[j].at <= t, ~(j <= place[k])
              PROVE  FALSE
            <4>1. place[k] <= j
                BY <1>2, <3>1, <3>2
            <4>2. rows[place[k]].at <= rows[j].at
                BY <2>1, <3>1, <4>1
            <4>3. rows[j].at >= cutoff
                BY <1>2, <3>1, <4>2
            <4>4. PICK l \in DOMAIN new : place[l] = j
                BY <1>1, <4>3
            <4>5. l <= k
                BY <1>1, <2>3, <3>2, <4>4 DEF IsLast
            <4>6. l = k \/ place[l] < place[k]
                <5>1. l \in Nat /\ k \in Nat
                    BY <1>2
                <5>2. l = k \/ l < k
                    BY <4>5, <5>1
                <5> QED BY <1>1, <5>2
            <4> QED BY <1>2, <3>1, <3>2, <4>4, <4>6
        <3> QED BY <3>1, <3>2 DEF IsLast
    <2>4. Says(rows, t, s) => Says(new, t, s)
        BY <1>1, <2>2 DEF Says
    <2>5. Says(new, t, s) => Says(rows, t, s)
        BY <1>1, <2>3 DEF Says
    <2> QED BY <2>4, <2>5
<1> QED BY <1>3, <1>4, <1>5

LEMMA BlockTimes ==
    \A b \in Block : b.start \in Nat /\ b.end \in Nat
BY DEF Block

LEMMA CutCovers ==
    ASSUME NEW bs \in SUBSET Block, NEW now \in Nat, Tidy(bs, now), NEW new, new = Cut(bs, now)
    PROVE  /\ Tidy(new, now)
           /\ \A t \in Nat : \A s : t < now => (Covers(new, t, s) <=> Covers(bs, t, s))
           /\ \A t \in Nat : \A s : now <= t => ~Covers(new, t, s)
<1> DEFINE cut(b) == [b EXCEPT !.end = IF b.end > now THEN now ELSE b.end]
<1>1. \A b \in bs : b.start \in Nat /\ b.end \in Nat
    BY BlockTimes
<1>2. \A b \in bs : /\ cut(b).start = b.start /\ cut(b).state = b.state
                    /\ cut(b).end = IF b.end > now THEN now ELSE b.end
    BY DEF Block
<1>3. new = {cut(b) : b \in {x \in bs : x.start < now}}
    BY DEF Cut
<1> HIDE DEF cut
<1>4. \A c \in new : \E b \in bs : c = cut(b) /\ b.start < now
    BY <1>3
<1>5. \A b \in bs : b.start < now => cut(b) \in new
    BY <1>3
<1>6. Tidy(new, now)
    <2>1. ASSUME NEW c \in new
          PROVE  c.start <= now /\ c.start < c.end
        BY <1>1, <1>2, <1>4 DEF Tidy
    <2>2. ASSUME NEW c \in new, NEW o \in new \ {c}, c.start <= o.start
          PROVE  c.end <= o.start
        <3>1. PICK b \in bs : c = cut(b) /\ b.start < now
            BY <1>4
        <3>2. PICK d \in bs : o = cut(d) /\ d.start < now
            BY <1>4
        <3>3. d \in bs \ {b} /\ b.start <= d.start
            BY <1>2, <2>2, <3>1, <3>2
        <3>4. b.end <= d.start
            BY <3>3 DEF Tidy
        <3> QED BY <1>1, <1>2, <3>1, <3>2, <3>4
    <2> QED BY <2>1, <2>2 DEF Tidy
<1>7. ASSUME NEW t \in Nat, NEW s, t < now
      PROVE  Covers(new, t, s) <=> Covers(bs, t, s)
    <2>1. \A b \in bs : (cut(b).start <= t /\ t < cut(b).end) <=> (b.start <= t /\ t < b.end)
        BY <1>1, <1>2, <1>7
    <2>2. \A b \in bs : b.start <= t => b.start < now
        BY <1>1, <1>7
    <2> QED BY <1>2, <1>4, <1>5, <2>1, <2>2 DEF Covers
<1>8. ASSUME NEW t \in Nat, NEW s, now <= t
      PROVE  ~Covers(new, t, s)
    <2>1. \A b \in bs : ~(t < cut(b).end)
        BY <1>1, <1>2, <1>8
    <2> QED BY <1>4, <2>1 DEF Covers
<1> QED BY <1>6, <1>7, <1>8

LEMMA RetainedCovers ==
    ASSUME NEW bs \in SUBSET Block, NEW now \in Nat, Tidy(bs, now), NEW cutoff \in Int,
           NEW new, new = Retained(bs, cutoff)
    PROVE  /\ Tidy(new, now)
           /\ \A t \in Nat : \A s : cutoff <= t => (Covers(new, t, s) <=> Covers(bs, t, s))
<1>1. \A b \in bs : b.start \in Nat /\ b.end \in Nat
    BY BlockTimes
<1>2. Tidy(new, now)
    BY DEF Retained, Tidy
<1>3. ASSUME NEW t \in Nat, NEW s, cutoff <= t
      PROVE  Covers(new, t, s) <=> Covers(bs, t, s)
    <2>1. \A b \in bs : t < b.end => b.end >= cutoff
        BY <1>1, <1>3
    <2> QED BY <2>1 DEF Retained, Covers
<1> QED BY <1>2, <1>3

LEMMA ObservedCovers ==
    ASSUME NEW bs \in SUBSET Block, NEW now \in Nat, Tidy(bs, now),
           NEW until \in Nat, now < until, NEW state,
           NEW last, bs = {} => last = None, bs # {} => last \in Newest(bs),
           NEW new, new = Observe(bs, last, now, until, state)
    PROVE  /\ Tidy(new, now)
           /\ \A t \in Nat : \A s : t < now => (Covers(new, t, s) <=> Covers(bs, t, s))
           /\ \A t \in Nat : \A s : now <= t => (Covers(new, t, s) <=> t < until /\ s = state)
<1> PICK b : b = [start |-> now, end |-> until, state |-> state]
    OBVIOUS
<1>1. b.start = now /\ b.end = until /\ b.state = state
    OBVIOUS
<1>2. \A x \in bs : x.start \in Nat /\ x.end \in Nat
    BY BlockTimes
\* Of two blocks, the one that may show anything at or after now is the last.
<1>3. CASE bs = {}
    <2>1. new = {b}
        BY <1>3 DEF Observe, Trim
    <2> QED BY <1>1, <1>3, <2>1 DEF Tidy, Covers
<1>4. CASE bs # {}
    <2>1. last \in bs /\ last # None /\ \A o \in bs : o.start <= last.start
        BY <1>4, NoRowAssumption DEF Newest
    <2>2. /\ \A o \in bs \ {last} : o.end <= last.start
          /\ last.start <= now /\ last.start < last.end
          /\ last.start \in Nat /\ last.end \in Nat
        BY <1>2, <2>1 DEF Tidy
    \* The others say nothing of now or later, and remain.
    <2>3. ASSUME NEW x, x.start = last.start, x.start < x.end, new = (bs \ {last}) \cup {x}
          PROVE  Tidy(new, now)
        <3>1. ASSUME NEW p \in new
              PROVE  p.start <= now /\ p.start < p.end
            BY <2>2, <2>3, <3>1 DEF Tidy
        <3>2. ASSUME NEW p \in new, NEW o \in new \ {p}, p.start <= o.start
              PROVE  p.end <= o.start
            <4>1. CASE p \in bs \ {last} /\ o \in bs \ {last}
                BY <3>2, <4>1 DEF Tidy
            <4>2. CASE p \in bs \ {last} /\ o = x
                BY <2>2, <2>3, <4>2
            <4>3. CASE p = x /\ o \in bs \ {last}
                <5>1. o.end <= last.start /\ o.start < o.end /\ o.start \in Nat /\ o.end \in Nat
                    BY <1>2, <2>2, <4>3 DEF Tidy
                <5> QED BY <2>2, <2>3, <3>2, <4>3, <5>1
            <4> QED BY <2>3, <3>2, <4>1, <4>2, <4>3
        <3> QED BY <3>1, <3>2 DEF Tidy
    <2>4. CASE Extends(last, now, state)
        <3> PICK x : x = [last EXCEPT !.end = until]
            OBVIOUS
        <3>1. x.start = last.start /\ x.end = until /\ x.state = state /\ last.state = state
              /\ now <= last.end
            BY <2>1, <2>4 DEF Extends, Block
        <3>2. new = (bs \ {last}) \cup {x}
            BY <2>1, <2>4 DEF Observe
        <3>3. Tidy(new, now)
            <4>1. x.start < x.end
                BY <2>2, <3>1
            <4> QED BY <2>3, <3>1, <3>2, <4>1
        <3>4. ASSUME NEW t \in Nat, NEW s, t < now
              PROVE  Covers(new, t, s) <=> Covers(bs, t, s)
            <4>1. (x.start <= t /\ t < x.end) <=> (last.start <= t /\ t < last.end)
                BY <2>2, <3>1, <3>4
            <4> QED BY <2>1, <3>1, <3>2, <4>1 DEF Covers
        <3>5. ASSUME NEW t \in Nat, NEW s, now <= t
              PROVE  Covers(new, t, s) <=> t < until /\ s = state
            <4>1. \A o \in bs \ {last} : ~(t < o.end)
                BY <1>2, <2>2, <3>5
            <4>2. x.start <= t
                BY <2>2, <3>1, <3>5
            <4> QED BY <3>1, <3>2, <4>1, <4>2 DEF Covers
        <3> QED BY <3>3, <3>4, <3>5
    <2>5. CASE ~Extends(last, now, state)
        <3>1. new = Trim(bs, last, now) \cup {b}
            BY <2>5 DEF Observe
        <3>2. ASSUME NEW rest, new = rest \cup {b}, Tidy(rest, now),
                     \A o \in rest : o.end <= now /\ o.start \in Nat /\ o.end \in Nat
              PROVE  /\ Tidy(new, now)
                     /\ \A t \in Nat : \A s : t < now => (Covers(new, t, s) <=> Covers(rest, t, s))
                     /\ \A t \in Nat : \A s : now <= t =>
                            (Covers(new, t, s) <=> t < until /\ s = state)
            <4>1. ASSUME NEW p \in new
                  PROVE  p.start <= now /\ p.start < p.end
                BY <1>1, <3>2 DEF Tidy
            <4>2. ASSUME NEW p \in new, NEW o \in new \ {p}, p.start <= o.start
                  PROVE  p.end <= o.start
                <5>1. CASE p \in rest /\ o \in rest
                    BY <3>2, <4>2, <5>1 DEF Tidy
                <5>2. CASE p \in rest /\ o = b
                    BY <1>1, <3>2, <5>2
                <5>3. CASE p = b /\ o \in rest
                    <6>1. o.start < o.end /\ o.end <= now /\ o.start \in Nat /\ o.end \in Nat
                        BY <3>2, <5>3 DEF Tidy
                    <6> QED BY <1>1, <4>2, <5>3, <6>1
                <5> QED BY <3>2, <4>2, <5>1, <5>2, <5>3
            <4>3. Tidy(new, now)
                BY <4>1, <4>2 DEF Tidy
            <4>4. ASSUME NEW t \in Nat, NEW s, t < now
                  PROVE  Covers(new, t, s) <=> Covers(rest, t, s)
                BY <1>1, <3>2, <4>4 DEF Covers
            <4>5. ASSUME NEW t \in Nat, NEW s, now <= t
                  PROVE  Covers(new, t, s) <=> t < until /\ s = state
                <5>1. \A o \in rest : ~(t < o.end)
                    BY <3>2, <4>5
                <5> QED BY <1>1, <3>2, <4>5, <5>1 DEF Covers
            <4> QED BY <4>3, <4>4, <4>5
        <3>3. CASE last.end <= now
            <4>1. new = bs \cup {b}
                BY <3>1, <3>3 DEF Trim
            <4>2. \A o \in bs : o.end <= now /\ o.start \in Nat /\ o.end \in Nat
                BY <1>2, <2>2, <3>3
            <4> QED BY <3>2, <4>1, <4>2
        <3>4. CASE ~(last.end <= now) /\ last.start >= now
            <4> DEFINE rest == bs \ {last}
            <4>1. new = rest \cup {b}
                BY <2>1, <3>1, <3>4 DEF Trim
            <4>2. \A o \in rest : o.end <= now /\ o.start \in Nat /\ o.end \in Nat
                BY <1>2, <2>2
            <4>3. Tidy(rest, now)
                BY DEF Tidy
            <4>4. ASSUME NEW t \in Nat, NEW s, t < now
                  PROVE  Covers(rest, t, s) <=> Covers(bs, t, s)
                <5>1. ~(last.start <= t)
                    BY <2>2, <3>4, <4>4
                <5> QED BY <5>1 DEF Covers
            <4> HIDE DEF rest
            <4> QED BY <3>2, <4>1, <4>2, <4>3, <4>4
        <3>5. CASE ~(last.end <= now) /\ ~(last.start >= now)
            <4> PICK x : x = [last EXCEPT !.end = now]
                OBVIOUS
            <4>1. x.start = last.start /\ x.end = now /\ x.state = last.state
                BY <2>1 DEF Block
            <4> PICK rest : rest = (bs \ {last}) \cup {x}
                OBVIOUS
            <4>2. new = rest \cup {b}
                BY <2>1, <3>1, <3>5 DEF Trim
            <4>3. \A o \in rest : o.end <= now /\ o.start \in Nat /\ o.end \in Nat
                <5>1. ASSUME NEW o \in bs \ {last}
                      PROVE  o.end <= now /\ o.start \in Nat /\ o.end \in Nat
                    <6>1. o.end <= last.start /\ o.start \in Nat /\ o.end \in Nat
                        BY <1>2, <2>2
                    <6> QED BY <2>2, <6>1
                <5>2. x.end <= now /\ x.start \in Nat /\ x.end \in Nat
                    BY <2>2, <4>1
                <5> QED BY <5>1, <5>2
            <4>4. Tidy(rest, now)
                <5>1. ASSUME NEW p \in rest
                      PROVE  p.start <= now /\ p.start < p.end
                    <6>1. CASE p \in bs
                        BY <6>1 DEF Tidy
                    <6>2. CASE p = x
                        BY <2>2, <3>5, <4>1, <6>2
                    <6> QED BY <6>1, <6>2
                <5>2. ASSUME NEW p \in rest, NEW o \in rest \ {p}, p.start <= o.start
                      PROVE  p.end <= o.start
                    <6>1. CASE p \in bs \ {last} /\ o \in bs \ {last}
                        BY <5>2, <6>1 DEF Tidy
                    <6>2. CASE p \in bs \ {last} /\ o = x
                        BY <2>2, <4>1, <6>2
                    <6>3. CASE p = x /\ o \in bs \ {last}
                        <7>1. o.end <= last.start /\ o.start < o.end
                              /\ o.start \in Nat /\ o.end \in Nat
                            BY <1>2, <2>2, <6>3 DEF Tidy
                        <7> QED BY <2>2, <4>1, <5>2, <6>3, <7>1
                    <6> QED BY <5>2, <6>1, <6>2, <6>3
                <5> QED BY <5>1, <5>2 DEF Tidy
            <4>5. ASSUME NEW t \in Nat, NEW s, t < now
                  PROVE  Covers(rest, t, s) <=> Covers(bs, t, s)
                <5>1. (x.start <= t /\ t < x.end) <=> (last.start <= t /\ t < last.end)
                    BY <2>2, <3>5, <4>1, <4>5
                <5> QED BY <2>1, <4>1, <5>1 DEF Covers
            <4> QED BY <3>2, <4>2, <4>3, <4>4, <4>5
        <3> QED BY <3>3, <3>4, <3>5
    <2> QED BY <2>4, <2>5
<1> QED BY <1>3, <1>4

\* The blocks say of every moment since the first result what the results say.
Exact(rows, bs) ==
    rows # <<>> => \A t \in Nat : rows[1].at <= t => \A s : Covers(bs, t, s) <=> Says(rows, t, s)

Projected(rows, bs, now) == InOrder(rows, now) /\ Tidy(bs, now) /\ Exact(rows, bs)

LEMMA AppendedIsProjected ==
    ASSUME NEW rows \in Seq(ResultRow), NEW bs, NEW now \in Nat, Projected(rows, bs, now),
           NEW r \in ResultRow, r.at = now, NEW new, new = Append(rows, r),
           NEW bs2, Tidy(bs2, now),
           \A t \in Nat : \A s : t < now => (Covers(bs2, t, s) <=> Covers(bs, t, s)),
           \A t \in Nat : \A s : now <= t => (Covers(bs2, t, s) <=> t < r.freshUntil /\ s = r.state)
    PROVE  Projected(new, bs2, now)
<1>1. /\ InOrder(new, now)
      /\ \A t \in Nat : \A s : t < now => (Says(new, t, s) <=> Says(rows, t, s))
      /\ \A t \in Nat : \A s : now <= t => (Says(new, t, s) <=> t < r.freshUntil /\ s = r.state)
    <2>1. InOrder(rows, now)
        BY DEF Projected
    <2>2. InOrder(new, now)
        BY <2>1, AppendedSays
    <2>3. \A t \in Nat : \A s : t < now => (Says(new, t, s) <=> Says(rows, t, s))
        BY <2>1, AppendedSays
    <2>4. ASSUME NEW t \in Nat, NEW s, now <= t
          PROVE  Says(new, t, s) <=> t < r.freshUntil /\ s = r.state
        BY <2>1, <2>4, AppendedSays
    <2> QED BY <2>2, <2>3, <2>4
<1>2. ASSUME NEW t \in Nat, new[1].at <= t, NEW s
      PROVE  Covers(bs2, t, s) <=> Says(new, t, s)
    <2>1. CASE now <= t
        BY <1>1, <2>1
    <2>2. CASE t < now
        <3>1. /\ DOMAIN rows = 1..Len(rows) /\ Len(rows) \in Nat /\ new[Len(rows) + 1] = r
              /\ \A i \in DOMAIN rows : new[i] = rows[i]
            BY Appended
        <3>2. Len(rows) # 0
            BY <1>2, <2>2, <3>1
        <3>3. rows # <<>> /\ new[1] = rows[1]
            BY <3>1, <3>2
        <3>4. Covers(bs, t, s) <=> Says(rows, t, s)
            BY <1>2, <3>3 DEF Projected, Exact
        <3> QED BY <1>1, <2>2, <3>4
    <2> QED BY <2>1, <2>2
<1>3. Exact(new, bs2)
    BY <1>2 DEF Exact
<1> QED BY <1>1, <1>3 DEF Projected

LEMMA PickedIsProjected ==
    ASSUME NEW rows \in Seq(ResultRow), NEW bs \in SUBSET Block, NEW now \in Nat,
           Projected(rows, bs, now), NEW cutoff \in Int,
           NEW new, new = Recent(rows, cutoff),
           NEW bs2, bs2 = bs \/ bs2 = Retained(bs, cutoff)
    PROVE  Projected(new, bs2, now)
<1>1. new \in Seq(ResultRow) /\ \E place : Picks(new, rows, cutoff, place)
    BY RecentRows
<1>2. PICK place : Picks(new, rows, cutoff, place)
    BY <1>1
<1>3. /\ InOrder(new, now)
      /\ new # <<>> => /\ rows # <<>> /\ rows[1].at <= new[1].at /\ new[1].at >= cutoff
                       /\ \A t \in Nat : \A s : new[1].at <= t =>
                              (Says(new, t, s) <=> Says(rows, t, s))
    BY <1>1, <1>2, PickedSays DEF Projected
<1>4. Tidy(bs2, now) /\ \A t \in Nat : \A s : cutoff <= t => (Covers(bs2, t, s) <=> Covers(bs, t, s))
    <2>1. CASE bs2 = bs
        BY <2>1 DEF Projected
    <2>2. CASE bs2 = Retained(bs, cutoff)
        BY <2>2, RetainedCovers DEF Projected
    <2> QED BY <2>1, <2>2
<1>5. ASSUME new # <<>>, NEW t \in Nat, new[1].at <= t, NEW s
      PROVE  Covers(bs2, t, s) <=> Says(new, t, s)
    <2>1. /\ rows # <<>> /\ rows[1].at <= new[1].at /\ new[1].at >= cutoff
          /\ Says(new, t, s) <=> Says(rows, t, s)
        BY <1>3, <1>5
    <2>2. rows[1].at \in Nat /\ new[1].at \in Nat
        <3>1. 1 \in DOMAIN rows /\ 1 \in DOMAIN new
            BY <1>1, <1>5, <2>1
        <3> QED BY <1>1, <3>1, RowTimes
    <2>3. rows[1].at <= t /\ cutoff <= t
        BY <1>5, <2>1, <2>2
    <2>4. Covers(bs, t, s) <=> Says(rows, t, s)
        BY <2>1, <2>3 DEF Projected, Exact
    <2>5. Covers(bs2, t, s) <=> Covers(bs, t, s)
        BY <1>4, <2>3
    <2> QED BY <2>1, <2>4, <2>5
<1>6. Exact(new, bs2)
    BY <1>5 DEF Exact
<1> QED BY <1>3, <1>4, <1>6 DEF Projected

LEMMA ProjectedLater ==
    ASSUME NEW rows \in Seq(ResultRow), NEW bs \in SUBSET Block, NEW now \in Nat,
           Projected(rows, bs, now)
    PROVE  Projected(rows, bs, now + 1)
<1>1. \A i \in DOMAIN rows : rows[i].at \in Nat
    BY RowTimes
<1>2. \A b \in bs : b.start \in Nat
    BY BlockTimes
<1>3. InOrder(rows, now + 1)
    BY <1>1 DEF Projected, InOrder
<1>4. Tidy(bs, now + 1)
    BY <1>2 DEF Projected, Tidy
<1> QED BY <1>3, <1>4 DEF Projected

AllProjected == \A m \in Modules : Projected(results[m], blocks[m], clock)

LEMMA EditsProject ==
    ASSUME ClocksAgree, MonitoringInv, AllProjected, EditNext
    PROVE  AllProjected'
<1>0. PICK e \in Editors : Opens(e) \/ Advances(e) \/ EditStops(e)
    BY DEF EditNext
<1>1. /\ \A m \in Modules : Affects(e, m)
      /\ UNCHANGED clock
      /\ clock \in Nat /\ Now(e) = clock
    <2>1. clock \in Nat /\ Skew[e] = 0
        BY DEF MonitoringInv, TypeOK, StoreTypeOK, ClocksAgree, Sessions
    <2> QED BY <1>0, <2>1, EditsAffect, EditsKeepTime DEF MonitoringInv, EditsAreSane, IsSane, Now
<1> SUFFICES ASSUME NEW m \in Modules
             PROVE  Projected(results'[m], blocks'[m], clock)
    BY <1>1 DEF AllProjected
<1>2. Projected(results[m], blocks[m], clock)
    BY DEF AllProjected
<1>3. CASE Untouched(m) \/ Inserted(m) \/ Kept(m)
    BY <1>2, <1>3 DEF Untouched, Inserted, Kept, SameOutcome
<1>4. CASE Invalidated(m, Now(e))
    <2>1. modules[m] \in ModuleRow /\ results[m] \in Seq(ResultRow) /\ blocks[m] \in SUBSET Block
        BY DEF MonitoringInv, TypeOK, StoreTypeOK
    <2>2. PICK r : r = [at |-> clock, freshUntil |-> clock, state |-> "Unknown",
                        version |-> modules[m].monitoringVersion + 1]
        OBVIOUS
    <2>3. r \in ResultRow /\ r.at = clock /\ r.freshUntil = clock
        <3>1. modules[m].monitoringVersion + 1 \in Nat
            BY <2>1 DEF ModuleRow
        <3> QED BY <1>1, <2>2, <3>1 DEF ResultRow
    <2>4. results'[m] = Append(results[m], r) /\ blocks'[m] = Cut(blocks[m], clock)
        BY <1>1, <1>4, <2>2 DEF Invalidated
    <2>5. PICK new, bs2 : new = results'[m] /\ bs2 = blocks'[m]
        OBVIOUS
    <2>6. /\ Tidy(bs2, clock)
          /\ \A t \in Nat : \A s : t < clock => (Covers(bs2, t, s) <=> Covers(blocks[m], t, s))
          /\ \A t \in Nat : \A s : clock <= t => ~Covers(bs2, t, s)
        BY <1>1, <1>2, <2>1, <2>4, <2>5, CutCovers DEF Projected
    <2>7. \A t \in Nat : \A s : clock <= t =>
              (Covers(bs2, t, s) <=> t < r.freshUntil /\ s = r.state)
        BY <1>1, <2>3, <2>6
    <2>8. new = Append(results[m], r)
        BY <2>4, <2>5
    <2>9. Projected(new, bs2, clock)
        BY <1>1, <1>2, <2>1, <2>3, <2>6, <2>7, <2>8, AppendedIsProjected
    <2> QED BY <2>5, <2>9
<1> QED BY <1>1, <1>3, <1>4 DEF Affects

LEMMA CollectorsProject ==
    ASSUME ClocksAgree, MonitoringInv, AllProjected, NEW c \in Collectors,
           \/ \E m \in Modules : CollectStart(c, m)
           \/ CollectCommit(c) \/ CollectStops(c) \/ RetainAll(c)
    PROVE  AllProjected'
<1>1. /\ clock \in Nat /\ Now(c) = clock /\ UNCHANGED clock
      /\ \A m \in Modules : results[m] \in Seq(ResultRow) /\ blocks[m] \in SUBSET Block
    <2>1. clock \in Nat /\ Skew[c] = 0
        BY DEF MonitoringInv, TypeOK, StoreTypeOK, ClocksAgree, Sessions
    <2> QED BY <2>1 DEF MonitoringInv, TypeOK, StoreTypeOK, Now, CollectStart, CollectCommit,
                        CollectStops, RetainAll
<1>2. CASE UNCHANGED <<results, blocks>>
    BY <1>1, <1>2 DEF AllProjected
<1>3. CASE (\E m \in Modules : CollectStart(c, m)) \/ CollectStops(c)
    BY <1>2, <1>3 DEF CollectStart, CollectStops
<1>4. CASE RetainAll(c)
    <2> DEFINE cutoff == clock - RetentionTime
    <2>1. cutoff \in Int
        BY <1>1, TimesAssumption
    <2>2. ASSUME NEW m \in Modules
          PROVE  Projected(results'[m], blocks'[m], clock)
        <3>1. /\ results'[m] = Recent(results[m], cutoff)
              /\ blocks'[m] = blocks[m] \/ blocks'[m] = Retained(blocks[m], cutoff)
            BY <1>1, <1>4 DEF RetainAll
        <3>2. PICK new, bs2 : new = results'[m] /\ bs2 = blocks'[m]
            OBVIOUS
        <3>3. new = Recent(results[m], cutoff)
              /\ (bs2 = blocks[m] \/ bs2 = Retained(blocks[m], cutoff))
            BY <3>1, <3>2
        <3>4. Projected(results[m], blocks[m], clock)
            BY DEF AllProjected
        <3> HIDE DEF cutoff
        <3>5. Projected(new, bs2, clock)
            BY <1>1, <2>1, <3>3, <3>4, PickedIsProjected
        <3> QED BY <3>2, <3>5
    <2> QED BY <1>1, <2>2 DEF AllProjected
<1>5. CASE CollectCommit(c)
    <2> DEFINE m == job[c].module
    <2>1. job[c] \in Check /\ m \in Modules
        BY <1>5 DEF CollectCommit, MonitoringInv, TypeOK, CollectorTypeOK, Check
    <2>2. PICK state \in States :
             /\ results' = [results EXCEPT ![m] = Append(@,
                    [at |-> clock, freshUntil |-> clock + Stale, state |-> state,
                     version |-> job[c].version])]
             /\ \E last \in IF blocks[m] = {} THEN {None} ELSE Newest(blocks[m]) :
                    blocks' = [blocks EXCEPT ![m] =
                        Observe(@, last, clock, clock + Stale, state)]
        BY <1>1, <1>5 DEF CollectCommit
    <2>3. PICK last \in IF blocks[m] = {} THEN {None} ELSE Newest(blocks[m]) :
             blocks' = [blocks EXCEPT ![m] = Observe(@, last, clock, clock + Stale, state)]
        BY <2>2
    <2>4. PICK r : r = [at |-> clock, freshUntil |-> clock + Stale, state |-> state,
                        version |-> job[c].version]
        OBVIOUS
    <2>5. /\ clock + Stale \in Nat /\ clock < clock + Stale
          /\ r \in ResultRow /\ r.at = clock /\ r.freshUntil = clock + Stale /\ r.state = state
        BY <1>1, <2>1, <2>4, TimesAssumption DEF Check, ResultRow
    <2>6. PICK new, bs2, until :
             /\ new = Append(results[m], r) /\ until = clock + Stale
             /\ bs2 = Observe(blocks[m], last, clock, until, state)
        OBVIOUS
    <2>7. /\ results'[m] = new /\ blocks'[m] = bs2
          /\ \A x \in Modules \ {m} : results'[x] = results[x] /\ blocks'[x] = blocks[x]
        BY <2>1, <2>2, <2>3, <2>4, <2>6 DEF MonitoringInv, TypeOK, StoreTypeOK
    <2>8. Projected(results[m], blocks[m], clock)
        BY <2>1 DEF AllProjected
    <2>9. /\ blocks[m] = {} => last = None
          /\ blocks[m] # {} => last \in Newest(blocks[m])
        BY <2>3
    <2>10. results[m] \in Seq(ResultRow) /\ blocks[m] \in SUBSET Block
        BY <1>1, <2>1
    <2> HIDE DEF m
    <2>11. /\ Tidy(bs2, clock)
           /\ \A t \in Nat : \A s : t < clock => (Covers(bs2, t, s) <=> Covers(blocks[m], t, s))
           /\ \A t \in Nat : \A s : clock <= t => (Covers(bs2, t, s) <=> t < until /\ s = state)
        <3>1. until \in Nat /\ clock < until /\ Tidy(blocks[m], clock)
            BY <2>5, <2>6, <2>8 DEF Projected
        <3>2. bs2 = Observe(blocks[m], last, clock, until, state)
            BY <2>6
        <3> QED BY <1>1, <2>9, <2>10, <3>1, <3>2, ObservedCovers
    <2>12. \A t \in Nat : \A s : clock <= t =>
               (Covers(bs2, t, s) <=> t < r.freshUntil /\ s = r.state)
        BY <2>5, <2>6, <2>11
    <2>13. Projected(new, bs2, clock)
        BY <1>1, <2>5, <2>6, <2>8, <2>10, <2>11, <2>12, AppendedIsProjected
    <2>14. ASSUME NEW x \in Modules
           PROVE  Projected(results'[x], blocks'[x], clock)
        BY <2>7, <2>13, <2>14 DEF AllProjected
    <2> QED BY <1>1, <2>14 DEF AllProjected
<1> QED BY <1>3, <1>4, <1>5

LEMMA NextProjects ==
    ASSUME ClocksAgree, MonitoringInv, AllProjected, [Next]_vars
    PROVE  AllProjected'
<1>1. CASE UNCHANGED vars
    BY <1>1 DEF vars, storeVars, AllProjected
<1>2. CASE CollectorNext
    BY <1>2, CollectorsProject DEF CollectorNext
<1>3. CASE Tick
    <2>1. UNCHANGED <<results, blocks>> /\ clock' = clock + 1
        BY <1>3 DEF Tick
    <2>2. ASSUME NEW m \in Modules
          PROVE  Projected(results[m], blocks[m], clock + 1)
        <3>1. clock \in Nat /\ results[m] \in Seq(ResultRow) /\ blocks[m] \in SUBSET Block
              /\ Projected(results[m], blocks[m], clock)
            BY DEF MonitoringInv, TypeOK, StoreTypeOK, AllProjected
        <3> QED BY <3>1, ProjectedLater
    <2> QED BY <2>1, <2>2 DEF AllProjected
<1>4. CASE EditNext
    BY <1>4, EditsProject
<1> QED BY <1>1, <1>2, <1>3, <1>4 DEF Next

LEMMA ShownIsCovered ==
    ASSUME NEW m \in Modules, NEW t, NEW s
    PROVE  s \in Shown(m, t) <=> Covers(blocks[m], t, s)
BY Zenon DEF Shown, Covers

LEMMA ObservedIsSaid ==
    ASSUME NEW m \in Modules, NEW t \in Nat, NEW s
    PROVE  s \in Observed(m, t) <=> Says(results[m], t, s)
<1> DEFINE before == {i \in DOMAIN results[m] : results[m][i].at <= t}
           last == {i \in before : \A j \in before : j <= i}
<1>1. \A i : i \in last <=> i \in DOMAIN results[m] /\ IsLast(results[m], i, t)
    BY DEF IsLast
<1>2. Observed(m, t) = {results[m][i].state : i \in {k \in last : t < results[m][k].freshUntil}}
    BY DEF Observed
<1> HIDE DEF last
<1> QED BY <1>1, <1>2 DEF Says

\* The blocks are as the invariant of MonitoringInvariant says.
LEMMA ProjectedBlocks == AllProjected <=> BlocksInv
<1>1. \A m \in Modules : InOrder(results[m], clock) <=>
          \A i \in DOMAIN results[m] :
              /\ results[m][i].at <= clock
              /\ \A j \in DOMAIN results[m] : i < j => results[m][i].at <= results[m][j].at
    BY DEF InOrder
<1>2. \A m \in Modules : Tidy(blocks[m], clock) <=>
          \A b \in blocks[m] :
              /\ b.start <= clock /\ b.start < b.end
              /\ \A o \in blocks[m] \ {b} : b.start <= o.start => b.end <= o.start
    BY DEF Tidy
<1>3. ASSUME NEW m \in Modules, NEW t \in Nat
      PROVE  (\A s : Covers(blocks[m], t, s) <=> Says(results[m], t, s))
                 <=> Shown(m, t) = Observed(m, t)
    <2>1. \A s : s \in Shown(m, t) <=> Covers(blocks[m], t, s)
        BY ShownIsCovered
    <2>2. \A s : s \in Observed(m, t) <=> Says(results[m], t, s)
        BY ObservedIsSaid
    <2> QED BY <2>1, <2>2
<1>4. \A m \in Modules : Exact(results[m], blocks[m]) <=>
          (results[m] # <<>> =>
               \A t \in Nat : results[m][1].at <= t => Shown(m, t) = Observed(m, t))
    BY <1>3, Zenon DEF Exact
<1> QED BY <1>1, <1>2, <1>4, Zenon
        DEF AllProjected, Projected, BlocksInv, ResultsAreInOrder, BlocksAreInOrder

LEMMA BlocksAreRight == TypeOK /\ BlocksInv => ProjectionIsExact
<1> SUFFICES ASSUME TypeOK, BlocksInv, NEW m \in Modules, results[m] # <<>>,
                    NEW t \in results[m][1].at .. MaxClock + Stale
             PROVE  Shown(m, t) = Observed(m, t)
    BY DEF ProjectionIsExact
<1>1. results[m] \in Seq(ResultRow) /\ 1 \in DOMAIN results[m]
    BY DEF TypeOK, StoreTypeOK
<1>2. results[m][1].at \in Nat
    BY <1>1, RowTimes
<1>3. t \in Nat /\ results[m][1].at <= t
    BY <1>2
<1> QED BY <1>3 DEF BlocksInv

\* However checks, edits, failures and retention interleave, the timeline that
\* the blocks show is the one that a replay of the retained results shows, if
\* the clocks of the replicas agree.
THEOREM TimelineIsExact == ASSUME ClocksAgree PROVE Spec => []ProjectionIsExact
<1>1. Init => AllProjected
    <2> SUFFICES ASSUME Init PROVE AllProjected
        OBVIOUS
    <2>1. \A m \in Modules : results[m] = <<>> /\ blocks[m] = {}
        BY DEF Init
    <2>2. ASSUME NEW m \in Modules
          PROVE  Projected(results[m], blocks[m], clock)
        <3>1. results[m] = <<>> /\ blocks[m] = {} /\ DOMAIN results[m] = {}
            BY <2>1
        <3> QED BY <3>1 DEF Projected, InOrder, Tidy, Exact
    <2> QED BY <2>2 DEF AllProjected
<1>2. MonitoringInv /\ AllProjected /\ [Next]_vars => AllProjected'
    BY NextProjects
<1>3. MonitoringInv /\ AllProjected => ProjectionIsExact
    BY ProjectedBlocks, BlocksAreRight DEF MonitoringInv
<1> QED BY <1>1, <1>2, <1>3, MonitoringIsSafe, PTL DEF Spec
=============================================================================
