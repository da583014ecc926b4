---------------------------- MODULE AccountsProofs ----------------------------
(***************************************************************************)
(* The properties of Accounts, for any number of accounts, registrations   *)
(* and requests.  IInv is the inductive invariant:                         *)
(*                                                                         *)
(*  - a registration past LOCK TABLE holds the lock, so what it counted    *)
(*    still holds when it inserts;                                         *)
(*  - a request that has seen its actor's account, and would now find the  *)
(*    right among its grants, has witnessed both together: grants do not   *)
(*    change once an account is deleted;                                   *)
(*  - an editor that shows the present version has seen the last save.     *)
(***************************************************************************)
EXTENDS Accounts, TLAPS

Locking == {"name", "count", "insert"}

LockIsHeld == \A r \in Registrars : reg[r].pc \in Locking => tableLock = r

CountStillHolds == \A r \in Registrars :
    reg[r].pc = "insert" => (reg[r].first <=> Registered(user) = {})

(* What holds of a request q while the rows are `rows` *)

HasParties(rows, q) ==
    IF q.pc = "idle" THEN q.actor = None
    ELSE /\ q.actor \in Users /\ rows[q.actor].life # "absent"
         /\ q.target \in Users

HeldIsWitness(rows, q) ==
    /\ MayAct(rows, q.actor, q.right) => q.held
    /\ (/\ q.pc \in {"claims", "grants"}
        /\ q.right \in ActionsFor("Users", rows[q.actor].grants["Users"])) => q.held
    /\ q.pc \in Permitted => q.held

SavesAreUpdates(q) == q.pc \in {"target", "replace"} => q.right = "update"

\* A save under way, or an editor that may be saved from.
Saving(q) ==
    \/ q.pc = "form"
    \/ /\ q.right = "update"
       /\ q.pc \in {"session", "claims", "require", "grants", "target", "replace"}

VersionIsSeen(rows, q) ==
    Saving(q) => /\ rows[q.target].life # "absent"
                 /\ q.version <= rows[q.target].version
                 /\ q.version = rows[q.target].version => q.fresh

Fits(rows, q) ==
    HasParties(rows, q) /\ HeldIsWitness(rows, q) /\ SavesAreUpdates(q) /\ VersionIsSeen(rows, q)

RequestsFit == \A e \in Editors : Fits(user, edit[e])

RowsAreSound == OneFounder(user) /\ Coherent(user) /\ NamesDiffer(user)

IInv == TypeOK /\ RowsAreSound /\ LockIsHeld /\ CountStillHolds /\ RequestsFit

-----------------------------------------------------------------------------
(* What grants mean *)

\* Saving a grant and reading it back as claims drop the same rights: Normalize
\* and ActionsFor, written separately, agree on every grant a form can submit.
THEOREM NormalizeIsActionsFor ==
    ASSUME NEW r \in Resources, NEW grant \in SUBSET Rights
    PROVE  Normalize(r, grant) = ActionsFor(r, grant)
BY DEF Normalize, ActionsFor, Rights, Writes

\* A normalised grant passes the CHECK constraints of its table, and nothing is
\* lost when it is read: a save never fails for its data.
THEOREM NormalizedIsCoherent ==
    ASSUME NEW r \in Resources, NEW grant \in SUBSET Rights
    PROVE  /\ Normalize(r, grant) \in SUBSET Rights
           /\ Storable(r, Normalize(r, grant))
           /\ ActionsFor(r, Normalize(r, grant)) = Normalize(r, grant)
BY DEF Normalize, ActionsFor, Storable, Rights, Writes

LEMMA FirstIsCoherent ==
    /\ FirstGrants \in Grants /\ NoGrants \in Grants
    /\ \A r \in Resources :
          /\ Storable(r, FirstGrants[r]) /\ Storable(r, NoGrants[r])
          /\ ActionsFor(r, FirstGrants[r]) = FirstGrants[r]
          /\ ActionsFor(r, NoGrants[r]) = NoGrants[r]
BY ResourcesAssumption DEF FirstGrants, NoGrants, Grants, Storable, ActionsFor, Rights, Writes

\* The column the service asks for and the claim the page asks for are the same.
LEMMA ColumnIsClaim ==
    ASSUME NEW grant, NEW right \in {"read", "update", "delete"}, right \in grant
    PROVE  right \in ActionsFor("Users", grant)
BY ResourcesAssumption DEF ActionsFor, Writes

-----------------------------------------------------------------------------

LEMMA InitHolds == ASSUME Init PROVE IInv
<1> USE DEF Init
<1>1. user \in [Users -> Accounts] /\ RowsAreSound
    BY TablesAssumption DEF RowsAreSound
<1>2. Idle \in Requests
    BY FirstIsCoherent DEF Idle, Requests, EditPcs
<1>3. TypeOK
    BY <1>1, <1>2 DEF TypeOK, Registrations, RegPcs
<1>4. LockIsHeld /\ CountStillHolds
    BY DEF LockIsHeld, CountStillHolds, Locking
<1>5. Fits(user, Idle)
    BY DEF Fits, Idle, HasParties, HeldIsWitness, SavesAreUpdates, VersionIsSeen, Saving, MayAct,
           Permitted
<1> QED BY <1>1, <1>3, <1>4, <1>5 DEF IInv, RequestsFit

-----------------------------------------------------------------------------
(* Registrations *)

LEMMA RegistrationHolds ==
    ASSUME IInv, NEW r \in Registrars, UNCHANGED <<user, edit>>,
           \/ \E n \in Names : Register(r, n)
           \/ LockUsers(r) \/ CheckName(r) \/ CountUsers(r) \/ RegisterStops(r)
    PROVE  IInv'
<1> USE DEF IInv, Unlocked
<1>1. TypeOK'
    BY DEF TypeOK, Registrations, RegPcs, Register, LockUsers, CheckName, CountUsers,
           RegisterStops
<1>2. LockIsHeld'
    BY NobodyAssumption DEF TypeOK, LockIsHeld, Locking, Registrations, Register, LockUsers,
           CheckName, CountUsers, RegisterStops
<1>3. CountStillHolds'
    BY DEF TypeOK, CountStillHolds, Registrations, Registered, Register, LockUsers, CheckName,
           CountUsers, RegisterStops
<1>4. RowsAreSound' /\ RequestsFit'
    BY DEF RowsAreSound, OneFounder, Founders, Registered, Coherent, NamesDiffer, RequestsFit
<1> QED BY <1>1, <1>2, <1>3, <1>4

LEMMA InsertHolds ==
    ASSUME IInv, NEW r \in Registrars, InsertUser(r)
    PROVE  IInv'
<1> USE DEF IInv, InsertUser, Unlocked
<1>1. tableLock = r
    BY DEF LockIsHeld, Locking
<1>2. \A x \in Registrars : x # r => reg'[x] = reg[x] /\ reg[x].pc \notin Locking
    BY <1>1 DEF TypeOK, LockIsHeld
<1>3. /\ tableLock' = None /\ UNCHANGED edit
      /\ reg' \in [Registrars -> Registrations]
      /\ reg'[r].pc \in {"refused", "registered"}
    BY <1>1 DEF TypeOK, Registrations, RegPcs
<1>4. LockIsHeld' /\ CountStillHolds'
    BY <1>2, <1>3 DEF LockIsHeld, CountStillHolds, Locking
<1>5. CASE UNCHANGED user
    BY <1>3, <1>4, <1>5 DEF TypeOK, RowsAreSound, OneFounder, Founders, Registered, Coherent,
                            NamesDiffer, RequestsFit
<1>6. CASE ~ UNCHANGED user
    <2>1. PICK u \in Users \ Legacy :
             /\ user[u].life = "absent"
             /\ user' = [user EXCEPT ![u] =
                    [life |-> "live", name |-> reg[r].name, version |-> 0,
                     grants |-> IF reg[r].first THEN FirstGrants ELSE NoGrants,
                     founder |-> reg[r].first]]
        BY <1>6
    <2>2. \A v \in Users : v # u => user'[v] = user[v]
        BY <2>1 DEF TypeOK
    <2>3. /\ user'[u].life = "live" /\ user'[u].name = reg[r].name /\ user'[u].version = 0
          /\ user'[u].grants = (IF reg[r].first THEN FirstGrants ELSE NoGrants)
          /\ user'[u].founder = reg[r].first
        BY <2>1 DEF TypeOK
    <2>4. user' \in [Users -> Accounts]
        <3>1. [life |-> "live", name |-> reg[r].name, version |-> 0,
               grants |-> IF reg[r].first THEN FirstGrants ELSE NoGrants,
               founder |-> reg[r].first] \in Accounts
            BY FirstIsCoherent DEF TypeOK, Accounts, Registrations
        <3> QED BY <3>1, <2>1 DEF TypeOK
    <2>5. reg[r].first <=> Registered(user) = {}
        BY DEF CountStillHolds
    <2>6. Registered(user)' = Registered(user) \cup {u}
        BY <2>2, <2>3 DEF Registered
    <2>7. u \notin Registered(user) /\ u \notin Founders(user)
        BY <2>1 DEF Registered, OneFounder, RowsAreSound
    <2>8. Founders(user)' = Founders(user) \cup (IF reg[r].first THEN {u} ELSE {})
        BY <2>2, <2>3, <2>7 DEF Founders
    <2>9. OneFounder(user)'
        BY <2>5, <2>6, <2>7, <2>8 DEF OneFounder, RowsAreSound
    <2>10. Coherent(user)'
        BY <2>2, <2>3, FirstIsCoherent DEF Coherent, RowsAreSound
    <2>11. NamesDiffer(user)'
        BY <2>1, <2>2, <2>3, <1>6 DEF NamesDiffer, NameTaken, RowsAreSound
    <2>12. RequestsFit'
        <3> SUFFICES ASSUME NEW e \in Editors PROVE Fits(user', edit[e])
            BY <1>3 DEF RequestsFit
        <3>1. Fits(user, edit[e])
            BY DEF RequestsFit
        <3>2. edit[e].actor = None \/ (/\ edit[e].actor \in Users
                                       /\ user'[edit[e].actor] = user[edit[e].actor])
            BY <2>1, <2>2, <3>1 DEF Fits, HasParties
        <3>3. Saving(edit[e]) => user'[edit[e].target] = user[edit[e].target]
            BY <2>1, <2>2, <3>1 DEF Fits, HasParties, VersionIsSeen, Saving
        <3>4. edit[e].pc # "idle" => edit[e].actor # None
            BY <3>1, NobodyAssumption DEF Fits, HasParties
        <3> QED BY <3>1, <3>2, <3>3, <3>4
            DEF Fits, HasParties, HeldIsWitness, SavesAreUpdates, VersionIsSeen, MayAct
    <2> QED BY <1>3, <1>4, <2>4, <2>9, <2>10, <2>11, <2>12 DEF TypeOK, RowsAreSound
<1> QED BY <1>5, <1>6

-----------------------------------------------------------------------------
(* Requests *)

\* A step of one request that leaves the rows alone.
LEMMA RequestMoves ==
    ASSUME IInv, NEW e \in Editors, NEW q \in Requests, Fits(user, q),
           edit' = [edit EXCEPT ![e] = q], UNCHANGED <<user, tableLock, reg>>
    PROVE  IInv'
<1>1. TypeOK' /\ RequestsFit'
    BY DEF IInv, TypeOK, RequestsFit
<1> QED BY <1>1 DEF IInv, RowsAreSound, OneFounder, Founders, Registered, Coherent, NamesDiffer,
                    LockIsHeld, CountStillHolds

\* A request starts with what its actor holds at that moment.
LEMMA BeginsHolds ==
    ASSUME IInv, NEW e \in Editors, UNCHANGED <<user, tableLock, reg>>,
           NEW right \in {"read", "update", "delete"}, NEW actor \in Users, NEW target \in Users,
           NEW form \in Grants, user[actor].life # "absent",
           Begins(e, right, actor, target, form),
           right = "update" => edit[e].pc = "form" /\ target = edit[e].target
    PROVE  IInv'
<1> DEFINE q == [edit[e] EXCEPT !.pc = "session", !.right = right, !.actor = actor,
                                !.target = target, !.form = form,
                                !.held = MayAct(user, actor, right)]
<1>1. edit' = [edit EXCEPT ![e] = q]
    BY DEF Begins
<1>2. edit[e] \in Requests /\ Fits(user, edit[e])
    BY DEF IInv, TypeOK, RequestsFit
<1>3. q \in Requests
    BY <1>2 DEF Requests, EditPcs, MayAct
<1>4. /\ q.pc = "session" /\ q.right = right /\ q.actor = actor /\ q.target = target
      /\ q.held = MayAct(user, actor, right)
      /\ q.version = edit[e].version /\ q.fresh = edit[e].fresh
    BY <1>2 DEF Requests
<1>5. Fits(user, q)
    <2>1. HasParties(user, q) /\ HeldIsWitness(user, q) /\ SavesAreUpdates(q)
        BY <1>4 DEF HasParties, HeldIsWitness, SavesAreUpdates, Permitted
    <2>2. VersionIsSeen(user, q)
        BY <1>2, <1>4 DEF Fits, VersionIsSeen, Saving
    <2> QED BY <2>1, <2>2 DEF Fits
<1> QED BY <1>1, <1>3, <1>5, RequestMoves

\* Most steps only take a request to its next query.
LEMMA PcMoves ==
    ASSUME IInv, NEW e \in Editors, NEW pc \in EditPcs, pc # "idle", edit[e].pc # "idle",
           GoTo(e, pc), UNCHANGED <<user, tableLock, reg>>,
           Fits(user, [edit[e] EXCEPT !.pc = pc])
    PROVE  IInv'
<1>1. edit[e] \in Requests
    BY DEF IInv, TypeOK
<1>2. [edit[e] EXCEPT !.pc = pc] \in Requests
    BY <1>1 DEF Requests
<1>3. edit' = [edit EXCEPT ![e] = [edit[e] EXCEPT !.pc = pc]]
    BY DEF GoTo
<1> QED BY <1>2, <1>3, RequestMoves

LEMMA StepHolds ==
    ASSUME IInv, NEW e \in Editors,
           \/ CheckSession(e) \/ CheckClaims(e) \/ RequireUser(e) \/ RequireGrant(e)
           \/ LoadUser(e) \/ FindTarget(e) \/ RequestStops(e)
    PROVE  IInv'
<1>1. edit[e] \in Requests /\ Fits(user, edit[e])
    BY DEF IInv, TypeOK, RequestsFit
<1>2. edit[e].pc # "idle" => edit[e].actor \in Users /\ edit[e].actor # None
    BY <1>1, NobodyAssumption DEF Fits, HasParties
<1> USE DEF Fits, HasParties, HeldIsWitness, SavesAreUpdates, VersionIsSeen, Saving, Permitted
<1>3. CASE CheckSession(e)
    <2> DEFINE pc == IF UserExists(edit[e].actor) THEN "claims" ELSE "refused"
    <2>1. Fits(user, [edit[e] EXCEPT !.pc = pc])
        BY <1>1, <1>2, <1>3 DEF CheckSession, Requests, UserExists, MayAct
    <2> QED BY <1>3, <2>1, PcMoves DEF CheckSession, EditPcs
<1>4. CASE CheckClaims(e)
    <2> DEFINE pc == IF ~ (Rightful(edit[e].actor, "read") /\ Rightful(edit[e].actor, edit[e].right))
                     THEN "refused"
                     ELSE IF edit[e].right = "read" THEN "loadUser" ELSE "require"
    <2>1. Fits(user, [edit[e] EXCEPT !.pc = pc])
        BY <1>1, <1>2, <1>4 DEF CheckClaims, Requests, Rightful, MayAct
    <2>2. pc \in EditPcs \ {"idle"}
        BY DEF EditPcs
    <2> QED BY <1>4, <2>1, <2>2, PcMoves DEF CheckClaims
<1>5. CASE RequireUser(e)
    <2> DEFINE pc == IF UserExists(edit[e].actor) THEN "grants" ELSE "refused"
    <2>1. Fits(user, [edit[e] EXCEPT !.pc = pc])
        BY <1>1, <1>2, <1>5 DEF RequireUser, Requests, UserExists, MayAct
    <2> QED BY <1>5, <2>1, PcMoves DEF RequireUser, EditPcs
<1>6. CASE RequireGrant(e)
    <2> DEFINE pc == IF edit[e].right \notin user[edit[e].actor].grants["Users"] THEN "refused"
                     ELSE IF edit[e].right = "update" THEN "target" ELSE "delete"
    <2>1. edit[e].right \in user[edit[e].actor].grants["Users"] => edit[e].held
        BY <1>1, <1>6, ColumnIsClaim DEF RequireGrant, Requests
    <2>2. Fits(user, [edit[e] EXCEPT !.pc = pc])
        BY <1>1, <1>2, <1>6, <2>1 DEF RequireGrant, Requests, MayAct
    <2>3. pc \in EditPcs \ {"idle"}
        BY DEF EditPcs
    <2> QED BY <1>6, <2>2, <2>3, PcMoves DEF RequireGrant
<1>7. CASE LoadUser(e)
    <2> DEFINE pc == IF UserExists(edit[e].target) THEN "loadGrants" ELSE "refused"
    <2>1. Fits(user, [edit[e] EXCEPT !.pc = pc])
        BY <1>1, <1>2, <1>7 DEF LoadUser, Requests, MayAct
    <2> QED BY <1>7, <2>1, PcMoves DEF LoadUser, EditPcs
<1>8. CASE FindTarget(e)
    <2> DEFINE pc == IF UserExists(edit[e].target) THEN "replace" ELSE "refused"
    <2>1. Fits(user, [edit[e] EXCEPT !.pc = pc])
        BY <1>1, <1>2, <1>8 DEF FindTarget, Requests, MayAct
    <2> QED BY <1>8, <2>1, PcMoves DEF FindTarget, EditPcs
<1>9. CASE RequestStops(e)
    <2>1. Fits(user, [edit[e] EXCEPT !.pc = "refused"])
        BY <1>1, <1>2, <1>9 DEF RequestStops, Requests, MayAct
    <2> QED BY <1>9, <2>1, PcMoves DEF RequestStops, EditPcs
<1> QED BY <1>3, <1>4, <1>5, <1>6, <1>7, <1>8, <1>9

LEMMA LoadHolds ==
    ASSUME IInv, NEW e \in Editors, LoadGrants(e) \/ LoadVersion(e)
    PROVE  IInv'
<1>1. edit[e] \in Requests /\ Fits(user, edit[e])
    BY DEF IInv, TypeOK, RequestsFit
<1>2. edit[e].target \in Users /\ user[edit[e].target] \in Accounts
    BY <1>1 DEF Fits, HasParties, LoadGrants, LoadVersion, IInv, TypeOK
<1> USE DEF Fits, HasParties, HeldIsWitness, SavesAreUpdates, VersionIsSeen, Saving, Permitted
<1>3. CASE LoadGrants(e)
    <2> DEFINE q == [edit[e] EXCEPT !.pc = "loadVersion", !.shown = user[edit[e].target].grants]
    <2>1. q \in Requests
        BY <1>1, <1>2 DEF Requests, EditPcs, Accounts, Permitted
    <2>2. Fits(user, q)
        BY <1>1, <1>3 DEF LoadGrants, Requests, MayAct
    <2>3. edit' = [edit EXCEPT ![e] = q]
        BY <1>3 DEF LoadGrants
    <2> QED BY <1>3, <2>1, <2>2, <2>3, RequestMoves DEF LoadGrants
<1>4. CASE LoadVersion(e) /\ UserExists(edit[e].target)
    <2> DEFINE q == [edit[e] EXCEPT !.pc = "form", !.version = user[edit[e].target].version,
                                    !.fresh = TRUE]
    <2>1. q \in Requests
        BY <1>1, <1>2 DEF Requests, EditPcs, Accounts, Permitted
    <2>2. Fits(user, q)
        BY <1>1, <1>2, <1>4 DEF LoadVersion, Requests, MayAct, UserExists, Accounts
    <2>3. edit' = [edit EXCEPT ![e] = q]
        BY <1>4 DEF LoadVersion
    <2> QED BY <1>4, <2>1, <2>2, <2>3, RequestMoves DEF LoadVersion
<1>5. CASE LoadVersion(e) /\ ~ UserExists(edit[e].target)
    <2>1. Fits(user, [edit[e] EXCEPT !.pc = "refused"])
        BY <1>1, <1>5 DEF LoadVersion, Requests, MayAct
    <2> QED BY <1>5, <2>1, PcMoves DEF LoadVersion, EditPcs
<1> QED BY <1>3, <1>4, <1>5

\* A save or a deletion that goes through: every request under way sees the new
\* rows, and those that now witness their actor's right are marked.
LEMMA ReplaceHolds ==
    ASSUME IInv, NEW e \in Editors, ReplaceAccess(e)
    PROVE  IInv'
<1> DEFINE t == edit[e].target
           grants == [r \in Resources |-> Normalize(r, edit[e].form[r])]
           rows == [user EXCEPT ![t].version = @ + 1, ![t].grants = grants]
<1>1. edit[e] \in Requests /\ Fits(user, edit[e]) /\ edit[e].pc = "replace"
    BY DEF IInv, TypeOK, RequestsFit, ReplaceAccess
<1>2. t \in Users /\ user[t] \in Accounts
    BY <1>1 DEF Fits, HasParties, IInv, TypeOK
<1>3. CASE ~ Replaceable(t, edit[e].version)
    <2> DEFINE pc == IF UserExists(t) THEN "form" ELSE "refused"
    <2>1. Fits(user, [edit[e] EXCEPT !.pc = pc])
        BY <1>1, NobodyAssumption
        DEF Fits, HasParties, HeldIsWitness, SavesAreUpdates, VersionIsSeen, Saving, Permitted,
            Requests, MayAct
    <2> QED BY <1>1, <1>3, <2>1, PcMoves DEF ReplaceAccess, EditPcs, Permitted
<1>4. CASE Replaceable(t, edit[e].version)
    <2>1. /\ user' = rows /\ UNCHANGED <<tableLock, reg>>
          /\ edit' = [x \in Editors |->
                 [Witnessed(rows)[x] EXCEPT !.pc = IF x = e THEN "saved" ELSE @,
                                            !.fresh = @ /\ (x = e \/ edit[x].target # t)]]
        BY <1>4 DEF ReplaceAccess
    <2>2. \A x \in Editors :
             /\ edit[x] \in Requests /\ Fits(user, edit[x])
             /\ edit'[x] \in Requests
             /\ edit'[x].held <=> (edit[x].held \/ MayAct(rows, edit[x].actor, edit[x].right))
             /\ edit'[x].pc = (IF x = e THEN "saved" ELSE edit[x].pc)
             /\ edit'[x].fresh <=> (edit[x].fresh /\ (x = e \/ edit[x].target # t))
             /\ edit'[x].right = edit[x].right /\ edit'[x].actor = edit[x].actor
             /\ edit'[x].target = edit[x].target /\ edit'[x].version = edit[x].version
        <3> SUFFICES ASSUME NEW x \in Editors PROVE <2>2!(x)
            OBVIOUS
        <3> DEFINE held == edit[x].held \/ MayAct(rows, edit[x].actor, edit[x].right)
                   fresh == edit[x].fresh /\ (x = e \/ edit[x].target # t)
                   pc == IF x = e THEN "saved" ELSE edit[x].pc
        <3>1. edit[x] \in Requests /\ Fits(user, edit[x])
            BY DEF IInv, TypeOK, RequestsFit
        <3>2. held \in BOOLEAN /\ fresh \in BOOLEAN /\ pc \in EditPcs
            BY <3>1 DEF Requests, EditPcs, Permitted
        <3>3. edit'[x] = [edit[x] EXCEPT !.held = held, !.pc = pc, !.fresh = fresh]
            BY <2>1, <3>1 DEF Witnessed, Requests
        <3> HIDE DEF held, fresh, pc
        <3>4. /\ edit'[x] \in Requests
              /\ edit'[x].held = held /\ edit'[x].pc = pc /\ edit'[x].fresh = fresh
              /\ edit'[x].right = edit[x].right /\ edit'[x].actor = edit[x].actor
              /\ edit'[x].target = edit[x].target /\ edit'[x].version = edit[x].version
            BY <3>1, <3>2, <3>3 DEF Requests
        <3> QED BY <3>1, <3>4 DEF held, fresh, pc
    <2>3. /\ rows \in [Users -> Accounts]
          /\ rows[t].life = "live" /\ rows[t].name = user[t].name
          /\ rows[t].founder = user[t].founder /\ rows[t].grants = grants
          /\ rows[t].version = user[t].version + 1
          /\ \A u \in Users : u # t => rows[u] = user[u]
        <3>1. grants \in Grants
            BY <1>1, NormalizedIsCoherent DEF Requests, Grants
        <3>2. user \in [Users -> Accounts] /\ user[t].life = "live"
            BY <1>4 DEF IInv, TypeOK, Replaceable, UserExists
        <3> HIDE DEF grants
        <3> QED BY <1>2, <3>1, <3>2 DEF Accounts
    <2> HIDE DEF rows
    <2>4. user' = rows /\ UNCHANGED <<tableLock, reg>>
        BY <2>1
    <2>5. Registered(user)' = Registered(user) /\ Founders(user)' = Founders(user)
        BY <1>4, <2>3, <2>4 DEF Registered, Founders, Replaceable, UserExists
    <2>6. RowsAreSound'
        <3>1. OneFounder(user)'
            BY <2>5 DEF OneFounder, IInv, RowsAreSound
        <3>2. Coherent(user)'
            <4>1. \A r \in Resources : edit[e].form[r] \in SUBSET Rights
                BY <1>1 DEF Requests, Grants
            <4>2. \A r \in Resources : /\ Storable(r, grants[r])
                                       /\ ActionsFor(r, grants[r]) = grants[r]
                BY <4>1, NormalizedIsCoherent
            <4> QED BY <2>3, <2>4, <4>2 DEF Coherent, IInv, RowsAreSound
        <3>3. \A u \in Users : user'[u].name = user[u].name
            BY <2>3, <2>4
        <3>4. NamesDiffer(user)'
            BY <3>3 DEF NamesDiffer, IInv, RowsAreSound
        <3> QED BY <3>1, <3>2, <3>4 DEF RowsAreSound
    <2>7. TypeOK'
        BY <2>1, <2>2, <2>3 DEF TypeOK, IInv
    <2>8. LockIsHeld' /\ CountStillHolds'
        BY <2>4, <2>5 DEF LockIsHeld, CountStillHolds, IInv
    <2>9. RequestsFit'
        <3> SUFFICES ASSUME NEW x \in Editors PROVE Fits(rows, edit'[x])
            BY <2>1 DEF RequestsFit
        <3>1. HasParties(rows, edit'[x]) /\ SavesAreUpdates(edit'[x])
            BY <1>1, <2>3, <2>2 DEF Fits, HasParties, SavesAreUpdates
        <3>2. HeldIsWitness(rows, edit'[x])
            BY <1>1, <2>3, <2>2, NobodyAssumption
            DEF Fits, HasParties, HeldIsWitness, Permitted, MayAct
        <3>3. VersionIsSeen(rows, edit'[x])
            BY <1>2, <2>3, <2>2 DEF Fits, HasParties, VersionIsSeen, Saving, Accounts, Requests
        <3> QED BY <3>1, <3>2, <3>3 DEF Fits
    <2> QED BY <2>6, <2>7, <2>8, <2>9 DEF IInv
<1> QED BY <1>3, <1>4

LEMMA DeleteHolds ==
    ASSUME IInv, NEW e \in Editors, DeleteUser(e)
    PROVE  IInv'
<1> DEFINE t == edit[e].target
           rows == [user EXCEPT ![t].life = "deleted"]
<1>1. edit[e] \in Requests /\ Fits(user, edit[e]) /\ edit[e].pc = "delete"
    BY DEF IInv, TypeOK, RequestsFit, DeleteUser
<1>2. t \in Users /\ user[t] \in Accounts
    BY <1>1 DEF Fits, HasParties, IInv, TypeOK
<1>3. CASE ~ UserExists(t)
    <2>1. Fits(user, [edit[e] EXCEPT !.pc = "refused"])
        BY <1>1, NobodyAssumption
        DEF Fits, HasParties, HeldIsWitness, SavesAreUpdates, VersionIsSeen, Saving, Permitted,
            Requests, MayAct
    <2> QED BY <1>1, <1>3, <2>1, PcMoves DEF DeleteUser, EditPcs, Permitted
<1>4. CASE UserExists(t)
    <2>1. user' = rows /\ UNCHANGED <<tableLock, reg>>
        BY <1>4 DEF DeleteUser
    <2>2. /\ user' \in [Users -> Accounts]
          /\ user[t].life = "live" /\ user'[t].life = "deleted"
          /\ \A u \in Users : /\ u # t => user'[u] = user[u]
                              /\ user'[u].name = user[u].name /\ user'[u].founder = user[u].founder
                              /\ user'[u].grants = user[u].grants
                              /\ user'[u].version = user[u].version
        BY <1>2, <1>4, <2>1 DEF Accounts, IInv, TypeOK, UserExists
    <2>3. \A x \in Editors :
             /\ edit[x] \in Requests /\ Fits(user, edit[x])
             /\ edit'[x] \in Requests
             /\ edit[x].held => edit'[x].held
             /\ MayAct(user', edit[x].actor, edit[x].right) => edit'[x].held
             /\ edit'[x].pc = (IF x = e THEN "deleted" ELSE edit[x].pc)
             /\ edit'[x].right = edit[x].right /\ edit'[x].actor = edit[x].actor
             /\ edit'[x].target = edit[x].target /\ edit'[x].version = edit[x].version
             /\ edit'[x].fresh = edit[x].fresh
        <3> SUFFICES ASSUME NEW x \in Editors PROVE <2>3!(x)
            OBVIOUS
        <3> DEFINE held == edit[x].held \/ MayAct(user', edit[x].actor, edit[x].right)
                   pc == IF x = e THEN "deleted" ELSE edit[x].pc
        <3>1. edit[x] \in Requests /\ Fits(user, edit[x])
            BY DEF IInv, TypeOK, RequestsFit
        <3>2. held \in BOOLEAN /\ pc \in EditPcs
            BY <3>1 DEF Requests, EditPcs, Permitted
        <3>3. edit' = [Witnessed(user') EXCEPT ![e].pc = "deleted"]
            BY <1>4, <2>1 DEF DeleteUser
        <3>4. edit'[x] = [edit[x] EXCEPT !.held = held, !.pc = pc]
            BY <3>1, <3>3 DEF Witnessed, Requests
        <3> HIDE DEF held, pc
        <3>5. /\ edit'[x] \in Requests
              /\ edit'[x].held = held /\ edit'[x].pc = pc /\ edit'[x].fresh = edit[x].fresh
              /\ edit'[x].right = edit[x].right /\ edit'[x].actor = edit[x].actor
              /\ edit'[x].target = edit[x].target /\ edit'[x].version = edit[x].version
            BY <3>1, <3>2, <3>4 DEF Requests
        <3> QED BY <3>1, <3>5 DEF held, pc
    <2>4. Registered(user)' = Registered(user) /\ Founders(user)' = Founders(user)
        BY <2>2 DEF Registered, Founders
    <2>5. RowsAreSound'
        BY <2>2, <2>4 DEF RowsAreSound, OneFounder, Coherent, NamesDiffer, IInv
    <2>6. TypeOK'
        <3>1. edit' \in [Editors -> Requests]
            BY <1>4, <2>3 DEF DeleteUser, Witnessed
        <3> QED BY <2>1, <2>2, <3>1 DEF TypeOK, IInv
    <2>7. LockIsHeld' /\ CountStillHolds'
        BY <2>1, <2>4 DEF LockIsHeld, CountStillHolds, IInv
    <2>8. RequestsFit'
        <3> SUFFICES ASSUME NEW x \in Editors PROVE Fits(user', edit'[x])
            BY DEF RequestsFit
        <3>1. HasParties(user', edit'[x]) /\ SavesAreUpdates(edit'[x])
            BY <1>1, <2>2, <2>3 DEF Fits, HasParties, SavesAreUpdates
        <3>2. HeldIsWitness(user', edit'[x])
            BY <1>1, <2>2, <2>3 DEF Fits, HasParties, HeldIsWitness, Permitted, MayAct
        <3>3. VersionIsSeen(user', edit'[x])
            BY <2>2, <2>3 DEF Fits, HasParties, VersionIsSeen, Saving
        <3> QED BY <3>1, <3>2, <3>3 DEF Fits
    <2> QED BY <2>5, <2>6, <2>7, <2>8 DEF IInv
<1> QED BY <1>3, <1>4

-----------------------------------------------------------------------------

LEMMA AsksHolds ==
    ASSUME IInv, NEW e \in Editors, Asks(e)
    PROVE  IInv'
<1>1. edit[e] \in Requests /\ Fits(user, edit[e])
    BY DEF IInv, TypeOK, RequestsFit
<1>2. \A a \in Registered(user) : a \in Users /\ user[a].life # "absent"
    BY DEF Registered
<1>3. ASSUME NEW a \in Registered(user), NEW t \in Users, Open(e, a, t)
      PROVE  IInv'
    BY <1>2, <1>3, BeginsHolds, FirstIsCoherent DEF Open
<1>4. ASSUME NEW a \in Registered(user), NEW t \in Users, AskDelete(e, a, t)
      PROVE  IInv'
    BY <1>2, <1>4, BeginsHolds, FirstIsCoherent DEF AskDelete
<1>5. ASSUME NEW form \in Forms, Submit(e, form)
      PROVE  IInv'
    <2>1. /\ edit[e].actor \in Users /\ user[edit[e].actor].life # "absent"
          /\ edit[e].target \in Users
        BY <1>1, <1>5 DEF Submit, Fits, HasParties
    <2> QED BY <1>5, <2>1, BeginsHolds, FormsAssumption DEF Submit
<1> QED BY <1>3, <1>4, <1>5 DEF Asks

LEMMA NextHolds == ASSUME IInv, [Next]_vars PROVE IInv'
<1>1. ASSUME NEW r \in Registrars, NEW n \in Names, Register(r, n) PROVE IInv'
    BY <1>1, RegistrationHolds DEF Register
<1>2. ASSUME NEW r \in Registrars, RegSteps(r) \/ RegisterStops(r) PROVE IInv'
    BY <1>2, RegistrationHolds, InsertHolds
    DEF RegSteps, LockUsers, CheckName, CountUsers, RegisterStops
<1>3. ASSUME NEW e \in Editors, Asks(e) PROVE IInv'
    BY <1>3, AsksHolds
<1>4. ASSUME NEW e \in Editors, Handles(e) \/ RequestStops(e) PROVE IInv'
    BY <1>4, StepHolds, LoadHolds, ReplaceHolds, DeleteHolds DEF Handles
<1>5. CASE UNCHANGED vars
    BY <1>5 DEF vars, IInv, TypeOK, RowsAreSound, OneFounder, Founders, Registered, Coherent,
                NamesDiffer, LockIsHeld, CountStillHolds, RequestsFit
<1> QED BY <1>1, <1>2, <1>3, <1>4, <1>5 DEF Next, RegNext, EditNext

LEMMA Invariance == Spec => []IInv
BY InitHolds, NextHolds, PTL DEF Spec

\* Every state of the accounts is of its type.
THEOREM TypeCorrect == Spec => []TypeOK
<1>1. IInv => TypeOK
    BY DEF IInv
<1> QED BY <1>1, Invariance, PTL

\* However many registrations overlap, exactly one account, the first, is given
\* the grants of an administrator.
THEOREM FirstIsAdministratorHolds == Spec => []FirstIsAdministrator
<1>1. IInv => FirstIsAdministrator
    BY DEF IInv, RowsAreSound, FirstIsAdministrator
<1> QED BY <1>1, Invariance, PTL

\* However a registration ends, it leaves the table of users unlocked.
THEOREM TableIsFreedHolds == Spec => []TableIsFreed
<1>1. Init => TableIsFreed
    BY DEF Init, TableIsFreed
<1>2. IInv /\ TableIsFreed /\ [Next]_vars => TableIsFreed'
  <2> SUFFICES ASSUME TypeOK, TableIsFreed, [Next]_vars PROVE TableIsFreed'
      BY DEF IInv
  <2>1. ASSUME NEW r \in Registrars, RegSteps(r) \/ RegisterStops(r) PROVE TableIsFreed'
      BY <2>1, NobodyAssumption
      DEF TypeOK, Registrations, RegPcs, TableIsFreed, Unlocked, RegSteps, LockUsers, CheckName,
          CountUsers, InsertUser, RegisterStops
  <2>2. ASSUME NEW r \in Registrars, NEW n \in Names, Register(r, n) PROVE TableIsFreed'
      BY <2>2 DEF TypeOK, Registrations, TableIsFreed, Register
  <2>3. CASE UNCHANGED <<tableLock, reg>>
      BY <2>3 DEF TableIsFreed
  <2> QED
      BY <2>1, <2>2, <2>3
      DEF Next, vars, RegNext, EditNext, Asks, Handles, Open, AskDelete, Submit, CheckSession,
          CheckClaims, RequireUser, RequireGrant, LoadUser, LoadGrants, LoadVersion, FindTarget,
          ReplaceAccess, DeleteUser, RequestStops
<1> QED BY <1>1, <1>2, Invariance, PTL DEF Spec

\* A name belongs to one account for ever.
THEOREM NamesAreUniqueHolds == Spec => []NamesAreUnique
<1>1. IInv => NamesAreUnique
    BY DEF IInv, RowsAreSound, NamesAreUnique
<1> QED BY <1>1, Invariance, PTL

\* Whatever forms are submitted, stored grants satisfy the table's constraints
\* and mean the same to all who read them.
THEOREM GrantsAreCoherentHolds == Spec => []GrantsAreCoherent
<1>1. IInv => GrantsAreCoherent
    BY DEF IInv, RowsAreSound, GrantsAreCoherent
<1> QED BY <1>1, Invariance, PTL

\* A handler works only for an actor that was live and had the right at some
\* moment of that request, however its checks interleave with other requests.
THEOREM AuthorityWasHeldHolds == Spec => []AuthorityWasHeld
<1>1. IInv => AuthorityWasHeld
    BY DEF IInv, RequestsFit, Fits, HeldIsWitness, AuthorityWasHeld
<1> QED BY <1>1, Invariance, PTL

\* Only these steps change rows, and none changes the row of a deleted account.
LEMMA DeletedStay ==
    ASSUME IInv, [Next]_vars, NEW u \in Users, user[u].life = "deleted"
    PROVE  user'[u] = user[u]
<1>1. user \in [Users -> Accounts]
    BY DEF IInv, TypeOK
<1>2. ASSUME NEW r \in Registrars, InsertUser(r) PROVE user'[u] = user[u]
    BY <1>1, <1>2 DEF InsertUser
<1>3. ASSUME NEW e \in Editors, ReplaceAccess(e) PROVE user'[u] = user[u]
    BY <1>1, <1>3 DEF ReplaceAccess, Replaceable, UserExists
<1>4. ASSUME NEW e \in Editors, DeleteUser(e) PROVE user'[u] = user[u]
    BY <1>1, <1>4 DEF DeleteUser, UserExists
<1>5. CASE UNCHANGED user
    BY <1>5
<1> QED BY <1>2, <1>3, <1>4, <1>5
        DEF Next, vars, RegNext, RegSteps, EditNext, Asks, Handles, Register, LockUsers, CheckName,
            CountUsers, RegisterStops, Open, AskDelete, Submit, CheckSession, CheckClaims,
            RequireUser, RequireGrant, LoadUser, LoadGrants, LoadVersion, FindTarget, RequestStops

\* No request under way when an account is deleted changes it afterwards.
THEOREM DeletedIsFinalHolds == Spec => DeletedIsFinal
<1>1. IInv /\ [Next]_vars => [\A u \in Users : user[u].life = "deleted" => user'[u] = user[u]]_vars
    BY DeletedStay
<1> QED BY <1>1, Invariance, PTL DEF Spec, DeletedIsFinal

LEMMA WitnessedKeeps ==
    ASSUME edit \in [Editors -> Requests], NEW rows
    PROVE  /\ Witnessed(rows) \in [Editors -> Requests]
           /\ \A x \in Editors : Witnessed(rows)[x].pc = edit[x].pc
<1>1. ASSUME NEW x \in Editors
      PROVE  Witnessed(rows)[x] \in Requests /\ Witnessed(rows)[x].pc = edit[x].pc
    <2> DEFINE held == edit[x].held \/ MayAct(rows, edit[x].actor, edit[x].right)
    <2>1. held \in BOOLEAN /\ edit[x] \in Requests
        BY DEF Requests
    <2>2. Witnessed(rows)[x] = [edit[x] EXCEPT !.held = held]
        BY DEF Witnessed
    <2> HIDE DEF held
    <2> QED BY <2>1, <2>2 DEF Requests
<1>2. Witnessed(rows) = [x \in Editors |-> Witnessed(rows)[x]]
    BY DEF Witnessed
<1> QED BY <1>1, <1>2

\* A save goes through only if nobody has saved since its editor was loaded:
\* equal versions leave no room for an edit in between.
THEOREM LoadedSinceLastSaveHolds == Spec => LoadedSinceLastSave
<1>1. ASSUME IInv, Next, NEW e \in Editors, edit[e].pc = "replace", edit'[e].pc = "saved"
      PROVE  edit[e].fresh
    <2> USE DEF GoTo
    <2>1. edit \in [Editors -> Requests]
        BY <1>1 DEF IInv, TypeOK
    <2>2. ~ UNCHANGED edit
        BY <1>1
    <2>3. ASSUME NEW x \in Editors, Asks(x) PROVE FALSE
        BY <1>1, <2>1, <2>3 DEF Asks, Open, AskDelete, Submit, Begins, Requests
    <2>4. ASSUME NEW x \in Editors, ReplaceAccess(x), x # e PROVE FALSE
        <3>1. CASE GoTo(x, IF UserExists(edit[x].target) THEN "form" ELSE "refused")
            BY <1>1, <2>1, <2>4, <3>1
        <3>2. CASE ~ GoTo(x, IF UserExists(edit[x].target) THEN "form" ELSE "refused")
            <4>1. edit' = [y \in Editors |->
                      [Witnessed(user')[y] EXCEPT
                          !.pc = IF y = x THEN "saved" ELSE @,
                          !.fresh = @ /\ (y = x \/ edit[y].target # edit[x].target)]]
                BY <2>4, <3>2 DEF ReplaceAccess
            <4>2. Witnessed(user')[e] \in Requests /\ Witnessed(user')[e].pc = "replace"
                BY <1>1, <2>1, WitnessedKeeps
            <4>3. edit'[e] = [Witnessed(user')[e] EXCEPT !.pc = "replace", !.fresh = edit'[e].fresh]
                BY <2>4, <4>1, <4>2 DEF Requests
            <4> QED BY <1>1, <4>2, <4>3 DEF Requests
        <3> QED BY <3>1, <3>2
    <2>5. ASSUME NEW x \in Editors, DeleteUser(x) PROVE FALSE
        <3>1. CASE GoTo(x, "refused")
            BY <1>1, <2>1, <3>1 DEF Requests
        <3>2. CASE ~ GoTo(x, "refused")
            <4>1. edit' = [Witnessed(user') EXCEPT ![x].pc = "deleted"]
                BY <2>5, <3>2 DEF DeleteUser
            <4>2. /\ Witnessed(user') \in [Editors -> Requests]
                  /\ Witnessed(user')[e].pc = "replace"
                BY <1>1, <2>1, WitnessedKeeps
            <4>3. edit'[e].pc \in {"replace", "deleted"}
                BY <4>1, <4>2 DEF Requests
            <4> QED BY <1>1, <4>3
        <3> QED BY <3>1, <3>2
    <2>6. ASSUME NEW x \in Editors, LoadGrants(x) \/ LoadVersion(x) PROVE FALSE
        BY <1>1, <2>1, <2>6 DEF LoadGrants, LoadVersion, Requests
    <2>7. ASSUME NEW x \in Editors,
                 \/ CheckSession(x) \/ CheckClaims(x) \/ RequireUser(x) \/ RequireGrant(x)
                 \/ LoadUser(x) \/ FindTarget(x) \/ RequestStops(x)
          PROVE  FALSE
        BY <1>1, <2>1, <2>7
        DEF CheckSession, CheckClaims, RequireUser, RequireGrant, LoadUser, FindTarget,
            RequestStops, Requests
    <2>8. ReplaceAccess(e)
        BY <1>1, <2>2, <2>3, <2>4, <2>5, <2>6, <2>7
        DEF Next, EditNext, Handles, RegNext, RegSteps, Register, LockUsers, CheckName, CountUsers,
            InsertUser, RegisterStops
    <2>9. Fits(user, edit[e]) /\ edit[e] \in Requests /\ SavesAreUpdates(edit[e])
        BY <1>1 DEF IInv, TypeOK, RequestsFit, Fits
    <2>10. Replaceable(edit[e].target, edit[e].version)
        <3>1. CASE GoTo(e, IF UserExists(edit[e].target) THEN "form" ELSE "refused")
            BY <1>1, <2>1, <3>1 DEF Requests
        <3> QED BY <2>8, <3>1 DEF ReplaceAccess
    <2> QED BY <1>1, <2>9, <2>10 DEF Fits, SavesAreUpdates, VersionIsSeen, Saving, Replaceable
<1>2. IInv /\ [Next]_vars => [\A e \in Editors :
          (edit[e].pc = "replace" /\ edit'[e].pc = "saved") => edit[e].fresh]_vars
    BY <1>1
<1> QED BY <1>2, Invariance, PTL DEF Spec, LoadedSinceLastSave
=============================================================================
