------------------------------- MODULE Accounts -------------------------------
(***************************************************************************)
(* Accounts and their grants in PostgreSQL, and the requests that change   *)
(* them: registrations, and the requests of the page User management, each *)
(* suspended at the query it does next.                                    *)
(*                                                                         *)
(* An account is never removed: a deletion sets a flag and leaves its name *)
(* and its grants behind.  A cookie outlives both, so a request may act    *)
(* for any account there ever was.                                         *)
(***************************************************************************)
EXTENDS Permissions, Naturals, FiniteSets

CONSTANTS
    Users,        \* user ids
    Legacy,       \* ids of "__legacy_actor_" rows, made by a migration
    Names,        \* names people register with, up to case
    Registrars,   \* registrations
    Editors,      \* people at the page User management
    Forms,        \* grants a person may submit
    Tables,       \* what the table of users may hold when the program starts
    None          \* nobody

VARIABLES
    user,         \* the rows of "Users", each with its grants
    tableLock,    \* the registration that has locked "Users"
    reg,          \* registrations
    edit          \* requests of the page, and what their editor shows

vars == <<user, tableLock, reg, edit>>

Accounts == [life : {"absent", "live", "deleted"}, name : Names \cup {None},
             grants : Grants, version : Nat,
             founder : BOOLEAN]        \* ghost: got its grants by registering

ASSUME FormsAssumption  == Forms \subseteq Grants
ASSUME LegacyAssumption == Legacy \subseteq Users
ASSUME NobodyAssumption == None \notin Registrars \cup Users

Founders(table) == {u \in Users : table[u].founder}
Registered(table) == {u \in Users \ Legacy : table[u].life # "absent"}

\* There is a founder as soon as anyone has registered, and never a second one.
OneFounder(table) ==
    /\ \A u, v \in Founders(table) : u = v
    /\ Founders(table) \subseteq Registered(table)
    /\ Registered(table) # {} => Founders(table) # {}

Coherent(table) == \A u \in Users, r \in Resources :
    /\ Storable(r, table[u].grants[r])
    /\ ActionsFor(r, table[u].grants[r]) = table[u].grants[r]

NamesDiffer(table) == \A u, v \in Users :
    (table[u].name = table[v].name /\ table[u].name # None) => u = v

ASSUME TablesAssumption ==
    \A table \in Tables : /\ table \in [Users -> Accounts]
                          /\ OneFounder(table)
                          /\ Coherent(table)
                          /\ NamesDiffer(table)

-----------------------------------------------------------------------------
(* Registration: CreateAsync *)

RegPcs == {"idle", "lock", "name", "count", "insert", "registered", "refused"}

Registrations == [pc : RegPcs, name : Names \cup {None}, first : BOOLEAN]

Unlocked(r) == IF tableLock = r THEN None ELSE tableLock

Register(r, n) ==
    /\ reg[r].pc = "idle"
    /\ reg' = [reg EXCEPT ![r].pc = "lock", ![r].name = n]
    /\ UNCHANGED <<user, tableLock, edit>>

\* Fault: the table is not locked.
LockNothing(r) ==
    /\ reg[r].pc = "lock"
    /\ reg' = [reg EXCEPT ![r].pc = "name"]
    /\ UNCHANGED <<user, tableLock, edit>>

\* LOCK TABLE "Users" IN SHARE ROW EXCLUSIVE MODE: one registration at a time,
\* and no update of a row until it ends.
LockUsers(r) ==
    /\ reg[r].pc = "lock"
    /\ tableLock = None
    /\ tableLock' = r
    /\ reg' = [reg EXCEPT ![r].pc = "name"]
    /\ UNCHANGED <<user, edit>>

\* Deleted accounts keep their names, for the query as for the unique index.
NameTaken(n) == \E u \in Users : user[u].name = n

CheckName(r) ==
    /\ reg[r].pc = "name"
    /\ IF NameTaken(reg[r].name)
       THEN /\ reg' = [reg EXCEPT ![r].pc = "refused"]
            /\ tableLock' = Unlocked(r)
       ELSE /\ reg' = [reg EXCEPT ![r].pc = "count"]
            /\ UNCHANGED tableLock
    /\ UNCHANGED <<user, edit>>

\* AnyAsync over all rows that are not of legacy actors, the deleted ones too.
CountUsers(r) ==
    /\ reg[r].pc = "count"
    /\ reg' = [reg EXCEPT ![r].pc = "insert", ![r].first = Registered(user) = {}]
    /\ UNCHANGED <<user, tableLock, edit>>

\* The row, its grants and the audit row, committed together.
InsertUser(r) ==
    /\ reg[r].pc = "insert"
    /\ IF NameTaken(reg[r].name)
       THEN /\ reg' = [reg EXCEPT ![r].pc = "refused"]
            /\ UNCHANGED user
       ELSE /\ \E u \in Users \ Legacy :
                  /\ user[u].life = "absent"
                  /\ user' = [user EXCEPT ![u] =
                         [life |-> "live", name |-> reg[r].name, version |-> 0,
                          grants |-> IF reg[r].first THEN FirstGrants ELSE NoGrants,
                          founder |-> reg[r].first]]
            /\ reg' = [reg EXCEPT ![r].pc = "registered"]
    /\ tableLock' = Unlocked(r)
    /\ UNCHANGED edit

\* Any of its queries may throw, or its process end: PostgreSQL rolls back.
RegisterStops(r) ==
    /\ reg[r].pc \in {"lock", "name", "count", "insert"}
    /\ reg' = [reg EXCEPT ![r].pc = "refused"]
    /\ tableLock' = Unlocked(r)
    /\ UNCHANGED <<user, edit>>

RegSteps(r) == LockUsers(r) \/ CheckName(r) \/ CountUsers(r) \/ InsertUser(r)

-----------------------------------------------------------------------------
(* Requests of the page: first the session, then the handler *)

Permitted == {"loadUser", "loadGrants", "loadVersion", "form", "target", "replace", "delete",
              "saved", "deleted"}

EditPcs == Permitted \cup {"idle", "session", "claims", "require", "grants", "refused"}

Requests == [pc : EditPcs, right : {"read", "update", "delete"},
             actor : Users \cup {None}, target : Users \cup {None},
             shown : Grants, version : Nat,   \* of the editor
             form : Grants,                   \* what was submitted
             held : BOOLEAN,                  \* ghost: during this request the actor
                                              \* was live and had the right
             fresh : BOOLEAN]                 \* ghost: nobody has saved since the
                                              \* editor finished loading

Idle == [pc |-> "idle", right |-> "read", actor |-> None, target |-> None,
         shown |-> NoGrants, version |-> 0, form |-> NoGrants, held |-> FALSE, fresh |-> FALSE]

\* Fault: a deleted account still exists.
UserEverExisted(u) == user[u].life # "absent"

UserExists(u) == user[u].life = "live"

Rightful(u, right) == right \in ActionsFor("Users", user[u].grants["Users"])

GoTo(e, pc) == edit' = [edit EXCEPT ![e].pc = pc]

\* What the ghost held records, of an actor and the rows there are.
MayAct(rows, a, right) ==
    /\ a # None
    /\ rows[a].life = "live"
    /\ right \in ActionsFor("Users", rows[a].grants["Users"])

\* Requests once the rows have become `rows`.
Witnessed(rows) ==
    [e \in Editors |->
        [edit[e] EXCEPT !.held = @ \/ MayAct(rows, edit[e].actor, edit[e].right)]]

\* A request starts: its cookie names the actor.
Begins(e, right, actor, target, form) ==
    edit' = [edit EXCEPT ![e] =
        [@ EXCEPT !.pc = "session", !.right = right, !.actor = actor, !.target = target,
                  !.form = form, !.held = MayAct(user, actor, right)]]

Open(e, a, t) ==
    /\ edit[e].pc = "idle"
    /\ Begins(e, "read", a, t, NoGrants)
    /\ UNCHANGED <<user, tableLock, reg>>

\* Also after a conflict, when the page shows what was posted and its version.
Submit(e, form) ==
    /\ edit[e].pc = "form"
    /\ Begins(e, "update", edit[e].actor, edit[e].target, form)
    /\ UNCHANGED <<user, tableLock, reg>>

\* The page offers no deletion of one's own account and refuses one.
AskDelete(e, a, t) ==
    /\ edit[e].pc = "idle"
    /\ a # t
    /\ Begins(e, "delete", a, t, NoGrants)
    /\ UNCHANGED <<user, tableLock, reg>>

\* SessionAccessValidator, once per request: the account, then its grants.
CheckSession(e) ==
    /\ edit[e].pc = "session"
    /\ GoTo(e, IF UserExists(edit[e].actor) THEN "claims" ELSE "refused")
    /\ UNCHANGED <<user, tableLock, reg>>

\* The claims decide about the page (Users:read) and the handler.
CheckClaims(e) ==
    /\ edit[e].pc = "claims"
    /\ GoTo(e, IF ~ (Rightful(edit[e].actor, "read") /\ Rightful(edit[e].actor, edit[e].right))
               THEN "refused"
               ELSE IF edit[e].right = "read" THEN "loadUser" ELSE "require")
    /\ UNCHANGED <<user, tableLock, reg>>

\* RequireUserPermissionAsync asks again: the account, then its grants.
RequireUser(e) ==
    /\ edit[e].pc = "require"
    /\ GoTo(e, IF UserExists(edit[e].actor) THEN "grants" ELSE "refused")
    /\ UNCHANGED <<user, tableLock, reg>>

RequireGrant(e) ==
    /\ edit[e].pc = "grants"
    /\ GoTo(e, IF edit[e].right \notin user[edit[e].actor].grants["Users"] THEN "refused"
               ELSE IF edit[e].right = "update" THEN "target" ELSE "delete")
    /\ UNCHANGED <<user, tableLock, reg>>

-----------------------------------------------------------------------------
(* GetAccessAsync: the editor is loaded by three queries, each of its own time *)

LoadUser(e) ==
    /\ edit[e].pc = "loadUser"
    /\ GoTo(e, IF UserExists(edit[e].target) THEN "loadGrants" ELSE "refused")
    /\ UNCHANGED <<user, tableLock, reg>>

LoadGrants(e) ==
    /\ edit[e].pc = "loadGrants"
    /\ edit' = [edit EXCEPT ![e].pc = "loadVersion", ![e].shown = user[edit[e].target].grants]
    /\ UNCHANGED <<user, tableLock, reg>>

\* Fault: no account, no version, and the editor opens all the same.
LoadVersionUnchecked(e) ==
    /\ edit[e].pc = "loadVersion"
    /\ edit' = [edit EXCEPT ![e].pc = "form", ![e].fresh = TRUE,
                            ![e].version = IF UserExists(edit[e].target)
                                           THEN user[edit[e].target].version ELSE None]
    /\ UNCHANGED <<user, tableLock, reg>>

\* The version read last is the one that all grants of the answer carry.
LoadVersion(e) ==
    /\ edit[e].pc = "loadVersion"
    /\ IF UserExists(edit[e].target)
       THEN edit' = [edit EXCEPT ![e].pc = "form", ![e].version = user[edit[e].target].version,
                                 ![e].fresh = TRUE]
       ELSE GoTo(e, "refused")
    /\ UNCHANGED <<user, tableLock, reg>>

-----------------------------------------------------------------------------
(* SaveAccessAsync and DeleteUserAsync *)

FindTarget(e) ==
    /\ edit[e].pc = "target"
    /\ GoTo(e, IF UserExists(edit[e].target) THEN "replace" ELSE "refused")
    /\ UNCHANGED <<user, tableLock, reg>>

\* Fault: the update asks for no version.
ReplaceableAnyway(u, version) == UserExists(u)

\* Fault: the update does not ask whether the account is deleted.
ReplaceableEver(u, version) == user[u].version = version

\* WHERE of the update that takes the next version.
Replaceable(u, version) == UserExists(u) /\ user[u].version = version

ReplaceAccess(e) ==
    LET t == edit[e].target
        rows == [user EXCEPT ![t].version = @ + 1,
                             ![t].grants = [r \in Resources |-> Normalize(r, edit[e].form[r])]]
    IN /\ edit[e].pc = "replace"
       /\ tableLock = None
       /\ IF Replaceable(t, edit[e].version)
          THEN /\ user' = rows
               /\ edit' = [x \in Editors |->
                      [Witnessed(rows)[x] EXCEPT
                          !.pc = IF x = e THEN "saved" ELSE @,
                          !.fresh = @ /\ (x = e \/ edit[x].target # t)]]
          ELSE /\ GoTo(e, IF UserExists(t) THEN "form" ELSE "refused")
               /\ UNCHANGED user
       /\ UNCHANGED <<tableLock, reg>>

DeleteUser(e) ==
    LET t == edit[e].target
        rows == [user EXCEPT ![t].life = "deleted"]
    IN /\ edit[e].pc = "delete"
       /\ tableLock = None
       /\ IF UserExists(t)
          THEN /\ user' = rows
               /\ edit' = [Witnessed(rows) EXCEPT ![e].pc = "deleted"]
          ELSE /\ GoTo(e, "refused")
               /\ UNCHANGED user
       /\ UNCHANGED <<tableLock, reg>>

\* Any await may throw; a person may close the editor.
RequestStops(e) ==
    /\ edit[e].pc \notin {"idle", "saved", "deleted", "refused"}
    /\ GoTo(e, "refused")
    /\ UNCHANGED <<user, tableLock, reg>>

Handles(e) ==
    \/ CheckSession(e) \/ CheckClaims(e) \/ RequireUser(e) \/ RequireGrant(e)
    \/ LoadUser(e) \/ LoadGrants(e) \/ LoadVersion(e)
    \/ FindTarget(e) \/ ReplaceAccess(e) \/ DeleteUser(e)

Asks(e) ==
    \/ \E a \in Registered(user), t \in Users : Open(e, a, t) \/ AskDelete(e, a, t)
    \/ \E form \in Forms : Submit(e, form)

-----------------------------------------------------------------------------

Init ==
    /\ user \in Tables
    /\ tableLock = None
    /\ reg = [r \in Registrars |-> [pc |-> "idle", name |-> None, first |-> FALSE]]
    /\ edit = [e \in Editors |-> Idle]

RegNext == \E r \in Registrars :
    (\E n \in Names : Register(r, n)) \/ RegSteps(r) \/ RegisterStops(r)

EditNext == \E e \in Editors : Asks(e) \/ Handles(e) \/ RequestStops(e)

Next == RegNext \/ EditNext

Spec == Init /\ [][Next]_vars

-----------------------------------------------------------------------------
(* Properties *)

\* State and data have their types.
TypeOK ==
    /\ user \in [Users -> Accounts]
    /\ tableLock \in Registrars \cup {None}
    /\ reg \in [Registrars -> Registrations]
    /\ edit \in [Editors -> Requests]

\* However registrations overlap, exactly one account, the first, is given the
\* grants of an administrator; deletions do not bring the chance back.
FirstIsAdministrator == OneFounder(user)

\* A name belongs to one account for ever, so a login or a refresh by name
\* never finds the account of somebody else.
NamesAreUnique == NamesDiffer(user)

\* Stored grants pass the table's constraints, and mean the same to the code
\* that reads the columns and to the code that reads claims.
GrantsAreCoherent == Coherent(user)

\* Whichever way a registration ends, by a name that is taken, a collision in
\* the index or an exception, the table is free again for registrations, saves
\* and deletions: it is locked only for one that has still queries to do.
TableIsFreed ==
    tableLock # None => reg[tableLock].pc \in {"name", "count", "insert"}

\* A handler gets to its work only if, at some moment of this very request, its
\* actor was a live account with the right: neither an old cookie nor the
\* grants a deletion leaves behind are enough, however the checks interleave
\* with deletions and revocations.
AuthorityWasHeld == \A e \in Editors :
    edit[e].pc \in Permitted => edit[e].held

\* Grants are replaced only from an editor that was loaded after the last save.
LoadedSinceLastSave == [][
    \A e \in Editors : (edit[e].pc = "replace" /\ edit'[e].pc = "saved") => edit[e].fresh]_vars

\* Nothing about a deleted account changes any more: no request under way when
\* it was deleted can bring it back or give it grants.
DeletedIsFinal == [][
    \A u \in Users : user[u].life = "deleted" => user'[u] = user[u]]_vars

\* "Stale ... permission edits do not overwrite newer changes": the grants that
\* a save replaces are the ones its editor showed.
NoUnseenGrantsReplaced == [][
    \A e \in Editors : (edit[e].pc = "replace" /\ edit'[e].pc = "saved")
                       => user[edit[e].target].grants = edit[e].shown]_vars
=============================================================================
