------------------------------ MODULE MCAccounts ------------------------------
(***************************************************************************)
(* Instances of Accounts for TLC.                                          *)
(***************************************************************************)
EXTENDS Accounts, TLC

CONSTANTS u0, u1, u2, u3, ann, bob, r1, r2, e1, e2

\* No rights, rights to manage users, and what only a hand-made form submits.
MCForms ==
    LET Only(resource, rights) == [NoGrants EXCEPT ![resource] = rights]
    IN {NoGrants, Only("Users", {"update", "delete"}),
        [r \in Resources |-> {"delete", "operate"}]}

Absent == [life |-> "absent", name |-> None, grants |-> NoGrants, version |-> 0, founder |-> FALSE]

LegacyActor == [Absent EXCEPT !.life = "deleted"]

\* Nobody has registered; a migration has left a legacy actor.
NewTables == {[u \in Users |-> IF u \in Legacy THEN LegacyActor ELSE Absent]}

\* An administrator, and a second account that may manage users, or none.
SettledTables ==
    LET admin    == [Absent EXCEPT !.life = "live", !.name = ann, !.grants = FirstGrants,
                                   !.founder = TRUE]
        delegate == [Absent EXCEPT !.life = "live", !.name = bob,
                                   !.grants["Users"] = {"read", "update", "delete"}]
    IN {[u \in Users |-> CASE u = u1 -> admin [] u = u2 -> other [] OTHER -> Absent] :
            other \in {delegate, Absent}}

MCTables == NewTables \cup SettledTables

Interchangeable == Permutations({r1, r2}) \cup Permutations({e1, e2})
=============================================================================
