----------------------------- MODULE Permissions -----------------------------
(***************************************************************************)
(* Grants and what they mean.  A grant is the set of rights a user has on  *)
(* a resource; a row without rights and a missing row mean the same.       *)
(*                                                                         *)
(* The code says three times what a grant may be: when it is saved         *)
(* (Normalize), when it is read (ActionsFor) and in the CHECK constraints  *)
(* of the table (Storable).                                                *)
(***************************************************************************)

CONSTANTS
    Resources,   \* keys of PermissionResources.All
    ReadOnly,    \* those with IsReadOnly
    Operable     \* those with SupportsOperations

ASSUME ResourcesAssumption == /\ ReadOnly \subseteq Resources
                              /\ Operable \subseteq Resources
                              /\ "Users" \in Resources \ ReadOnly

Writes == {"create", "update", "delete"}
Rights == Writes \cup {"read", "operate"}

Grants == [Resources -> SUBSET Rights]

NoGrants == [r \in Resources |-> {}]

\* Fault: writes and operations do not bring "read" along.
NormalizeBare(r, grant) ==
    grant \ ((IF r \in ReadOnly THEN Writes ELSE {})
             \cup (IF r \in Operable THEN {} ELSE {"operate"}))

\* What is left of a submitted grant: no writes of a read-only resource, no
\* operations where there are none, and "read" with whatever remains.
Normalize(r, grant) ==
    LET supported == grant \ ((IF r \in ReadOnly THEN Writes ELSE {})
                              \cup (IF r \in Operable THEN {} ELSE {"operate"}))
    IN supported \cup (IF supported = {} THEN {} ELSE {"read"})

\* The claims a session gets from a stored grant, and what RequireAsync asks.
ActionsFor(r, grant) ==
    LET acts == {a \in grant : \/ a \in Writes /\ r \notin ReadOnly
                               \/ a = "operate" /\ r \in Operable}
    IN acts \cup (IF "read" \in grant \/ acts # {} THEN {"read"} ELSE {})

\* The CHECK constraints of "UserCrudAccess".
Storable(r, grant) ==
    /\ "operate" \in grant => r \in Operable
    /\ r \in ReadOnly => grant \cap Writes = {}

\* What the first account gets: everything but operations.
FirstGrants ==
    [r \in Resources |-> {"read"} \cup (IF r \in ReadOnly THEN {} ELSE Writes)]
=============================================================================
