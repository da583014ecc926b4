------------------------- MODULE OperationsInvariant -------------------------
(***************************************************************************)
(* Why the promises about request ids hold: the inductive invariant of     *)
(* OperationsSystem.  A row belongs to the call that inserted it, a call   *)
(* past the reservation owns a row that is still Pending, and a request    *)
(* exists only if its call owns, or owned, a row.                          *)
(***************************************************************************)
EXTENDS OperationsSystem

\* Where the call of a row can be: past the reservation and not replayed.
Reserved == Owning \cup {"answered", "refused", "dead"}

\* Where the call of a request can be: past the dispatch.
Dispatched == {"await", "release", "complete", "answered", "refused", "dead"}

\* A row says what the call that inserted it asked for.
RowsAreOfCalls ==
    \A a \in ledger :
        /\ pc[a.call] \in Reserved
        /\ pc[a.call] = "answered" => a.outcome # "Pending"
        /\ a = [id |-> id[a.call], call |-> a.call, actor |-> form[a.call].actor,
                module |-> form[a.call].module, operation |-> form[a.call].operation,
                host |-> row[a.call].host, outcome |-> a.outcome]

\* A call that is past the reservation has a row, which is still Pending.
OwnersHaveRows ==
    \A c \in Calls :
        pc[c] \in Owning => \E a \in ledger : a.call = c /\ a.outcome = "Pending"

\* A request is the one its call dispatched, and the call has a row.
RequestsAreOfCalls ==
    \A q \in sent :
        /\ q = AgentRequest(q.call)
        /\ pc[q.call] \in Dispatched
        /\ \E a \in ledger : a.call = q.call

\* At most one session holds the advisory lock of a host.
LocksAreExclusive == \A l, m \in locks : l[1] = m[1] => l = m

\* All of it together is inductive, and implies OneRowPerId,
\* AuditedBeforeDispatch, NeverRedispatched, AtMostOnce, PendingHasOwner and
\* LeaseIsExclusive.
IInv ==
    /\ ChannelTypeOK /\ UITypeOK /\ AgentInv
    /\ OneRowPerId
    /\ RowsAreOfCalls
    /\ OwnersHaveRows
    /\ RequestsAreOfCalls
    /\ NothingUnsent
    /\ LocksAreExclusive
=============================================================================
