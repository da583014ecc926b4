--------------------------- MODULE OperationsTruth ---------------------------
(***************************************************************************)
(* Why what the UI records and answers is true: the inductive invariant of *)
(* OperationsInvariant, extended with what results claim.  A result that a *)
(* call is about to record, and the outcome of a row, claim no more than   *)
(* what was done on the host, and a result from which a user may retry at  *)
(* once is that of a call with nothing under way.                          *)
(***************************************************************************)
EXTENDS OperationsInvariant, AgentTruth

\* Nothing of the call has happened on a host or is on its way there.
NothingOf(c) == \A q \in Abroad \cup Acted : q.call # c

\* What a result, or the outcome of a row, claims about the request of a call.
TrueOf(c, outcome) ==
    /\ Real(AgentRequest(c), outcome)
    /\ outcome \in {"Rejected", "NotDispatched"} => NothingOf(c)

ResultsAreTrue ==
    \A c \in Calls : pc[c] \in {"release", "complete"} => TrueOf(c, result[c])

RowsAreTrue == \A a \in ledger : TrueOf(a.call, a.outcome)

\* What is answered is on record, unless it is that the outcome is not known.
AnswersAreRecorded ==
    \A c \in Calls :
        pc[c] \in {"answered", "replayed"} /\ result[c] # "Unknown" =>
            \E a \in ledger : a.id = id[c] /\ a.outcome = result[c]

Told == ResultsAreTrue /\ RowsAreTrue /\ AnswersAreRecorded

\* All of it together is inductive, and implies SuccessIsReal, NotDoneIsReal
\* and AnswersAgree as well.
TruthInv == IInv /\ AgentTruth /\ Told
=============================================================================
