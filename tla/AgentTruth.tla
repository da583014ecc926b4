----------------------------- MODULE AgentTruth -----------------------------
(***************************************************************************)
(* Why an agent can be believed, for any callers who send one request per  *)
(* call: a request is in one place at a time, what it has done so far is   *)
(* known from its place, and a result says no more than what was done.     *)
(***************************************************************************)
EXTENDS AgentOperations

\* The host actions of a request that have taken place.
Done(q) == {e.step : e \in {x \in effects : x.request = q}}

\* What precedes a step: the manager is reloaded after the unit files change.
DoneBefore(phase) == IF phase = "reload" THEN {"change"} ELSE {}

\* Enabling and disabling is a change and a reload, all else one control call.
Fits(q, phase) ==
    IF q.body.operation \in UnitFileVerbs THEN phase \in {"change", "reload"}
                                          ELSE phase \in {"inspect", "control"}

Unanswered(q) == \A p \in outbox : p.call # q.call

OneRequestPerCall == \A p, q \in sent : p.call = q.call => p = q

\* A request that no agent has read has no effect and no answer.
UnreadAreIdle ==
    \A q \in inbox : q \notin Executing \cup Waiting \cup Acted /\ Unanswered(q)

\* An execution has done what its phase presupposes, and nothing else.
RunningAreInStep ==
    \A a \in Agents : \A x \in running[a] :
        /\ Fits(x.request, x.phase)
        /\ Done(x.request) = DoneBefore(x.phase)
        /\ x.request \notin Waiting
        /\ Unanswered(x.request)

\* A host action that was cut short is the only one of its request.
LingeringAreInStep ==
    \A e \in lingering :
        /\ Fits(e.request, e.step)
        /\ Done(e.request) = DoneBefore(e.step)
        /\ \A f \in lingering : f.request = e.request => f = e

\* What an agent ever returns; the other results are made by the UI.
AgentResults == {"Succeeded", "Failed", "Unknown", "PartiallyCompleted"}

CacheIsTrue ==
    \A a \in Agents : \A e \in Slots(a) : e.result \in AgentResults /\ Real(e, e.result)

\* A reply answers a request that was sent, and says the truth about it; a
\* refused request does nothing from then on.
TrueReply(p) ==
    /\ p.result \in AgentResults
    /\ \E q \in sent :
           /\ q.call = p.call
           /\ Real(q, p.result)
           /\ p.status \in Refusals => q \notin Abroad \cup Acted

RepliesAreTrue == \A p \in outbox : TrueReply(p)

AgentTruth ==
    /\ NothingUnsent
    /\ OneRequestPerCall
    /\ UnreadAreIdle
    /\ RunningAreInStep
    /\ LingeringAreInStep
    /\ CacheIsTrue
    /\ RepliesAreTrue
=============================================================================
