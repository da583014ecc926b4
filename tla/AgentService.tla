---------------------------- MODULE AgentService ----------------------------
(***************************************************************************)
(* The host agent on its own, called by anyone who holds its token: any    *)
(* request ids, the same id again with the same or with another body, many *)
(* calls at once.  Replies are kept in outbox, so that a property can      *)
(* speak of everything the agent has ever answered.                        *)
(***************************************************************************)
EXTENDS AgentOperations

CONSTANT Bodies  \* the operations the callers ask for

ASSUME BodiesAssumption == Bodies \subseteq Body

VARIABLE recent  \* ghost: ids recorded since the agent started, oldest first

serviceVars == <<channelVars, agentVars, recent>>

Init == ChannelInit /\ AgentInit /\ recent = [a \in Agents |-> <<>>]

\* One call of a caller: a fresh connection, any id, any body.
Call(c) ==
    /\ \A q \in sent : q.call # c
    /\ \E a \in Agents, id \in RequestIds, body \in Bodies :
           Send([agent |-> a, call |-> c, id |-> id, body |-> body])
    /\ UNCHANGED agentVars

\* The slot that changed holds the newest entry; a restart forgets them all.
NoteRecorded ==
    recent' = [a \in Agents |->
        IF completed'[a] = completed[a] THEN recent[a]
        ELSE IF completed'[a] = <<>> THEN <<>>
        ELSE LET i == CHOOSE i \in 1..Len(completed'[a]) :
                         i > Len(completed[a]) \/ completed'[a][i] # completed[a][i]
             IN  Append(recent[a], completed'[a][i].id)]

Next ==
    /\ \/ \E c \in Calls : Call(c)
       \/ AgentNext
    /\ NoteRecorded

Spec == Init /\ [][Next]_serviceVars

-----------------------------------------------------------------------------
(* Properties *)

\* Variables hold values of their types.
TypeOK == ChannelTypeOK /\ AgentTypeOK /\ recent \in [Agents -> Seq(RequestIds)]

\* The request a reply answers.
Answers(p, q) == p.form = "result" /\ p.call = q.call

\* What an agent says is true.  A reply of success means that every host action
\* of that very request has taken place, whether the reply was computed or came
\* from the cache; a partial completion, that the unit files were changed; and a
\* call that was refused (400, 401, 403, 409) has not touched the host and never
\* will, even while other calls with the same id run.
AnswersAreTrue ==
    /\ \A p \in outbox, q \in sent : Answers(p, q) => Real(q, p.result)
    /\ \A p \in outbox : p.status \in Refusals =>
           /\ \A e \in effects \cup lingering : e.request.call # p.call
           /\ \A a \in Agents : \A x \in running[a] : x.request.call # p.call

\* A request id in the cache is not executing and will not be executed while
\* it stays there: a duplicate gets the recorded answer.
CachedNeverRuns ==
    \A a \in Agents : \A x \in running[a] : ~Cached(a, x.request.id)

\* The cache is a dictionary of at most Capacity ids.
CacheIsBoundedMap ==
    \A a \in Agents :
        /\ Len(completed[a]) <= Capacity
        /\ \A i, j \in 1..Len(completed[a]) :
               completed[a][i].id = completed[a][j].id => i = j

\* deploy/agent/README.md:347: "the agent also caches recent completed IDs in
\* memory".  The two ids recorded last are in the cache (it has room for two).
RecentAreCached ==
    \A a \in Agents :
        LET n == Len(recent[a])
        IN  \A i \in {n - 1, n} \cap 1..n : Cached(a, recent[a][i])
=============================================================================
