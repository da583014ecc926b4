-------------------------- MODULE OperationsSystem --------------------------
(***************************************************************************)
(* Module operations from the browser to the host: any number of calls of  *)
(* the UI (ModuleOperations), the connections between (AgentChannel) and   *)
(* the agents (AgentOperations).                                           *)
(***************************************************************************)
EXTENDS ModuleOperations, AgentOperations

vars == <<channelVars, uiVars, agentVars>>

Init == ChannelInit /\ UIInit /\ AgentInit

Next ==
    \/ UINext /\ UNCHANGED agentVars
    \/ AgentNext /\ UNCHANGED uiVars
    \/ ChannelNext /\ UNCHANGED uiVars

Spec == Init /\ [][Next]_vars

\* The same system while the database commits what it is asked to commit and
\* no UI process dies.  Messages are still lost, agents still restart, lock
\* sessions still end and the UI still shuts down gracefully.
CalmNext ==
    \/ /\ \/ \E c \in Calls : Submit(c) \/ CallStep(c)
          \/ \E l \in locks : SessionEnds(l)
       /\ UNCHANGED agentVars
    \/ AgentNext /\ UNCHANGED uiVars
    \/ ChannelNext /\ UNCHANGED uiVars

\* Every await of a call ends: database commands have a command timeout, the
\* agent's answer is awaited for at most HttpClient.Timeout.
CalmSpec ==
    /\ Init
    /\ [][CalmNext]_vars
    /\ \A c \in Calls : WF_vars(CallStep(c) /\ UNCHANGED agentVars)

-----------------------------------------------------------------------------
(* Properties *)

\* Variables hold values of their types.
TypeOK == ChannelTypeOK /\ UITypeOK /\ AgentTypeOK

\* The unique index and the check before it leave one row per request id,
\* however many calls race with the same id.
OneRowPerId == \A a, b \in ledger : a.id = b.id => a = b

\* deploy/agent/README.md:342: "The UI persists an audit attempt and unique
\* request ID before dispatch".  Whatever is on its way to a host, running
\* there, or done there is on record with the same id, module, operation and
\* host, made by the call that dispatched it.
AuditedBeforeDispatch ==
    \A q \in sent \cup Abroad \cup Acted :
        \E a \in ledger :
            /\ a.id = q.id
            /\ a.call = q.call
            /\ a.module = q.body.module
            /\ a.operation = q.body.operation
            /\ AgentOf[a.host] = q.agent

\* deploy/agent/README.md:346: "Duplicate IDs are never redispatched by the
\* UI".  Two requests that were ever sent with one id are the same request.
NeverRedispatched == \A p, q \in sent : p.id = q.id => p = q

\* No host action takes place twice for one request id, in spite of retries,
\* replicas, crashes, agent restarts and actions that finish late.
AtMostOnce ==
    \A e, f \in effects :
        e.request.id = f.request.id /\ e.step = f.step => e.request.call = f.request.call

\* A row that says Succeeded is about a host action that took place.
SuccessIsReal ==
    \A a \in ledger :
        a.outcome = "Succeeded" =>
            LET steps == {e.step : e \in {x \in effects : x.request.id = a.id}}
            IN  IF a.operation \in UnitFileVerbs THEN {"change", "reload"} \subseteq steps
                                                 ELSE "control" \in steps

\* Outcomes from which a user may retry at once: "Rejected", and a failure the
\* UI met before it dispatched ("Operation was not dispatched.").
NotDone(a) == a.outcome \in {"Rejected", "NotDispatched"}

\* A row that says the operation was rejected or not dispatched is right and
\* stays right: nothing of it has happened or is under way.
NotDoneIsReal ==
    \A a \in ledger :
        NotDone(a) => \A q \in Abroad \cup Acted : q.id # a.id

\* A row is never removed, its identity never changes, and an outcome other
\* than Pending is final.
OutcomesAreFinal ==
    [][\A a \in ledger :
          \E b \in ledger' :
              /\ b.id = a.id
              /\ \/ b = a
                 \/ /\ a.outcome = "Pending"
                    /\ [b EXCEPT !.outcome = "Pending"] = a]_vars

\* Two answers about one request id that both state an outcome other than
\* "unknown" state the same one: the first and every replay.
AnswersAgree ==
    \A c, d \in Calls :
        LET told == {x \in {c, d} : pc[x] \in {"answered", "replayed"}
                                    /\ result[x] # "Unknown"}
        IN  id[c] = id[d] /\ told = {c, d} => result[c] = result[d]

\* Only one call at a time counts on the lock of a host, unless PostgreSQL has
\* ended the session of the others (PostgresModuleOperationStore.TryLockHostAsync).
Leased(c) == <<row[c].host, c>> \in locks

LeaseIsExclusive ==
    \A c, d \in Calls :
        /\ c # d
        /\ {pc[c], pc[d]} \subseteq {"send", "await", "release"}
        /\ row[c].host = row[d].host
        => ~(Leased(c) /\ Leased(d))

\* A row that is still Pending has a call working on it, or its call died or
\* got an exception from the database.
PendingHasOwner ==
    \A a \in ledger :
        a.outcome = "Pending" =>
            /\ pc[a.call] \in Owning \cup {"refused", "dead"}
            /\ id[a.call] = a.id

\* Every attempt on record gets an outcome, as long as no UI process and no
\* commit is lost: an agent or a connection that fails cannot leave it Pending.
PendingSettles ==
    \A i \in RequestIds :
        (\E a \in ledger : a.id = i /\ a.outcome = "Pending")
            ~> (\E a \in ledger : a.id = i /\ a.outcome # "Pending")

-----------------------------------------------------------------------------
(* The abstract ledger *)

Verdict(a) ==
    CASE a.outcome = "Pending"            -> "Pending"
      [] a.outcome = "Succeeded"          -> "Done"
      [] a.outcome = "PartiallyCompleted" -> "PartlyDone"
      [] NotDone(a)                       -> "NotDone"
      [] OTHER                            -> "Unclear"

LedgerStatus ==
    [i \in RequestIds |-> IF Recorded(i) = {} THEN "Unused"
                          ELSE Verdict(CHOOSE a \in Recorded(i) : TRUE)]

LedgerDone ==
    [i \in RequestIds |->
        {<<e.request.call, e.step>> : e \in {x \in effects : x.request.id = i}}]

\* A call may still dispatch until it has left "send".
LedgerLive ==
    {id[c] : c \in {x \in Calls : pc[x] \in {"lock", "send"}}} \cup {q.id : q \in Abroad}

Ledger == INSTANCE OperationLedger WITH
    Ids <- RequestIds, Attempts <- Calls, Steps <- Steps,
    status <- LedgerStatus, done <- LedgerDone, live <- LedgerLive

\* The system implements the abstract ledger.
LedgerSpec == Ledger!Spec
=============================================================================
