-------------------------- MODULE ModuleOperations --------------------------
(***************************************************************************)
(* The UI side of a module operation: ModuleOperationService.ExecuteAsync  *)
(* over PostgresModuleOperationStore and AgentOperationsClient.  Every     *)
(* await is a step of its own, so that any number of calls - of one UI     *)
(* process or of several replicas - interleave between them.               *)
(*                                                                         *)
(* Grants and module rows belong to other components.  They may be edited  *)
(* between any two steps, so a read may see either side of every edit:     *)
(* Authorize may pass or fail, FindTarget may see any row of the module.   *)
(***************************************************************************)
EXTENDS AgentChannel

CONSTANTS
    Actors,      \* user ids
    Hosts,       \* host rows
    AgentOf,     \* [Hosts -> Agents], the host's AgentBaseUrl
    Forms,       \* what a submitted form may ask for
    Rows         \* [Modules -> set of eligible rows it may have], see Row

Form == [actor : Actors, module : Modules, operation : Verbs]

\* The part of a module row an operation uses.
Row == [host : Hosts, kind : Kinds, target : Targets]

ASSUME AgentOfAssumption == AgentOf \in [Hosts -> Agents]
ASSUME FormsAssumption   == Forms \subseteq Form
ASSUME RowsAssumption    == Rows \in [Modules -> SUBSET Row]
ASSUME RowExists         == Hosts # {} /\ Targets # {}

VARIABLES
    pc,          \* where each call is suspended
    form,        \* actor id, module id and operation of the call
    id,          \* its request id
    row,         \* the row FindTargetAsync returned
    result,      \* what the call returns, or is about to record
    ledger,      \* the AuditLogs rows that have an OperationId
    locks        \* advisory locks (78211, host) and the session holding each

uiVars == <<pc, form, id, row, result, ledger, locks>>

Ended == {"answered", "replayed", "refused", "dead"}

Owning == {"lock", "send", "await", "release", "complete"}

Places == {"idle", "authorize", "find", "reserve", "insert"} \cup Owning \cup Ended

\* "call" is a ghost: the call that inserted the row.
AuditRow == [id : RequestIds, call : Calls, actor : Actors, module : Modules,
             operation : Verbs, host : Hosts,
             outcome : Result \cup {"Pending"}]

\* The result of a call that has none yet, and what Previous makes of a row
\* that is still Pending.
Unset == "Unknown"

UITypeOK ==
    /\ pc \in [Calls -> Places]
    /\ form \in [Calls -> Form]
    /\ id \in [Calls -> RequestIds]
    /\ row \in [Calls -> Row]
    /\ result \in [Calls -> Result]
    /\ ledger \subseteq AuditRow
    /\ locks \subseteq Hosts \X Calls

\* A row for calls that have not read one yet; its value is never used.
NoRowYet == CHOOSE x \in Row : TRUE

\* What the browsers will post is fixed here, and posted by Submit.  Nothing
\* keeps two tabs, two users or a retry from posting the same request id.
UIInit ==
    /\ pc = [c \in Calls |-> "idle"]
    /\ form \in [Calls -> Forms]
    /\ id \in [Calls -> RequestIds]
    /\ row = [c \in Calls |-> NoRowYet]
    /\ result = [c \in Calls |-> Unset]
    /\ ledger = {}
    /\ locks = {}

Goto(c, place) == pc' = [pc EXCEPT ![c] = place]

Set(c, r) == result' = [result EXCEPT ![c] = r]

-----------------------------------------------------------------------------
(* Before the reservation: an exception here answers the browser with an   *)
(* error and leaves no trace.                                              *)

\* OnPostExecuteAsync: the browser posts a form.
Submit(c) ==
    /\ pc[c] = "idle"
    /\ Goto(c, "authorize")
    /\ UNCHANGED <<channelVars, form, id, row, result, ledger, locks>>

\* Both RequireAsync calls: the "operations" grant always comes with "read".
Authorize(c) ==
    /\ pc[c] = "authorize"
    /\ Goto(c, "find") \/ Goto(c, "refused")
    /\ UNCHANGED <<channelVars, form, id, row, result, ledger, locks>>

\* FindTargetAsync, CanOperate and the check of the verb against the kind.
FindTarget(c) ==
    /\ pc[c] = "find"
    /\ \/ \E x \in Rows[form[c].module] :
            /\ x.kind = "Docker" => form[c].operation \notin UnitFileVerbs
            /\ row' = [row EXCEPT ![c] = x]
            /\ Goto(c, "reserve")
       \/ Goto(c, "refused") /\ UNCHANGED row  \* missing, deleted or disabled
    /\ UNCHANGED <<channelVars, form, id, result, ledger, locks>>

-----------------------------------------------------------------------------
(* ReserveAsync *)

Recorded(i) == {a \in ledger : a.id = i}

SameRequest(a, c) ==
    /\ a.actor = form[c].actor
    /\ a.module = form[c].module
    /\ a.operation = form[c].operation

\* Fault: the outcome is read back as it is stored, Pending included.
ReplayVerbatim(a) == a.outcome

\* Fault: an attempt without an outcome is reported as failed.
ReplayAsFailed(a) == IF a.outcome = "Pending" THEN DefaultResult ELSE a.outcome

Replay(a) == IF a.outcome = "Pending" THEN Unset ELSE a.outcome

\* Fault: an attempt whose outcome is not known is tried once more.
PreviousRetried(c, a) ==
    /\ Set(c, Replay(a))
    /\ IF Replay(a) = Unset THEN Goto(c, "lock") ELSE Goto(c, "replayed")

Previous(c, a) ==
    \/ /\ SameRequest(a, c)
       /\ Set(c, Replay(a))
       /\ Goto(c, "replayed")
    \/ /\ ~SameRequest(a, c)
       /\ Goto(c, "refused")
       /\ UNCHANGED result

\* SingleOrDefaultAsync on OperationId.
Lookup(c) ==
    /\ pc[c] = "reserve"
    /\ \/ \E a \in Recorded(id[c]) : Previous(c, a)
       \/ /\ Recorded(id[c]) = {}
          /\ Goto(c, "insert")
          /\ UNCHANGED result
    /\ UNCHANGED <<channelVars, form, id, row, ledger, locks>>

NewRow(c) ==
    [id |-> id[c], call |-> c, actor |-> form[c].actor, module |-> form[c].module,
     operation |-> form[c].operation, host |-> row[c].host,
     outcome |-> "Pending"]

\* Fault: the index is not unique.
IndexIgnored(c) == c \in Calls

\* The unique index IX_AuditLogs_OperationId.
IndexAllows(c) == Recorded(id[c]) = {}

\* SaveChangesAsync; a unique violation re-reads the row that got there first.
Insert(c) ==
    /\ pc[c] = "insert"
    /\ \/ /\ IndexAllows(c)
          /\ ledger' = ledger \cup {NewRow(c)}
          /\ Goto(c, "lock")
          /\ UNCHANGED result
       \/ /\ ~IndexAllows(c)
          /\ \E a \in Recorded(id[c]) : Previous(c, a)
          /\ UNCHANGED ledger
    /\ UNCHANGED <<channelVars, form, id, row, locks>>

\* Fault: the audit is best effort, so the operation goes on without its row.
InsertSkipped(c) ==
    /\ pc[c] = "insert"
    /\ Goto(c, "lock")
    /\ UNCHANGED <<channelVars, form, id, row, result, ledger, locks>>

\* The database fails while the row is being inserted, or the UI shuts down:
\* an exception to the page.  The row may have been committed all the same.
InsertFails(c) ==
    /\ pc[c] = "insert"
    /\ Goto(c, "refused")
    /\ \/ UNCHANGED ledger
       \/ IndexAllows(c) /\ ledger' = ledger \cup {NewRow(c)}
    /\ UNCHANGED <<channelVars, form, id, row, result, locks>>

-----------------------------------------------------------------------------
(* The host lock and the dispatch *)

\* pg_try_advisory_lock(78211, host) would grant the lock.
Free(h) == \A l \in locks : l[1] # h

TryLock(c) ==
    LET h == row[c].host
    IN  /\ pc[c] = "lock"
        /\ \/ /\ Free(h)
              /\ locks' = locks \cup {<<h, c>>}
              /\ Goto(c, "send")
              /\ UNCHANGED result
           \/ /\ ~Free(h)
              /\ Set(c, "Rejected")
              /\ Goto(c, "complete")
              /\ UNCHANGED locks
        /\ UNCHANGED <<channelVars, form, id, row, ledger>>

\* Fault: "dispatched" is set when the agent has answered.
InterruptedLate(dispatched) == IF dispatched THEN "NotDispatched" ELSE DefaultResult

\* The catch block: "dispatched" is set just before the agent is called.
Interrupted(dispatched) == IF dispatched THEN "Unknown" ELSE "NotDispatched"

\* Fault: an exception from the store leaves the method.
TryLockThrows(c) ==
    /\ pc[c] = "lock"
    /\ Goto(c, "refused")
    /\ UNCHANGED <<channelVars, form, id, row, result, ledger, locks>>

\* OperationStoreException, or the shutdown token.  PostgreSQL may have granted
\* the lock to a session whose connection broke before the answer was read.
TryLockFails(c) ==
    LET h == row[c].host
    IN  /\ pc[c] = "lock"
        /\ Set(c, Interrupted(FALSE))
        /\ Goto(c, "complete")
        /\ \/ UNCHANGED locks
           \/ Free(h) /\ locks' = locks \cup {<<h, c>>}
        /\ UNCHANGED <<channelVars, form, id, row, ledger>>

AgentRequest(c) ==
    [agent |-> AgentOf[row[c].host], call |-> c, id |-> id[c],
     body |-> [module |-> form[c].module, kind |-> row[c].kind,
               target |-> row[c].target, operation |-> form[c].operation]]

Dispatch(c) ==
    /\ pc[c] = "send"
    /\ Send(AgentRequest(c))
    /\ Goto(c, "await")
    /\ UNCHANGED <<form, id, row, result, ledger, locks>>

\* No valid agent profile, a refused connection, or the shutdown token.
DispatchFails(c) ==
    /\ pc[c] = "send"
    /\ Set(c, Interrupted(TRUE))
    /\ Goto(c, "release")
    /\ UNCHANGED <<channelVars, form, id, row, ledger, locks>>

\* Fault: an unreadable body of an OK response counts as success.
ByStatusOptimistic(status) ==
    CASE status = 200                  -> "Succeeded"
      [] status \in {400, 401, 403, 409} -> "Rejected"
      [] OTHER                         -> "Unknown"

\* Fault: a gateway error counts as a rejection.
ByStatusGateway(status) ==
    IF status \in {400, 401, 403, 409, 502, 504} THEN "Rejected" ELSE "Unknown"

\* AgentOperationsClient.ExecuteAsync when the body could not be read as a
\* valid result.
ByStatus(status) == IF status \in {400, 401, 403, 409} THEN "Rejected" ELSE "Unknown"

\* An object that has a message is a result whose missing fields have their
\* defaults; it is taken as it is unless it claims success with an error status.
ClientResult(p) ==
    IF p.form # "none" /\ (p.status = 200 \/ p.result # "Succeeded")
    THEN p.result
    ELSE ByStatus(p.status)

\* The reply arrives: read in full, or with a body that cannot be read.
ReceiveReply(c, p) ==
    /\ pc[c] = "await"
    /\ p \in outbox
    /\ p.call = c
    /\ outbox' = outbox \ {p}
    /\ Set(c, ClientResult(p)) \/ Set(c, ByStatus(p.status))
    /\ Goto(c, "release")
    /\ UNCHANGED <<inbox, sent, form, id, row, ledger, locks>>

\* HttpClient.Timeout, a broken connection, or the shutdown of the UI.
GiveUp(c) ==
    /\ pc[c] = "await"
    /\ Set(c, Interrupted(TRUE))
    /\ Goto(c, "release")
    /\ UNCHANGED <<channelVars, form, id, row, ledger, locks>>

\* HostLease.DisposeAsync; when the session is broken the unlock fails and the
\* lock stays until PostgreSQL ends the session.
Release(c) ==
    /\ pc[c] = "release"
    /\ \/ locks' = locks \ {<<row[c].host, c>>}
       \/ UNCHANGED locks
    /\ Goto(c, "complete")
    /\ UNCHANGED <<channelVars, form, id, row, result, ledger>>

Settle(a, c) == [a EXCEPT !.outcome = result[c]]

\* Fault: the update is by module, not by request id.
SettledByModule(c) ==
    LET rows == {a \in ledger : a.module = form[c].module}
    IN  (ledger \ rows) \cup {Settle(a, c) : a \in rows}

\* The row of the call's request id, with the outcome filled in.
Settled(c) ==
    {a \in ledger : a.id # id[c]} \cup {Settle(a, c) : a \in Recorded(id[c])}

Complete(c) ==
    /\ pc[c] = "complete"
    /\ ledger' = Settled(c)
    /\ Goto(c, "answered")
    /\ UNCHANGED <<channelVars, form, id, row, result, locks>>

-----------------------------------------------------------------------------
(* Failures around the call *)

\* The update fails, or succeeds and its acknowledgement is lost: an exception
\* to the page.  No other code ever completes the row.
CompleteFails(c) ==
    /\ pc[c] = "complete"
    /\ ledger' \in {ledger, Settled(c)}
    /\ Set(c, Unset)
    /\ Goto(c, "refused")
    /\ UNCHANGED <<channelVars, form, id, row, locks>>

\* The UI process ends.  A crash of the process is a crash of each of its
\* calls; a commit in progress may be lost or not (InsertFails, CompleteFails).
Crash(c) ==
    /\ pc[c] \notin Ended \cup {"idle"}
    /\ Set(c, Unset)
    /\ Goto(c, "dead")
    /\ UNCHANGED <<channelVars, form, id, row, ledger, locks>>

\* PostgreSQL ends a session: broken network, failover, or a dead client.  Its
\* advisory locks go with it, whether or not the call still counts on them.
SessionEnds(l) ==
    /\ l \in locks
    /\ locks' = locks \ {l}
    /\ UNCHANGED <<channelVars, pc, form, id, row, result, ledger>>

-----------------------------------------------------------------------------

CallStep(c) ==
    \/ Authorize(c)
    \/ FindTarget(c)
    \/ Lookup(c)
    \/ Insert(c)
    \/ TryLock(c)
    \/ TryLockFails(c)
    \/ Dispatch(c)
    \/ DispatchFails(c)
    \/ \E p \in outbox : ReceiveReply(c, p)
    \/ GiveUp(c)
    \/ Release(c)
    \/ Complete(c)

UIFault(c) == InsertFails(c) \/ CompleteFails(c) \/ Crash(c)

UINext ==
    \/ \E c \in Calls : Submit(c) \/ CallStep(c) \/ UIFault(c)
    \/ \E l \in locks : SessionEnds(l)
=============================================================================
