-------------------------- MODULE OperationsProofs --------------------------
(***************************************************************************)
(* IInv is inductive, for any number of calls, request ids, users,         *)
(* modules, hosts and agents; what it implies is invariant.  Steps of      *)
(* agents and connections are dealt with by the lemmas of AgentProofs;     *)
(* most steps of a call only move its pc along, which CallMoves covers.    *)
(*                                                                         *)
(* So is TruthInv: what the UI records and answers is true.  That agents   *)
(* tell the truth is taken from AgentProofs; here it is carried into the   *)
(* result of a call, its row, and every answer.                            *)
(***************************************************************************)
EXTENDS OperationsTruth, AgentProofs

-----------------------------------------------------------------------------
(* Reservations, rows and claims *)

LEMMA PlacesAreOrdered ==
    /\ Owning \subseteq Reserved
    /\ Reserved \subseteq Places
    /\ Dispatched \subseteq Reserved
BY DEF Owning, Reserved, Places, Dispatched, Ended

\* A row for calls that have not read one is a row.
LEMMA NoRowYetIsRow == NoRowYet \in Row
<1>1. PICK h \in Hosts, t \in Targets : TRUE
    BY RowExists
<1>2. [host |-> h, kind |-> "Docker", target |-> t] \in Row
    BY DEF Row, Kinds
<1> QED BY <1>2 DEF NoRowYet

LEMMA InitHolds == ASSUME Init PROVE IInv
<1> USE DEF Init, UIInit
<1>1. ChannelTypeOK /\ AgentInv /\ sent = {} /\ Abroad \cup Acted = {}
    BY AgentStarts
<1>2. UITypeOK
    BY NoRowYetIsRow, FormsAssumption DEF UITypeOK, Places, Unset, Result
<1>3. /\ OneRowPerId /\ RowsAreOfCalls /\ OwnersHaveRows
      /\ RequestsAreOfCalls /\ NothingUnsent /\ LocksAreExclusive
    BY <1>1 DEF OneRowPerId, RowsAreOfCalls, OwnersHaveRows, Owning,
                RequestsAreOfCalls, NothingUnsent, LocksAreExclusive
<1> QED BY <1>1, <1>2, <1>3 DEF IInv

-----------------------------------------------------------------------------
(* Agents, hosts and connections *)

LEMMA AgentStepHolds ==
    ASSUME IInv, AgentNext \/ ChannelNext, UNCHANGED uiVars
    PROVE  IInv'
<1>1. ChannelTypeOK' /\ AgentInv' /\ Passes
    BY AgentKeeps, ChannelKeeps DEF IInv
<1>2. sent' = sent /\ (Abroad \cup Acted)' \subseteq Abroad \cup Acted
    BY <1>1 DEF Passes
<1>3. NothingUnsent'
    BY <1>2 DEF IInv, NothingUnsent
<1>4. RequestsAreOfCalls'
    BY <1>2 DEF IInv, RequestsAreOfCalls, AgentRequest, uiVars
<1>5. UITypeOK' /\ OneRowPerId' /\ RowsAreOfCalls' /\ OwnersHaveRows' /\ LocksAreExclusive'
    BY DEF IInv, UITypeOK, OneRowPerId, RowsAreOfCalls, OwnersHaveRows,
           LocksAreExclusive, uiVars
<1> QED BY <1>1, <1>3, <1>4, <1>5 DEF IInv

-----------------------------------------------------------------------------
(* Steps of a call that write no row and send nothing *)

LEMMA AgentsUntouched ==
    ASSUME IInv, UNCHANGED agentVars
    PROVE  /\ AgentInv'
           /\ Executing' = Executing /\ Waiting' = Waiting /\ Acted' = Acted
BY DEF IInv, AgentInv, AgentTypeOK, Serialized, RunsItsOwn, agentVars,
       Executing, Waiting, Acted

\* A call goes from one place to another, keeping its row and request if it
\* has them.
LEMMA CallMoves ==
    ASSUME IInv, UNCHANGED agentVars,
           NEW c \in Calls, NEW place \in Places, Goto(c, place),
           UNCHANGED <<inbox, sent, form, id, row, ledger>>,
           outbox' \subseteq outbox, result' \in [Calls -> Result],
           locks' \subseteq Hosts \X Calls, LocksAreExclusive',
           place \in Owning => pc[c] \in Owning,
           pc[c] \in Reserved => place \in Reserved \ {"answered"},
           pc[c] \in Dispatched => place \in Dispatched
    PROVE  IInv'
<1> USE DEF IInv
<1>1. \A d \in Calls : pc'[d] = IF d = c THEN place ELSE pc[d]
    BY DEF Goto, UITypeOK
<1>2. AgentInv' /\ NothingUnsent'
    BY AgentsUntouched DEF NothingUnsent, Abroad
<1>3. ChannelTypeOK'
    BY DEF ChannelTypeOK
<1>4. UITypeOK'
    BY DEF UITypeOK, Goto
<1>5. RowsAreOfCalls'
    <2>1. ASSUME NEW a \in ledger
          PROVE  /\ pc'[a.call] \in Reserved
                 /\ pc'[a.call] = "answered" => a.outcome # "Pending"
        <3>1. a.call \in Calls
            BY DEF UITypeOK, AuditRow
        <3> QED BY <1>1, <3>1 DEF RowsAreOfCalls
    <2> QED BY <2>1 DEF RowsAreOfCalls
<1>6. OwnersHaveRows'
    BY <1>1 DEF OwnersHaveRows
<1>7. RequestsAreOfCalls'
    <2>1. ASSUME NEW q \in sent PROVE pc'[q.call] \in Dispatched
        <3>1. q.call \in Calls
            BY DEF ChannelTypeOK, Request
        <3> QED BY <1>1, <3>1 DEF RequestsAreOfCalls
    <2> QED BY <2>1 DEF RequestsAreOfCalls, AgentRequest
<1>8. OneRowPerId'
    BY DEF OneRowPerId
<1> QED BY <1>2, <1>3, <1>4, <1>5, <1>6, <1>7, <1>8

\* What Previous makes of a row: a replay or a refusal, with an outcome.
LEMMA PreviousAnswers ==
    ASSUME UITypeOK, NEW c \in Calls, NEW a \in ledger, Previous(c, a)
    PROVE  /\ Goto(c, "replayed") \/ Goto(c, "refused")
           /\ result' \in [Calls -> Result]
<1>1. a.outcome \in Result \cup {"Pending"}
    BY DEF UITypeOK, AuditRow
<1>2. Replay(a) \in Result
    BY <1>1 DEF Replay, Unset, Result
<1> QED BY <1>2 DEF Previous, Set, UITypeOK

\* What the agent's client makes of a reply is a result.
LEMMA ClientResultIsResult ==
    ASSUME NEW p \in Reply
    PROVE  ClientResult(p) \in Result /\ ByStatus(p.status) \in Result
BY DEF Reply, ClientResult, ByStatus, Result

LEMMA MovesHold ==
    ASSUME IInv, UNCHANGED agentVars, NEW c \in Calls,
           \/ Submit(c) \/ Authorize(c) \/ Lookup(c) \/ TryLock(c) \/ TryLockFails(c)
           \/ DispatchFails(c) \/ GiveUp(c) \/ Release(c) \/ Crash(c)
           \/ \E p \in outbox : ReceiveReply(c, p)
    PROVE  IInv'
<1> USE DEF Owning, Ended, Reserved, Dispatched, Places
<1> UITypeOK /\ LocksAreExclusive /\ result \in [Calls -> Result]
    BY DEF IInv, UITypeOK
<1> {"Rejected", "NotDispatched", "Unknown", Unset} \subseteq Result
    BY DEF Result, Unset
<1>1. ASSUME UNCHANGED locks
      PROVE  locks' \subseteq Hosts \X Calls /\ LocksAreExclusive'
    BY <1>1 DEF UITypeOK, LocksAreExclusive
<1>2. ASSUME NEW r \in Result, Set(c, r)
      PROVE  result' \in [Calls -> Result]
    BY <1>2 DEF Set
<1>3. CASE Submit(c)
    BY <1>1, <1>3, CallMoves DEF Submit, channelVars
<1>4. CASE Authorize(c)
    BY <1>1, <1>4, CallMoves DEF Authorize, channelVars
<1>5. CASE Lookup(c)
    <2>1. CASE \E a \in Recorded(id[c]) : Previous(c, a)
        <3>1. \E a \in ledger : Previous(c, a)
            BY <2>1 DEF Recorded
        <3>2. /\ Goto(c, "replayed") \/ Goto(c, "refused")
              /\ result' \in [Calls -> Result]
            BY <3>1, PreviousAnswers
        <3> QED BY <1>1, <1>5, <3>2, CallMoves DEF Lookup, channelVars
    <2>2. CASE Goto(c, "insert") /\ UNCHANGED result
        BY <1>1, <1>5, <2>2, CallMoves DEF Lookup, channelVars
    <2> QED BY <1>5, <2>1, <2>2 DEF Lookup
<1> DEFINE h == row[c].host
<1>0. ASSUME Free(h), locks' = locks \cup {<<h, c>>}
      PROVE  locks' \subseteq Hosts \X Calls /\ LocksAreExclusive'
    <2>1. h \in Hosts
        BY DEF UITypeOK, Row
    <2>2. locks' \subseteq Hosts \X Calls
        BY <1>0, <2>1 DEF UITypeOK
    <2>3. LocksAreExclusive'
        BY <1>0 DEF LocksAreExclusive, Free
    <2> QED BY <2>2, <2>3
<1>6. CASE TryLock(c)
    <2>1. CASE Free(h) /\ locks' = locks \cup {<<h, c>>} /\ Goto(c, "send") /\ UNCHANGED result
        BY <1>0, <1>6, <2>1, CallMoves DEF TryLock, channelVars
    <2>2. CASE Set(c, "Rejected") /\ Goto(c, "complete") /\ UNCHANGED locks
        BY <1>1, <1>2, <1>6, <2>2, CallMoves DEF TryLock, channelVars
    <2> QED BY <1>6, <2>1, <2>2 DEF TryLock
<1>7. CASE TryLockFails(c)
    BY <1>0, <1>1, <1>2, <1>7, CallMoves DEF TryLockFails, Interrupted, channelVars
<1>8. CASE DispatchFails(c)
    BY <1>1, <1>2, <1>8, CallMoves DEF DispatchFails, Interrupted, channelVars
<1>9. CASE GiveUp(c)
    BY <1>1, <1>2, <1>9, CallMoves DEF GiveUp, Interrupted, channelVars
<1>10. CASE Release(c)
    <2>1. locks' \subseteq locks
        BY <1>10 DEF Release
    <2>2. locks' \subseteq Hosts \X Calls /\ LocksAreExclusive'
        BY <2>1 DEF UITypeOK, LocksAreExclusive
    <2> QED BY <1>10, <2>2, CallMoves DEF Release, channelVars
<1>11. CASE Crash(c)
    BY <1>1, <1>2, <1>11, CallMoves DEF Crash, channelVars
<1>12. ASSUME NEW p \in outbox, ReceiveReply(c, p)
       PROVE  IInv'
    <2>1. p \in Reply
        BY DEF IInv, ChannelTypeOK
    <2>2. result' \in [Calls -> Result]
        BY <1>2, <1>12, <2>1, ClientResultIsResult DEF ReceiveReply
    <2> QED BY <1>1, <1>12, <2>2, CallMoves DEF ReceiveReply
<1> QED BY <1>3, <1>4, <1>5, <1>6, <1>7, <1>8, <1>9, <1>10, <1>11, <1>12

\* A lock goes with its session.
LEMMA SessionEndHolds ==
    ASSUME IInv, UNCHANGED agentVars, NEW l \in locks, SessionEnds(l)
    PROVE  IInv'
<1> USE DEF SessionEnds
<1>1. AgentInv' /\ NothingUnsent'
    BY AgentsUntouched DEF IInv, NothingUnsent, Abroad, channelVars
<1>2. ChannelTypeOK' /\ UITypeOK' /\ LocksAreExclusive'
    BY DEF IInv, ChannelTypeOK, UITypeOK, LocksAreExclusive, channelVars
<1>3. OneRowPerId' /\ RowsAreOfCalls' /\ OwnersHaveRows' /\ RequestsAreOfCalls'
    BY DEF IInv, OneRowPerId, RowsAreOfCalls, OwnersHaveRows, RequestsAreOfCalls,
           AgentRequest, channelVars
<1> QED BY <1>1, <1>2, <1>3 DEF IInv

-----------------------------------------------------------------------------
(* Steps of a call that read its row, write its audit row or send its request *)

LEMMA FindTargetHolds ==
    ASSUME IInv, UNCHANGED agentVars, NEW c \in Calls, FindTarget(c)
    PROVE  IInv'
<1> USE DEF IInv
<1>1. PICK place \in {"reserve", "refused"} : Goto(c, place)
    BY DEF FindTarget
<1>2. \A d \in Calls : pc'[d] = IF d = c THEN place ELSE pc[d]
    BY <1>1 DEF Goto, UITypeOK
<1>3. row' \in [Calls -> Row] /\ \A d \in Calls \ {c} : row'[d] = row[d]
    BY RowsAssumption DEF FindTarget, UITypeOK, Form
<1>4. /\ UNCHANGED <<channelVars, form, id, result, ledger, locks>>
      /\ pc[c] = "find"
    BY DEF FindTarget
<1> USE DEF channelVars
<1>5. AgentInv' /\ NothingUnsent'
    BY <1>4, AgentsUntouched DEF NothingUnsent, Abroad
<1>6. ChannelTypeOK' /\ UITypeOK' /\ LocksAreExclusive' /\ OneRowPerId'
    BY <1>1, <1>3, <1>4
    DEF ChannelTypeOK, UITypeOK, LocksAreExclusive, OneRowPerId, Goto, Places, Ended
<1>7. RowsAreOfCalls'
    <2>1. ASSUME NEW a \in ledger
          PROVE  a.call \in Calls /\ a.call # c
        BY <1>4 DEF RowsAreOfCalls, UITypeOK, AuditRow, Reserved, Owning
    <2> QED BY <1>2, <1>3, <1>4, <2>1 DEF RowsAreOfCalls
<1>8. OwnersHaveRows'
    BY <1>2, <1>4 DEF OwnersHaveRows, Owning
<1>9. RequestsAreOfCalls'
    <2>1. ASSUME NEW q \in sent
          PROVE  q.call \in Calls /\ q.call # c
        BY <1>4 DEF RequestsAreOfCalls, ChannelTypeOK, Request, Dispatched
    <2> QED BY <1>2, <1>3, <1>4, <2>1 DEF RequestsAreOfCalls, AgentRequest
<1> QED BY <1>5, <1>6, <1>7, <1>8, <1>9

\* A new row, of a call that goes on to the lock or is refused.
LEMMA NewRowHolds ==
    ASSUME IInv, UNCHANGED agentVars, NEW c \in Calls, pc[c] = "insert", IndexAllows(c),
           NEW place \in {"lock", "refused"}, Goto(c, place),
           ledger' = ledger \cup {NewRow(c)},
           UNCHANGED <<channelVars, form, id, row, result, locks>>
    PROVE  IInv'
<1> USE DEF IInv, channelVars
<1>1. \A d \in Calls : pc'[d] = IF d = c THEN place ELSE pc[d]
    BY DEF Goto, UITypeOK
<1>2. NewRow(c) \in AuditRow /\ NewRow(c).call = c /\ NewRow(c).outcome = "Pending"
    BY DEF NewRow, AuditRow, UITypeOK, Form, Row
<1>3. AgentInv' /\ NothingUnsent'
    BY AgentsUntouched DEF NothingUnsent, Abroad
<1>4. ChannelTypeOK' /\ UITypeOK' /\ LocksAreExclusive'
    BY <1>2 DEF ChannelTypeOK, UITypeOK, LocksAreExclusive, Goto, Places, Owning, Ended
<1>5. OneRowPerId'
    BY DEF OneRowPerId, IndexAllows, Recorded, NewRow
<1>6. RowsAreOfCalls'
    <2>1. ASSUME NEW a \in ledger
          PROVE  a.call \in Calls /\ a.call # c
        BY DEF RowsAreOfCalls, UITypeOK, AuditRow, Reserved, Owning
    <2>2. ASSUME NEW a \in ledger
          PROVE  /\ pc'[a.call] \in Reserved
                 /\ pc'[a.call] = "answered" => a.outcome # "Pending"
        BY <1>1, <2>1 DEF RowsAreOfCalls
    <2>3. /\ pc'[c] \in Reserved /\ pc'[c] # "answered"
        BY <1>1 DEF Reserved, Owning
    <2> QED BY <1>2, <2>2, <2>3 DEF RowsAreOfCalls, NewRow
<1>7. OwnersHaveRows'
    BY <1>1, <1>2 DEF OwnersHaveRows, Owning
<1>8. RequestsAreOfCalls'
    <2>1. ASSUME NEW q \in sent
          PROVE  q.call \in Calls /\ q.call # c
        BY DEF RequestsAreOfCalls, ChannelTypeOK, Request, Dispatched
    <2> QED BY <1>1, <2>1 DEF RequestsAreOfCalls, AgentRequest
<1> QED BY <1>3, <1>4, <1>5, <1>6, <1>7, <1>8

LEMMA InsertHolds ==
    ASSUME IInv, UNCHANGED agentVars, NEW c \in Calls, Insert(c) \/ InsertFails(c)
    PROVE  IInv'
<1> USE DEF Insert, InsertFails
<1>1. CASE IndexAllows(c) /\ ledger' = ledger \cup {NewRow(c)}
    <2>1. CASE Insert(c)
        <3>1. IndexAllows(c) /\ Goto(c, "lock") /\ UNCHANGED result
            BY <1>1, <2>1
        <3> QED BY <1>1, <2>1, <3>1, NewRowHolds
    <2>2. CASE InsertFails(c)
        BY <1>1, <2>2, NewRowHolds
    <2> QED BY <2>1, <2>2
<1>2. CASE ledger' = ledger
    <2>1. /\ pc[c] = "insert"
          /\ UNCHANGED <<channelVars, form, id, row, locks>>
          /\ result' \in [Calls -> Result]
          /\ Goto(c, "replayed") \/ Goto(c, "refused")
        <3>1. CASE InsertFails(c)
            BY <3>1 DEF IInv, UITypeOK
        <3>2. CASE Insert(c) /\ \E a \in ledger : Previous(c, a)
            BY <3>2, PreviousAnswers DEF IInv
        <3>3. CASE Insert(c) /\ IndexAllows(c) /\ ledger' = ledger \cup {NewRow(c)}
            <4>1. NewRow(c) \in ledger /\ NewRow(c).id = id[c]
                BY <1>2, <3>3 DEF NewRow
            <4> QED BY <3>3, <4>1 DEF IndexAllows, Recorded
        <3> QED BY <3>1, <3>2, <3>3 DEF Recorded
    <2>2. locks' \subseteq Hosts \X Calls /\ LocksAreExclusive'
        BY <2>1 DEF IInv, UITypeOK, LocksAreExclusive
    <2> QED BY <1>2, <2>1, <2>2, CallMoves
            DEF channelVars, Places, Ended, Owning, Reserved, Dispatched
<1> QED BY <1>1, <1>2

LEMMA DispatchHolds ==
    ASSUME IInv, UNCHANGED agentVars, NEW c \in Calls, Dispatch(c)
    PROVE  IInv'
<1> USE DEF IInv
<1> DEFINE q == AgentRequest(c)
<1>1. /\ pc[c] = "send"
      /\ inbox' = inbox \cup {q} /\ sent' = sent \cup {q} /\ UNCHANGED outbox
      /\ Goto(c, "await")
      /\ UNCHANGED <<form, id, row, result, ledger, locks>>
    BY DEF Dispatch, Send
<1>2. \A d \in Calls : pc'[d] = IF d = c THEN "await" ELSE pc[d]
    BY <1>1 DEF Goto, UITypeOK
<1>3. q \in Request /\ q.call = c
    BY AgentOfAssumption DEF AgentRequest, Request, Body, UITypeOK, Form, Row
<1> HIDE DEF q
<1>4. AgentInv' /\ NothingUnsent'
    BY <1>1, AgentsUntouched DEF NothingUnsent, Abroad
<1>5. ChannelTypeOK' /\ UITypeOK' /\ LocksAreExclusive' /\ OneRowPerId'
    BY <1>1, <1>3
    DEF ChannelTypeOK, UITypeOK, LocksAreExclusive, OneRowPerId, Goto, Places, Owning
<1>6. RowsAreOfCalls'
    <2>1. ASSUME NEW a \in ledger
          PROVE  /\ pc'[a.call] \in Reserved
                 /\ pc'[a.call] = "answered" => a.outcome # "Pending"
        <3>1. a.call \in Calls
            BY DEF UITypeOK, AuditRow
        <3> QED BY <1>2, <3>1 DEF RowsAreOfCalls, Reserved, Owning
    <2> QED BY <1>1, <2>1 DEF RowsAreOfCalls
<1>7. OwnersHaveRows'
    BY <1>1, <1>2 DEF OwnersHaveRows, Owning
<1>8. RequestsAreOfCalls'
    <2>1. ASSUME NEW p \in sent
          PROVE  p.call \in Calls /\ pc'[p.call] \in Dispatched
        BY <1>1, <1>2 DEF RequestsAreOfCalls, ChannelTypeOK, Request, Dispatched
    <2>2. pc'[c] \in Dispatched /\ \E a \in ledger : a.call = c
        BY <1>1, <1>2 DEF OwnersHaveRows, Owning, Dispatched
    <2>3. q = AgentRequest(c)
        BY DEF q
    <2> QED BY <1>1, <1>3, <2>1, <2>2, <2>3 DEF RequestsAreOfCalls, AgentRequest
<1> QED BY <1>4, <1>5, <1>6, <1>7, <1>8

-----------------------------------------------------------------------------
(* The outcome is recorded *)

\* The row that Complete fills in is the call's own, and it was Pending.
LEMMA CompletesItsOwnRow ==
    ASSUME IInv, NEW c \in Calls, pc[c] = "complete"
    PROVE  \E a \in ledger :
               /\ a.call = c /\ a.outcome = "Pending"
               /\ Settled(c) = (ledger \ {a}) \cup {Settle(a, c)}
<1>1. PICK a \in ledger : a.call = c /\ a.outcome = "Pending"
    BY DEF IInv, OwnersHaveRows, Owning
<1>2. a.id = id[c]
    BY <1>1 DEF IInv, RowsAreOfCalls
<1>3. \A b \in ledger : b.id = id[c] <=> b = a
    BY <1>2 DEF IInv, OneRowPerId
<1>4. Recorded(id[c]) = {a}
    BY <1>3 DEF Recorded
<1>5. {b \in ledger : b.id # id[c]} = ledger \ {a}
    BY <1>3
<1> QED BY <1>1, <1>4, <1>5 DEF Settled

\* Filling in an outcome changes nothing else of a row.
LEMMA SettleKeepsRow ==
    ASSUME UITypeOK, NEW c \in Calls, NEW a \in AuditRow
    PROVE  /\ Settle(a, c) \in AuditRow
           /\ Settle(a, c).outcome = result[c] /\ result[c] # "Pending"
           /\ Settle(a, c) = [a EXCEPT !.outcome = result[c]]
           /\ Settle(a, c) = [id |-> a.id, call |-> a.call, actor |-> a.actor,
                 module |-> a.module, operation |-> a.operation, host |-> a.host,
                 outcome |-> result[c]]
BY DEF Settle, AuditRow, UITypeOK, Result

LEMMA SettledHolds ==
    ASSUME IInv, UNCHANGED agentVars, NEW c \in Calls, pc[c] = "complete",
           NEW place \in {"answered", "refused"}, Goto(c, place), ledger' = Settled(c),
           UNCHANGED <<channelVars, form, id, row, locks>>, result' \in [Calls -> Result]
    PROVE  IInv'
<1> USE DEF IInv, channelVars
<1>1. PICK a \in ledger : /\ a.call = c /\ a.outcome = "Pending"
                          /\ ledger' = (ledger \ {a}) \cup {Settle(a, c)}
    BY CompletesItsOwnRow
<1>2. a \in AuditRow
    BY DEF UITypeOK
<1>3. PICK b : b = Settle(a, c)
    OBVIOUS
<1>4. /\ b \in AuditRow /\ b.outcome \in Result /\ b.outcome # "Pending"
      /\ b = [id |-> a.id, call |-> a.call, actor |-> a.actor, module |-> a.module,
              operation |-> a.operation, host |-> a.host, outcome |-> b.outcome]
    BY <1>2, <1>3, SettleKeepsRow DEF UITypeOK
<1>5. ledger' = (ledger \ {a}) \cup {b} /\ b.call = c /\ b.id = a.id
    BY <1>1, <1>3, <1>4
<1>6. \A d \in Calls : pc'[d] = IF d = c THEN place ELSE pc[d]
    BY DEF Goto, UITypeOK
<1>7. AgentInv' /\ NothingUnsent'
    BY AgentsUntouched DEF NothingUnsent, Abroad
<1>8. ChannelTypeOK' /\ UITypeOK' /\ LocksAreExclusive'
    BY <1>4, <1>5 DEF ChannelTypeOK, UITypeOK, LocksAreExclusive, Goto, Places, Ended
<1>9. OneRowPerId'
    BY <1>5 DEF OneRowPerId
<1>10. \A d \in ledger : d.call \in Calls /\ (d.call = c => d = a)
    BY <1>1 DEF UITypeOK, AuditRow, RowsAreOfCalls, OneRowPerId
<1>11. RowsAreOfCalls'
    <2>1. ASSUME NEW d \in ledger', d # b
          PROVE  /\ pc'[d.call] \in Reserved
                 /\ pc'[d.call] = "answered" => d.outcome # "Pending"
                 /\ d \in ledger
        BY <1>5, <1>6, <1>10, <2>1 DEF RowsAreOfCalls
    <2>2. pc'[b.call] \in Reserved
        BY <1>5, <1>6 DEF Reserved
    <2>3. a = [id |-> id[c], call |-> c, actor |-> form[c].actor,
               module |-> form[c].module, operation |-> form[c].operation,
               host |-> row[c].host, outcome |-> a.outcome]
        BY <1>1 DEF RowsAreOfCalls
    <2>4. b = [id |-> id[c], call |-> c, actor |-> form[c].actor,
               module |-> form[c].module, operation |-> form[c].operation,
               host |-> row[c].host, outcome |-> b.outcome]
        BY <1>4, <2>3
    <2> QED BY <1>4, <1>5, <2>1, <2>2, <2>4 DEF RowsAreOfCalls
<1>12. OwnersHaveRows'
    BY <1>1, <1>5, <1>6 DEF OwnersHaveRows, Owning
<1>13. RequestsAreOfCalls'
    <2>1. ASSUME NEW q \in sent
          PROVE  /\ pc'[q.call] \in Dispatched
                 /\ \E d \in ledger' : d.call = q.call
        <3>1. q.call \in Calls /\ pc[q.call] \in Dispatched /\ \E d \in ledger : d.call = q.call
            BY DEF RequestsAreOfCalls, ChannelTypeOK, Request
        <3>2. pc'[q.call] \in Dispatched
            BY <1>6, <3>1 DEF Dispatched
        <3>3. \E d \in ledger' : d.call = q.call
            BY <1>1, <1>5, <3>1
        <3> QED BY <3>2, <3>3
    <2> QED BY <2>1 DEF RequestsAreOfCalls, AgentRequest
<1> QED BY <1>7, <1>8, <1>9, <1>11, <1>12, <1>13

LEMMA CompleteHolds ==
    ASSUME IInv, UNCHANGED agentVars, NEW c \in Calls, Complete(c) \/ CompleteFails(c)
    PROVE  IInv'
<1>1. pc[c] = "complete" /\ UNCHANGED <<channelVars, form, id, row, locks>>
    BY DEF Complete, CompleteFails
<1>2. result' \in [Calls -> Result]
    BY DEF Complete, CompleteFails, Set, Unset, Result, IInv, UITypeOK
<1>3. CASE ledger' = Settled(c)
    BY <1>1, <1>2, <1>3, SettledHolds DEF Complete, CompleteFails
<1>4. CASE CompleteFails(c) /\ ledger' = ledger
    <2>1. locks' \subseteq Hosts \X Calls /\ LocksAreExclusive'
        BY <1>1 DEF IInv, UITypeOK, LocksAreExclusive
    <2> QED BY <1>1, <1>2, <1>4, <2>1, CallMoves
            DEF CompleteFails, channelVars, Places, Ended, Owning, Reserved, Dispatched
<1> QED BY <1>3, <1>4 DEF Complete, CompleteFails

-----------------------------------------------------------------------------
(* The invariant *)

LEMMA NextHolds == ASSUME IInv, Next PROVE IInv'
<1>1. ASSUME NEW c \in Calls, UNCHANGED agentVars,
             Submit(c) \/ CallStep(c) \/ UIFault(c)
      PROVE  IInv'
    BY <1>1, MovesHold, FindTargetHolds, InsertHolds, DispatchHolds, CompleteHolds
    DEF CallStep, UIFault
<1>2. CASE UINext /\ UNCHANGED agentVars
    BY <1>1, <1>2, SessionEndHolds DEF UINext
<1>3. CASE (AgentNext \/ ChannelNext) /\ UNCHANGED uiVars
    BY <1>3, AgentStepHolds
<1> QED BY <1>2, <1>3 DEF Next

LEMMA StutterHolds == ASSUME IInv, UNCHANGED vars PROVE IInv'
<1> USE DEF IInv, vars, channelVars, uiVars
<1>1. AgentInv' /\ NothingUnsent'
    BY AgentsUntouched DEF NothingUnsent, Abroad
<1>2. ChannelTypeOK' /\ UITypeOK' /\ OneRowPerId' /\ LocksAreExclusive'
    BY DEF ChannelTypeOK, UITypeOK, OneRowPerId, LocksAreExclusive
<1>3. RowsAreOfCalls' /\ OwnersHaveRows' /\ RequestsAreOfCalls'
    BY DEF RowsAreOfCalls, OwnersHaveRows, RequestsAreOfCalls, AgentRequest
<1> QED BY <1>1, <1>2, <1>3

\* The inductive invariant of the operations system.
THEOREM Invariant == Spec => []IInv
BY InitHolds, NextHolds, StutterHolds, PTL DEF Spec

\* Every variable holds a value of its type.
THEOREM TypeCorrect == Spec => []TypeOK
<1>1. IInv => TypeOK
    BY DEF IInv, TypeOK, AgentInv
<1> QED BY <1>1, Invariant, PTL

\* Whatever is on its way to a host, running there or done there is on record,
\* with the same id, module, operation and host.
THEOREM Audited == Spec => []AuditedBeforeDispatch
<1>1. ASSUME IInv, NEW q \in sent \cup Abroad \cup Acted
      PROVE  \E a \in ledger :
                 /\ a.id = q.id
                 /\ a.call = q.call
                 /\ a.module = q.body.module
                 /\ a.operation = q.body.operation
                 /\ AgentOf[a.host] = q.agent
    <2>1. q \in sent
        BY <1>1 DEF IInv, NothingUnsent
    <2>2. q = AgentRequest(q.call)
        BY <1>1, <2>1 DEF IInv, RequestsAreOfCalls
    <2>3. PICK a \in ledger : a.call = q.call
        BY <1>1, <2>1 DEF IInv, RequestsAreOfCalls
    <2>4. /\ a.id = id[q.call] /\ a.module = form[q.call].module
          /\ a.operation = form[q.call].operation /\ a.host = row[q.call].host
        BY <1>1, <2>3 DEF IInv, RowsAreOfCalls
    <2> QED BY <2>2, <2>3, <2>4 DEF AgentRequest
<1>2. IInv => AuditedBeforeDispatch
    BY <1>1 DEF AuditedBeforeDispatch
<1> QED BY <1>2, Invariant, PTL

\* The id of a request tells which request it is.
LEMMA IdsAreOfRequests == ASSUME IInv PROVE NeverRedispatched
<1> SUFFICES ASSUME NEW p \in sent, NEW q \in sent, p.id = q.id
             PROVE  p = q
    BY DEF NeverRedispatched
<1>1. p = AgentRequest(p.call) /\ q = AgentRequest(q.call)
    BY DEF IInv, RequestsAreOfCalls
<1>2. PICK a \in ledger, b \in ledger : a.call = p.call /\ b.call = q.call
    BY DEF IInv, RequestsAreOfCalls
<1>3. a.id = id[p.call] /\ b.id = id[q.call]
    BY <1>2 DEF IInv, RowsAreOfCalls
<1>4. p.id = id[p.call] /\ q.id = id[q.call]
    BY <1>1 DEF AgentRequest
<1>5. a = b
    BY <1>3, <1>4 DEF IInv, OneRowPerId
<1> QED BY <1>1, <1>2, <1>5

\* A request id is dispatched once, whatever calls carry it.
THEOREM DispatchedOnce == Spec => []NeverRedispatched
BY IdsAreOfRequests, Invariant, PTL

\* No host action takes place twice for one request id.
THEOREM DoneOnce == Spec => []AtMostOnce
<1>1. IInv /\ NeverRedispatched => AtMostOnce
    BY DEF IInv, NothingUnsent, Acted, NeverRedispatched, AtMostOnce
<1> QED BY <1>1, Invariant, DispatchedOnce, PTL

\* A row that is still Pending has a call working on it, or the call is lost.
THEOREM PendingIsOwned == Spec => []PendingHasOwner
<1>1. IInv => PendingHasOwner
    BY DEF IInv, RowsAreOfCalls, PendingHasOwner, Reserved
<1> QED BY <1>1, Invariant, PTL

\* Two calls never count on the lock of one host at the same time.
THEOREM LeasesExclude == Spec => []LeaseIsExclusive
<1>1. IInv => LeaseIsExclusive
    BY DEF IInv, LocksAreExclusive, LeaseIsExclusive, Leased
<1> QED BY <1>1, Invariant, PTL

\* Rows stay, keep their identity, and keep an outcome once they have one.
THEOREM OutcomesStay == Spec => OutcomesAreFinal
<1> DEFINE Kept(a, b) == /\ b.id = a.id
                         /\ \/ b = a
                            \/ /\ a.outcome = "Pending"
                               /\ [b EXCEPT !.outcome = "Pending"] = a
<1>1. ASSUME IInv, NEW c \in Calls, pc[c] = "complete", ledger' = Settled(c), NEW d \in ledger
      PROVE  \E b \in ledger' : Kept(d, b)
    <2>1. PICK a \in ledger : /\ a.call = c /\ a.outcome = "Pending"
                              /\ ledger' = (ledger \ {a}) \cup {Settle(a, c)}
        BY <1>1, CompletesItsOwnRow
    <2>2. a \in AuditRow
        BY <1>1 DEF IInv, UITypeOK
    <2>3. CASE d = a
        <3>1. Settle(a, c) \in ledger'
            BY <2>1
        <3>2. [Settle(a, c) EXCEPT !.outcome = "Pending"] = a /\ Settle(a, c).id = a.id
            BY <2>1, <2>2 DEF Settle, AuditRow
        <3> QED BY <2>1, <2>3, <3>1, <3>2
    <2>4. CASE d # a
        BY <2>1, <2>4
    <2> QED BY <2>3, <2>4
<1>2. ASSUME IInv, [Next]_vars, NEW d \in ledger
      PROVE  \E b \in ledger' : Kept(d, b)
    <2>1. CASE ledger \subseteq ledger'
        BY <2>1
    <2>2. CASE \E c \in Calls : pc[c] = "complete" /\ ledger' = Settled(c)
        BY <1>1, <1>2, <2>2
    <2>3. \/ ledger \subseteq ledger'
          \/ \E c \in Calls : pc[c] = "complete" /\ ledger' = Settled(c)
        <3>1. CASE UNCHANGED uiVars
            BY <3>1 DEF uiVars
        <3>2. CASE UINext
            BY <3>2 DEF UINext, CallStep, UIFault, Submit, Authorize, FindTarget, Lookup,
                Insert, TryLock, TryLockFails, Dispatch, DispatchFails, ReceiveReply, GiveUp,
                Release, Complete, InsertFails, CompleteFails, Crash, SessionEnds
        <3> QED BY <1>2, <3>1, <3>2 DEF Next, vars
    <2> QED BY <2>1, <2>2, <2>3
<1>3. IInv /\ [Next]_vars => [\A a \in ledger : \E b \in ledger' : Kept(a, b)]_vars
    BY <1>2
<1> QED BY <1>3, Invariant, PTL DEF Spec, OutcomesAreFinal

-----------------------------------------------------------------------------
(* What stays true *)

\* A claim about a call stays true as long as the call starts nothing new.
LEMMA TrueOfStays ==
    ASSUME effects \subseteq effects', NEW c, NEW r, TrueOf(c, r),
           form' = form, id' = id, row'[c] = row[c],
           \A q \in (Abroad \cup Acted)' : q \in Abroad \cup Acted \/ q.call # c
    PROVE  TrueOf(c, r)'
<1>1. AgentRequest(c)' = AgentRequest(c)
    BY DEF AgentRequest
<1>2. Real(AgentRequest(c), r)'
    <2>1. PICK q : q = AgentRequest(c)
        OBVIOUS
    <2>2. Real(q, r)'
        BY <2>1, RealStays DEF TrueOf
    <2> QED BY <1>1, <2>1, <2>2 DEF Real, Performed
<1>3. r \in {"Rejected", "NotDispatched"} => NothingOf(c)'
    BY DEF TrueOf, NothingOf
<1> QED BY <1>2, <1>3 DEF TrueOf

\* A result that claims neither success nor that nothing happened.
LEMMA ModestIsTrue ==
    ASSUME NEW c, NEW r \in {"Failed", "Unknown", "Pending"}
    PROVE  TrueOf(c, r)
BY DEF TrueOf, Real

\* A call that has not dispatched has nothing under way.
LEMMA UndispatchedIsIdle ==
    ASSUME IInv, NEW c \in Calls, pc[c] \notin Dispatched
    PROVE  NothingOf(c) /\ \A q \in sent : q.call # c
BY DEF IInv, RequestsAreOfCalls, NothingUnsent, NothingOf

\* The calls of rows, and those that have a result, have read their target.
LEMMA RowsHaveCalls ==
    ASSUME IInv, NEW a \in ledger
    PROVE  a.call \in Calls /\ pc[a.call] \in Reserved /\ a.id = id[a.call]
BY DEF IInv, UITypeOK, AuditRow, RowsAreOfCalls

\* Agents, hosts and connections make no promise of a call untrue.
LEMMA ToldSurvivesAgents ==
    ASSUME Told, UNCHANGED uiVars, Passes, effects \subseteq effects'
    PROVE  Told'
<1>1. ASSUME NEW c, NEW r, TrueOf(c, r) PROVE TrueOf(c, r)'
    BY <1>1, TrueOfStays DEF uiVars, Passes
<1>2. ResultsAreTrue'
    BY <1>1 DEF Told, ResultsAreTrue, uiVars
<1>3. RowsAreTrue'
    BY <1>1 DEF Told, RowsAreTrue, uiVars
<1>4. AnswersAreRecorded'
    BY DEF Told, AnswersAreRecorded, uiVars
<1> QED BY <1>2, <1>3, <1>4 DEF Told

-----------------------------------------------------------------------------
(* Steps of a call *)

\* Agents stand still, and what is under way stays what it is.
LEMMA HostsStandStill ==
    ASSUME UNCHANGED agentVars, inbox' = inbox
    PROVE  effects' = effects /\ (Abroad \cup Acted)' = Abroad \cup Acted
BY DEF agentVars, Abroad, Executing, Waiting, Acted

\* A call moves on with a true result, or with an answer that is on record.
LEMMA CallTellsTruth ==
    ASSUME IInv, Told, UNCHANGED agentVars, UNCHANGED <<inbox, form, id, ledger>>,
           NEW c \in Calls, NEW place, Goto(c, place),
           \A d \in Calls \ {c} : row'[d] = row[d] /\ result'[d] = result[d],
           row' = row \/ (pc[c] = "find" /\ place \in {"reserve", "refused"}),
           NEW r, result'[c] = r,
           place \in {"release", "complete"} => TrueOf(c, r),
           place \in {"answered", "replayed"} /\ r # "Unknown" =>
               \E a \in ledger : a.id = id[c] /\ a.outcome = r
    PROVE  Told'
<1>1. \A d \in Calls : pc'[d] = IF d = c THEN place ELSE pc[d]
    BY DEF Goto, IInv, UITypeOK
<1>2. ASSUME NEW d, row'[d] = row[d], NEW s, TrueOf(d, s)
      PROVE  TrueOf(d, s)'
    BY <1>2, HostsStandStill, TrueOfStays
<1>3. ASSUME NEW d \in Calls, pc'[d] \in {"release", "complete"}
      PROVE  TrueOf(d, result[d])'
    <2>1. PICK s : s = result'[d]
        OBVIOUS
    <2>2. TrueOf(d, s) /\ row'[d] = row[d]
        BY <1>1, <1>3, <2>1 DEF Told, ResultsAreTrue
    <2>3. TrueOf(d, s)'
        BY <1>2, <2>2
    <2> QED BY <2>1, <2>3 DEF TrueOf, Real
<1>4. ASSUME NEW a \in ledger
      PROVE  TrueOf(a.call, a.outcome)'
    <2>1. a.call \in Calls /\ pc[a.call] \in Reserved
        BY RowsHaveCalls
    <2>2. row'[a.call] = row[a.call]
        BY <2>1 DEF Reserved, Owning
    <2> QED BY <1>2, <2>2 DEF Told, RowsAreTrue
<1>5. AnswersAreRecorded'
    BY <1>1 DEF Told, AnswersAreRecorded
<1> QED BY <1>3, <1>4, <1>5 DEF Told, ResultsAreTrue, RowsAreTrue

\* What a call makes of a reply claims no more than the reply.
LEMMA ReplyIsUnderstood ==
    ASSUME IInv, AgentTruth, NEW c \in Calls, NEW p \in outbox, p.call = c,
           NEW r \in {ClientResult(p), ByStatus(p.status)}
    PROVE  TrueOf(c, r)
<1>1. PICK q \in sent : /\ q.call = c
                        /\ Real(q, p.result)
                        /\ p.status \in Refusals => q \notin Abroad \cup Acted
    BY DEF AgentTruth, RepliesAreTrue, TrueReply
<1>2. p.result \in AgentResults
    BY DEF AgentTruth, RepliesAreTrue, TrueReply
<1>3. q = AgentRequest(c)
    BY <1>1 DEF IInv, RequestsAreOfCalls
<1>4. \/ r = p.result
      \/ r = "Rejected" /\ p.status \in Refusals
      \/ r = "Unknown"
    BY DEF ClientResult, ByStatus, Refusals
<1>5. CASE r = p.result
    BY <1>1, <1>2, <1>3, <1>5 DEF TrueOf, AgentResults
<1>6. CASE r = "Rejected" /\ p.status \in Refusals
    <2>1. NothingOf(c)
        BY <1>1, <1>6 DEF NothingOf, AgentTruth, NothingUnsent, OneRequestPerCall
    <2> QED BY <1>6, <2>1 DEF TrueOf, Real
<1>7. CASE r = "Unknown"
    BY <1>7, ModestIsTrue
<1> QED BY <1>4, <1>5, <1>6, <1>7

\* A replay states the outcome of a row with the same request id.
LEMMA ReplayIsRecorded ==
    ASSUME NEW c \in Calls, NEW a \in Recorded(id[c]), Previous(c, a),
           result \in [Calls -> Result]
    PROVE  /\ \A d \in Calls \ {c} : result'[d] = result[d]
           /\ \E place \in {"replayed", "refused"} :
                  /\ Goto(c, place)
                  /\ place = "replayed" /\ result'[c] # "Unknown" =>
                         \E b \in ledger : b.id = id[c] /\ b.outcome = result'[c]
<1>1. a \in ledger /\ a.id = id[c]
    BY DEF Recorded
<1>2. Replay(a) = "Unknown" \/ Replay(a) = a.outcome
    BY DEF Replay, Unset
<1> QED BY <1>1, <1>2 DEF Previous, Set

LEMMA MovesTell ==
    ASSUME IInv, AgentTruth, Told, UNCHANGED agentVars, NEW c \in Calls,
           \/ Submit(c) \/ Authorize(c) \/ FindTarget(c) \/ Lookup(c) \/ TryLock(c)
           \/ TryLockFails(c) \/ DispatchFails(c) \/ GiveUp(c) \/ Release(c) \/ Crash(c)
           \/ \E p \in outbox : ReceiveReply(c, p)
    PROVE  Told'
<1> USE DEF channelVars
<1> result \in [Calls -> Result]
    BY DEF IInv, UITypeOK
<1>1. ASSUME NEW r, Set(c, r)
      PROVE  result'[c] = r /\ \A d \in Calls \ {c} : result'[d] = result[d]
    BY <1>1 DEF Set
<1>2. CASE Submit(c) \/ Authorize(c) \/ Crash(c)
    BY <1>1, <1>2, CallTellsTruth DEF Submit, Authorize, Crash
<1>3. CASE FindTarget(c)
    <2>1. row \in [Calls -> Row]
        BY DEF IInv, UITypeOK
    <2>2. /\ \A d \in Calls \ {c} : row'[d] = row[d] /\ result'[d] = result[d]
          /\ \E place \in {"reserve", "refused"} : Goto(c, place)
        BY <1>3, <2>1 DEF FindTarget
    <2> QED BY <1>3, <2>2, CallTellsTruth DEF FindTarget
<1>4. CASE Lookup(c)
    <2>1. CASE \E a \in Recorded(id[c]) : Previous(c, a)
        BY <1>4, <2>1, ReplayIsRecorded, CallTellsTruth DEF Lookup
    <2>2. CASE Goto(c, "insert") /\ UNCHANGED result
        BY <1>4, <2>2, CallTellsTruth DEF Lookup
    <2> QED BY <1>4, <2>1, <2>2 DEF Lookup
<1>5. CASE TryLock(c) \/ TryLockFails(c)
    <2>1. NothingOf(c)
        BY <1>5, UndispatchedIsIdle DEF TryLock, TryLockFails, Dispatched
    <2>2. TrueOf(c, "Rejected") /\ TrueOf(c, "NotDispatched")
        BY <2>1 DEF TrueOf, Real
    <2>3. UNCHANGED <<inbox, form, id, ledger, row>>
        BY <1>5 DEF TryLock, TryLockFails
    <2>4. CASE Goto(c, "send") /\ UNCHANGED result
        BY <2>3, <2>4, CallTellsTruth
    <2>5. ASSUME NEW r \in {"Rejected", "NotDispatched"}, Goto(c, "complete"), Set(c, r)
          PROVE  Told'
        BY <1>1, <2>2, <2>3, <2>5, CallTellsTruth
    <2> QED BY <1>5, <2>4, <2>5 DEF TryLock, TryLockFails, Interrupted
<1>6. CASE DispatchFails(c) \/ GiveUp(c)
    BY <1>1, <1>6, ModestIsTrue, CallTellsTruth DEF DispatchFails, GiveUp, Interrupted
<1>7. CASE Release(c)
    <2>1. TrueOf(c, result[c])
        BY <1>7 DEF Release, Told, ResultsAreTrue
    <2> QED BY <1>7, <2>1, CallTellsTruth DEF Release
<1>8. ASSUME NEW p \in outbox, ReceiveReply(c, p)
      PROVE  Told'
    <2>1. PICK r \in {ClientResult(p), ByStatus(p.status)} : Set(c, r)
        BY <1>8 DEF ReceiveReply
    <2>2. TrueOf(c, r)
        BY <1>8, ReplyIsUnderstood DEF ReceiveReply
    <2>3. /\ Goto(c, "release")
          /\ UNCHANGED <<inbox, form, id, ledger, row>>
        BY <1>8 DEF ReceiveReply
    <2>4. result'[c] = r /\ \A d \in Calls \ {c} : result'[d] = result[d]
        BY <1>1, <2>1
    <2> QED BY <2>2, <2>3, <2>4, CallTellsTruth
<1> QED BY <1>2, <1>3, <1>4, <1>5, <1>6, <1>7, <1>8

\* A new row claims nothing.
LEMMA NewRowTells ==
    ASSUME IInv, Told, UNCHANGED agentVars, NEW c \in Calls,
           NEW place \in {"lock", "refused"}, Goto(c, place),
           ledger' = ledger \cup {NewRow(c)},
           UNCHANGED <<channelVars, form, id, row, result>>
    PROVE  Told'
<1> USE DEF channelVars
<1>1. \A d \in Calls : pc'[d] = IF d = c THEN place ELSE pc[d]
    BY DEF Goto, IInv, UITypeOK
<1>2. ASSUME NEW d, NEW r, TrueOf(d, r)
      PROVE  TrueOf(d, r)'
    BY <1>2, HostsStandStill, TrueOfStays
<1>3. TrueOf(c, "Pending")
    BY ModestIsTrue
<1>4. NewRow(c).call = c /\ NewRow(c).outcome = "Pending"
    BY DEF NewRow
<1>5. ResultsAreTrue'
    BY <1>1, <1>2 DEF Told, ResultsAreTrue
<1>6. RowsAreTrue'
    BY <1>2, <1>3, <1>4 DEF Told, RowsAreTrue
<1>7. AnswersAreRecorded'
    BY <1>1 DEF Told, AnswersAreRecorded
<1> QED BY <1>5, <1>6, <1>7 DEF Told

LEMMA InsertTells ==
    ASSUME IInv, Told, UNCHANGED agentVars, NEW c \in Calls, Insert(c) \/ InsertFails(c)
    PROVE  Told'
<1> USE DEF Insert, InsertFails, channelVars
<1> result \in [Calls -> Result]
    BY DEF IInv, UITypeOK
<1>1. CASE IndexAllows(c) /\ ledger' = ledger \cup {NewRow(c)} /\ UNCHANGED result
    <2>1. \E place \in {"lock", "refused"} : Goto(c, place)
        <3>1. CASE Insert(c)
            BY <1>1, <3>1 DEF IndexAllows
        <3>2. CASE InsertFails(c)
            BY <3>2
        <3> QED BY <3>1, <3>2
    <2> QED BY <1>1, <2>1, NewRowTells
<1>2. CASE Insert(c) /\ ledger' = ledger /\ \E a \in Recorded(id[c]) : Previous(c, a)
    BY <1>2, ReplayIsRecorded, CallTellsTruth
<1>3. CASE InsertFails(c) /\ ledger' = ledger
    BY <1>3, CallTellsTruth
<1> QED BY <1>1, <1>2, <1>3

\* A call dispatches: its row claims nothing yet, and so does the call.
LEMMA DispatchTells ==
    ASSUME IInv, Told, UNCHANGED agentVars, NEW c \in Calls, Dispatch(c)
    PROVE  Told'
<1>1. /\ inbox' = inbox \cup {AgentRequest(c)} /\ pc[c] = "send"
      /\ Goto(c, "await") /\ UNCHANGED <<form, id, row, result, ledger>>
    BY DEF Dispatch, Send
<1>2. \A d \in Calls : pc'[d] = IF d = c THEN "await" ELSE pc[d]
    BY <1>1 DEF Goto, IInv, UITypeOK
<1>3. ASSUME NEW d, d # c, NEW r, TrueOf(d, r)
      PROVE  TrueOf(d, r)'
    <2>1. AgentRequest(c).call = c
        BY DEF AgentRequest
    <2>2. effects' = effects
          /\ (Abroad \cup Acted)' = Abroad \cup Acted \cup {AgentRequest(c)}
        BY <1>1 DEF agentVars, Abroad, Executing, Waiting, Acted
    <2>3. \A q \in (Abroad \cup Acted)' : q \in Abroad \cup Acted \/ q.call # d
        BY <1>3, <2>1, <2>2
    <2> QED BY <1>1, <1>3, <2>2, <2>3, TrueOfStays
<1>4. ASSUME NEW a \in ledger, a.call = c
      PROVE  a.outcome = "Pending"
    BY <1>1, <1>4, RowsHaveCalls DEF IInv, OwnersHaveRows, OneRowPerId, Owning
<1>5. ASSUME NEW a \in ledger
      PROVE  TrueOf(a.call, a.outcome)'
    <2>1. CASE a.call = c
        <3>1. a.outcome = "Pending"
            BY <1>4, <2>1
        <3> QED BY <3>1 DEF TrueOf, Real
    <2>2. CASE a.call # c
        BY <1>3, <2>2 DEF Told, RowsAreTrue
    <2> QED BY <2>1, <2>2
<1>6. RowsAreTrue'
    BY <1>1, <1>5 DEF RowsAreTrue
<1>7. ResultsAreTrue' /\ AnswersAreRecorded'
    BY <1>1, <1>2, <1>3 DEF Told, ResultsAreTrue, AnswersAreRecorded
<1> QED BY <1>6, <1>7 DEF Told

\* The outcome is recorded, and then it may be answered.
LEMMA SettledTells ==
    ASSUME IInv, Told, UNCHANGED agentVars, NEW c \in Calls, pc[c] = "complete",
           NEW place \in {"answered", "refused"}, Goto(c, place), ledger' = Settled(c),
           UNCHANGED <<channelVars, form, id, row>>,
           place = "answered" => result' = result,
           \A d \in Calls \ {c} : result'[d] = result[d]
    PROVE  Told'
<1> USE DEF channelVars
<1>1. PICK a \in ledger : /\ a.call = c /\ a.outcome = "Pending"
                          /\ ledger' = (ledger \ {a}) \cup {Settle(a, c)}
    BY CompletesItsOwnRow
<1>2. PICK b : b = Settle(a, c)
    OBVIOUS
<1>3. /\ a \in AuditRow /\ a.id = id[c]
      /\ b.call = c /\ b.id = id[c] /\ b.outcome = result[c]
      /\ ledger' = (ledger \ {a}) \cup {b}
    <2>1. a \in AuditRow /\ a.id = id[c]
        BY <1>1, RowsHaveCalls DEF IInv, UITypeOK
    <2>2. b = [id |-> a.id, call |-> a.call, actor |-> a.actor, module |-> a.module,
               operation |-> a.operation, host |-> a.host, outcome |-> result[c]]
        BY <1>2, <2>1, SettleKeepsRow DEF IInv
    <2> QED BY <1>1, <1>2, <2>1, <2>2
<1>4. \A d \in Calls : pc'[d] = IF d = c THEN place ELSE pc[d]
    BY DEF Goto, IInv, UITypeOK
<1>5. ASSUME NEW d, NEW r, TrueOf(d, r)
      PROVE  TrueOf(d, r)'
    BY <1>5, HostsStandStill, TrueOfStays
<1>6. ResultsAreTrue'
    <2>1. ASSUME NEW d \in Calls, pc'[d] \in {"release", "complete"}
          PROVE  TrueOf(d, result[d])'
        <3>1. PICK r : r = result'[d]
            OBVIOUS
        <3>2. TrueOf(d, r)'
            BY <1>4, <1>5, <2>1, <3>1 DEF Told, ResultsAreTrue
        <3> QED BY <3>1, <3>2 DEF TrueOf, Real
    <2> QED BY <2>1 DEF ResultsAreTrue
<1>7. RowsAreTrue'
    <2>1. TrueOf(c, result[c])
        BY DEF Told, ResultsAreTrue
    <2>2. TrueOf(b.call, b.outcome)'
        BY <1>3, <1>5, <2>1
    <2> QED BY <1>3, <1>5, <2>2 DEF Told, RowsAreTrue
<1>8. AnswersAreRecorded'
    <2>1. result[c] \in Result /\ "Pending" \notin Result /\ a.outcome = "Pending"
        BY <1>1 DEF IInv, UITypeOK, Result
    <2>2. ASSUME NEW d \in Calls, d # c, pc'[d] \in {"answered", "replayed"},
                 result'[d] # "Unknown"
          PROVE  \E e \in ledger' : e.id = id[d] /\ e.outcome = result'[d]
        <3>1. PICK e \in ledger : e.id = id[d] /\ e.outcome = result[d]
            BY <1>4, <2>2 DEF Told, AnswersAreRecorded
        <3>2. e # a
            BY <2>1, <3>1 DEF IInv, UITypeOK
        <3> QED BY <1>3, <2>2, <3>1, <3>2
    <2> QED BY <1>3, <1>4, <2>2 DEF AnswersAreRecorded
<1> QED BY <1>6, <1>7, <1>8 DEF Told

LEMMA CompleteTells ==
    ASSUME IInv, Told, UNCHANGED agentVars, NEW c \in Calls, Complete(c) \/ CompleteFails(c)
    PROVE  Told'
<1> USE DEF channelVars
<1> result \in [Calls -> Result]
    BY DEF IInv, UITypeOK
<1>1. CASE Complete(c)
    BY <1>1, SettledTells DEF Complete
<1>2. CASE CompleteFails(c) /\ ledger' = Settled(c)
    BY <1>2, SettledTells DEF CompleteFails, Set
<1>3. CASE CompleteFails(c) /\ ledger' = ledger
    BY <1>3, CallTellsTruth DEF CompleteFails, Set
<1> QED BY <1>1, <1>2, <1>3 DEF CompleteFails

-----------------------------------------------------------------------------
(* The invariant *)

LEMMA TruthInit == ASSUME Init PROVE TruthInv
<1>1. IInv /\ AgentTruth
    BY InitHolds, TruthStarts DEF Init
<1>2. Told
    BY DEF Init, UIInit, Told, ResultsAreTrue, RowsAreTrue, AnswersAreRecorded
<1> QED BY <1>1, <1>2 DEF TruthInv

LEMMA UITells ==
    ASSUME TruthInv, UINext, UNCHANGED agentVars
    PROVE  AgentTruth' /\ Told'
<1> USE DEF TruthInv
<1>1. ASSUME NEW l \in locks, SessionEnds(l)
      PROVE  AgentTruth' /\ Told'
    <2>1. AgentTruth'
        BY <1>1, LossKeepsTruth DEF SessionEnds, channelVars
    <2>2. \A c, r : TrueOf(c, r) => TrueOf(c, r)'
        BY <1>1, HostsStandStill, TrueOfStays DEF SessionEnds, channelVars
    <2>3. Told'
        BY <1>1, <2>2
        DEF SessionEnds, Told, ResultsAreTrue, RowsAreTrue, AnswersAreRecorded
    <2> QED BY <2>1, <2>3
<1>2. ASSUME NEW c \in Calls, Dispatch(c)
      PROVE  AgentTruth' /\ Told'
    <2>1. AgentRequest(c).call = c /\ \A q \in sent : q.call # c
        BY <1>2, UndispatchedIsIdle DEF AgentRequest, Dispatch, Dispatched
    <2>2. AgentTruth'
        BY <1>2, <2>1, SendKeepsTruth DEF Dispatch
    <2> QED BY <1>2, <2>2, DispatchTells
<1>3. ASSUME NEW c \in Calls, Submit(c) \/ CallStep(c) \/ UIFault(c), ~Dispatch(c)
      PROVE  AgentTruth' /\ Told'
    <2>1. inbox' = inbox /\ sent' = sent /\ outbox' \subseteq outbox
        BY <1>3 DEF CallStep, UIFault, channelVars, Submit, Authorize, FindTarget, Lookup,
            Insert, TryLock, TryLockFails, DispatchFails, ReceiveReply, GiveUp,
            Release, Complete, InsertFails, CompleteFails, Crash
    <2>2. AgentTruth'
        BY <2>1, LossKeepsTruth
    <2>3. Told'
        BY <1>3, MovesTell, InsertTells, CompleteTells DEF CallStep, UIFault
    <2> QED BY <2>2, <2>3
<1> QED BY <1>1, <1>2, <1>3 DEF UINext, CallStep

LEMMA TruthNext == ASSUME TruthInv, Next PROVE TruthInv'
<1>1. IInv'
    BY NextHolds DEF TruthInv
<1>2. CASE UINext /\ UNCHANGED agentVars
    BY <1>1, <1>2, UITells DEF TruthInv
<1>3. CASE AgentNext /\ UNCHANGED uiVars
    BY <1>1, <1>3, AgentIsTrue, AgentKeeps, EffectsStay, ToldSurvivesAgents
    DEF TruthInv, IInv
<1>4. CASE ChannelNext /\ UNCHANGED uiVars
    <2>1. effects \subseteq effects'
        BY <1>4 DEF ChannelNext, agentVars
    <2> QED BY <1>1, <1>4, <2>1, ChannelIsTrue, ChannelKeeps, ToldSurvivesAgents
            DEF TruthInv, IInv
<1> QED BY <1>2, <1>3, <1>4 DEF Next

\* The inductive invariant behind every claim the UI records or answers.
THEOREM TruthInvariant == Spec => []TruthInv
<1>1. ASSUME TruthInv, UNCHANGED vars
      PROVE  TruthInv'
    <2>1. IInv'
        BY <1>1, StutterHolds DEF TruthInv
    <2>2. AgentTruth'
        BY <1>1, LossKeepsTruth DEF TruthInv, vars, channelVars
    <2>3. Passes /\ effects' = effects
        BY <1>1 DEF vars, channelVars, agentVars, Passes, Abroad, Executing, Waiting, Acted
    <2>4. Told'
        BY <1>1, <2>3, ToldSurvivesAgents DEF TruthInv, vars
    <2> QED BY <2>1, <2>2, <2>4 DEF TruthInv
<1> QED BY <1>1, TruthInit, TruthNext, PTL DEF Spec

\* What a row stands for: the request of its call.
LEMMA RowsStandForRequests ==
    ASSUME IInv, NEW a \in ledger
    PROVE  /\ AgentRequest(a.call).id = a.id
           /\ AgentRequest(a.call).body.operation = a.operation
           /\ \A q \in sent : q.id = a.id => q.call = a.call
<1>1. a.call \in Calls /\ a.id = id[a.call] /\ a.operation = form[a.call].operation
    BY DEF IInv, UITypeOK, AuditRow, RowsAreOfCalls
<1>2. ASSUME NEW q \in sent, q.id = a.id
      PROVE  q.call = a.call
    <2>1. PICK b \in ledger : b.call = q.call
        BY DEF IInv, RequestsAreOfCalls
    <2>2. b.id = id[q.call] /\ q.id = id[q.call]
        BY <2>1 DEF IInv, RowsAreOfCalls, RequestsAreOfCalls, AgentRequest
    <2>3. a = b
        BY <1>2, <2>2 DEF IInv, OneRowPerId
    <2> QED BY <2>1, <2>3
<1> QED BY <1>1, <1>2 DEF AgentRequest

\* A row that says Succeeded is about host actions that took place.
THEOREM SuccessesAreReal == Spec => []SuccessIsReal
<1>1. ASSUME TruthInv, NEW a \in ledger, a.outcome = "Succeeded"
      PROVE  LET steps == {e.step : e \in {x \in effects : x.request.id = a.id}}
             IN  IF a.operation \in UnitFileVerbs THEN {"change", "reload"} \subseteq steps
                                                  ELSE "control" \in steps
    <2>1. Real(AgentRequest(a.call), "Succeeded")
        BY <1>1 DEF TruthInv, Told, RowsAreTrue, TrueOf
    <2>2. /\ AgentRequest(a.call).id = a.id
          /\ AgentRequest(a.call).body.operation = a.operation
        BY <1>1, RowsStandForRequests DEF TruthInv
    <2>3. PICK q : q = AgentRequest(a.call)
        OBVIOUS
    <2> QED BY <2>1, <2>2, <2>3 DEF Real, Performed
<1>2. TruthInv => SuccessIsReal
    BY <1>1 DEF SuccessIsReal
<1> QED BY <1>2, TruthInvariant, PTL

\* A row that says "rejected" or "not dispatched" is about a request of which
\* nothing has happened and nothing is under way.
THEOREM RetriesAreSafe == Spec => []NotDoneIsReal
<1>1. ASSUME TruthInv, NEW a \in ledger, NotDone(a), NEW q \in Abroad \cup Acted
      PROVE  q.id # a.id
    <2>1. q \in sent /\ q.call # a.call
        BY <1>1 DEF TruthInv, AgentTruth, NothingUnsent, Told, RowsAreTrue, TrueOf, NothingOf,
                    NotDone
    <2> QED BY <1>1, <2>1, RowsStandForRequests DEF TruthInv
<1>2. TruthInv => NotDoneIsReal
    BY <1>1 DEF NotDoneIsReal
<1> QED BY <1>2, TruthInvariant, PTL

\* All who are told an outcome of a request id are told the same one.
THEOREM AnswersNeverDiffer == Spec => []AnswersAgree
<1>1. TruthInv => AnswersAgree
    BY DEF TruthInv, IInv, OneRowPerId, Told, AnswersAreRecorded, AnswersAgree
<1> QED BY <1>1, TruthInvariant, PTL

-----------------------------------------------------------------------------
(* The abstract ledger is implemented *)

\* The same readings as LedgerStatus and LedgerDone, of any set of rows and of
\* any set of host actions, so that both sides of a step can be compared.
RowsOf(rows, i) == {a \in rows : a.id = i}

StatusIn(rows, i) ==
    IF RowsOf(rows, i) = {} THEN "Unused" ELSE Verdict(CHOOSE a \in RowsOf(rows, i) : TRUE)

DoneIn(actions, i) ==
    {<<e.request.call, e.step>> : e \in {x \in actions : x.request.id = i}}

\* A step of the system as the abstract ledger sees it.
LedgerStep == [Ledger!Next]_(Ledger!vars)

LEMMA Readings ==
    /\ LedgerStatus = [i \in RequestIds |-> StatusIn(ledger, i)]
    /\ LedgerStatus' = [i \in RequestIds |-> StatusIn(ledger', i)]
    /\ LedgerDone = [i \in RequestIds |-> DoneIn(effects, i)]
    /\ LedgerDone' = [i \in RequestIds |-> DoneIn(effects', i)]
BY DEF LedgerStatus, LedgerDone, StatusIn, RowsOf, DoneIn, Recorded, Verdict, NotDone

\* The status of a request id is the verdict of its row.
LEMMA StatusOfRow ==
    ASSUME NEW rows, \A a, b \in rows : a.id = b.id => a = b, NEW a \in rows
    PROVE  StatusIn(rows, a.id) = Verdict(a)
<1>1. RowsOf(rows, a.id) = {a}
    BY DEF RowsOf
<1>2. (CHOOSE b \in RowsOf(rows, a.id) : TRUE) = a
    BY <1>1
<1> QED BY <1>1, <1>2 DEF StatusIn

\* Rows of other request ids do not matter.
LEMMA StatusOfOthers ==
    ASSUME NEW rows, NEW more, NEW i,
           \A a \in rows \cup more : a.id = i => (a \in rows <=> a \in more)
    PROVE  StatusIn(rows, i) = StatusIn(more, i)
<1>1. RowsOf(rows, i) = RowsOf(more, i)
    BY DEF RowsOf
<1> QED BY <1>1 DEF StatusIn

\* One more host action is one more action of its own request id.
LEMMA DoneWithOneMore ==
    ASSUME NEW actions, NEW e, NEW i
    PROVE  DoneIn(actions \cup {e}, i) =
               IF e.request.id = i
               THEN DoneIn(actions, i) \cup {<<e.request.call, e.step>>}
               ELSE DoneIn(actions, i)
<1>1. ASSUME NEW d
      PROVE  d \in DoneIn(actions \cup {e}, i) <=>
                 \/ d \in DoneIn(actions, i)
                 \/ e.request.id = i /\ d = <<e.request.call, e.step>>
    BY DEF DoneIn
<1> QED BY <1>1

\* Whatever may still act does so for a request id.
LEMMA LiveIdsAreIds == ASSUME IInv PROVE LedgerLive \subseteq RequestIds
<1>1. \A q \in Abroad : q.id \in RequestIds
    BY DEF IInv, NothingUnsent, ChannelTypeOK, Request
<1> QED BY <1>1 DEF LedgerLive, IInv, UITypeOK

\* Nothing is recorded and nothing happens, and at most one request id ends.
LEMMA QuietRefines ==
    ASSUME IInv, UNCHANGED <<ledger, effects>>, NEW i,
           LedgerLive' \subseteq LedgerLive, LedgerLive \ {i} \subseteq LedgerLive'
    PROVE  LedgerStep
<1>1. LedgerStatus' = LedgerStatus /\ LedgerDone' = LedgerDone
    BY Readings
<1>2. CASE LedgerLive' = LedgerLive
    BY <1>1, <1>2 DEF LedgerStep, Ledger!vars
<1>3. CASE LedgerLive' # LedgerLive
    <2>1. i \in LedgerLive /\ LedgerLive' = LedgerLive \ {i} /\ i \in RequestIds
        BY <1>3, LiveIdsAreIds
    <2>2. Ledger!Retire(i)
        BY <1>1, <2>1 DEF Ledger!Retire
    <2> QED BY <1>3, <2>1, <2>2 DEF LedgerStep, Ledger!Next, Ledger!vars
<1> QED BY <1>2, <1>3

\* Agents, hosts and connections: an action of a live request, or silence.
LEMMA HostsRefine ==
    ASSUME IInv, UNCHANGED uiVars, NEW q, Moves(q)
    PROVE  LedgerStep
<1>1. /\ LedgerLive' \subseteq LedgerLive
      /\ LedgerLive \ {q.id} \subseteq LedgerLive'
    BY DEF Moves, LedgerLive, uiVars
<1>2. CASE effects' = effects
    BY <1>1, <1>2, QuietRefines DEF uiVars
<1>3. ASSUME q \in Abroad, NEW step \in Steps \ Done(q),
             effects' = effects \cup {[request |-> q, step |-> step]}
      PROVE  LedgerStep
    <2>1. q \in sent /\ q.id \in RequestIds /\ q.call \in Calls /\ q.id \in LedgerLive
        BY <1>3 DEF IInv, NothingUnsent, ChannelTypeOK, Request, LedgerLive
    <2>2. LedgerStatus' = LedgerStatus
        BY Readings DEF uiVars
    <2>3. LedgerDone' = [LedgerDone EXCEPT ![q.id] = LedgerDone[q.id] \cup {<<q.call, step>>}]
        <3>1. \A i \in RequestIds :
                  LedgerDone'[i] = IF q.id = i THEN LedgerDone[i] \cup {<<q.call, step>>}
                                               ELSE LedgerDone[i]
            <4>1. \A i \in RequestIds : LedgerDone'[i] = DoneIn(effects', i)
                BY Readings
            <4>2. \A i \in RequestIds : LedgerDone[i] = DoneIn(effects, i)
                BY Readings
            <4>3. PICK e : e = [request |-> q, step |-> step]
                OBVIOUS
            <4>4. e.request = q /\ e.step = step /\ effects' = effects \cup {e}
                BY <1>3, <4>3
            <4>5. \A i \in RequestIds :
                      DoneIn(effects \cup {e}, i) =
                          IF e.request.id = i
                          THEN DoneIn(effects, i) \cup {<<e.request.call, e.step>>}
                          ELSE DoneIn(effects, i)
                BY DoneWithOneMore
            <4> QED BY <4>1, <4>2, <4>4, <4>5
        <3>2. /\ LedgerDone = [i \in RequestIds |-> LedgerDone[i]]
              /\ LedgerDone' = [i \in RequestIds |-> LedgerDone'[i]]
            BY Readings
        <3> QED BY <2>1, <3>1, <3>2
    <2>4. \A d \in LedgerDone[q.id] : d[2] # step
        <3>1. ASSUME NEW e \in effects, e.request.id = q.id
              PROVE  e.step # step
            <4>1. e.request \in sent
                BY DEF IInv, NothingUnsent, Acted
            <4>2. e.request = q
                BY <2>1, <3>1, <4>1, IdsAreOfRequests DEF NeverRedispatched
            <4> QED BY <1>3, <4>2 DEF Done
        <3> QED BY <2>1, <3>1, Readings DEF DoneIn
    <2>5. LedgerLive' \in {LedgerLive, LedgerLive \ {q.id}}
        BY <1>1
    <2>6. Ledger!Act(q.id, q.call, step)
        BY <2>1, <2>2, <2>3, <2>4, <2>5 DEF Ledger!Act
    <2> QED BY <2>1, <2>6 DEF LedgerStep, Ledger!Next, Ledger!vars
<1> QED BY <1>2, <1>3 DEF Moves

\* What keeps a request id live on the side of the UI.
LEMMA CallsKeepLive ==
    ASSUME IInv, NEW c \in Calls, NEW place, Goto(c, place), UNCHANGED <<id, agentVars>>,
           inbox' = inbox
    PROVE  /\ place \notin {"lock", "send"} \/ pc[c] \in {"lock", "send"} =>
                  LedgerLive' \subseteq LedgerLive
           /\ place \in {"lock", "send"} \/ pc[c] \notin {"lock", "send"} =>
                  LedgerLive \subseteq LedgerLive'
           /\ LedgerLive \ {id[c]} \subseteq LedgerLive'
           /\ LedgerLive' \subseteq LedgerLive \cup {id[c]}
<1>1. Abroad' = Abroad
    BY DEF agentVars, Abroad, Executing, Waiting
<1>2. \A d \in Calls : pc'[d] = IF d = c THEN place ELSE pc[d]
    BY DEF Goto, IInv, UITypeOK
<1> QED BY <1>1, <1>2 DEF LedgerLive

\* A call that records nothing and sends nothing.
LEMMA CallRefines ==
    ASSUME IInv, NEW c \in Calls, NEW place, Goto(c, place),
           UNCHANGED <<id, ledger, agentVars>>, inbox' = inbox,
           place \in {"lock", "send"} => pc[c] \in {"lock", "send"}
    PROVE  LedgerStep
<1>1. LedgerLive' \subseteq LedgerLive /\ LedgerLive \ {id[c]} \subseteq LedgerLive'
    BY CallsKeepLive
<1> QED BY <1>1, QuietRefines DEF agentVars

\* A call dispatches: the request keeps its id live from now on.
LEMMA DispatchRefines ==
    ASSUME IInv, UNCHANGED agentVars, NEW c \in Calls, Dispatch(c)
    PROVE  LedgerStep
<1>1. PICK q : q = AgentRequest(c)
    OBVIOUS
<1>2. q.id = id[c]
    BY <1>1 DEF AgentRequest
<1>3. pc[c] = "send" /\ inbox' = inbox \cup {q} /\ Goto(c, "await") /\ UNCHANGED <<id, ledger>>
    BY <1>1 DEF Dispatch, Send
<1>4. Abroad' = Abroad \cup {q}
    BY <1>3 DEF agentVars, Abroad, Executing, Waiting
<1>5. \A d \in Calls : pc'[d] = IF d = c THEN "await" ELSE pc[d]
    BY <1>3 DEF Goto, IInv, UITypeOK
<1>6. LedgerLive' = LedgerLive
    BY <1>2, <1>3, <1>4, <1>5 DEF LedgerLive
<1> QED BY <1>3, <1>6, QuietRefines DEF agentVars

\* A row is inserted: its request id is accepted.
LEMMA NewRowRefines ==
    ASSUME IInv, UNCHANGED agentVars, NEW c \in Calls, IndexAllows(c), pc[c] = "insert",
           NEW place \in {"lock", "refused"}, Goto(c, place),
           ledger' = ledger \cup {NewRow(c)}, UNCHANGED id, inbox' = inbox
    PROVE  LedgerStep
<1> DEFINE i == id[c]
<1>1. i \in RequestIds
    BY DEF IInv, UITypeOK
<1>2. PICK a : a = NewRow(c)
    OBVIOUS
<1>3. a.id = i /\ a.outcome = "Pending" /\ ledger' = ledger \cup {a}
    BY <1>2 DEF NewRow
<1>4. RowsOf(ledger, i) = {} /\ RowsOf(ledger', i) = {a}
    BY <1>3 DEF RowsOf, IndexAllows, Recorded
<1>5. StatusIn(ledger, i) = "Unused" /\ StatusIn(ledger', i) = "Pending"
    <2>1. (CHOOSE b \in {a} : TRUE) = a /\ {a} # {}
        OBVIOUS
    <2>2. Verdict(a) = "Pending"
        BY <1>3 DEF Verdict, NotDone
    <2>3. StatusIn(ledger, i) = "Unused"
        BY <1>4 DEF StatusIn
    <2>4. StatusIn(ledger', i) = Verdict(a)
        BY <1>4, <2>1 DEF StatusIn
    <2> QED BY <2>2, <2>3, <2>4
<1>6. \A j \in RequestIds \ {i} : StatusIn(ledger', j) = StatusIn(ledger, j)
    BY <1>3, StatusOfOthers
<1>7. /\ LedgerStatus' = [LedgerStatus EXCEPT ![i] = "Pending"]
      /\ LedgerStatus[i] = "Unused" /\ LedgerStatus'[i] = "Pending"
    BY <1>1, <1>5, <1>6, Readings
<1>8. LedgerDone' = LedgerDone
    BY Readings DEF agentVars
<1>9. LedgerLive' \in {LedgerLive, LedgerLive \cup {i}}
    BY CallsKeepLive
<1>10. Ledger!Accept(i)
    BY <1>7, <1>8, <1>9 DEF Ledger!Accept
<1>11. LedgerStatus' # LedgerStatus
    BY <1>7
<1> QED BY <1>1, <1>10, <1>11 DEF LedgerStep, Ledger!Next, Ledger!vars

\* Nothing acts for a request id once its call, past the dispatch, has none of
\* its requests left.
LEMMA NothingLeft ==
    ASSUME IInv, NEW a \in ledger, pc[a.call] = "complete", NothingOf(a.call)
    PROVE  a.id \notin LedgerLive /\ DoneIn(effects, a.id) = {}
<1>1. \A q \in Abroad \cup Acted : q.id # a.id
    <2>1. ASSUME NEW q \in Abroad \cup Acted, q.id = a.id
          PROVE  FALSE
        <3>1. q \in sent
            BY <2>1 DEF IInv, NothingUnsent
        <3>2. q.call = a.call
            BY <2>1, <3>1, RowsStandForRequests
        <3> QED BY <2>1, <3>2 DEF NothingOf
    <2> QED BY <2>1
<1>2. ASSUME NEW d \in Calls, pc[d] \in {"lock", "send"}
      PROVE  id[d] # a.id
    <2>1. PICK b \in ledger : b.call = d
        BY <1>2 DEF IInv, OwnersHaveRows, Owning
    <2>2. b.id = id[d]
        BY <2>1, RowsHaveCalls
    <2> QED BY <1>2, <2>1, <2>2 DEF IInv, OneRowPerId
<1> QED BY <1>1, <1>2 DEF LedgerLive, DoneIn, Acted

\* An outcome that is true is a verdict that is truthful.
LEMMA TrueIsTruthful ==
    ASSUME IInv, NEW a \in ledger, pc[a.call] = "complete",
           NEW r \in Result, TrueOf(a.call, r), NEW b, b.outcome = r
    PROVE  Verdict(b) \in Ledger!Verdicts /\ Ledger!Truthful(a.id, Verdict(b))
<1>1. a.id \in RequestIds
    BY DEF IInv, UITypeOK, AuditRow
<1>2. PICK q : q = AgentRequest(a.call)
    OBVIOUS
<1>3. q.id = a.id /\ Real(q, r)
    BY <1>2, RowsStandForRequests DEF TrueOf
<1>4. ASSUME NEW step, Performed(q, step)
      PROVE  Ledger!Took(a.id, step)
    <2>1. PICK e \in effects : e.request.id = a.id /\ e.step = step
        BY <1>3, <1>4 DEF Performed
    <2>2. <<e.request.call, step>> \in LedgerDone[a.id]
        BY <1>1, <2>1, Readings DEF DoneIn
    <2> QED BY <2>2 DEF Ledger!Took
<1>5. CASE r = "Succeeded"
    BY <1>3, <1>4, <1>5 DEF Real, Verdict, NotDone, Ledger!Verdicts, Ledger!Truthful
<1>6. CASE r = "PartiallyCompleted"
    BY <1>3, <1>4, <1>6 DEF Real, Verdict, NotDone, Ledger!Verdicts, Ledger!Truthful
<1>7. CASE r \in {"Rejected", "NotDispatched"}
    <2>1. a.id \notin LedgerLive /\ LedgerDone[a.id] = {}
        BY <1>1, <1>7, NothingLeft, Readings DEF TrueOf
    <2>2. Verdict(b) = "NotDone"
        BY <1>7 DEF Verdict, NotDone
    <2> QED BY <2>1, <2>2 DEF Ledger!Verdicts, Ledger!Truthful
<1>8. CASE r \in {"Failed", "Unknown"}
    <2>1. Verdict(b) = "Unclear"
        BY <1>8 DEF Verdict, NotDone
    <2> QED BY <2>1 DEF Ledger!Verdicts, Ledger!Truthful
<1> QED BY <1>5, <1>6, <1>7, <1>8 DEF Result

\* An outcome is recorded: the request id gets its verdict.
LEMMA SettledRefines ==
    ASSUME IInv, Told, UNCHANGED agentVars, NEW c \in Calls, pc[c] = "complete",
           NEW place \in {"answered", "refused"}, Goto(c, place), ledger' = Settled(c),
           UNCHANGED id, inbox' = inbox
    PROVE  LedgerStep
<1>1. PICK a \in ledger : /\ a.call = c /\ a.outcome = "Pending"
                          /\ ledger' = (ledger \ {a}) \cup {Settle(a, c)}
    BY CompletesItsOwnRow
<1>2. PICK b : b = Settle(a, c)
    OBVIOUS
<1>3. a \in AuditRow /\ a.id \in RequestIds
    BY <1>1 DEF IInv, UITypeOK, AuditRow
<1>4. b.id = a.id /\ b.outcome = result[c] /\ ledger' = (ledger \ {a}) \cup {b}
    <2>1. b = [id |-> a.id, call |-> a.call, actor |-> a.actor, module |-> a.module,
               operation |-> a.operation, host |-> a.host, outcome |-> result[c]]
        BY <1>2, <1>3, SettleKeepsRow DEF IInv
    <2> QED BY <1>1, <1>2, <2>1
<1> DEFINE i == a.id
<1>5. \A x, y \in ledger : x.id = y.id => x = y
    BY DEF IInv, OneRowPerId
<1>6. StatusIn(ledger, i) = "Pending"
    <2>1. StatusIn(ledger, i) = Verdict(a)
        BY <1>5, StatusOfRow
    <2> QED BY <1>1, <2>1 DEF Verdict, NotDone
<1>7. StatusIn(ledger', i) = Verdict(b)
    <2>1. PICK rows : rows = ledger'
        OBVIOUS
    <2>2. (\A x, y \in rows : x.id = y.id => x = y) /\ b \in rows
        BY <1>4, <1>5, <2>1
    <2> QED BY <1>4, <2>1, <2>2, StatusOfRow
<1>8. \A j \in RequestIds \ {i} : StatusIn(ledger', j) = StatusIn(ledger, j)
    BY <1>4, StatusOfOthers
<1>9. /\ LedgerStatus' = [LedgerStatus EXCEPT ![i] = Verdict(b)]
      /\ LedgerStatus[i] = "Pending" /\ LedgerStatus'[i] = Verdict(b)
    BY <1>3, <1>6, <1>7, <1>8, Readings
<1>10. LedgerDone' = LedgerDone
    BY Readings DEF agentVars
<1>11. LedgerLive' = LedgerLive
    BY CallsKeepLive
<1>12. Verdict(b) \in Ledger!Verdicts /\ Ledger!Truthful(i, Verdict(b))
    <2>1. PICK r \in Result : r = result[c]
        BY DEF IInv, UITypeOK
    <2>2. TrueOf(c, r)
        BY <2>1 DEF Told, ResultsAreTrue
    <2> QED BY <1>1, <1>4, <2>1, <2>2, TrueIsTruthful
<1>13. Ledger!Settle(i, Verdict(b))
    BY <1>9, <1>10, <1>11, <1>12 DEF Ledger!Settle
<1>14. LedgerStatus' # LedgerStatus
    BY <1>9, <1>12 DEF Ledger!Verdicts
<1> QED BY <1>3, <1>12, <1>13, <1>14 DEF LedgerStep, Ledger!Next, Ledger!vars

\* Any step of a call, or the end of a session.
LEMMA UIRefines ==
    ASSUME IInv, Told, UINext, UNCHANGED agentVars
    PROVE  LedgerStep
<1> USE DEF channelVars
<1>1. ASSUME NEW c \in Calls,
             \/ Submit(c) \/ Authorize(c) \/ FindTarget(c) \/ Lookup(c) \/ TryLock(c)
             \/ TryLockFails(c) \/ DispatchFails(c) \/ GiveUp(c) \/ Release(c) \/ Crash(c)
             \/ \E p \in outbox : ReceiveReply(c, p)
      PROVE  LedgerStep
    BY <1>1, CallRefines
    DEF Submit, Authorize, FindTarget, Lookup, Previous, TryLock, TryLockFails,
        DispatchFails, GiveUp, Release, Crash, ReceiveReply
<1>2. ASSUME NEW c \in Calls, Insert(c) \/ InsertFails(c)
      PROVE  LedgerStep
    <2>1. CASE /\ IndexAllows(c) /\ ledger' = ledger \cup {NewRow(c)}
               /\ \E place \in {"lock", "refused"} : Goto(c, place)
        BY <1>2, <2>1, NewRowRefines DEF Insert, InsertFails
    <2>2. CASE /\ ledger' = ledger
               /\ \E place \in {"replayed", "refused"} : Goto(c, place)
        BY <1>2, <2>2, CallRefines DEF Insert, InsertFails
    <2> QED BY <1>2, <2>1, <2>2 DEF Insert, InsertFails, Previous
<1>3. ASSUME NEW c \in Calls, Complete(c) \/ CompleteFails(c)
      PROVE  LedgerStep
    <2>1. /\ pc[c] = "complete" /\ ledger' \in {ledger, Settled(c)}
          /\ \E place \in {"answered", "refused"} : Goto(c, place)
          /\ UNCHANGED id /\ inbox' = inbox
        BY <1>3 DEF Complete, CompleteFails
    <2> QED BY <2>1, SettledRefines, CallRefines
<1>4. ASSUME NEW l \in locks, SessionEnds(l)
      PROVE  LedgerStep
    <2>1. LedgerLive' = LedgerLive
        BY <1>4 DEF SessionEnds, agentVars, LedgerLive, Abroad, Executing, Waiting
    <2> QED BY <1>4, <2>1, QuietRefines DEF SessionEnds, agentVars
<1> QED BY <1>1, <1>2, <1>3, <1>4, DispatchRefines DEF UINext, CallStep, UIFault

\* The system, with its calls, locks, messages, caches and failures, does
\* nothing that the abstract ledger would not do: a request id stands for one
\* attempt, on record before anything happens, whose host actions take place
\* at most once each and whose verdict is truthful and final.
THEOREM LedgerImplemented == Spec => LedgerSpec
<1>1. Init => Ledger!Init
    <2>1. ASSUME Init
          PROVE  Ledger!Init
        <3>1. ledger = {} /\ effects = {} /\ Abroad = {}
            BY <2>1, AgentStarts DEF Init, UIInit, AgentInit
        <3>2. \A i \in RequestIds : StatusIn(ledger, i) = "Unused" /\ DoneIn(effects, i) = {}
            BY <3>1 DEF StatusIn, RowsOf, DoneIn
        <3>3. LedgerLive = {}
            BY <2>1, <3>1 DEF LedgerLive, Init, UIInit
        <3> QED BY <3>2, <3>3, Readings DEF Ledger!Init
    <2> QED BY <2>1
<1>2. TruthInv /\ [Next]_vars => LedgerStep
    <2>1. ASSUME TruthInv, UNCHANGED vars
          PROVE  LedgerStep
        <3>1. LedgerLive' = LedgerLive /\ UNCHANGED <<ledger, effects>>
            BY <2>1 DEF vars, channelVars, uiVars, agentVars, LedgerLive,
                        Abroad, Executing, Waiting
        <3> QED BY <2>1, <3>1, QuietRefines DEF TruthInv
    <2>2. ASSUME TruthInv, AgentNext \/ ChannelNext, UNCHANGED uiVars
          PROVE  LedgerStep
        BY <2>2, AgentMoves, ChannelMoves, HostsRefine DEF TruthInv, IInv
    <2> QED BY <2>1, <2>2, UIRefines DEF TruthInv, Next
<1> QED BY <1>1, <1>2, TruthInvariant, PTL DEF Spec, LedgerSpec, Ledger!Spec, LedgerStep
=============================================================================
