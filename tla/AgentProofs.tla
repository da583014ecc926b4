----------------------------- MODULE AgentProofs -----------------------------
(***************************************************************************)
(* Lemmas about the steps of an agent, for any set of callers.  They keep  *)
(* AgentInv, and they only move requests on - from the connection to an    *)
(* execution, and from there to the host.  And an agent can be believed:   *)
(* AgentTruth is kept by every step of agents, hosts and connections, and  *)
(* by a caller who sends one request per call.  There each lemma is about  *)
(* one way a request moves on: read and answered, read and started, from   *)
(* one await to the next, ended, cut short.                                *)
(***************************************************************************)
EXTENDS AgentTruth, SequenceTheorems, TLAPS

-----------------------------------------------------------------------------
(* Requests move on *)

\* Every request an agent step leaves at large was at large before it.
Passes ==
    /\ sent' = sent
    /\ (Abroad \cup Acted)' \subseteq Abroad \cup Acted

\* Replies to a request are replies (AgentOperations.ExecuteAsync, Program.cs).
LEMMA RepliesAreReplies ==
    ASSUME NEW q \in Request, NEW status \in Statuses, NEW result \in Result
    PROVE  /\ ResultReply(q, status, result) \in Reply
           /\ MessageReply(q, status) \in Reply
           /\ EmptyReply(q, status) \in Reply
BY DEF Request, Reply, BodyForms, ResultReply, MessageReply, EmptyReply,
       DefaultResult, Result

\* Remembering a result gives a cache again, which holds at most Capacity
\* entries if it did before (Operations.cs:111-112).
LEMMA RememberIsBounded ==
    ASSUME NEW slots \in Seq(Entry), NEW entry \in Entry
    PROVE  /\ Remember(slots, entry) \in Seq(Entry)
           /\ Len(slots) <= Capacity => Len(Remember(slots, entry)) <= Capacity
<1>1. CASE Len(slots) < Capacity
    BY <1>1, CapacityAssumption DEF Remember
<1>2. CASE ~(Len(slots) < Capacity)
    <2>1. Remember(slots, entry) = [slots EXCEPT ![1] = entry]
        BY <1>2 DEF Remember
    <2>2. /\ [slots EXCEPT ![1] = entry] \in Seq(Entry)
          /\ Len([slots EXCEPT ![1] = entry]) = Len(slots)
        BY <1>2, ExceptSeq, CapacityAssumption
    <2> QED BY <2>1, <2>2
<1> QED BY <1>1, <1>2

-----------------------------------------------------------------------------
(* Steps that leave the agent's state alone, and steps that end an execution *)

\* Answering a request without taking the gate.
LEMMA AnswerKeeps ==
    ASSUME ChannelTypeOK, AgentInv,
           NEW q \in inbox, NEW reply \in Reply, Answer(q, reply)
    PROVE  ChannelTypeOK' /\ AgentInv' /\ Passes
<1>1. ChannelTypeOK'
    BY DEF ChannelTypeOK, Answer
<1>2. AgentInv'
    BY DEF AgentInv, AgentTypeOK, Serialized, RunsItsOwn, Answer, agentVars
<1>3. Passes
    BY DEF Passes, Answer, agentVars, Abroad, Executing, Waiting, Acted
<1> QED BY <1>1, <1>2, <1>3

\* A step of request q may add what q does to what has happened or may happen.
Touches(q) ==
    /\ effects' \subseteq Effect
    /\ lingering' \subseteq Effect
    /\ \A e \in effects' \cup lingering' : e \in effects \cup lingering \/ e.request = q

LEMMA AttemptTouches ==
    ASSUME AgentTypeOK, NEW q \in Request, NEW step \in Steps, NEW fate \in Fates,
           Attempt(q, step, fate)
    PROVE  Touches(q)
<1> DEFINE e == [request |-> q, step |-> step]
<1>1. e \in Effect /\ e.request = q
    BY DEF Effect
<1>2. /\ effects' = IF fate = "done" THEN effects \cup {e} ELSE effects
      /\ lingering' = IF fate = "open" THEN lingering \cup {e} ELSE lingering
    BY DEF Attempt
<1> QED BY <1>1, <1>2 DEF Touches, AgentTypeOK

\* An execution ends: the gate is free again, and nothing else has started.
LEMMA FinishKeeps ==
    ASSUME ChannelTypeOK, AgentInv,
           NEW a \in Agents, NEW x \in running[a], NEW reply \in Reply,
           Finish(x, reply), Touches(x.request),
           completed' \in [Agents -> Seq(Entry)]
    PROVE  ChannelTypeOK' /\ AgentInv' /\ Passes
<1>1. x.request.agent = a /\ x.request \in Executing
    BY DEF AgentInv, RunsItsOwn, Executing
<1>2. /\ running' = [running EXCEPT ![a] = {}]
      /\ gate' = [gate EXCEPT ![a] = 1]
    <2>1. running[a] \ {x} = {}
        BY DEF AgentInv, Serialized
    <2>2. gate[a] + 1 = 1
        BY DEF AgentInv, Serialized, AgentTypeOK
    <2>3. /\ running' = [running EXCEPT ![a] = running[a] \ {x}]
          /\ gate' = [gate EXCEPT ![a] = gate[a] + 1]
        BY <1>1 DEF Finish
    <2> QED BY <2>1, <2>2, <2>3
<1>3. ChannelTypeOK'
    BY DEF ChannelTypeOK, Finish
<1>4. AgentInv'
    BY <1>2 DEF AgentInv, AgentTypeOK, Serialized, RunsItsOwn, Touches
<1>5. Passes
    <2>1. Executing' \subseteq Executing
        BY <1>2 DEF Executing, AgentInv, AgentTypeOK
    <2>2. Acted' \cup Waiting' \subseteq Acted \cup Waiting \cup Executing
        BY <1>1 DEF Touches, Acted, Waiting
    <2> QED BY <2>1, <2>2 DEF Passes, Abroad, Finish
<1> QED BY <1>3, <1>4, <1>5

-----------------------------------------------------------------------------
(* The actions *)

\* A request arrives: it is answered at once, or takes the gate.
LEMMA ReceiveKeeps ==
    ASSUME ChannelTypeOK, AgentInv, NEW q \in inbox, Receive(q)
    PROVE  ChannelTypeOK' /\ AgentInv' /\ Passes
<1> q \in Request /\ q.agent \in Agents
    BY DEF ChannelTypeOK, Request
<1> {200, 400, 401, 403, 409, 504} \subseteq Statuses
    BY DEF Statuses
<1>1. CASE Refuse(q)
    BY <1>1, AnswerKeeps, RepliesAreReplies DEF Refuse, Result
<1>2. CASE Conflict(q)
    BY <1>2, AnswerKeeps, RepliesAreReplies DEF Conflict, Result
<1>3. CASE ReturnCached(q)
    <2>1. PICK e \in Slots(q.agent) : Answer(q, CachedReply(e, q))
        BY <1>3 DEF ReturnCached
    <2>2. e.result \in Result
        <3>1. completed[q.agent] \in Seq(Entry)
            BY DEF AgentInv, AgentTypeOK
        <3>2. e \in Entry
            BY <3>1 DEF Slots
        <3> QED BY <3>2 DEF Entry
    <2>3. CachedReply(e, q) \in Reply
        BY <2>2, RepliesAreReplies DEF CachedReply
    <2> QED BY <2>1, <2>3, AnswerKeeps
<1>4. CASE RejectRequest(q)
    BY <1>4, AnswerKeeps, RepliesAreReplies DEF RejectRequest, Result
<1>5. CASE Begin(q)
    <2> DEFINE x == [request |-> q, phase |-> FirstPhase(q.body)]
    <2>1. x \in Execution /\ x.request = q
        BY DEF Execution, FirstPhase, Phases, Steps
    <2>2. gate[q.agent] = 1 /\ running[q.agent] = {} /\ gate[q.agent] - 1 = 0
        BY <1>5 DEF Begin, AgentInv, Serialized
    <2>3. /\ gate' = [gate EXCEPT ![q.agent] = gate[q.agent] - 1]
          /\ running' = [running EXCEPT ![q.agent] = running[q.agent] \cup {x}]
          /\ inbox' = inbox \ {q}
          /\ UNCHANGED <<outbox, sent, completed, effects, lingering>>
        BY <1>5 DEF Begin
    <2>4. /\ gate' = [gate EXCEPT ![q.agent] = 0]
          /\ running' = [running EXCEPT ![q.agent] = {x}]
        BY <2>2, <2>3
    <2>5. ChannelTypeOK'
        BY <2>3 DEF ChannelTypeOK
    <2>6. AgentInv'
        BY <2>1, <2>3, <2>4 DEF AgentInv, AgentTypeOK, Serialized, RunsItsOwn
    <2>7. Executing' \subseteq Executing \cup {q}
        BY <2>1, <2>4 DEF Executing, AgentInv, AgentTypeOK
    <2>8. Acted' = Acted /\ Waiting' = Waiting
        BY <2>3 DEF Acted, Waiting
    <2> QED BY <2>3, <2>5, <2>6, <2>7, <2>8 DEF Passes, Abroad
<1> QED BY <1>1, <1>2, <1>3, <1>4, <1>5 DEF Receive

\* An execution goes on to its next await.
LEMMA AdvanceKeeps ==
    ASSUME ChannelTypeOK, AgentInv, NEW a \in Agents, NEW x \in running[a],
           NEW phase \in Phases, Advance(x, phase), Touches(x.request),
           UNCHANGED <<inbox, outbox, sent, gate, completed>>
    PROVE  ChannelTypeOK' /\ AgentInv' /\ Passes
<1> DEFINE y == [x EXCEPT !.phase = phase]
<1>1. /\ x \in Execution
      /\ x.request.agent = a
      /\ x.request \in Executing
    BY DEF AgentInv, AgentTypeOK, RunsItsOwn, Executing
<1>2. y \in Execution /\ y.request = x.request
    BY <1>1 DEF Execution
<1>3. running' = [running EXCEPT ![a] = {y}]
    <2>1. running[a] \ {x} = {}
        BY DEF AgentInv, Serialized
    <2>2. running' = [running EXCEPT ![a] = (running[a] \ {x}) \cup {y}]
        BY <1>1 DEF Advance
    <2> QED BY <2>1, <2>2
<1>4. gate[a] = 0
    BY DEF AgentInv, Serialized, AgentTypeOK
<1> HIDE DEF y
<1>5. AgentInv'
    <2>1. AgentTypeOK'
        BY <1>2, <1>3 DEF AgentInv, AgentTypeOK, Touches
    <2>2. \A b \in Agents : running'[b] = IF b = a THEN {y} ELSE running[b]
        BY <1>3 DEF AgentInv, AgentTypeOK
    <2>3. Serialized'
        BY <1>4, <2>2 DEF AgentInv, Serialized
    <2>4. RunsItsOwn'
        BY <1>1, <1>2, <2>2 DEF AgentInv, RunsItsOwn
    <2> QED BY <2>1, <2>3, <2>4 DEF AgentInv
<1>6. Executing' \subseteq Executing
    <2>1. \A b \in Agents : running'[b] = IF b = a THEN {y} ELSE running[b]
        BY <1>3 DEF AgentInv, AgentTypeOK
    <2> QED BY <1>1, <1>2, <2>1 DEF Executing
<1>7. Acted' \cup Waiting' \subseteq Acted \cup Waiting \cup Executing
    BY <1>1 DEF Touches, Acted, Waiting
<1> QED BY <1>5, <1>6, <1>7 DEF ChannelTypeOK, Passes, Abroad

\* An execution gets on, or ends with an answer.
LEMMA ExecuteKeeps ==
    ASSUME ChannelTypeOK, AgentInv, NEW a \in Agents, NEW x \in running[a], Execute(a, x)
    PROVE  ChannelTypeOK' /\ AgentInv' /\ Passes
<1> DEFINE q == x.request
<1> q \in Request /\ q.agent = a /\ x \in Execution
    BY DEF AgentInv, AgentTypeOK, RunsItsOwn, Execution
<1> {200, 403, 409, 500, 502, 504} \subseteq Statuses
    BY DEF Statuses
<1> Steps \subseteq Phases /\ "control" \in Steps /\ "change" \in Steps /\ "reload" \in Steps
    BY DEF Phases, Steps
<1> "done" \in Fates
    BY DEF Fates
<1> {"Succeeded", "Failed", "Unknown", "PartiallyCompleted", DefaultResult} \subseteq Result
    BY DEF Result, DefaultResult
<1>1. ASSUME UNCHANGED <<effects, lingering>>
      PROVE  Touches(q)
    BY <1>1 DEF Touches, AgentInv, AgentTypeOK
<1>2. ASSUME NEW step \in Steps, NEW fate \in Fates, Attempt(q, step, fate)
      PROVE  Touches(q)
    BY <1>2, AttemptTouches DEF AgentInv
<1>3. ASSUME NEW r \in Result, Return(x, r), Touches(q)
      PROVE  ChannelTypeOK' /\ AgentInv' /\ Passes
    <2>1. ResultReply(q, 200, r) \in Reply
        BY RepliesAreReplies
    <2>2. completed' \in [Agents -> Seq(Entry)]
        <3> DEFINE entry == [id |-> q.id, body |-> q.body, result |-> r]
        <3>1. entry \in Entry
            BY DEF Entry, Request
        <3>2. completed[a] \in Seq(Entry)
            BY DEF AgentInv, AgentTypeOK
        <3>3. Remember(completed[a], entry) \in Seq(Entry)
            BY <3>1, <3>2, RememberIsBounded
        <3>4. completed' = [completed EXCEPT ![a] = Remember(completed[a], entry)]
            BY <1>3 DEF Return, Record
        <3> QED BY <3>3, <3>4 DEF AgentInv, AgentTypeOK
    <2> QED BY <1>3, <2>1, <2>2, FinishKeeps DEF Return
<1>4. ASSUME NEW reply \in Reply, Leave(x, reply), Touches(q)
      PROVE  ChannelTypeOK' /\ AgentInv' /\ Passes
    BY <1>4, FinishKeeps DEF Leave, AgentInv, AgentTypeOK
<1>5. CASE InspectFound(a, x)
    <2>1. Touches(q)
        BY <1>1, <1>5 DEF InspectFound
    <2> QED BY <1>5, <2>1, AdvanceKeeps DEF InspectFound
<1>6. CASE InspectStops(a, x)
    <2>1. Touches(q)
        BY <1>1, <1>6 DEF InspectStops
    <2>2. PICK reply \in Reply : Leave(x, reply)
        BY <1>6, RepliesAreReplies DEF InspectStops
    <2> QED BY <1>4, <2>1, <2>2
<1>7. CASE ControlSucceeds(a, x)
    BY <1>2, <1>3, <1>7 DEF ControlSucceeds
<1>8. CASE ChangeSucceeds(a, x)
    <2>1. Touches(q)
        BY <1>2, <1>8 DEF ChangeSucceeds
    <2> QED BY <1>8, <2>1, AdvanceKeeps DEF ChangeSucceeds
<1>9. CASE ReloadSucceeds(a, x)
    BY <1>2, <1>3, <1>9 DEF ReloadSucceeds
<1>10. ASSUME NEW fate \in Fates, StepFails(a, x, fate)
       PROVE  ChannelTypeOK' /\ AgentInv' /\ Passes
    BY <1>2, <1>3, <1>10 DEF StepFails
<1>11. ASSUME NEW fate \in Fates, ProcessCut(a, x, fate)
       PROVE  ChannelTypeOK' /\ AgentInv' /\ Passes
    BY <1>2, <1>3, <1>11 DEF ProcessCut
<1>12. ASSUME NEW fate \in Fates, DockerCut(a, x, fate)
       PROVE  ChannelTypeOK' /\ AgentInv' /\ Passes
    <2>1. Touches(q)
        BY <1>2, <1>12 DEF DockerCut
    <2>2. PICK reply \in Reply : Leave(x, reply)
        BY <1>12, RepliesAreReplies DEF DockerCut, CutReplies
    <2> QED BY <1>4, <2>1, <2>2
<1>13. ASSUME NEW fate \in Fates, ReloadFails(a, x, fate)
       PROVE  ChannelTypeOK' /\ AgentInv' /\ Passes
    BY <1>2, <1>3, <1>13 DEF ReloadFails
<1> QED BY <1>5, <1>6, <1>7, <1>8, <1>9, <1>10, <1>11, <1>12, <1>13 DEF Execute

\* A host action takes place after the agent has stopped waiting for it.
LEMMA LateEffectKeeps ==
    ASSUME ChannelTypeOK, AgentInv, NEW e \in lingering, LateEffect(e)
    PROVE  ChannelTypeOK' /\ AgentInv' /\ Passes
<1>1. e \in Effect /\ e.request \in Waiting
    BY DEF AgentInv, AgentTypeOK, Waiting
<1>2. ChannelTypeOK' /\ AgentInv'
    BY <1>1 DEF LateEffect, ChannelTypeOK, AgentInv, AgentTypeOK, Serialized, RunsItsOwn
<1>3. Passes
    BY <1>1 DEF LateEffect, Passes, Abroad, Executing, Waiting, Acted
<1> QED BY <1>2, <1>3

\* An agent process ends and starts again.
LEMMA RestartKeeps ==
    ASSUME ChannelTypeOK, AgentInv, NEW a \in Agents, AgentRestart(a)
    PROVE  ChannelTypeOK' /\ AgentInv' /\ Passes
<1> DEFINE cut == {[request |-> x.request, step |-> x.phase] :
                       x \in {y \in running[a] : y.phase \in Steps}}
<1>1. \A e \in cut : e \in Effect /\ e.request \in Executing
    BY DEF AgentInv, AgentTypeOK, Execution, Effect, Executing
<1>2. lingering' = lingering \cup cut /\ running' = [running EXCEPT ![a] = {}]
    BY DEF AgentRestart
<1> HIDE DEF cut
<1>3. ChannelTypeOK'
    BY DEF AgentRestart, ChannelTypeOK
<1>4. AgentTypeOK'
    BY <1>1, <1>2 DEF AgentRestart, AgentInv, AgentTypeOK
<1>5. \A b \in Agents : running'[b] = IF b = a THEN {} ELSE running[b]
    BY <1>2 DEF AgentInv, AgentTypeOK
<1>6. Serialized' /\ RunsItsOwn'
    BY <1>5 DEF AgentRestart, AgentInv, AgentTypeOK, Serialized, RunsItsOwn
<1>7. Executing' \subseteq Executing
    BY <1>5 DEF Executing
<1>8. Waiting' \subseteq Waiting \cup Executing /\ Acted' = Acted
    BY <1>1, <1>2 DEF AgentRestart, Waiting, Acted
<1> QED BY <1>3, <1>4, <1>6, <1>7, <1>8 DEF AgentInv, AgentRestart, Passes, Abroad

\* Whatever agents and hosts do.
LEMMA AgentKeeps ==
    ASSUME ChannelTypeOK, AgentInv, AgentNext
    PROVE  ChannelTypeOK' /\ AgentInv' /\ Passes
BY ReceiveKeeps, ExecuteKeeps, LateEffectKeeps, RestartKeeps DEF AgentNext

\* Whatever the connections lose.
LEMMA ChannelKeeps ==
    ASSUME ChannelTypeOK, AgentInv, ChannelNext
    PROVE  ChannelTypeOK' /\ AgentInv' /\ Passes
BY DEF ChannelNext, LoseRequest, LoseReply, ChannelTypeOK, AgentInv, AgentTypeOK,
       Serialized, RunsItsOwn, Passes, Abroad, Executing, Waiting, Acted, agentVars

\* Nothing has happened yet.
LEMMA AgentStarts ==
    ASSUME ChannelInit, AgentInit
    PROVE  /\ ChannelTypeOK /\ AgentInv
           /\ sent = {} /\ Abroad \cup Acted = {}
<1>1. ChannelTypeOK /\ sent = {}
    BY DEF ChannelInit, ChannelTypeOK
<1>2. AgentInv
    BY DEF AgentInit, AgentInv, AgentTypeOK, Serialized, RunsItsOwn
<1>3. Abroad \cup Acted = {}
    BY DEF ChannelInit, AgentInit, Abroad, Executing, Waiting, Acted
<1> QED BY <1>1, <1>2, <1>3

-----------------------------------------------------------------------------
(* What agents say is true *)

\* What has been done stays done, so what is true of it stays true.
LEMMA RealStays ==
    ASSUME effects \subseteq effects', NEW q, NEW r, Real(q, r)
    PROVE  Real(q, r)'
BY DEF Real, Performed

\* What every step but a dispatch leaves true of what was sent and answered.
LEMMA OldTruthStays ==
    ASSUME AgentTruth, Passes, effects \subseteq effects'
    PROVE  /\ NothingUnsent' /\ OneRequestPerCall'
           /\ \A p \in outbox : TrueReply(p)'
<1>1. NothingUnsent' /\ OneRequestPerCall'
    BY DEF AgentTruth, NothingUnsent, OneRequestPerCall, Passes
<1>2. ASSUME NEW p \in outbox
      PROVE  TrueReply(p)'
    <2>1. PICK q \in sent : /\ q.call = p.call
                            /\ Real(q, p.result)
                            /\ p.status \in Refusals => q \notin Abroad \cup Acted
        BY DEF AgentTruth, RepliesAreTrue, TrueReply
    <2>2. Real(q, p.result)'
        BY <2>1, RealStays
    <2>3. p.status \in Refusals => q \notin (Abroad \cup Acted)'
        BY <2>1 DEF Passes
    <2>4. q \in sent' /\ p.result \in AgentResults
        BY DEF AgentTruth, RepliesAreTrue, TrueReply, Passes
    <2> QED BY <2>1, <2>2, <2>3, <2>4 DEF TrueReply
<1> QED BY <1>1, <1>2

\* A cache that learns nothing new says nothing new.
LEMMA CacheStaysTrue ==
    ASSUME CacheIsTrue, effects \subseteq effects',
           \A a \in Agents : Slots(a)' \subseteq Slots(a)
    PROVE  CacheIsTrue'
<1>1. ASSUME NEW a \in Agents, NEW e \in Slots(a)'
      PROVE  e.result \in AgentResults /\ Real(e, e.result)'
    <2>1. e.result \in AgentResults /\ Real(e, e.result)
        BY DEF CacheIsTrue
    <2> QED BY <2>1, RealStays
<1> QED BY <1>1 DEF CacheIsTrue

\* A cache that learns one result is true if that result is.
LEMMA RecordIsTrue ==
    ASSUME AgentTypeOK, CacheIsTrue, effects \subseteq effects',
           NEW q \in Request, NEW r \in AgentResults, Real(q, r)', Record(q, r)
    PROVE  CacheIsTrue'
<1> DEFINE entry == [id |-> q.id, body |-> q.body, result |-> r]
<1>1. /\ q.agent \in Agents /\ completed[q.agent] \in Seq(Entry)
      /\ completed' = [completed EXCEPT ![q.agent] = Remember(completed[q.agent], entry)]
    BY DEF Request, AgentTypeOK, Record
<1>2. entry.result = r /\ Real(entry, r)'
    BY DEF Real, Performed
<1> HIDE DEF entry
<1>3. ASSUME NEW a \in Agents, NEW e \in Slots(a)'
      PROVE  e = entry \/ e \in Slots(a)
    <2>1. CASE a # q.agent
        BY <1>1, <2>1 DEF Slots, AgentTypeOK
    <2>2. CASE a = q.agent
        <3>1. completed'[a] = Remember(completed[a], entry)
            BY <1>1, <2>2 DEF AgentTypeOK
        <3>2. CASE Len(completed[a]) < Capacity
            BY <1>1, <2>2, <3>1, <3>2 DEF Remember, Slots
        <3>3. CASE ~(Len(completed[a]) < Capacity)
            <4>1. 1 \in 1..Len(completed[a])
                BY <1>1, <2>2, <3>3, CapacityAssumption
            <4>2. /\ Len(completed'[a]) = Len(completed[a])
                  /\ \A i \in 1..Len(completed[a]) :
                         completed'[a][i] = IF i = 1 THEN entry ELSE completed[a][i]
                BY <1>1, <2>2, <3>1, <3>3, <4>1, ExceptSeq DEF Remember
            <4> QED BY <4>2 DEF Slots
        <3> QED BY <3>2, <3>3
    <2> QED BY <2>1, <2>2
<1>4. ASSUME NEW a \in Agents, NEW e \in Slots(a)'
      PROVE  e.result \in AgentResults /\ Real(e, e.result)'
    <2>1. CASE e = entry
        BY <1>2, <2>1
    <2>2. CASE e \in Slots(a)
        <3>1. e.result \in AgentResults /\ Real(e, e.result)
            BY <2>2 DEF CacheIsTrue
        <3> QED BY <3>1, RealStays
    <2> QED BY <1>3, <2>1, <2>2
<1> QED BY <1>4 DEF CacheIsTrue

-----------------------------------------------------------------------------
(* Requests and replies come and go *)

\* Whatever is lost or received takes no promise back.
LEMMA LossKeepsTruth ==
    ASSUME AgentTruth, UNCHANGED <<sent, agentVars>>,
           inbox' \subseteq inbox, outbox' \subseteq outbox
    PROVE  AgentTruth'
<1>1. /\ Executing' = Executing /\ Waiting' = Waiting /\ Acted' = Acted
      /\ effects' = effects /\ running' = running /\ lingering' = lingering
      /\ \A a \in Agents : Slots(a)' = Slots(a)
      /\ \A q : Done(q)' = Done(q)
    BY DEF agentVars, Executing, Waiting, Acted, Slots, Done
<1>2. Passes
    BY <1>1 DEF Passes, Abroad
<1>3. NothingUnsent' /\ OneRequestPerCall' /\ RepliesAreTrue'
    BY <1>1, <1>2, OldTruthStays DEF RepliesAreTrue
<1>4. UnreadAreIdle' /\ RunningAreInStep' /\ LingeringAreInStep'
    BY <1>1 DEF AgentTruth, UnreadAreIdle, RunningAreInStep, LingeringAreInStep, Unanswered
<1>5. CacheIsTrue'
    BY <1>1, CacheStaysTrue DEF AgentTruth
<1> QED BY <1>3, <1>4, <1>5 DEF AgentTruth

\* A call that has sent nothing yet sends a request.
LEMMA SendKeepsTruth ==
    ASSUME AgentTruth, UNCHANGED agentVars, NEW q, Send(q), \A p \in sent : p.call # q.call
    PROVE  AgentTruth'
<1>1. /\ Executing' = Executing /\ Waiting' = Waiting /\ Acted' = Acted
      /\ effects' = effects /\ running' = running /\ lingering' = lingering
      /\ \A a \in Agents : Slots(a)' = Slots(a)
      /\ \A r : Done(r)' = Done(r)
    BY DEF agentVars, Executing, Waiting, Acted, Slots, Done
<1>2. /\ inbox' = inbox \cup {q} /\ sent' = sent \cup {q} /\ outbox' = outbox
      /\ q \notin sent
    BY DEF Send
<1>3. NothingUnsent' /\ OneRequestPerCall'
    BY <1>1, <1>2 DEF AgentTruth, NothingUnsent, OneRequestPerCall, Abroad
<1>4. UnreadAreIdle'
    <2>1. Unanswered(q)
        BY DEF AgentTruth, RepliesAreTrue, TrueReply, Unanswered
    <2>2. q \notin Executing \cup Waiting \cup Acted
        BY <1>2 DEF AgentTruth, NothingUnsent, Abroad
    <2> QED BY <1>1, <1>2, <2>1, <2>2 DEF AgentTruth, UnreadAreIdle, Unanswered
<1>5. RunningAreInStep' /\ LingeringAreInStep'
    BY <1>1, <1>2 DEF AgentTruth, RunningAreInStep, LingeringAreInStep, Unanswered
<1>6. CacheIsTrue'
    BY <1>1, CacheStaysTrue DEF AgentTruth
<1>7. RepliesAreTrue'
    BY <1>1, <1>2 DEF AgentTruth, RepliesAreTrue, TrueReply, Real, Performed, Abroad
<1> QED BY <1>3, <1>4, <1>5, <1>6, <1>7 DEF AgentTruth

\* A request is answered without being run.
LEMMA AnswerIsTrue ==
    ASSUME AgentTruth, NEW q \in inbox, NEW reply, Answer(q, reply), reply.call = q.call,
           reply.result \in AgentResults, Real(q, reply.result)
    PROVE  AgentTruth'
<1>1. /\ Executing' = Executing /\ Waiting' = Waiting /\ Acted' = Acted
      /\ effects' = effects /\ running' = running /\ lingering' = lingering
      /\ \A a \in Agents : Slots(a)' = Slots(a)
      /\ \A r : Done(r)' = Done(r)
    BY DEF Answer, agentVars, Executing, Waiting, Acted, Slots, Done
<1>2. inbox' = inbox \ {q} /\ outbox' = outbox \cup {reply} /\ sent' = sent
    BY DEF Answer
<1>3. Passes
    BY <1>1, <1>2 DEF Passes, Abroad
<1>4. q \in sent /\ \A p \in sent : p.call = q.call => p = q
    BY DEF AgentTruth, NothingUnsent, OneRequestPerCall, Abroad
<1>5. TrueReply(reply)'
    <2>1. q \notin (Abroad \cup Acted)'
        BY <1>1, <1>2 DEF AgentTruth, UnreadAreIdle, Abroad
    <2>2. Real(q, reply.result)'
        BY <1>1, RealStays
    <2> QED BY <1>2, <1>4, <2>1, <2>2 DEF TrueReply
<1>6. NothingUnsent' /\ OneRequestPerCall' /\ RepliesAreTrue'
    BY <1>1, <1>2, <1>3, <1>5, OldTruthStays DEF RepliesAreTrue
<1>7. UnreadAreIdle'
    <2>1. ASSUME NEW p \in inbox, p # q
          PROVE  p.call # q.call
        BY <1>4, <2>1 DEF AgentTruth, NothingUnsent, Abroad
    <2> QED BY <1>1, <1>2, <2>1 DEF AgentTruth, UnreadAreIdle, Unanswered
<1>8. RunningAreInStep'
    <2>1. ASSUME NEW a \in Agents, NEW x \in running[a]
          PROVE  x.request.call # q.call
        <3>1. x.request \in Executing
            BY DEF Executing
        <3>2. x.request # q /\ x.request \in sent
            BY <3>1 DEF AgentTruth, UnreadAreIdle, NothingUnsent, Abroad
        <3> QED BY <1>4, <3>2
    <2> QED BY <1>1, <1>2, <2>1 DEF AgentTruth, RunningAreInStep, Unanswered
<1>9. LingeringAreInStep' /\ CacheIsTrue'
    BY <1>1, CacheStaysTrue DEF AgentTruth, LingeringAreInStep
<1> QED BY <1>6, <1>7, <1>8, <1>9 DEF AgentTruth
-----------------------------------------------------------------------------
(* Executions *)

\* What an attempt at a step leaves of each request.
LEMMA AttemptDoes ==
    ASSUME NEW q, NEW step, NEW fate, Attempt(q, step, fate)
    PROVE  /\ effects \subseteq effects'
           /\ \A r : r # q => /\ Done(r)' = Done(r)
                              /\ r \in Waiting' <=> r \in Waiting
                              /\ r \in Acted' <=> r \in Acted
           /\ fate = "done" => /\ Done(q)' = Done(q) \cup {step}
                               /\ Performed(q, step)'
           /\ fate # "done" => Done(q)' = Done(q) /\ Acted' = Acted
           /\ lingering' = IF fate = "open"
                           THEN lingering \cup {[request |-> q, step |-> step]}
                           ELSE lingering
<1> DEFINE e == [request |-> q, step |-> step]
<1>1. /\ effects' = IF fate = "done" THEN effects \cup {e} ELSE effects
      /\ lingering' = IF fate = "open" THEN lingering \cup {e} ELSE lingering
      /\ e.request = q /\ e.step = step
    BY DEF Attempt
<1>2. lingering' = IF fate = "open" THEN lingering \cup {[request |-> q, step |-> step]}
                                    ELSE lingering
    BY <1>1
<1> HIDE DEF e
<1>3. \A r : r # q => /\ Done(r)' = Done(r)
                      /\ r \in Waiting' <=> r \in Waiting
                      /\ r \in Acted' <=> r \in Acted
    BY <1>1 DEF Done, Waiting, Acted
<1>4. fate = "done" => Done(q)' = Done(q) \cup {step} /\ Performed(q, step)'
    BY <1>1 DEF Done, Performed
<1>5. fate # "done" => Done(q)' = Done(q) /\ Acted' = Acted
    BY <1>1 DEF Done, Acted
<1> QED BY <1>1, <1>2, <1>3, <1>4, <1>5

\* A running request is in no other place, and no other has its call.
LEMMA RunningIsAlone ==
    ASSUME AgentTruth, NEW a \in Agents, NEW x \in running[a]
    PROVE  /\ x.request \in sent /\ x.request \in Executing
           /\ x.request \notin inbox /\ x.request \notin Waiting
           /\ \A p \in sent : p.call = x.request.call => p = x.request
           /\ x.phase # "reload" => x.request \notin Acted
<1>1. x.request \in Executing
    BY DEF Executing
<1>2. x.request \in sent
    BY <1>1 DEF AgentTruth, NothingUnsent, Abroad
<1>3. x.request \notin inbox /\ x.request \notin Waiting
    BY <1>1 DEF AgentTruth, UnreadAreIdle, RunningAreInStep
<1>4. x.phase # "reload" => x.request \notin Acted
    BY DEF AgentTruth, RunningAreInStep, DoneBefore, Done, Acted
<1> QED BY <1>1, <1>2, <1>3, <1>4 DEF AgentTruth, OneRequestPerCall

\* The gate is taken.
LEMMA BeginIsTrue ==
    ASSUME ChannelTypeOK, AgentInv, AgentTruth, Passes, NEW q \in inbox, Begin(q)
    PROVE  AgentTruth'
<1> DEFINE x == [request |-> q, phase |-> FirstPhase(q.body)]
<1>1. /\ q \in Request /\ q.body \in Body /\ q \in sent
      /\ q \notin Executing \cup Waiting \cup Acted /\ Unanswered(q)
    BY DEF ChannelTypeOK, Request, AgentTruth, UnreadAreIdle, NothingUnsent, Abroad
<1>2. /\ \A a \in Agents : running'[a] \subseteq running[a] \cup {x}
      /\ inbox' = inbox \ {q}
      /\ UNCHANGED <<outbox, sent, completed, effects, lingering>>
    BY <1>1 DEF Begin, AgentInv, AgentTypeOK
<1>3. /\ Waiting' = Waiting /\ Acted' = Acted
      /\ \A a \in Agents : Slots(a)' = Slots(a)
      /\ \A r : Done(r)' = Done(r)
    BY <1>2 DEF Waiting, Acted, Slots, Done
<1>4. x.request = q /\ Fits(q, x.phase) /\ x.phase # "reload"
    BY <1>1 DEF Begin, Supported, Fits, FirstPhase, Body, Kinds, Verbs, RuntimeVerbs,
                UnitFileVerbs
<1>5. Done(q) = {}
    BY <1>1 DEF Done, Acted
<1> HIDE DEF x
<1>6. NothingUnsent' /\ OneRequestPerCall' /\ RepliesAreTrue'
    BY <1>2, OldTruthStays DEF RepliesAreTrue
<1>7. UnreadAreIdle'
    <2>1. Executing' \subseteq Executing \cup {q}
        BY <1>2, <1>4 DEF Executing
    <2> QED BY <1>2, <1>3, <2>1 DEF AgentTruth, UnreadAreIdle, Unanswered
<1>8. RunningAreInStep'
    BY <1>1, <1>2, <1>3, <1>4, <1>5
    DEF AgentTruth, RunningAreInStep, DoneBefore, Unanswered
<1>9. LingeringAreInStep' /\ CacheIsTrue'
    BY <1>2, <1>3, CacheStaysTrue DEF AgentTruth, LingeringAreInStep
<1> QED BY <1>6, <1>7, <1>8, <1>9 DEF AgentTruth

\* An execution goes on to its next await.
LEMMA AdvanceIsTrue ==
    ASSUME AgentInv, AgentTruth, Passes, NEW a \in Agents, NEW x \in running[a],
           NEW phase, Advance(x, phase), Fits(x.request, phase),
           UNCHANGED <<inbox, outbox, sent, completed, lingering>>, effects \subseteq effects',
           Done(x.request)' = DoneBefore(phase),
           \A r : r # x.request => Done(r)' = Done(r) /\ (r \in Acted' <=> r \in Acted)
    PROVE  AgentTruth'
<1> DEFINE y == [x EXCEPT !.phase = phase]
<1> DEFINE q == x.request
<1>1. x \in Execution /\ q.agent = a /\ running[a] \ {x} = {}
    BY DEF AgentInv, AgentTypeOK, RunsItsOwn, Serialized
<1>2. y.request = q /\ y.phase = phase
    BY <1>1 DEF Execution
<1>3. \A b \in Agents : running'[b] = IF b = a THEN {y} ELSE running[b]
    BY <1>1 DEF Advance, AgentInv, AgentTypeOK
<1>4. /\ q \in sent /\ q \in Executing /\ q \notin inbox /\ q \notin Waiting
    BY RunningIsAlone
<1>5. Waiting' = Waiting /\ \A b \in Agents : Slots(b)' = Slots(b)
    BY DEF Waiting, Slots
<1> HIDE DEF y, q
<1>6. NothingUnsent' /\ OneRequestPerCall' /\ RepliesAreTrue'
    BY OldTruthStays DEF RepliesAreTrue
<1>7. UnreadAreIdle'
    <2>1. Executing' \subseteq Executing
        BY <1>2, <1>3, <1>4 DEF Executing
    <2> QED BY <1>4, <1>5, <2>1 DEF AgentTruth, UnreadAreIdle, Unanswered, q
<1>8. RunningAreInStep'
    <2>1. ASSUME NEW b \in Agents, NEW z \in running'[b]
          PROVE  /\ Fits(z.request, z.phase)
                 /\ Done(z.request)' = DoneBefore(z.phase)
                 /\ z.request \notin Waiting'
                 /\ Unanswered(z.request)'
        <3>1. CASE b = a
            <4>1. z = y
                BY <1>3, <2>1, <3>1
            <4>2. Unanswered(q)' /\ q \notin Waiting'
                BY <1>4, <1>5 DEF AgentTruth, RunningAreInStep, Unanswered, q
            <4> QED BY <1>2, <4>1, <4>2 DEF q
        <3>2. CASE b # a
            <4>1. z \in running[b] /\ z.request # q
                BY <1>1, <1>3, <2>1, <3>2 DEF AgentInv, RunsItsOwn
            <4> QED BY <1>5, <4>1 DEF AgentTruth, RunningAreInStep, Unanswered, q
        <3> QED BY <3>1, <3>2
    <2> QED BY <2>1 DEF RunningAreInStep
<1>9. LingeringAreInStep'
    <2>1. \A e \in lingering : e.request # q
        BY <1>4 DEF Waiting
    <2> QED BY <2>1 DEF AgentTruth, LingeringAreInStep, q
<1>10. CacheIsTrue'
    BY <1>5, CacheStaysTrue DEF AgentTruth
<1> QED BY <1>6, <1>7, <1>8, <1>9, <1>10 DEF AgentTruth

\* An execution ends with an answer, after an attempt at the step it was in.
LEMMA FinishIsTrue ==
    ASSUME AgentInv, AgentTruth, Passes, NEW a \in Agents, NEW x \in running[a],
           NEW reply, Finish(x, reply), reply.call = x.request.call,
           reply.result \in AgentResults, Real(x.request, reply.result)',
           NEW step, NEW fate, Attempt(x.request, step, fate),
           fate = "open" => step = x.phase,
           reply.status \in Refusals => x.phase = "inspect" /\ fate = "never",
           CacheIsTrue'
    PROVE  AgentTruth'
<1> DEFINE q == x.request
<1>1. q.agent = a /\ running[a] \ {x} = {}
    BY DEF AgentInv, RunsItsOwn, Serialized
<1>2. /\ \A b \in Agents : running'[b] = IF b = a THEN {} ELSE running[b]
      /\ inbox' = inbox /\ sent' = sent /\ outbox' = outbox \cup {reply}
    BY <1>1 DEF Finish, AgentInv, AgentTypeOK
<1>3. /\ q \in sent /\ q \in Executing /\ q \notin inbox /\ q \notin Waiting
      /\ \A p \in sent : p.call = q.call => p = q
      /\ x.phase # "reload" => q \notin Acted
    BY RunningIsAlone
<1>4. /\ effects \subseteq effects'
      /\ \A r : r # q => /\ Done(r)' = Done(r)
                         /\ r \in Waiting' <=> r \in Waiting
                         /\ r \in Acted' <=> r \in Acted
      /\ fate # "done" => Done(q)' = Done(q) /\ Acted' = Acted
      /\ lingering' = IF fate = "open" THEN lingering \cup {[request |-> q, step |-> step]}
                                       ELSE lingering
    BY AttemptDoes
<1>5. /\ Fits(q, x.phase) /\ Done(q) = DoneBefore(x.phase)
    BY DEF AgentTruth, RunningAreInStep
<1> HIDE DEF q
<1>6. Executing' \subseteq Executing
    BY <1>2 DEF Executing
<1>7. q \notin Executing'
    <2>1. ASSUME NEW b \in Agents, NEW z \in running'[b]
          PROVE  z.request # q
        BY <1>1, <1>2, <2>1 DEF AgentInv, RunsItsOwn
    <2> QED BY <2>1 DEF Executing
<1>8. TrueReply(reply)'
    <2>1. ASSUME reply.status \in Refusals
          PROVE  q \notin (Abroad \cup Acted)'
        <3>1. x.phase = "inspect" /\ fate = "never"
            BY <2>1
        <3>2. Waiting' = Waiting /\ Acted' = Acted
            BY <1>4, <3>1 DEF Waiting
        <3> QED BY <1>2, <1>3, <1>7, <3>1, <3>2 DEF Abroad
    <2> QED BY <1>2, <1>3, <2>1 DEF TrueReply, q
<1>9. NothingUnsent' /\ OneRequestPerCall' /\ RepliesAreTrue'
    BY <1>2, <1>4, <1>8, OldTruthStays DEF RepliesAreTrue
<1>10. \A p \in sent : p # q /\ Unanswered(p) => Unanswered(p)'
    BY <1>2, <1>3 DEF Unanswered, q
<1>11. UnreadAreIdle'
    <2>1. ASSUME NEW p \in inbox
          PROVE  p \in sent /\ p # q
        BY <1>3 DEF AgentTruth, NothingUnsent, Abroad
    <2> QED BY <1>2, <1>4, <1>6, <1>10, <2>1 DEF AgentTruth, UnreadAreIdle
<1>12. RunningAreInStep'
    <2>1. ASSUME NEW b \in Agents, NEW z \in running'[b]
          PROVE  z \in running[b] /\ z.request # q /\ z.request \in sent
        BY <1>1, <1>2, <2>1, RunningIsAlone DEF AgentInv, RunsItsOwn
    <2> QED BY <1>4, <1>10, <2>1 DEF AgentTruth, RunningAreInStep
<1>13. LingeringAreInStep'
    <2>1. \A e \in lingering : e.request # q
        BY <1>3 DEF Waiting
    <2>2. CASE fate = "open"
        <3> DEFINE new == [request |-> q, step |-> step]
        <3>1. /\ new.request = q /\ new.step = step
              /\ lingering' = lingering \cup {new}
            BY <1>4, <2>2
        <3>2. Fits(q, step) /\ Done(q)' = DoneBefore(step)
            BY <1>4, <1>5, <2>2
        <3> HIDE DEF new
        <3> QED BY <1>4, <2>1, <3>1, <3>2 DEF AgentTruth, LingeringAreInStep
    <2>3. CASE fate # "open"
        BY <1>4, <2>1, <2>3 DEF AgentTruth, LingeringAreInStep
    <2> QED BY <2>2, <2>3
<1> QED BY <1>9, <1>11, <1>12, <1>13 DEF AgentTruth
-----------------------------------------------------------------------------
(* The actions *)

LEMMA ReceiveIsTrue ==
    ASSUME ChannelTypeOK, AgentInv, AgentTruth, NEW q \in inbox, Receive(q)
    PROVE  AgentTruth'
<1> q \in Request /\ q.agent \in Agents
    BY DEF ChannelTypeOK, Request
<1>1. ASSUME NEW reply, Answer(q, reply), reply.call = q.call,
             reply.result \in {"Failed", "Unknown"}
      PROVE  AgentTruth'
    BY <1>1, AnswerIsTrue DEF Real, AgentResults
<1>2. /\ \A status : /\ MessageReply(q, status).call = q.call
                     /\ MessageReply(q, status).result = "Failed"
                     /\ EmptyReply(q, status).call = q.call
                     /\ EmptyReply(q, status).result = "Failed"
      /\ \A status, r : /\ ResultReply(q, status, r).call = q.call
                        /\ ResultReply(q, status, r).result = r
    BY DEF MessageReply, EmptyReply, ResultReply, DefaultResult
<1>3. CASE Refuse(q) \/ Conflict(q) \/ RejectRequest(q)
    BY <1>1, <1>2, <1>3 DEF Refuse, Conflict, RejectRequest
<1>4. CASE ReturnCached(q)
    <2>1. PICK e \in Slots(q.agent) : e.id = q.id /\ Answer(q, CachedReply(e, q))
        BY <1>4 DEF ReturnCached
    <2>2. CASE e.body = q.body
        <3>1. e.result \in AgentResults /\ Real(e, e.result)
            BY DEF AgentTruth, CacheIsTrue
        <3>2. Real(q, e.result)
            BY <2>1, <2>2, <3>1 DEF Real, Performed
        <3>3. CachedReply(e, q) = ResultReply(q, 200, e.result)
            BY <2>2 DEF CachedReply
        <3> QED BY <1>2, <2>1, <3>1, <3>2, <3>3, AnswerIsTrue
    <2>3. CASE e.body # q.body
        BY <1>1, <1>2, <2>1, <2>3 DEF CachedReply
    <2> QED BY <2>2, <2>3
<1>5. CASE Begin(q)
    BY <1>5, BeginIsTrue, ReceiveKeeps DEF Receive
<1> QED BY <1>3, <1>4, <1>5 DEF Receive

LEMMA ExecuteIsTrue ==
    ASSUME ChannelTypeOK, AgentInv, AgentTruth,
           NEW a \in Agents, NEW x \in running[a], Execute(a, x)
    PROVE  AgentTruth'
<1> DEFINE q == x.request
<1> Passes
    BY ExecuteKeeps
<1> q \in Request /\ x \in Execution
    BY DEF AgentInv, AgentTypeOK, Execution
<1>1. Fits(q, x.phase) /\ Done(q) = DoneBefore(x.phase)
    BY DEF AgentTruth, RunningAreInStep
<1>2. ASSUME NEW step, NEW fate, Attempt(q, step, fate), fate = "open" => step = x.phase,
             NEW r \in AgentResults, Return(x, r), Real(q, r)'
      PROVE  AgentTruth'
    <2> DEFINE reply == ResultReply(q, 200, r)
    <2>1. reply.call = q.call /\ reply.result = r /\ reply.status \notin Refusals
        BY DEF ResultReply, Refusals
    <2>2. effects \subseteq effects'
        BY <1>2, AttemptDoes
    <2>3. CacheIsTrue'
        BY <1>2, <2>2, RecordIsTrue DEF AgentTruth, AgentInv, Return
    <2>4. Finish(x, reply)
        BY <1>2 DEF Return
    <2> HIDE DEF reply
    <2> QED BY <1>2, <2>1, <2>3, <2>4, FinishIsTrue
<1>3. ASSUME NEW step, NEW fate, Attempt(q, step, fate), fate = "open" => step = x.phase,
             NEW reply, Leave(x, reply), reply.call = q.call,
             reply.result \in {"Failed", "Unknown"},
             reply.status \in Refusals => x.phase = "inspect" /\ fate = "never"
      PROVE  AgentTruth'
    <2>1. effects \subseteq effects'
        BY <1>3, AttemptDoes
    <2>2. CacheIsTrue'
        BY <1>3, <2>1, CacheStaysTrue DEF AgentTruth, Leave, Slots
    <2>3. Real(q, reply.result)' /\ reply.result \in AgentResults
        BY <1>3 DEF Real, AgentResults
    <2> QED BY <1>3, <2>2, <2>3, FinishIsTrue DEF Leave
<1>4. CASE InspectFound(a, x)
    <2>1. Fits(q, "control") /\ Done(q)' = DoneBefore("control")
        BY <1>1, <1>4 DEF InspectFound, Fits, Done, DoneBefore
    <2>2. \A r : Done(r)' = Done(r) /\ (r \in Acted' <=> r \in Acted)
        BY <1>4 DEF InspectFound, Done, Acted
    <2> QED BY <1>4, <2>1, <2>2, AdvanceIsTrue DEF InspectFound
<1>5. CASE InspectStops(a, x)
    <2>1. Attempt(q, "control", "never") /\ x.phase = "inspect"
        BY <1>5 DEF InspectStops, Attempt
    <2>2. PICK reply : /\ Leave(x, reply) /\ reply.call = q.call
                       /\ reply.result \in {"Failed", "Unknown"}
        BY <1>5 DEF InspectStops, EmptyReply, MessageReply, ResultReply, DefaultResult
    <2> QED BY <1>3, <2>1, <2>2
<1>6. CASE ControlSucceeds(a, x)
    <2>1. Attempt(q, "control", "done") /\ Return(x, "Succeeded") /\ x.phase = "control"
        BY <1>6 DEF ControlSucceeds
    <2>2. Performed(q, "control")'
        BY <2>1, AttemptDoes
    <2>3. Real(q, "Succeeded")'
        BY <1>1, <2>1, <2>2 DEF Real, Fits
    <2> QED BY <1>2, <2>1, <2>3 DEF AgentResults
<1>7. CASE ChangeSucceeds(a, x)
    <2>1. Attempt(q, "change", "done") /\ x.phase = "change"
        BY <1>7 DEF ChangeSucceeds
    <2>2. Fits(q, "reload") /\ Done(q)' = DoneBefore("reload")
        BY <1>1, <2>1, AttemptDoes DEF Fits, DoneBefore
    <2>3. /\ effects \subseteq effects' /\ lingering' = lingering
          /\ \A r : r # q => Done(r)' = Done(r) /\ (r \in Acted' <=> r \in Acted)
        BY <2>1, AttemptDoes
    <2> QED BY <1>7, <2>2, <2>3, AdvanceIsTrue DEF ChangeSucceeds
<1>8. ASSUME x.phase = "reload"
      PROVE  Performed(q, "change") /\ q.body.operation \in UnitFileVerbs
    BY <1>1, <1>8 DEF Fits, DoneBefore, Done, Performed
<1>9. CASE ReloadSucceeds(a, x)
    <2>1. Attempt(q, "reload", "done") /\ Return(x, "Succeeded") /\ x.phase = "reload"
        BY <1>9 DEF ReloadSucceeds
    <2>2. Performed(q, "reload")' /\ effects \subseteq effects'
        BY <2>1, AttemptDoes
    <2>3. Real(q, "Succeeded")'
        BY <1>8, <2>1, <2>2 DEF Real, Performed
    <2> QED BY <1>2, <2>1, <2>3 DEF AgentResults
<1>10. ASSUME NEW fate \in Fates, StepFails(a, x, fate) \/ ProcessCut(a, x, fate)
       PROVE  AgentTruth'
    <2>1. PICK r \in {"Failed", "Unknown"} : Return(x, r) /\ Attempt(q, x.phase, fate)
        BY <1>10 DEF StepFails, ProcessCut, DefaultResult
    <2>2. Real(q, r)' /\ r \in AgentResults
        BY DEF Real, AgentResults
    <2> QED BY <1>2, <2>1, <2>2
<1>11. ASSUME NEW fate \in Fates, DockerCut(a, x, fate)
       PROVE  AgentTruth'
    <2>1. PICK reply \in CutReplies(q) : Leave(x, reply) /\ Attempt(q, x.phase, fate)
        BY <1>11 DEF DockerCut
    <2>2. /\ reply.call = q.call /\ reply.result = "Unknown"
          /\ reply.status \notin Refusals
        BY <2>1 DEF CutReplies, ResultReply, Refusals
    <2> QED BY <1>3, <2>1, <2>2
<1>12. ASSUME NEW fate \in Fates, ReloadFails(a, x, fate)
       PROVE  AgentTruth'
    <2>1. /\ Attempt(q, "reload", fate) /\ Return(x, "PartiallyCompleted")
          /\ x.phase = "reload"
        BY <1>12 DEF ReloadFails
    <2>2. effects \subseteq effects'
        BY <2>1, AttemptDoes
    <2>3. Real(q, "PartiallyCompleted")'
        BY <1>8, <2>1, <2>2 DEF Real, Performed
    <2> QED BY <1>2, <2>1, <2>3 DEF AgentResults
<1> QED BY <1>4, <1>5, <1>6, <1>7, <1>9, <1>10, <1>11, <1>12 DEF Execute

LEMMA LateEffectIsTrue ==
    ASSUME ChannelTypeOK, AgentInv, AgentTruth, NEW e \in lingering, LateEffect(e)
    PROVE  AgentTruth'
<1> DEFINE q == e.request
<1>1. /\ UNCHANGED <<inbox, outbox, sent, running, completed>>
      /\ effects' = effects \cup {e} /\ lingering' = lingering \ {e}
    BY DEF LateEffect
<1>2. /\ Executing' = Executing /\ Waiting' \subseteq Waiting
      /\ q \in Waiting /\ Acted' = Acted \cup {q}
      /\ \A a \in Agents : Slots(a)' = Slots(a)
      /\ \A r : r # q => Done(r)' = Done(r)
    BY <1>1 DEF Executing, Waiting, Acted, Slots, Done
<1> HIDE DEF q
<1>3. Passes
    BY LateEffectKeeps
<1>4. NothingUnsent' /\ OneRequestPerCall' /\ RepliesAreTrue'
    BY <1>1, <1>3, OldTruthStays DEF RepliesAreTrue
<1>5. UnreadAreIdle'
    BY <1>1, <1>2 DEF AgentTruth, UnreadAreIdle, Unanswered
<1>6. RunningAreInStep'
    BY <1>1, <1>2 DEF AgentTruth, RunningAreInStep, Unanswered
<1>7. LingeringAreInStep'
    <2>1. \A f \in lingering' : f \in lingering /\ f.request # q
        BY <1>1 DEF AgentTruth, LingeringAreInStep, q
    <2> QED BY <1>2, <2>1 DEF AgentTruth, LingeringAreInStep
<1>8. CacheIsTrue'
    BY <1>1, <1>2, CacheStaysTrue DEF AgentTruth
<1> QED BY <1>4, <1>5, <1>6, <1>7, <1>8 DEF AgentTruth

LEMMA RestartIsTrue ==
    ASSUME ChannelTypeOK, AgentInv, AgentTruth, NEW a \in Agents, AgentRestart(a)
    PROVE  AgentTruth'
<1>1. /\ UNCHANGED <<inbox, outbox, sent, effects>>
      /\ \A b \in Agents : running'[b] = IF b = a THEN {} ELSE running[b]
      /\ \A b \in Agents : completed'[b] = IF b = a THEN <<>> ELSE completed[b]
    BY DEF AgentRestart, AgentInv, AgentTypeOK
<1>2. ASSUME NEW e \in lingering', e \notin lingering
      PROVE  \E x \in running[a] :
                 e = [request |-> x.request, step |-> x.phase]
    BY <1>2 DEF AgentRestart
<1>3. lingering \subseteq lingering'
    BY DEF AgentRestart
<1>4. ASSUME NEW e \in lingering', e \notin lingering
      PROVE  /\ e.request \in Executing /\ e.request \notin Waiting
             /\ e.request.agent = a
             /\ Fits(e.request, e.step) /\ Done(e.request) = DoneBefore(e.step)
    BY <1>2, <1>4 DEF AgentTruth, RunningAreInStep, Executing, AgentInv, RunsItsOwn
<1>5. /\ Acted' = Acted /\ \A r : Done(r)' = Done(r)
      /\ \A b \in Agents : Slots(b)' \subseteq Slots(b)
    <2>1. Acted' = Acted /\ \A r : Done(r)' = Done(r)
        BY <1>1 DEF Acted, Done
    <2>2. \A b \in Agents : Slots(b)' \subseteq Slots(b)
        BY <1>1 DEF Slots
    <2> QED BY <2>1, <2>2
<1>6. Waiting' \subseteq Waiting \cup Executing
    BY <1>4 DEF Waiting
<1>7. Executing' \subseteq Executing
    BY <1>1 DEF Executing
<1>8. Passes
    BY RestartKeeps
<1>9. NothingUnsent' /\ OneRequestPerCall' /\ RepliesAreTrue'
    BY <1>1, <1>8, OldTruthStays DEF RepliesAreTrue
<1>10. UnreadAreIdle'
    BY <1>1, <1>5, <1>6, <1>7 DEF AgentTruth, UnreadAreIdle, Unanswered
<1>11. RunningAreInStep'
    <2>1. ASSUME NEW b \in Agents, NEW z \in running'[b]
          PROVE  z \in running[b] /\ z.request.agent # a
        BY <1>1, <2>1 DEF AgentInv, RunsItsOwn
    <2>2. ASSUME NEW b \in Agents, NEW z \in running'[b]
          PROVE  z.request \notin Waiting'
        <3>1. z.request \notin Waiting
            BY <2>1, <2>2 DEF AgentTruth, RunningAreInStep
        <3>2. \A e \in lingering' : e.request # z.request
            BY <1>4, <2>1, <2>2, <3>1 DEF Waiting
        <3> QED BY <3>2 DEF Waiting
    <2> QED BY <1>1, <1>5, <2>1, <2>2 DEF AgentTruth, RunningAreInStep, Unanswered
<1>12. LingeringAreInStep'
    <2>1. ASSUME NEW e \in lingering', NEW f \in lingering', f.request = e.request
          PROVE  f = e
        <3>1. CASE e \in lingering /\ f \in lingering
            BY <2>1, <3>1 DEF AgentTruth, LingeringAreInStep
        <3>2. CASE e \notin lingering /\ f \notin lingering
            BY <1>2, <2>1, <3>2 DEF AgentInv, Serialized
        <3>3. CASE ~(e \in lingering <=> f \in lingering)
            BY <1>4, <2>1, <3>3 DEF Waiting
        <3> QED BY <3>1, <3>2, <3>3
    <2>2. \A e \in lingering' :
              Fits(e.request, e.step) /\ Done(e.request)' = DoneBefore(e.step)
        BY <1>4, <1>5 DEF AgentTruth, LingeringAreInStep
    <2> QED BY <2>1, <2>2 DEF LingeringAreInStep
<1>13. CacheIsTrue'
    BY <1>1, <1>5, CacheStaysTrue DEF AgentTruth
<1> QED BY <1>9, <1>10, <1>11, <1>12, <1>13 DEF AgentTruth

\* Whatever agents and hosts do.
LEMMA AgentIsTrue ==
    ASSUME ChannelTypeOK, AgentInv, AgentTruth, AgentNext
    PROVE  AgentTruth'
BY ReceiveIsTrue, ExecuteIsTrue, LateEffectIsTrue, RestartIsTrue DEF AgentNext

\* Whatever the connections lose.
LEMMA ChannelIsTrue ==
    ASSUME AgentTruth, ChannelNext
    PROVE  AgentTruth'
BY LossKeepsTruth DEF ChannelNext, LoseRequest, LoseReply

\* A host action that took place is never taken back.
LEMMA EffectsStay == ASSUME AgentNext PROVE effects \subseteq effects'
<1> USE DEF Attempt
<1>1. ASSUME NEW q \in inbox, Receive(q) PROVE effects' = effects
    BY <1>1 DEF Receive, Refuse, Conflict, ReturnCached, RejectRequest, Begin, Answer, agentVars
<1>2. ASSUME NEW a \in Agents, NEW x \in running[a], Execute(a, x)
      PROVE  effects \subseteq effects'
    BY <1>2 DEF Execute, InspectFound, InspectStops, ControlSucceeds, ChangeSucceeds,
        ReloadSucceeds, StepFails, ProcessCut, DockerCut, ReloadFails
<1>3. ASSUME NEW e \in lingering, LateEffect(e) PROVE effects \subseteq effects'
    BY <1>3 DEF LateEffect
<1>4. ASSUME NEW a \in Agents, AgentRestart(a) PROVE effects' = effects
    BY <1>4 DEF AgentRestart
<1> QED BY <1>1, <1>2, <1>3, <1>4 DEF AgentNext

\* Nothing has been said yet.
LEMMA TruthStarts ==
    ASSUME ChannelInit, AgentInit
    PROVE  AgentTruth
<1>1. /\ sent = {} /\ inbox = {} /\ outbox = {} /\ Abroad \cup Acted = {} /\ lingering = {}
      /\ \A a \in Agents : running[a] = {} /\ Slots(a) = {}
    BY AgentStarts DEF ChannelInit, AgentInit, Slots
<1> QED BY <1>1 DEF AgentTruth, NothingUnsent, OneRequestPerCall, UnreadAreIdle,
        RunningAreInStep, LingeringAreInStep, CacheIsTrue, RepliesAreTrue

-----------------------------------------------------------------------------
(* One request at a time *)

\* A step is about request q: no other comes to or leaves what is abroad, and
\* what takes place on a host, if anything, is a step that q had not done yet.
Moves(q) ==
    /\ Abroad' \subseteq Abroad
    /\ Abroad \ {q} \subseteq Abroad'
    /\ \/ effects' = effects
       \/ /\ q \in Abroad
          /\ \E step \in Steps \ Done(q) :
                 effects' = effects \cup {[request |-> q, step |-> step]}

\* A request is read.
LEMMA ReceiveMoves ==
    ASSUME ChannelTypeOK, AgentInv, NEW q \in inbox, Receive(q)
    PROVE  Moves(q)
<1>1. CASE \E reply : Answer(q, reply)
    BY <1>1 DEF Moves, Answer, agentVars, Abroad, Executing, Waiting
<1>2. CASE Begin(q)
    <2>1. /\ \A a \in Agents : running[a] \subseteq running'[a]
          /\ \A a \in Agents : \A x \in running'[a] : x \in running[a] \/ x.request = q
          /\ inbox' = inbox \ {q}
          /\ UNCHANGED <<effects, lingering>>
        <3> DEFINE x == [request |-> q, phase |-> FirstPhase(q.body)]
        <3>1. /\ running' = [running EXCEPT ![q.agent] = running[q.agent] \cup {x}]
              /\ x.request = q
            BY <1>2 DEF Begin
        <3> HIDE DEF x
        <3> QED BY <1>2, <3>1 DEF Begin, AgentInv, AgentTypeOK
    <2>2. Executing \subseteq Executing' /\ Executing' \subseteq Executing \cup {q}
        BY <2>1 DEF Executing
    <2> QED BY <2>1, <2>2 DEF Moves, Abroad, Waiting
<1>3. ~Begin(q) => \E reply : Answer(q, reply)
    BY DEF Receive, Refuse, Conflict, ReturnCached, RejectRequest
<1> QED BY <1>1, <1>2, <1>3

\* An execution goes on or ends, and only its own request moves.
LEMMA ExecuteMoves ==
    ASSUME ChannelTypeOK, AgentInv, AgentTruth,
           NEW a \in Agents, NEW x \in running[a], Execute(a, x)
    PROVE  Moves(x.request)
<1> DEFINE q == x.request
<1>1. /\ q \in Executing /\ q.agent = a /\ x \in Execution
      /\ Fits(q, x.phase) /\ Done(q) = DoneBefore(x.phase)
    BY DEF Executing, AgentInv, AgentTypeOK, RunsItsOwn, AgentTruth, RunningAreInStep
<1>2. /\ inbox' = inbox
      /\ \E s : \/ running' = [running EXCEPT ![a] = running[a] \ {x}]
                \/ running' = [running EXCEPT ![a] =
                                  (running[a] \ {x}) \cup {[x EXCEPT !.phase = s]}]
    BY <1>1 DEF Execute, InspectFound, InspectStops, ControlSucceeds, ChangeSucceeds,
        ReloadSucceeds, StepFails, ProcessCut, DockerCut, ReloadFails,
        Advance, Return, Leave, Finish
<1>3. /\ \A b \in Agents : running[b] \ {x} \subseteq running'[b]
      /\ \A b \in Agents : \A y \in running'[b] : y \in running[b] \/ y.request = q
    <2> running \in [Agents -> SUBSET Execution]
        BY DEF AgentInv, AgentTypeOK
    <2>1. CASE running' = [running EXCEPT ![a] = running[a] \ {x}]
        <3>1. \A b \in Agents : running'[b] = IF b = a THEN running[a] \ {x} ELSE running[b]
            BY <2>1
        <3> QED BY <3>1
    <2>2. ASSUME NEW s, running' = [running EXCEPT ![a] =
                            (running[a] \ {x}) \cup {[x EXCEPT !.phase = s]}]
          PROVE  /\ \A b \in Agents : running[b] \ {x} \subseteq running'[b]
                 /\ \A b \in Agents : \A y \in running'[b] : y \in running[b] \/ y.request = q
        <3>1. PICK y : y = [x EXCEPT !.phase = s]
            OBVIOUS
        <3>2. y.request = q
            BY <1>1, <3>1 DEF Execution
        <3>3. \A b \in Agents :
                  running'[b] = IF b = a THEN (running[a] \ {x}) \cup {y} ELSE running[b]
            BY <2>2, <3>1
        <3> QED BY <3>2, <3>3
    <2> QED BY <1>2, <2>1, <2>2
<1>4. \/ UNCHANGED <<effects, lingering>>
      \/ x.phase \in Steps /\ \E fate \in Fates : Attempt(q, x.phase, fate)
    BY DEF Execute, InspectFound, InspectStops, ControlSucceeds, ChangeSucceeds,
        ReloadSucceeds, StepFails, ProcessCut, DockerCut, ReloadFails, Steps, Fates
<1>5. x.phase \in Steps => x.phase \notin Done(q)
    BY <1>1 DEF Steps, DoneBefore
<1> HIDE DEF q
<1>6. \/ effects' = effects
      \/ \E step \in Steps \ Done(q) : effects' = effects \cup {[request |-> q, step |-> step]}
    BY <1>4, <1>5 DEF Attempt
<1>7. Waiting \subseteq Waiting' /\ Waiting' \subseteq Waiting \cup {q}
    <2>1. /\ lingering \subseteq lingering'
          /\ \A e \in lingering' : e \in lingering \/ e.request = q
        BY <1>4 DEF Attempt
    <2> QED BY <2>1 DEF Waiting
<1>8. Executing \ {q} \subseteq Executing' /\ Executing' \subseteq Executing
    <2>1. \A b \in Agents : \A y \in running[b] : y.request # q => y \in running'[b]
        BY <1>3 DEF q
    <2>2. Executing \ {q} \subseteq Executing'
        BY <2>1 DEF Executing
    <2>3. Executing' \subseteq Executing
        BY <1>1, <1>3 DEF Executing
    <2> QED BY <2>2, <2>3
<1>9. Moves(q)
    BY <1>1, <1>2, <1>6, <1>7, <1>8 DEF Moves, Abroad
<1> QED BY <1>9 DEF q

LEMMA AgentMoves ==
    ASSUME ChannelTypeOK, AgentInv, AgentTruth, AgentNext
    PROVE  \E q : Moves(q)
<1>1. ASSUME NEW e \in lingering, LateEffect(e)
      PROVE  Moves(e.request)
    <2> DEFINE q == e.request
    <2>1. /\ UNCHANGED <<inbox, running>>
          /\ effects' = effects \cup {e} /\ lingering' = lingering \ {e}
        BY <1>1 DEF LateEffect
    <2>2. e \in Effect /\ Done(q) = DoneBefore(e.step)
        BY DEF AgentInv, AgentTypeOK, AgentTruth, LingeringAreInStep
    <2>3. e = [request |-> q, step |-> e.step] /\ e.step \in Steps \ Done(q)
        BY <2>2 DEF Effect, Steps, DoneBefore
    <2>4. q \in Waiting /\ Waiting' \subseteq Waiting /\ Waiting \ {q} \subseteq Waiting'
        BY <2>1 DEF Waiting
    <2>5. Executing' = Executing
        BY <2>1 DEF Executing
    <2> HIDE DEF q
    <2>6. Moves(q)
        BY <2>1, <2>3, <2>4, <2>5 DEF Moves, Abroad
    <2> QED BY <2>6 DEF q
<1>2. ASSUME NEW a \in Agents, AgentRestart(a)
      PROVE  \E q : Moves(q)
    <2>1. PICK q : \A x \in running[a] : x.request = q
        BY DEF AgentInv, Serialized
    <2>2. /\ UNCHANGED <<inbox, effects>> /\ lingering \subseteq lingering'
          /\ \A b \in Agents : running'[b] = IF b = a THEN {} ELSE running[b]
          /\ \A e \in lingering' : e \in lingering \/ e.request \in Executing
        BY <1>2 DEF AgentRestart, AgentInv, AgentTypeOK, Executing
    <2>3. Executing' \subseteq Executing /\ Executing \ {q} \subseteq Executing'
        BY <2>1, <2>2 DEF Executing
    <2>4. Waiting \subseteq Waiting' /\ Waiting' \subseteq Waiting \cup Executing
        BY <2>2 DEF Waiting
    <2> QED BY <2>2, <2>3, <2>4 DEF Moves, Abroad
<1> QED BY <1>1, <1>2, ReceiveMoves, ExecuteMoves DEF AgentNext

LEMMA ChannelMoves ==
    ASSUME ChannelNext
    PROVE  \E q : Moves(q)
BY DEF ChannelNext, LoseRequest, LoseReply, Moves, agentVars, Abroad, Executing, Waiting
=============================================================================
