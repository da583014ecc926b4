------------------------- MODULE AgentServiceProofs -------------------------
(***************************************************************************)
(* An agent keeps its promises to any callers: it serialises operations,   *)
(* its cache is a bounded dictionary of ids that are not running, and what *)
(* it answers is true.                                                     *)
(***************************************************************************)
EXTENDS AgentService, AgentProofs

CacheInv == CachedNeverRuns /\ CacheIsBoundedMap

ServiceInv == TypeOK /\ AgentInv /\ CacheInv /\ AgentTruth

\* What a step does to the cache of an agent: nothing, forgetting it all, or
\* remembering the result of the execution that ends.
KeepsCache(a) == completed'[a] = completed[a] /\ running'[a] \subseteq running[a]

ForgetsCache(a) == completed'[a] = <<>> /\ running'[a] = {}

Remembers(a, entry) ==
    /\ completed'[a] = Remember(completed[a], entry)
    /\ running'[a] = {}
    /\ ~Cached(a, entry.id)

\* An execution takes its id to the same agent's next await or out of it.
Advances(a) ==
    /\ completed'[a] = completed[a]
    /\ \A y \in running'[a] : \E x \in running[a] : y.request = x.request

\* The gate is taken for an id that the cache does not know.
Takes(a) ==
    /\ completed'[a] = completed[a]
    /\ \A y \in running'[a] : ~Cached(a, y.request.id)

CacheStep(a) ==
    \/ KeepsCache(a)
    \/ ForgetsCache(a)
    \/ \E entry \in Entry : Remembers(a, entry)
    \/ Advances(a)
    \/ Takes(a)

LEMMA CacheStepHolds ==
    ASSUME AgentTypeOK, AgentTypeOK', CacheInv, \A a \in Agents : CacheStep(a)
    PROVE  CacheInv'
<1> SUFFICES ASSUME NEW a \in Agents
             PROVE  /\ \A x \in running'[a] : \A i \in 1..Len(completed'[a]) :
                           completed'[a][i].id # x.request.id
                    /\ Len(completed'[a]) <= Capacity
                    /\ \A i, j \in 1..Len(completed'[a]) :
                           completed'[a][i].id = completed'[a][j].id => i = j
    BY DEF CacheInv, CachedNeverRuns, CacheIsBoundedMap, Cached, Slots
<1>1. /\ \A x \in running[a] : \A i \in 1..Len(completed[a]) :
             completed[a][i].id # x.request.id
      /\ Len(completed[a]) <= Capacity
      /\ \A i, j \in 1..Len(completed[a]) :
             completed[a][i].id = completed[a][j].id => i = j
    BY DEF CacheInv, CachedNeverRuns, CacheIsBoundedMap, Cached, Slots
<1>2. completed[a] \in Seq(Entry)
    BY DEF AgentTypeOK
<1>3. CASE KeepsCache(a)
    BY <1>1, <1>3 DEF KeepsCache
<1>4. CASE ForgetsCache(a)
    BY <1>4, CapacityAssumption DEF ForgetsCache
<1>5. ASSUME NEW entry \in Entry, Remembers(a, entry)
      PROVE  /\ Len(completed'[a]) <= Capacity
             /\ \A i, j \in 1..Len(completed'[a]) :
                    completed'[a][i].id = completed'[a][j].id => i = j
    <2>1. \A i \in 1..Len(completed[a]) : completed[a][i].id # entry.id
        BY <1>5 DEF Remembers, Cached, Slots
    <2>2. Len(completed'[a]) <= Capacity
        BY <1>1, <1>2, <1>5, RememberIsBounded DEF Remembers
    <2>3. CASE Len(completed[a]) < Capacity
        <3>1. completed'[a] = Append(completed[a], entry)
            BY <1>5, <2>3 DEF Remembers, Remember
        <3> QED BY <1>1, <1>2, <2>1, <2>2, <3>1
    <2>4. CASE ~(Len(completed[a]) < Capacity)
        <3>1. completed'[a] = [completed[a] EXCEPT ![1] = entry]
            BY <1>5, <2>4 DEF Remembers, Remember
        <3>2. 1 \in 1..Len(completed[a])
            BY <1>2, <2>4, CapacityAssumption
        <3>3. /\ Len(completed'[a]) = Len(completed[a])
              /\ \A i \in 1..Len(completed[a]) :
                     completed'[a][i] = IF i = 1 THEN entry ELSE completed[a][i]
            BY <1>2, <3>1, <3>2, ExceptSeq
        <3> QED BY <1>1, <2>1, <2>2, <3>3
    <2> QED BY <2>3, <2>4
<1>6. CASE \E entry \in Entry : Remembers(a, entry)
    BY <1>5, <1>6 DEF Remembers
<1>7. CASE Advances(a)
    BY <1>1, <1>7 DEF Advances
<1>8. CASE Takes(a)
    BY <1>1, <1>8 DEF Takes, Cached, Slots
<1> QED BY <1>3, <1>4, <1>6, <1>7, <1>8 DEF CacheStep

LEMMA ReceiveSteps ==
    ASSUME AgentInv, NEW q \in inbox, q \in Request, Receive(q), NEW a \in Agents
    PROVE  CacheStep(a)
<1>1. CASE \E reply : Answer(q, reply)
    BY <1>1 DEF Answer, agentVars, CacheStep, KeepsCache
<1>2. CASE Begin(q)
    <2>1. /\ completed' = completed
          /\ running[q.agent] = {}
          /\ running' = [running EXCEPT ![q.agent] =
                running[q.agent] \cup {[request |-> q, phase |-> FirstPhase(q.body)]}]
          /\ ~Cached(q.agent, q.id)
        BY <1>2 DEF Begin, Fresh, AgentInv, Serialized, Request
    <2>2. CASE a = q.agent
        BY <2>1, <2>2 DEF CacheStep, Takes, AgentInv, AgentTypeOK
    <2>3. CASE a # q.agent
        BY <2>1, <2>3 DEF CacheStep, KeepsCache, AgentInv, AgentTypeOK
    <2> QED BY <2>2, <2>3
<1>3. ~Begin(q) => \E reply : Answer(q, reply)
    BY DEF Receive, Refuse, Conflict, ReturnCached, RejectRequest
<1> QED BY <1>1, <1>2, <1>3

LEMMA ExecuteSteps ==
    ASSUME AgentInv, CachedNeverRuns, NEW b \in Agents, NEW x \in running[b], Execute(b, x),
           NEW a \in Agents
    PROVE  CacheStep(a)
<1>1. /\ x.request.agent = b /\ x \in Execution /\ running[b] \ {x} = {}
      /\ x.request \in Request /\ ~Cached(b, x.request.id)
    BY DEF AgentInv, AgentTypeOK, RunsItsOwn, Serialized, CachedNeverRuns, Execution
<1>2. ASSUME NEW phase, Advance(x, phase), UNCHANGED completed
      PROVE  CacheStep(a)
    <2>1. [x EXCEPT !.phase = phase].request = x.request
        BY <1>1 DEF Execution
    <2>2. running' = [running EXCEPT ![b] = {[x EXCEPT !.phase = phase]}]
        BY <1>1, <1>2 DEF Advance
    <2> QED BY <1>2, <2>1, <2>2 DEF CacheStep, Advances, AgentInv, AgentTypeOK
<1>3. ASSUME NEW reply, Finish(x, reply)
      PROVE  running' = [running EXCEPT ![b] = {}]
    BY <1>1, <1>3 DEF Finish
<1>4. ASSUME NEW reply, Leave(x, reply)
      PROVE  CacheStep(a)
    BY <1>3, <1>4 DEF Leave, CacheStep, KeepsCache, AgentInv, AgentTypeOK
<1>5. ASSUME NEW r \in Result, Return(x, r)
      PROVE  CacheStep(a)
    <2> DEFINE entry == [id |-> x.request.id, body |-> x.request.body, result |-> r]
    <2>1. entry \in Entry /\ entry.id = x.request.id
        BY <1>1 DEF Entry, Request
    <2>2. completed' = [completed EXCEPT ![b] = Remember(completed[b], entry)]
        BY <1>1, <1>5 DEF Return, Record
    <2>3. running' = [running EXCEPT ![b] = {}]
        BY <1>3, <1>5 DEF Return
    <2> HIDE DEF entry
    <2>4. CASE a = b
        BY <1>1, <2>1, <2>2, <2>3, <2>4 DEF CacheStep, Remembers, AgentInv, AgentTypeOK
    <2>5. CASE a # b
        BY <2>2, <2>3, <2>5 DEF CacheStep, KeepsCache, AgentInv, AgentTypeOK
    <2> QED BY <2>4, <2>5
<1> {"Succeeded", "Unknown", "PartiallyCompleted", DefaultResult} \subseteq Result
    BY DEF Result, DefaultResult
<1>6. CASE InspectFound(b, x) \/ ChangeSucceeds(b, x)
    BY <1>2, <1>6 DEF InspectFound, ChangeSucceeds
<1>7. CASE InspectStops(b, x)
    BY <1>4, <1>7 DEF InspectStops
<1>8. CASE ControlSucceeds(b, x) \/ ReloadSucceeds(b, x)
    BY <1>5, <1>8 DEF ControlSucceeds, ReloadSucceeds
<1>9. ASSUME NEW fate \in Fates,
             StepFails(b, x, fate) \/ ProcessCut(b, x, fate) \/ ReloadFails(b, x, fate)
      PROVE  CacheStep(a)
    BY <1>5, <1>9 DEF StepFails, ProcessCut, ReloadFails
<1>10. ASSUME NEW fate \in Fates, DockerCut(b, x, fate)
       PROVE  CacheStep(a)
    BY <1>4, <1>10 DEF DockerCut
<1> QED BY <1>6, <1>7, <1>8, <1>9, <1>10 DEF Execute

LEMMA AgentSteps ==
    ASSUME ChannelTypeOK, AgentInv, CachedNeverRuns, AgentNext, NEW a \in Agents
    PROVE  CacheStep(a)
<1>1. ASSUME NEW q \in inbox, Receive(q) PROVE CacheStep(a)
    BY <1>1, ReceiveSteps DEF ChannelTypeOK
<1>2. ASSUME NEW b \in Agents, NEW x \in running[b], Execute(b, x) PROVE CacheStep(a)
    BY <1>2, ExecuteSteps
<1>3. ASSUME NEW e \in lingering, LateEffect(e) PROVE CacheStep(a)
    BY <1>3 DEF LateEffect, CacheStep, KeepsCache
<1>4. ASSUME NEW b \in Agents, AgentRestart(b) PROVE CacheStep(a)
    BY <1>4 DEF AgentRestart, CacheStep, KeepsCache, ForgetsCache, AgentInv, AgentTypeOK
<1> QED BY <1>1, <1>2, <1>3, <1>4 DEF AgentNext

\* The ghost keeps its type: a slot that changed can be found.
LEMMA RecentTyped ==
    ASSUME TypeOK, AgentTypeOK', \A a \in Agents : CacheStep(a), NoteRecorded
    PROVE  recent' \in [Agents -> Seq(RequestIds)]
<1> DEFINE New(a) == IF completed'[a] = completed[a] THEN recent[a]
                     ELSE IF completed'[a] = <<>> THEN <<>>
                     ELSE LET i == CHOOSE i \in 1..Len(completed'[a]) :
                             i > Len(completed[a]) \/ completed'[a][i] # completed[a][i]
                          IN  Append(recent[a], completed'[a][i].id)
<1>1. recent' = [a \in Agents |-> New(a)]
    BY DEF NoteRecorded
<1>2. ASSUME NEW a \in Agents
      PROVE  New(a) \in Seq(RequestIds)
    <2>1. recent[a] \in Seq(RequestIds) /\ completed'[a] \in Seq(Entry)
          /\ completed[a] \in Seq(Entry)
        BY DEF TypeOK, AgentTypeOK
    <2>2. CASE completed'[a] = completed[a]
        BY <2>1, <2>2
    <2>3. CASE completed'[a] = <<>>
        BY <2>1, <2>3
    <2>4. CASE completed'[a] # completed[a] /\ completed'[a] # <<>>
        <3> DEFINE Changed(i) ==
                       i > Len(completed[a]) \/ completed'[a][i] # completed[a][i]
        <3>1. \E entry \in Entry : completed'[a] = Remember(completed[a], entry)
            BY <2>4 DEF CacheStep, KeepsCache, ForgetsCache, Remembers, Advances, Takes
        <3>2. \E i \in 1..Len(completed'[a]) : Changed(i)
            <4>1. CASE Len(completed[a]) < Capacity
                BY <2>1, <3>1, <4>1 DEF Remember
            <4>2. CASE ~(Len(completed[a]) < Capacity)
                <5>1. PICK entry \in Entry : completed'[a] = [completed[a] EXCEPT ![1] = entry]
                    BY <3>1, <4>2 DEF Remember
                <5>2. Len(completed'[a]) = Len(completed[a]) /\ 1 \in 1..Len(completed[a])
                    BY <2>1, <4>2, <5>1, ExceptSeq, CapacityAssumption
                <5>3. \E i \in 1..Len(completed[a]) : completed'[a][i] # completed[a][i]
                    BY <2>1, <2>4, <5>2, SeqEqual
                <5> QED BY <5>2, <5>3
            <4> QED BY <4>1, <4>2
        <3>3. PICK i : /\ i \in 1..Len(completed'[a])
                       /\ i = CHOOSE j \in 1..Len(completed'[a]) : Changed(j)
            BY <3>2
        <3>4. completed'[a][i] \in Entry
            <4>1. i \in 1..Len(completed'[a])
                BY <3>3
            <4> HIDE <3>3
            <4> QED BY <2>1, <4>1
        <3>5. completed'[a][i].id \in RequestIds
            BY <3>4 DEF Entry
        <3>6. New(a) = Append(recent[a], completed'[a][i].id)
            BY <2>4, <3>3
        <3> QED BY <2>1, <3>5, <3>6
    <2> QED BY <2>2, <2>3, <2>4
<1> QED BY <1>1, <1>2

LEMMA ServiceInit == ASSUME Init PROVE ServiceInv
<1>1. ChannelTypeOK /\ AgentInv
    BY AgentStarts DEF Init
<1>2. CacheInv /\ recent \in [Agents -> Seq(RequestIds)]
    BY CapacityAssumption
    DEF Init, AgentInit, CacheInv, CachedNeverRuns, CacheIsBoundedMap
<1>3. AgentTruth
    BY TruthStarts DEF Init
<1> QED BY <1>1, <1>2, <1>3 DEF ServiceInv, TypeOK, AgentInv

LEMMA ServiceNext == ASSUME ServiceInv, Next PROVE ServiceInv'
<1>1. CASE AgentNext
    <2>1. ChannelTypeOK' /\ AgentInv'
        BY <1>1, AgentKeeps DEF ServiceInv, TypeOK
    <2>2. \A a \in Agents : CacheStep(a)
        BY <1>1, AgentSteps DEF ServiceInv, TypeOK, CacheInv
    <2>3. CacheInv'
        BY <2>1, <2>2, CacheStepHolds DEF ServiceInv, AgentInv
    <2>4. recent' \in [Agents -> Seq(RequestIds)]
        BY <2>1, <2>2, RecentTyped DEF ServiceInv, AgentInv, Next
    <2>5. AgentTruth'
        BY <1>1, AgentIsTrue DEF ServiceInv, TypeOK
    <2> QED BY <2>1, <2>3, <2>4, <2>5 DEF ServiceInv, TypeOK, AgentInv
<1>2. ASSUME NEW c \in Calls, Call(c)
      PROVE  ServiceInv'
    <2>1. PICK a \in Agents, i \in RequestIds, body \in Bodies :
              Send([agent |-> a, call |-> c, id |-> i, body |-> body])
        BY <1>2 DEF Call
    <2>2. [agent |-> a, call |-> c, id |-> i, body |-> body] \in Request
        BY BodiesAssumption DEF Request
    <2>3. ChannelTypeOK'
        BY <2>1, <2>2 DEF Send, ServiceInv, TypeOK, ChannelTypeOK
    <2>4. UNCHANGED agentVars
        BY <1>2 DEF Call
    <2>5. AgentInv'
        BY <2>4 DEF ServiceInv, AgentInv, AgentTypeOK, Serialized, RunsItsOwn, agentVars
    <2>6. \A b \in Agents : CacheStep(b)
        BY <2>4 DEF CacheStep, KeepsCache, agentVars
    <2>7. CacheInv'
        BY <2>5, <2>6, CacheStepHolds DEF ServiceInv, AgentInv
    <2>8. recent' \in [Agents -> Seq(RequestIds)]
        BY <2>5, <2>6, RecentTyped DEF ServiceInv, AgentInv, Next
    <2>9. AgentTruth'
        BY <1>2, <2>1, <2>4, SendKeepsTruth DEF Call, ServiceInv
    <2> QED BY <2>3, <2>5, <2>7, <2>8, <2>9 DEF ServiceInv, TypeOK, AgentInv
<1> QED BY <1>1, <1>2 DEF Next

\* What the agent keeps true for any number of callers, ids and agents.
THEOREM ServiceInvariant == Spec => []ServiceInv
<1>1. ASSUME ServiceInv, UNCHANGED serviceVars
      PROVE  ServiceInv'
    <2>1. AgentTruth'
        BY <1>1, LossKeepsTruth DEF ServiceInv, serviceVars, channelVars
    <2> QED BY <1>1, <2>1 DEF ServiceInv, serviceVars, channelVars, agentVars, TypeOK,
        ChannelTypeOK, AgentInv, AgentTypeOK, Serialized, RunsItsOwn, CacheInv,
        CachedNeverRuns, CacheIsBoundedMap, Cached, Slots
<1> QED BY <1>1, ServiceInit, ServiceNext, PTL DEF Spec

\* Every variable of the agent holds a value of its type.
THEOREM ServiceTyped == Spec => []TypeOK
<1>1. ServiceInv => TypeOK
    BY DEF ServiceInv
<1> QED BY <1>1, ServiceInvariant, PTL

\* The gate serialises the operations of an agent.
THEOREM ServiceSerializes == Spec => []Serialized
<1>1. ServiceInv => Serialized
    BY DEF ServiceInv, AgentInv
<1> QED BY <1>1, ServiceInvariant, PTL

\* A request id in the cache is not executing.
THEOREM DuplicatesAreAnswered == Spec => []CachedNeverRuns
<1>1. ServiceInv => CachedNeverRuns
    BY DEF ServiceInv, CacheInv
<1> QED BY <1>1, ServiceInvariant, PTL

\* The cache is a dictionary that never exceeds its capacity.
THEOREM CacheIsBounded == Spec => []CacheIsBoundedMap
<1>1. ServiceInv => CacheIsBoundedMap
    BY DEF ServiceInv, CacheInv
<1> QED BY <1>1, ServiceInvariant, PTL

\* A reply of success or of a partial completion is about host actions that
\* have taken place, and a refused call does nothing, then or later.
THEOREM AnswersCanBeBelieved == Spec => []AnswersAreTrue
<1>1. ASSUME ServiceInv, NEW p \in outbox
      PROVE  \E q \in sent :
                 /\ q.call = p.call
                 /\ Real(q, p.result)
                 /\ p.status \in Refusals => q \notin Abroad \cup Acted
                 /\ \A r \in sent : r.call = p.call => r = q
    BY <1>1 DEF ServiceInv, AgentTruth, OneRequestPerCall, RepliesAreTrue, TrueReply
<1>2. ASSUME ServiceInv, NEW p \in outbox, NEW q \in sent, Answers(p, q)
      PROVE  Real(q, p.result)
    BY <1>1, <1>2 DEF Answers
<1>3. ASSUME ServiceInv, NEW p \in outbox, p.status \in Refusals
      PROVE  \A r \in Abroad \cup Acted : r.call # p.call
    BY <1>1, <1>3 DEF ServiceInv, AgentTruth, NothingUnsent
<1>4. ServiceInv => AnswersAreTrue
    BY <1>2, <1>3 DEF AnswersAreTrue, Abroad, Executing, Waiting, Acted
<1> QED BY <1>4, ServiceInvariant, PTL
=============================================================================
