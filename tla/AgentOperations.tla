--------------------------- MODULE AgentOperations ---------------------------
(***************************************************************************)
(* The host agent's POST /operations: a non-blocking gate, a bounded cache *)
(* of completed requests, the allowlist, and the host actions themselves   *)
(* (a Docker control call, a systemctl call, or a unit-file change         *)
(* followed by a manager reload).                                          *)
(*                                                                         *)
(* A host action that is cut short may have happened, may still happen     *)
(* after the agent has answered, or may never happen.                      *)
(***************************************************************************)
EXTENDS AgentChannel, Naturals, Sequences

CONSTANTS
    Allowlist,  \* [Agents -> SUBSET (Kinds \X Targets)], Controls:{kind}
    Capacity    \* completed results an agent keeps (2048 in the code)

ASSUME AllowlistAssumption == Allowlist \in [Agents -> SUBSET (Kinds \X Targets)]
ASSUME CapacityAssumption  == Capacity \in Nat \ {0}

VARIABLES
    gate,       \* free permits of the agent's SemaphoreSlim(1, 1)
    running,    \* executions between taking the gate and releasing it
    completed,  \* the Dictionary of completed requests, in slot order
    effects,    \* ghost: host actions that have taken place
    lingering   \* host actions cut short that may still take place

agentVars == <<gate, running, completed, effects, lingering>>

\* The awaits an execution can be suspended at.
Steps  == {"control", "change", "reload"}
Phases == {"inspect"} \cup Steps

Execution == [request : Request, phase : Phases]
Effect    == [request : Request, step : Steps]
Entry     == [id : RequestIds, body : Body, result : Result]

AgentTypeOK ==
    /\ gate \in [Agents -> {0, 1}]
    /\ running \in [Agents -> SUBSET Execution]
    /\ completed \in [Agents -> Seq(Entry)]
    /\ effects \subseteq Effect
    /\ lingering \subseteq Effect

AgentInit ==
    /\ gate = [a \in Agents |-> 1]
    /\ running = [a \in Agents |-> {}]
    /\ completed = [a \in Agents |-> <<>>]
    /\ effects = {}
    /\ lingering = {}

-----------------------------------------------------------------------------
(* Helpers *)

Slots(a) == {completed[a][i] : i \in 1..Len(completed[a])}

Cached(a, id) == \E e \in Slots(a) : e.id = id

\* Fault: a request is known only if its body is the recorded one as well.
FreshBody(q) == \A e \in Slots(q.agent) : e.id # q.id \/ e.body # q.body

Fresh(q) == ~Cached(q.agent, q.id)

\* Fault: the recorded result answers any request with the same id.
CachedReplyById(e, q) == ResultReply(q, 200, e.result)

CachedReply(e, q) ==
    IF e.body = q.body THEN ResultReply(q, 200, e.result) ELSE MessageReply(q, 400)

\* Docker names are resolved first and the resolved container is looked up;
\* here a target stands for the container or unit it resolves to.
Allows(a, body) == <<body.kind, body.target>> \in Allowlist[a]

\* What Execute rejects with ArgumentException before any await.
Supported(body) == body.kind = "Docker" => body.operation \in RuntimeVerbs

FirstPhase(body) ==
    IF body.kind = "Docker" THEN "inspect"
    ELSE IF body.operation \in UnitFileVerbs THEN "change" ELSE "control"

\* completed.Remove(completed.Keys.First()) when the dictionary is full, then
\* the insertion.  Removal frees the first slot and .NET's Dictionary gives a
\* freed slot to the next key, so the new entry takes the place of the old one.
Remember(slots, entry) ==
    IF Len(slots) < Capacity THEN Append(slots, entry)
                             ELSE [slots EXCEPT ![1] = entry]

\* A host action that did not report success: what became of it.
Fates == {"done", "open", "never"}

Attempt(q, step, fate) ==
    LET e == [request |-> q, step |-> step]
    IN  /\ effects' = IF fate = "done" THEN effects \cup {e} ELSE effects
        /\ lingering' = IF fate = "open" THEN lingering \cup {e} ELSE lingering

\* finally { gate.Release(); } and the HTTP reply.
Finish(x, reply) ==
    LET a == x.request.agent
    IN  /\ running' = [running EXCEPT ![a] = @ \ {x}]
        /\ gate' = [gate EXCEPT ![a] = @ + 1]
        /\ outbox' = outbox \cup {reply}
        /\ UNCHANGED <<inbox, sent>>

Record(q, result) ==
    completed' = [completed EXCEPT ![q.agent] =
        Remember(@, [id |-> q.id, body |-> q.body, result |-> result])]

\* The normal return: the result is cached and sent with status 200.
Return(x, result) ==
    /\ Finish(x, ResultReply(x.request, 200, result))
    /\ Record(x.request, result)

\* Fault: the gate is released on the normal path only, not in a finally block.
LeaveHolding(x, reply) ==
    /\ running' = [running EXCEPT ![x.request.agent] = @ \ {x}]
    /\ outbox' = outbox \cup {reply}
    /\ UNCHANGED <<inbox, sent, gate, completed>>

\* An exception, or the early return for a missing container: not cached.
Leave(x, reply) ==
    /\ Finish(x, reply)
    /\ UNCHANGED completed

-----------------------------------------------------------------------------
(* Requests that never hold the gate across an await *)

Answer(q, reply) ==
    /\ inbox' = inbox \ {q}
    /\ outbox' = outbox \cup {reply}
    /\ UNCHANGED <<sent, agentVars>>

\* The middleware (wrong token, plain HTTP, another protocol version), and the
\* wait for the gate when the agent is shutting down (504).
Refuse(q) ==
    /\ q \in inbox
    /\ \E reply \in {EmptyReply(q, 401), EmptyReply(q, 400), MessageReply(q, 400),
                     ResultReply(q, 504, "Unknown")} :
           Answer(q, reply)

\* Fault: the try block begins before the wait, so a conflict releases the gate.
ConflictReleasing(q) ==
    /\ q \in inbox
    /\ gate[q.agent] = 0
    /\ gate' = [gate EXCEPT ![q.agent] = @ + 1]
    /\ inbox' = inbox \ {q}
    /\ outbox' = outbox \cup {MessageReply(q, 409)}
    /\ UNCHANGED <<sent, running, completed, effects, lingering>>

Conflict(q) ==
    /\ q \in inbox
    /\ gate[q.agent] = 0
    /\ Answer(q, MessageReply(q, 409))

ReturnCached(q) ==
    /\ q \in inbox
    /\ gate[q.agent] = 1
    /\ \E e \in Slots(q.agent) :
        /\ e.id = q.id
        /\ Answer(q, CachedReply(e, q))

RejectRequest(q) ==
    /\ q \in inbox
    /\ gate[q.agent] = 1
    /\ Fresh(q)
    /\ \/ /\ ~Supported(q.body)
          /\ Answer(q, MessageReply(q, 400))
       \/ /\ q.body.kind = "Systemd"
          /\ ~Allows(q.agent, q.body)
          /\ \/ Answer(q, EmptyReply(q, 403))
             \/ Answer(q, MessageReply(q, 400))  \* not even a unit name

-----------------------------------------------------------------------------
(* An execution that holds the gate *)

Begin(q) ==
    /\ q \in inbox
    /\ gate[q.agent] = 1
    /\ Fresh(q)
    /\ Supported(q.body)
    /\ q.body.kind = "Systemd" => Allows(q.agent, q.body)
    /\ gate' = [gate EXCEPT ![q.agent] = @ - 1]
    /\ running' = [running EXCEPT ![q.agent] =
                      @ \cup {[request |-> q, phase |-> FirstPhase(q.body)]}]
    /\ inbox' = inbox \ {q}
    /\ UNCHANGED <<outbox, sent, completed, effects, lingering>>

Advance(x, phase) ==
    LET a == x.request.agent
    IN  running' = [running EXCEPT ![a] = (@ \ {x}) \cup {[x EXCEPT !.phase = phase]}]

\* GetContainerStatusAsync found the container and it is on the allowlist.
InspectFound(a, x) ==
    /\ x \in running[a]
    /\ x.phase = "inspect"
    /\ Allows(a, x.request.body)
    /\ Advance(x, "control")
    /\ UNCHANGED <<inbox, outbox, sent, gate, completed, effects, lingering>>

\* Not on the allowlist: 403.  No such container: a plain failure.  Docker
\* unreachable: 502, too slow: 504, an invalid answer: 409 (the endpoint maps
\* every InvalidOperationException to a conflict), not JSON: 500.
InspectStops(a, x) ==
    /\ x \in running[a]
    /\ x.phase = "inspect"
    /\ LET q == x.request
       IN  \/ ~Allows(a, q.body) /\ Leave(x, EmptyReply(q, 403))
           \/ Leave(x, ResultReply(q, 200, DefaultResult))
           \/ Leave(x, ResultReply(q, 502, "Unknown"))
           \/ Leave(x, ResultReply(q, 504, "Unknown"))
           \/ Leave(x, MessageReply(q, 409))
           \/ Leave(x, EmptyReply(q, 500))
    /\ UNCHANGED <<effects, lingering>>

ControlSucceeds(a, x) ==
    /\ x \in running[a]
    /\ x.phase = "control"
    /\ Attempt(x.request, "control", "done")
    /\ Return(x, "Succeeded")

ChangeSucceeds(a, x) ==
    /\ x \in running[a]
    /\ x.phase = "change"
    /\ Attempt(x.request, "change", "done")
    /\ Advance(x, "reload")
    /\ UNCHANGED <<inbox, outbox, sent, gate, completed>>

\* A non-zero exit code or an error status: the result is a plain failure,
\* and a failed unit-file change is not followed by a reload.
StepFails(a, x, fate) ==
    /\ x \in running[a]
    /\ x.phase \in {"control", "change"}
    /\ Attempt(x.request, x.phase, fate)
    /\ Return(x, DefaultResult)

\* The process deadline or the agent's shutdown kills a systemctl or busctl
\* process: an unknown result, cached like any other.
ProcessCut(a, x, fate) ==
    /\ x \in running[a]
    /\ x.request.body.kind = "Systemd"
    /\ x.phase \in {"control", "change"}
    /\ Attempt(x.request, x.phase, fate)
    /\ Return(x, "Unknown")

CutReplies(q) == {ResultReply(q, 504, "Unknown"), ResultReply(q, 502, "Unknown")}

\* The Docker socket request times out or breaks: an exception, not cached.
DockerCut(a, x, fate) ==
    /\ x \in running[a]
    /\ x.request.body.kind = "Docker"
    /\ x.phase = "control"
    /\ Attempt(x.request, x.phase, fate)
    /\ \E reply \in CutReplies(x.request) : Leave(x, reply)

ReloadSucceeds(a, x) ==
    /\ x \in running[a]
    /\ x.phase = "reload"
    /\ Attempt(x.request, "reload", "done")
    /\ Return(x, "Succeeded")

\* Reload failed, timed out or was interrupted: one answer for all three.
ReloadFails(a, x, fate) ==
    /\ x \in running[a]
    /\ x.phase = "reload"
    /\ Attempt(x.request, "reload", fate)
    /\ Return(x, "PartiallyCompleted")

-----------------------------------------------------------------------------
(* The host and the agent process *)

\* Docker and systemd jobs continue after the agent stopped waiting for them.
LateEffect(e) ==
    /\ e \in lingering
    /\ effects' = effects \cup {e}
    /\ lingering' = lingering \ {e}
    /\ UNCHANGED <<inbox, outbox, sent, gate, running, completed>>

\* The agent process ends and starts again: gate and cache are in memory, no
\* reply is sent, and the host actions in progress are cut short.
AgentRestart(a) ==
    /\ gate' = [gate EXCEPT ![a] = 1]
    /\ running' = [running EXCEPT ![a] = {}]
    /\ completed' = [completed EXCEPT ![a] = <<>>]
    /\ lingering' = lingering \cup
           {[request |-> x.request, step |-> x.phase] :
               x \in {y \in running[a] : y.phase \in Steps}}
    /\ UNCHANGED <<inbox, outbox, sent, effects>>

-----------------------------------------------------------------------------

Receive(q) == Refuse(q) \/ Conflict(q) \/ ReturnCached(q) \/ RejectRequest(q) \/ Begin(q)

Execute(a, x) ==
    \/ InspectFound(a, x)
    \/ InspectStops(a, x)
    \/ ControlSucceeds(a, x)
    \/ ChangeSucceeds(a, x)
    \/ ReloadSucceeds(a, x)
    \/ \E fate \in Fates :
           \/ StepFails(a, x, fate)
           \/ ProcessCut(a, x, fate)
           \/ DockerCut(a, x, fate)
           \/ ReloadFails(a, x, fate)

AgentNext ==
    \/ \E q \in inbox : Receive(q)
    \/ \E a \in Agents : \E x \in running[a] : Execute(a, x)
    \/ \E e \in lingering : LateEffect(e)
    \/ \E a \in Agents : AgentRestart(a)

ChannelNext ==
    /\ \/ \E q \in inbox : LoseRequest(q)
       \/ \E p \in outbox : LoseReply(p)
    /\ UNCHANGED agentVars

-----------------------------------------------------------------------------
(* What agents alone, and agents behind a UI, keep true *)

\* The semaphore serialises operations: the permit is free exactly when nothing
\* runs, and two executions never overlap (AgentOperations.ExecuteAsync).
Serialized ==
    \A a \in Agents :
        /\ gate[a] = 1 <=> running[a] = {}
        /\ \A x, y \in running[a] : x = y

\* An agent runs what was sent to it.
RunsItsOwn == \A a \in Agents : \A x \in running[a] : x.request.agent = a

AgentInv == AgentTypeOK /\ Serialized /\ RunsItsOwn

\* Requests that are running, whose host actions have taken place, or whose
\* host actions may still take place.
Executing == UNION {{x.request : x \in running[a]} : a \in Agents}
Acted     == {e.request : e \in effects}
Waiting   == {e.request : e \in lingering}

\* Requests that may still act on a host.
Abroad == inbox \cup Executing \cup Waiting

\* Nothing reaches an agent, or happens on a host, that was not sent.
NothingUnsent == Abroad \cup Acted \subseteq sent

\* A host action of that id and body has taken place, whichever call asked.
Performed(q, step) ==
    \E e \in effects : e.request.id = q.id /\ e.request.body = q.body /\ e.step = step

\* What a result claims of a request: "Succeeded", that every host action of it
\* has taken place; "PartiallyCompleted", that the unit files were changed.
Real(q, result) ==
    /\ result = "Succeeded" =>
           IF q.body.operation \in UnitFileVerbs
           THEN Performed(q, "change") /\ Performed(q, "reload")
           ELSE Performed(q, "control")
    /\ result = "PartiallyCompleted" => Performed(q, "change")

\* Statuses by which the agent says that it has not run the request.
Refusals == {400, 401, 403, 409}
=============================================================================
