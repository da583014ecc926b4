---------------------------- MODULE AgentChannel ----------------------------
(***************************************************************************)
(* HTTP between the UI and the host agents.  Each call opens one request   *)
(* and receives at most one reply.  A request can be lost, or reach the    *)
(* agent after the UI has given up on it; a reply can be lost, or find     *)
(* nobody waiting.  HTTP over TCP does not duplicate.                      *)
(***************************************************************************)
EXTENDS OperationResults

CONSTANTS
    Calls,       \* executions of ModuleOperationService.ExecuteAsync
    RequestIds,  \* the GUIDs the browser puts in a form
    Modules,     \* module rows
    Agents,      \* agent processes, one per AgentBaseUrl
    Targets      \* container ids or names, and unit names

VARIABLES
    inbox,       \* requests in flight towards an agent
    outbox,      \* replies in flight towards the UI
    sent         \* ghost: every request ever put on the wire

channelVars == <<inbox, outbox, sent>>

\* What is asked of a host: AgentOperationRequest without its request id.
Body == [module : Modules, kind : Kinds, target : Targets, operation : Verbs]

Request == [agent : Agents, call : Calls, id : RequestIds, body : Body]

Statuses == {200, 400, 401, 403, 409, 500, 502, 504}

\* The body of a reply is an OperationResult, an object with nothing but a
\* message, or nothing that can be deserialised.
BodyForms == {"result", "message", "none"}

Reply == [call : Calls, status : Statuses, form : BodyForms, result : Result]

ChannelTypeOK ==
    /\ inbox \subseteq Request
    /\ outbox \subseteq Reply
    /\ sent \subseteq Request

ChannelInit ==
    /\ inbox = {}
    /\ outbox = {}
    /\ sent = {}

ResultReply(q, status, result) ==
    [call |-> q.call, status |-> status, form |-> "result", result |-> result]

\* Replies of form "message" and "none" carry no result of their own; the
\* field holds what JSON defaults would give.
MessageReply(q, status) ==
    [call |-> q.call, status |-> status, form |-> "message", result |-> DefaultResult]

EmptyReply(q, status) ==
    [call |-> q.call, status |-> status, form |-> "none", result |-> DefaultResult]

Send(q) ==
    /\ inbox' = inbox \cup {q}
    /\ sent' = sent \cup {q}
    /\ UNCHANGED outbox

\* The connection breaks before the agent reads the request.
LoseRequest(q) ==
    /\ q \in inbox
    /\ inbox' = inbox \ {q}
    /\ UNCHANGED <<outbox, sent>>

\* The connection breaks before the UI reads the reply.
LoseReply(p) ==
    /\ p \in outbox
    /\ outbox' = outbox \ {p}
    /\ UNCHANGED <<inbox, sent>>
=============================================================================
