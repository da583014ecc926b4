--------------------------- MODULE MCAgentService ---------------------------
(***************************************************************************)
(* AgentService on one agent: a Docker container and a unit that are       *)
(* allowed, and a target that is not.                                      *)
(***************************************************************************)
EXTENDS AgentService, TLC

CONSTANTS m1, container, unit, other

MCAllowlist == [a \in Agents |-> {<<"Docker", container>>, <<"Systemd", unit>>}]

Ask(kind, target, operation) ==
    [module |-> m1, kind |-> kind, target |-> target, operation |-> operation]

\* Two operations the agent performs (one step, two steps), one it does not
\* support, and a unit and a container it does not allow.
MCBodies == {Ask("Docker", container, "restart"), Ask("Systemd", unit, "enable"),
             Ask("Docker", container, "enable"),
             Ask("Systemd", other, "start"), Ask("Docker", other, "stop")}

\* One operation under many request ids.
MCOneBody == {Ask("Systemd", unit, "start")}

CallSymmetry == Permutations(Calls) \cup Permutations(RequestIds)
=============================================================================
