------------------------- MODULE MCOperationsSystem -------------------------
(***************************************************************************)
(* The operations system on one or two hosts.                              *)
(***************************************************************************)
EXTENDS OperationsTruth, TLC

CONSTANTS u1, u2, m1, h1, h2, a1, container, unit

MCAgentOf == [h \in Hosts |-> a1]

\* Two users who want different things, perhaps under one id: a restart is one
\* step on the host, enabling a unit is two.
MCTwoUsers == {[actor |-> u1, module |-> m1, operation |-> "enable"],
               [actor |-> u2, module |-> m1, operation |-> "restart"]}

MCOneUser == {[actor |-> u1, module |-> m1, operation |-> "restart"]}

Unit(h)   == [host |-> h, kind |-> "Systemd", target |-> unit]
Docker(h) == [host |-> h, kind |-> "Docker", target |-> container]

MCDockerRows == [m \in Modules |-> {Docker(h1)}]

\* The module is moved between two hosts behind one agent, where it is a unit
\* on the one and a container on the other.
MCMovingRows == [m \in Modules |-> {Unit(h1), Docker(h2)}]

MCAllowlist == [a \in Agents |-> {<<"Docker", container>>, <<"Systemd", unit>>}]

Interchangeable == Permutations(Calls) \cup Permutations(RequestIds)
=============================================================================
