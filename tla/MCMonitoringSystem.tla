------------------------- MODULE MCMonitoringSystem -------------------------
(***************************************************************************)
(* Instances of MonitoringSystem for TLC: hosts that run one docker module *)
(* or two, and a module that may be changed to an HTTP one or moved.       *)
(***************************************************************************)
EXTENDS MonitoringInvariant, TLC

CONSTANTS h1, url1, url2, docker, http, w1, w2, e1, e2, up, down

MCOneModule  == {1}
MCTwoModules == {1, 2}

NoSkew == [p \in Sessions |-> 0]

\* The second replica runs w2 and e2, its clock is one interval ahead.
OneAhead == [p \in Sessions |-> IF p \in {w2, e2} THEN 1 ELSE 0]

\* On the host, on or off; as an HTTP module on the host or on none.
AllForms == [host : {h1}, target : {docker}, enabled : BOOLEAN]
            \cup [host : {h1, None}, target : {http}, enabled : {TRUE}]

\* Forms of a docker module that stays on its host.
InPlaceForms == [host : {h1}, target : {docker}, enabled : BOOLEAN]

\* A module on the host, or away from it.
MovingForms == {[host |-> h1, target |-> docker, enabled |-> TRUE],
                [host |-> None, target |-> http, enabled |-> TRUE]}

\* Where the clocks agree, workers, editors and answers have no roles.
Interchangeable == Permutations({w1, w2}) \cup Permutations({e1, e2}) \cup Permutations({up, down})

Host(life, url) ==
    [life |-> life, url |-> url, enabled |-> life = "live", version |-> 0, vouched |-> url]

Module(life, host, target) ==
    [life |-> life, host |-> host, target |-> target, enabled |-> life = "live",
     version |-> 0, monitoringVersion |-> 0]

LiveHosts == {[h \in Hosts |-> Host("live", url1)]}

AnyHosts == LiveHosts \cup {[h \in Hosts |-> Host("absent", url1)]}

DockerModules == {[m \in Modules |-> Module("live", h1, docker)]}

HttpModules == {[m \in Modules |-> Module("live", None, http)]}

AnyModules == DockerModules \cup {[m \in Modules |-> Module("absent", None, http)]}
=============================================================================
