--------------------------- MODULE MCBrowserScripts ---------------------------
(***************************************************************************)
(* An instance of BrowserScripts for TLC.                                  *)
(***************************************************************************)
EXTENDS BrowserScripts

CONSTANTS t1, t2, m1, m2, m3, h1, h2, c1, c2, s1, i1, i2

\* An id twice, one of a module that was deleted, and one that is none.
MCStores == {Nothing, [readable |-> FALSE, ids |-> <<>>], [readable |-> TRUE, ids |-> <<3, 1, 0, 1>>]}

MCHostOptions == <<h1, h2>>

MCFound ==
    (h1 :> [container |-> <<c1>>, service |-> <<s1>>]) @@ (h2 :> [container |-> <<c2>>, service |-> <<>>])

MCIdOf == (c1 :> i1) @@ (c2 :> i2)

\* One saved with the id of its container, one on a host that is unavailable
\* now, one whose service its host no longer has.
MCSavedModules ==
    {[kind |-> "docker", host |-> h1, container |-> i1, service |-> Blank],
     [kind |-> "docker", host |-> h2, container |-> c2, service |-> Blank],
     [kind |-> "systemd", host |-> h2, container |-> Blank, service |-> s1]}
=============================================================================
