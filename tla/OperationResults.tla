-------------------------- MODULE OperationResults --------------------------
(***************************************************************************)
(* The vocabulary the UI and the host agent share (Webboard.Contracts):    *)
(* kinds, operation verbs and results.  Of a result only what a user or    *)
(* the code can act on is kept: its Outcome.  One outcome is split in two: *)
(* "NotDispatched" is Outcome = Failed with the message "Operation was not *)
(* dispatched.", which tells the user that it is safe to retry.  Reasons,  *)
(* exit codes, captured output and other wording are left out, and so is   *)
(* Success, which is Outcome = Succeeded wherever the code builds a result.*)
(* TimedOut is in the contract for older agents; this agent never sends it.*)
(***************************************************************************)

Kinds == {"Docker", "Systemd"}

RuntimeVerbs  == {"start", "stop", "restart"}
UnitFileVerbs == {"enable", "disable"}
Verbs         == RuntimeVerbs \cup UnitFileVerbs

Result == {"Succeeded", "Rejected", "Failed", "NotDispatched", "Unknown",
           "PartiallyCompleted"}

\* What an object without an outcome deserialises to when it claims neither
\* success nor a timeout: the initialisers of AgentOperationResult.
DefaultResult == "Failed"
=============================================================================
