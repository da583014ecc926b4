--------------------------- MODULE OperationLedger ---------------------------
(***************************************************************************)
(* What the operations feature promises, without saying how.  Each request *)
(* id stands for at most one attempt on one host.  The attempt is on       *)
(* record before anything happens, each of its host actions takes place at *)
(* most once, and its recorded verdict is final and truthful.              *)
(***************************************************************************)
CONSTANTS
    Ids,       \* request ids
    Attempts,  \* what may act on behalf of an id
    Steps      \* the host actions

VARIABLES
    status,    \* [Ids -> "Unused", "Pending" or a verdict]
    done,      \* [Ids -> SUBSET (Attempts \X Steps)], actions that took place
    live       \* ids that may still act on the host

vars == <<status, done, live>>

Verdicts == {"Done", "PartlyDone", "NotDone", "Unclear"}

Init ==
    /\ status = [i \in Ids |-> "Unused"]
    /\ done = [i \in Ids |-> {}]
    /\ live = {}

\* The attempt is put on record; it may come to nothing at once.
Accept(i) ==
    /\ status[i] = "Unused"
    /\ status' = [status EXCEPT ![i] = "Pending"]
    /\ live' \in {live, live \cup {i}}
    /\ UNCHANGED done

\* A host action of a live attempt takes place, whatever has been recorded by
\* then: an unclear verdict says nothing of what the host is still doing.
Act(i, a, s) ==
    /\ i \in live
    /\ \A d \in done[i] : d[2] # s
    /\ done' = [done EXCEPT ![i] = @ \cup {<<a, s>>}]
    /\ live' \in {live, live \ {i}}
    /\ UNCHANGED status

\* Nothing of the attempt is left that could act.
Retire(i) ==
    /\ i \in live
    /\ live' = live \ {i}
    /\ UNCHANGED <<status, done>>

Took(i, s) == \E d \in done[i] : d[2] = s

Truthful(i, verdict) ==
    CASE verdict = "Done"       -> Took(i, "control") \/ (Took(i, "change") /\ Took(i, "reload"))
      [] verdict = "PartlyDone" -> Took(i, "change")
      [] verdict = "NotDone"    -> i \notin live /\ done[i] = {}
      [] OTHER                  -> TRUE

Settle(i, verdict) ==
    /\ status[i] = "Pending"
    /\ Truthful(i, verdict)
    /\ status' = [status EXCEPT ![i] = verdict]
    /\ UNCHANGED <<done, live>>

\* A step that changes nothing is none: said first, since it is quick to see.
Next ==
    /\ vars' # vars
    /\ \E i \in Ids :
          \/ Accept(i)
          \/ \E a \in Attempts, s \in Steps : Act(i, a, s)
          \/ Retire(i)
          \/ \E verdict \in Verdicts : Settle(i, verdict)

Spec == Init /\ [][Next]_vars
=============================================================================
