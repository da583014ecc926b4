---------------------------- MODULE BrowserScripts ----------------------------
(***************************************************************************)
(* The scripts of the user interface.  They run on pages of their own or   *)
(* beside each other; they share neither variables nor keys of the         *)
(* browser's storage, and change different things of the elements they     *)
(* share: a behaviour of all of them is an interleaving of behaviours of   *)
(* each, and no property relates two.  So one script is chosen at the      *)
(* start, and the others stay as they are.                                 *)
(***************************************************************************)
EXTENDS OperationMenus, DashboardRefresh, ModuleOrder, ModuleEditor, MonitoringHistory

CONSTANT Scripts   \* the scripts that may be chosen

AllScripts == {"menus", "refresh", "order", "editor", "history"}

ASSUME ScriptsAssumption == Scripts \subseteq AllScripts

VARIABLE script    \* the script that runs

scriptVars == <<script, menuVars, refreshVars, orderVars, editorVars, historyVars>>

Init ==
    /\ script \in Scripts
    /\ MenuInit /\ RefreshInit /\ OrderInit /\ EditorInit /\ HistoryInit
    /\ script # "order" => store = Nothing
    /\ script # "refresh" => ~behind

Idle(s) ==
    /\ s # "menus" => UNCHANGED menuVars
    /\ s # "refresh" => UNCHANGED refreshVars
    /\ s # "order" => UNCHANGED orderVars
    /\ s # "editor" => UNCHANGED editorVars
    /\ s # "history" => UNCHANGED historyVars

Next ==
    /\ UNCHANGED script
    /\ \/ script = "menus" /\ MenuNext
       \/ script = "refresh" /\ RefreshNext
       \/ script = "order" /\ OrderNext
       \/ script = "editor" /\ EditorNext
       \/ script = "history" /\ HistoryNext
    /\ Idle(script)

Spec == Init /\ [][Next]_scriptVars

\* The timer of the dashboard goes off again and again; the server answers, and
\* a browser waits 10 seconds for it at most.
FairSpec ==
    /\ Spec
    /\ WF_refreshVars(script = "refresh" /\ RefreshTimer)
    /\ \A s \in Slots :
           /\ WF_refreshVars(script = "refresh" /\ ServerAnswers(s))
           /\ WF_refreshVars(script = "refresh" /\ (RefreshSucceeds(s) \/ RefreshFails(s)))

\* The variables of all scripts keep their types.
TypeOK ==
    /\ script \in AllScripts
    /\ MenuTypeOK /\ RefreshTypeOK /\ OrderTypeOK /\ EditorTypeOK /\ HistoryTypeOK
=============================================================================
