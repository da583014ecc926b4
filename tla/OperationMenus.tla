---------------------------- MODULE OperationMenus ----------------------------
(***************************************************************************)
(* The menus of module operations on a page (operations.js), with the      *)
(* guard that makes the latest request win (request-lifecycle.js).         *)
(*                                                                         *)
(* A menu asks for its forms each time it is opened, and its request is    *)
(* aborted when it is closed.  A form posts one operation; meanwhile the   *)
(* buttons of all menus of the page are disabled.  A rendering of a menu   *)
(* stands for its forms and the request ids they carry.                    *)
(***************************************************************************)
EXTENDS Naturals

CONSTANTS
    Tiles,         \* modules with a menu on the page
    MaxOpenings,   \* bound on how often one menu is opened
    MaxPosts       \* bound on the operations posted

ASSUME MenuBoundsAssumption == MaxOpenings \in Nat /\ MaxPosts \in Nat

VARIABLES
    isOpen,     \* tile -> the dropdown is open
    openings,   \* tile -> how often it was opened; numbers the requests
    current,    \* tile -> the request that is current, 0 for none
    asked,      \* requests for forms that have not ended, <<tile, opening>>
    aborted,    \* those of them that were aborted
    actions,    \* tile -> what the menu holds
    busy,       \* the flag of the script
    posting,    \* the tile whose operation was posted and has not ended, as a set
    buttons,    \* the renderings whose buttons that post disabled
    posts,      \* operations posted so far
    result      \* tile -> what is told of its last operation

menuVars ==
    <<isOpen, openings, current, asked, aborted, actions, busy, posting, buttons, posts, result>>

\* What a menu holds.  Ghosts: "of" is the opening it was put there for, "calm"
\* tells that nothing was posted when the forms were rendered.
Content == [kind : {"empty", "loading", "error", "forms"}, of : 0 .. MaxOpenings,
            enabled : BOOLEAN, calm : BOOLEAN]

Text(kind, n) == [kind |-> kind, of |-> n, enabled |-> FALSE, calm |-> FALSE]

Forms(n) == [kind |-> "forms", of |-> n, enabled |-> ~busy, calm |-> posting = {}]

MenuInit ==
    /\ isOpen = [t \in Tiles |-> FALSE]
    /\ openings = [t \in Tiles |-> 0]
    /\ current = [t \in Tiles |-> 0]
    /\ asked = {}
    /\ aborted = {}
    /\ actions = [t \in Tiles |-> Text("empty", 0)]
    /\ busy = FALSE
    /\ posting = {}
    /\ buttons = {}
    /\ posts = 0
    /\ result = [t \in Tiles |-> "none"]

\* LatestRequest: cancelling aborts the current request, a new one cancels it.
Aborted(t) == aborted \cup (asked \cap {<<t, current[t]>>})

Cancel(t) ==
    /\ aborted' = Aborted(t)
    /\ current' = [current EXCEPT ![t] = 0]
    /\ UNCHANGED asked

Begin(t, n) ==
    /\ aborted' = Aborted(t)
    /\ current' = [current EXCEPT ![t] = n]
    /\ asked' = asked \cup {<<t, n>>}

\* Fault: the result of any request is put in the menu.
IsAny(t, n) == n > 0

IsCurrent(t, n) == current[t] = n /\ <<t, n>> \notin aborted

\* Opening one menu closes the others first (Bootstrap).
ShowMenu(t) ==
    /\ \A u \in Tiles : ~isOpen[u]
    /\ openings[t] < MaxOpenings
    /\ isOpen' = [isOpen EXCEPT ![t] = TRUE]
    /\ openings' = [openings EXCEPT ![t] = @ + 1]
    /\ Begin(t, openings[t] + 1)
    /\ actions' = [actions EXCEPT ![t] = Text("loading", openings[t] + 1)]
    /\ UNCHANGED <<busy, posting, buttons, posts, result>>

HideMenu(t) ==
    /\ isOpen[t]
    /\ isOpen' = [isOpen EXCEPT ![t] = FALSE]
    /\ Cancel(t)
    /\ UNCHANGED <<openings, actions, busy, posting, buttons, posts, result>>

\* A request ends: with forms unless it was aborted, or with an error, which
\* for an aborted one is the AbortError.
MenuRequestEnds(t, n) ==
    /\ <<t, n>> \in asked
    /\ asked' = asked \ {<<t, n>>}
    /\ aborted' = aborted \ {<<t, n>>}
    /\ \/ /\ IsCurrent(t, n)
          /\ \/ <<t, n>> \notin aborted /\ actions' = [actions EXCEPT ![t] = Forms(n)]
             \/ actions' = [actions EXCEPT ![t] = Text("error", n)]
       \/ ~IsCurrent(t, n) /\ UNCHANGED actions
    /\ UNCHANGED <<isOpen, openings, current, busy, posting, buttons, posts, result>>

Rendered == {t \in Tiles : actions[t].kind = "forms"}

WithButtons(renderings, enabled) ==
    [t \in Tiles |-> IF t \in Rendered /\ <<t, actions[t].of>> \in renderings
                     THEN [actions[t] EXCEPT !.enabled = enabled] ELSE actions[t]]

\* A form of tile t is submitted and confirmed: a browser submits none whose
\* button is disabled, the script none while it is busy.  The menu is hidden,
\* which cancels its request.
Submit(t) ==
    /\ isOpen[t] /\ t \in Rendered /\ actions[t].enabled
    /\ ~busy
    /\ posts < MaxPosts
    /\ posts' = posts + 1
    /\ isOpen' = [isOpen EXCEPT ![t] = FALSE]
    /\ Cancel(t)
    /\ busy' = TRUE
    /\ posting' = {t}
    /\ buttons' = {<<u, actions[u].of>> : u \in Rendered}
    /\ actions' = WithButtons(buttons', FALSE)
    /\ result' = [result EXCEPT ![t] = "running"]
    /\ UNCHANGED openings

\* Fault: only the menu of the operation gets its buttons back.
PostEndsHere(t) ==
    /\ t \in posting
    /\ \E told \in {"done", "failed"} : result' = [result EXCEPT ![t] = told]
    /\ busy' = FALSE
    /\ posting' = {}
    /\ actions' = WithButtons({b \in buttons : b[1] = t}, TRUE)
    /\ buttons' = {}
    /\ UNCHANGED <<isOpen, openings, current, asked, aborted, posts>>

\* The post is answered or fails; only the buttons it disabled are enabled
\* again, and of those only what is still on the page matters.
PostEnds(t) ==
    /\ t \in posting
    /\ \E told \in {"done", "failed"} : result' = [result EXCEPT ![t] = told]
    /\ busy' = FALSE
    /\ posting' = {}
    /\ actions' = WithButtons(buttons, TRUE)
    /\ buttons' = {}
    /\ UNCHANGED <<isOpen, openings, current, asked, aborted, posts>>

MenuNext ==
    \/ \E t \in Tiles : ShowMenu(t) \/ HideMenu(t) \/ Submit(t) \/ PostEnds(t)
    \/ \E t \in Tiles, n \in 1 .. MaxOpenings : MenuRequestEnds(t, n)

MenuTypeOK ==
    /\ isOpen \in [Tiles -> BOOLEAN]
    /\ openings \in [Tiles -> 0 .. MaxOpenings]
    /\ current \in [Tiles -> 0 .. MaxOpenings]
    /\ asked \subseteq Tiles \X (1 .. MaxOpenings)
    /\ aborted \subseteq asked
    /\ actions \in [Tiles -> Content]
    /\ busy \in BOOLEAN
    /\ posting \in SUBSET Tiles
    /\ buttons \subseteq Tiles \X (1 .. MaxOpenings)
    /\ posts \in 0 .. MaxPosts
    /\ result \in [Tiles -> {"none", "running", "done", "failed"}]

\* A menu holds only what its latest opening asked for, never the forms or the
\* error of an earlier one that ends late, and an open menu that says that it
\* loads has a request under way that will replace the words.
MenuIsOfItsOpening ==
    \A t \in Tiles :
        /\ actions[t].of = openings[t]
        /\ isOpen[t] /\ actions[t].kind = "loading" =>
               <<t, openings[t]>> \in asked \ aborted

\* While an operation runs no button of the page can be pressed, also in menus
\* that were filled meanwhile; afterwards all can that were rendered while
\* nothing ran.  The tile that says "running" is the one whose operation runs.
ButtonsFollowTheOperation ==
    /\ \A t \in Rendered :
           /\ actions[t].enabled => posting = {}
           /\ posting = {} /\ actions[t].calm => actions[t].enabled
    /\ \A t \in Tiles : result[t] = "running" <=> t \in posting
=============================================================================
