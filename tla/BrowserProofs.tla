---------------------------- MODULE BrowserProofs ----------------------------
(***************************************************************************)
(* What the scripts of the user interface promise, for any number of       *)
(* menus, tiles and operations.  Each script is treated alone, with an     *)
(* invariant of its own variables; a step of another script leaves these   *)
(* as they are.                                                            *)
(***************************************************************************)
EXTENDS BrowserScripts, HistoryProofs

(***************************************************************************)
(* The menus of operations.                                                *)
(***************************************************************************)

\* The request that is current, if any, is the one of the latest opening.
CurrentIsLatest(t) ==
    /\ current[t] \in {0, openings[t]}
    /\ \A n : <<t, n>> \in asked => n <= openings[t]
    /\ isOpen[t] => current[t] = openings[t]
    /\ actions[t].of = openings[t]
    /\ actions[t].kind = "forms" => openings[t] > 0
    /\ isOpen[t] /\ actions[t].kind = "loading" => <<t, openings[t]>> \in asked \ aborted

\* The flag, the post and the buttons it disabled belong together.
OnePost ==
    /\ busy <=> posting # {}
    /\ \A t, u \in posting : t = u

ButtonsAreKnown(t) ==
    /\ actions[t].kind = "forms" =>
           /\ actions[t].enabled => posting = {}
           /\ posting = {} /\ actions[t].calm => actions[t].enabled
           /\ posting # {} /\ actions[t].calm => <<t, actions[t].of>> \in buttons
    /\ result[t] = "running" <=> t \in posting

MenuInv ==
    /\ MenuTypeOK
    /\ OnePost
    /\ \A t \in Tiles : CurrentIsLatest(t) /\ ButtonsAreKnown(t)

LEMMA MenuInvInit == MenuInit => MenuInv
<1> SUFFICES ASSUME MenuInit PROVE MenuInv
    OBVIOUS
<1>1. 0 \in 0 .. MaxOpenings /\ 0 \in 0 .. MaxPosts
    BY MenuBoundsAssumption
<1>2. MenuTypeOK
    BY <1>1 DEF MenuInit, MenuTypeOK, Text, Content
<1>3. OnePost
    BY DEF MenuInit, OnePost
<1>4. \A t \in Tiles : CurrentIsLatest(t) /\ ButtonsAreKnown(t)
    BY DEF MenuInit, CurrentIsLatest, ButtonsAreKnown, Text
<1> QED BY <1>2, <1>3, <1>4 DEF MenuInv

\* A menu that is opened asks for its forms.
LEMMA ShowMenuHolds ==
    ASSUME MenuInv, NEW t \in Tiles, ShowMenu(t)
    PROVE  MenuInv'
<1> DEFINE n == openings[t] + 1
<1>1. n \in 1 .. MaxOpenings /\ n \in 0 .. MaxOpenings /\ openings[t] \in 0 .. MaxOpenings
    BY MenuBoundsAssumption DEF MenuInv, MenuTypeOK, ShowMenu
<1>2. /\ asked' = asked \cup {<<t, n>>}
      /\ aborted' = aborted \cup (asked \cap {<<t, current[t]>>})
      /\ current' = [current EXCEPT ![t] = n]
      /\ openings' = [openings EXCEPT ![t] = n]
    BY DEF ShowMenu, Begin, Aborted
<1>3. actions' = [actions EXCEPT ![t] = Text("loading", n)] /\ Text("loading", n) \in Content
    BY <1>1 DEF ShowMenu, Text, Content
<1>4. MenuTypeOK'
    <2>1. asked' \subseteq Tiles \X (1 .. MaxOpenings) /\ aborted' \subseteq asked'
        BY <1>1, <1>2 DEF MenuInv, MenuTypeOK
    <2>2. openings' \in [Tiles -> 0 .. MaxOpenings] /\ current' \in [Tiles -> 0 .. MaxOpenings]
        BY <1>1, <1>2 DEF MenuInv, MenuTypeOK
    <2>3. actions' \in [Tiles -> Content]
        BY <1>3 DEF MenuInv, MenuTypeOK
    <2> QED BY <2>1, <2>2, <2>3 DEF MenuInv, MenuTypeOK, ShowMenu
<1>5. OnePost'
    BY DEF MenuInv, OnePost, ShowMenu
<1>6. ASSUME NEW u \in Tiles PROVE CurrentIsLatest(u)' /\ ButtonsAreKnown(u)'
    <2>1. CurrentIsLatest(u) /\ ButtonsAreKnown(u)
        BY DEF MenuInv
    <2>2. CASE u = t
        <3>1. /\ openings'[t] = n /\ current'[t] = n /\ actions'[t].of = n
              /\ actions'[t].kind = "loading"
            BY <1>2, <1>3 DEF MenuInv, MenuTypeOK, Text
        <3>2. <<t, n>> \notin asked
            BY <1>1, <2>1, <2>2 DEF CurrentIsLatest
        <3>3. <<t, n>> \in asked' \ aborted'
            BY <1>2, <3>2 DEF MenuInv, MenuTypeOK
        <3>4. \A k : <<t, k>> \in asked' => k <= n
            BY <1>1, <1>2, <2>1, <2>2 DEF CurrentIsLatest, MenuInv, MenuTypeOK
        <3>5. CurrentIsLatest(u)'
            BY <1>1, <2>2, <3>1, <3>3, <3>4 DEF CurrentIsLatest
        <3>6. ButtonsAreKnown(u)'
            BY <2>1, <2>2, <3>1 DEF ButtonsAreKnown, ShowMenu
        <3> QED BY <3>5, <3>6
    <2>3. CASE u # t
        <3>1. /\ openings'[u] = openings[u] /\ current'[u] = current[u] /\ actions'[u] = actions[u]
              /\ isOpen'[u] = isOpen[u]
            BY <1>2, <1>3, <2>3 DEF MenuInv, MenuTypeOK, ShowMenu
        <3>2. \A k : (<<u, k>> \in asked' <=> <<u, k>> \in asked) /\ (<<u, k>> \in aborted' <=> <<u, k>> \in aborted)
            BY <1>2, <2>3
        <3>3. CurrentIsLatest(u)'
            BY <2>1, <3>1, <3>2 DEF CurrentIsLatest
        <3>4. ButtonsAreKnown(u)'
            BY <2>1, <3>1 DEF ButtonsAreKnown, ShowMenu
        <3> QED BY <3>3, <3>4
    <2> QED BY <2>2, <2>3
<1> QED BY <1>4, <1>5, <1>6 DEF MenuInv

\* Cancelling a request leaves those of other menus alone.
LEMMA CancelHolds ==
    ASSUME MenuTypeOK, NEW t \in Tiles, Cancel(t)
    PROVE  /\ asked' = asked /\ aborted' \subseteq asked
           /\ current' \in [Tiles -> 0 .. MaxOpenings]
           /\ current'[t] = 0
           /\ \A u \in Tiles \ {t} :
                  /\ current'[u] = current[u]
                  /\ \A n : <<u, n>> \in aborted' <=> <<u, n>> \in aborted
<1>1. 0 \in 0 .. MaxOpenings
    BY MenuBoundsAssumption
<1> QED BY <1>1 DEF Cancel, Aborted, MenuTypeOK

\* So does a menu that is closed, which also cancels its request.
LEMMA ClosedIsLatest ==
    ASSUME MenuInv, NEW t \in Tiles, Cancel(t), isOpen' = [isOpen EXCEPT ![t] = FALSE],
           UNCHANGED openings, NEW u \in Tiles,
           actions'[u].of = actions[u].of, actions'[u].kind = actions[u].kind
    PROVE  CurrentIsLatest(u)'
<1>1. CurrentIsLatest(u) /\ MenuTypeOK
    BY DEF MenuInv
<1>2. isOpen'[u] => isOpen[u] /\ u # t
    BY <1>1 DEF MenuTypeOK
<1> QED BY <1>1, <1>2, CancelHolds DEF CurrentIsLatest

LEMMA HideMenuHolds ==
    ASSUME MenuInv, NEW t \in Tiles, HideMenu(t)
    PROVE  MenuInv'
<1>1. MenuTypeOK /\ Cancel(t)
    BY DEF MenuInv, HideMenu
<1>2. MenuTypeOK'
    BY <1>1, CancelHolds DEF MenuTypeOK, HideMenu
<1>3. OnePost'
    BY DEF MenuInv, OnePost, HideMenu
<1>4. ASSUME NEW u \in Tiles PROVE CurrentIsLatest(u)' /\ ButtonsAreKnown(u)'
    <2>1. CurrentIsLatest(u)'
        BY ClosedIsLatest DEF HideMenu
    <2>2. ButtonsAreKnown(u)'
        BY DEF HideMenu, ButtonsAreKnown, MenuInv
    <2> QED BY <2>1, <2>2
<1> QED BY <1>2, <1>3, <1>4 DEF MenuInv

\* The end of a request changes its menu only when it is the current one.
LEMMA MenuRequestEndsHolds ==
    ASSUME MenuInv, NEW t \in Tiles, NEW n \in 1 .. MaxOpenings, MenuRequestEnds(t, n)
    PROVE  MenuInv'
<1>1. /\ UNCHANGED <<isOpen, openings, current, busy, posting, buttons, posts, result>>
      /\ asked' = asked \ {<<t, n>>} /\ aborted' = aborted \ {<<t, n>>}
      /\ \/ UNCHANGED actions /\ ~IsCurrent(t, n)
         \/ /\ IsCurrent(t, n)
            /\ \E now \in {Forms(n), Text("error", n)} : actions' = [actions EXCEPT ![t] = now]
    BY DEF MenuRequestEnds
<1>2. Forms(n) \in Content /\ Text("error", n) \in Content
    BY MenuBoundsAssumption DEF Forms, Text, Content, MenuInv, MenuTypeOK
<1>3. MenuTypeOK'
    <2>1. actions' \in [Tiles -> Content]
        BY <1>1, <1>2 DEF MenuInv, MenuTypeOK
    <2> QED BY <1>1, <2>1 DEF MenuInv, MenuTypeOK
<1>4. OnePost'
    BY <1>1 DEF MenuInv, OnePost
<1>5. IsCurrent(t, n) => n = openings[t]
    <2>1. CurrentIsLatest(t)
        BY DEF MenuInv
    <2>2. current[t] \in {0, openings[t]} /\ n # 0
        BY <2>1 DEF CurrentIsLatest
    <2> QED BY <2>2 DEF IsCurrent
<1>6. ASSUME NEW u \in Tiles PROVE CurrentIsLatest(u)' /\ ButtonsAreKnown(u)'
    <2>1. CurrentIsLatest(u) /\ ButtonsAreKnown(u)
        BY DEF MenuInv
    <2>2. CASE u = t /\ IsCurrent(t, n)
        <3>1. actions'[t] \in {Forms(n), Text("error", n)}
            BY <1>1, <2>2 DEF MenuInv, MenuTypeOK
        <3>2. n > 0 /\ actions'[t].of = n /\ actions'[t].kind \in {"forms", "error"}
            BY <3>1 DEF Forms, Text
        <3>3. CurrentIsLatest(u)'
            BY <1>1, <1>5, <2>1, <2>2, <3>2 DEF CurrentIsLatest
        <3>4. busy <=> posting # {}
            BY DEF MenuInv, OnePost
        <3>5. Forms(n).enabled = ~busy /\ Forms(n).calm = (posting = {})
            BY Zenon DEF Forms
        <3>6. actions'[t].kind = "forms" =>
                  (actions'[t].enabled <=> ~busy) /\ (actions'[t].calm <=> posting = {})
            <4>1. CASE actions'[t] = Forms(n)
                BY <3>5, <4>1
            <4>2. CASE actions'[t] = Text("error", n)
                BY <4>2 DEF Text
            <4> QED BY <3>1, <4>1, <4>2
        <3>7. ButtonsAreKnown(u)'
            BY <1>1, <2>1, <2>2, <3>4, <3>6 DEF ButtonsAreKnown
        <3> QED BY <3>3, <3>7
    <2>3. CASE u # t \/ ~IsCurrent(t, n)
        <3>1. actions'[u] = actions[u]
            BY <1>1, <2>3 DEF MenuInv, MenuTypeOK
        <3>2. isOpen[u] /\ actions[u].kind = "loading" => <<t, n>> # <<u, openings[u]>>
            BY <2>1, <2>3 DEF CurrentIsLatest, IsCurrent
        <3>3. CurrentIsLatest(u)'
            BY <1>1, <2>1, <3>1, <3>2 DEF CurrentIsLatest
        <3>4. ButtonsAreKnown(u)'
            BY <1>1, <2>1, <3>1 DEF ButtonsAreKnown
        <3> QED BY <3>3, <3>4
    <2> QED BY <2>2, <2>3
<1> QED BY <1>3, <1>4, <1>6 DEF MenuInv

\* Disabling buttons changes nothing else of a menu, and so does enabling them.
LEMMA DisabledIs ==
    ASSUME MenuTypeOK, NEW known
    PROVE  /\ WithButtons(known, FALSE) \in [Tiles -> Content]
           /\ \A u \in Tiles :
                  /\ WithButtons(known, FALSE)[u].kind = actions[u].kind
                  /\ WithButtons(known, FALSE)[u].of = actions[u].of
                  /\ u \in Rendered /\ <<u, actions[u].of>> \in known => ~WithButtons(known, FALSE)[u].enabled
<1>1. \A u \in Tiles : [actions[u] EXCEPT !.enabled = FALSE] \in Content /\ actions[u] \in Content
    BY DEF MenuTypeOK, Content
<1>2. WithButtons(known, FALSE) \in [Tiles -> Content]
    BY <1>1 DEF WithButtons
<1>3. ASSUME NEW u \in Tiles
      PROVE  /\ WithButtons(known, FALSE)[u].kind = actions[u].kind
             /\ WithButtons(known, FALSE)[u].of = actions[u].of
             /\ u \in Rendered /\ <<u, actions[u].of>> \in known => ~WithButtons(known, FALSE)[u].enabled
    BY <1>1 DEF WithButtons, Content
<1> QED BY <1>2, <1>3

LEMMA EnabledIs ==
    ASSUME MenuTypeOK, NEW known
    PROVE  /\ WithButtons(known, TRUE) \in [Tiles -> Content]
           /\ \A u \in Tiles :
                  /\ WithButtons(known, TRUE)[u].kind = actions[u].kind
                  /\ WithButtons(known, TRUE)[u].of = actions[u].of
                  /\ WithButtons(known, TRUE)[u].calm = actions[u].calm
                  /\ u \in Rendered /\ <<u, actions[u].of>> \in known => WithButtons(known, TRUE)[u].enabled
<1>1. \A u \in Tiles : [actions[u] EXCEPT !.enabled = TRUE] \in Content /\ actions[u] \in Content
    BY DEF MenuTypeOK, Content
<1>2. WithButtons(known, TRUE) \in [Tiles -> Content]
    BY <1>1 DEF WithButtons
<1>3. ASSUME NEW u \in Tiles
      PROVE  /\ WithButtons(known, TRUE)[u].kind = actions[u].kind
             /\ WithButtons(known, TRUE)[u].of = actions[u].of
             /\ WithButtons(known, TRUE)[u].calm = actions[u].calm
             /\ u \in Rendered /\ <<u, actions[u].of>> \in known => WithButtons(known, TRUE)[u].enabled
    BY <1>1 DEF WithButtons, Content
<1> QED BY <1>2, <1>3

\* A form is posted: all forms there are get disabled, and are remembered.
LEMMA SubmitHolds ==
    ASSUME MenuInv, NEW t \in Tiles, Submit(t)
    PROVE  MenuInv'
<1>1. /\ MenuTypeOK /\ Cancel(t)
      /\ actions' = WithButtons(buttons', FALSE)
      /\ buttons' = {<<u, actions[u].of>> : u \in Rendered}
      /\ UNCHANGED openings /\ isOpen' = [isOpen EXCEPT ![t] = FALSE]
      /\ result' = [result EXCEPT ![t] = "running"] /\ posting' = {t} /\ busy' = TRUE
      /\ posting = {} /\ posts' \in 0 .. MaxPosts
    BY MenuBoundsAssumption DEF MenuInv, OnePost, Submit, MenuTypeOK
<1>2. ASSUME NEW u \in Rendered PROVE u \in Tiles /\ actions[u].of \in 1 .. MaxOpenings
    <2>1. u \in Tiles /\ actions[u].kind = "forms"
        BY DEF Rendered
    <2>2. CurrentIsLatest(u) /\ openings[u] \in 0 .. MaxOpenings
        BY <1>1, <2>1 DEF MenuInv, MenuTypeOK
    <2> QED BY <2>1, <2>2, MenuBoundsAssumption DEF CurrentIsLatest
<1>3. /\ actions' \in [Tiles -> Content]
      /\ \A u \in Tiles :
             /\ actions'[u].kind = actions[u].kind /\ actions'[u].of = actions[u].of
             /\ u \in Rendered /\ <<u, actions[u].of>> \in buttons' => ~actions'[u].enabled
    BY <1>1, DisabledIs, Zenon
<1>4. MenuTypeOK'
    <2>1. buttons' \subseteq Tiles \X (1 .. MaxOpenings)
        BY <1>1, <1>2
    <2>2. result' \in [Tiles -> {"none", "running", "done", "failed"}] /\ isOpen' \in [Tiles -> BOOLEAN]
        BY <1>1 DEF MenuTypeOK
    <2> QED BY <1>1, <1>3, <2>1, <2>2, CancelHolds DEF MenuTypeOK
<1>5. OnePost'
    BY <1>1 DEF OnePost
<1>6. ASSUME NEW u \in Tiles PROVE CurrentIsLatest(u)' /\ ButtonsAreKnown(u)'
    <2>1. /\ actions'[u].kind = actions[u].kind /\ actions'[u].of = actions[u].of
          /\ u \in Rendered /\ <<u, actions[u].of>> \in buttons' => ~actions'[u].enabled
        BY <1>3
    <2>2. CurrentIsLatest(u)'
        BY <1>1, <2>1, ClosedIsLatest
    <2>3. actions[u].kind = "forms" => <<u, actions[u].of>> \in buttons'
        BY <1>1 DEF Rendered
    <2>4. actions[u].kind = "forms" => ~actions'[u].enabled
        BY <2>1, <2>3 DEF Rendered
    <2>5. result'[u] = "running" <=> u = t
        BY <1>1 DEF MenuInv, MenuTypeOK, ButtonsAreKnown
    <2>6. ButtonsAreKnown(u)'
        BY <1>1, <2>1, <2>3, <2>4, <2>5 DEF ButtonsAreKnown
    <2> QED BY <2>2, <2>6
<1> QED BY <1>4, <1>5, <1>6 DEF MenuInv

\* The operation ends: the forms it disabled are enabled again.
LEMMA PostEndsHolds ==
    ASSUME MenuInv, NEW t \in Tiles, PostEnds(t)
    PROVE  MenuInv'
<1>1. /\ MenuTypeOK /\ OnePost
      /\ actions' = WithButtons(buttons, TRUE)
      /\ \E told \in {"done", "failed"} : result' = [result EXCEPT ![t] = told]
      /\ t \in posting /\ posting' = {} /\ busy' = FALSE /\ buttons' = {}
      /\ UNCHANGED <<isOpen, openings, current, asked, aborted, posts>>
    BY DEF MenuInv, PostEnds
<1>2. /\ actions' \in [Tiles -> Content]
      /\ \A u \in Tiles :
             /\ actions'[u].kind = actions[u].kind /\ actions'[u].of = actions[u].of
             /\ actions'[u].calm = actions[u].calm
             /\ u \in Rendered /\ <<u, actions[u].of>> \in buttons => actions'[u].enabled
    BY <1>1, EnabledIs, Zenon
<1>3. MenuTypeOK'
    <2>1. result' \in [Tiles -> {"none", "running", "done", "failed"}]
        BY <1>1 DEF MenuTypeOK
    <2> QED BY <1>1, <1>2, <2>1 DEF MenuTypeOK
<1>4. OnePost'
    BY <1>1 DEF OnePost
<1>5. ASSUME NEW u \in Tiles PROVE CurrentIsLatest(u)' /\ ButtonsAreKnown(u)'
    <2>1. CurrentIsLatest(u) /\ ButtonsAreKnown(u)
        BY DEF MenuInv
    <2>2. /\ actions'[u].kind = actions[u].kind /\ actions'[u].of = actions[u].of
          /\ actions'[u].calm = actions[u].calm
          /\ u \in Rendered /\ <<u, actions[u].of>> \in buttons => actions'[u].enabled
        BY <1>2
    <2>3. CurrentIsLatest(u)'
        BY <1>1, <2>1, <2>2 DEF CurrentIsLatest
    <2>4. result'[u] # "running"
        BY <1>1, <2>1 DEF MenuTypeOK, OnePost, ButtonsAreKnown
    <2>5. actions[u].kind = "forms" /\ actions'[u].calm => <<u, actions[u].of>> \in buttons
        BY <1>1, <2>1, <2>2 DEF ButtonsAreKnown
    <2>6. actions[u].kind = "forms" /\ actions'[u].calm => actions'[u].enabled
        BY <2>2, <2>5 DEF Rendered
    <2>7. ButtonsAreKnown(u)'
        BY <1>1, <2>2, <2>4, <2>6 DEF ButtonsAreKnown
    <2> QED BY <2>3, <2>7
<1> QED BY <1>3, <1>4, <1>5 DEF MenuInv

LEMMA MenuInvStep == MenuInv /\ [Next]_scriptVars => MenuInv'
<1> SUFFICES ASSUME MenuInv, [Next]_scriptVars PROVE MenuInv'
    OBVIOUS
<1>1. CASE MenuNext
    <2>1. ASSUME NEW t \in Tiles, ShowMenu(t) \/ HideMenu(t) \/ Submit(t) \/ PostEnds(t)
          PROVE  MenuInv'
        BY <2>1, ShowMenuHolds, HideMenuHolds, SubmitHolds, PostEndsHolds
    <2>2. ASSUME NEW t \in Tiles, NEW n \in 1 .. MaxOpenings, MenuRequestEnds(t, n)
          PROVE  MenuInv'
        BY <2>2, MenuRequestEndsHolds
    <2> QED BY <1>1, <2>1, <2>2 DEF MenuNext
<1>2. CASE UNCHANGED menuVars
    BY <1>2 DEF menuVars, MenuInv, MenuTypeOK, OnePost, CurrentIsLatest, ButtonsAreKnown
<1> QED BY <1>1, <1>2 DEF Next, Idle, scriptVars

\* However often its menu is opened and closed, and in whatever order answers
\* come (request-lifecycle.js), a menu shows what its latest opening asked for.
THEOREM MenuIsOfItsOpeningHolds == Spec => []MenuIsOfItsOpening
<1>1. Init => MenuInv
    BY MenuInvInit DEF Init
<1>2. MenuInv => MenuIsOfItsOpening
    BY DEF MenuInv, MenuIsOfItsOpening, CurrentIsLatest
<1> QED BY <1>1, <1>2, MenuInvStep, PTL DEF Spec

\* The buttons of all menus are those of the operation that runs (operations.js).
THEOREM ButtonsFollowTheOperationHolds == Spec => []ButtonsFollowTheOperation
<1>1. Init => MenuInv
    BY MenuInvInit DEF Init
<1>2. MenuInv => ButtonsFollowTheOperation
    BY DEF MenuInv, ButtonsFollowTheOperation, ButtonsAreKnown, Rendered
<1> QED BY <1>1, <1>2, MenuInvStep, PTL DEF Spec

(***************************************************************************)
(* The refreshes of the dashboard.                                         *)
(***************************************************************************)

\* The flag keeps the script from having two requests, so that no answer under
\* way is older than the page.
RefreshInv ==
    /\ RefreshTypeOK
    /\ \A s \in Slots : calls[s] # NoCall => active
    /\ \A r, s \in Slots : calls[r] # NoCall /\ calls[s] # NoCall => r = s
    /\ \A s \in Slots : calls[s].stage = "answered" => tiles.at <= calls[s].at /\ calls[s].at <= server.at
    /\ tiles.at <= server.at

LEMMA NoCallIs ==
    /\ NoCall.stage = "none" /\ Sent.stage = "sent" /\ Sent # NoCall
    /\ NoCall \in [stage : {"none", "sent", "answered"}, at : 0 .. MaxObservations,
                   listed : SUBSET (Cards \cup Newcomers)]
    /\ Sent \in [stage : {"none", "sent", "answered"}, at : 0 .. MaxObservations,
                 listed : SUBSET (Cards \cup Newcomers)]
<1>1. 0 \in 0 .. MaxObservations
    BY RefreshBoundsAssumption
<1> QED BY <1>1 DEF NoCall, Sent

LEMMA Numbers ==
    ASSUME RefreshTypeOK
    PROVE  /\ server.at \in 0 .. MaxObservations /\ server.listed \in SUBSET (Cards \cup Newcomers)
           /\ tiles.at \in 0 .. MaxObservations /\ tiles.shown \in SUBSET Cards
           /\ server.at \in Nat /\ tiles.at \in Nat
           /\ \A s \in Slots : calls[s].at \in 0 .. MaxObservations /\ calls[s].at \in Nat
<1>1. /\ server.at \in 0 .. MaxObservations /\ server.listed \in SUBSET (Cards \cup Newcomers)
      /\ tiles.at \in 0 .. MaxObservations /\ tiles.shown \in SUBSET Cards
    BY DEF RefreshTypeOK
<1>2. \A s \in Slots : calls[s].at \in 0 .. MaxObservations
    BY DEF RefreshTypeOK
<1> QED BY <1>1, <1>2, RefreshBoundsAssumption

LEMMA RefreshInvInit == RefreshInit => RefreshInv
<1> SUFFICES ASSUME RefreshInit PROVE RefreshInv
    OBVIOUS
<1>1. 0 \in 0 .. MaxObservations /\ 0 \in 0 .. MaxFailedCalls
    BY RefreshBoundsAssumption
<1>2. calls \in [Slots -> {NoCall, Sent}] /\ \A s \in Slots : calls[s] # NoCall => s = 1 /\ active
    BY DEF RefreshInit
<1>3. RefreshTypeOK
    BY <1>1, <1>2, NoCallIs DEF RefreshInit, RefreshTypeOK
<1>4. tiles.at <= server.at
    <2>1. tiles.at = 0 /\ server.at = 0
        BY DEF RefreshInit
    <2> QED BY <2>1
<1>5. \A s \in Slots : calls[s].stage # "answered"
    BY <1>2, NoCallIs
<1> QED BY <1>2, <1>3, <1>4, <1>5 DEF RefreshInv

\* A refresh is begun only when no other is under way.
LEMMA RefreshHolds ==
    ASSUME RefreshInv, Refresh, UNCHANGED <<server, tiles, failed>>, behind' \in BOOLEAN,
           UNCHANGED feedback
    PROVE  RefreshInv'
<1>1. CASE active
    BY <1>1 DEF RefreshInv, RefreshTypeOK, Refresh
<1>2. CASE ~active
    <2>1. PICK s \in Slots : active' = TRUE /\ calls' = [calls EXCEPT ![s] = Sent]
        BY <1>2 DEF Refresh
    <2>2. \A r \in Slots : calls[r] = NoCall
        BY <1>2 DEF RefreshInv
    <2>3. \A r \in Slots : calls'[r] = IF r = s THEN Sent ELSE NoCall
        BY <2>1, <2>2 DEF RefreshInv, RefreshTypeOK
    <2>4. RefreshTypeOK'
        BY <2>1, NoCallIs DEF RefreshInv, RefreshTypeOK
    <2> QED BY <2>1, <2>3, <2>4, NoCallIs DEF RefreshInv
<1> QED BY <1>1, <1>2

\* A request that ends leaves none.
LEMMA CallEnds ==
    ASSUME RefreshInv, NEW s \in Slots, calls[s] # NoCall, calls' = [calls EXCEPT ![s] = NoCall]
    PROVE  \A r \in Slots : calls'[r] = NoCall
BY DEF RefreshInv, RefreshTypeOK

LEMMA RefreshSucceedsHolds ==
    ASSUME RefreshInv, NEW s \in Slots, RefreshSucceeds(s)
    PROVE  RefreshInv' /\ tiles'.at >= tiles.at
<1>1. /\ calls[s].stage = "answered" /\ calls[s] # NoCall /\ calls[s].at \in 0 .. MaxObservations
    BY NoCallIs DEF RefreshInv, RefreshTypeOK, RefreshSucceeds
<1>2. \A r \in Slots : calls'[r] = NoCall
    BY <1>1, CallEnds DEF RefreshSucceeds
<1>3. tiles'.at = calls[s].at /\ tiles.at <= calls[s].at /\ calls[s].at <= server.at
    BY <1>1 DEF RefreshSucceeds, RefreshInv
<1>4. RefreshTypeOK'
    BY <1>1, NoCallIs DEF RefreshInv, RefreshTypeOK, RefreshSucceeds
<1> QED BY <1>1, <1>2, <1>3, <1>4, NoCallIs DEF RefreshInv, RefreshSucceeds

LEMMA RefreshFailsHolds ==
    ASSUME RefreshInv, NEW s \in Slots, RefreshFails(s)
    PROVE  RefreshInv'
<1>1. \A r \in Slots : calls'[r] = NoCall
    BY CallEnds DEF RefreshFails
<1>2. RefreshTypeOK'
    <2>1. failed' \in 0 .. MaxFailedCalls
        <3>1. failed \in 0 .. MaxFailedCalls /\ failed < MaxFailedCalls /\ failed' = failed + 1
            BY DEF RefreshInv, RefreshTypeOK, RefreshFails
        <3> QED BY <3>1, RefreshBoundsAssumption
    <2>2. calls' \in [Slots -> [stage : {"none", "sent", "answered"}, at : 0 .. MaxObservations,
                                listed : SUBSET (Cards \cup Newcomers)]]
        BY NoCallIs DEF RefreshInv, RefreshTypeOK, RefreshFails
    <2> QED BY <2>1, <2>2 DEF RefreshInv, RefreshTypeOK, RefreshFails
<1> QED BY <1>1, <1>2, NoCallIs DEF RefreshInv, RefreshFails

\* An answer is of the moment the server reads, which is no older than the page.
LEMMA ServerAnswersHolds ==
    ASSUME RefreshInv, NEW s \in Slots, ServerAnswers(s)
    PROVE  RefreshInv'
<1> DEFINE answer == [stage |-> "answered", at |-> server.at, listed |-> server.listed]
<1>1. calls[s] # NoCall /\ answer \in [stage : {"none", "sent", "answered"}, at : 0 .. MaxObservations,
                                       listed : SUBSET (Cards \cup Newcomers)]
    BY NoCallIs DEF RefreshInv, RefreshTypeOK, ServerAnswers
<1>2. \A r \in Slots : calls'[r] = IF r = s THEN answer ELSE calls[r]
    BY DEF RefreshInv, RefreshTypeOK, ServerAnswers
<1>3. RefreshTypeOK'
    BY <1>1 DEF RefreshInv, RefreshTypeOK, ServerAnswers
<1>4. \A r \in Slots : calls'[r] # NoCall => calls[r] # NoCall
    BY <1>1, <1>2
<1>5. server.at <= server.at
    BY Numbers DEF RefreshInv
<1> QED BY <1>2, <1>3, <1>4, <1>5 DEF RefreshInv, ServerAnswers

LEMMA ServerObservesHolds == ASSUME RefreshInv, ServerObserves PROVE RefreshInv'
<1>1. /\ server'.at = server.at + 1
      /\ server' \in [at : 0 .. MaxObservations, listed : SUBSET (Cards \cup Newcomers)]
    <2>1. RefreshTypeOK /\ server.at < MaxObservations
        BY DEF RefreshInv, ServerObserves
    <2>2. PICK listed \in SUBSET (Cards \cup Newcomers) : server' = [at |-> server.at + 1, listed |-> listed]
        BY DEF ServerObserves
    <2>3. server.at + 1 \in 0 .. MaxObservations
        BY <2>1, Numbers, RefreshBoundsAssumption
    <2> QED BY <2>2, <2>3
<1>2. RefreshTypeOK'
    BY <1>1 DEF RefreshInv, RefreshTypeOK, ServerObserves
<1>3. /\ tiles.at <= server'.at
      /\ \A s \in Slots : calls[s].at <= server.at => calls[s].at <= server'.at
    BY <1>1, Numbers DEF RefreshInv
<1> QED BY <1>2, <1>3 DEF RefreshInv, ServerObserves

LEMMA RefreshInvStep ==
    RefreshInv /\ [Next]_scriptVars => RefreshInv' /\ (tiles'.at >= tiles.at)
<1> SUFFICES ASSUME RefreshInv, [Next]_scriptVars PROVE RefreshInv' /\ (tiles'.at >= tiles.at)
    OBVIOUS
<1>1. tiles.at >= tiles.at
    BY Numbers DEF RefreshInv
<1>2. CASE RefreshNext
    <2>1. CASE ServerObserves
        BY <1>1, <2>1, ServerObservesHolds DEF ServerObserves
    <2>2. CASE RefreshTimer
        BY <1>1, <2>2, RefreshHolds DEF RefreshTimer, RefreshInv, RefreshTypeOK
    <2>3. CASE TabChanges
        <3>1. CASE behind'
            BY <1>1, <2>3, <3>1 DEF TabChanges, RefreshInv, RefreshTypeOK
        <3>2. CASE ~behind'
            BY <1>1, <2>3, <3>2, RefreshHolds DEF TabChanges
        <3> QED BY <3>1, <3>2
    <2>4. ASSUME NEW s \in Slots, ServerAnswers(s) PROVE RefreshInv' /\ (tiles'.at >= tiles.at)
        BY <1>1, <2>4, ServerAnswersHolds DEF ServerAnswers
    <2>5. ASSUME NEW s \in Slots, RefreshSucceeds(s) PROVE RefreshInv' /\ (tiles'.at >= tiles.at)
        BY <2>5, RefreshSucceedsHolds
    <2>6. ASSUME NEW s \in Slots, RefreshFails(s) PROVE RefreshInv' /\ (tiles'.at >= tiles.at)
        BY <1>1, <2>6, RefreshFailsHolds DEF RefreshFails
    <2> QED BY <1>2, <2>1, <2>2, <2>3, <2>4, <2>5, <2>6 DEF RefreshNext
<1>3. CASE UNCHANGED refreshVars
    BY <1>1, <1>3 DEF refreshVars, RefreshInv, RefreshTypeOK
<1> QED BY <1>2, <1>3 DEF Next, Idle, scriptVars

\* Whenever the timer, the tab and the answers come (dashboard-refresh.js), the
\* page never goes back to an older observation.
THEOREM PageNeverGoesBackHolds == Spec => PageNeverGoesBack
<1>1. Init => RefreshInv
    BY RefreshInvInit DEF Init
<1>2. RefreshInv /\ [Next]_scriptVars => RefreshInv' /\ [tiles'.at >= tiles.at]_refreshVars
    BY RefreshInvStep
<1> QED BY <1>1, <1>2, PTL DEF Spec, PageNeverGoesBack

(***************************************************************************)
(* The comboboxes of the dialog, for any options, texts and forms.         *)
(***************************************************************************)

IsBox(b) ==
    \E texts, lists, places : b \in [open : BOOLEAN, input : texts, matches : lists, active : places]

\* A box that may be shown for a select.
ShownFor(b, sel) == IsBox(b) /\ BoxIsOf(b, sel)

LEMMA ClosedBoxIs == ASSUME NEW sel PROVE ShownFor(ClosedBox(sel), sel) /\ ~ClosedBox(sel).open
<1>1. ClosedBox(sel) \in [open : BOOLEAN, input : {sel.value}, matches : {<<>>}, active : {0}]
    BY DEF ClosedBox
<1>2. IsBox(ClosedBox(sel))
    BY <1>1 DEF IsBox
<1>3. ClosedBox(sel).input = sel.value /\ ~ClosedBox(sel).open
    BY DEF ClosedBox
<1> QED BY <1>2, <1>3 DEF ShownFor, BoxIsOf

LEMMA RenderBoxIs ==
    ASSUME NEW b, NEW sel, IsBox(b)
    PROVE  /\ IsBox(RenderBox(b, sel))
           /\ RenderBox(b, sel).open = b.open
           /\ RenderBox(b, sel).input = b.input
           /\ RenderBox(b, sel).matches = Matches(sel, b.input)
<1> DEFINE found == Matches(sel, b.input)
           now == [b EXCEPT !.matches = found, !.active = 0]
<1>1. PICK texts, lists, places :
          b \in [open : BOOLEAN, input : texts, matches : lists, active : places]
    BY DEF IsBox
<1>2. RenderBox(b, sel) = now
    BY DEF RenderBox
<1> HIDE DEF found
<1>3. now \in [open : BOOLEAN, input : texts, matches : lists \cup {found}, active : places \cup {0}]
    BY <1>1
<1>4. now.open = b.open /\ now.input = b.input /\ now.matches = found
    BY <1>1
<1>5. IsBox(now)
    BY <1>3 DEF IsBox
<1> QED BY <1>2, <1>4, <1>5 DEF found

\* Opening, closing and typing change two fields of a box.
LEMMA BoxWith ==
    ASSUME NEW b, IsBox(b), NEW on \in BOOLEAN, NEW text
    PROVE  /\ IsBox([b EXCEPT !.open = on, !.input = text])
           /\ [b EXCEPT !.open = on, !.input = text].open = on
           /\ IsBox([b EXCEPT !.open = on]) /\ [b EXCEPT !.open = on].open = on
           /\ IsBox([b EXCEPT !.input = text]) /\ [b EXCEPT !.input = text].open = b.open
<1>1. PICK texts, lists, places :
          b \in [open : BOOLEAN, input : texts, matches : lists, active : places]
    BY DEF IsBox
<1>2. [b EXCEPT !.open = on, !.input = text]
          \in [open : BOOLEAN, input : texts \cup {text}, matches : lists, active : places]
    BY <1>1
<1>3. [b EXCEPT !.open = on] \in [open : BOOLEAN, input : texts, matches : lists, active : places]
    BY <1>1
<1>4. [b EXCEPT !.input = text]
          \in [open : BOOLEAN, input : texts \cup {text}, matches : lists, active : places]
    BY <1>1
<1>5. /\ [b EXCEPT !.open = on, !.input = text].open = on
      /\ [b EXCEPT !.open = on].open = on
      /\ [b EXCEPT !.input = text].open = b.open
    BY <1>1
<1>6. IsBox([b EXCEPT !.open = on, !.input = text]) /\ IsBox([b EXCEPT !.open = on])
    BY <1>2, <1>3 DEF IsBox
<1>7. IsBox([b EXCEPT !.input = text])
    BY <1>4 DEF IsBox
<1> QED BY <1>5, <1>6, <1>7

LEMMA RefreshBoxIs ==
    ASSUME NEW b, NEW sel, IsBox(b)
    PROVE  ShownFor(RefreshBox(b, sel), sel)
<1>1. CASE sel.disabled \/ ~b.open
    BY <1>1, ClosedBoxIs DEF RefreshBox
<1>2. CASE ~sel.disabled /\ b.open
    BY <1>2, RenderBoxIs DEF RefreshBox, ShownFor, BoxIsOf
<1> QED BY <1>1, <1>2

\* What the user does with the box of an enabled select.
LEMMA OpenBoxIs ==
    ASSUME NEW b, NEW sel, NEW text, ShownFor(b, sel), ~sel.disabled
    PROVE  ShownFor(OpenBox(b, sel, text), sel) /\ OpenBox(b, sel, text).open
<1>1. CASE b.open
    BY <1>1 DEF OpenBox
<1>2. CASE ~b.open
    <2> DEFINE c == [b EXCEPT !.open = TRUE, !.input = text]
    <2>1. IsBox(c) /\ c.open
        BY BoxWith DEF ShownFor
    <2>2. OpenBox(b, sel, text) = RenderBox(c, sel)
        BY <1>2 DEF OpenBox
    <2> HIDE DEF c
    <2> QED BY <2>1, <2>2, RenderBoxIs DEF ShownFor, BoxIsOf
<1> QED BY <1>1, <1>2

LEMMA TypeIntoIs ==
    ASSUME NEW b, NEW sel, NEW text, ShownFor(b, sel), ~sel.disabled
    PROVE  ShownFor(TypeInto(b, sel, text), sel)
<1> DEFINE o == OpenBox(b, sel, text)
           c == [o EXCEPT !.input = text]
<1>1. IsBox(o) /\ o.open
    BY OpenBoxIs DEF ShownFor
<1>2. IsBox(c) /\ c.open
    <2> HIDE DEF o
    <2>1. IsBox([o EXCEPT !.input = text]) /\ [o EXCEPT !.input = text].open = o.open
        BY <1>1, BoxWith
    <2> QED BY <1>1, <2>1
<1>3. TypeInto(b, sel, text) = RenderBox(c, sel)
    BY DEF TypeInto
<1> HIDE DEF c
<1> QED BY <1>2, <1>3, RenderBoxIs DEF ShownFor, BoxIsOf

LEMMA ActivateIs ==
    ASSUME NEW b, NEW sel, NEW index, ShownFor(b, sel)
    PROVE  ShownFor(Activate(b, index), sel)
<1>1. PICK i : Activate(b, index) = [b EXCEPT !.active = i]
    BY DEF Activate
<1>2. PICK texts, lists, places :
          b \in [open : BOOLEAN, input : texts, matches : lists, active : places]
    BY DEF IsBox, ShownFor
<1> DEFINE c == [b EXCEPT !.active = i]
<1>3. c \in [open : BOOLEAN, input : texts, matches : lists, active : places \cup {i}]
    BY <1>2
<1>4. c.open = b.open /\ c.input = b.input /\ c.matches = b.matches
    BY <1>2
<1>5. IsBox(c)
    BY <1>3 DEF IsBox
<1> HIDE DEF c
<1>6. BoxIsOf(c, sel)
    BY <1>4 DEF BoxIsOf, ShownFor
<1> QED BY <1>1, <1>5, <1>6 DEF ShownFor, c

LEMMA PressArrowIs ==
    ASSUME NEW b, NEW sel, NEW down, ShownFor(b, sel), ~sel.disabled
    PROVE  ShownFor(PressArrow(b, sel, down), sel)
<1>1. ShownFor(OpenBox(b, sel, NoText), sel)
    BY OpenBoxIs
<1> QED BY <1>1, ActivateIs DEF PressArrow

BoxesInv == boxes \in [Selects -> {boxes[s] : s \in Selects}]
            /\ \A s \in Selects : ShownFor(boxes[s], SelectOf(form, s))

LEMMA BecomesHolds ==
    ASSUME NEW f, NEW now, Becomes(f, now), \A s \in Selects : IsBox(now[s]),
           \A s \in Selects : now[s].open => ShownFor(now[s], SelectOf(form, s))
    PROVE  BoxesInv'
<1>1. form' = f /\ DOMAIN boxes' = Selects
    BY DEF Becomes
<1>2. ASSUME NEW s \in Selects PROVE ShownFor(boxes[s], SelectOf(form, s))'
    <2>1. CASE now[s].open /\ SelectOf(f, s) = SelectOf(form, s)
        BY <1>1, <2>1 DEF Becomes
    <2>2. CASE ~(now[s].open /\ SelectOf(f, s) = SelectOf(form, s))
        <3>1. boxes'[s] = RefreshBox(now[s], SelectOf(f, s))
            BY <2>2 DEF Becomes
        <3> QED BY <1>1, <3>1, RefreshBoxIs
    <2> QED BY <2>1, <2>2
<1>3. boxes' \in [Selects -> {boxes'[s] : s \in Selects}]
    BY DEF Becomes
<1> QED BY <1>2, <1>3 DEF BoxesInv

LEMMA AllClosedIs ==
    ASSUME BoxesInv
    PROVE  \A s \in Selects : IsBox(AllClosed[s]) /\ ~AllClosed[s].open
BY BoxWith DEF BoxesInv, ShownFor, AllClosed

LEMMA FocusedHolds ==
    ASSUME BoxesInv, UNCHANGED form, NEW s \in Selects, NEW b, ShownFor(b, SelectOf(form, s)),
           Focused(s, b)
    PROVE  BoxesInv'
<1>1. ASSUME NEW u \in Selects PROVE ShownFor(boxes'[u], SelectOf(form, u))
    BY ClosedBoxIs DEF Focused, BoxesInv
<1>2. boxes' \in [Selects -> {boxes'[u] : u \in Selects}]
    BY DEF Focused
<1> QED BY <1>1, <1>2 DEF BoxesInv

LEMMA UseBoxHolds == ASSUME BoxesInv, NEW s \in Selects, UseBox(s) PROVE BoxesInv'
<1> DEFINE sel == SelectOf(form, s)
           box == boxes[s]
<1>1. ShownFor(box, sel) /\ ~sel.disabled
    BY DEF BoxesInv, UseBox
<1>2. CASE \E i : Choose(s, i)
    BY <1>2, AllClosedIs, BecomesHolds DEF Choose
<1>3. ASSUME UNCHANGED form, NEW b, Focused(s, b),
             \/ b = ClosedBox(sel) \/ b = OpenBox(box, sel, NoText)
             \/ \E text : b = TypeInto(box, sel, text)
             \/ \E down : b = PressArrow(box, sel, down)
             \/ \E index : b = Activate(box, index)
      PROVE  BoxesInv'
    <2>1. ShownFor(b, sel)
        BY <1>1, <1>3, ClosedBoxIs, OpenBoxIs, TypeIntoIs, PressArrowIs, ActivateIs
    <2> QED BY <1>3, <2>1, FocusedHolds
<1> QED BY <1>2, <1>3 DEF UseBox, PressEdge

LEMMA BoxesInvStep == BoxesInv /\ [Next]_scriptVars => BoxesInv'
<1> SUFFICES ASSUME BoxesInv, [Next]_scriptVars PROVE BoxesInv'
    OBVIOUS
<1>1. \A s \in Selects : IsBox(boxes[s]) /\ ShownFor(boxes[s], SelectOf(form, s))
    BY DEF BoxesInv, ShownFor
<1>2. ASSUME NEW f, Becomes(f, boxes) \/ Becomes(f, AllClosed) PROVE BoxesInv'
    BY <1>1, <1>2, AllClosedIs, BecomesHolds
<1>3. CASE EditorNext
    <2>1. CASE \E subject : OpenDialog(subject)
        BY <1>2, <2>1 DEF OpenDialog
    <2>2. CASE CloseDialog \/ SubmitForm
        BY <1>2, <2>2 DEF CloseDialog, SubmitForm
    <2>3. CASE PageReturns
        BY <1>2, <2>3 DEF PageReturns
    <2>4. CASE \E s \in Selects : UseBox(s)
        BY <2>4, UseBoxHolds
    <2>5. CASE \E r \in form.fetches : FetchEnds(r)
        BY <1>2, <2>5 DEF FetchEnds
    <2> QED BY <1>3, <2>1, <2>2, <2>3, <2>4, <2>5 DEF EditorNext
<1>4. CASE UNCHANGED editorVars
    BY <1>4 DEF editorVars, BoxesInv
<1> QED BY <1>3, <1>4 DEF Next, Idle, scriptVars

\* Whatever changes a select, and whether its list is open then
\* (searchable-select.js), its combobox shows it.
THEOREM BoxesShowTheirSelectsHolds == Spec => []BoxesShowTheirSelects
<1>1. Init => BoxesInv
    BY ClosedBoxIs DEF Init, EditorInit, BoxesInv
<1>2. BoxesInv => BoxesShowTheirSelects
    BY DEF BoxesInv, ShownFor, BoxesShowTheirSelects
<1> QED BY <1>1, <1>2, BoxesInvStep, PTL DEF Spec

(***************************************************************************)
(* The loading of options in the dialog, for any hosts, names and answers. *)
(***************************************************************************)

Fields == {"kind", "host", "value", "options", "disabled", "request", "loading", "fetches",
           "saving", "blocked", "subject", "touched", "listed"}

IsForm(f) ==
    /\ f = [x \in Fields |-> f[x]]
    /\ f.disabled \in [Loaders -> BOOLEAN] /\ f.loading \in [Loaders -> BOOLEAN]
    /\ f.request = [l \in Loaders |-> f.request[l]]
    /\ f.listed = [l \in Loaders |-> f.listed[l]]
    /\ f.value = [l \in Loaders |-> f.value[l]]

\* Only the remote field of the type is enabled or loads, for the host selected,
\* and what loads has its request, the only one, under way.
LoadsFit(f) ==
    /\ \A l \in Loaders : ~f.disabled[l] =>
           l = Remote(f.kind) /\ f.host # Blank /\ f.listed[l] \in {NoText, f.host}
    /\ \A l \in Loaders : f.loading[l] => \E r \in f.fetches : r.loader = l
    /\ \A r \in f.fetches :
           /\ r.loader \in Loaders /\ r.loader = Remote(f.kind)
           /\ r.host = f.host /\ f.host # Blank
           /\ f.request[r.loader] = r.n
    /\ \A r, q \in f.fetches : r = q

SaveIsKnown(f) == f.blocked <=> f.saving \/ \E l \in Loaders : f.loading[l]

\* What the user has not touched is what the form was opened with, where it is
\* shown and in the requests that are to show it.
IsKept(is, was) == is = was \/ (was # Blank /\ is \in DOMAIN IdOf /\ IdOf[is] = was)

Kept(f) ==
    ~f.touched =>
        /\ \A r \in f.fetches : r.selected = f.subject[r.loader]
        /\ \A l \in Loaders : ~f.disabled[l] => IsKept(f.value[l], f.subject[l])

FormInv(f) == IsForm(f) /\ LoadsFit(f) /\ SaveIsKnown(f) /\ Kept(f)

LEMMA RemoteIs == ASSUME NEW kind PROVE Remote(kind) \in Loaders \cup {""}
BY DEF Remote, Loaders

LEMMA SaveStateHolds ==
    ASSUME NEW f, IsForm(f), LoadsFit(f), Kept(f)
    PROVE  FormInv(SaveState(f))
<1> DEFINE g == SaveState(f)
<1>1. IsForm(g)
    BY DEF IsForm, SaveState, Fields
<1>2. /\ g.kind = f.kind /\ g.host = f.host /\ g.disabled = f.disabled /\ g.listed = f.listed
      /\ g.loading = f.loading /\ g.fetches = f.fetches /\ g.request = f.request /\ g.saving = f.saving
      /\ g.touched = f.touched /\ g.subject = f.subject /\ g.value = f.value
      /\ g.blocked = (f.saving \/ \E l \in Loaders : f.loading[l])
    BY DEF IsForm, SaveState, Fields
<1> HIDE DEF g
<1>3. LoadsFit(g)
    BY <1>2 DEF LoadsFit
<1>4. SaveIsKnown(g)
    BY <1>2 DEF SaveIsKnown
<1>5. Kept(g)
    BY <1>2 DEF Kept
<1> QED BY <1>1, <1>3, <1>4, <1>5 DEF FormInv, g

LEMMA CancelLoadIs ==
    ASSUME NEW f, IsForm(f), NEW l \in Loaders
    PROVE  /\ IsForm(CancelLoad(f, l))
           /\ CancelLoad(f, l).kind = f.kind /\ CancelLoad(f, l).host = f.host
           /\ CancelLoad(f, l).disabled = f.disabled /\ CancelLoad(f, l).listed = f.listed
           /\ CancelLoad(f, l).saving = f.saving /\ CancelLoad(f, l).touched = f.touched
           /\ CancelLoad(f, l).subject = f.subject /\ CancelLoad(f, l).value = f.value
           /\ CancelLoad(f, l).loading = [f.loading EXCEPT ![l] = FALSE]
           /\ CancelLoad(f, l).fetches = {r \in f.fetches : r.loader # l}
BY DEF IsForm, CancelLoad, Fields

\* Options are loaded for the remote field when nothing else is enabled or loads.
LEMMA LoadHolds ==
    ASSUME NEW f, IsForm(f), NEW l \in Loaders, l = Remote(f.kind), NEW selected,
           \A k \in Loaders \ {l} : f.disabled[k] /\ ~f.loading[k],
           \A r \in f.fetches : r.loader = l,
           f.touched \/ selected = f.subject[l]
    PROVE  FormInv(Load(f, l, selected))
<1> DEFINE c == CancelLoad(f, l)
           d == [c EXCEPT !.disabled[l] = TRUE]
           idle == Placeholder(d, l, Blank)
           n == CHOOSE i \in 1 .. 3 : \A r \in idle.fetches : r.n # i
           r == [loader |-> l, n |-> n, host |-> idle.host, selected |-> selected]
           g == [idle EXCEPT !.request[l] = n, !.loading[l] = TRUE, !.fetches = @ \cup {r}]
<1>1. /\ IsForm(c) /\ c.kind = f.kind /\ c.disabled = f.disabled
      /\ c.loading = [f.loading EXCEPT ![l] = FALSE] /\ c.fetches = {}
      /\ c.touched = f.touched /\ c.subject = f.subject
    BY CancelLoadIs
<1> HIDE DEF c
<1>2. /\ IsForm(d) /\ d.kind = f.kind /\ d.disabled = [f.disabled EXCEPT ![l] = TRUE]
      /\ d.loading = c.loading /\ d.fetches = {}
      /\ d.touched = f.touched /\ d.subject = f.subject
    BY <1>1 DEF IsForm, Fields
<1> HIDE DEF d
<1>3. /\ IsForm(idle) /\ idle.kind = f.kind /\ idle.fetches = {}
      /\ idle.touched = f.touched /\ idle.subject = f.subject
      /\ \A k \in Loaders : idle.disabled[k] /\ ~idle.loading[k]
    <2>1. /\ IsForm(idle) /\ idle.kind = d.kind /\ idle.fetches = d.fetches
          /\ idle.disabled = d.disabled /\ idle.loading = d.loading
          /\ idle.touched = d.touched /\ idle.subject = d.subject
        BY <1>2 DEF Placeholder, IsForm, Fields
    <2>2. \A k \in Loaders : d.disabled[k]
        BY <1>2 DEF IsForm
    <2>3. \A k \in Loaders : ~d.loading[k]
        BY <1>1, <1>2 DEF IsForm
    <2> HIDE DEF idle
    <2> QED BY <1>2, <2>1, <2>2, <2>3
<1> HIDE DEF idle
<1>4. CASE idle.host = Blank
    <2>1. LoadsFit(idle) /\ Kept(idle)
        BY <1>3 DEF LoadsFit, Kept
    <2>2. Load(f, l, selected) = SaveState(idle)
        BY <1>4 DEF Load, idle, d, c
    <2> QED BY <1>3, <2>1, <2>2, SaveStateHolds
<1>5. CASE idle.host # Blank
    <2> HIDE DEF n
    <2>1. /\ IsForm(g) /\ g.kind = f.kind /\ g.host = idle.host /\ g.disabled = idle.disabled
          /\ g.touched = f.touched /\ g.subject = f.subject
          /\ g.fetches = {r} /\ g.request[l] = n /\ g.loading = [idle.loading EXCEPT ![l] = TRUE]
        BY <1>3 DEF IsForm, Fields
    <2>2. r.loader = l /\ r.n = n /\ r.host = idle.host /\ r.selected = selected
        OBVIOUS
    <2> HIDE DEF g, r
    <2>3. LoadsFit(g)
        <3>1. \A k \in Loaders : g.disabled[k]
            BY <1>3, <2>1
        <3>2. \A k \in Loaders : g.loading[k] => k = l
            BY <1>3, <2>1 DEF IsForm
        <3> QED BY <1>5, <2>1, <2>2, <3>1, <3>2 DEF LoadsFit
    <2>4. Load(f, l, selected) = SaveState(g)
        BY <1>5 DEF Load, idle, d, c, g, r, n
    <2>5. Kept(g)
        BY <1>3, <2>1, <2>2 DEF Kept
    <2> QED BY <2>1, <2>3, <2>4, <2>5, SaveStateHolds
<1> QED BY <1>4, <1>5

\* apply() puts any form in order, whatever it held before.
LEMMA ApplyHolds ==
    ASSUME NEW f, IsForm(f), \A r \in f.fetches : r.loader \in Loaders,
           f.touched \/ \A l \in Loaders : f.value[l] = f.subject[l]
    PROVE  FormInv(Apply(f))
<1> DEFINE remote == Remote(f.kind)
           e == [f EXCEPT !.host = IF UsesHost(f.kind) THEN @ ELSE Blank,
                          !.disabled = [l \in Loaders |-> l # remote]]
           c == CancelLoad(e, "container")
           idle == CancelLoad(c, "service")
<1>1. /\ IsForm(e) /\ e.kind = f.kind /\ e.disabled = [l \in Loaders |-> l # remote]
      /\ e.fetches = f.fetches /\ e.touched = f.touched /\ e.subject = f.subject /\ e.value = f.value
    BY DEF IsForm, Fields
<1> HIDE DEF e
<1>2. /\ IsForm(c) /\ c.kind = f.kind /\ c.disabled = e.disabled
      /\ c.loading = [e.loading EXCEPT !["container"] = FALSE]
      /\ c.fetches = {r \in e.fetches : r.loader # "container"}
      /\ c.touched = e.touched /\ c.subject = e.subject /\ c.value = e.value
    BY <1>1, CancelLoadIs DEF Loaders
<1> HIDE DEF c
<1>3. /\ IsForm(idle) /\ idle.kind = f.kind /\ idle.disabled = e.disabled
      /\ idle.loading = [c.loading EXCEPT !["service"] = FALSE]
      /\ idle.fetches = {r \in c.fetches : r.loader # "service"}
      /\ idle.touched = f.touched /\ idle.subject = f.subject /\ idle.value = f.value
    BY <1>1, <1>2, CancelLoadIs DEF Loaders
<1>4. /\ idle.fetches = {}
      /\ \A l \in Loaders : ~idle.loading[l] /\ (l # remote => idle.disabled[l])
    <2>1. idle.fetches = {}
        BY <1>1, <1>2, <1>3 DEF Loaders
    <2>2. \A l \in Loaders : ~idle.loading[l]
        BY <1>1, <1>2, <1>3 DEF IsForm, Loaders
    <2>3. \A l \in Loaders : l # remote => idle.disabled[l]
        BY <1>1, <1>3
    <2> QED BY <2>1, <2>2, <2>3
<1>5. remote \in Loaders \cup {""}
    BY RemoteIs
<1>6. Apply(f) = SaveState(IF remote = "" THEN idle ELSE Load(idle, remote, idle.value[remote]))
    BY <1>3 DEF Apply, CancelAll, idle, c, e
<1> HIDE DEF idle
<1>7. CASE remote = ""
    <2>1. LoadsFit(idle)
        BY <1>4, <1>7 DEF LoadsFit, Loaders
    <2>2. Kept(idle)
        BY <1>4, <1>7 DEF Kept, Loaders
    <2> QED BY <1>3, <1>6, <1>7, <2>1, <2>2, SaveStateHolds
<1>8. CASE remote # ""
    <2>1. FormInv(Load(idle, remote, idle.value[remote]))
        BY <1>3, <1>4, <1>5, <1>8, LoadHolds
    <2> QED BY <1>6, <1>8, <2>1, SaveStateHolds DEF FormInv
<1> QED BY <1>7, <1>8

LEMMA ChangedHolds ==
    ASSUME NEW f, FormInv(f), f.touched, NEW s \in Selects, NEW v
    PROVE  FormInv(Changed(f, s, v))
<1>1. CASE s = "type"
    <2> DEFINE g == [f EXCEPT !.kind = v]
    <2>1. IsForm(g) /\ g.fetches = f.fetches /\ g.touched
        BY <1>1 DEF FormInv, IsForm, Fields
    <2>2. Changed(f, s, v) = Apply(g)
        BY <1>1 DEF Changed, Loaders
    <2> HIDE DEF g
    <2> QED BY <2>1, <2>2, ApplyHolds DEF FormInv, LoadsFit
<1>2. CASE s = "host"
    <2> DEFINE g == [f EXCEPT !.host = v]
               remote == Remote(f.kind)
    <2>1. /\ IsForm(g) /\ g.kind = f.kind /\ g.disabled = f.disabled /\ g.listed = f.listed
          /\ g.loading = f.loading /\ g.fetches = f.fetches /\ g.request = f.request
          /\ g.saving = f.saving /\ g.blocked = f.blocked /\ g.touched
        BY DEF FormInv, IsForm, Fields
    <2>2. Changed(f, s, v) = IF remote = "" THEN g ELSE Load(g, remote, Blank)
        <3>1. Changed(f, s, v) = ChangeHost(f, v)
            BY <1>2 DEF Changed, Loaders
        <3> QED BY <2>1, <3>1 DEF ChangeHost
    <2>3. remote \in Loaders \cup {""}
        BY RemoteIs
    <2> HIDE DEF g
    <2>4. CASE remote = ""
        <3>1. LoadsFit(g) /\ SaveIsKnown(g) /\ Kept(g)
            BY <2>1, <2>4 DEF FormInv, LoadsFit, SaveIsKnown, Kept, Loaders
        <3> QED BY <2>1, <2>2, <2>4, <3>1 DEF FormInv
    <2>5. CASE remote # ""
        <3>1. /\ \A k \in Loaders \ {remote} : g.disabled[k] /\ ~g.loading[k]
              /\ \A r \in g.fetches : r.loader = remote
            <4>1. \A k \in Loaders \ {remote} : f.disabled[k] /\ ~f.loading[k]
                BY DEF FormInv, LoadsFit
            <4>2. \A r \in f.fetches : r.loader = remote
                BY DEF FormInv, LoadsFit
            <4> QED BY <2>1, <4>1, <4>2
        <3>2. IsForm(g) /\ remote \in Loaders /\ remote = Remote(g.kind) /\ g.touched
            BY <2>1, <2>3, <2>5
        <3> HIDE DEF remote
        <3>3. FormInv(Load(g, remote, Blank))
            BY <3>1, <3>2, LoadHolds
        <3> QED BY <2>2, <2>5, <3>3
    <2> QED BY <2>4, <2>5
<1>3. CASE s \in Loaders
    <2> DEFINE g == [f EXCEPT !.value[s] = v]
    <2>1. /\ IsForm(g) /\ g.kind = f.kind /\ g.disabled = f.disabled /\ g.listed = f.listed
          /\ g.loading = f.loading /\ g.fetches = f.fetches /\ g.request = f.request
          /\ g.saving = f.saving /\ g.blocked = f.blocked /\ g.host = f.host /\ g.touched
        BY DEF FormInv, IsForm, Fields
    <2>2. Changed(f, s, v) = g
        BY <1>3 DEF Changed, Loaders
    <2> HIDE DEF g
    <2> QED BY <2>1, <2>2 DEF FormInv, LoadsFit, SaveIsKnown, Kept
<1> QED BY <1>1, <1>2, <1>3 DEF Selects

\* What a request that is under way brings.
LEMMA EndedIs ==
    ASSUME NEW f, FormInv(f), NEW r \in f.fetches
    PROVE  LET rest == [f EXCEPT !.fetches = @ \ {r}]
           IN /\ IsForm(rest) /\ rest.fetches = {}
              /\ rest.kind = f.kind /\ rest.host = f.host /\ rest.disabled = f.disabled
              /\ rest.listed = f.listed /\ rest.loading = f.loading /\ rest.saving = f.saving
              /\ rest.touched = f.touched /\ rest.subject = f.subject /\ rest.value = f.value
BY DEF FormInv, IsForm, LoadsFit, Fields

LEMMA AnsweredHolds ==
    ASSUME NEW f, FormInv(f), NEW r \in f.fetches, NEW items
    PROVE  /\ FormInv(Answered([f EXCEPT !.fetches = @ \ {r}], r, items))
           /\ FormInv(Failed([f EXCEPT !.fetches = @ \ {r}], r))
<1> DEFINE rest == [f EXCEPT !.fetches = @ \ {r}]
           l == r.loader
<1>1. /\ IsForm(rest) /\ rest.fetches = {}
      /\ rest.kind = f.kind /\ rest.host = f.host /\ rest.disabled = f.disabled
      /\ rest.listed = f.listed /\ rest.loading = f.loading /\ rest.saving = f.saving
      /\ rest.touched = f.touched /\ rest.subject = f.subject /\ rest.value = f.value
    BY EndedIs
<1>2. /\ l \in Loaders /\ l = Remote(f.kind) /\ r.host = f.host /\ f.host # Blank
      /\ \A k \in Loaders \ {l} : f.disabled[k] /\ ~f.loading[k]
      /\ f.touched \/ r.selected = f.subject[l]
    BY DEF FormInv, LoadsFit, Kept
<1> HIDE DEF rest
<1>3. FormInv(Answered(rest, r, items))
    <2> DEFINE named == {i \in ToSet(items) \cap DOMAIN IdOf :
                             r.selected # Blank /\ r.selected \notin ToSet(items) /\ IdOf[i] = r.selected}
               value == IF named = {} THEN r.selected ELSE CHOOSE i \in named : TRUE
    <2>7. IsKept(value, r.selected)
        BY DEF IsKept
    <2>1. PICK options :
              Answered(rest, r, items) =
                  SaveState([rest EXCEPT !.options[l] = options, !.value[l] = value,
                                         !.disabled[l] = FALSE, !.loading[l] = FALSE, !.listed[l] = r.host])
        BY DEF Answered
    <2> HIDE DEF value, named
    <2> DEFINE g == [rest EXCEPT !.options[l] = options, !.value[l] = value,
                                 !.disabled[l] = FALSE, !.loading[l] = FALSE, !.listed[l] = r.host]
    <2>2. /\ IsForm(g) /\ g.kind = f.kind /\ g.host = f.host /\ g.fetches = {}
          /\ g.disabled = [f.disabled EXCEPT ![l] = FALSE]
          /\ g.loading = [f.loading EXCEPT ![l] = FALSE]
          /\ g.listed = [f.listed EXCEPT ![l] = r.host] /\ g.value = [f.value EXCEPT ![l] = value]
          /\ g.touched = f.touched /\ g.subject = f.subject
        BY <1>1, <1>2 DEF IsForm, Fields
    <2> HIDE DEF g
    <2>3. /\ \A k \in Loaders : ~g.loading[k] /\ (k # l => g.disabled[k])
          /\ g.listed[l] = r.host /\ g.value[l] = value
        BY <1>1, <1>2, <2>2 DEF IsForm
    <2>4. LoadsFit(g)
        BY <1>2, <2>2, <2>3 DEF LoadsFit
    <2>5. Kept(g)
        BY <1>2, <2>2, <2>3, <2>7 DEF Kept
    <2> QED BY <2>1, <2>2, <2>4, <2>5, SaveStateHolds DEF g
<1>4. FormInv(Failed(rest, r))
    <2> DEFINE c == Placeholder(rest, l, r.selected)
               g == [c EXCEPT !.disabled[l] = FALSE, !.loading[l] = FALSE]
    <2>1. /\ IsForm(c) /\ c.kind = f.kind /\ c.host = f.host /\ c.fetches = {}
          /\ c.disabled = f.disabled /\ c.loading = f.loading
          /\ c.listed = [f.listed EXCEPT ![l] = NoText] /\ c.value = [f.value EXCEPT ![l] = r.selected]
          /\ c.touched = f.touched /\ c.subject = f.subject
        BY <1>1, <1>2 DEF Placeholder, IsForm, Fields
    <2> HIDE DEF c
    <2>2. /\ IsForm(g) /\ g.kind = f.kind /\ g.host = f.host /\ g.fetches = {}
          /\ g.disabled = [f.disabled EXCEPT ![l] = FALSE]
          /\ g.loading = [f.loading EXCEPT ![l] = FALSE]
          /\ g.listed = c.listed /\ g.value = c.value /\ g.touched = f.touched /\ g.subject = f.subject
        BY <1>2, <2>1 DEF IsForm, Fields
    <2>3. Failed(rest, r) = SaveState(g)
        BY DEF Failed, c
    <2> HIDE DEF g
    <2>4. /\ \A k \in Loaders : ~g.loading[k] /\ (k # l => g.disabled[k])
          /\ g.listed[l] = NoText /\ g.value[l] = r.selected
        BY <1>1, <1>2, <2>1, <2>2 DEF IsForm
    <2>5. LoadsFit(g)
        BY <1>2, <2>2, <2>4 DEF LoadsFit
    <2>6. Kept(g)
        BY <1>2, <2>2, <2>4 DEF Kept, IsKept
    <2> QED BY <2>2, <2>3, <2>5, <2>6, SaveStateHolds
<1> QED BY <1>3, <1>4 DEF rest

\* A dialog that is opened is put in order whatever its form held.
LEMMA OpenedHolds ==
    ASSUME FormInv(form), NEW subject
    PROVE  FormInv(Opened(subject))
<1> DEFINE g == [form EXCEPT
        !.kind = subject.kind, !.host = subject.host,
        !.options = [l \in Loaders |-> <<subject[l]>>], !.value = [l \in Loaders |-> subject[l]],
        !.listed = [l \in Loaders |-> NoText],
        !.saving = FALSE, !.subject = subject, !.touched = FALSE]
<1>1. IsForm(g) /\ g.fetches = form.fetches /\ \A l \in Loaders : g.value[l] = g.subject[l]
    BY DEF FormInv, IsForm, Fields
<1>2. Opened(subject) = Apply(g)
    BY DEF Opened
<1> HIDE DEF g
<1> QED BY <1>1, <1>2, ApplyHolds DEF FormInv, LoadsFit

LEMMA EmptyFormHolds == FormInv(EmptyForm)
<1>1. IsForm(EmptyForm)
    BY DEF EmptyForm, IsForm, Fields
<1>2. LoadsFit(EmptyForm) /\ SaveIsKnown(EmptyForm) /\ Kept(EmptyForm)
    BY DEF EmptyForm, LoadsFit, SaveIsKnown, Kept
<1> QED BY <1>1, <1>2 DEF FormInv

LEMMA SubmittedHolds ==
    ASSUME NEW f, FormInv(f)
    PROVE  /\ FormInv(SaveState([f EXCEPT !.saving = TRUE]))
           /\ FormInv([f EXCEPT !.touched = TRUE]) /\ [f EXCEPT !.touched = TRUE].touched
<1> DEFINE g == [f EXCEPT !.saving = TRUE]
           t == [f EXCEPT !.touched = TRUE]
<1>1. /\ IsForm(g) /\ g.kind = f.kind /\ g.host = f.host /\ g.disabled = f.disabled
      /\ g.listed = f.listed /\ g.loading = f.loading /\ g.fetches = f.fetches /\ g.request = f.request
      /\ g.touched = f.touched /\ g.subject = f.subject /\ g.value = f.value
    BY DEF FormInv, IsForm, Fields
<1>2. /\ IsForm(t) /\ t.kind = f.kind /\ t.host = f.host /\ t.disabled = f.disabled
      /\ t.listed = f.listed /\ t.loading = f.loading /\ t.fetches = f.fetches /\ t.request = f.request
      /\ t.saving = f.saving /\ t.blocked = f.blocked /\ t.touched = TRUE
    BY DEF FormInv, IsForm, Fields
<1> HIDE DEF g, t
<1>3. LoadsFit(g) /\ Kept(g) /\ LoadsFit(t) /\ SaveIsKnown(t) /\ Kept(t)
    BY <1>1, <1>2 DEF FormInv, LoadsFit, SaveIsKnown, Kept
<1> QED BY <1>1, <1>2, <1>3, SaveStateHolds DEF FormInv, g, t

EditorInv == FormInv(form)

LEMMA EditorInvStep == EditorInv /\ [Next]_scriptVars => EditorInv'
<1> SUFFICES ASSUME FormInv(form), [Next]_scriptVars PROVE FormInv(form')
    BY DEF EditorInv
<1>1. CASE EditorNext
    <2>1. CASE \E subject : OpenDialog(subject)
        BY <2>1, OpenedHolds DEF OpenDialog, Becomes
    <2>2. CASE CloseDialog
        BY <2>2 DEF CloseDialog, Becomes
    <2>3. CASE SubmitForm
        BY <2>3, SubmittedHolds DEF SubmitForm, Becomes
    <2>4. CASE PageReturns
        BY <2>4, EmptyFormHolds, OpenedHolds DEF PageReturns, Becomes
    <2>5. CASE \E s \in Selects : UseBox(s)
        <3>1. PICK s \in Selects : UseBox(s)
            BY <2>5
        <3>2. CASE UNCHANGED form
            BY <3>2
        <3>3. CASE \E i : Choose(s, i)
            <4> DEFINE f == [form EXCEPT !.touched = TRUE]
            <4>1. PICK i : form' = Changed(f, s, boxes[s].matches[i])
                BY <3>3 DEF Choose, Becomes
            <4>2. FormInv(f) /\ f.touched
                BY SubmittedHolds
            <4> HIDE DEF f
            <4> QED BY <4>1, <4>2, ChangedHolds
        <3> QED BY <3>1, <3>2, <3>3 DEF UseBox
    <2>6. ASSUME NEW r \in form.fetches, FetchEnds(r) PROVE FormInv(form')
        <3>1. Latest(r)
            BY DEF Latest, FormInv, LoadsFit
        <3> QED BY <2>6, <3>1, AnsweredHolds DEF FetchEnds, Becomes
    <2> QED BY <1>1, <2>1, <2>2, <2>3, <2>4, <2>5, <2>6 DEF EditorNext
<1>2. CASE UNCHANGED editorVars
    BY <1>2 DEF editorVars
<1> QED BY <1>1, <1>2 DEF Next, Idle, scriptVars

\* However type, host and module are changed while answers are on the way
\* (module-editor.js), the names offered are those of the host selected.
THEOREM OptionsAreOfTheHostHolds == Spec => []OptionsAreOfTheHost
<1>1. Init => EditorInv
    BY EmptyFormHolds DEF Init, EditorInit, EditorInv
<1>2. EditorInv => OptionsAreOfTheHost
    BY DEF EditorInv, FormInv, LoadsFit, OptionsAreOfTheHost
<1> QED BY <1>1, <1>2, EditorInvStep, PTL DEF Spec

\* The save button waits for what loads and for nothing else
\* (updateSaveState in module-editor.js).
THEOREM SaveWaitsForOptionsHolds == Spec => []SaveWaitsForOptions
<1>1. Init => EditorInv
    BY EmptyFormHolds DEF Init, EditorInit, EditorInv
<1>2. EditorInv => SaveWaitsForOptions
    BY DEF EditorInv, FormInv, LoadsFit, SaveIsKnown, Latest, SaveWaitsForOptions
<1> QED BY <1>1, <1>2, EditorInvStep, PTL DEF Spec

\* Whatever an agent answers or fails to (load() in module-editor.js), a form
\* that was only opened is saved as it was.
THEOREM UntouchedIsKeptHolds == Spec => []UntouchedIsKept
<1>1. Init => EditorInv
    BY EmptyFormHolds DEF Init, EditorInit, EditorInv
<1>2. EditorInv => UntouchedIsKept
    BY RemoteIs DEF EditorInv, FormInv, Kept, IsKept, UntouchedIsKept
<1> QED BY <1>1, <1>2, EditorInvStep, PTL DEF Spec

(***************************************************************************)
(* The arrangement of modules.                                             *)
(***************************************************************************)

Ids == Nat \ {0}

StoreIs(stored) == stored \in [readable : BOOLEAN, ids : Seq(Nat)]

LEMMA ModuleIdsAre == ModuleIds \in SUBSET Ids /\ ModuleCount \in Nat
BY OrderBoundsAssumption DEF ModuleIds, Ids

LEMMA AlphabeticalIs ==
    ASSUME NEW listed \in SUBSET ModuleIds
    PROVE  /\ Alphabetical(listed) \in Seq(ModuleIds)
           /\ IsInjective(Alphabetical(listed))
           /\ ToSet(Alphabetical(listed)) = listed
<1> DEFINE s == [i \in ModuleIds |-> i]
           new == Picked(s, listed)
<1>1. s \in Seq(ModuleIds) /\ DOMAIN s = ModuleIds /\ \A i \in ModuleIds : s[i] = i
    BY OrderBoundsAssumption DEF ModuleIds
<1> HIDE DEF s
<1>2. listed \in SUBSET DOMAIN s
    BY <1>1
<1>3. /\ new \in Seq(ModuleIds) /\ DOMAIN new = 1..Cardinality(listed)
      /\ \A i \in listed : /\ Rank(listed, i) \in 1..Cardinality(listed)
                           /\ new[Rank(listed, i)] = s[i]
      /\ \A k \in 1..Cardinality(listed) :
             \E i \in listed : Rank(listed, i) = k /\ new[k] = s[i]
    BY <1>1, <1>2, PickedIs
<1>4. /\ \A i \in listed : s[i] = i
      /\ Alphabetical(listed) = new
    BY <1>1 DEF Alphabetical, s
<1> HIDE DEF new
<1>5. IsInjective(new)
    BY <1>3, <1>4 DEF IsInjective
<1>6. ToSet(new) = listed
    BY <1>3, <1>4 DEF ToSet
<1> QED BY <1>3, <1>4, <1>5, <1>6

LEMMA KnownIs ==
    ASSUME NEW stored, StoreIs(stored)
    PROVE  Known(stored) \in Seq(Ids) /\ IsInjective(Known(stored))
<1>1. CASE ~stored.readable
    BY <1>1 DEF Known, IsInjective
<1>2. CASE stored.readable
    <2> DEFINE s == stored.ids
               first(i) == \A j \in 1 .. i - 1 : s[j] # s[i]
               kept == {i \in DOMAIN s : Valid(s[i]) /\ first(i)}
               new == Picked(s, kept)
    <2>1. Known(stored) = new
        BY <1>2 DEF Known
    <2>2. s \in Seq(Nat) /\ kept \in SUBSET DOMAIN s /\ DOMAIN s = 1..Len(s) /\ Len(s) \in Nat
        BY DEF StoreIs
    <2>3. \A i \in kept : i \in Nat /\ i >= 1 /\ s[i] \in Ids
                          /\ \A j \in kept : j < i => s[j] # s[i]
        BY <2>2 DEF Valid, Ids
    <2> HIDE DEF kept, s
    <2>4. /\ new \in Seq(Nat) /\ DOMAIN new = 1..Cardinality(kept) /\ Cardinality(kept) \in Nat
          /\ \A k \in 1..Cardinality(kept) : \E i \in kept : Rank(kept, i) = k /\ new[k] = s[i]
        BY <2>2, PickedIs
    <2> HIDE DEF new
    <2>5. new \in Seq(Ids)
        <3>1. \A k \in DOMAIN new : new[k] \in Ids
            BY <2>3, <2>4
        <3>2. Len(new) \in Nat /\ DOMAIN new = 1..Len(new) /\ new = [k \in 1..Len(new) |-> new[k]]
            BY <2>4
        <3> QED BY <3>1, <3>2
    <2>6. \A i, j \in kept : s[i] = s[j] => i = j
        BY <2>3
    <2>7. IsInjective(new)
        BY <2>4, <2>6 DEF IsInjective
    <2> QED BY <2>1, <2>5, <2>7
<1> QED BY <1>1, <1>2

\* What the sequence of a page has to be.
SequenceOf(sequence, listed) ==
    /\ sequence \in Seq(Ids) /\ IsInjective(sequence)
    /\ listed \subseteq ToSet(sequence)

\* Of what is stored, hidden modules are at their places.
Keeps(sequence, before, listed) ==
    \A i \in DOMAIN before : before[i] \notin listed => i \in DOMAIN sequence /\ sequence[i] = before[i]

LEMMA SequenceIs ==
    ASSUME NEW stored, StoreIs(stored), NEW listed \in SUBSET ModuleIds
    PROVE  /\ SequenceOf(Sequence(stored, listed), listed)
           /\ Keeps(Sequence(stored, listed), Known(stored), listed)
<1> DEFINE known == Known(stored)
           more == Alphabetical(listed \ ToSet(known))
           new == known \o more
<1>1. known \in Seq(Ids) /\ IsInjective(known)
    BY KnownIs
<1>2. /\ more \in Seq(ModuleIds) /\ IsInjective(more) /\ ToSet(more) = listed \ ToSet(known)
    <2>1. listed \ ToSet(known) \in SUBSET ModuleIds
        OBVIOUS
    <2> QED BY <2>1, AlphabeticalIs
<1>3. Sequence(stored, listed) = new
    BY DEF Sequence
<1> HIDE DEF known, more
<1>4. more \in Seq(Ids)
    BY <1>2, ModuleIdsAre
<1>5. /\ new \in Seq(Ids) /\ Len(new) = Len(known) + Len(more)
      /\ Len(known) \in Nat /\ Len(more) \in Nat
      /\ DOMAIN new = 1..Len(new) /\ DOMAIN known = 1..Len(known) /\ DOMAIN more = 1..Len(more)
      /\ \A i \in 1..Len(known) : i \in DOMAIN new /\ new[i] = known[i]
      /\ \A i \in 1..Len(more) : Len(known) + i \in DOMAIN new /\ new[Len(known) + i] = more[i]
      /\ \A i \in DOMAIN new : i \in DOMAIN known \/ \E j \in DOMAIN more : i = Len(known) + j
    <2>1. /\ Len(known) \in Nat /\ Len(more) \in Nat
          /\ DOMAIN known = 1..Len(known) /\ DOMAIN more = 1..Len(more)
        BY <1>1, <1>4
    <2>2. /\ new \in Seq(Ids) /\ Len(new) = Len(known) + Len(more)
          /\ DOMAIN new = 1..Len(new)
        BY <1>1, <1>4
    <2>3. \A i \in 1..Len(known) : i \in DOMAIN new /\ new[i] = known[i]
        BY <1>1, <1>4, <2>1, <2>2
    <2>4. ASSUME NEW i \in 1..Len(more)
          PROVE  Len(known) + i \in DOMAIN new /\ new[Len(known) + i] = more[i]
        <3>1. Len(known) + i \in DOMAIN new /\ Len(known) + i > Len(known)
            BY <2>1, <2>2
        <3>2. Len(known) + i - Len(known) = i
            BY <2>1
        <3>3. new[Len(known) + i] = more[Len(known) + i - Len(known)]
            BY <1>1, <1>4, <2>1, <2>2, <3>1
        <3> QED BY <3>1, <3>2, <3>3
    <2>5. ASSUME NEW i \in DOMAIN new, i \notin DOMAIN known
          PROVE  \E j \in DOMAIN more : i = Len(known) + j
        <3>1. i - Len(known) \in 1..Len(more) /\ i = Len(known) + (i - Len(known))
            BY <2>1, <2>2, <2>5
        <3> QED BY <2>1, <3>1
    <2> QED BY <2>1, <2>2, <2>3, <2>4, <2>5
<1> HIDE DEF new
<1>6. IsInjective(new)
    <2>1. ASSUME NEW a \in DOMAIN new, NEW b \in DOMAIN new, new[a] = new[b]
          PROVE  a = b
        <3>1. \A i \in DOMAIN known, j \in DOMAIN more : known[i] # more[j]
            BY <1>2 DEF ToSet
        <3> QED BY <1>1, <1>2, <1>5, <2>1, <3>1 DEF IsInjective
    <2> QED BY <2>1 DEF IsInjective
<1>7. listed \subseteq ToSet(new)
    <2>1. ASSUME NEW m \in listed
          PROVE  \E i \in DOMAIN new : new[i] = m
        <3>1. (\E i \in DOMAIN known : known[i] = m) \/ \E j \in DOMAIN more : more[j] = m
            BY <1>2 DEF ToSet
        <3> QED BY <1>5, <3>1
    <2> QED BY <2>1 DEF ToSet
<1>8. Keeps(new, known, listed)
    BY <1>5 DEF Keeps
<1> QED BY <1>3, <1>5, <1>6, <1>7, <1>8 DEF SequenceOf, known

\* What the cards of a page have to be.
CardsOf(cards, listed) ==
    /\ cards \in Seq(ModuleIds) /\ IsInjective(cards) /\ ToSet(cards) = listed

LEMMA ArrangedIs ==
    ASSUME NEW listed \in SUBSET ModuleIds, NEW sequence, SequenceOf(sequence, listed)
    PROVE  /\ CardsOf(Arranged(sequence, listed), listed)
           /\ Len(Arranged(sequence, listed)) = Cardinality(Shown(sequence, listed))
<1> DEFINE shown == Shown(sequence, listed)
           new == Arranged(sequence, listed)
<1>1. sequence \in Seq(Ids) /\ IsInjective(sequence) /\ listed \subseteq ToSet(sequence)
    BY DEF SequenceOf
<1>2. shown \in SUBSET DOMAIN sequence
    BY DEF Shown
<1>3. \A i \in DOMAIN sequence : i \in shown <=> sequence[i] \in listed
    BY DEF Shown
<1>4. new = Picked(sequence, shown)
    BY DEF Arranged
<1> HIDE DEF shown, new
<1>5. /\ new \in Seq(Ids) /\ Len(new) = Cardinality(shown) /\ Cardinality(shown) \in Nat
      /\ DOMAIN new = 1..Cardinality(shown)
      /\ \A i \in shown : Rank(shown, i) \in 1..Cardinality(shown) /\ new[Rank(shown, i)] = sequence[i]
      /\ \A k \in 1..Cardinality(shown) : \E i \in shown : Rank(shown, i) = k /\ new[k] = sequence[i]
    BY <1>1, <1>2, <1>4, PickedIs
<1>6. new \in Seq(ModuleIds)
    <2>1. \A k \in DOMAIN new : new[k] \in ModuleIds
        BY <1>2, <1>3, <1>5
    <2>2. Len(new) \in Nat /\ new = [k \in 1..Len(new) |-> new[k]] /\ DOMAIN new = 1..Len(new)
        BY <1>5
    <2> QED BY <2>1, <2>2
<1>7. IsInjective(new)
    <2>1. \A i, j \in shown : sequence[i] = sequence[j] => i = j
        BY <1>1, <1>2 DEF IsInjective
    <2> QED BY <1>5, <2>1 DEF IsInjective
<1>8. ToSet(new) = listed
    <2>1. \A m \in listed : \E i \in shown : sequence[i] = m
        BY <1>1, <1>3 DEF ToSet
    <2>2. \A i \in shown : sequence[i] \in listed
        BY <1>2, <1>3
    <2> QED BY <1>5, <2>1, <2>2 DEF ToSet
<1> QED BY <1>5, <1>6, <1>7, <1>8 DEF CardsOf, new, shown

\* Cards of another order, of the same modules, are put in the visible slots.
LEMMA ReplacedIs ==
    ASSUME NEW listed \in SUBSET ModuleIds, NEW sequence, SequenceOf(sequence, listed),
           NEW cards, CardsOf(cards, listed), Len(cards) = Len(Arranged(sequence, listed))
    PROVE  /\ SequenceOf(Replaced(sequence, listed, cards), listed)
           /\ Arranged(Replaced(sequence, listed, cards), listed) = cards
           /\ \A before : Keeps(sequence, before, listed) =>
                              Keeps(Replaced(sequence, listed, cards), before, listed)
<1> DEFINE shown == Shown(sequence, listed)
           new == Replaced(sequence, listed, cards)
<1>1. /\ sequence \in Seq(Ids) /\ IsInjective(sequence) /\ DOMAIN sequence = 1..Len(sequence)
      /\ Len(sequence) \in Nat
    BY DEF SequenceOf
<1>2. /\ cards \in Seq(ModuleIds) /\ IsInjective(cards) /\ ToSet(cards) = listed
      /\ Len(cards) = Cardinality(shown)
    BY ArrangedIs DEF CardsOf
<1>3. shown \in SUBSET DOMAIN sequence /\ \A i \in DOMAIN sequence : i \in shown <=> sequence[i] \in listed
    BY DEF Shown
<1>4. new = [i \in DOMAIN sequence |-> IF i \in shown THEN cards[Rank(shown, i)] ELSE sequence[i]]
    BY DEF Replaced
<1> HIDE DEF shown, new
<1>5. /\ Cardinality(shown) \in Nat
      /\ \A i \in shown : Rank(shown, i) \in 1..Cardinality(shown)
      /\ \A i, j \in shown : i < j => Rank(shown, i) < Rank(shown, j)
      /\ \A k \in 1..Cardinality(shown) : \E i \in shown : Rank(shown, i) = k
    <2>1. shown \in SUBSET (1..Len(sequence))
        BY <1>1, <1>3
    <2> QED BY <1>1, <2>1, RanksAreAll
<1>6. \A i, j \in shown : Rank(shown, i) = Rank(shown, j) => i = j
    <2>1. \A i \in shown : i \in Nat /\ Rank(shown, i) \in Nat
        BY <1>1, <1>3, <1>5
    <2> QED BY <1>5, <2>1
<1>7. /\ DOMAIN cards = 1..Cardinality(shown)
      /\ \A k \in DOMAIN cards : cards[k] \in listed
    BY <1>2 DEF ToSet
<1>8. /\ DOMAIN new = DOMAIN sequence
      /\ \A i \in shown : new[i] = cards[Rank(shown, i)] /\ new[i] \in listed
      /\ \A i \in DOMAIN sequence \ shown : new[i] = sequence[i] /\ new[i] \notin listed
    BY <1>3, <1>4, <1>5, <1>7
<1>9. new \in Seq(Ids)
    <2>1. \A i \in DOMAIN sequence : new[i] \in Ids
        BY <1>1, <1>8, ModuleIdsAre
    <2>2. new \in [1..Len(sequence) -> Ids]
        BY <1>1, <1>4, <2>1
    <2> QED BY <1>1, <2>2
<1>10. IsInjective(new)
    <2>1. ASSUME NEW a \in DOMAIN new, NEW b \in DOMAIN new, new[a] = new[b]
          PROVE  a = b
        <3>1. a \in shown <=> b \in shown
            BY <1>8, <2>1
        <3>2. CASE a \in shown
            <4>1. cards[Rank(shown, a)] = cards[Rank(shown, b)]
                BY <1>8, <2>1, <3>1, <3>2
            <4> QED BY <1>2, <1>5, <1>6, <1>7, <3>1, <3>2, <4>1 DEF IsInjective
        <3>3. CASE a \notin shown
            BY <1>1, <1>8, <2>1, <3>1, <3>3 DEF IsInjective
        <3> QED BY <3>2, <3>3
    <2> QED BY <2>1 DEF IsInjective
<1>11. listed \subseteq ToSet(new)
    <2>1. ASSUME NEW m \in listed
          PROVE  \E i \in DOMAIN new : new[i] = m
        <3>1. PICK k \in DOMAIN cards : cards[k] = m
            BY <1>2 DEF ToSet
        <3>2. PICK i \in shown : Rank(shown, i) = k
            BY <1>5, <1>7
        <3> QED BY <1>3, <1>8, <3>1, <3>2
    <2> QED BY <2>1 DEF ToSet
<1>12. Shown(new, listed) = shown
    BY <1>3, <1>8 DEF Shown
<1>13. Arranged(new, listed) = cards
    <2>1. /\ Picked(new, shown) \in Seq(Ids) /\ DOMAIN Picked(new, shown) = 1..Cardinality(shown)
          /\ \A k \in 1..Cardinality(shown) :
                 \E i \in shown : Rank(shown, i) = k /\ Picked(new, shown)[k] = new[i]
        <3>1. shown \in SUBSET DOMAIN new
            BY <1>3, <1>8
        <3> QED BY <1>9, <3>1, PickedIs
    <2>2. \A k \in 1..Cardinality(shown) : Picked(new, shown)[k] = cards[k]
        BY <1>8, <2>1
    <2>3. Picked(new, shown) = cards
        BY <1>2, <1>7, <2>1, <2>2
    <2> QED BY <1>12, <2>3 DEF Arranged
<1>14. ASSUME NEW before, Keeps(sequence, before, listed)
       PROVE  Keeps(new, before, listed)
    BY <1>3, <1>8, <1>14 DEF Keeps
<1> QED BY <1>9, <1>10, <1>11, <1>13, <1>14 DEF SequenceOf, new

\* The sequence s with e at place q.
IsInserted(new, s, q, e) ==
    /\ Len(new) = Len(s) + 1
    /\ \A k \in 1 .. Len(s) + 1 :
           new[k] = IF k < q THEN s[k] ELSE IF k = q THEN e ELSE s[k - 1]

LEMMA InsertedIs ==
    ASSUME NEW S, NEW s \in Seq(S), NEW e \in S,
           NEW q \in Nat, 1 <= q, q <= Len(s) + 1
    PROVE  InsertAt(s, q, e) \in Seq(S) /\ IsInserted(InsertAt(s, q, e), s, q, e)
<1> DEFINE front == SubSeq(s, 1, q - 1)
           back == SubSeq(s, q, Len(s))
           head == front \o <<e>>
<1>1. Len(s) \in Nat /\ q \in Nat /\ 1 <= q /\ q <= Len(s) + 1
    OBVIOUS
<1>2. front \in Seq(S) /\ Len(front) = q - 1 /\ \A k \in 1 .. q - 1 : front[k] = s[k]
    BY <1>1
<1>3. back \in Seq(S) /\ Len(back) = Len(s) - q + 1
      /\ \A k \in 1 .. Len(s) - q + 1 : back[k] = s[q + k - 1]
    BY <1>1
<1> HIDE DEF front, back
<1>4. /\ head \in Seq(S) /\ Len(head) = q /\ head[q] = e
      /\ \A k \in 1 .. q - 1 : head[k] = s[k]
    BY <1>1, <1>2
<1> HIDE DEF head
<1>5. InsertAt(s, q, e) = head \o back
    BY DEF InsertAt, head, front, back
<1>6. head \o back \in Seq(S) /\ Len(head \o back) = Len(s) + 1
    <2>0. head \in Seq(S) /\ back \in Seq(S)
        BY <1>3, <1>4
    <2>1. head \o back \in Seq(S) /\ Len(head \o back) = Len(head) + Len(back)
        BY ONLY <2>0
    <2>2. Len(head) + Len(back) = Len(s) + 1
        BY <1>1, <1>3, <1>4
    <2> QED BY <2>1, <2>2
<1>7. ASSUME NEW k \in 1 .. Len(s) + 1
      PROVE  (head \o back)[k] = IF k < q THEN s[k] ELSE IF k = q THEN e ELSE s[k - 1]
    <2>1. CASE k <= q
        <3>1. (head \o back)[k] = head[k]
            BY <1>1, <1>3, <1>4, <1>6, <2>1
        <3> QED BY <1>1, <1>4, <2>1, <3>1
    <2>2. CASE k > q
        <3>1. (head \o back)[k] = back[k - q]
            BY <1>1, <1>3, <1>4, <1>6, <2>2
        <3>2. k - q \in 1 .. Len(s) - q + 1 /\ q + (k - q) - 1 = k - 1
            BY <1>1, <2>2
        <3>3. back[k - q] = s[k - 1]
            BY <1>3, <3>2
        <3>4. ~(k < q) /\ k # q
            BY <1>1, <2>2
        <3> QED BY <3>1, <3>3, <3>4
    <2>3. k <= q \/ k > q
        BY <1>1
    <2> QED BY <2>1, <2>2, <2>3
<1> QED BY <1>5, <1>6, <1>7 DEF IsInserted

\* A card is taken out and put in again.
LEMMA MovedIs ==
    ASSUME NEW listed, CardsOf(sheet.cards, listed),
           NEW card \in listed, NEW target \in listed, card # target, NEW after
    PROVE  CardsOf(Moved(card, target, after), listed)
           /\ Len(Moved(card, target, after)) = Len(sheet.cards)
<1> DEFINE cards == sheet.cards
           kept == {i \in DOMAIN cards : cards[i] # card}
           others == Picked(cards, kept)
           place == CHOOSE i \in DOMAIN others : others[i] = target
           q == IF after THEN place + 1 ELSE place
           new == InsertAt(others, q, card)
<1>1. /\ cards \in Seq(ModuleIds) /\ IsInjective(cards) /\ ToSet(cards) = listed
      /\ Len(cards) \in Nat /\ DOMAIN cards = 1..Len(cards)
    BY DEF CardsOf
<1>2. Moved(card, target, after) = new
    BY DEF Moved
<1> HIDE DEF cards
<1>3. PICK p \in DOMAIN cards : cards[p] = card
    BY <1>1 DEF ToSet
<1>4. kept = DOMAIN cards \ {p}
    BY <1>1, <1>3 DEF IsInjective
<1>5. Cardinality(kept) = Len(cards) - 1 /\ 1 <= Len(cards)
    <2>1. \A n \in Nat : IsFiniteSet(1..n) /\ Cardinality(1..n) = n
        BY FS_Interval
    <2>2. /\ Len(cards) \in Nat /\ p \in 1..Len(cards) /\ kept = (1..Len(cards)) \ {p}
        BY <1>1, <1>3, <1>4
    <2>3. IsFiniteSet(1..Len(cards)) /\ Cardinality(1..Len(cards)) = Len(cards)
        BY <2>1, <2>2
    <2> HIDE DEF kept
    <2>4. Cardinality(kept) = Cardinality(1..Len(cards)) - 1
        BY <2>2, <2>3, FS_RemoveElement
    <2>5. 1 <= Len(cards)
        BY <2>2
    <2> QED BY <2>3, <2>4, <2>5
<1>6. \A i \in DOMAIN cards : i \in kept <=> cards[i] # card
    OBVIOUS
<1> HIDE DEF kept
<1>7. /\ others \in Seq(ModuleIds) /\ Len(others) = Cardinality(kept)
      /\ DOMAIN others = 1..Cardinality(kept)
      /\ \A i \in kept : Rank(kept, i) \in 1..Cardinality(kept) /\ others[Rank(kept, i)] = cards[i]
      /\ \A k \in 1..Cardinality(kept) : \E i \in kept : Rank(kept, i) = k /\ others[k] = cards[i]
    <2>1. kept \in SUBSET DOMAIN cards
        BY <1>4
    <2> QED BY <1>1, <2>1, PickedIs
<1> HIDE DEF others
<1>8. IsInjective(others)
    <2>1. \A i, j \in kept : cards[i] = cards[j] => i = j
        BY <1>1, <1>4 DEF IsInjective
    <2> QED BY <1>7, <2>1 DEF IsInjective
<1>9. ToSet(others) = listed \ {card}
    <2>1. \A i \in kept : cards[i] \in listed \ {card}
        BY <1>1, <1>4, <1>6 DEF ToSet
    <2>2. \A m \in listed \ {card} : \E i \in kept : cards[i] = m
        BY <1>1, <1>6 DEF ToSet
    <2> QED BY <1>7, <2>1, <2>2 DEF ToSet
<1>10. place \in DOMAIN others
    <2>1. \E i \in DOMAIN others : others[i] = target
        BY <1>9 DEF ToSet
    <2> QED BY <2>1
<1>11. q \in 1 .. Len(others) + 1 /\ Len(others) + 1 = Len(cards) /\ Len(others) \in Nat /\ q \in Nat
    <2>1. place \in 1..Len(others) /\ Len(others) = Len(cards) - 1
        BY <1>5, <1>7, <1>10
    <2> HIDE DEF place
    <2> QED BY <1>1, <2>1
<1> HIDE DEF q
<1>12. card \in ModuleIds
    BY <1>1, <1>3
<1>13. /\ new \in Seq(ModuleIds) /\ Len(new) = Len(cards)
       /\ \A k \in 1 .. Len(cards) :
              new[k] = IF k < q THEN others[k] ELSE IF k = q THEN card ELSE others[k - 1]
    <2>1. new \in Seq(ModuleIds) /\ IsInserted(new, others, q, card)
        <3>1. 1 <= q /\ q <= Len(others) + 1 /\ q \in Nat
            BY <1>11
        <3>2. others \in Seq(ModuleIds)
            BY <1>7
        <3> HIDE DEF others
        <3> QED BY ONLY <1>12, <3>1, <3>2, InsertedIs
    <2> HIDE DEF new
    <2> QED BY <1>11, <2>1 DEF IsInserted
<1> HIDE DEF new
<1>14. DOMAIN new = 1 .. Len(cards) /\ DOMAIN others = 1 .. Len(cards) - 1 /\ q \in 1 .. Len(cards)
    BY <1>1, <1>7, <1>11, <1>13
<1>15. \A i \in DOMAIN others : others[i] # card
    BY <1>9 DEF ToSet
<1>16. IsInjective(new)
    <2>1. ASSUME NEW a \in DOMAIN new, NEW b \in DOMAIN new, new[a] = new[b]
          PROVE  a = b
        <3>1. \A k \in DOMAIN new : \/ k < q /\ k \in DOMAIN others /\ new[k] = others[k]
                                    \/ k = q /\ new[k] = card
                                    \/ k > q /\ k - 1 \in DOMAIN others /\ new[k] = others[k - 1]
            BY <1>1, <1>11, <1>13, <1>14
        <3>2. \A i, j \in DOMAIN others : others[i] = others[j] => i = j
            BY <1>8 DEF IsInjective
        <3>3. a \in Nat /\ b \in Nat
            BY <1>1, <1>14
        <3>4. a < q => ~(b > q)
            <4>1. ASSUME a < q, b > q PROVE FALSE
                <5>1. a \in DOMAIN others /\ b - 1 \in DOMAIN others /\ others[a] = others[b - 1]
                    BY <1>11, <2>1, <3>1, <3>3, <4>1
                <5>2. a = b - 1
                    BY <3>2, <5>1
                <5> QED BY <1>11, <3>3, <4>1, <5>2
            <4> QED BY <4>1
        <3>5. b < q => ~(a > q)
            <4>1. ASSUME b < q, a > q PROVE FALSE
                <5>1. b \in DOMAIN others /\ a - 1 \in DOMAIN others /\ others[b] = others[a - 1]
                    BY <1>11, <2>1, <3>1, <3>3, <4>1
                <5>2. b = a - 1
                    BY <3>2, <5>1
                <5> QED BY <1>11, <3>3, <4>1, <5>2
            <4> QED BY <4>1
        <3>6. a < q /\ b < q => a = b
            BY <1>11, <2>1, <3>1, <3>2, <3>3
        <3>7. a > q /\ b > q => a = b
            <4>1. ASSUME a > q, b > q PROVE a - 1 = b - 1
                <5>1. a - 1 \in DOMAIN others /\ b - 1 \in DOMAIN others /\ others[a - 1] = others[b - 1]
                    BY <1>11, <2>1, <3>1, <3>3, <4>1
                <5> QED BY <3>2, <5>1
            <4> QED BY <3>3, <4>1
        <3>8. (a = q => b = q) /\ (b = q => a = q)
            <4>1. \A k \in DOMAIN new : new[k] = card => k = q
                BY <1>15, <3>1
            <4>2. new[q] = card
                BY <1>11, <1>13, <1>14
            <4> QED BY <2>1, <4>1, <4>2
        <3> QED BY <1>11, <3>3, <3>4, <3>5, <3>6, <3>7, <3>8
    <2> QED BY <2>1 DEF IsInjective
<1>17. ToSet(new) = listed
    <2>1. \A k \in DOMAIN new : new[k] \in listed
        <3>1. \A i \in DOMAIN others : others[i] \in listed
            BY <1>9 DEF ToSet
        <3>2. \A k \in DOMAIN new : \/ k \in DOMAIN others /\ new[k] = others[k]
                                    \/ new[k] = card
                                    \/ k - 1 \in DOMAIN others /\ new[k] = others[k - 1]
            BY <1>1, <1>11, <1>13, <1>14
        <3> QED BY <3>1, <3>2
    <2>2. ASSUME NEW m \in listed
          PROVE  \E k \in DOMAIN new : new[k] = m
        <3>1. CASE m = card
            <4>1. q \in DOMAIN new /\ new[q] = card
                BY <1>11, <1>13, <1>14
            <4> QED BY <3>1, <4>1
        <3>2. CASE m # card
            <4>1. PICK i \in DOMAIN others : others[i] = m
                BY <1>9, <3>2 DEF ToSet
            <4>2. i \in Nat /\ i \in 1 .. Len(cards) /\ i + 1 \in 1 .. Len(cards) /\ i + 1 - 1 = i
                BY <1>1, <1>14
            <4>3. i < q => new[i] = m
                BY <1>13, <4>1, <4>2
            <4>4. ~(i < q) => new[i + 1] = m
                BY <1>11, <1>13, <4>1, <4>2
            <4> QED BY <1>14, <4>2, <4>3, <4>4
        <3> QED BY <3>1, <3>2
    <2> QED BY <2>1, <2>2 DEF ToSet
<1> QED BY <1>2, <1>13, <1>16, <1>17 DEF CardsOf, cards

\* A page that loads what was stored shows the same order.
LEMMA StoredIsKnown ==
    ASSUME NEW listed \in SUBSET ModuleIds, NEW sequence, SequenceOf(sequence, listed),
           NEW stored, stored = [readable |-> TRUE, ids |-> sequence]
    PROVE  Known(stored) = sequence /\ Sequence(stored, listed) = sequence
<1>1. /\ sequence \in Seq(Ids) /\ IsInjective(sequence) /\ listed \subseteq ToSet(sequence)
      /\ DOMAIN sequence = 1..Len(sequence) /\ Len(sequence) \in Nat
    BY DEF SequenceOf
<1> DEFINE first(i) == \A j \in 1 .. i - 1 : sequence[j] # sequence[i]
           kept == {i \in DOMAIN sequence : Valid(sequence[i]) /\ first(i)}
<1>2. Known(stored) = Picked(sequence, kept)
    BY DEF Known
<1>3. \A i \in DOMAIN sequence : Valid(sequence[i]) /\ first(i)
    <2>1. \A i \in DOMAIN sequence : Valid(sequence[i])
        BY <1>1 DEF Valid, Ids
    <2>2. ASSUME NEW i \in DOMAIN sequence, NEW j \in 1 .. i - 1
          PROVE  sequence[j] # sequence[i]
        <3>1. j \in DOMAIN sequence /\ j # i
            BY <1>1
        <3> QED BY <1>1, <3>1 DEF IsInjective
    <2> QED BY <2>1, <2>2
<1>4. kept = DOMAIN sequence
    BY <1>3
<1>5. Known(stored) = sequence
    BY <1>1, <1>2, <1>4, PickedAll
<1>6. listed \ ToSet(sequence) = {}
    BY <1>1
<1>7. Alphabetical({}) = <<>>
    BY PickedNone DEF Alphabetical
<1>8. sequence \o <<>> = sequence
    BY <1>1
<1> QED BY <1>5, <1>6, <1>7, <1>8 DEF Sequence

\* What a reset leaves is the order of the server.
LEMMA NothingIsKnown ==
    ASSUME NEW listed \in SUBSET ModuleIds
    PROVE  Known(Nothing) = <<>> /\ Sequence(Nothing, listed) = Alphabetical(listed)
<1>1. Known(Nothing) = <<>>
    <2>1. DOMAIN Nothing.ids = {} /\ Nothing.readable /\ Nothing.ids = <<>>
        BY DEF Nothing
    <2> DEFINE kept == {i \in DOMAIN Nothing.ids : Valid(Nothing.ids[i]) /\
                            \A j \in 1 .. i - 1 : Nothing.ids[j] # Nothing.ids[i]}
    <2>2. Known(Nothing) = Picked(Nothing.ids, kept)
        BY <2>1 DEF Known
    <2>3. kept = {}
        BY <2>1
    <2> QED BY <2>2, <2>3, PickedNone
<1>2. listed \ ToSet(<<>>) = listed
    BY DEF ToSet
<1>3. <<>> \o Alphabetical(listed) = Alphabetical(listed)
    BY AlphabeticalIs
<1> QED BY <1>1, <1>2, <1>3 DEF Sequence

Sheet ==
    [open : BOOLEAN, arranging : BOOLEAN, listed : SUBSET ModuleIds, cards : Seq(ModuleIds),
     sequence : Seq(Ids), said : {"", "saved", "not saved", "cancelled"}, reset : BOOLEAN]

\* A page shows what its sequence arranges.
PageOf(s) ==
    /\ s \in Sheet
    /\ SequenceOf(s.sequence, s.listed) /\ s.cards = Arranged(s.sequence, s.listed)
    /\ s.arranging \/ s.listed # {} => s.open

\* What a page shows, and what its sequence keeps of what is stored.
Agrees(s, stored, fresh) ==
    /\ s.said = "saved" /\ fresh => Arranged(Sequence(stored, s.listed), s.listed) = s.cards
    /\ s.open /\ fresh /\ stored.readable /\ ~s.reset => Keeps(s.sequence, Known(stored), s.listed)

DragOf(d, listed) ==
    /\ d \in [card : listed \cup {0}, active : BOOLEAN, target : listed \cup {0}, after : BOOLEAN]
    /\ d.card = 0 => d = NoDrag
    /\ d.target # 0 => d.target # d.card

OrderInv ==
    /\ StoreIs(store) /\ foreign \in 0 .. MaxForeign /\ seen \in BOOLEAN
    /\ PageOf(sheet) /\ Agrees(sheet, store, seen) /\ DragOf(drag, sheet.listed)

LEMMA NothingIsDragged == ASSUME NEW listed PROVE DragOf(NoDrag, listed)
BY DEF NoDrag, DragOf

LEMMA NothingStored == StoreIs(Nothing)
BY DEF Nothing, StoreIs

\* Whether or not the storage takes the ids that a page is left with.
LEMMA StoredHolds ==
    ASSUME StoreIs(store), seen \in BOOLEAN, NEW said, PageOf(said),
           NEW ids \in Seq(Nat), Stored(ids, said),
           NEW stored, stored = [readable |-> TRUE, ids |-> ids],
           Arranged(Sequence(stored, said.listed), said.listed) = said.cards,
           ~said.reset => Keeps(said.sequence, Known(stored), said.listed),
           said.open /\ seen /\ store.readable /\ ~said.reset =>
               Keeps(said.sequence, Known(store), said.listed)
    PROVE  /\ StoreIs(store') /\ PageOf(sheet') /\ Agrees(sheet', store', seen)
           /\ sheet'.listed = said.listed /\ sheet'.reset = said.reset
           /\ store' # store => store'.ids = ids
<1>1. ASSUME NEW word \in {"saved", "not saved"}, NEW after, after = [said EXCEPT !.said = word]
      PROVE  /\ PageOf(after) /\ after.listed = said.listed /\ after.cards = said.cards
             /\ after.sequence = said.sequence /\ after.open = said.open
             /\ after.reset = said.reset /\ after.said = word
    <2>1. /\ after \in Sheet /\ after.listed = said.listed /\ after.cards = said.cards
          /\ after.sequence = said.sequence /\ after.open = said.open
          /\ after.arranging = said.arranging
          /\ after.reset = said.reset /\ after.said = word
        BY <1>1 DEF PageOf, Sheet
    <2> QED BY <2>1 DEF PageOf
<1>2. PICK after : after = sheet'
    OBVIOUS
<1>3. CASE store' = stored /\ after = [said EXCEPT !.said = "saved"]
    <2>1. /\ PageOf(after) /\ after.listed = said.listed /\ after.cards = said.cards
          /\ after.sequence = said.sequence /\ after.open = said.open
          /\ after.reset = said.reset
        BY <1>1, <1>3
    <2>2. StoreIs(stored) /\ stored.ids = ids
        BY DEF StoreIs
    <2>3. Agrees(after, stored, seen)
        BY <2>1 DEF Agrees
    <2> QED BY <1>2, <1>3, <2>1, <2>2, <2>3
<1>4. CASE store' = store /\ after = [said EXCEPT !.said = "not saved"]
    <2>1. /\ PageOf(after) /\ after.listed = said.listed /\ after.cards = said.cards
          /\ after.sequence = said.sequence /\ after.open = said.open
          /\ after.reset = said.reset /\ after.said = "not saved"
        BY <1>1, <1>4
    <2>2. Agrees(after, store, seen)
        BY <2>1 DEF Agrees
    <2> QED BY <1>2, <1>4, <2>1, <2>2
<1> QED BY <1>2, <1>3, <1>4 DEF Stored

\* A card is moved, and the sequence follows.
LEMMA MoveHolds ==
    ASSUME OrderInv, NEW card \in sheet.listed, NEW target \in sheet.listed, card # target,
           NEW after, Move(card, target, after)
    PROVE  /\ StoreIs(store') /\ PageOf(sheet') /\ Agrees(sheet', store', seen)
           /\ sheet'.listed = sheet.listed
           /\ sheet.reset = sheet'.reset
           /\ store' # store /\ seen /\ store.readable /\ ~sheet.reset =>
                  Keeps(store'.ids, Known(store), sheet.listed)
<1>1. /\ StoreIs(store) /\ seen \in BOOLEAN /\ PageOf(sheet) /\ Agrees(sheet, store, seen)
      /\ sheet \in Sheet /\ sheet.listed \in SUBSET ModuleIds /\ sheet.open
      /\ SequenceOf(sheet.sequence, sheet.listed) /\ sheet.cards = Arranged(sheet.sequence, sheet.listed)
    BY DEF OrderInv, PageOf, Sheet
<1> DEFINE listed == sheet.listed
           cards == Moved(card, target, after)
           sequence == Replaced(sheet.sequence, listed, cards)
           said == [sheet EXCEPT !.cards = cards, !.sequence = sequence]
           stored == [readable |-> TRUE, ids |-> sequence]
<1>2. CASE cards = sheet.cards
    BY <1>1, <1>2 DEF Move
<1>3. CASE cards # sheet.cards
    <2>1. CardsOf(cards, listed) /\ Len(cards) = Len(sheet.cards)
        <3>1. CardsOf(sheet.cards, sheet.listed)
            BY <1>1, ArrangedIs
        <3> QED BY <3>1, MovedIs
    <2>2. Stored(sequence, said)
        BY <1>3 DEF Move
    <2> HIDE DEF cards
    <2>3. /\ SequenceOf(sequence, listed) /\ Arranged(sequence, listed) = cards
          /\ \A before : Keeps(sheet.sequence, before, listed) => Keeps(sequence, before, listed)
        <3>1. Len(cards) = Len(Arranged(sheet.sequence, listed)) /\ CardsOf(cards, listed)
            BY <1>1, <2>1
        <3>2. SequenceOf(sheet.sequence, listed) /\ listed \in SUBSET ModuleIds
            BY <1>1
        <3> HIDE DEF listed
        <3>3. /\ SequenceOf(Replaced(sheet.sequence, listed, cards), listed)
              /\ Arranged(Replaced(sheet.sequence, listed, cards), listed) = cards
              /\ \A before : Keeps(sheet.sequence, before, listed) =>
                                 Keeps(Replaced(sheet.sequence, listed, cards), before, listed)
            BY ONLY <3>1, <3>2, ReplacedIs
        <3> QED BY <3>3
    <2> HIDE DEF sequence
    <2>4. cards \in Seq(ModuleIds) /\ sequence \in Seq(Ids)
        BY <2>1, <2>3 DEF CardsOf, SequenceOf
    <2>5. /\ said \in Sheet /\ said.listed = listed /\ said.cards = cards
          /\ said.sequence = sequence /\ said.open = sheet.open /\ said.arranging = sheet.arranging
          /\ said.reset = sheet.reset
        BY <1>1, <2>4 DEF Sheet
    <2> HIDE DEF said
    <2>6. PageOf(said)
        BY <1>1, <2>3, <2>5 DEF PageOf
    <2>7. Known(stored) = sequence /\ Sequence(stored, listed) = sequence
        BY <1>1, <2>3, StoredIsKnown
    <2>8. Keeps(sequence, sequence, listed)
        BY DEF Keeps
    <2>9. seen /\ store.readable /\ ~sheet.reset => Keeps(sequence, Known(store), listed)
        BY <1>1, <2>3 DEF Agrees
    <2>10. sequence \in Seq(Nat)
        BY <2>4 DEF Ids
    <2>11. /\ Arranged(Sequence(stored, said.listed), said.listed) = said.cards
           /\ ~said.reset => Keeps(said.sequence, Known(stored), said.listed)
           /\ said.open /\ seen /\ store.readable /\ ~said.reset =>
                  Keeps(said.sequence, Known(store), said.listed)
        BY <2>3, <2>5, <2>7, <2>8, <2>9
    <2>12. stored = [readable |-> TRUE, ids |-> sequence]
        OBVIOUS
    <2> HIDE DEF stored
    <2>13. /\ StoreIs(store') /\ PageOf(sheet') /\ Agrees(sheet', store', seen)
           /\ sheet'.listed = said.listed /\ sheet'.reset = said.reset
           /\ store' # store => store'.ids = sequence
        BY <1>1, <2>2, <2>6, <2>10, <2>11, <2>12, StoredHolds
    <2> QED BY <2>5, <2>9, <2>13
<1> QED BY <1>2, <1>3

KeepsHidden ==
    store' # store /\ foreign' = foreign /\ seen /\ store.readable /\ ~sheet'.reset =>
        Keeps(store'.ids, Known(store), sheet.listed)

LEMMA OrderInvInit == OrderInit => OrderInv
<1> SUFFICES ASSUME OrderInit PROVE OrderInv
    OBVIOUS
<1>1. StoreIs(store) /\ foreign \in 0 .. MaxForeign /\ seen \in BOOLEAN
    BY OrderBoundsAssumption DEF OrderInit, StoreIs
<1>2. SequenceOf(<<>>, {})
    <2>1. DOMAIN <<>> = {} /\ <<>> \in Seq(Ids)
        OBVIOUS
    <2> QED BY <2>1 DEF SequenceOf, IsInjective
<1>3. Arranged(<<>>, {}) = <<>>
    <2>1. Shown(<<>>, {}) = {}
        BY DEF Shown
    <2> QED BY <2>1, PickedNone DEF Arranged
<1>4. NoSheet \in Sheet
    BY DEF NoSheet, Sheet
<1>5. PageOf(NoSheet) /\ Agrees(NoSheet, store, seen)
    BY <1>2, <1>3, <1>4 DEF NoSheet, PageOf, Agrees
<1> QED BY <1>1, <1>5, NothingIsDragged DEF OrderInit, OrderInv

LEMMA LoadPageHolds ==
    ASSUME OrderInv, NEW listed \in SUBSET ModuleIds, listed # {}, NEW arranging \in BOOLEAN,
           LoadPage(listed, arranging)
    PROVE  OrderInv'
<1> DEFINE sequence == Sequence(store, listed)
           cards == Arranged(sequence, listed)
           page == [open |-> TRUE, arranging |-> arranging, listed |-> listed, cards |-> cards,
                    sequence |-> sequence, said |-> "", reset |-> FALSE]
<1>1. StoreIs(store)
    BY DEF OrderInv
<1>2. SequenceOf(sequence, listed) /\ Keeps(sequence, Known(store), listed)
    BY <1>1, SequenceIs
<1>3. sheet' = page /\ seen' = TRUE /\ UNCHANGED <<store, foreign>> /\ drag' = NoDrag
    BY DEF LoadPage
<1> HIDE DEF sequence
<1>4. cards \in Seq(ModuleIds)
    BY <1>2, ArrangedIs DEF CardsOf
<1>5. page \in Sheet
    BY <1>2, <1>4 DEF Sheet, SequenceOf
<1>6. PageOf(page)
    BY <1>2, <1>5 DEF PageOf
<1>7. Agrees(page, store, TRUE)
    BY <1>2 DEF Agrees
<1> HIDE DEF page
<1> QED BY <1>3, <1>6, <1>7, NothingIsDragged DEF OrderInv

LEMMA ResetOrderHolds ==
    ASSUME OrderInv, ResetOrder
    PROVE  OrderInv' /\ sheet'.reset
<1> DEFINE listed == sheet.listed
           cards == Alphabetical(listed)
           said == [sheet EXCEPT !.cards = cards, !.sequence = cards, !.reset = TRUE]
<1>1. /\ StoreIs(store) /\ foreign \in 0 .. MaxForeign /\ seen \in BOOLEAN
      /\ PageOf(sheet) /\ sheet \in Sheet /\ listed \in SUBSET ModuleIds
      /\ sheet.arranging \/ sheet.listed # {} => sheet.open
    BY DEF OrderInv, PageOf, Sheet
<1>2. Stored(<<>>, said) /\ drag' = NoDrag /\ UNCHANGED <<foreign, seen>>
    BY DEF ResetOrder
<1>3. cards \in Seq(ModuleIds) /\ IsInjective(cards) /\ ToSet(cards) = listed
    BY <1>1, AlphabeticalIs
<1> HIDE DEF cards
<1>4. SequenceOf(cards, listed) /\ cards \in Seq(Ids)
    <2>1. cards \in Seq(Ids)
        BY <1>3, ModuleIdsAre
    <2> QED BY <1>3, <2>1 DEF SequenceOf
<1>5. Arranged(cards, listed) = cards
    <2>1. Shown(cards, listed) = DOMAIN cards
        BY <1>3 DEF Shown, ToSet
    <2> QED BY <1>3, <2>1, PickedAll DEF Arranged
<1>6. /\ said \in Sheet /\ said.listed = listed /\ said.cards = cards
      /\ said.sequence = cards /\ said.open = sheet.open /\ said.arranging = sheet.arranging
      /\ said.reset
    BY <1>1, <1>3, <1>4 DEF Sheet
<1> HIDE DEF said
<1>7. PageOf(said)
    BY <1>1, <1>4, <1>5, <1>6 DEF PageOf
<1>8. Sequence(Nothing, listed) = cards
    BY <1>1, NothingIsKnown DEF cards
<1>9. Arranged(Sequence(Nothing, said.listed), said.listed) = said.cards
    BY <1>5, <1>6, <1>8
<1>10. Nothing = [readable |-> TRUE, ids |-> <<>>] /\ <<>> \in Seq(Nat)
    BY DEF Nothing
<1>11. /\ StoreIs(store') /\ PageOf(sheet') /\ Agrees(sheet', store', seen)
       /\ sheet'.listed = said.listed /\ sheet'.reset = said.reset
    BY <1>1, <1>2, <1>6, <1>7, <1>9, <1>10, StoredHolds
<1> QED BY <1>1, <1>2, <1>6, <1>11, NothingIsDragged DEF OrderInv

LEMMA StepCardHolds ==
    ASSUME OrderInv, NEW i \in ModuleIds, NEW offset \in {1, 0 - 1}, StepCard(i, offset)
    PROVE  OrderInv' /\ KeepsHidden
<1>1. PICK card, target : card = sheet.cards[i] /\ target = sheet.cards[i + offset]
    OBVIOUS
<1>2. /\ sheet \in Sheet /\ sheet.listed \in SUBSET ModuleIds
      /\ CardsOf(sheet.cards, sheet.listed)
    BY ArrangedIs DEF OrderInv, PageOf, Sheet
<1>3. card \in sheet.listed /\ target \in sheet.listed
    BY <1>1, <1>2 DEF CardsOf, ToSet, StepCard
<1>4. card # target
    <2>1. i # i + offset
        BY ModuleIdsAre DEF Ids
    <2> QED BY <1>1, <1>2, <2>1 DEF CardsOf, IsInjective, StepCard
<1>5. Move(card, target, offset > 0) /\ UNCHANGED <<drag, foreign, seen>>
    BY <1>1 DEF StepCard
<1>6. /\ StoreIs(store') /\ PageOf(sheet') /\ Agrees(sheet', store', seen)
      /\ sheet'.listed = sheet.listed /\ sheet.reset = sheet'.reset
      /\ store' # store /\ seen /\ store.readable /\ ~sheet.reset =>
             Keeps(store'.ids, Known(store), sheet.listed)
    BY <1>3, <1>4, <1>5, MoveHolds
<1> QED BY <1>5, <1>6 DEF OrderInv, KeepsHidden

LEMMA FinishDragHolds ==
    ASSUME OrderInv, NEW commit \in BOOLEAN, FinishDrag(commit)
    PROVE  OrderInv' /\ KeepsHidden
<1>1. drag # NoDrag /\ drag' = NoDrag /\ UNCHANGED <<foreign, seen>>
    BY DEF FinishDrag
<1>2. CASE commit /\ drag.active /\ drag.target # 0
    <2>1. Move(drag.card, drag.target, drag.after)
        BY <1>2 DEF FinishDrag
    <2>2. drag.card \in sheet.listed /\ drag.target \in sheet.listed /\ drag.card # drag.target
        BY <1>1, <1>2 DEF OrderInv, DragOf
    <2>3. /\ StoreIs(store') /\ PageOf(sheet') /\ Agrees(sheet', store', seen)
          /\ sheet'.listed = sheet.listed /\ sheet.reset = sheet'.reset
          /\ store' # store /\ seen /\ store.readable /\ ~sheet.reset =>
                 Keeps(store'.ids, Known(store), sheet.listed)
        BY <2>1, <2>2, MoveHolds
    <2> QED BY <1>1, <2>3, NothingIsDragged DEF OrderInv, KeepsHidden
<1>3. CASE ~(commit /\ drag.active /\ drag.target # 0)
    <2>1. /\ store' = store
          /\ sheet' = [sheet EXCEPT !.said = "cancelled"] \/ sheet' = sheet
        BY <1>3 DEF FinishDrag
    <2>2. PageOf(sheet) /\ sheet \in Sheet /\ Agrees(sheet, store, seen)
        BY DEF OrderInv, PageOf
    <2>3. PICK after : after = sheet'
        OBVIOUS
    <2>4. ASSUME after = [sheet EXCEPT !.said = "cancelled"]
          PROVE  PageOf(after) /\ Agrees(after, store, seen)
        <3>1. /\ after \in Sheet /\ after.listed = sheet.listed /\ after.cards = sheet.cards
              /\ after.sequence = sheet.sequence /\ after.open = sheet.open
              /\ after.arranging = sheet.arranging
              /\ after.reset = sheet.reset /\ after.said = "cancelled"
            BY <2>2, <2>4 DEF Sheet
        <3> QED BY <2>2, <3>1 DEF PageOf, Agrees
    <2>5. PageOf(sheet') /\ Agrees(sheet', store', seen')
        BY <1>1, <2>1, <2>2, <2>3, <2>4
    <2> QED BY <1>1, <2>1, <2>5, NothingIsDragged DEF OrderInv, KeepsHidden
<1> QED BY <1>2, <1>3

LEMMA OrderStep ==
    ASSUME OrderInv, OrderNext
    PROVE  OrderInv' /\ KeepsHidden
<1>1. ASSUME NEW listed \in (SUBSET ModuleIds) \ {{}}, NEW arranging \in BOOLEAN,
             LoadPage(listed, arranging)
      PROVE  OrderInv' /\ KeepsHidden
    <2>1. store' = store
        BY <1>1 DEF LoadPage
    <2>2. listed \in SUBSET ModuleIds /\ listed # {}
        OBVIOUS
    <2>3. OrderInv'
        BY <1>1, <2>2, LoadPageHolds
    <2> QED BY <2>1, <2>3 DEF KeepsHidden
<1>2. CASE ResetOrder
    BY <1>2, ResetOrderHolds DEF KeepsHidden
<1>3. ASSUME NEW card \in sheet.listed, PointerDown(card)
      PROVE  OrderInv' /\ KeepsHidden
    <2>1. card # 0
        BY ModuleIdsAre DEF OrderInv, PageOf, Sheet, Ids
    <2>2. DragOf(drag', sheet.listed)
        BY <1>3, <2>1 DEF PointerDown, DragOf, NoDrag
    <2>3. UNCHANGED <<store, sheet, foreign, seen>>
        BY <1>3 DEF PointerDown
    <2>4. OrderInv'
        BY <2>2, <2>3 DEF OrderInv
    <2> QED BY <2>3, <2>4 DEF KeepsHidden
<1>4. CASE PointerMove
    <2>1. DragOf(drag', sheet.listed)
        BY <1>4 DEF PointerMove, DragOf, OrderInv, NoDrag
    <2>2. UNCHANGED <<store, sheet, foreign, seen>>
        BY <1>4 DEF PointerMove
    <2>3. OrderInv'
        BY <2>1, <2>2 DEF OrderInv
    <2> QED BY <2>2, <2>3 DEF KeepsHidden
<1>5. CASE ForeignStore
    <2>1. foreign' = foreign + 1 /\ foreign' \in 0 .. MaxForeign /\ foreign' # foreign
        BY <1>5, OrderBoundsAssumption DEF ForeignStore, OrderInv
    <2>2. StoreIs(store')
        <3>1. PICK ids \in Orders : store' = [readable |-> TRUE, ids |-> ids]
            BY <1>5 DEF ForeignStore
        <3>2. PICK n \in 0 .. ModuleCount : ids \in [1 .. n -> ModuleIds]
            BY DEF Orders
        <3>3. n \in Nat
            BY ModuleIdsAre
        <3>4. ids \in [1 .. n -> Nat]
            BY <3>2, ModuleIdsAre DEF Ids
        <3>5. ids \in Seq(Nat)
            BY <3>3, <3>4
        <3> QED BY <3>1, <3>5 DEF StoreIs
    <2>3. Agrees(sheet', store', seen')
        BY <1>5 DEF ForeignStore, Agrees
    <2> QED BY <1>5, <2>1, <2>2, <2>3 DEF ForeignStore, OrderInv, KeepsHidden
<1> QED BY <1>1, <1>2, <1>3, <1>4, <1>5, StepCardHolds, FinishDragHolds DEF OrderNext

LEMMA OrderInvStep == OrderInv /\ [Next]_scriptVars => OrderInv' /\ (KeepsHidden \/ UNCHANGED orderVars)
<1> SUFFICES ASSUME OrderInv, [Next]_scriptVars
             PROVE  OrderInv' /\ (KeepsHidden \/ UNCHANGED orderVars)
    OBVIOUS
<1>1. CASE OrderNext
    BY <1>1, OrderStep
<1>2. CASE UNCHANGED orderVars
    BY <1>2 DEF orderVars, OrderInv
<1> QED BY <1>1, <1>2 DEF Next, Idle, scriptVars

LEMMA OrderInvHolds == Spec => []OrderInv
<1>1. Init => OrderInv
    BY OrderInvInit DEF Init
<1>2. OrderInv /\ [Next]_scriptVars => OrderInv'
    BY OrderInvStep
<1> QED BY <1>1, <1>2, PTL DEF Spec

\* Steps, drags, resets and saves that fail (move() and finishDrag() in
\* module-order.js) leave each listed module on the page once, in the order that
\* is stored if the page says so.
THEOREM ArrangementIsKeptHolds == Spec => []ArrangementIsKept
<1>1. OrderInv => ArrangementIsKept
    <2> SUFFICES ASSUME OrderInv PROVE ArrangementIsKept
        OBVIOUS
    <2>1. PageOf(sheet) /\ sheet.listed \in SUBSET ModuleIds /\ Agrees(sheet, store, seen)
        BY DEF OrderInv, PageOf, Sheet
    <2>2. CardsOf(sheet.cards, sheet.listed)
        BY <2>1, ArrangedIs DEF PageOf
    <2> QED BY <2>1, <2>2 DEF PageOf, CardsOf, Agrees, ArrangementIsKept
<1> QED BY <1>1, OrderInvHolds, PTL

\* replace() in module-order.js fills the visible slots and no other: what is
\* hidden keeps its place in what is stored, until a reset.
THEOREM HiddenKeepTheirPlacesHolds == Spec => HiddenKeepTheirPlaces
<1> DEFINE InPlace == LET before == Known(store)
                   IN store' # store /\ foreign' = foreign /\ seen /\ store.readable /\ ~sheet'.reset =>
                          \A i \in DOMAIN before : before[i] \notin sheet.listed =>
                              i \in DOMAIN store'.ids /\ store'.ids[i] = before[i]
<1>1. OrderInv /\ [Next]_scriptVars => [InPlace]_orderVars
    BY OrderInvStep DEF KeepsHidden, Keeps
<1> QED BY <1>1, OrderInvHolds, PTL DEF Spec, HiddenKeepTheirPlaces

LEMMA OrderTyped == OrderInv => OrderTypeOK
<1> SUFFICES ASSUME OrderInv PROVE OrderTypeOK
    OBVIOUS
<1> QED BY DEF OrderInv, StoreIs, PageOf, Sheet, SequenceOf, DragOf, OrderTypeOK

(***************************************************************************)
(* The history of a page.                                                  *)
(***************************************************************************)

LEMMA HistoryInvHolds == Spec => []HistoryInv
<1>1. Init => HistoryInv
    BY HistoryInvInit DEF Init
<1>2. HistoryInv /\ [Next]_scriptVars => HistoryInv'
    <2>1. [Next]_scriptVars => [HistoryNext]_historyVars
        BY DEF Next, Idle, scriptVars
    <2> QED BY <2>1, HistoryInvStep
<1> QED BY <1>1, <1>2, PTL DEF Spec

\* However ranges roll on and change while slices arrive, fail or are aborted
\* (prepare(), draw() and load() in monitoring-history.js), a row shows the range
\* it was prepared for, unless a refresh failed beside others of its requests.
THEOREM RowsShowTheirRangeHolds == Spec => []RowsShowTheirRange
<1>1. HistoryInv => RowsShowTheirRange
    BY RowsShowIt
<1> QED BY <1>1, HistoryInvHolds, PTL

\* A refresh that holds busy has all its workers at work or asks for the states
\* (refresh() in monitoring-history.js), and loses no row it has taken.
THEOREM RefreshLosesNoRowHolds == Spec => []RefreshLosesNoRow
<1>1. HistoryInv => RefreshLosesNoRow
    BY NoRowIsLost
<1> QED BY <1>1, HistoryInvHolds, PTL

(***************************************************************************)
(* The types of all scripts; for the dialog, that a select holds a value   *)
(* it offers and that at most one list is open.                            *)
(***************************************************************************)

Kinds == ToSet(TypeOptions)
Hosts == ToSet(HostOptions) \cup {Blank}

\* A select offers the value it has.
Offers(options, value) == IsList(options) /\ value \in ToSet(options)

TypedForm(f) ==
    /\ f.kind \in Kinds /\ f.host \in Hosts
    /\ f.options = [l \in Loaders |-> f.options[l]]
    /\ \A l \in Loaders : Offers(f.options[l], f.value[l])

LEMMA KindsAre == Kinds = {"http", "docker", "systemd", "minecraft"}
<1>1. DOMAIN TypeOptions = 1 .. 4
    BY DEF TypeOptions
<1> QED BY <1>1 DEF TypeOptions, Kinds, ToSet

LEMMA OneOffer == ASSUME NEW v PROVE Offers(<<v>>, v)
<1>1. DOMAIN <<v>> = {1} /\ <<v>>[1] = v
    OBVIOUS
<1>2. ToSet(<<v>>) = {v}
    BY <1>1 DEF ToSet
<1>3. <<v>> \in Seq({v})
    OBVIOUS
<1> QED BY <1>2, <1>3 DEF Offers, IsList

\* The names that are found, between a blank and the selection kept.
LEMMA ListOffers ==
    ASSUME NEW items, IsList(items), NEW kept, NEW v,
           \/ kept = <<>> /\ (v = Blank \/ v \in ToSet(items))
           \/ kept = <<v>>
    PROVE  Offers(<<Blank>> \o items \o kept, v)
<1> DEFINE V == ToSet(items) \cup {Blank, v}
           all == <<Blank>> \o items \o kept
<1>1. /\ <<Blank>> \in Seq(V) /\ items \in Seq(V) /\ kept \in Seq(V)
      /\ Len(<<Blank>>) = 1 /\ <<Blank>>[1] = Blank /\ Len(items) \in Nat
      /\ DOMAIN items = 1 .. Len(items)
    <2>1. items \in Seq(ToSet(items))
        BY DEF IsList
    <2>2. items \in Seq(V) /\ Len(items) \in Nat /\ DOMAIN items = 1 .. Len(items)
        BY <2>1
    <2>3. Blank \in V /\ v \in V
        OBVIOUS
    <2> HIDE DEF V
    <2>4. kept \in Seq(V)
        <3>1. <<>> \in Seq(V) /\ <<v>> \in Seq(V)
            BY <2>3
        <3>2. kept = <<>> \/ kept = <<v>>
            OBVIOUS
        <3> QED BY <3>1, <3>2
    <2>5. <<Blank>> \in Seq(V) /\ Len(<<Blank>>) = 1 /\ <<Blank>>[1] = Blank
        BY <2>3
    <2> QED BY <2>2, <2>4, <2>5
<1> HIDE DEF V
<1>2. /\ all \in Seq(V) /\ Len(all) = 1 + Len(items) + Len(kept) /\ Len(kept) \in Nat
      /\ all[1] = Blank
      /\ \A i \in 1 .. Len(items) : all[i + 1] = items[i]
      /\ \A i \in 1 .. Len(kept) : all[i + 1 + Len(items)] = kept[i]
    BY ONLY <1>1
<1> HIDE DEF all
<1>3. DOMAIN all = 1 .. 1 + Len(items) + Len(kept)
    BY <1>2
<1>4. /\ 1 \in DOMAIN all
      /\ \A i \in 1 .. Len(items) : i + 1 \in DOMAIN all
      /\ \A i \in 1 .. Len(kept) : i + 1 + Len(items) \in DOMAIN all
    BY ONLY <1>1, <1>2, <1>3
<1>5. \A i \in DOMAIN all : all[i] \in ToSet(all)
    BY DEF ToSet
<1>6. Blank \in ToSet(all)
    BY <1>2, <1>4, <1>5
<1>7. ASSUME NEW w \in ToSet(items) PROVE w \in ToSet(all)
    <2>1. PICK i \in 1 .. Len(items) : w = items[i]
        BY <1>1 DEF ToSet
    <2> QED BY <1>2, <1>4, <1>5, <2>1
<1>8. v \in ToSet(all)
    <2>1. CASE kept = <<>>
        BY <1>6, <1>7, <2>1
    <2>2. CASE kept = <<v>>
        <3>1. Len(kept) = 1 /\ kept[1] = v
            BY <2>2
        <3>2. all[1 + 1 + Len(items)] = v /\ 1 + 1 + Len(items) \in DOMAIN all
            BY <1>2, <1>4, <3>1
        <3> QED BY <1>5, <3>2
    <2> QED BY <2>1, <2>2
<1>9. all \in Seq(ToSet(all))
    <2>1. \A i \in 1 .. Len(all) : all[i] \in ToSet(all)
        BY <1>2, <1>3, <1>5
    <2> QED BY <1>2, <2>1
<1>10. Offers(all, v)
    BY <1>8, <1>9 DEF Offers, IsList
<1> QED BY <1>10 DEF all

\* What a combobox offers is an option of its select.
LEMMA MatchesAreOptions ==
    ASSUME NEW sel, IsList(sel.options), NEW text, NEW i \in DOMAIN Matches(sel, text)
    PROVE  Matches(sel, text)[i] \in ToSet(sel.options)
<1> DEFINE kept == {j \in DOMAIN sel.options :
                        sel.options[j] \notin sel.unlisted /\ text \in {NoText, sel.options[j]}}
<1>1. kept \in SUBSET DOMAIN sel.options /\ sel.options \in Seq(ToSet(sel.options))
    BY DEF IsList
<1>2. Matches(sel, text) = Picked(sel.options, kept)
    BY DEF Matches
<1> HIDE DEF kept
<1>3. /\ Picked(sel.options, kept) \in Seq(ToSet(sel.options))
    BY <1>1, PickedIs
<1> QED BY <1>2, <1>3

LEMMA SelectOffers ==
    ASSUME NEW f, TypedForm(f), NEW s \in Selects
    PROVE  /\ IsList(SelectOf(f, s).options)
           /\ s = "type" => ToSet(SelectOf(f, s).options) = Kinds
           /\ s = "host" => ToSet(SelectOf(f, s).options) = Hosts
           /\ s \in Loaders => SelectOf(f, s).options = f.options[s]
<1>1. CASE s = "type"
    <2>1. SelectOf(f, s).options = TypeOptions
        BY <1>1 DEF SelectOf, Loaders
    <2>2. TypeOptions \in Seq(Kinds)
        BY KindsAre DEF TypeOptions
    <2> QED BY <1>1, <2>1, <2>2 DEF IsList, Kinds, Loaders
<1>2. CASE s = "host"
    <2>1. SelectOf(f, s).options = <<Blank>> \o HostOptions
        BY <1>2 DEF SelectOf, Loaders
    <2>2. IsList(<<Blank>> \o HostOptions) /\ ToSet(<<Blank>> \o HostOptions) = Hosts
        <3> DEFINE all == <<Blank>> \o HostOptions
        <3>1. /\ HostOptions \in Seq(ToSet(HostOptions)) /\ HostOptions \in Seq(Hosts)
              /\ <<Blank>> \in Seq(Hosts) /\ Len(<<Blank>>) = 1 /\ <<Blank>>[1] = Blank
              /\ Len(HostOptions) \in Nat /\ DOMAIN HostOptions = 1 .. Len(HostOptions)
            <4>1. HostOptions \in Seq(ToSet(HostOptions))
                BY ListsAssumption DEF IsList
            <4>2. ToSet(HostOptions) \subseteq Hosts /\ Blank \in Hosts
                BY DEF Hosts
            <4> QED BY <4>1, <4>2
        <3>2. /\ all \in Seq(Hosts) /\ Len(all) = 1 + Len(HostOptions) /\ all[1] = Blank
              /\ \A i \in 1 .. Len(HostOptions) : all[i + 1] = HostOptions[i]
            BY ONLY <3>1
        <3> HIDE DEF all
        <3>3. /\ DOMAIN all = 1 .. 1 + Len(HostOptions) /\ 1 \in DOMAIN all
              /\ \A i \in 1 .. Len(HostOptions) : i + 1 \in DOMAIN all
            BY <3>1, <3>2
        <3>4. ToSet(all) \subseteq Hosts
            BY <3>2 DEF ToSet
        <3>5. Blank \in ToSet(all)
            BY <3>2, <3>3 DEF ToSet
        <3>6. ToSet(HostOptions) \subseteq ToSet(all)
            <4> SUFFICES ASSUME NEW h \in ToSet(HostOptions) PROVE h \in ToSet(all)
                OBVIOUS
            <4>1. PICK i \in 1 .. Len(HostOptions) : h = HostOptions[i]
                BY <3>1 DEF ToSet
            <4>2. i + 1 \in DOMAIN all /\ all[i + 1] = h
                BY <3>2, <3>3, <4>1
            <4> QED BY <4>2 DEF ToSet
        <3>7. ToSet(all) = Hosts
            BY <3>4, <3>5, <3>6 DEF Hosts
        <3> QED BY <3>2, <3>7 DEF IsList, all
    <2> QED BY <1>2, <2>1, <2>2 DEF Loaders
<1>3. CASE s \in Loaders
    <2>1. SelectOf(f, s).options = f.options[s]
        BY <1>3 DEF SelectOf, Loaders
    <2> QED BY <1>3, <2>1 DEF TypedForm, Offers, Loaders
<1> QED BY <1>1, <1>2, <1>3 DEF Selects

\* What the methods of the script leave alone.
LEMMA SameFields ==
    ASSUME NEW f, TypedForm(f), NEW g, g.kind = f.kind, g.host = f.host,
           g.options = f.options, g.value = f.value
    PROVE  TypedForm(g)
BY DEF TypedForm

LEMMA SaveStateTyped ==
    ASSUME NEW f, IsForm(f), TypedForm(f)
    PROVE  IsForm(SaveState(f)) /\ TypedForm(SaveState(f))
<1>1. /\ IsForm(SaveState(f)) /\ SaveState(f).kind = f.kind /\ SaveState(f).host = f.host
      /\ SaveState(f).options = f.options /\ SaveState(f).value = f.value
    BY DEF IsForm, SaveState, Fields
<1> QED BY <1>1, SameFields

LEMMA CancelLoadTyped ==
    ASSUME NEW f, IsForm(f), NEW l \in Loaders
    PROVE  /\ CancelLoad(f, l).options = f.options /\ CancelLoad(f, l).value = f.value
           /\ TypedForm(f) => TypedForm(CancelLoad(f, l))
<1>1. /\ CancelLoad(f, l).kind = f.kind /\ CancelLoad(f, l).host = f.host
      /\ CancelLoad(f, l).options = f.options /\ CancelLoad(f, l).value = f.value
    BY DEF IsForm, CancelLoad, Fields
<1> QED BY <1>1, SameFields

\* A field that gets options and a value among them.
LEMMA FieldTyped ==
    ASSUME NEW f, IsForm(f), TypedForm(f), NEW l \in Loaders, NEW options, NEW v, Offers(options, v),
           NEW g, g.kind = f.kind, g.host = f.host,
           g.options = [f.options EXCEPT ![l] = options], g.value = [f.value EXCEPT ![l] = v]
    PROVE  TypedForm(g)
<1>1. g.options = [k \in Loaders |-> g.options[k]]
    BY DEF TypedForm
<1>2. ASSUME NEW k \in Loaders PROVE Offers(g.options[k], g.value[k])
    <2>1. CASE k = l
        <3>1. g.options[k] = options
            BY <2>1 DEF TypedForm
        <3>2. g.value[k] = v
            BY <2>1 DEF IsForm
        <3> QED BY <3>1, <3>2
    <2>2. CASE k # l
        <3>1. g.options[k] = f.options[k]
            BY <2>2 DEF TypedForm
        <3>2. g.value[k] = f.value[k]
            BY <2>2 DEF IsForm
        <3> QED BY <3>1, <3>2 DEF TypedForm
    <2> QED BY <2>1, <2>2
<1> QED BY <1>1, <1>2 DEF TypedForm

LEMMA PlaceholderTyped ==
    ASSUME NEW f, IsForm(f), TypedForm(f), NEW l \in Loaders, NEW v
    PROVE  IsForm(Placeholder(f, l, v)) /\ TypedForm(Placeholder(f, l, v))
<1> DEFINE g == Placeholder(f, l, v)
<1>1. /\ IsForm(g) /\ g.kind = f.kind /\ g.host = f.host
      /\ g.options = [f.options EXCEPT ![l] = <<v>>] /\ g.value = [f.value EXCEPT ![l] = v]
    BY DEF Placeholder, IsForm, Fields
<1> HIDE DEF g
<1>2. TypedForm(g)
    <2>1. PICK options : options = <<v>>
        OBVIOUS
    <2>2. Offers(options, v)
        BY <2>1, OneOffer
    <2>3. g.options = [f.options EXCEPT ![l] = options]
        BY <1>1, <2>1
    <2> QED BY <1>1, <2>2, <2>3, FieldTyped
<1> QED BY <1>1, <1>2 DEF g

LEMMA LoadTyped ==
    ASSUME NEW f, IsForm(f), TypedForm(f), NEW l \in Loaders, NEW selected
    PROVE  IsForm(Load(f, l, selected)) /\ TypedForm(Load(f, l, selected))
<1> DEFINE c == CancelLoad(f, l)
           d == [c EXCEPT !.disabled[l] = TRUE]
           idle == Placeholder(d, l, Blank)
           n == CHOOSE i \in 1 .. 3 : \A r \in idle.fetches : r.n # i
           r == [loader |-> l, n |-> n, host |-> idle.host, selected |-> selected]
           g == [idle EXCEPT !.request[l] = n, !.loading[l] = TRUE, !.fetches = @ \cup {r}]
<1>1. IsForm(c) /\ TypedForm(c)
    BY CancelLoadIs, CancelLoadTyped
<1> HIDE DEF c
<1>2. IsForm(d) /\ TypedForm(d)
    <2>1. /\ IsForm(d) /\ d.kind = c.kind /\ d.host = c.host
          /\ d.options = c.options /\ d.value = c.value
        BY <1>1 DEF IsForm, Fields
    <2> HIDE DEF d
    <2> QED BY <1>1, <2>1, SameFields
<1> HIDE DEF d
<1>3. IsForm(idle) /\ TypedForm(idle)
    BY <1>2, PlaceholderTyped
<1> HIDE DEF idle
<1>4. IsForm(g) /\ TypedForm(g)
    <2> HIDE DEF r, n
    <2>1. /\ IsForm(g) /\ g.kind = idle.kind /\ g.host = idle.host
          /\ g.options = idle.options /\ g.value = idle.value
        BY <1>3 DEF IsForm, Fields
    <2> HIDE DEF g
    <2> QED BY <1>3, <2>1, SameFields
<1>5. Load(f, l, selected) = SaveState(idle) \/ Load(f, l, selected) = SaveState(g)
    BY DEF Load, idle, d, c, g, r, n
<1> HIDE DEF g
<1> QED BY <1>3, <1>4, <1>5, SaveStateTyped

\* apply() needs no more than a known type and host and fields that offer what they hold.
LEMMA ApplyTyped ==
    ASSUME NEW f, IsForm(f), TypedForm(f)
    PROVE  TypedForm(Apply(f))
<1> DEFINE remote == Remote(f.kind)
           e == [f EXCEPT !.host = IF UsesHost(f.kind) THEN @ ELSE Blank,
                          !.disabled = [l \in Loaders |-> l # remote]]
           c == CancelLoad(e, "container")
           idle == CancelLoad(c, "service")
<1>1. IsForm(e) /\ TypedForm(e)
    <2>1. /\ IsForm(e) /\ e.kind = f.kind /\ e.host \in {f.host, Blank}
          /\ e.options = f.options /\ e.value = f.value
        BY DEF IsForm, Fields
    <2> HIDE DEF e
    <2> QED BY <2>1 DEF TypedForm, Hosts
<1> HIDE DEF e
<1>2. IsForm(c) /\ TypedForm(c)
    BY <1>1, CancelLoadIs, CancelLoadTyped DEF Loaders
<1> HIDE DEF c
<1>3. IsForm(idle) /\ TypedForm(idle)
    BY <1>2, CancelLoadIs, CancelLoadTyped DEF Loaders
<1>4. remote \in Loaders \cup {""}
    BY RemoteIs
<1>5. Apply(f) = SaveState(IF remote = "" THEN idle ELSE Load(idle, remote, idle.value[remote]))
    BY DEF Apply, CancelAll, idle, c, e
<1> HIDE DEF idle
<1>6. CASE remote = ""
    BY <1>3, <1>5, <1>6, SaveStateTyped
<1>7. CASE remote # ""
    <2>1. /\ IsForm(Load(idle, remote, idle.value[remote]))
          /\ TypedForm(Load(idle, remote, idle.value[remote]))
        BY <1>3, <1>4, <1>7, LoadTyped
    <2> QED BY <1>5, <1>7, <2>1, SaveStateTyped
<1> QED BY <1>6, <1>7

LEMMA ChangedTyped ==
    ASSUME NEW f, IsForm(f), TypedForm(f), NEW s \in Selects,
           NEW v \in ToSet(SelectOf(f, s).options)
    PROVE  TypedForm(Changed(f, s, v))
<1>1. CASE s = "type"
    <2> DEFINE g == [f EXCEPT !.kind = v]
    <2>1. /\ IsForm(g) /\ g.kind = v /\ g.host = f.host
          /\ g.options = f.options /\ g.value = f.value
        BY DEF IsForm, Fields
    <2>2. Changed(f, s, v) = Apply(g)
        BY <1>1 DEF Changed, Loaders
    <2> HIDE DEF g
    <2>3. v \in Kinds
        BY <1>1, SelectOffers
    <2>4. TypedForm(g)
        BY <2>1, <2>3 DEF TypedForm
    <2> QED BY <2>1, <2>2, <2>4, ApplyTyped
<1>2. CASE s = "host"
    <2> DEFINE g == [f EXCEPT !.host = v]
               remote == Remote(f.kind)
    <2>1. /\ IsForm(g) /\ g.kind = f.kind /\ g.host = v
          /\ g.options = f.options /\ g.value = f.value
        BY DEF IsForm, Fields
    <2>2. Changed(f, s, v) = IF remote = "" THEN g ELSE Load(g, remote, Blank)
        BY <1>2 DEF Changed, ChangeHost, Loaders
    <2> HIDE DEF g
    <2>3. v \in Hosts
        BY <1>2, SelectOffers
    <2>4. TypedForm(g)
        BY <2>1, <2>3 DEF TypedForm
    <2>5. remote \in Loaders \cup {""}
        BY RemoteIs
    <2> QED BY <2>1, <2>2, <2>4, <2>5, LoadTyped
<1>3. CASE s \in Loaders
    <2> DEFINE g == [f EXCEPT !.value[s] = v]
    <2>1. /\ g.kind = f.kind /\ g.host = f.host
          /\ g.options = f.options /\ g.value = [f.value EXCEPT ![s] = v]
        BY DEF IsForm, Fields
    <2>2. Changed(f, s, v) = g
        BY <1>3 DEF Changed, Loaders
    <2> HIDE DEF g
    <2>3. Offers(f.options[s], v)
        BY <1>3, SelectOffers DEF TypedForm, Offers
    <2>4. g.options = [f.options EXCEPT ![s] = f.options[s]]
        BY <1>3, <2>1 DEF TypedForm
    <2>5. TypedForm(g)
        BY <1>3, <2>1, <2>3, <2>4, FieldTyped
    <2> QED BY <2>2, <2>5
<1> QED BY <1>1, <1>2, <1>3 DEF Selects

LEMMA AnsweredTyped ==
    ASSUME NEW f, IsForm(f), TypedForm(f), NEW r, r.loader \in Loaders, NEW items, IsList(items)
    PROVE  TypedForm(Answered(f, r, items)) /\ TypedForm(Failed(f, r))
<1> DEFINE l == r.loader
<1>1. TypedForm(Answered(f, r, items))
    <2> DEFINE named == {i \in ToSet(items) \cap DOMAIN IdOf :
                             r.selected # Blank /\ r.selected \notin ToSet(items) /\ IdOf[i] = r.selected}
               value == IF named = {} THEN r.selected ELSE CHOOSE i \in named : TRUE
               kept == IF value = Blank \/ value \in ToSet(items) THEN <<>> ELSE <<value>>
               options == <<Blank>> \o items \o kept
               g == [f EXCEPT !.options[l] = options, !.value[l] = value,
                              !.disabled[l] = FALSE, !.loading[l] = FALSE, !.listed[l] = r.host]
    <2>1. Answered(f, r, items) = SaveState(g)
        BY DEF Answered
    <2>2. \/ kept = <<>> /\ (value = Blank \/ value \in ToSet(items))
          \/ kept = <<value>>
        OBVIOUS
    <2> HIDE DEF kept, value, named
    <2>3. Offers(options, value)
        BY <2>2, ListOffers
    <2> HIDE DEF options
    <2>4. /\ IsForm(g) /\ g.kind = f.kind /\ g.host = f.host
          /\ g.options = [f.options EXCEPT ![l] = options] /\ g.value = [f.value EXCEPT ![l] = value]
        BY DEF IsForm, Fields
    <2> HIDE DEF g
    <2>5. TypedForm(g)
        BY <2>3, <2>4, FieldTyped
    <2> QED BY <2>1, <2>4, <2>5, SaveStateTyped
<1>2. TypedForm(Failed(f, r))
    <2> DEFINE c == Placeholder(f, l, r.selected)
               g == [c EXCEPT !.disabled[l] = FALSE, !.loading[l] = FALSE]
    <2>1. IsForm(c) /\ TypedForm(c)
        BY PlaceholderTyped
    <2>2. Failed(f, r) = SaveState(g)
        BY DEF Failed
    <2> HIDE DEF c
    <2>3. IsForm(g) /\ TypedForm(g)
        <3>1. /\ IsForm(g) /\ g.kind = c.kind /\ g.host = c.host
              /\ g.options = c.options /\ g.value = c.value
            BY <2>1 DEF IsForm, Fields
        <3> HIDE DEF g
        <3> QED BY <2>1, <3>1, SameFields
    <2> HIDE DEF g
    <2> QED BY <2>2, <2>3, SaveStateTyped
<1> QED BY <1>1, <1>2

LEMMA OpenedTyped ==
    ASSUME IsForm(form), NEW subject, subject.kind \in Kinds, subject.host \in Hosts
    PROVE  TypedForm(Opened(subject))
<1> DEFINE g == [form EXCEPT
        !.kind = subject.kind, !.host = subject.host,
        !.options = [l \in Loaders |-> <<subject[l]>>], !.value = [l \in Loaders |-> subject[l]],
        !.listed = [l \in Loaders |-> NoText],
        !.saving = FALSE, !.subject = subject, !.touched = FALSE]
<1>1. /\ IsForm(g) /\ g.kind = subject.kind /\ g.host = subject.host
      /\ g.options = [l \in Loaders |-> <<subject[l]>>] /\ g.value = [l \in Loaders |-> subject[l]]
    BY DEF IsForm, Fields
<1>2. Opened(subject) = Apply(g)
    BY DEF Opened
<1> HIDE DEF g
<1>3. TypedForm(g)
    BY <1>1, OneOffer DEF TypedForm
<1> QED BY <1>1, <1>2, <1>3, ApplyTyped

LEMMA EmptyFormTyped == TypedForm(EmptyForm)
BY OneOffer, KindsAre DEF TypedForm, EmptyForm, Hosts

\* At most one list is open.
OneOpen(b) == \A s, u \in Selects : b[s].open /\ b[u].open => s = u

LEMMA BecomesOneOpen ==
    ASSUME NEW f, NEW now, OneOpen(now), Becomes(f, now)
    PROVE  OneOpen(boxes')
<1>1. ASSUME NEW s \in Selects, boxes'[s].open PROVE now[s].open
    <2>1. CASE boxes'[s] = RefreshBox(now[s], SelectOf(f, s))
        BY <1>1, <2>1 DEF RefreshBox, ClosedBox
    <2> QED BY <1>1, <2>1 DEF Becomes
<1> QED BY <1>1 DEF OneOpen

EditorTyped ==
    /\ EditorInv /\ BoxesInv
    /\ dialog \in BOOLEAN /\ TypedForm(form) /\ OneOpen(boxes)

\* What is chosen in a list is an option of its select.
LEMMA ChooseTyped ==
    ASSUME EditorTyped, NEW s \in Selects, boxes[s].open, NEW i \in DOMAIN boxes[s].matches,
           Choose(s, i)
    PROVE  TypedForm(form') /\ OneOpen(boxes')
<1> DEFINE f == [form EXCEPT !.touched = TRUE]
<1>1. PICK v : v = boxes[s].matches[i]
    OBVIOUS
<1>2. v \in ToSet(SelectOf(form, s).options)
    <2>1. boxes[s].matches = Matches(SelectOf(form, s), boxes[s].input)
        BY DEF EditorTyped, BoxesInv, ShownFor, BoxIsOf
    <2>2. IsList(SelectOf(form, s).options)
        BY SelectOffers DEF EditorTyped
    <2> QED BY <1>1, <2>1, <2>2, MatchesAreOptions
<1>3. /\ IsForm(f) /\ f.kind = form.kind /\ f.host = form.host
      /\ f.options = form.options /\ f.value = form.value /\ f.disabled = form.disabled
    BY DEF EditorTyped, EditorInv, FormInv, IsForm, Fields
<1> HIDE DEF f
<1>4. TypedForm(f)
    BY <1>3, SameFields DEF EditorTyped
<1>5. v \in ToSet(SelectOf(f, s).options)
    BY <1>2, <1>3 DEF SelectOf
<1>6. TypedForm(Changed(f, s, v))
    BY <1>3, <1>4, <1>5, ChangedTyped
<1>7. Becomes(Changed(f, s, v), AllClosed)
    BY <1>1 DEF Choose, f
<1>8. OneOpen(AllClosed)
    BY AllClosedIs DEF EditorTyped, OneOpen
<1> QED BY <1>6, <1>7, <1>8, BecomesOneOpen DEF Becomes

LEMMA EditorTypedStep == EditorTyped /\ [Next]_scriptVars => EditorTyped'
<1> SUFFICES ASSUME EditorTyped, [Next]_scriptVars PROVE EditorTyped'
    OBVIOUS
<1> USE DEF Hosts
<1>1. EditorInv' /\ BoxesInv'
    BY EditorInvStep, BoxesInvStep DEF EditorTyped
<1>2. /\ IsForm(form) /\ TypedForm(form) /\ OneOpen(boxes) /\ dialog \in BOOLEAN
      /\ EditorInv /\ BoxesInv /\ FormInv(form)
    BY DEF EditorTyped, EditorInv, FormInv
<1>3. OneOpen(AllClosed)
    BY <1>2, AllClosedIs DEF OneOpen
<1> SUFFICES dialog' \in BOOLEAN /\ TypedForm(form') /\ OneOpen(boxes')
    BY <1>1 DEF EditorTyped
<1>4. ASSUME NEW subject, subject.kind \in Kinds, subject.host \in Hosts,
             NEW now \in {boxes, AllClosed}, Becomes(Opened(subject), now)
      PROVE  TypedForm(form') /\ OneOpen(boxes')
    <2>1. TypedForm(Opened(subject))
        BY <1>2, <1>4, OpenedTyped
    <2> QED BY <1>2, <1>3, <1>4, <2>1, BecomesOneOpen DEF Becomes
<1>5. ASSUME NEW f, TypedForm(f), NEW now \in {boxes, AllClosed}, Becomes(f, now)
      PROVE  TypedForm(form') /\ OneOpen(boxes')
    BY <1>2, <1>3, <1>5, BecomesOneOpen DEF Becomes
<1>6. CASE EditorNext
    <2>1. ASSUME NEW subject \in SavedModules, OpenDialog(subject)
          PROVE  dialog' \in BOOLEAN /\ TypedForm(form') /\ OneOpen(boxes')
        <3>1. subject.kind \in Kinds /\ subject.host \in Hosts
            BY SavedModulesAssumption DEF Kinds
        <3> QED BY <1>4, <2>1, <3>1 DEF OpenDialog
    <2>2. ASSUME NEW i \in DOMAIN TypeOptions, OpenDialog(NewModule(TypeOptions[i]))
          PROVE  dialog' \in BOOLEAN /\ TypedForm(form') /\ OneOpen(boxes')
        <3>1. PICK subject : subject = NewModule(TypeOptions[i])
            OBVIOUS
        <3>2. subject.kind \in Kinds /\ subject.host \in Hosts
            BY <3>1 DEF NewModule, Kinds, ToSet
        <3> QED BY <1>4, <2>2, <3>1, <3>2 DEF OpenDialog
    <2>3. CASE CloseDialog
        BY <1>2, <1>5, <2>3 DEF CloseDialog
    <2>4. CASE SubmitForm
        <3> DEFINE g == [form EXCEPT !.saving = TRUE]
        <3>1. /\ IsForm(g) /\ g.kind = form.kind /\ g.host = form.host
              /\ g.options = form.options /\ g.value = form.value
            BY <1>2 DEF IsForm, Fields
        <3>2. Becomes(SaveState(g), AllClosed) /\ dialog' = dialog
            BY <2>4 DEF SubmitForm
        <3> HIDE DEF g
        <3>3. TypedForm(SaveState(g))
            BY <1>2, <3>1, SameFields, SaveStateTyped
        <3> QED BY <1>2, <1>5, <3>2, <3>3
    <2>5. CASE PageReturns
        <3>1. CASE dialog' = FALSE /\ Becomes(EmptyForm, AllClosed)
            BY <1>5, <3>1, EmptyFormTyped
        <3>2. CASE dialog' = TRUE /\ Becomes(Opened([kind |-> form.kind, host |-> form.host,
                      container |-> Posted("container"), service |-> Posted("service")]), AllClosed)
            <4>1. PICK subject : subject = [kind |-> form.kind, host |-> form.host,
                      container |-> Posted("container"), service |-> Posted("service")]
                OBVIOUS
            <4>2. subject.kind \in Kinds /\ subject.host \in Hosts
                BY <1>2, <4>1 DEF TypedForm
            <4> QED BY <1>4, <3>2, <4>1, <4>2
        <3> QED BY <2>5, <3>1, <3>2 DEF PageReturns
    <2>6. ASSUME NEW s \in Selects, UseBox(s)
          PROVE  dialog' \in BOOLEAN /\ TypedForm(form') /\ OneOpen(boxes')
        <3>1. dialog' = dialog
            BY <2>6 DEF UseBox
        <3>2. CASE UNCHANGED form /\ \E box : Focused(s, box)
            <4>1. OneOpen(boxes')
                BY <3>2 DEF Focused, ClosedBox, OneOpen
            <4> QED BY <1>2, <3>1, <3>2, <4>1
        <3>3. ASSUME boxes[s].open,
                     NEW i \in EnterChooses(boxes[s]) \cup DOMAIN boxes[s].matches, Choose(s, i)
              PROVE  TypedForm(form') /\ OneOpen(boxes')
            <4>1. i \in DOMAIN boxes[s].matches
                BY <3>3 DEF EnterChooses
            <4> QED BY <3>3, <4>1, ChooseTyped
        <3> QED BY <1>2, <2>6, <3>1, <3>2, <3>3 DEF UseBox
    <2>7. ASSUME NEW r \in form.fetches, FetchEnds(r)
          PROVE  dialog' \in BOOLEAN /\ TypedForm(form') /\ OneOpen(boxes')
        <3> DEFINE rest == [form EXCEPT !.fetches = @ \ {r}]
        <3>1. /\ IsForm(rest) /\ rest.kind = form.kind /\ rest.host = form.host
              /\ rest.options = form.options /\ rest.value = form.value
            BY <1>2 DEF IsForm, Fields
        <3>2. r.loader \in Loaders /\ r.host \in ToSet(HostOptions)
            BY <1>2 DEF FormInv, LoadsFit, TypedForm
        <3>3. /\ dialog' = dialog
              /\ \/ Becomes(rest, boxes)
                 \/ \E items \in {Found[r.host][r.loader], <<>>} : Becomes(Answered(rest, r, items), boxes)
                 \/ Becomes(Failed(rest, r), boxes)
            BY <2>7 DEF FetchEnds
        <3> HIDE DEF rest
        <3>4. TypedForm(rest)
            BY <1>2, <3>1, SameFields
        <3>5. IsList(<<>>)
            BY DEF IsList
        <3>6. \A items \in {Found[r.host][r.loader], <<>>} : IsList(items)
            BY <3>2, <3>5, ListsAssumption
        <3>7. /\ \A items \in {Found[r.host][r.loader], <<>>} : TypedForm(Answered(rest, r, items))
              /\ TypedForm(Failed(rest, r))
            BY <3>1, <3>2, <3>4, <3>6, AnsweredTyped
        <3> QED BY <1>2, <1>5, <3>3, <3>4, <3>7
    <2> QED BY <1>6, <2>1, <2>2, <2>3, <2>4, <2>5, <2>6, <2>7 DEF EditorNext
<1>7. CASE UNCHANGED editorVars
    BY <1>2, <1>7 DEF editorVars
<1> QED BY <1>6, <1>7 DEF Next, Idle, scriptVars

LEMMA EditorIsTyped == EditorTyped => EditorTypeOK
<1> SUFFICES ASSUME EditorTyped PROVE EditorTypeOK
    OBVIOUS
<1> DEFINE shown == {s \in Selects : boxes[s].open}
<1>1. Cardinality(shown) <= 1
    <2>1. CASE shown = {}
        BY <2>1, FS_EmptySet
    <2>2. CASE shown # {}
        <3>1. PICK s \in Selects : s \in shown
            BY <2>2
        <3>2. shown = {s}
            BY <3>1 DEF EditorTyped, OneOpen
        <3> HIDE DEF shown
        <3>3. Cardinality({s}) = 1
            BY FS_Singleton
        <3> QED BY <3>2, <3>3
    <2> QED BY <2>1, <2>2
<1> QED BY <1>1 DEF EditorTyped, TypedForm, Offers, Kinds, Hosts, EditorTypeOK

\* Each script keeps the types of its variables however its events and answers
\* are interleaved; in the dialog, whatever module-editor.js loads and rebuilds
\* meanwhile, a select holds a value it offers and one list is open at most.
THEOREM TypeCorrect == Spec => []TypeOK
<1> DEFINE IInv == script \in AllScripts /\ MenuInv /\ RefreshInv /\ OrderInv /\ EditorTyped /\ HistoryInv
<1>1. Init => IInv
    <2> SUFFICES ASSUME Init PROVE IInv
        OBVIOUS
    <2>1. EditorTyped
        <3>1. BoxesInv
            BY ClosedBoxIs DEF Init, EditorInit, BoxesInv
        <3>2. EditorInv /\ TypedForm(form) /\ dialog \in BOOLEAN
            BY EmptyFormHolds, EmptyFormTyped DEF Init, EditorInit, EditorInv
        <3>3. OneOpen(boxes)
            BY DEF Init, EditorInit, ClosedBox, OneOpen
        <3> QED BY <3>1, <3>2, <3>3 DEF EditorTyped
    <2> QED BY <2>1, MenuInvInit, RefreshInvInit, OrderInvInit, HistoryInvInit, ScriptsAssumption DEF Init
<1>2. IInv /\ [Next]_scriptVars => IInv'
    <2> SUFFICES ASSUME IInv, [Next]_scriptVars PROVE IInv'
        OBVIOUS
    <2>1. [HistoryNext]_historyVars
        BY DEF Next, Idle, scriptVars
    <2>2. script' \in AllScripts
        BY DEF Next, scriptVars
    <2> QED BY <2>1, <2>2, MenuInvStep, RefreshInvStep, OrderInvStep, EditorTypedStep, HistoryInvStep
<1>3. IInv => TypeOK
    BY OrderTyped, EditorIsTyped, HistoryTyped DEF MenuInv, RefreshInv, TypeOK
<1> QED BY <1>1, <1>2, <1>3, PTL DEF Spec
=============================================================================
