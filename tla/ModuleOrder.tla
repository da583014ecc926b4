----------------------------- MODULE ModuleOrder -----------------------------
(***************************************************************************)
(* The personal arrangement of module tiles (module-order.js): a page      *)
(* loads the sequence stored in the browser, shows the tiles of the        *)
(* modules the server lists in that order, and the page Manage modules     *)
(* moves them and stores the sequence again.  Modules are numbered in      *)
(* alphabetical order, the order in which the server lists them.           *)
(***************************************************************************)
EXTENDS Naturals, SequencesExt, Selections

CONSTANTS
    ModuleCount,  \* modules there are
    Stores,       \* what the browser's storage may hold at the start
    MaxForeign    \* bound on what other tabs of the account store

ASSUME OrderBoundsAssumption ==
    /\ ModuleCount \in Nat /\ MaxForeign \in Nat
    /\ \A s \in Stores : s \in [readable : BOOLEAN, ids : Seq(Nat)]

ModuleIds == 1 .. ModuleCount

VARIABLES
    store,    \* localStorage: whether it can be read, and the ids stored
    sheet,    \* the page: its tiles and its sequence; ghost: it was reset
    drag,     \* the drag under way
    foreign,  \* times another tab stored its sequence
    seen      \* ghost: nobody else has stored since the page was loaded

orderVars == <<store, sheet, drag, foreign, seen>>

NoSheet == [open |-> FALSE, arranging |-> FALSE, listed |-> {}, cards |-> <<>>,
            sequence |-> <<>>, said |-> "", reset |-> FALSE]
NoDrag == [card |-> 0, active |-> FALSE, target |-> 0, after |-> FALSE]
Nothing == [readable |-> TRUE, ids |-> <<>>]

Orders == UNION {[1 .. n -> ModuleIds] : n \in 0 .. ModuleCount}

OrderInit ==
    /\ store \in Stores
    /\ sheet = NoSheet
    /\ drag = NoDrag
    /\ foreign = 0
    /\ seen = TRUE

\* The tiles as the server lists them.
Alphabetical(listed) == Picked([i \in ModuleIds |-> i], listed)

Valid(id) == id > 0

\* What is stored, without what is no id and without repetitions.
Known(stored) ==
    LET first(i) == \A j \in 1 .. i - 1 : stored.ids[j] # stored.ids[i]
    IN IF stored.readable
       THEN Picked(stored.ids, {i \in DOMAIN stored.ids : Valid(stored.ids[i]) /\ first(i)})
       ELSE <<>>

\* Fault: an id that is stored twice stays there twice.
SequenceRepeated(stored, listed) ==
    LET kept == IF stored.readable
                THEN Picked(stored.ids, {i \in DOMAIN stored.ids : Valid(stored.ids[i])}) ELSE <<>>
    IN kept \o Alphabetical(listed \ ToSet(kept))

\* What is known is followed by the other modules; ids not listed are kept.
Sequence(stored, listed) == Known(stored) \o Alphabetical(listed \ ToSet(Known(stored)))

\* The visible slots of a sequence.
Shown(sequence, listed) == {i \in DOMAIN sequence : sequence[i] \in listed}

Arranged(sequence, listed) == Picked(sequence, Shown(sequence, listed))

\* A page is loaded, in place of the one before: the dashboard, which only
\* shows the arrangement, or Manage modules.
LoadPage(listed, arranging) ==
    LET sequence == Sequence(store, listed)
    IN /\ sheet' = [open |-> TRUE, arranging |-> arranging, listed |-> listed,
                    cards |-> Arranged(sequence, listed), sequence |-> sequence, said |-> "",
                    reset |-> FALSE]
       /\ drag' = NoDrag
       /\ seen' = TRUE
       /\ UNCHANGED <<store, foreign>>

\* Fault: hidden modules go behind the visible ones.
ReplacedInFront(sequence, listed, cards) ==
    cards \o Picked(sequence, DOMAIN sequence \ Shown(sequence, listed))

\* The visible slots of the sequence take the cards in their order on the page.
Replaced(sequence, listed, cards) ==
    LET shown == Shown(sequence, listed)
    IN [i \in DOMAIN sequence |-> IF i \in shown THEN cards[Rank(shown, i)] ELSE sequence[i]]

\* Fault: a storage that throws is not noticed.
StoredSilently(ids, said) ==
    \/ store' = [readable |-> TRUE, ids |-> ids] /\ sheet' = [said EXCEPT !.said = "saved"]
    \/ UNCHANGED store /\ sheet' = [said EXCEPT !.said = "saved"]

\* setItem and removeItem may throw: the page goes on and says so.
Stored(ids, said) ==
    \/ store' = [readable |-> TRUE, ids |-> ids] /\ sheet' = [said EXCEPT !.said = "saved"]
    \/ UNCHANGED store /\ sheet' = [said EXCEPT !.said = "not saved"]

\* The cards with one taken out and put before or after another.
Moved(card, target, after) ==
    LET others == Picked(sheet.cards, {i \in DOMAIN sheet.cards : sheet.cards[i] # card})
        place == CHOOSE i \in DOMAIN others : others[i] = target
    IN InsertAt(others, IF after THEN place + 1 ELSE place, card)

\* move(): saves when the order has changed.
Move(card, target, after) ==
    LET cards == Moved(card, target, after)
        sequence == Replaced(sheet.sequence, sheet.listed, cards)
    IN IF cards = sheet.cards THEN UNCHANGED <<store, sheet>>
       ELSE Stored(sequence, [sheet EXCEPT !.cards = cards, !.sequence = sequence])

\* The arrow buttons, which are disabled at the ends, and the arrow keys, which
\* then find no target; both also work while a drag is under way.
StepCard(i, offset) ==
    /\ sheet.arranging
    /\ i \in DOMAIN sheet.cards /\ i + offset \in DOMAIN sheet.cards
    /\ Move(sheet.cards[i], sheet.cards[i + offset], offset > 0)
    /\ UNCHANGED <<drag, foreign, seen>>

\* Reset arrangement: a drag is dropped, the stored sequence removed.
ResetOrder ==
    /\ sheet.arranging
    /\ drag' = NoDrag
    /\ LET cards == Alphabetical(sheet.listed)
       IN Stored(<<>>, [sheet EXCEPT !.cards = cards, !.sequence = cards, !.reset = TRUE])
    /\ UNCHANGED <<foreign, seen>>

\* pointerdown on a handle; a second pointer is ignored.
PointerDown(card) ==
    /\ sheet.arranging /\ drag = NoDrag
    /\ drag' = [NoDrag EXCEPT !.card = card]
    /\ UNCHANGED <<store, sheet, foreign, seen>>

\* The pointer has gone far enough, or the page scrolls under it (tick): over
\* another card, its first or its second half, or over none.
PointerMove ==
    /\ drag # NoDrag
    /\ \E target \in (sheet.listed \ {drag.card}) \cup {0}, after \in BOOLEAN :
           /\ target = 0 => ~after
           /\ drag' = [drag EXCEPT !.active = TRUE, !.target = target, !.after = after]
    /\ UNCHANGED <<store, sheet, foreign, seen>>

\* finishDrag: at pointerup it commits; Escape, blur, a lost capture and the
\* cancellation of any pointer drop it.
FinishDrag(commit) ==
    /\ drag # NoDrag
    /\ drag' = NoDrag
    /\ IF commit /\ drag.active /\ drag.target # 0
       THEN Move(drag.card, drag.target, drag.after)
       ELSE /\ sheet' = IF drag.active THEN [sheet EXCEPT !.said = "cancelled"] ELSE sheet
            /\ UNCHANGED store
    /\ UNCHANGED <<foreign, seen>>

\* Another tab of the account stores a sequence.
ForeignStore ==
    /\ foreign < MaxForeign
    /\ foreign' = foreign + 1
    /\ \E ids \in Orders : IsInjective(ids) /\ store' = [readable |-> TRUE, ids |-> ids]
    /\ seen' = FALSE
    /\ UNCHANGED <<sheet, drag>>

OrderNext ==
    \/ \E listed \in (SUBSET ModuleIds) \ {{}}, arranging \in BOOLEAN : LoadPage(listed, arranging)
    \/ \E i \in ModuleIds : StepCard(i, 1) \/ (i > 1 /\ StepCard(i, 0 - 1))
    \/ ResetOrder
    \/ \E card \in sheet.listed : PointerDown(card)
    \/ PointerMove
    \/ \E commit \in BOOLEAN : FinishDrag(commit)
    \/ ForeignStore

OrderTypeOK ==
    /\ store.readable \in BOOLEAN
    /\ store.ids \in Seq(Nat)
    /\ sheet.listed \subseteq ModuleIds
    /\ IsInjective(sheet.sequence)
    /\ drag.card \in sheet.listed \cup {0} /\ drag.target \in sheet.listed \cup {0}
    /\ foreign \in 0 .. MaxForeign

\* The page shows each listed module once, in the order of its sequence, after
\* any mixture of steps, drags, resets and saves that fail; and when it says
\* "Saved in this browser" the next page will show the same order, unless
\* another tab has stored its own since this page was loaded.
ArrangementIsKept ==
    sheet.open =>
        /\ sheet.cards = Arranged(sheet.sequence, sheet.listed)
        /\ ToSet(sheet.cards) = sheet.listed
        /\ sheet.said = "saved" /\ seen =>
               Arranged(Sequence(store, sheet.listed), sheet.listed) = sheet.cards

\* A module that is hidden while others are moved stays where the user put it:
\* "Their saved positions are retained when shown again" (ModuleManagement.cshtml:52).
\* No save changes the place of an id of the stored sequence that the page does
\* not show; only a reset forgets it.
HiddenKeepTheirPlaces ==
    [][ LET before == Known(store)
        IN store' # store /\ foreign' = foreign /\ seen /\ store.readable /\ ~sheet'.reset =>
               \A i \in DOMAIN before : before[i] \notin sheet.listed =>
                   i \in DOMAIN store'.ids /\ store'.ids[i] = before[i] ]_orderVars
=============================================================================
