--------------------------- MODULE SearchableSelect ---------------------------
(***************************************************************************)
(* The combobox over a select element (searchable-select.js).  A select is *)
(* a record of its options, its value and whether it is disabled; a box    *)
(* holds what the combobox shows.  An option's text stands for its value,  *)
(* and a text that is typed in matches every option, one, or none.         *)
(***************************************************************************)
EXTENDS Naturals, SequencesExt, Selections

CONSTANTS
    NoText,    \* nothing typed in
    Nonsense   \* a text no option contains

\* Closed, the input shows the selected option.  "active" is 0 for activeIndex -1.
ClosedBox(sel) == [open |-> FALSE, input |-> sel.value, matches |-> <<>>, active |-> 0]

Matches(sel, text) ==
    Picked(sel.options, {i \in DOMAIN sel.options :
        sel.options[i] \notin sel.unlisted /\ text \in {NoText, sel.options[i]}})

RenderBox(box, sel) == [box EXCEPT !.matches = Matches(sel, box.input), !.active = 0]

\* Fault: a closed box keeps its text when its select changes.
RefreshBoxOpen(box, sel) ==
    IF sel.disabled THEN ClosedBox(sel) ELSE IF box.open THEN RenderBox(box, sel) ELSE box

RefreshBox(box, sel) ==
    IF sel.disabled \/ ~box.open THEN ClosedBox(sel) ELSE RenderBox(box, sel)

\* open(): the text is cleared, or is what was just typed into the closed input.
OpenBox(box, sel, text) ==
    IF sel.disabled \/ box.open THEN box
    ELSE RenderBox([box EXCEPT !.open = TRUE, !.input = text], sel)

TypeInto(box, sel, text) ==
    RenderBox([OpenBox(box, sel, text) EXCEPT !.input = text], sel)

\* activate(): the index is kept within the matches; without any it is the first.
Activate(box, index) ==
    LET last == Len(box.matches)
    IN [box EXCEPT !.active = IF index < 1 \/ last = 0 THEN 1 ELSE IF index > last THEN last ELSE index]

\* The arrow keys open the list and move; Home and End need it open.
PressArrow(box, sel, down) ==
    LET opened == OpenBox(box, sel, NoText)
    IN IF opened.active = 0 THEN Activate(opened, IF down THEN 1 ELSE Len(opened.matches))
       ELSE Activate(opened, IF down THEN opened.active + 1 ELSE opened.active - 1)

PressEdge(box, first) == Activate(box, IF first THEN 1 ELSE Len(box.matches))

\* What Enter chooses: the active match, or the only one; as a set.
EnterChooses(box) ==
    {i \in DOMAIN box.matches : i = box.active \/ (box.active = 0 /\ Len(box.matches) = 1)}

\* An open list belongs to an enabled select and offers what the select offers
\* now for the text typed in, and a closed one shows what is selected.
BoxIsOf(box, sel) ==
    IF box.open THEN ~sel.disabled /\ box.matches = Matches(sel, box.input)
    ELSE box.input = sel.value
=============================================================================
