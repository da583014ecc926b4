--------------------------- MODULE MonitoringHistory ---------------------------
(***************************************************************************)
(* The page Monitoring history (monitoring-history.js): rows of modules    *)
(* over one range of time, loaded in slices by parallel workers, kept and  *)
(* shifted while the range rolls on.                                       *)
(*                                                                         *)
(* All ranges have the same length, so that scaling a canvas is a shift; a *)
(* point of a canvas is blank or shows the time it was drawn for.  Every   *)
(* handler runs to its end before the next event and changes the page in   *)
(* several calls: the page is a record, and the script's functions are     *)
(* operators from pages to pages.                                          *)
(***************************************************************************)
EXTENDS Integers, FiniteSets

CONSTANTS
    RowCount,       \* rows of the page, numbered in its order
    Workers,        \* rows loaded at once (4)
    Length,         \* of a range
    Slice,          \* the longest slice the server answers with
    Stale,          \* staleSeconds
    MaxTime,        \* bound on the clock
    MaxFailures,    \* bound on requests that fail
    MaxGestures     \* bound on what the user does to the page

Rows == 1 .. RowCount
Never == -1
BlankPoint == -1
\* One refresh holds busy; one that failed may leave requests behind.
RunIds == 1 .. MaxFailures + 1
Points == 0 .. Length - 1

ASSUME HistoryBoundsAssumption ==
    /\ RowCount \in Nat /\ Workers \in Nat \ {0} /\ Slice \in Nat \ {0} /\ Stale \in Nat
    /\ Length \in Nat \ {0} /\ MaxTime \in Nat /\ MaxTime >= Length
    /\ MaxFailures \in Nat /\ MaxGestures \in Nat

VARIABLES
    time,      \* Date.now()
    away,      \* document.hidden
    history,   \* the page
    gestures,  \* what the user has done to the page
    failures   \* requests that failed

historyVars == <<time, away, history, gestures, failures>>

\* "from" and "rolling" are the range; "wanted" are the rows that are in view and
\* that the user has not hidden; "run" is the refresh that holds busy, 0
\* for none, "queue" what its workers have not taken, "loads" the requests for
\* blocks and "latest" the one for states that are under way.  A row has the
\* range it was prepared for, the time up to which it was loaded, and its
\* canvas.  Ghosts: "done" are the rows the refresh that holds busy has taken,
\* "asOf" is when the latest began; "spoiled" tells that since the last reset a
\* refresh failed while others of its requests were under way.
EmptyRow == [range |-> Never, loaded |-> Never, canvas |-> [i \in Points |-> BlankPoint]]

EmptyHistory ==
    [from |-> 0, rolling |-> TRUE, wanted |-> {},
     rows |-> [r \in Rows |-> EmptyRow],
     run |-> 0, queue |-> [n \in RunIds |-> {}], loads |-> {}, latest |-> FALSE,
     done |-> {}, asOf |-> 0, spoiled |-> FALSE]

HistoryInit ==
    /\ time = Length
    /\ away = FALSE
    /\ history = EmptyHistory
    /\ gestures = 0
    /\ failures = 0

Later(a, b) == IF a > b THEN a ELSE b
Earlier(a, b) == IF a < b THEN a ELSE b

\* The canvas is cleared, and what it showed is copied to its new place.
Prepared(row, range) ==
    IF row.range = range THEN row
    ELSE LET was(i) == i + range - row.range
             keep == row.range # Never /\ row.loaded # Never
         IN [row EXCEPT !.range = range,
                        !.canvas = [i \in Points |-> IF keep /\ was(i) \in Points
                                                     THEN row.canvas[was(i)] ELSE BlankPoint]]

\* The freshness tail is loaded again.
Cursor(row, range) == IF row.loaded = Never THEN range ELSE Later(range, row.loaded - Stale)

\* A row that was loaded is not revisited when its range ended long ago.
Settled(row, range) == row.loaded # Never /\ range + Length < time - Stale

\* A row of which something has to be asked for.
Needs(row, range) == ~Settled(row, range) /\ Cursor(row, range) < range + Length

\* A worker takes a row: load() up to its first await, which a row with
\* nothing to load does not reach.
Taken(row, range) ==
    IF Settled(row, range) \/ Needs(row, range) THEN Prepared(row, range)
    ELSE [Prepared(row, range) EXCEPT !.loaded = Earlier(range + Length, time)]

Ahead(rows, r) == Cardinality({q \in rows : q < r})

\* The workers that are free take the rows of their run in order, until each
\* has one to load.  After the last row the refresh asks for the latest states,
\* unless it has failed.
Take(h, run, range, free, rows) ==
    LET needy == {r \in rows : Needs(h.rows[r], range)}
        taken == {r \in rows : Ahead(needy, r) < free}
        loads == h.loads \cup {[run |-> run, row |-> r, range |-> range,
                                cursor |-> Cursor(h.rows[r], range)] : r \in needy \cap taken}
    IN [h EXCEPT !.rows = [r \in Rows |-> IF r \in taken THEN Taken(h.rows[r], range) ELSE h.rows[r]],
                 !.queue[run] = rows \ taken,
                 !.loads = loads,
                 !.latest = @ \/ (run = h.run /\ \A l \in loads : l.run # run),
                 !.done = IF run = h.run THEN @ \cup taken ELSE @]

\* refresh() of a tab that is shown: nothing while one holds busy; a rolling
\* range ends now.
Started(h) ==
    LET run == CHOOSE n \in RunIds : \A l \in h.loads : l.run # n
        from == IF h.rolling THEN time - Length ELSE h.from
    IN IF h.run # 0 THEN h
       ELSE Take([h EXCEPT !.from = from, !.run = run, !.asOf = time],
                 run, from, Workers, h.wanted)

\* controller.abort(): all requests end at once; load() and refresh() stop.
AbortRequests(h) ==
    [h EXCEPT !.loads = {}, !.latest = FALSE, !.run = 0, !.queue = [n \in RunIds |-> {}],
              !.done = {}]

\* Fault: the rows keep what they know of the old range.
ResetRange(h) ==
    Started([AbortRequests(h) EXCEPT
        !.rows = [r \in Rows |-> [h.rows[r] EXCEPT !.range = Never]], !.spoiled = FALSE])

\* reset(): the refresh that was running ends and begins again.
Reset(h) ==
    Started([AbortRequests(h) EXCEPT
        !.rows = [r \in Rows |-> [h.rows[r] EXCEPT !.range = Never, !.loaded = Never]],
        !.spoiled = FALSE])

\* A page that is shown and idle has refreshed itself within a unit of time.
HistoryTick ==
    /\ time < MaxTime
    /\ away \/ history.run # 0 \/ history.asOf = time
    /\ time' = time + 1
    /\ UNCHANGED <<away, history, gestures, failures>>

\* Every 30 seconds.
HistoryTimer ==
    /\ ~away
    /\ history' = Started(history)
    /\ UNCHANGED <<time, away, gestures, failures>>

HistoryTabChanges ==
    /\ away' = ~away
    /\ history' = IF away' THEN AbortRequests(history) ELSE Started(history)
    /\ UNCHANGED <<time, gestures, failures>>

\* draw(): the blocks from "start" to "end" go where the range has them.
Drawn(canvas, range, start, end) ==
    [i \in Points |-> IF range + i \in start .. end - 1 THEN range + i ELSE canvas[i]]

\* A slice arrives and is drawn where the range of its refresh has it; load()
\* asks for the next slice, or the row is done and the worker takes another.
\* A slice that begins in the future is answered whole.
DataArrives(l) ==
    LET until == l.range + Length
        end == IF l.cursor > time THEN until ELSE Earlier(l.cursor + Slice, until)
        rest == [history EXCEPT !.loads = @ \ {l},
                                !.rows[l.row].canvas = Drawn(@, l.range, l.cursor, end)]
    IN /\ history' = IF end < until THEN [rest EXCEPT !.loads = @ \cup {[l EXCEPT !.cursor = end]}]
                     ELSE Take([rest EXCEPT !.rows[l.row].loaded = Earlier(until, time)],
                               l.run, l.range, 1, rest.queue[l.run])
       /\ UNCHANGED <<time, away, gestures, failures>>

\* Fault: the refresh that failed keeps busy.
DataFailsBusy(l) ==
    /\ failures < MaxFailures
    /\ failures' = failures + 1
    /\ history' = [history EXCEPT !.loads = @ \ {l}]
    /\ UNCHANGED <<time, away, gestures>>

\* A request fails: the refresh ends and says so, while its other workers go
\* on with its range; what fails of them afterwards is not noticed.
DataFails(l) ==
    LET others == history.loads \ {l}
        now == [history EXCEPT !.loads = others]
    IN /\ failures < MaxFailures
       /\ failures' = failures + 1
       /\ history' = IF l.run # history.run THEN now
                     ELSE [now EXCEPT !.run = 0, !.done = {},
                                      !.spoiled = @ \/ \E o \in others : o.run = l.run]
       /\ UNCHANGED <<time, away, gestures>>

LatestEnds ==
    /\ history.latest
    /\ history' = [history EXCEPT !.latest = FALSE, !.run = 0, !.done = {}]
    /\ \/ UNCHANGED failures
       \/ failures < MaxFailures /\ failures' = failures + 1
    /\ UNCHANGED <<time, away, gestures>>

Gesture == ~away /\ gestures < MaxGestures /\ gestures' = gestures + 1

\* The user asks for the range that ends now, for the one that was typed in, or
\* for one before or after; a range that rolls is submitted as it is shown.
ChooseRange ==
    /\ Gesture
    /\ \/ history' = Reset([history EXCEPT !.from = time - Length, !.rolling = TRUE])
       \/ \E from \in 0 .. MaxTime :
              /\ history.rolling => from = history.from
              /\ history' = Reset([history EXCEPT !.from = from])
       \/ \E from \in {history.from - Length, history.from + Length} :
              /\ from \in 0 .. MaxTime
              /\ history' = Reset([history EXCEPT !.from = from, !.rolling = FALSE])
    /\ UNCHANGED <<time, away, failures>>

\* Typing in a time, or choosing a custom range, keeps the range in place.
EditRange ==
    /\ Gesture
    /\ history' = [history EXCEPT !.rolling = FALSE]
    /\ UNCHANGED <<time, away, failures>>

\* Rows are shown and hidden by their checkboxes and by Show all, and come into
\* view and leave it, of which the observer tells: the page is refreshed.  It is
\* not by Hide all.
ShowRows ==
    /\ Gesture
    /\ \/ \E rows \in SUBSET Rows : history' = Started([history EXCEPT !.wanted = rows])
       \/ history' = [history EXCEPT !.wanted = {}]
    /\ UNCHANGED <<time, away, failures>>

\* All rows are loaded again, unless a request under way says otherwise.
ResizePage ==
    /\ Gesture
    /\ history' = Started([history EXCEPT
           !.rows = [r \in Rows |-> [history.rows[r] EXCEPT !.loaded = Never]],
           !.done = {}])
    /\ UNCHANGED <<time, away, failures>>

HistoryNext ==
    \/ HistoryTick \/ HistoryTimer \/ HistoryTabChanges
    \/ \E l \in history.loads : DataArrives(l) \/ DataFails(l)
    \/ LatestEnds
    \/ ChooseRange \/ EditRange \/ ShowRows \/ ResizePage

HistoryTypeOK ==
    /\ time \in Length .. MaxTime /\ gestures \in 0 .. MaxGestures /\ failures \in 0 .. MaxFailures
    /\ history.run \in RunIds \cup {0}
    /\ \A l \in history.loads : l.run \in RunIds /\ l.cursor \in l.range .. l.range + Length - 1
    /\ history.latest => history.run # 0

\* A row shows what it says it shows: what its canvas has drawn is at the place
\* of its own time, and all it counts as loaded is drawn, however the range
\* rolled on and was changed, and whichever slices came, failed or were aborted
\* meanwhile.  It need not after a refresh failed beside others of its requests:
\* these go on drawing, for the range they were made for.
RowsShowTheirRange ==
    ~history.spoiled =>
        \A r \in Rows :
            LET row == history.rows[r]
            IN row.range # Never =>
                   \A i \in Points :
                       /\ row.canvas[i] \in {BlankPoint, row.range + i}
                       /\ row.range + i < row.loaded => row.canvas[i] = row.range + i

\* A refresh that holds busy is at work and loses no row: rows wait only while
\* all workers load others, no row is loaded twice at once, the states are asked
\* for when all is loaded, and every row taken is being loaded or was.  So busy
\* never stays set for good, whatever fails or is aborted.
RefreshLosesNoRow ==
    LET run == history.run
        under == {l \in history.loads : l.run = run}
    IN run # 0 =>
        /\ history.latest <=> under = {}
        /\ history.queue[run] # {} => Cardinality(under) = Workers
        /\ \A k, l \in under : k.row = l.row => k = l
        /\ ~history.spoiled => \A r \in history.done :
               history.rows[r].range = history.from
               /\ (history.rows[r].loaded # Never \/ \E l \in under : l.row = r)

\* "Revisit the freshness tail so expiry and newly collected observations are
\* represented" (monitoring-history.js:107): when a refresh is done with its rows,
\* they are loaded to the end of the range or to the time at which it began.
RefreshReachesTheEnd ==
    history.latest =>
        \A r \in history.done :
            history.rows[r].loaded >= Earlier(history.from + Length, history.asOf)
=============================================================================
