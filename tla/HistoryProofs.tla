---------------------------- MODULE HistoryProofs ----------------------------
(***************************************************************************)
(* The page Monitoring history, for any number of rows, workers and        *)
(* failures and any length of ranges and slices: HistoryInv is inductive.  *)
(* The lemmas follow a page through the operators that handlers are made   *)
(* of - rows are taken (Take), a refresh begins (Started), requests are    *)
(* aborted, a slice is drawn - and then through each handler.              *)
(***************************************************************************)
EXTENDS MonitoringHistory, SelectionProofs

RowData == [range : Nat \cup {Never}, loaded : Nat \cup {Never}, canvas : [Points -> Int]]
Loading == [run : RunIds, row : Rows, range : Nat, cursor : Nat]

HistoryPage ==
    [from : Nat, rolling : BOOLEAN, wanted : SUBSET Rows, rows : [Rows -> RowData],
     run : RunIds \cup {0}, queue : [RunIds -> SUBSET Rows], loads : SUBSET Loading,
     latest : BOOLEAN, done : SUBSET Rows, asOf : Nat, spoiled : BOOLEAN]

\* The requests of a run, and the runs other than the one that holds busy that
\* have some: each of these failed once.
Under(h, n) == {l \in h.loads : l.run = n}
Strays(h) == {n \in RunIds : n # h.run /\ Under(h, n) # {}}

LoadsAreInside(h) ==
    \A l \in h.loads : l.range <= l.cursor /\ l.cursor < l.range + Length

\* The refresh that holds busy has all its workers at work, or nothing is left.
RunIsAtWork(h) ==
    IF h.run = 0 THEN ~h.latest /\ h.done = {}
    ELSE /\ h.latest <=> Under(h, h.run) = {}
         /\ h.queue[h.run] # {} => Cardinality(Under(h, h.run)) = Workers
         /\ \A l \in Under(h, h.run) :
                /\ l.row \notin h.queue[h.run]
                /\ \A k \in Under(h, h.run) : k.row = l.row => k = l

\* What a row shows is what its range has there.
Shows(row) ==
    /\ row.range = Never => row.loaded = Never
    /\ row.range # Never =>
           /\ row.loaded <= row.range + Length
           /\ \A i \in Points : /\ row.canvas[i] \in {BlankPoint, row.range + i}
                                /\ row.range + i < row.loaded => row.canvas[i] = row.range + i

\* Unless requests of a refresh that failed go on, all are of one range, and
\* what lies before their cursors is drawn.
RowsAreRight(h) ==
    /\ \A r \in Rows : Shows(h.rows[r]) /\ h.rows[r].range <= h.from
    /\ \A l \in h.loads :
           /\ l.run = h.run /\ l.range = h.from
           /\ h.rows[l.row].range = h.from
           /\ \A i \in Points : l.range + i < l.cursor => h.rows[l.row].canvas[i] = l.range + i
    /\ \A r \in h.done :
           /\ h.rows[r].range = h.from
           /\ h.rows[r].loaded = Never => \E l \in h.loads : l.row = r

PageInv(h) ==
    /\ h \in HistoryPage
    /\ IsFiniteSet(h.loads)
    /\ LoadsAreInside(h)
    /\ RunIsAtWork(h)
    /\ ~h.spoiled => RowsAreRight(h)

\* A page that has met so many failures, at a time.
Fits(h, met, now) ==
    /\ PageInv(h)
    /\ Cardinality(Strays(h)) <= met
    /\ h.rolling => h.from <= now - Length

HistoryInv ==
    /\ time \in Length .. MaxTime /\ gestures \in 0 .. MaxGestures /\ failures \in 0 .. MaxFailures
    /\ Fits(history, failures, time)

LEMMA HistoryNumbers ==
    /\ RowCount \in Nat /\ Workers \in Nat \ {0} /\ Slice \in Nat \ {0} /\ Stale \in Nat
    /\ Length \in Nat \ {0} /\ MaxTime \in Nat /\ Length <= MaxTime
    /\ MaxFailures \in Nat /\ MaxGestures \in Nat
    /\ Rows = 1..RowCount /\ Points = 0..(Length - 1) /\ RunIds = 1..(MaxFailures + 1)
    /\ Never = -1 /\ BlankPoint = -1
BY HistoryBoundsAssumption DEF Rows, Points, RunIds, Never, BlankPoint


\* Which of the rows, some of them needy, the free workers take.
Serve(free, rows, needy, taken) ==
    /\ rows \in SUBSET Rows
    /\ needy \in SUBSET rows /\ taken \in SUBSET rows
    /\ \A r \in rows : r \in taken <=> Ahead(needy, r) < free

\* Of the rows taken, each free worker loads one if any row is left.
LEMMA EveryWorkerLoads ==
    ASSUME NEW free \in Nat \ {0}, NEW rows, NEW needy, NEW taken, Serve(free, rows, needy, taken)
    PROVE  /\ IsFiniteSet(needy \cap taken)
           /\ rows \ taken # {} => Cardinality(needy \cap taken) = free
<1> USE DEF Serve
<1>1. IsFiniteSet(Rows) /\ IsFiniteSet(needy) /\ IsFiniteSet(needy \cap taken)
    <2>1. IsFiniteSet(Rows)
        BY HistoryNumbers, FS_Interval
    <2> QED BY <2>1, FS_Subset
<1>2. ASSUME NEW x \in rows \ taken
      PROVE  Cardinality(needy \cap taken) = free
    <2> DEFINE below(r) == {q \in needy : q < r}
               load == needy \cap taken
    <2>0. \A r : Ahead(needy, r) = Cardinality(below(r))
        BY DEF Ahead
    <2>1. \A r \in rows : below(r) \in SUBSET needy /\ IsFiniteSet(below(r))
                          /\ Cardinality(below(r)) \in Nat
        BY <1>1, FS_Subset, FS_CardinalityType
    <2>2. Cardinality(needy) \in Nat /\ free <= Cardinality(needy)
        <3>1. Cardinality(below(x)) <= Cardinality(needy) /\ ~(Cardinality(below(x)) < free)
            BY <1>1, <1>2, <2>0, <2>1, FS_Subset
        <3> QED BY <1>1, <2>1, <3>1, FS_CardinalityType
    <2>3. \A r \in needy : Ahead(needy, r) \in Nat /\ Rank(needy, r) = Ahead(needy, r) + 1
        <3>1. ASSUME NEW r \in needy
              PROVE  Ahead(needy, r) \in Nat /\ Rank(needy, r) = Ahead(needy, r) + 1
            <4>1. {q \in needy : q <= r} = below(r) \cup {r} /\ r \notin below(r)
                <5>1. r \in Nat /\ \A q \in needy : q \in Nat
                    BY HistoryNumbers
                <5>2. \A q \in needy : q <= r <=> q < r \/ q = r
                    BY <5>1
                <5>3. ~(r < r)
                    BY <5>1
                <5> QED BY <5>2, <5>3, Zenon
            <4>2. Cardinality(below(r) \cup {r}) = Cardinality(below(r)) + 1
                BY <2>1, <4>1, FS_AddElement
            <4> QED BY <2>0, <2>1, <4>1, <4>2 DEF Rank
        <3> QED BY <3>1
    <2>4. \A r \in needy : r \in load <=> Rank(needy, r) <= free
        BY <2>3
    <2>5. /\ \A r \in needy : Rank(needy, r) \in 1..Cardinality(needy)
          /\ \A q, r \in needy : q < r => Rank(needy, q) < Rank(needy, r)
          /\ \A k \in 1..Cardinality(needy) : \E r \in needy : Rank(needy, r) = k
        <3>1. needy \in SUBSET (1..RowCount) /\ RowCount \in Nat
            BY HistoryNumbers
        <3> QED BY <3>1, RanksAreAll
    <2> DEFINE f == [r \in load |-> Rank(needy, r)]
    <2>6. f \in [load -> 1..free]
        <3>1. ASSUME NEW r \in load
              PROVE  Rank(needy, r) \in 1..free
            <4>1. r \in needy /\ Rank(needy, r) <= free
                BY <2>4
            <4>2. Rank(needy, r) \in Nat /\ 1 <= Rank(needy, r)
                BY <2>5, <4>1
            <4> QED BY <4>1, <4>2
        <3> QED BY <3>1
    <2>7. \A q, r \in load : f[q] = f[r] => q = r
        <3>1. \A r \in load : r \in needy /\ r \in Nat /\ Rank(needy, r) \in Nat
            BY <2>5, HistoryNumbers
        <3> HIDE DEF load
        <3> QED BY <2>5, <3>1
    <2>8. \A k \in 1..free : \E r \in load : f[r] = k
        BY <2>2, <2>4, <2>5
    <2>9. f \in Bijection(load, 1..free)
        BY <2>6, <2>7, <2>8, Fun_IsBij
    <2>10. IsFiniteSet(1..free) /\ Cardinality(1..free) = free
        BY FS_Interval
    <2>11. ExistsBijection(load, 1..free)
        BY <2>9 DEF ExistsBijection
    <2> QED BY <1>1, <2>10, <2>11, FS_Bijection
<1> QED BY <1>1, <1>2

LEMMA PreparedIs ==
    ASSUME NEW row \in RowData, NEW range \in Nat
    PROVE  /\ Prepared(row, range) \in RowData
           /\ Prepared(row, range).range = range
           /\ Prepared(row, range).loaded = row.loaded
<1> DEFINE was(i) == i + range - row.range
           keep == row.range # Never /\ row.loaded # Never
           shifted == [i \in Points |-> IF keep /\ was(i) \in Points
                                        THEN row.canvas[was(i)] ELSE BlankPoint]
<1>1. shifted \in [Points -> Int]
    BY HistoryNumbers DEF RowData
<1>2. CASE row.range = range
    BY <1>2 DEF Prepared
<1>3. CASE row.range # range
    <2>1. Prepared(row, range) = [row EXCEPT !.range = range, !.canvas = shifted]
        BY <1>3 DEF Prepared
    <2> HIDE DEF shifted
    <2> QED BY <1>1, <2>1 DEF RowData
<1> QED BY <1>2, <1>3

LEMMA CursorIs ==
    ASSUME NEW row \in RowData, NEW range \in Nat
    PROVE  /\ Cursor(row, range) \in Nat /\ range <= Cursor(row, range)
           /\ row.loaded = Never => Cursor(row, range) = range
           /\ row.loaded # Never => Cursor(row, range) = Later(range, row.loaded - Stale)
BY HistoryNumbers DEF RowData, Cursor, Later

LEMMA TakenIs ==
    ASSUME NEW row \in RowData, NEW range \in Nat, time \in Nat
    PROVE  /\ Taken(row, range) \in RowData
           /\ Taken(row, range).range = range
           /\ Taken(row, range).canvas = Prepared(row, range).canvas
           /\ Settled(row, range) \/ Needs(row, range) => Taken(row, range).loaded = row.loaded
           /\ ~Settled(row, range) /\ ~Needs(row, range) =>
                  Taken(row, range).loaded = Earlier(range + Length, time)
           /\ ~Needs(row, range) => Taken(row, range).loaded # Never
<1>1. Prepared(row, range) \in RowData /\ Prepared(row, range).range = range
      /\ Prepared(row, range).loaded = row.loaded
    BY PreparedIs
<1>2. Earlier(range + Length, time) \in Nat
    BY HistoryNumbers DEF Earlier
<1>3. CASE Settled(row, range) \/ Needs(row, range)
    <2>1. Taken(row, range) = Prepared(row, range)
        BY <1>3 DEF Taken
    <2>2. Settled(row, range) => row.loaded # Never
        BY DEF Settled
    <2>3. ~Needs(row, range) => row.loaded # Never
        BY <1>3, <2>2
    <2> QED BY <1>1, <1>3, <2>1, <2>3
<1>4. CASE ~(Settled(row, range) \/ Needs(row, range))
    <2>1. Taken(row, range) = [Prepared(row, range) EXCEPT !.loaded = Earlier(range + Length, time)]
        BY <1>4 DEF Taken
    <2>2. Earlier(range + Length, time) # Never
        BY <1>2, HistoryNumbers
    <2> QED BY <1>1, <1>2, <1>4, <2>1, <2>2 DEF RowData
<1> QED BY <1>3, <1>4

\* Whatever range a row is taken for, it goes on showing what it says.
LEMMA TakenShows ==
    ASSUME NEW row \in RowData, NEW range \in Nat, time \in Nat,
           Shows(row), row.range <= range
    PROVE  /\ Shows(Taken(row, range))
           /\ Needs(row, range) =>
                  \A i \in Points : range + i < Cursor(row, range) =>
                      Taken(row, range).canvas[i] = range + i
<1> DEFINE new == Taken(row, range)
<1>1. /\ new \in RowData /\ new.range = range /\ new.canvas = Prepared(row, range).canvas
      /\ Settled(row, range) \/ Needs(row, range) => new.loaded = row.loaded
      /\ ~Settled(row, range) /\ ~Needs(row, range) => new.loaded = Earlier(range + Length, time)
    BY TakenIs
<1>2. /\ row.range \in Nat \cup {Never} /\ row.loaded \in Nat \cup {Never}
      /\ row.canvas \in [Points -> Int]
    BY DEF RowData
<1>3. ASSUME NEW i \in Points
      PROVE  /\ new.canvas[i] \in {BlankPoint, range + i}
             /\ range + i < row.loaded => new.canvas[i] = range + i
    <2>1. CASE row.range = range
        <3>1. new.canvas = row.canvas
            BY <1>1, <2>1 DEF Prepared
        <3>2. row.range # Never
            BY <2>1, HistoryNumbers
        <3>3. /\ row.canvas[i] \in {BlankPoint, row.range + i}
              /\ row.range + i < row.loaded => row.canvas[i] = row.range + i
            BY <3>2 DEF Shows
        <3> HIDE DEF new
        <3>4. new.canvas[i] = row.canvas[i] /\ row.range + i = range + i
            BY <2>1, <3>1
        <3> QED BY <3>3, <3>4
    <2>2. CASE row.range # range
        <3> DEFINE was == i + range - row.range
        <3>1. new.canvas[i] = IF row.range # Never /\ row.loaded # Never /\ was \in Points
                              THEN row.canvas[was] ELSE BlankPoint
            BY <1>1, <2>2 DEF Prepared, RowData
        <3>2. CASE row.range = Never
            BY <3>1, <3>2, HistoryNumbers DEF Shows
        <3>3. CASE row.range # Never
            <4>1. row.range \in Nat /\ was \in Nat /\ row.range + was = range + i
                BY <1>2, <3>3, HistoryNumbers
            <4>2. row.loaded <= row.range + Length
                BY <3>3 DEF Shows
            <4>3. range + i < row.loaded => was \in Points /\ row.loaded # Never
                BY <1>2, <4>1, <4>2, HistoryNumbers
            <4>4. was \in Points => /\ row.canvas[was] \in {BlankPoint, range + i}
                                    /\ range + i < row.loaded => row.canvas[was] = range + i
                BY <3>3, <4>1 DEF Shows
            <4> HIDE DEF was
            <4> QED BY <3>1, <3>3, <4>3, <4>4
        <3> QED BY <3>2, <3>3
    <2> QED BY <2>1, <2>2
<1>4. row.loaded <= range + Length
    BY <1>2, HistoryNumbers DEF Shows
<1>5. range # Never
    BY HistoryNumbers
<1> HIDE DEF new
<1>6. Shows(new)
    <2>1. CASE Settled(row, range) \/ Needs(row, range)
        BY <1>1, <1>3, <1>4, <1>5, <2>1 DEF Shows
    <2>2. CASE ~Settled(row, range) /\ ~Needs(row, range)
        <3>1. row.loaded # Never /\ range + Length <= row.loaded - Stale
            BY <1>2, <2>2, HistoryNumbers DEF Needs, Cursor, Later
        <3>2. \A i \in Points : range + i < row.loaded
            BY <1>2, <3>1, HistoryNumbers
        <3>3. new.loaded <= range + Length
            BY <1>1, <2>2, HistoryNumbers DEF Earlier
        <3> QED BY <1>1, <1>3, <1>5, <3>2, <3>3 DEF Shows
    <2> QED BY <2>1, <2>2
<1>7. ASSUME NEW i \in Points, range + i < Cursor(row, range)
      PROVE  range + i < row.loaded
    BY <1>2, <1>7, HistoryNumbers DEF Cursor, Later
<1> QED BY <1>3, <1>6, <1>7 DEF new

\* The page p after workers of a run took some of the rows, and the requests
\* for these that are new.
Took(p, h, run, range, free, rows, taken, new) ==
    /\ p \in HistoryPage
    /\ p.from = h.from /\ p.rolling = h.rolling /\ p.wanted = h.wanted
    /\ p.run = h.run /\ p.asOf = h.asOf /\ p.spoiled = h.spoiled
    /\ \A r \in taken : p.rows[r] = Taken(h.rows[r], range)
    /\ \A r \in Rows \ taken : p.rows[r] = h.rows[r]
    /\ p.queue[run] = rows \ taken
    /\ \A n \in RunIds \ {run} : p.queue[n] = h.queue[n]
    /\ p.loads = h.loads \cup new
    /\ p.latest <=> h.latest \/ (run = h.run /\ \A l \in p.loads : l.run # run)
    /\ run = h.run => p.done = h.done \cup taken
    /\ run # h.run => p.done = h.done

NewLoads(h, run, range, taken, new) ==
    /\ \A l \in new : /\ l.run = run /\ l.range = range /\ l.row \in taken
                      /\ Needs(h.rows[l.row], range)
                      /\ l.cursor = Cursor(h.rows[l.row], range)
    /\ \A r \in taken : Needs(h.rows[r], range) => \E l \in new : l.row = r
    /\ \A k, l \in new : k.row = l.row => k = l

LEMMA TakeIs ==
    ASSUME NEW h \in HistoryPage, NEW run \in RunIds, NEW range \in Nat, NEW free \in Nat \ {0},
           NEW rows \in SUBSET Rows, time \in Nat,
           NEW p, p = Take(h, run, range, free, rows)
    PROVE  \E taken \in SUBSET rows, new \in SUBSET Loading :
               /\ Took(p, h, run, range, free, rows, taken, new)
               /\ NewLoads(h, run, range, taken, new)
               /\ IsFiniteSet(new)
               /\ rows \ taken # {} => Cardinality(new) = free
<1>0. PICK needy, taken :
          /\ needy = {r \in rows : Needs(h.rows[r], range)}
          /\ taken = {r \in rows : Ahead(needy, r) < free}
    OBVIOUS
<1> DEFINE asks(r) == [run |-> run, row |-> r, range |-> range,
                       cursor |-> Cursor(h.rows[r], range)]
           new == {asks(r) : r \in needy \cap taken}
           loads == h.loads \cup new
           after == [r \in Rows |-> IF r \in taken THEN Taken(h.rows[r], range) ELSE h.rows[r]]
           latest == h.latest \/ (run = h.run /\ \A l \in loads : l.run # run)
           done == IF run = h.run THEN h.done \cup taken ELSE h.done
           left == rows \ taken
<1>1. p = [h EXCEPT !.rows = after, !.queue[run] = left, !.loads = loads,
                    !.latest = latest, !.done = done]
    BY <1>0, Zenon DEF Take
<1>2. /\ h.rows \in [Rows -> RowData] /\ h.queue \in [RunIds -> SUBSET Rows]
      /\ h.loads \in SUBSET Loading /\ h.latest \in BOOLEAN /\ h.done \in SUBSET Rows
    BY DEF HistoryPage
<1>3. \A r \in rows : h.rows[r] \in RowData /\ Cursor(h.rows[r], range) \in Nat
    BY <1>2, CursorIs
<1>4. taken \in SUBSET rows /\ needy \in SUBSET rows
    BY <1>0
<1>5. \A r \in needy \cap taken : asks(r) \in Loading
    BY <1>3, <1>4 DEF Loading
<1>6. after \in [Rows -> RowData]
    <2>1. \A r \in taken : Taken(h.rows[r], range) \in RowData
        BY <1>3, <1>4, TakenIs
    <2> QED BY <1>2, <2>1
<1>7. IsFiniteSet(needy \cap taken) /\ (left # {} => Cardinality(needy \cap taken) = free)
    <2>1. Serve(free, rows, needy, taken)
        BY <1>0 DEF Serve
    <2>2. IsFiniteSet(needy \cap taken)
        BY <2>1, EveryWorkerLoads
    <2>3. rows \ taken # {} => Cardinality(needy \cap taken) = free
        BY <2>1, EveryWorkerLoads
    <2> QED BY <2>2, <2>3
<1> HIDE DEF after
<1>8. NewLoads(h, run, range, taken, new)
    <2>1. \A r \in needy \cap taken : asks(r).row = r /\ asks(r).run = run /\ asks(r).range = range
                                      /\ asks(r).cursor = Cursor(h.rows[r], range)
        OBVIOUS
    <2>2. \A r \in rows : r \in needy <=> Needs(h.rows[r], range)
        BY <1>0
    <2>3. \A l \in new : \E r \in needy \cap taken : l = asks(r)
        OBVIOUS
    <2>4. \A r \in needy \cap taken : asks(r) \in new
        OBVIOUS
    <2> HIDE DEF asks, new
    <2> QED BY <1>4, <2>1, <2>2, <2>3, <2>4 DEF NewLoads
<1>9. IsFiniteSet(new) /\ Cardinality(new) = Cardinality(needy \cap taken)
    <2> DEFINE f == [r \in needy \cap taken |-> asks(r)]
    <2>1. f \in [needy \cap taken -> new]
        OBVIOUS
    <2>2. \A q, r \in needy \cap taken : f[q] = f[r] => q = r
        OBVIOUS
    <2>3. \A l \in new : \E r \in needy \cap taken : f[r] = l
        OBVIOUS
    <2> HIDE DEF f, new
    <2>4. f \in Bijection(needy \cap taken, new)
        BY <2>1, <2>2, <2>3, Fun_IsBij
    <2> QED BY <1>7, <2>4, FS_Bijection DEF ExistsBijection
<1>10. new \in SUBSET Loading
    BY <1>5
<1> HIDE DEF new, asks
<1>11. Took(p, h, run, range, free, rows, taken, new)
    <2>1. /\ latest \in BOOLEAN /\ done \in SUBSET Rows /\ loads \in SUBSET Loading
          /\ left \in SUBSET Rows
        BY <1>2, <1>4, <1>10
    <2>2. /\ p.from = h.from /\ p.rolling = h.rolling /\ p.wanted = h.wanted
          /\ p.run = h.run /\ p.asOf = h.asOf /\ p.spoiled = h.spoiled
          /\ p.rows = after /\ p.queue = [h.queue EXCEPT ![run] = left]
          /\ p.loads = loads /\ p.latest = latest /\ p.done = done
        BY <1>1 DEF HistoryPage
    <2>3. p \in HistoryPage
        <3> DEFINE queue == [h.queue EXCEPT ![run] = left]
        <3>1. queue \in [RunIds -> SUBSET Rows]
            BY <1>2, <2>1
        <3>2. p = [h EXCEPT !.rows = after, !.queue = queue, !.loads = loads,
                            !.latest = latest, !.done = done]
            BY <1>1
        <3> HIDE DEF latest, done, loads, left, queue
        <3> QED BY <1>6, <2>1, <3>1, <3>2 DEF HistoryPage
    <2>4. /\ \A r \in taken : after[r] = Taken(h.rows[r], range)
          /\ \A r \in Rows \ taken : after[r] = h.rows[r]
        BY <1>4 DEF after
    <2>5. p.queue[run] = left /\ \A n \in RunIds \ {run} : p.queue[n] = h.queue[n]
        BY <1>2, <2>2
    <2>6. /\ p.latest <=> h.latest \/ (run = h.run /\ \A l \in p.loads : l.run # run)
          /\ run = h.run => p.done = h.done \cup taken
          /\ run # h.run => p.done = h.done
        BY <2>2
    <2> QED BY <2>2, <2>3, <2>4, <2>5, <2>6 DEF Took
<1> QED BY <1>4, <1>7, <1>8, <1>9, <1>10, <1>11

LEMMA NewLoadsAreInside ==
    ASSUME NEW h \in HistoryPage, NEW run, NEW range \in Nat, NEW taken \in SUBSET Rows,
           NEW new, NewLoads(h, run, range, taken, new)
    PROVE  \A l \in new : l.range <= l.cursor /\ l.cursor < l.range + Length
<1>1. ASSUME NEW l \in new
      PROVE  l.range <= l.cursor /\ l.cursor < l.range + Length
    <2>1. /\ l.row \in Rows /\ l.range = range /\ l.cursor = Cursor(h.rows[l.row], range)
          /\ Needs(h.rows[l.row], range)
        BY DEF NewLoads
    <2>2. h.rows[l.row] \in RowData
        BY <2>1 DEF HistoryPage
    <2> QED BY <2>1, <2>2, CursorIs DEF Needs
<1> QED BY <1>1

\* The run that holds busy may have free workers take these rows.
MayTake(h, range, free, rows) ==
    /\ h \in HistoryPage /\ IsFiniteSet(h.loads) /\ LoadsAreInside(h)
    /\ h.run \in RunIds /\ ~h.latest
    /\ range \in Nat /\ rows \in SUBSET Rows
    /\ rows # {} => Cardinality(Under(h, h.run)) + free = Workers
    /\ \A l \in Under(h, h.run) :
           l.row \notin rows /\ \A k \in Under(h, h.run) : k.row = l.row => k = l
    /\ ~h.spoiled => RowsAreRight(h) /\ range = h.from

LEMMA RunTakes ==
    ASSUME NEW h, NEW range, NEW free \in Nat \ {0}, NEW rows, MayTake(h, range, free, rows),
           time \in Nat, NEW p, p = Take(h, h.run, range, free, rows)
    PROVE  /\ PageInv(p) /\ p.from = h.from /\ p.rolling = h.rolling /\ p.run = h.run
           /\ \A n \in RunIds \ {h.run} : Under(p, n) = Under(h, n)
<1> DEFINE run == h.run
<1>0. /\ h \in HistoryPage /\ IsFiniteSet(h.loads) /\ LoadsAreInside(h)
      /\ h.run \in RunIds /\ ~h.latest
      /\ range \in Nat /\ rows \in SUBSET Rows
      /\ \A l \in Under(h, h.run) :
             l.row \notin rows /\ \A k \in Under(h, h.run) : k.row = l.row => k = l
      /\ ~h.spoiled => RowsAreRight(h) /\ range = h.from
    BY DEF MayTake
<1>1. PICK taken \in SUBSET rows, new \in SUBSET Loading :
          /\ Took(p, h, run, range, free, rows, taken, new)
          /\ NewLoads(h, run, range, taken, new)
          /\ IsFiniteSet(new)
          /\ rows \ taken # {} => Cardinality(new) = free
    BY <1>0, TakeIs
<1>2. /\ p \in HistoryPage
      /\ p.from = h.from /\ p.rolling = h.rolling /\ p.run = run /\ p.spoiled = h.spoiled
      /\ \A r \in taken : p.rows[r] = Taken(h.rows[r], range)
      /\ \A r \in Rows \ taken : p.rows[r] = h.rows[r]
      /\ p.queue[run] = rows \ taken
      /\ p.loads = h.loads \cup new
      /\ p.latest <=> \A l \in p.loads : l.run # run
      /\ p.done = h.done \cup taken
    BY <1>0, <1>1 DEF Took
<1>3. /\ \A l \in new : /\ l.run = run /\ l.range = range /\ l.row \in taken
                        /\ Needs(h.rows[l.row], range)
                        /\ l.cursor = Cursor(h.rows[l.row], range)
      /\ \A r \in taken : Needs(h.rows[r], range) => \E l \in new : l.row = r
      /\ \A k, l \in new : k.row = l.row => k = l
    BY <1>1 DEF NewLoads
<1>4. /\ Under(p, run) = Under(h, run) \cup new
      /\ \A n \in RunIds \ {run} : Under(p, n) = Under(h, n)
    BY <1>2, <1>3 DEF Under
<1>5. IsFiniteSet(p.loads)
    <2>1. IsFiniteSet(h.loads \cup new)
        BY <1>0, <1>1, FS_Union
    <2> QED BY <1>2, <2>1
<1>6. LoadsAreInside(p)
    <2>1. \A l \in new : l.range <= l.cursor /\ l.cursor < l.range + Length
        BY <1>0, <1>1, NewLoadsAreInside
    <2> QED BY <1>0, <1>2, <2>1 DEF LoadsAreInside
<1>7. RunIsAtWork(p)
    <2>1. run # 0 /\ p.run = run
        BY <1>0, <1>2, HistoryNumbers
    <2>2. p.latest <=> Under(p, run) = {}
        BY <1>2 DEF Under
    <2>3. ASSUME rows \ taken # {}
          PROVE  Cardinality(Under(p, run)) = Workers
        <3>1. Under(h, run) \cap new = {}
            BY <1>0, <1>3
        <3>2. Under(h, run) \in SUBSET h.loads
            BY DEF Under
        <3>3. IsFiniteSet(Under(h, run)) /\ IsFiniteSet(new) /\ Cardinality({}) = 0
            BY <1>0, <1>1, <3>2, FS_Subset, FS_EmptySet
        <3>4. Cardinality(Under(h, run) \cup new) =
                  Cardinality(Under(h, run)) + Cardinality(new) - Cardinality(Under(h, run) \cap new)
            BY <3>3, FS_Union
        <3>5. Cardinality(new) = free
            BY <1>1, <2>3
        <3>6. Cardinality(Under(h, run) \cap new) = 0
            BY <3>1, <3>3
        <3>7. Cardinality(Under(h, run)) + free = Workers /\ Cardinality(Under(h, run)) \in Nat
            BY <2>3, <3>3, FS_CardinalityType DEF MayTake
        <3>8. Cardinality(Under(h, run) \cup new) = Cardinality(Under(h, run)) + free - 0
            BY <3>4, <3>5, <3>6
        <3> QED BY <1>4, <3>7, <3>8, HistoryNumbers
    <2>4. ASSUME NEW l \in Under(p, run)
          PROVE  /\ l.row \notin rows \ taken
                 /\ \A k \in Under(p, run) : k.row = l.row => k = l
        BY <1>0, <1>3, <1>4
    <2> QED BY <1>2, <2>1, <2>2, <2>3, <2>4 DEF RunIsAtWork
<1>8. ASSUME ~p.spoiled
      PROVE  RowsAreRight(p)
    <2>1. /\ RowsAreRight(h) /\ range = h.from
        BY <1>0, <1>2, <1>8
    <2>2. \A r \in Rows : h.rows[r] \in RowData /\ Shows(h.rows[r]) /\ h.rows[r].range <= range
        BY <1>0, <2>1 DEF RowsAreRight, HistoryPage
    <2>3. \A r \in taken :
              /\ p.rows[r].range = range
              /\ Shows(p.rows[r])
              /\ Needs(h.rows[r], range) =>
                     \A i \in Points : range + i < Cursor(h.rows[r], range) =>
                         p.rows[r].canvas[i] = range + i
              /\ p.rows[r].loaded = Never => Needs(h.rows[r], range)
        BY <1>0, <1>2, <2>2, TakenIs, TakenShows
    <2>4. \A r \in Rows : Shows(p.rows[r]) /\ p.rows[r].range <= p.from
        <3>1. range <= range
            BY <1>0
        <3> QED BY <1>2, <2>1, <2>2, <2>3, <3>1
    <2>5. ASSUME NEW l \in p.loads
          PROVE  /\ l.run = p.run /\ l.range = p.from
                 /\ p.rows[l.row].range = p.from
                 /\ \A i \in Points : l.range + i < l.cursor => p.rows[l.row].canvas[i] = l.range + i
        <3>1. CASE l \in new
            BY <1>2, <1>3, <2>1, <2>3, <3>1
        <3>2. CASE l \in h.loads
            <4>1. /\ l.run = h.run /\ l.range = h.from /\ h.rows[l.row].range = h.from
                  /\ \A i \in Points : l.range + i < l.cursor => h.rows[l.row].canvas[i] = l.range + i
                BY <2>1, <3>2 DEF RowsAreRight
            <4>2. l \in Under(h, h.run)
                BY <3>2, <4>1 DEF Under
            <4>3. l.row \in Rows \ taken
                BY <1>0, <3>2, <4>2 DEF HistoryPage, Loading
            <4> QED BY <1>2, <4>1, <4>3
        <3> QED BY <1>2, <3>1, <3>2
    <2>6. ASSUME NEW r \in p.done
          PROVE  /\ p.rows[r].range = p.from
                 /\ p.rows[r].loaded = Never => \E l \in p.loads : l.row = r
        <3>1. CASE r \in taken
            BY <1>2, <1>3, <2>1, <2>3, <3>1
        <3>2. CASE r \notin taken
            <4>1. r \in h.done /\ r \in Rows \ taken
                BY <1>0, <1>2, <3>2 DEF HistoryPage
            <4>2. /\ h.rows[r].range = h.from
                  /\ h.rows[r].loaded = Never => \E l \in h.loads : l.row = r
                BY <2>1, <4>1 DEF RowsAreRight
            <4> QED BY <1>2, <4>1, <4>2
        <3> QED BY <3>1, <3>2
    <2> QED BY <2>4, <2>5, <2>6 DEF RowsAreRight
<1> QED BY <1>2, <1>4, <1>5, <1>6, <1>7, <1>8 DEF PageInv

\* A worker of a refresh that failed goes on, while another may hold busy.
LEMMA StrayTakes ==
    ASSUME NEW h, PageInv(h), h.spoiled, NEW run \in RunIds, run # h.run, time \in Nat,
           NEW range \in Nat, NEW free \in Nat \ {0}, NEW rows \in SUBSET Rows,
           NEW p, p = Take(h, run, range, free, rows)
    PROVE  /\ PageInv(p) /\ p.from = h.from /\ p.rolling = h.rolling /\ p.run = h.run
           /\ \A n \in RunIds \ {run} : Under(p, n) = Under(h, n)
<1>0. h \in HistoryPage /\ IsFiniteSet(h.loads) /\ LoadsAreInside(h) /\ RunIsAtWork(h)
    BY DEF PageInv
<1>1. PICK taken \in SUBSET rows, new \in SUBSET Loading :
          /\ Took(p, h, run, range, free, rows, taken, new)
          /\ NewLoads(h, run, range, taken, new)
          /\ IsFiniteSet(new)
    BY <1>0, TakeIs
<1>2. /\ p \in HistoryPage
      /\ p.from = h.from /\ p.rolling = h.rolling /\ p.run = h.run /\ p.spoiled
      /\ \A n \in RunIds \ {run} : p.queue[n] = h.queue[n]
      /\ p.loads = h.loads \cup new
      /\ p.latest <=> h.latest
      /\ p.done = h.done
    BY <1>1 DEF Took
<1>3. \A l \in new : l.run = run
    BY <1>1 DEF NewLoads
<1>4. \A n \in RunIds \ {run} : Under(p, n) = Under(h, n)
    BY <1>2, <1>3 DEF Under
<1>5. IsFiniteSet(p.loads)
    <2>1. IsFiniteSet(h.loads \cup new)
        BY <1>0, <1>1, FS_Union
    <2> QED BY <1>2, <2>1
<1>6. LoadsAreInside(p)
    <2>1. \A l \in new : l.range <= l.cursor /\ l.cursor < l.range + Length
        BY <1>0, <1>1, NewLoadsAreInside
    <2> QED BY <1>0, <1>2, <2>1 DEF LoadsAreInside
<1>7. RunIsAtWork(p)
    <2>1. h.run # 0 => h.run \in RunIds \ {run}
        BY <1>0 DEF HistoryPage
    <2> QED BY <1>0, <1>2, <1>4, <2>1 DEF RunIsAtWork
<1> QED BY <1>2, <1>4, <1>5, <1>6, <1>7 DEF PageInv

LEMMA TimesAreNatural ==
    ASSUME time \in Length .. MaxTime, failures \in 0 .. MaxFailures
    PROVE  /\ time \in Nat /\ failures \in Nat /\ failures <= MaxFailures
           /\ time - Length \in Nat
BY HistoryNumbers

\* A refresh that begins finds a number that no request has.
LEMMA StartHolds ==
    ASSUME time \in Length .. MaxTime, failures \in 0 .. MaxFailures,
           NEW h, Fits(h, failures, time), NEW p, p = Started(h)
    PROVE  Fits(p, failures, time)
<1>0. /\ PageInv(h) /\ h \in HistoryPage /\ IsFiniteSet(h.loads) /\ LoadsAreInside(h)
      /\ RunIsAtWork(h)
      /\ Cardinality(Strays(h)) <= failures
      /\ h.rolling => h.from <= time - Length
    BY DEF Fits, PageInv
<1>1. time \in Nat /\ failures \in Nat /\ failures <= MaxFailures /\ time - Length \in Nat
    BY TimesAreNatural
<1>2. CASE h.run # 0
    BY <1>2 DEF Started
<1>3. CASE h.run = 0
    <2> DEFINE run == CHOOSE n \in RunIds : \A l \in h.loads : l.run # n
               from == IF h.rolling THEN time - Length ELSE h.from
               g == [h EXCEPT !.from = from, !.run = run, !.asOf = time]
    <2>1. run \in RunIds /\ \A l \in h.loads : l.run # run
        <3>1. \E n \in RunIds : n \notin Strays(h)
            <4>1. Cardinality(RunIds) = MaxFailures + 1
                BY HistoryNumbers, FS_Interval
            <4>2. Strays(h) # RunIds
                BY <1>0, <1>1, <4>1, HistoryNumbers
            <4> QED BY <4>2 DEF Strays
        <3>2. 0 \notin RunIds
            BY HistoryNumbers
        <3>3. \E n \in RunIds : \A l \in h.loads : l.run # n
            BY <1>3, <3>1, <3>2 DEF Strays, Under
        <3> QED BY <3>3
    <2>2. from \in Nat /\ h.from <= from /\ (h.rolling => from <= time - Length)
        BY <1>0, <1>1 DEF HistoryPage
    <2>3. p = Take(g, run, from, Workers, h.wanted)
        BY <1>3 DEF Started
    <2> HIDE DEF run, from
    <2>4. /\ g \in HistoryPage
          /\ g.from = from /\ g.rolling = h.rolling /\ g.run = run /\ g.loads = h.loads
          /\ g.rows = h.rows /\ g.latest = h.latest /\ g.done = h.done /\ g.spoiled = h.spoiled
        BY <1>0, <1>1, <2>1, <2>2 DEF HistoryPage
    <2> HIDE DEF g
    <2>5. ~g.latest /\ g.done = {}
        BY <1>0, <1>3, <2>4 DEF RunIsAtWork
    <2>6. Under(g, run) = {}
        BY <2>1, <2>4 DEF Under
    <2>7. ASSUME ~g.spoiled
          PROVE  RowsAreRight(g) /\ from = g.from
        <3>1. RowsAreRight(h)
            BY <1>0, <2>4, <2>7 DEF PageInv
        <3>2. h.loads = {}
            <4>1. \A l \in h.loads : l.run = 0 /\ l.run \in RunIds
                BY <1>0, <1>3, <3>1 DEF RowsAreRight, HistoryPage, Loading
            <4> QED BY <4>1, HistoryNumbers
        <3>3. \A r \in Rows : Shows(g.rows[r]) /\ g.rows[r].range <= g.from
            <4>1. \A r \in Rows : /\ Shows(h.rows[r]) /\ h.rows[r].range <= h.from
                                  /\ h.rows[r].range \in Nat \cup {Never}
                BY <1>0, <3>1 DEF RowsAreRight, HistoryPage, RowData
            <4>2. h.from \in Nat
                BY <1>0 DEF HistoryPage
            <4> QED BY <2>2, <2>4, <4>1, <4>2, HistoryNumbers
        <3> QED BY <2>4, <2>5, <3>2, <3>3 DEF RowsAreRight
    <2>8. LoadsAreInside(g) /\ IsFiniteSet(g.loads)
        BY <1>0, <2>4 DEF LoadsAreInside
    <2>9. Cardinality(Under(g, g.run)) + Workers = Workers
        <3>1. Cardinality(Under(g, g.run)) = 0
            BY <2>4, <2>6, FS_EmptySet
        <3> QED BY <3>1, HistoryNumbers
    <2>10. h.wanted \in SUBSET Rows
        BY <1>0 DEF HistoryPage
    <2>11. p = Take(g, g.run, from, Workers, h.wanted)
        BY <2>3, <2>4
    <2>12. /\ PageInv(p) /\ p.from = g.from /\ p.rolling = g.rolling /\ p.run = g.run
           /\ \A n \in RunIds \ {g.run} : Under(p, n) = Under(g, n)
        <3>1. \A l \in Under(g, g.run) :
                  l.row \notin h.wanted /\ \A k \in Under(g, g.run) : k.row = l.row => k = l
            BY <2>4, <2>6
        <3>2. g.run \in RunIds
            BY <2>1, <2>4
        <3>3. MayTake(g, from, Workers, h.wanted)
            BY <2>2, <2>4, <2>5, <2>7, <2>8, <2>9, <2>10, <3>1, <3>2 DEF MayTake
        <3>4. time \in Nat /\ Workers \in Nat \ {0}
            BY <1>1, HistoryNumbers
        <3> QED BY <2>11, <3>3, <3>4, RunTakes
    <2>13. Strays(p) = Strays(h)
        <3>1. \A n \in RunIds \ {run} : Under(p, n) = Under(h, n)
            BY <2>4, <2>12 DEF Under
        <3>2. Under(h, run) = {} /\ 0 \notin RunIds
            BY <2>1, HistoryNumbers DEF Under
        <3> QED BY <1>3, <2>4, <2>12, <3>1, <3>2 DEF Strays
    <2> QED BY <1>0, <2>2, <2>4, <2>12, <2>13 DEF Fits
<1> QED BY <1>2, <1>3

LEMMA NoStrays ==
    ASSUME NEW h, h.loads = {}
    PROVE  Strays(h) = {} /\ \A met \in Nat : Cardinality(Strays(h)) <= met
<1>1. Strays(h) = {}
    BY DEF Strays, Under
<1>2. Cardinality({}) = 0
    BY FS_EmptySet
<1> QED BY <1>1, <1>2

LEMMA AbortIs ==
    ASSUME NEW h \in HistoryPage, NEW p, p = AbortRequests(h)
    PROVE  /\ p \in HistoryPage
           /\ p.from = h.from /\ p.rolling = h.rolling /\ p.rows = h.rows /\ p.spoiled = h.spoiled
           /\ p.loads = {} /\ p.run = 0 /\ ~p.latest /\ p.done = {}
BY DEF AbortRequests, HistoryPage

\* A page on which nothing is under way.
LEMMA IdleHolds ==
    ASSUME NEW h \in HistoryPage, NEW met \in Nat, NEW now,
           h.loads = {}, h.run = 0, ~h.latest, h.done = {},
           ~h.spoiled => \A r \in Rows : Shows(h.rows[r]) /\ h.rows[r].range <= h.from,
           h.rolling => h.from <= now - Length
    PROVE  Fits(h, met, now)
<1>1. IsFiniteSet(h.loads) /\ LoadsAreInside(h) /\ RunIsAtWork(h)
    BY FS_EmptySet DEF LoadsAreInside, RunIsAtWork
<1>2. ~h.spoiled => RowsAreRight(h)
    BY DEF RowsAreRight
<1>3. Cardinality(Strays(h)) <= met
    BY NoStrays
<1> QED BY <1>1, <1>2, <1>3 DEF Fits, PageInv

LEMMA AbortHolds ==
    ASSUME NEW met \in Nat, NEW now, NEW h, Fits(h, met, now), NEW p, p = AbortRequests(h)
    PROVE  Fits(p, met, now)
<1>1. /\ h \in HistoryPage /\ (~h.spoiled => RowsAreRight(h))
      /\ h.rolling => h.from <= now - Length
    BY DEF Fits, PageInv
<1>2. /\ p \in HistoryPage
      /\ p.from = h.from /\ p.rolling = h.rolling /\ p.rows = h.rows /\ p.spoiled = h.spoiled
      /\ p.loads = {} /\ p.run = 0 /\ ~p.latest /\ p.done = {}
    BY <1>1, AbortIs
<1>3. ~p.spoiled => \A r \in Rows : Shows(p.rows[r]) /\ p.rows[r].range <= p.from
    BY <1>1, <1>2 DEF RowsAreRight
<1> QED BY <1>1, <1>2, <1>3, IdleHolds

\* reset() forgets what a failure has spoiled.
LEMMA ResetHolds ==
    ASSUME time \in Length .. MaxTime, failures \in 0 .. MaxFailures,
           NEW h \in HistoryPage, h.rolling => h.from <= time - Length, NEW p, p = Reset(h)
    PROVE  Fits(p, failures, time)
<1> DEFINE rows == [r \in Rows |-> [h.rows[r] EXCEPT !.range = Never, !.loaded = Never]]
           a == AbortRequests(h)
           g == [a EXCEPT !.rows = rows, !.spoiled = FALSE]
<1>1. /\ a \in HistoryPage
      /\ a.from = h.from /\ a.rolling = h.rolling
      /\ a.loads = {} /\ a.run = 0 /\ ~a.latest /\ a.done = {}
    BY AbortIs
<1> HIDE DEF a
<1>2. rows \in [Rows -> RowData] /\ \A r \in Rows : rows[r].range = Never /\ rows[r].loaded = Never
    BY DEF HistoryPage, RowData
<1> HIDE DEF rows
<1>3. /\ g \in HistoryPage
      /\ g.from = h.from /\ g.rolling = h.rolling /\ g.rows = rows
      /\ g.loads = {} /\ g.run = 0 /\ ~g.latest /\ g.done = {}
    BY <1>1, <1>2 DEF HistoryPage
<1>4. \A r \in Rows : Shows(g.rows[r]) /\ g.rows[r].range <= g.from
    <2>1. g.from \in Nat
        BY <1>3 DEF HistoryPage
    <2> QED BY <1>2, <1>3, <2>1, HistoryNumbers DEF Shows
<1>5. p = Started(g)
    BY DEF Reset, a, rows
<1> HIDE DEF g
<1>6. Fits(g, failures, time)
    BY <1>3, <1>4, TimesAreNatural, IdleHolds
<1> QED BY <1>5, <1>6, StartHolds

LEMMA StraysAreFinite ==
    ASSUME NEW h
    PROVE  /\ Strays(h) \in SUBSET RunIds
           /\ IsFiniteSet(Strays(h)) /\ Cardinality(Strays(h)) \in Nat
<1>1. IsFiniteSet(RunIds)
    BY HistoryNumbers, FS_Interval
<1>2. Strays(h) \in SUBSET RunIds
    BY DEF Strays
<1>3. IsFiniteSet(Strays(h))
    BY <1>1, <1>2, FS_Subset
<1> QED BY <1>2, <1>3, FS_CardinalityType

LEMMA FewerStrays ==
    ASSUME NEW met \in Nat, NEW h, NEW g, Strays(g) \subseteq Strays(h),
           Cardinality(Strays(h)) <= met
    PROVE  Cardinality(Strays(g)) <= met
<1>1. IsFiniteSet(Strays(h)) /\ Cardinality(Strays(g)) \in Nat /\ Cardinality(Strays(h)) \in Nat
    BY StraysAreFinite
<1>2. Cardinality(Strays(g)) <= Cardinality(Strays(h))
    BY <1>1, FS_Subset
<1> QED BY <1>1, <1>2

\* What is done to a page that leaves its requests and its range alone.
Edited(g, h) ==
    /\ g \in HistoryPage
    /\ g.from = h.from /\ (g.rolling => h.rolling) /\ g.run = h.run /\ g.queue = h.queue
    /\ g.loads = h.loads /\ g.latest = h.latest /\ g.spoiled = h.spoiled
    /\ \A r \in Rows : g.rows[r].range = h.rows[r].range /\ g.rows[r].canvas = h.rows[r].canvas
    /\ \/ g.rows = h.rows /\ g.done = h.done
       \/ (\A r \in Rows : g.rows[r].loaded = Never) /\ g.done = {}

LEMMA EditHolds ==
    ASSUME NEW met, NEW now, NEW h, Fits(h, met, now), NEW g, Edited(g, h)
    PROVE  Fits(g, met, now)
<1>1. /\ h \in HistoryPage /\ IsFiniteSet(h.loads) /\ LoadsAreInside(h) /\ RunIsAtWork(h)
      /\ ~h.spoiled => RowsAreRight(h)
      /\ Cardinality(Strays(h)) <= met
      /\ h.rolling => h.from <= now - Length
    BY DEF Fits, PageInv
<1>2. g.rolling => g.from <= now - Length
    BY <1>1 DEF Edited
<1>3. Strays(g) = Strays(h)
    BY DEF Edited, Strays, Under
<1>4. IsFiniteSet(g.loads) /\ LoadsAreInside(g)
    BY <1>1 DEF Edited, LoadsAreInside
<1>5. RunIsAtWork(g)
    <2>1. Under(g, g.run) = Under(h, h.run)
        BY DEF Edited, Under
    <2> QED BY <1>1, <2>1 DEF RunIsAtWork, Edited
<1>6. ASSUME ~g.spoiled
      PROVE  RowsAreRight(g)
    <2>1. RowsAreRight(h)
        BY <1>1, <1>6 DEF Edited
    <2>2. CASE g.rows = h.rows /\ g.done = h.done
        BY <2>1, <2>2 DEF Edited, RowsAreRight
    <2>3. CASE (\A r \in Rows : g.rows[r].loaded = Never) /\ g.done = {}
        <3>1. ASSUME NEW r \in Rows
              PROVE  Shows(g.rows[r]) /\ g.rows[r].range <= g.from
            <4>1. /\ g.rows[r].range = h.rows[r].range /\ g.rows[r].canvas = h.rows[r].canvas
                  /\ g.rows[r].loaded = Never /\ g.from = h.from
                BY <2>3 DEF Edited
            <4>2. Shows(h.rows[r]) /\ h.rows[r].range <= h.from
                BY <2>1 DEF RowsAreRight
            <4>3. h.rows[r].range \in Nat \cup {Never}
                BY <1>1 DEF HistoryPage, RowData
            <4>4. h.rows[r].range # Never =>
                      /\ Never <= h.rows[r].range + Length
                      /\ \A i \in Points : ~(h.rows[r].range + i < Never)
                BY <4>3, HistoryNumbers
            <4> QED BY <4>1, <4>2, <4>4 DEF Shows
        <3>2. \A l \in g.loads : l.row \in Rows
            BY DEF Edited, HistoryPage, Loading
        <3> QED BY <2>1, <2>3, <3>1, <3>2 DEF Edited, RowsAreRight
    <2> QED BY <2>2, <2>3 DEF Edited
<1>7. g \in HistoryPage
    BY DEF Edited
<1> QED BY <1>1, <1>2, <1>3, <1>4, <1>5, <1>6, <1>7 DEF Fits, PageInv

LEMMA TimeGoesOn ==
    ASSUME NEW met \in Nat, NEW more \in Nat, met <= more,
           NEW now \in Nat, NEW later \in Nat, now <= later,
           NEW h, Fits(h, met, now)
    PROVE  Fits(h, more, later)
<1>1. PageInv(h) /\ Cardinality(Strays(h)) <= met /\ (h.rolling => h.from <= now - Length)
    BY DEF Fits
<1>2. h.from \in Nat
    BY <1>1 DEF PageInv, HistoryPage
<1>3. h.rolling => h.from <= later - Length
    BY <1>1, <1>2, HistoryNumbers
<1>4. Cardinality(Strays(h)) <= more
    <2>1. Cardinality(Strays(h)) \in Nat
        BY StraysAreFinite
    <2> QED BY <1>1, <2>1
<1> QED BY <1>1, <1>3, <1>4 DEF Fits

LEMMA TickHolds ==
    ASSUME HistoryInv, HistoryTick
    PROVE  HistoryInv'
<1>1. time \in Nat /\ failures \in Nat /\ time' \in Nat /\ time <= time' /\ time' \in Length .. MaxTime
    BY HistoryNumbers DEF HistoryInv, HistoryTick
<1>2. Fits(history, failures, time)
    BY DEF HistoryInv
<1>3. failures <= failures
    BY <1>1
<1>4. \A later \in Nat : time <= later => Fits(history, failures, later)
    BY <1>1, <1>2, <1>3, TimeGoesOn
<1>5. Fits(history, failures, time')
    BY <1>1, <1>4
<1> QED BY <1>1, <1>5 DEF HistoryInv, HistoryTick

LEMMA TimerHolds ==
    ASSUME HistoryInv, HistoryTimer
    PROVE  HistoryInv'
<1>1. \A p : p = Started(history) => Fits(p, failures, time)
    BY StartHolds DEF HistoryInv
<1>2. Fits(history', failures, time)
    BY <1>1 DEF HistoryTimer
<1> QED BY <1>2 DEF HistoryInv, HistoryTimer

LEMMA TabChangesHolds ==
    ASSUME HistoryInv, HistoryTabChanges
    PROVE  HistoryInv'
<1>1. failures \in Nat
    BY HistoryNumbers DEF HistoryInv
<1>2. \A p : p = Started(history) => Fits(p, failures, time)
    BY StartHolds DEF HistoryInv
<1>3. \A p : p = AbortRequests(history) => Fits(p, failures, time)
    BY <1>1, AbortHolds DEF HistoryInv
<1>4. Fits(history', failures, time)
    BY <1>2, <1>3 DEF HistoryTabChanges
<1> QED BY <1>4 DEF HistoryInv, HistoryTabChanges

LEMMA ChooseRangeHolds ==
    ASSUME HistoryInv, ChooseRange
    PROVE  HistoryInv'
<1>1. /\ time \in Length .. MaxTime /\ failures \in 0 .. MaxFailures
      /\ history \in HistoryPage /\ (history.rolling => history.from <= time - Length)
    BY DEF HistoryInv, Fits, PageInv
<1>2. time - Length \in Nat
    BY <1>1, TimesAreNatural
<1>3. ASSUME NEW h \in HistoryPage, h.rolling => h.from <= time - Length
      PROVE  \A p : p = Reset(h) => Fits(p, failures, time)
    BY <1>1, <1>3, ResetHolds
<1>4. Fits(history', failures, time)
    <2>1. CASE history' = Reset([history EXCEPT !.from = time - Length, !.rolling = TRUE])
        <3> DEFINE h == [history EXCEPT !.from = time - Length, !.rolling = TRUE]
        <3>1. h \in HistoryPage /\ h.from = time - Length
            BY <1>1, <1>2 DEF HistoryPage
        <3>2. h.rolling => h.from <= time - Length
            BY <1>2, <3>1
        <3>3. history' = Reset(h)
            BY <2>1
        <3> HIDE DEF h
        <3> QED BY <1>3, <3>1, <3>2, <3>3
    <2>2. ASSUME NEW from \in 0 .. MaxTime, history.rolling => from = history.from,
                 history' = Reset([history EXCEPT !.from = from])
          PROVE  Fits(history', failures, time)
        <3> DEFINE h == [history EXCEPT !.from = from]
        <3>1. from \in Nat
            BY HistoryNumbers
        <3>2. h \in HistoryPage /\ h.from = from /\ h.rolling = history.rolling
            BY <1>1, <3>1 DEF HistoryPage
        <3>3. h.rolling => h.from <= time - Length
            BY <1>1, <2>2, <3>2
        <3>4. history' = Reset(h)
            BY <2>2
        <3> HIDE DEF h
        <3> QED BY <1>3, <3>2, <3>3, <3>4
    <2>3. ASSUME NEW from \in 0 .. MaxTime,
                 history' = Reset([history EXCEPT !.from = from, !.rolling = FALSE])
          PROVE  Fits(history', failures, time)
        <3> DEFINE h == [history EXCEPT !.from = from, !.rolling = FALSE]
        <3>1. from \in Nat
            BY HistoryNumbers
        <3>2. h \in HistoryPage /\ ~h.rolling
            BY <1>1, <3>1 DEF HistoryPage
        <3>3. history' = Reset(h)
            BY <2>3
        <3> HIDE DEF h
        <3> QED BY <1>3, <3>2, <3>3
    <2> QED BY <2>1, <2>2, <2>3 DEF ChooseRange
<1>5. gestures' \in 0 .. MaxGestures /\ time' = time /\ failures' = failures
    BY HistoryNumbers DEF HistoryInv, ChooseRange, Gesture
<1> QED BY <1>1, <1>4, <1>5 DEF HistoryInv

LEMMA EditRangeHolds ==
    ASSUME HistoryInv, EditRange
    PROVE  HistoryInv'
<1>1. Fits(history, failures, time) /\ history \in HistoryPage
    BY DEF HistoryInv, Fits, PageInv
<1>2. Edited(history', history)
    BY <1>1 DEF EditRange, Edited, HistoryPage
<1>3. Fits(history', failures, time)
    BY <1>1, <1>2, EditHolds
<1>4. gestures' \in 0 .. MaxGestures /\ time' = time /\ failures' = failures
    BY HistoryNumbers DEF HistoryInv, EditRange, Gesture
<1> QED BY <1>3, <1>4 DEF HistoryInv

\* A page is edited, and refreshed.
LEMMA EditedStartHolds ==
    ASSUME HistoryInv, NEW g, Edited(g, history)
    PROVE  \A p : p = Started(g) => Fits(p, failures, time)
<1>1. Fits(history, failures, time) /\ time \in Length .. MaxTime /\ failures \in 0 .. MaxFailures
    BY DEF HistoryInv
<1>2. Fits(g, failures, time)
    BY <1>1, EditHolds
<1> QED BY <1>1, <1>2, StartHolds

LEMMA ShowRowsHolds ==
    ASSUME HistoryInv, ShowRows
    PROVE  HistoryInv'
<1>1. Fits(history, failures, time) /\ history \in HistoryPage
    BY DEF HistoryInv, Fits, PageInv
<1>2. ASSUME NEW rows \in SUBSET Rows
      PROVE  Edited([history EXCEPT !.wanted = rows], history)
    BY <1>1 DEF Edited, HistoryPage
<1>3. Fits(history', failures, time)
    <2>1. ASSUME NEW rows \in SUBSET Rows, history' = Started([history EXCEPT !.wanted = rows])
          PROVE  Fits(history', failures, time)
        <3> DEFINE g == [history EXCEPT !.wanted = rows]
        <3>1. Edited(g, history) /\ history' = Started(g)
            BY <1>2, <2>1
        <3> HIDE DEF g
        <3> QED BY <3>1, EditedStartHolds
    <2>2. ASSUME history' = [history EXCEPT !.wanted = {}]
          PROVE  Fits(history', failures, time)
        <3>1. Edited(history', history)
            BY <1>2, <2>2
        <3> QED BY <1>1, <3>1, EditHolds
    <2> QED BY <2>1, <2>2 DEF ShowRows
<1>4. gestures' \in 0 .. MaxGestures /\ time' = time /\ failures' = failures
    BY HistoryNumbers DEF HistoryInv, ShowRows, Gesture
<1> QED BY <1>3, <1>4 DEF HistoryInv

LEMMA ResizePageHolds ==
    ASSUME HistoryInv, ResizePage
    PROVE  HistoryInv'
<1> DEFINE rows == [r \in Rows |-> [history.rows[r] EXCEPT !.loaded = Never]]
           g == [history EXCEPT !.rows = rows, !.done = {}]
<1>1. history \in HistoryPage
    BY DEF HistoryInv, Fits, PageInv
<1>2. /\ rows \in [Rows -> RowData]
      /\ \A r \in Rows : /\ rows[r].range = history.rows[r].range
                         /\ rows[r].canvas = history.rows[r].canvas
                         /\ rows[r].loaded = Never
    BY <1>1 DEF HistoryPage, RowData
<1>3. history' = Started(g)
    BY DEF ResizePage
<1> HIDE DEF rows
<1>4. Edited(g, history)
    BY <1>1, <1>2 DEF Edited, HistoryPage
<1> HIDE DEF g
<1>5. Fits(history', failures, time)
    BY <1>3, <1>4, EditedStartHolds
<1>6. gestures' \in 0 .. MaxGestures /\ time' = time /\ failures' = failures
    BY HistoryNumbers DEF HistoryInv, ResizePage, Gesture
<1> QED BY <1>5, <1>6 DEF HistoryInv

\* The refresh that held busy ends, with nothing of it left.
LEMMA LatestEndsHolds ==
    ASSUME HistoryInv, LatestEnds
    PROVE  HistoryInv'
<1>1. PICK h, p : h = history /\ p = history'
    OBVIOUS
<1>2. /\ h \in HistoryPage /\ IsFiniteSet(h.loads) /\ LoadsAreInside(h) /\ RunIsAtWork(h)
      /\ ~h.spoiled => RowsAreRight(h)
      /\ Cardinality(Strays(h)) <= failures
      /\ h.rolling => h.from <= time - Length
    BY <1>1 DEF HistoryInv, Fits, PageInv
<1>3. h.latest /\ p = [h EXCEPT !.latest = FALSE, !.run = 0, !.done = {}]
    BY <1>1 DEF LatestEnds
<1>4. /\ p \in HistoryPage /\ p.from = h.from /\ p.rolling = h.rolling /\ p.rows = h.rows
      /\ p.loads = h.loads /\ p.run = 0 /\ ~p.latest /\ p.done = {} /\ p.spoiled = h.spoiled
    BY <1>2, <1>3 DEF HistoryPage
<1>5. Under(h, h.run) = {}
    BY <1>2, <1>3 DEF RunIsAtWork
<1>6. 0 \notin RunIds /\ failures \in Nat /\ failures' \in 0 .. MaxFailures
      /\ failures' \in Nat /\ failures <= failures' /\ time \in Nat
    BY HistoryNumbers DEF HistoryInv, LatestEnds
<1>7. Strays(p) = Strays(h)
    BY <1>4, <1>5, <1>6 DEF Strays, Under
<1>8. PageInv(p)
    <2>1. LoadsAreInside(p) /\ RunIsAtWork(p)
        BY <1>2, <1>4 DEF LoadsAreInside, RunIsAtWork
    <2>2. ASSUME ~p.spoiled
          PROVE  RowsAreRight(p)
        <3>1. RowsAreRight(h)
            BY <1>2, <1>4, <2>2
        <3>2. h.loads = {}
            BY <1>5, <3>1 DEF RowsAreRight, Under
        <3> QED BY <1>4, <3>1, <3>2 DEF RowsAreRight
    <2> QED BY <1>2, <1>4, <2>1, <2>2 DEF PageInv
<1>9. Fits(p, failures, time)
    BY <1>2, <1>4, <1>7, <1>8 DEF Fits
<1>10. time <= time
    BY <1>6
<1>11. \A more \in Nat : failures <= more => Fits(p, more, time)
    BY <1>6, <1>9, <1>10, TimeGoesOn
<1>12. Fits(p, failures', time)
    BY <1>6, <1>11
<1> QED BY <1>1, <1>6, <1>12 DEF HistoryInv, LatestEnds

\* The refresh that held busy fails, and leaves the rest of its requests behind;
\* or one of these fails.
LEMMA DataFailsHolds ==
    ASSUME HistoryInv, NEW l \in history.loads, DataFails(l)
    PROVE  HistoryInv'
<1>1. PICK h, p : h = history /\ p = history'
    OBVIOUS
<1>2. /\ h \in HistoryPage /\ IsFiniteSet(h.loads) /\ LoadsAreInside(h) /\ RunIsAtWork(h)
      /\ ~h.spoiled => RowsAreRight(h)
      /\ Cardinality(Strays(h)) <= failures
      /\ h.rolling => h.from <= time - Length
    BY <1>1 DEF HistoryInv, Fits, PageInv
<1>3. /\ 0 \notin RunIds /\ failures \in Nat /\ failures + 1 \in 0 .. MaxFailures
      /\ failures' = failures + 1
      /\ time' = time /\ gestures' = gestures
    BY HistoryNumbers DEF HistoryInv, DataFails
<1>4. l \in h.loads /\ l \in Loading /\ l.run \in RunIds
    BY <1>1, <1>2 DEF HistoryPage, Loading
<1> DEFINE others == h.loads \ {l}
<1>5. IsFiniteSet(others) /\ others \in SUBSET Loading
    BY <1>2, FS_Subset DEF HistoryPage
<1>6. \A k \in others : k.range <= k.cursor /\ k.cursor < k.range + Length
    BY <1>2 DEF LoadsAreInside
<1>7. CASE l.run # h.run
    <2>1. p = [h EXCEPT !.loads = others]
        BY <1>1, <1>7 DEF DataFails
    <2>2. /\ p \in HistoryPage /\ p.from = h.from /\ p.rolling = h.rolling /\ p.rows = h.rows
          /\ p.loads = others /\ p.run = h.run /\ p.latest = h.latest /\ p.done = h.done
          /\ p.queue = h.queue /\ p.spoiled = h.spoiled
        BY <1>2, <1>5, <2>1 DEF HistoryPage
    <2>3. h.spoiled
        BY <1>2, <1>4, <1>7 DEF RowsAreRight
    <2>4. Under(p, h.run) = Under(h, h.run)
        BY <1>7, <2>2 DEF Under
    <2>5. RunIsAtWork(p)
        BY <1>2, <2>2, <2>4 DEF RunIsAtWork
    <2>6. PageInv(p)
        BY <1>5, <1>6, <2>2, <2>3, <2>5 DEF PageInv, LoadsAreInside
    <2>7. Strays(p) \subseteq Strays(h)
        BY <2>2 DEF Strays, Under
    <2>8. Cardinality(Strays(p)) <= failures
        BY <1>2, <1>3, <2>7, FewerStrays
    <2>9. Cardinality(Strays(p)) <= failures + 1
        <3>1. Cardinality(Strays(p)) \in Nat
            BY StraysAreFinite
        <3> QED BY <1>3, <2>8, <3>1
    <2>10. Fits(p, failures', time)
        BY <1>2, <1>3, <2>2, <2>6, <2>9 DEF Fits
    <2> QED BY <1>1, <1>3, <2>10 DEF HistoryInv
<1>8. CASE l.run = h.run
    <2> DEFINE spoiled == h.spoiled \/ \E o \in others : o.run = l.run
    <2>1. p = [h EXCEPT !.loads = others, !.run = 0, !.done = {}, !.spoiled = spoiled]
        BY <1>1, <1>2, <1>8 DEF DataFails, HistoryPage
    <2>2. spoiled \in BOOLEAN
        BY <1>2 DEF HistoryPage
    <2> HIDE DEF spoiled
    <2>3. /\ p \in HistoryPage /\ p.from = h.from /\ p.rolling = h.rolling /\ p.rows = h.rows
          /\ p.loads = others /\ p.run = 0 /\ p.latest = h.latest /\ p.done = {}
          /\ p.spoiled = spoiled
        BY <1>2, <1>5, <2>1, <2>2 DEF HistoryPage
    <2>4. ~h.latest
        <3>1. l \in Under(h, h.run) /\ h.run # 0
            BY <1>3, <1>4, <1>8 DEF Under
        <3> QED BY <1>2, <3>1 DEF RunIsAtWork
    <2>5. RunIsAtWork(p)
        BY <2>3, <2>4 DEF RunIsAtWork
    <2>6. ASSUME ~p.spoiled
          PROVE  RowsAreRight(p)
        <3>1. RowsAreRight(h) /\ \A o \in others : o.run # l.run
            BY <1>2, <2>3, <2>6 DEF spoiled
        <3>2. others = {}
            BY <1>8, <3>1 DEF RowsAreRight
        <3> QED BY <2>3, <3>1, <3>2 DEF RowsAreRight
    <2>7. PageInv(p)
        BY <1>5, <1>6, <2>3, <2>5, <2>6 DEF PageInv, LoadsAreInside
    <2>8. Cardinality(Strays(p)) <= failures + 1
        <3> DEFINE more == Strays(h) \cup {h.run}
        <3>1. Strays(p) \in SUBSET more
            BY <2>3 DEF Strays, Under
        <3>2. h.run \notin Strays(h)
            BY DEF Strays
        <3>3. IsFiniteSet(Strays(h)) /\ Cardinality(Strays(h)) \in Nat
            BY StraysAreFinite
        <3>4. IsFiniteSet(more) /\ Cardinality(more) = Cardinality(Strays(h)) + 1
            BY <3>2, <3>3, FS_AddElement
        <3>5. Cardinality(Strays(p)) \in Nat /\ Cardinality(Strays(p)) <= Cardinality(more)
            BY <3>1, <3>4, FS_Subset, FS_CardinalityType
        <3> QED BY <1>2, <1>3, <3>3, <3>4, <3>5
    <2>9. Fits(p, failures', time)
        BY <1>2, <1>3, <2>3, <2>7, <2>8 DEF Fits
    <2> QED BY <1>1, <1>3, <2>9 DEF HistoryInv
<1> QED BY <1>7, <1>8

\* The row that a slice was drawn on.
LEMMA DrawnIs ==
    ASSUME NEW canvas \in [Points -> Int], NEW range \in Nat, NEW start \in Nat, NEW end \in Nat
    PROVE  /\ Drawn(canvas, range, start, end) \in [Points -> Int]
           /\ \A i \in Points :
                  Drawn(canvas, range, start, end)[i] =
                      IF start <= range + i /\ range + i < end THEN range + i ELSE canvas[i]
<1>1. \A i \in Points : range + i \in Nat
    BY HistoryNumbers
<1>2. \A i \in Points : range + i \in start .. end - 1 <=> start <= range + i /\ range + i < end
    BY <1>1
<1> QED BY <1>1, <1>2 DEF Drawn

\* A slice ends after the place it begins at, and not after the range.
LEMMA SliceIs ==
    ASSUME time \in Nat, NEW l \in Loading, l.cursor < l.range + Length,
           NEW end, end = IF l.cursor > time THEN l.range + Length
                          ELSE Earlier(l.cursor + Slice, l.range + Length)
    PROVE  end \in Nat /\ l.cursor < end /\ end <= l.range + Length
BY HistoryNumbers DEF Loading, Earlier

\* The page p after a slice up to "end" was drawn for the request l, which is
\* followed by the requests "more".
Arrived(p, h, l, end, loaded, more) ==
    /\ p \in HistoryPage
    /\ p.from = h.from /\ p.rolling = h.rolling /\ p.run = h.run /\ p.queue = h.queue
    /\ p.latest = h.latest /\ p.done = h.done /\ p.spoiled = h.spoiled
    /\ p.loads = (h.loads \ {l}) \cup more
    /\ \A r \in Rows \ {l.row} : p.rows[r] = h.rows[r]
    /\ p.rows[l.row].range = h.rows[l.row].range
    /\ p.rows[l.row].loaded = loaded
    /\ p.rows[l.row].canvas = Drawn(h.rows[l.row].canvas, l.range, l.cursor, end)

\* A slice is drawn between what lies before it and the rest of the range, for
\* which there is a request, or which is empty.
LEMMA DrawnShows ==
    ASSUME NEW h, PageInv(h), ~h.spoiled, NEW l \in h.loads, NEW end \in Nat, l.cursor < end,
           end <= l.range + Length, NEW loaded \in Nat \cup {Never},
           loaded = h.rows[l.row].loaded \/ (end = l.range + Length /\ loaded <= end),
           NEW more, NEW p, Arrived(p, h, l, end, loaded, more)
    PROVE  /\ \A r \in Rows : Shows(p.rows[r]) /\ p.rows[r].range = h.rows[r].range
           /\ p.rows[l.row].range = h.from /\ l.range = h.from /\ l.run = h.run
           /\ \A i \in Points : l.range + i < end => p.rows[l.row].canvas[i] = l.range + i
<1>1. h \in HistoryPage /\ LoadsAreInside(h) /\ RowsAreRight(h)
    BY DEF PageInv
<1>2. /\ l.run = h.run /\ l.range = h.from /\ l.row \in Rows /\ h.rows[l.row].range = h.from
      /\ \A i \in Points : l.range + i < l.cursor => h.rows[l.row].canvas[i] = l.range + i
      /\ l.range \in Nat /\ l.cursor \in Nat
      /\ h.rows[l.row].canvas \in [Points -> Int]
      /\ h.rows[l.row].loaded \in Nat \cup {Never}
    BY <1>1 DEF RowsAreRight, HistoryPage, Loading, RowData
<1>3. Shows(h.rows[l.row]) /\ \A r \in Rows : Shows(h.rows[r])
    BY <1>1, <1>2 DEF RowsAreRight
<1>4. /\ \A r \in Rows \ {l.row} : p.rows[r] = h.rows[r]
      /\ p.rows[l.row].range = l.range /\ p.rows[l.row].loaded = loaded
      /\ p.rows[l.row].canvas = Drawn(h.rows[l.row].canvas, l.range, l.cursor, end)
    BY <1>2 DEF Arrived
<1>5. l.range # Never
    BY <1>2, HistoryNumbers
<1>6. /\ h.rows[l.row].loaded <= l.range + Length
      /\ \A i \in Points :
             /\ h.rows[l.row].canvas[i] \in {BlankPoint, l.range + i}
             /\ l.range + i < h.rows[l.row].loaded => h.rows[l.row].canvas[i] = l.range + i
    BY <1>2, <1>3, <1>5 DEF Shows
<1>7. \A i \in Points :
          p.rows[l.row].canvas[i] = IF l.cursor <= l.range + i /\ l.range + i < end
                                    THEN l.range + i ELSE h.rows[l.row].canvas[i]
    BY <1>2, <1>4, DrawnIs
<1>8. ASSUME NEW i \in Points
      PROVE  /\ l.range + i \in Nat
             /\ l.range + i < end => p.rows[l.row].canvas[i] = l.range + i
             /\ p.rows[l.row].canvas[i] \in {BlankPoint, l.range + i}
             /\ l.range + i < loaded => p.rows[l.row].canvas[i] = l.range + i
    <2>1. l.range + i \in Nat
        BY <1>2, HistoryNumbers
    <2>2. l.cursor <= l.range + i \/ l.range + i < l.cursor
        BY <1>2, <2>1
    <2>3. l.range + i < end => p.rows[l.row].canvas[i] = l.range + i
        BY <1>2, <1>7, <2>2
    <2>4. p.rows[l.row].canvas[i] \in {BlankPoint, l.range + i}
        BY <1>6, <1>7
    <2>5. CASE loaded = h.rows[l.row].loaded
        BY <1>6, <1>7, <2>1, <2>3, <2>4, <2>5
    <2>6. CASE end = l.range + Length /\ loaded <= end
        <3>1. l.range + i < loaded => l.range + i < end
            BY <2>1, <2>6, HistoryNumbers
        <3> QED BY <2>1, <2>3, <2>4, <3>1
    <2> QED BY <2>5, <2>6
<1>9. loaded <= l.range + Length
    BY <1>6
<1>10. Shows(p.rows[l.row])
    BY <1>4, <1>5, <1>8, <1>9 DEF Shows
<1> QED BY <1>2, <1>3, <1>4, <1>8, <1>10

\* The next slice is asked for.
LEMMA SliceHolds ==
    ASSUME NEW h, PageInv(h), NEW l \in h.loads, NEW end \in Nat, l.cursor < end,
           end < l.range + Length,
           NEW next, next = [l EXCEPT !.cursor = end],
           NEW p, Arrived(p, h, l, end, h.rows[l.row].loaded, {next})
    PROVE  PageInv(p) /\ Strays(p) = Strays(h)
<1>1. /\ h \in HistoryPage /\ IsFiniteSet(h.loads) /\ LoadsAreInside(h) /\ RunIsAtWork(h)
      /\ ~h.spoiled => RowsAreRight(h)
    BY DEF PageInv
<1>2. l \in Loading
    BY <1>1 DEF HistoryPage
<1>3. /\ next.run = l.run /\ next.row = l.row /\ next.range = l.range /\ next.cursor = end
      /\ l.row \in Rows /\ l.run \in RunIds /\ l.range \in Nat /\ l.cursor \in Nat /\ next # l
    BY <1>2 DEF Loading
<1>4. /\ p \in HistoryPage
      /\ p.from = h.from /\ p.rolling = h.rolling /\ p.run = h.run /\ p.queue = h.queue
      /\ p.latest = h.latest /\ p.done = h.done /\ p.spoiled = h.spoiled
      /\ p.loads = (h.loads \ {l}) \cup {next}
      /\ \A r \in Rows \ {l.row} : p.rows[r] = h.rows[r]
      /\ p.rows[l.row].loaded = h.rows[l.row].loaded
    BY DEF Arrived
<1>5. /\ \A n : n # l.run => Under(p, n) = Under(h, n)
      /\ Under(p, l.run) = (Under(h, l.run) \ {l}) \cup {next}
      /\ l \in Under(h, l.run)
    BY <1>3, <1>4 DEF Under
<1>6. Strays(p) = Strays(h)
    <2>1. \A n \in RunIds : Under(p, n) # {} <=> Under(h, n) # {}
        BY <1>5
    <2> QED BY <1>4, <2>1 DEF Strays
<1>7. IsFiniteSet(p.loads)
    <2>1. IsFiniteSet(h.loads \ {l})
        BY <1>1, FS_Subset
    <2>2. IsFiniteSet((h.loads \ {l}) \cup {next})
        BY <2>1, FS_AddElement
    <2> QED BY <1>4, <2>2
<1>8. LoadsAreInside(p)
    <2>1. next.range <= next.cursor /\ next.cursor < next.range + Length
        <3>1. l.range <= l.cursor
            BY <1>1 DEF LoadsAreInside
        <3> QED BY <1>3, <3>1
    <2> QED BY <1>1, <1>4, <2>1 DEF LoadsAreInside
<1>9. RunIsAtWork(p)
    <2>1. CASE l.run # h.run
        BY <1>1, <1>4, <1>5, <2>1 DEF RunIsAtWork
    <2>2. CASE l.run = h.run
        <3>1. h.run # 0
            BY <1>3, <2>2, HistoryNumbers
        <3>2. /\ ~h.latest
              /\ h.queue[h.run] # {} => Cardinality(Under(h, h.run)) = Workers
              /\ \A m \in Under(h, h.run) :
                     /\ m.row \notin h.queue[h.run]
                     /\ \A k \in Under(h, h.run) : k.row = m.row => k = m
            BY <1>1, <1>5, <2>2, <3>1 DEF RunIsAtWork
        <3>3. Under(p, h.run) = (Under(h, h.run) \ {l}) \cup {next} /\ l \in Under(h, h.run)
            BY <1>5, <2>2
        <3>4. \A k \in Under(h, h.run) \ {l} : k.row # next.row
            BY <1>3, <3>2, <3>3
        <3>5. Cardinality(Under(p, h.run)) = Cardinality(Under(h, h.run))
            <4>1. IsFiniteSet(Under(h, h.run))
                BY <1>1, FS_Subset DEF Under
            <4>2. /\ IsFiniteSet(Under(h, h.run) \ {l})
                  /\ Cardinality(Under(h, h.run) \ {l}) = Cardinality(Under(h, h.run)) - 1
                BY <3>3, <4>1, FS_RemoveElement
            <4>3. next \notin Under(h, h.run) \ {l}
                BY <3>4
            <4>4. Cardinality((Under(h, h.run) \ {l}) \cup {next}) =
                      Cardinality(Under(h, h.run) \ {l}) + 1
                BY <4>2, <4>3, FS_AddElement
            <4>5. Cardinality(Under(h, h.run)) \in Nat
                BY <4>1, FS_CardinalityType
            <4> QED BY <3>3, <4>2, <4>4, <4>5
        <3>6. \A m \in Under(p, h.run) :
                  /\ m.row \notin h.queue[h.run]
                  /\ \A k \in Under(p, h.run) : k.row = m.row => k = m
            BY <1>3, <3>2, <3>3, <3>4
        <3>7. Under(p, h.run) # {}
            BY <3>3
        <3> QED BY <1>4, <3>1, <3>2, <3>5, <3>6, <3>7 DEF RunIsAtWork
    <2> QED BY <2>1, <2>2
<1>10. ASSUME ~p.spoiled
       PROVE  RowsAreRight(p)
    <2>1. RowsAreRight(h)
        BY <1>1, <1>4, <1>10
    <2>2. /\ \A r \in Rows : Shows(p.rows[r]) /\ p.rows[r].range = h.rows[r].range
          /\ p.rows[l.row].range = h.from /\ l.range = h.from /\ l.run = h.run
          /\ \A i \in Points : l.range + i < end => p.rows[l.row].canvas[i] = l.range + i
        <3>1. end <= l.range + Length
            BY <1>3, HistoryNumbers
        <3>2. h.rows[l.row].loaded \in Nat \cup {Never}
            BY <1>1, <1>3 DEF HistoryPage, RowData
        <3> QED BY <1>4, <1>10, <3>1, <3>2, DrawnShows
    <2>3. \A r \in Rows : Shows(p.rows[r]) /\ p.rows[r].range <= p.from
        BY <1>4, <2>1, <2>2 DEF RowsAreRight
    <2>4. ASSUME NEW k \in p.loads
          PROVE  /\ k.run = p.run /\ k.range = p.from
                 /\ p.rows[k.row].range = p.from
                 /\ \A i \in Points : k.range + i < k.cursor => p.rows[k.row].canvas[i] = k.range + i
        <3>1. CASE k = next
            BY <1>3, <1>4, <2>2, <3>1
        <3>2. CASE k # next
            <4>1. k \in h.loads /\ k # l
                BY <1>4, <3>2
            <4>2. /\ k.run = h.run /\ k.range = h.from /\ h.rows[k.row].range = h.from
                  /\ \A i \in Points : k.range + i < k.cursor => h.rows[k.row].canvas[i] = k.range + i
                BY <2>1, <4>1 DEF RowsAreRight
            <4>3. k \in Under(h, h.run) /\ l \in Under(h, h.run) /\ h.run # 0
                BY <1>3, <2>2, <4>1, <4>2, HistoryNumbers DEF Under
            <4>4. k.row # l.row
                BY <1>1, <4>1, <4>3 DEF RunIsAtWork
            <4>5. k.row \in Rows \ {l.row}
                BY <1>1, <4>1, <4>4 DEF HistoryPage, Loading
            <4> QED BY <1>4, <4>2, <4>5
        <3> QED BY <3>1, <3>2
    <2>5. ASSUME NEW r \in p.done
          PROVE  /\ p.rows[r].range = p.from
                 /\ p.rows[r].loaded = Never => \E k \in p.loads : k.row = r
        <3>1. r \in Rows /\ r \in h.done
            BY <1>1, <1>4 DEF HistoryPage
        <3>2. /\ h.rows[r].range = h.from
              /\ h.rows[r].loaded = Never => \E k \in h.loads : k.row = r
            BY <2>1, <3>1 DEF RowsAreRight
        <3>3. p.rows[r].range = p.from /\ p.rows[r].loaded = h.rows[r].loaded
            BY <1>4, <2>2, <3>1, <3>2
        <3>4. \A k \in h.loads : \E m \in p.loads : m.row = k.row
            BY <1>3, <1>4
        <3> QED BY <3>2, <3>3, <3>4
    <2> QED BY <2>3, <2>4, <2>5 DEF RowsAreRight
<1> QED BY <1>4, <1>6, <1>7, <1>8, <1>9, <1>10 DEF PageInv

\* A row of the run that holds busy is done, and its worker may take another.
LEMMA RowDoneMayTake ==
    ASSUME NEW h, PageInv(h), NEW l \in h.loads, l.run = h.run,
           NEW loaded \in Nat, loaded <= l.range + Length,
           NEW g, Arrived(g, h, l, l.range + Length, loaded, {})
    PROVE  MayTake(g, l.range, 1, g.queue[g.run])
<1>1. /\ h \in HistoryPage /\ IsFiniteSet(h.loads) /\ LoadsAreInside(h) /\ RunIsAtWork(h)
      /\ ~h.spoiled => RowsAreRight(h)
    BY DEF PageInv
<1>2. l \in Loading
    BY <1>1 DEF HistoryPage
<1>3. l.row \in Rows /\ h.run \in RunIds /\ l.range \in Nat /\ l.cursor \in Nat /\ h.run # 0
    BY <1>2, HistoryNumbers DEF Loading
<1>4. /\ g \in HistoryPage
      /\ g.from = h.from /\ g.rolling = h.rolling /\ g.run = h.run /\ g.queue = h.queue
      /\ g.latest = h.latest /\ g.done = h.done /\ g.spoiled = h.spoiled
      /\ g.loads = h.loads \ {l}
      /\ \A r \in Rows \ {l.row} : g.rows[r] = h.rows[r]
      /\ g.rows[l.row].loaded = loaded
    BY DEF Arrived
<1>5. Under(g, h.run) = Under(h, h.run) \ {l} /\ l \in Under(h, h.run)
    BY <1>4 DEF Under
<1>6. /\ ~h.latest
      /\ h.queue[h.run] # {} => Cardinality(Under(h, h.run)) = Workers
      /\ \A m \in Under(h, h.run) :
             /\ m.row \notin h.queue[h.run]
             /\ \A k \in Under(h, h.run) : k.row = m.row => k = m
    BY <1>1, <1>3, <1>5 DEF RunIsAtWork
<1>7. IsFiniteSet(g.loads) /\ LoadsAreInside(g)
    <2>1. IsFiniteSet(h.loads \ {l})
        BY <1>1, FS_Subset
    <2> QED BY <1>1, <1>4, <2>1 DEF LoadsAreInside
<1>8. g.queue[g.run] # {} => Cardinality(Under(g, g.run)) + 1 = Workers
    <2>1. IsFiniteSet(Under(h, h.run))
        BY <1>1, FS_Subset DEF Under
    <2>2. Cardinality(Under(h, h.run) \ {l}) = Cardinality(Under(h, h.run)) - 1
        BY <1>5, <2>1, FS_RemoveElement
    <2>3. g.queue[g.run] # {} => Cardinality(Under(g, g.run)) = Workers - 1
        BY <1>4, <1>5, <1>6, <2>2
    <2> QED BY <2>3, HistoryNumbers
<1>9. \A m \in Under(g, g.run) :
          m.row \notin g.queue[g.run] /\ \A k \in Under(g, g.run) : k.row = m.row => k = m
    BY <1>4, <1>5, <1>6
<1>10. ASSUME ~g.spoiled
       PROVE  RowsAreRight(g) /\ l.range = g.from
    <2>1. RowsAreRight(h) /\ ~h.spoiled
        BY <1>1, <1>4, <1>10
    <2>2. /\ \A r \in Rows : Shows(g.rows[r]) /\ g.rows[r].range = h.rows[r].range
          /\ g.rows[l.row].range = h.from /\ l.range = h.from
        <3>1. l.range + Length \in Nat /\ l.cursor < l.range + Length
              /\ l.range + Length <= l.range + Length
            BY <1>1, <1>3, HistoryNumbers DEF LoadsAreInside
        <3>2. PageInv(h) /\ loaded \in Nat \cup {Never}
            OBVIOUS
        <3> QED BY <2>1, <3>1, <3>2, DrawnShows
    <2>3. \A r \in Rows : Shows(g.rows[r]) /\ g.rows[r].range <= g.from
        BY <1>4, <2>1, <2>2 DEF RowsAreRight
    <2>4. ASSUME NEW k \in g.loads
          PROVE  /\ k.run = g.run /\ k.range = g.from
                 /\ g.rows[k.row].range = g.from
                 /\ \A i \in Points : k.range + i < k.cursor => g.rows[k.row].canvas[i] = k.range + i
        <3>1. k \in h.loads /\ k # l
            BY <1>4
        <3>2. /\ k.run = h.run /\ k.range = h.from /\ h.rows[k.row].range = h.from
              /\ \A i \in Points : k.range + i < k.cursor => h.rows[k.row].canvas[i] = k.range + i
            BY <2>1, <3>1 DEF RowsAreRight
        <3>3. k \in Under(h, h.run)
            BY <3>1, <3>2 DEF Under
        <3>4. k.row # l.row
            BY <1>5, <1>6, <3>1, <3>3
        <3>5. k.row \in Rows \ {l.row}
            BY <1>1, <3>1, <3>4 DEF HistoryPage, Loading
        <3> QED BY <1>4, <3>2, <3>5
    <2>5. ASSUME NEW r \in g.done
          PROVE  /\ g.rows[r].range = g.from
                 /\ g.rows[r].loaded = Never => \E k \in g.loads : k.row = r
        <3>1. r \in Rows /\ r \in h.done
            BY <1>1, <1>4 DEF HistoryPage
        <3>2. /\ h.rows[r].range = h.from
              /\ h.rows[r].loaded = Never => \E k \in h.loads : k.row = r
            BY <2>1, <3>1 DEF RowsAreRight
        <3>3. g.rows[r].range = g.from
            BY <1>4, <2>2, <3>1, <3>2
        <3>4. CASE r = l.row
            <4>1. g.rows[r].loaded # Never
                BY <1>4, <3>4, HistoryNumbers
            <4> QED BY <3>3, <4>1
        <3>5. CASE r # l.row
            <4>1. g.rows[r] = h.rows[r]
                BY <1>4, <3>1, <3>5
            <4>2. \A k \in h.loads : k.row = r => k \in g.loads
                BY <1>4, <3>5
            <4> QED BY <3>2, <3>3, <4>1, <4>2
        <3> QED BY <3>4, <3>5
    <2> QED BY <1>4, <2>2, <2>3, <2>4, <2>5 DEF RowsAreRight
<1>11. g.queue[g.run] \in SUBSET Rows
    BY <1>3, <1>4 DEF HistoryPage
<1> QED BY <1>3, <1>4, <1>6, <1>7, <1>8, <1>9, <1>10, <1>11 DEF MayTake

\* A row of a refresh that failed is done.
LEMMA StrayRowDone ==
    ASSUME NEW h, PageInv(h), NEW l \in h.loads, l.run # h.run, NEW end, NEW loaded,
           NEW g, Arrived(g, h, l, end, loaded, {})
    PROVE  /\ PageInv(g) /\ g.spoiled
<1>1. /\ h \in HistoryPage /\ IsFiniteSet(h.loads) /\ LoadsAreInside(h) /\ RunIsAtWork(h)
      /\ ~h.spoiled => RowsAreRight(h)
    BY DEF PageInv
<1>2. h.spoiled
    BY <1>1 DEF RowsAreRight
<1>3. /\ g \in HistoryPage /\ g.run = h.run /\ g.queue = h.queue
      /\ g.latest = h.latest /\ g.done = h.done /\ g.spoiled = h.spoiled
      /\ g.loads = h.loads \ {l}
    BY DEF Arrived
<1>4. IsFiniteSet(g.loads) /\ LoadsAreInside(g)
    <2>1. IsFiniteSet(h.loads \ {l})
        BY <1>1, FS_Subset
    <2> QED BY <1>1, <1>3, <2>1 DEF LoadsAreInside
<1>5. Under(g, h.run) = Under(h, h.run)
    BY <1>3 DEF Under
<1>6. RunIsAtWork(g)
    BY <1>1, <1>3, <1>5 DEF RunIsAtWork
<1> QED BY <1>2, <1>3, <1>4, <1>6 DEF PageInv

LEMMA DataArrivesHolds ==
    ASSUME HistoryInv, NEW l \in history.loads, DataArrives(l)
    PROVE  HistoryInv'
<1>1. PICK h, p : h = history /\ p = history'
    OBVIOUS
<1>2. /\ Fits(h, failures, time) /\ PageInv(h) /\ h \in HistoryPage /\ LoadsAreInside(h)
      /\ Cardinality(Strays(h)) <= failures
      /\ h.rolling => h.from <= time - Length
    BY <1>1 DEF HistoryInv, Fits, PageInv
<1>3. /\ time \in Nat /\ failures \in Nat
      /\ time' = time /\ failures' = failures /\ gestures' = gestures
    BY HistoryNumbers DEF HistoryInv, DataArrives
<1>4. l \in h.loads /\ l \in Loading
    BY <1>1, <1>2 DEF HistoryPage
<1>5. l.row \in Rows /\ l.run \in RunIds /\ l.range \in Nat /\ l.cursor \in Nat
    BY <1>4 DEF Loading
<1> DEFINE until == l.range + Length
           end == IF l.cursor > time THEN until ELSE Earlier(l.cursor + Slice, until)
           others == h.loads \ {l}
           next == [l EXCEPT !.cursor = end]
           drawn == Drawn(h.rows[l.row].canvas, l.range, l.cursor, end)
           rest == [h EXCEPT !.loads = others, !.rows[l.row].canvas = drawn]
           loaded == Earlier(until, time)
           g == [rest EXCEPT !.rows[l.row].loaded = loaded]
<1>6. end \in Nat /\ l.cursor < end /\ end <= until /\ until \in Nat
    <2>1. l.cursor < l.range + Length
        BY <1>2, <1>4 DEF LoadsAreInside
    <2>2. l.range + Length \in Nat
        BY <1>5, HistoryNumbers
    <2> QED BY <1>3, <1>4, <2>1, <2>2, SliceIs
<1>7. \/ end < until /\ p = [rest EXCEPT !.loads = others \cup {next}]
      \/ ~(end < until) /\ p = Take(g, l.run, l.range, 1, rest.queue[l.run])
    BY <1>1, <1>2 DEF DataArrives, HistoryPage
<1>8. loaded \in Nat /\ loaded <= until
    BY <1>3, <1>6 DEF Earlier
<1>9. /\ rest \in HistoryPage
      /\ rest.from = h.from /\ rest.rolling = h.rolling /\ rest.run = h.run
      /\ rest.queue = h.queue /\ rest.latest = h.latest /\ rest.done = h.done
      /\ rest.spoiled = h.spoiled /\ rest.loads = others
      /\ \A r \in Rows \ {l.row} : rest.rows[r] = h.rows[r]
      /\ rest.rows[l.row].range = h.rows[l.row].range
      /\ rest.rows[l.row].loaded = h.rows[l.row].loaded
      /\ rest.rows[l.row].canvas = drawn
    <2> DEFINE row == [h.rows[l.row] EXCEPT !.canvas = drawn]
               rows == [h.rows EXCEPT ![l.row] = row]
    <2>1. h.rows \in [Rows -> RowData] /\ h.rows[l.row] \in RowData
        BY <1>2, <1>5 DEF HistoryPage
    <2>2. drawn \in [Points -> Int]
        BY <1>5, <1>6, <2>1, DrawnIs DEF RowData
    <2>3. rest = [h EXCEPT !.loads = others, !.rows = rows]
        BY <1>2 DEF HistoryPage
    <2> HIDE DEF drawn
    <2>4. /\ row \in RowData /\ row.range = h.rows[l.row].range
          /\ row.loaded = h.rows[l.row].loaded /\ row.canvas = drawn
        BY <2>1, <2>2 DEF RowData
    <2> HIDE DEF row
    <2>5. /\ rows \in [Rows -> RowData] /\ rows[l.row] = row
          /\ \A r \in Rows \ {l.row} : rows[r] = h.rows[r]
        BY <1>5, <2>1, <2>4
    <2>6. others \in SUBSET Loading
        BY <1>2 DEF HistoryPage
    <2> HIDE DEF rows, others, rest
    <2> QED BY <1>2, <2>3, <2>4, <2>5, <2>6 DEF HistoryPage
<1> HIDE DEF rest
<1>10. CASE end < until
    <2>1. next \in Loading
        BY <1>4, <1>6 DEF Loading
    <2>2. p = [rest EXCEPT !.loads = others \cup {next}]
        BY <1>7, <1>10
    <2>3. others \cup {next} \in SUBSET Loading
        BY <1>2, <2>1 DEF HistoryPage
    <2>4. /\ p \in HistoryPage
          /\ p.from = rest.from /\ p.rolling = rest.rolling /\ p.run = rest.run
          /\ p.queue = rest.queue /\ p.latest = rest.latest /\ p.done = rest.done
          /\ p.spoiled = rest.spoiled /\ p.rows = rest.rows /\ p.loads = others \cup {next}
        BY <1>9, <2>2, <2>3 DEF HistoryPage
    <2>5. Arrived(p, h, l, end, h.rows[l.row].loaded, {next})
        BY <1>9, <2>4 DEF Arrived
    <2>6. next = [l EXCEPT !.cursor = end] /\ end < l.range + Length
        BY <1>10
    <2> HIDE DEF next, end
    <2>7. PageInv(p) /\ Strays(p) = Strays(h)
        <3>1. PageInv(h) /\ l \in h.loads /\ end \in Nat /\ l.cursor < end /\ end < l.range + Length
            BY <1>2, <1>4, <1>6, <2>6
        <3>2. next = [l EXCEPT !.cursor = end]
            BY <2>6
        <3> QED BY ONLY <3>1, <3>2, <2>5, SliceHolds
    <2>8. Fits(p, failures, time)
        BY <1>2, <1>9, <2>4, <2>7 DEF Fits
    <2> QED BY <1>1, <1>3, <2>8 DEF HistoryInv
<1>11. CASE ~(end < until)
    <2>1. end = until
        BY <1>6, <1>11
    <2>2. p = Take(g, l.run, l.range, 1, h.queue[l.run])
        BY <1>7, <1>9, <1>11
    <2>3. Arrived(g, h, l, until, loaded, {})
        <3> DEFINE row == [rest.rows[l.row] EXCEPT !.loaded = loaded]
                   rows == [rest.rows EXCEPT ![l.row] = row]
        <3>1. rest.rows \in [Rows -> RowData] /\ rest.rows[l.row] \in RowData
            BY <1>5, <1>9 DEF HistoryPage
        <3>2. g = [rest EXCEPT !.rows = rows]
            BY <1>9 DEF HistoryPage
        <3> HIDE DEF loaded
        <3>3. /\ row \in RowData /\ row.range = rest.rows[l.row].range
              /\ row.loaded = loaded /\ row.canvas = rest.rows[l.row].canvas
            BY <1>8, <3>1 DEF RowData
        <3> HIDE DEF row
        <3>4. /\ rows \in [Rows -> RowData] /\ rows[l.row] = row
              /\ \A r \in Rows \ {l.row} : rows[r] = rest.rows[r]
            BY <1>5, <3>1, <3>3
        <3> HIDE DEF rows, g
        <3>5. /\ g \in HistoryPage
              /\ g.from = rest.from /\ g.rolling = rest.rolling /\ g.run = rest.run
              /\ g.queue = rest.queue /\ g.latest = rest.latest /\ g.done = rest.done
              /\ g.spoiled = rest.spoiled /\ g.rows = rows /\ g.loads = rest.loads
            BY <1>9, <3>2, <3>4 DEF HistoryPage
        <3>6. others = (h.loads \ {l}) \cup {}
            OBVIOUS
        <3>7. drawn = Drawn(h.rows[l.row].canvas, l.range, l.cursor, until)
            BY <2>1
        <3> HIDE DEF drawn, others, until, end
        <3> QED BY <1>9, <3>3, <3>4, <3>5, <3>6, <3>7 DEF Arrived
    <2> HIDE DEF g, loaded, end
    <2>4. /\ g \in HistoryPage /\ g.from = h.from /\ g.rolling = h.rolling /\ g.run = h.run
          /\ g.queue = h.queue /\ g.loads = h.loads \ {l}
        BY <2>3 DEF Arrived
    <2>5. /\ PageInv(p) /\ p.from = h.from /\ p.rolling = h.rolling /\ p.run = h.run
          /\ \A n \in RunIds \ {l.run} : Under(p, n) = Under(g, n)
        <3>1. CASE l.run = h.run
            <4>1. MayTake(g, l.range, 1, g.queue[g.run])
                BY <1>2, <1>4, <1>8, <2>3, <3>1, RowDoneMayTake
            <4>2. p = Take(g, g.run, l.range, 1, g.queue[g.run])
                BY <2>2, <2>4, <3>1
            <4>3. 1 \in Nat \ {0}
                OBVIOUS
            <4>4. /\ PageInv(p) /\ p.from = g.from /\ p.rolling = g.rolling /\ p.run = g.run
                  /\ \A n \in RunIds \ {g.run} : Under(p, n) = Under(g, n)
                BY <1>3, <4>1, <4>2, <4>3, RunTakes
            <4> QED BY <2>4, <3>1, <4>4
        <3>2. CASE l.run # h.run
            <4>1. PageInv(g) /\ g.spoiled
                BY <1>2, <1>4, <2>3, <3>2, StrayRowDone
            <4>2. l.run # g.run /\ h.queue[l.run] \in SUBSET Rows /\ 1 \in Nat \ {0}
                BY <1>2, <1>5, <2>4, <3>2 DEF HistoryPage
            <4>3. /\ PageInv(p) /\ p.from = g.from /\ p.rolling = g.rolling /\ p.run = g.run
                  /\ \A n \in RunIds \ {l.run} : Under(p, n) = Under(g, n)
                BY <1>3, <1>5, <2>2, <4>1, <4>2, StrayTakes
            <4> QED BY <2>4, <4>3
        <3> QED BY <3>1, <3>2
    <2>6. Strays(p) \subseteq Strays(h)
        <3>1. \A n \in RunIds \ {l.run} : Under(p, n) = Under(h, n)
            BY <2>4, <2>5 DEF Under
        <3>2. l \in Under(h, l.run)
            BY <1>4 DEF Under
        <3> QED BY <2>5, <3>1, <3>2 DEF Strays
    <2>7. Cardinality(Strays(p)) <= failures
        BY <1>2, <1>3, <2>6, FewerStrays
    <2>8. Fits(p, failures, time)
        BY <1>2, <2>5, <2>7 DEF Fits
    <2> QED BY <1>1, <1>3, <2>8 DEF HistoryInv
<1> QED BY <1>10, <1>11

LEMMA HistoryInvInit == HistoryInit => HistoryInv
<1> SUFFICES ASSUME HistoryInit PROVE HistoryInv
    OBVIOUS
<1>1. /\ time = Length /\ gestures = 0 /\ failures = 0 /\ history = EmptyHistory
      /\ time \in Length .. MaxTime /\ 0 \in 0 .. MaxGestures /\ 0 \in 0 .. MaxFailures
    BY HistoryNumbers DEF HistoryInit
<1>2. EmptyRow \in RowData /\ EmptyRow.range = Never /\ EmptyRow.loaded = Never
    BY HistoryNumbers DEF EmptyRow, RowData
<1>3. EmptyHistory \in HistoryPage
    BY <1>2 DEF EmptyHistory, HistoryPage
<1>4. /\ EmptyHistory.loads = {} /\ EmptyHistory.run = 0 /\ ~EmptyHistory.latest
      /\ EmptyHistory.done = {} /\ EmptyHistory.from = 0
      /\ \A r \in Rows : EmptyHistory.rows[r] = EmptyRow
    BY DEF EmptyHistory
<1>5. \A r \in Rows : Shows(EmptyHistory.rows[r]) /\ EmptyHistory.rows[r].range <= EmptyHistory.from
    <2>1. Never <= 0
        BY HistoryNumbers
    <2> QED BY <1>2, <1>4, <2>1 DEF Shows
<1>6. EmptyHistory.from <= time - Length
    BY <1>1, <1>4, HistoryNumbers
<1>7. Fits(EmptyHistory, 0, time)
    BY <1>3, <1>4, <1>5, <1>6, IdleHolds
<1> QED BY <1>1, <1>7 DEF HistoryInv

LEMMA HistoryInvStep == HistoryInv /\ [HistoryNext]_historyVars => HistoryInv'
<1> SUFFICES ASSUME HistoryInv, [HistoryNext]_historyVars PROVE HistoryInv'
    OBVIOUS
<1>1. CASE HistoryNext
    <2>1. CASE HistoryTick
        BY <2>1, TickHolds
    <2>2. CASE HistoryTimer
        BY <2>2, TimerHolds
    <2>3. CASE HistoryTabChanges
        BY <2>3, TabChangesHolds
    <2>4. CASE \E l \in history.loads : DataArrives(l) \/ DataFails(l)
        BY <2>4, DataArrivesHolds, DataFailsHolds
    <2>5. CASE LatestEnds
        BY <2>5, LatestEndsHolds
    <2>6. CASE ChooseRange
        BY <2>6, ChooseRangeHolds
    <2>7. CASE EditRange
        BY <2>7, EditRangeHolds
    <2>8. CASE ShowRows
        BY <2>8, ShowRowsHolds
    <2>9. CASE ResizePage
        BY <2>9, ResizePageHolds
    <2> QED BY <1>1, <2>1, <2>2, <2>3, <2>4, <2>5, <2>6, <2>7, <2>8, <2>9 DEF HistoryNext
<1>2. CASE UNCHANGED historyVars
    BY <1>2 DEF historyVars, HistoryInv
<1> QED BY <1>1, <1>2

LEMMA RowsShowIt == HistoryInv => RowsShowTheirRange
BY DEF HistoryInv, Fits, PageInv, RowsAreRight, Shows, RowsShowTheirRange

LEMMA NoRowIsLost == HistoryInv => RefreshLosesNoRow
<1> SUFFICES ASSUME HistoryInv, history.run # 0 PROVE RefreshLosesNoRow
    BY DEF RefreshLosesNoRow
<1>1. /\ history \in HistoryPage /\ RunIsAtWork(history)
      /\ ~history.spoiled => RowsAreRight(history)
    BY DEF HistoryInv, Fits, PageInv
<1>2. Under(history, history.run) = {l \in history.loads : l.run = history.run}
    BY DEF Under
<1>3. /\ history.latest <=> Under(history, history.run) = {}
      /\ history.queue[history.run] # {} => Cardinality(Under(history, history.run)) = Workers
      /\ \A k, l \in Under(history, history.run) : k.row = l.row => k = l
    BY <1>1 DEF RunIsAtWork
<1>4. ASSUME ~history.spoiled, NEW r \in history.done
      PROVE  /\ history.rows[r].range = history.from
             /\ \/ history.rows[r].loaded # Never
                \/ \E l \in Under(history, history.run) : l.row = r
    <2>1. /\ history.rows[r].range = history.from
          /\ history.rows[r].loaded = Never => \E l \in history.loads : l.row = r
          /\ \A l \in history.loads : l.run = history.run
        BY <1>1, <1>4 DEF RowsAreRight
    <2> QED BY <1>2, <2>1
<1> QED BY <1>2, <1>3, <1>4 DEF RefreshLosesNoRow

LEMMA HistoryTyped == HistoryInv => HistoryTypeOK
<1> SUFFICES ASSUME HistoryInv PROVE HistoryTypeOK
    OBVIOUS
<1>1. /\ history \in HistoryPage /\ RunIsAtWork(history) /\ LoadsAreInside(history)
    BY DEF HistoryInv, Fits, PageInv
<1>2. ASSUME NEW l \in history.loads
      PROVE  l.run \in RunIds /\ l.cursor \in l.range .. l.range + Length - 1
    <2>1. l.run \in RunIds /\ l.range \in Nat /\ l.cursor \in Nat
        BY <1>1 DEF HistoryPage, Loading
    <2>2. l.range <= l.cursor /\ l.cursor < l.range + Length
        BY <1>1 DEF LoadsAreInside
    <2> QED BY <2>1, <2>2, HistoryNumbers
<1>3. history.run \in RunIds \cup {0} /\ (history.latest => history.run # 0)
    BY <1>1 DEF HistoryPage, RunIsAtWork
<1> QED BY <1>2, <1>3 DEF HistoryInv, HistoryTypeOK
=============================================================================
