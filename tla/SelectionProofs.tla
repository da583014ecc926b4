--------------------------- MODULE SelectionProofs ---------------------------
(***************************************************************************)
(* Ranks number the places kept, in their order; what is picked are the    *)
(* elements there.                                                         *)
(***************************************************************************)
EXTENDS Selections, FiniteSetTheorems, FunctionTheorems, TLAPS

\* Every place up to the number of the rows kept is the rank of one of them.
LEMMA RanksAreAll ==
    ASSUME NEW n \in Nat, NEW kept \in SUBSET (1..n)
    PROVE  /\ Cardinality(kept) \in Nat
           /\ \A i \in kept : Rank(kept, i) \in 1..Cardinality(kept)
           /\ \A i, j \in kept : i < j => Rank(kept, i) < Rank(kept, j)
           /\ \A k \in 1..Cardinality(kept) : \E i \in kept : Rank(kept, i) = k
<1> DEFINE upto(i) == {j \in kept : j <= i}
<1>1. IsFiniteSet(kept) /\ Cardinality(kept) \in Nat /\ \A i \in kept : i \in Nat
    <2>1. IsFiniteSet(1..n)
        BY FS_Interval
    <2>2. IsFiniteSet(kept)
        BY <2>1, FS_Subset
    <2>3. Cardinality(kept) \in Nat
        BY <2>2, FS_CardinalityType
    <2> QED BY <2>2, <2>3
<1>2. \A i \in kept : /\ upto(i) \in SUBSET kept
                      /\ IsFiniteSet(upto(i))
                      /\ Cardinality(upto(i)) \in Nat
                      /\ Cardinality(upto(i)) <= Cardinality(kept)
    BY <1>1, FS_Subset, FS_CardinalityType
<1>3. \A i \in kept : Rank(kept, i) \in 1..Cardinality(kept)
    <2>1. \A i \in kept : i \in upto(i) /\ Cardinality(upto(i)) # 0
        BY <1>2, FS_EmptySet
    <2> QED BY <1>1, <1>2, <2>1 DEF Rank
<1>4. ASSUME NEW i \in kept, NEW j \in kept, i < j
      PROVE  Rank(kept, i) < Rank(kept, j)
    <2>1. upto(i) \in SUBSET upto(j) /\ j \in upto(j) /\ j \notin upto(i)
        <3>1. i \in Nat /\ j \in Nat /\ \A k \in kept : k \in Nat
            BY <1>1
        <3>2. \A k \in kept : k <= i => k <= j
            BY <1>4, <3>1
        <3>3. j <= j /\ ~(j <= i)
            BY <1>4, <3>1
        <3>4. upto(i) \subseteq upto(j)
            BY <3>2
        <3> QED BY <3>3, <3>4
    <2>2. /\ Cardinality(upto(i)) <= Cardinality(upto(j))
          /\ Cardinality(upto(j)) = Cardinality(upto(i)) => upto(j) = upto(i)
        BY <1>2, <2>1, FS_Subset
    <2> QED BY <1>2, <2>1, <2>2 DEF Rank
<1>5. \A k \in 1..Cardinality(kept) : \E i \in kept : Rank(kept, i) = k
    <2> DEFINE f == [i \in kept |-> Rank(kept, i)]
               places == 1..Cardinality(kept)
    <2>1. f \in [kept -> places]
        BY <1>3
    <2>2. \A i, j \in kept : f[i] = f[j] => i = j
        BY <1>1, <1>3, <1>4
    <2>3. f \in Injection(kept, places)
        BY <2>1, <2>2, Fun_IsInj
    <2>4. IsFiniteSet(places) /\ Cardinality(places) = Cardinality(kept)
        BY <1>1, FS_Interval
    <2>5. f \in Surjection(kept, places)
        BY <2>3, <2>4, FS_Injection
    <2>6. \A k \in places : \E i \in kept : f[i] = k
        BY <2>5 DEF Surjection
    <2> QED BY <2>6
<1> QED BY <1>1, <1>3, <1>4, <1>5

LEMMA PickedIs ==
    ASSUME NEW S, NEW s \in Seq(S), NEW kept \in SUBSET DOMAIN s
    PROVE  /\ Picked(s, kept) \in Seq(S)
           /\ Len(Picked(s, kept)) = Cardinality(kept) /\ Cardinality(kept) \in Nat
           /\ DOMAIN Picked(s, kept) = 1..Cardinality(kept)
           /\ \A i \in kept : /\ Rank(kept, i) \in 1..Cardinality(kept)
                              /\ Picked(s, kept)[Rank(kept, i)] = s[i]
           /\ \A k \in 1..Cardinality(kept) :
                  \E i \in kept : Rank(kept, i) = k /\ Picked(s, kept)[k] = s[i]
<1> DEFINE places == 1..Cardinality(kept)
           at(k) == CHOOSE i \in kept : Rank(kept, i) = k
           new == Picked(s, kept)
<1>1. Len(s) \in Nat /\ DOMAIN s = 1..Len(s) /\ \A i \in DOMAIN s : s[i] \in S
    OBVIOUS
<1>2. kept \in SUBSET (1..Len(s))
    BY <1>1
<1>3. /\ Cardinality(kept) \in Nat
      /\ \A i \in kept : Rank(kept, i) \in places
      /\ \A i, j \in kept : i < j => Rank(kept, i) < Rank(kept, j)
      /\ \A k \in places : \E i \in kept : Rank(kept, i) = k
    BY <1>1, <1>2, RanksAreAll
<1>4. \A k \in places : at(k) \in kept /\ Rank(kept, at(k)) = k
    BY <1>3
<1>5. new = [k \in places |-> s[at(k)]]
    BY DEF Picked
<1> HIDE DEF at, new
<1>6. new \in Seq(S) /\ DOMAIN new = places /\ Len(new) = Cardinality(kept)
    <2>1. new \in [places -> S] /\ DOMAIN new = places
        BY <1>1, <1>4, <1>5
    <2> QED BY <1>3, <2>1
<1>7. \A k \in places : \E i \in kept : Rank(kept, i) = k /\ new[k] = s[i]
    BY <1>4, <1>5
<1>8. \A i, j \in kept : Rank(kept, i) = Rank(kept, j) => i = j
    <2>1. \A i \in kept : i \in Nat /\ Rank(kept, i) \in Nat
        BY <1>2, <1>3
    <2> QED BY <1>3, <2>1
<1>9. \A i \in kept : new[Rank(kept, i)] = s[i]
    BY <1>3, <1>7, <1>8
<1> QED BY <1>3, <1>6, <1>7, <1>9 DEF new

LEMMA PickedAll ==
    ASSUME NEW S, NEW s \in Seq(S)
    PROVE  Picked(s, DOMAIN s) = s
<1> DEFINE new == Picked(s, DOMAIN s)
<1>1. Len(s) \in Nat /\ DOMAIN s = 1..Len(s)
    OBVIOUS
<1>2. Cardinality(DOMAIN s) = Len(s)
    BY <1>1, FS_Interval
<1>3. ASSUME NEW i \in DOMAIN s
      PROVE  Rank(DOMAIN s, i) = i
    <2>1. {j \in DOMAIN s : j <= i} = 1..i
        BY <1>1
    <2>2. Cardinality(1..i) = i
        BY <1>1, FS_Interval
    <2> QED BY <2>1, <2>2 DEF Rank
<1>4. DOMAIN s \in SUBSET DOMAIN s
    OBVIOUS
<1>5. /\ new \in Seq(S) /\ Len(new) = Len(s) /\ DOMAIN new = 1..Len(s)
      /\ \A i \in DOMAIN s : new[Rank(DOMAIN s, i)] = s[i]
    BY <1>2, <1>4, PickedIs
<1> HIDE DEF new
<1>6. \A i \in 1..Len(s) : new[i] = s[i]
    BY <1>1, <1>3, <1>5
<1> QED BY <1>5, <1>6 DEF new

LEMMA PickedNone ==
    ASSUME NEW s
    PROVE  Picked(s, {}) = <<>>
<1>1. Cardinality({}) = 0
    BY FS_EmptySet
<1>2. 1..0 = {}
    OBVIOUS
<1> QED BY <1>1, <1>2 DEF Picked
=============================================================================
