------------------------- MODULE GraphCyclesProofs -------------------------
(* Proofs about GraphCycles, for every set of addresses, number of nodes   *)
(* and last version.                                                       *)
EXTENDS GraphCycles, FiniteSetTheorems, SequenceTheorems, TLAPS

-----------------------------------------------------------------------------
StrictOrder(L, Lt) ==
    /\ IsFiniteSet(L) /\ Lt \in SUBSET (L \X L)
    /\ \A a \in L : <<a, a>> \notin Lt
    /\ \A a, b, c \in L : <<a, b>> \in Lt /\ <<b, c>> \in Lt => <<a, c>> \in Lt
    /\ \A a, b \in L : a = b \/ <<a, b>> \in Lt \/ <<b, a>> \in Lt

Counts(L, Lt) == [n \in L |-> Cardinality({a \in L : <<a, n>> \in Lt})]

(* Counting the members below one in a finite strict total order gives     *)
(* each of them its position, and every position is taken: the property of *)
(* sorting (Sort, std::merge) that Reorder rests on.                       *)
LEMMA Positions ==
    ASSUME NEW L, NEW Lt, StrictOrder(L, Lt), NEW pos, pos = Counts(L, Lt)
    PROVE  /\ \A n \in L : pos[n] \in 0 .. Cardinality(L) - 1
           /\ \A a, b \in L : <<a, b>> \in Lt <=> pos[a] < pos[b]
           /\ \A k \in 0 .. Cardinality(L) - 1 : \E a \in L : pos[a] = k
<1> USE DEF StrictOrder, Counts
<1> DEFINE Below(n) == {a \in L : <<a, n>> \in Lt}
<1>1. Cardinality(L) \in Nat
  BY FS_CardinalityType
<1>2. \A n \in L : /\ IsFiniteSet(Below(n))
                   /\ Cardinality(Below(n)) \in Nat
                   /\ Cardinality(Below(n)) < Cardinality(L)
  <2> SUFFICES ASSUME NEW n \in L
               PROVE  /\ IsFiniteSet(Below(n))
                      /\ Cardinality(Below(n)) \in Nat
                      /\ Cardinality(Below(n)) < Cardinality(L)
    OBVIOUS
  <2>1. Below(n) \in SUBSET L /\ Below(n) # L
    OBVIOUS
  <2>2. IsFiniteSet(Below(n))
    BY <2>1, FS_Subset
  <2>3. Cardinality(Below(n)) \in Nat
    BY <2>2, FS_CardinalityType
  <2>4. Cardinality(Below(n)) <= Cardinality(L) /\ Cardinality(L) # Cardinality(Below(n))
    BY <2>1, FS_Subset
  <2> HIDE DEF Below
  <2> QED BY <1>1, <2>2, <2>3, <2>4
<1>3. \A n \in L : pos[n] = Cardinality(Below(n))
  OBVIOUS
<1>4. \A n \in L : pos[n] \in 0 .. Cardinality(L) - 1
  <2> HIDE DEF Below
  <2> QED BY <1>1, <1>2, <1>3
<1>5. \A a, b \in L : <<a, b>> \in Lt => pos[a] < pos[b]
  <2> SUFFICES ASSUME NEW a \in L, NEW b \in L, <<a, b>> \in Lt
               PROVE  pos[a] < pos[b]
    OBVIOUS
  <2>1. Below(a) \in SUBSET Below(b) /\ Below(a) # Below(b)
    <3>1. a \in Below(b) /\ a \notin Below(a)
      OBVIOUS
    <3>2. \A c \in Below(a) : c \in Below(b)
      OBVIOUS
    <3> QED BY <3>1, <3>2
  <2>2. /\ Cardinality(Below(a)) <= Cardinality(Below(b))
        /\ Cardinality(Below(b)) # Cardinality(Below(a))
    BY <1>2, <2>1, FS_Subset
  <2>3. /\ pos[a] = Cardinality(Below(a)) /\ pos[b] = Cardinality(Below(b))
        /\ Cardinality(Below(a)) \in Nat /\ Cardinality(Below(b)) \in Nat
    BY <1>2, <1>3
  <2> HIDE DEF Below
  <2> QED BY <2>2, <2>3
<1>6. \A a, b \in L : pos[a] < pos[b] => <<a, b>> \in Lt
  <2> SUFFICES ASSUME NEW a \in L, NEW b \in L, pos[a] < pos[b], <<a, b>> \notin Lt
               PROVE  FALSE
    OBVIOUS
  <2>1. pos[a] \in Int /\ pos[b] \in Int
    BY <1>1, <1>4
  <2>2. a = b \/ pos[b] < pos[a]
    BY <1>5
  <2> QED BY <2>1, <2>2
<1>7. \A k \in 0 .. Cardinality(L) - 1 : \E a \in L : pos[a] = k
  <2> DEFINE T == 0 .. Cardinality(L) - 1
  <2>1. \A a, b \in L : pos[a] = pos[b] => a = b
    <3> SUFFICES ASSUME NEW a \in L, NEW b \in L, pos[a] = pos[b], a # b
                 PROVE  FALSE
      OBVIOUS
    <3>1. pos[a] < pos[b] \/ pos[b] < pos[a]
      BY <1>5
    <3>2. pos[a] \in Int /\ pos[b] \in Int
      BY <1>1, <1>4
    <3> QED BY <3>1, <3>2
  <2>2. pos \in [L -> T]
    BY <1>4
  <2>3. pos \in Injection(L, T)
    BY <2>1, <2>2 DEF Injection, IsInjective
  <2>4. IsFiniteSet(T) /\ Cardinality(T) = Cardinality(L)
    <3> DEFINE c == Cardinality(L)
    <3>1. c \in Nat
      BY <1>1
    <3> HIDE DEF c
    <3>2. 0 \in Int /\ c - 1 \in Int
      BY <3>1
    <3>3. /\ IsFiniteSet(0 .. c - 1)
          /\ Cardinality(0 .. c - 1) = IF 0 > c - 1 THEN 0 ELSE c - 1 - 0 + 1
      BY <3>2, FS_Interval
    <3>4. (IF 0 > c - 1 THEN 0 ELSE c - 1 - 0 + 1) = c
      BY <3>1
    <3> QED BY <3>3, <3>4 DEF c
  <2>5. pos \in Surjection(L, T)
    BY <2>3, <2>4, FS_Injection
  <2> QED BY <2>5 DEF Surjection
<1> QED BY <1>4, <1>5, <1>6, <1>7

-----------------------------------------------------------------------------
LEMMA IndexIsFinite == /\ Index \subseteq Nat
                       /\ \A S \in SUBSET Index : IsFiniteSet(S)
<1>1. MaxNodes - 1 \in Int /\ 0 \in Int
  BY GraphAssumption
<1>2. IsFiniteSet(Index)
  BY <1>1, FS_Interval DEF Index
<1>3. \A S \in SUBSET Index : IsFiniteSet(S)
  BY <1>2, FS_Subset
<1> QED BY <1>3, GraphAssumption DEF Index

(* Reorder deals the ranks of B and F out again, B before F and otherwise  *)
(* in the old order: a rank of B can only fall, one of F can only rise.    *)
LEMMA ReorderSorts ==
    ASSUME rank \in [Index -> Index], RanksDiffer,
           NEW B \in SUBSET Index, NEW F \in SUBSET Index, B \cap F = {},
           NEW R, R = Reorder(B, F)
    PROVE  /\ R \in [Index -> Index]
           /\ \A n \in Index \ (B \cup F) : R[n] = rank[n]
           /\ \A n \in B \cup F : \E a \in B \cup F : R[n] = rank[a]
           /\ \A a, b \in B : rank[a] < rank[b] => R[a] < R[b]
           /\ \A a, b \in F : rank[a] < rank[b] => R[a] < R[b]
           /\ \A a \in B, b \in F : R[a] < R[b]
           /\ \A b \in B : R[b] <= rank[b]
           /\ \A f \in F : rank[f] <= R[f]
<1> DEFINE L == B \cup F
           Before(a, b) == \/ a \in B /\ b \in F
                           \/ {a, b} \subseteq B /\ rank[a] < rank[b]
                           \/ {a, b} \subseteq F /\ rank[a] < rank[b]
           place(n)  == Cardinality({a \in L : Before(a, n)})
           merged(n) == Cardinality({a \in L : rank[a] < rank[n]})
           Low  == {e \in L \X L : rank[e[1]] < rank[e[2]]}
           Next2 == {e \in L \X L : Before(e[1], e[2])}
           low  == [n \in L |-> Cardinality({a \in L : <<a, n>> \in Low})]
           next == [n \in L |-> Cardinality({a \in L : <<a, n>> \in Next2})]
<1>1. R = [n \in Index |-> IF n \in L THEN rank[CHOOSE a \in L : merged(a) = place(n)]
                                      ELSE rank[n]]
  BY DEF Reorder
<1>2. IsFiniteSet(L) /\ L \subseteq Index /\ Index \subseteq Nat
  BY IndexIsFinite
<1>3. \A n \in L : rank[n] \in Nat
  BY <1>2
<1>4. \A n \in L : low[n] = merged(n) /\ next[n] = place(n)
  <2> SUFFICES ASSUME NEW n \in L PROVE low[n] = merged(n) /\ next[n] = place(n)
    OBVIOUS
  <2>1. {a \in L : <<a, n>> \in Low} = {a \in L : rank[a] < rank[n]}
    OBVIOUS
  <2>2. {a \in L : <<a, n>> \in Next2} = {a \in L : Before(a, n)}
    OBVIOUS
  <2> HIDE DEF Low, Next2, Before
  <2> QED BY <2>1, <2>2
<1>5. /\ \A n \in L : low[n] \in 0 .. Cardinality(L) - 1
      /\ \A a, b \in L : <<a, b>> \in Low <=> low[a] < low[b]
      /\ \A k \in 0 .. Cardinality(L) - 1 : \E a \in L : low[a] = k
  <2>1. Low \in SUBSET (L \X L) /\ \A a \in L : <<a, a>> \notin Low
    BY <1>3
  <2>2. \A a, b, c \in L : <<a, b>> \in Low /\ <<b, c>> \in Low => <<a, c>> \in Low
    BY <1>3
  <2>3. \A a, b \in L : a = b \/ <<a, b>> \in Low \/ <<b, a>> \in Low
    BY <1>2, <1>3 DEF RanksDiffer
  <2>4. StrictOrder(L, Low)
    <3> HIDE DEF Low
    <3> QED BY <1>2, <2>1, <2>2, <2>3 DEF StrictOrder
  <2>5. low = Counts(L, Low)
    BY DEF Counts
  <2> HIDE DEF Low, L, low
  <2> QED BY <2>4, <2>5, Positions
<1>6. /\ \A n \in L : next[n] \in 0 .. Cardinality(L) - 1
      /\ \A a, b \in L : <<a, b>> \in Next2 <=> next[a] < next[b]
      /\ \A k \in 0 .. Cardinality(L) - 1 : \E a \in L : next[a] = k
  <2>1. Next2 \in SUBSET (L \X L) /\ \A a \in L : <<a, a>> \notin Next2
    BY <1>3
  <2>2. \A a, b, c \in L : <<a, b>> \in Next2 /\ <<b, c>> \in Next2 => <<a, c>> \in Next2
    BY <1>3
  <2>3. \A a, b \in L : a = b \/ <<a, b>> \in Next2 \/ <<b, a>> \in Next2
    BY <1>2, <1>3 DEF RanksDiffer
  <2>4. StrictOrder(L, Next2)
    <3> HIDE DEF Next2
    <3> QED BY <1>2, <2>1, <2>2, <2>3 DEF StrictOrder
  <2>5. next = Counts(L, Next2)
    BY DEF Counts
  <2> HIDE DEF Next2, L, next
  <2> QED BY <2>4, <2>5, Positions
<1> DEFINE from(n) == CHOOSE a \in L : merged(a) = place(n)
<1>7. \A n \in L : from(n) \in L /\ low[from(n)] = next[n]
  <2> SUFFICES ASSUME NEW n \in L PROVE from(n) \in L /\ low[from(n)] = next[n]
    OBVIOUS
  <2>1. \E a \in L : low[a] = next[n]
    <3> HIDE DEF low, next, L
    <3> QED BY <1>5, <1>6
  <2>2. \E a \in L : merged(a) = place(n)
    <3> HIDE DEF low, next, L, merged, place
    <3> QED BY <1>4, <2>1
  <2>3. from(n) \in L /\ merged(from(n)) = place(n)
    <3> HIDE DEF L, merged, place
    <3> QED BY <2>2
  <2> HIDE DEF low, next, L, merged, place, from
  <2> QED BY <1>4, <2>3
<1>8. \A n \in L : R[n] = rank[from(n)]
  <2> HIDE DEF L, merged, place
  <2> QED BY <1>1, <1>2
\* Who comes earlier gets the smaller rank.
<1>9. \A a, b \in L : Before(a, b) => R[a] < R[b]
  <2> SUFFICES ASSUME NEW a \in L, NEW b \in L, Before(a, b)
               PROVE  R[a] < R[b]
    OBVIOUS
  <2>1. <<a, b>> \in Next2
    OBVIOUS
  <2>2. low[from(a)] < low[from(b)]
    <3> HIDE DEF low, next, L, from, Next2
    <3> QED BY <1>6, <1>7, <2>1
  <2>3. <<from(a), from(b)>> \in Low
    <3> HIDE DEF low, next, L, from, Low
    <3> QED BY <1>5, <1>7, <2>2
  <2>4. rank[from(a)] < rank[from(b)]
    <3> HIDE DEF from
    <3> QED BY <2>3
  <2> HIDE DEF L, from
  <2> QED BY <1>8, <2>4
\* A member whose place is not after (not before) its old one does not rise (fall).
<1>10. \A n \in L : /\ place(n) <= merged(n) => R[n] <= rank[n]
                    /\ merged(n) <= place(n) => rank[n] <= R[n]
  <2> SUFFICES ASSUME NEW n \in L
               PROVE  /\ place(n) <= merged(n) => R[n] <= rank[n]
                      /\ merged(n) <= place(n) => rank[n] <= R[n]
    OBVIOUS
  <2>1. /\ rank[n] < rank[from(n)] => low[n] < low[from(n)]
        /\ rank[from(n)] < rank[n] => low[from(n)] < low[n]
    <3>1. /\ rank[n] < rank[from(n)] => <<n, from(n)>> \in Low
          /\ rank[from(n)] < rank[n] => <<from(n), n>> \in Low
      <4> HIDE DEF L, from
      <4> QED BY <1>7
    <3> HIDE DEF L, from, low, Low
    <3> QED BY <1>5, <1>7, <3>1
  <2>2. /\ low[n] = merged(n) /\ low[from(n)] = place(n)
        /\ low[n] \in Int /\ low[from(n)] \in Int
        /\ rank[n] \in Nat /\ rank[from(n)] \in Nat /\ R[n] = rank[from(n)]
    <3>1. Cardinality(L) \in Nat
      BY <1>2, FS_CardinalityType
    <3> HIDE DEF L, from, low, merged, place, next
    <3> QED BY <1>3, <1>4, <1>5, <1>7, <1>8, <3>1
  <2> HIDE DEF L, from, low, merged, place
  <2> QED BY <2>1, <2>2
<1>11. \A b \in B : place(b) <= merged(b)
  <2> SUFFICES ASSUME NEW b \in B PROVE place(b) <= merged(b)
    OBVIOUS
  <2>1. {a \in L : Before(a, b)} \in SUBSET {a \in L : rank[a] < rank[b]}
    OBVIOUS
  <2>2. IsFiniteSet({a \in L : rank[a] < rank[b]})
    BY <1>2, IndexIsFinite
  <2> QED BY <2>1, <2>2, FS_Subset
<1>12. \A f \in F : merged(f) <= place(f)
  <2> SUFFICES ASSUME NEW f \in F PROVE merged(f) <= place(f)
    OBVIOUS
  <2>1. {a \in L : rank[a] < rank[f]} \in SUBSET {a \in L : Before(a, f)}
    OBVIOUS
  <2>2. IsFiniteSet({a \in L : Before(a, f)})
    BY <1>2, IndexIsFinite
  <2> QED BY <2>1, <2>2, FS_Subset
<1>13. R \in [Index -> Index] /\ \A n \in Index \ L : R[n] = rank[n]
  <2> HIDE DEF L, merged, place
  <2> QED BY <1>1, <1>2, <1>7
<1>14. \A n \in L : \E a \in L : R[n] = rank[a]
  <2> HIDE DEF L, merged, place, from
  <2> QED BY <1>7, <1>8
<1>15. \A b \in B : R[b] <= rank[b]
  <2> HIDE DEF merged, place
  <2> QED BY <1>10, <1>11
<1>16. \A f \in F : rank[f] <= R[f]
  <2> HIDE DEF merged, place
  <2> QED BY <1>10, <1>12
<1> QED
  <2> HIDE DEF merged, place, low, next, from
  <2> QED BY <1>9, <1>13, <1>14, <1>15, <1>16

-----------------------------------------------------------------------------
(* A cell that is not allocated yet is still as Init left it.              *)
FreshCells == \A i \in Index \ Nodes : /\ rank[i] = i /\ version[i] = 0
                                       /\ masked_ptr[i] = NoPtr
                                       /\ in[i] = {} /\ out[i] = {}

(* The inductive invariant.  CheckInvariants alone is not inductive: that  *)
(* BackwardDFS reads in while the order is stated over out takes           *)
(* EdgesMirrored, and a new node's rank differs from the others because no *)
(* reordering ever touched its cell (FreshCells).                          *)
IInv == TypeOK /\ CheckInvariants /\ EdgesMirrored /\ FreshCells

LEMMA InitIInv == Init => IInv
<1> SUFFICES ASSUME Init PROVE IInv
  OBVIOUS
<1>1. TypeOK
  BY GraphAssumption DEF Init, TypeOK, Index, Nodes
<1>2. CheckInvariants
  BY GraphAssumption DEF Init, CheckInvariants, PtrIsUnique, MarkersCleared, RanksDiffer,
                         EdgesIncreaseRank, Index, Nodes
<1>3. EdgesMirrored /\ FreshCells
  BY DEF Init, EdgesMirrored, FreshCells, Index
<1> QED BY <1>1, <1>2, <1>3 DEF IInv

(* What the two searches of InsertEdge(x, y) visit when x's rank is upper  *)
(* and y's is lower.                                                       *)
LEMMA Searches ==
    ASSUME IInv, NEW i \in Nodes, NEW j \in Nodes, rank[j] < rank[i],
           ~HitsUpper(j, rank[i]),
           NEW F, F = ForwardSet(j, rank[i]), NEW B, B = BackwardSet(i, rank[j], F)
    PROVE  /\ F \subseteq Nodes /\ B \subseteq Nodes /\ B \cap F = {}
           /\ j \in F /\ i \in B
           /\ \A n \in F : rank[j] <= rank[n] /\ rank[n] < rank[i]
           /\ \A n \in B : rank[j] < rank[n] /\ rank[n] <= rank[i]
           /\ \A n \in F : \A m \in out[n] : m \in F \/ rank[i] < rank[m]
           /\ \A n \in B : \A m \in in[n] : m \in B \/ rank[m] <= rank[j]
<1> DEFINE upper == rank[i]
           lower == rank[j]
<1>0. /\ rank \in [Index -> Index] /\ in \in [Index -> SUBSET Index]
      /\ out \in [Index -> SUBSET Index] /\ size \in 0 .. MaxNodes
      /\ EdgesIncreaseRank /\ EdgesMirrored /\ FreshCells /\ visited = {}
  BY DEF IInv, TypeOK, CheckInvariants, MarkersCleared
<1>1. Nodes \subseteq Index /\ i \in Index /\ j \in Index
  BY <1>0, GraphAssumption DEF Nodes, Index
<1>n. /\ \A n \in Index : rank[n] \in Int
      /\ upper \in Int /\ lower \in Int
  <2>1. Index \subseteq Int
    BY IndexIsFinite
  <2> QED BY <1>0, <1>1, <2>1
<1>o. \A a \in Index : \A b \in out[a] : b \in Nodes /\ rank[a] < rank[b]
  BY <1>0, <1>1 DEF EdgesIncreaseRank, EdgesMirrored, FreshCells
<1>p. \A a \in Index : \A b \in in[a] : b \in Nodes /\ rank[b] < rank[a] /\ a \in out[b]
  BY <1>0, <1>1 DEF EdgesIncreaseRank, EdgesMirrored, FreshCells
<1> HIDE DEF upper, lower
<1>2. /\ F \subseteq Index
      /\ j \in F
      /\ \A n \in F : \A m \in out[n] : rank[m] < upper => m \in F
      /\ \A S \in SUBSET Index :
            (j \in S /\ \A a \in S : \A b \in out[a] : rank[b] < upper => b \in S)
            => F \subseteq S
  BY <1>0, <1>1 DEF ForwardSet, upper
<1>4. F \subseteq {n \in Nodes : lower <= rank[n] /\ rank[n] < upper}
  <2> DEFINE S == {n \in Nodes : lower <= rank[n] /\ rank[n] < upper}
  <2>1. S \in SUBSET Index /\ j \in S
    BY <1>1, <1>n DEF upper, lower
  <2>2. ASSUME NEW a \in S, NEW b \in out[a], rank[b] < upper PROVE b \in S
    <3>1. a \in Index /\ lower <= rank[a] /\ b \in Nodes /\ b \in Index /\ rank[a] < rank[b]
      BY <1>1, <1>o
    <3> QED BY <1>n, <2>2, <3>1
  <2>3. F \subseteq S
    <3> HIDE DEF S
    <3> QED BY <1>2, <2>1, <2>2
  <2> QED BY <2>3
<1>6. \A n \in F : \A m \in out[n] : rank[m] # upper
  BY DEF HitsUpper, upper
<1>7. \A n \in F : \A m \in out[n] : m \in F \/ upper < rank[m]
  <2> SUFFICES ASSUME NEW n \in F, NEW m \in out[n], m \notin F PROVE upper < rank[m]
    OBVIOUS
  <2>1. m \in Index /\ rank[m] # upper /\ ~(rank[m] < upper)
    BY <1>1, <1>2, <1>6, <1>o
  <2> QED BY <1>n, <2>1
\* BackwardDFS passes over what ForwardDFS has marked, and loses nothing by it:
\* nothing that leads to x is reached from y.
<1>8. /\ B \subseteq Index \ F
      /\ i \in B
      /\ \A S \in SUBSET Index :
            (i \in S /\ \A a \in S \ F : \A b \in in[a] : lower < rank[b] => b \in S)
            => B \subseteq S
  <2>1. i \notin F
    BY <1>1, <1>4, <1>n DEF upper
  <2> QED BY <1>0, <1>1, <2>1 DEF BackwardSet, lower
<1>5. B \subseteq {n \in Nodes : lower < rank[n] /\ rank[n] <= upper}
  <2> DEFINE S == {n \in Nodes : lower < rank[n] /\ rank[n] <= upper}
  <2>1. S \in SUBSET Index /\ i \in S
    BY <1>1, <1>n DEF upper, lower
  <2>2. ASSUME NEW a \in S, NEW b \in in[a], lower < rank[b] PROVE b \in S
    <3>1. a \in Index /\ rank[a] <= upper /\ b \in Nodes /\ b \in Index /\ rank[b] < rank[a]
      BY <1>1, <1>p
    <3> QED BY <1>n, <2>2, <3>1
  <2>3. B \subseteq S
    <3> HIDE DEF S
    <3> QED BY <1>8, <2>1, <2>2
  <2> QED BY <2>3
<1>3. \A n \in B : \A m \in in[n] : lower < rank[m] => m \in B
  <2> SUFFICES ASSUME NEW n \in B, NEW m \in in[n], lower < rank[m] PROVE m \in B
    OBVIOUS
  <2>1. /\ n \in Index /\ n \notin F /\ rank[n] <= upper /\ m \in Index /\ n \in out[m]
    BY <1>1, <1>5, <1>8, <1>p
  <2>2. m \notin F
    <3>1. m \in F => n \in F \/ upper < rank[n]
      BY <1>7, <2>1
    <3> QED BY <1>n, <2>1, <3>1
  <2>3. ASSUME NEW S \in SUBSET Index, i \in S,
               \A a \in S \ F : \A b \in in[a] : lower < rank[b] => b \in S
        PROVE  m \in S
    <3>1. n \in S
      BY <1>8, <2>3
    <3> QED BY <2>1, <2>3, <3>1
  <2> QED BY <1>0, <2>1, <2>2, <2>3 DEF BackwardSet, lower
<1>9. \A n \in B : \A m \in in[n] : m \in B \/ rank[m] <= lower
  <2> SUFFICES ASSUME NEW n \in B, NEW m \in in[n], m \notin B PROVE rank[m] <= lower
    OBVIOUS
  <2>1. m \in Index /\ ~(lower < rank[m])
    BY <1>1, <1>3, <1>8, <1>p
  <2> QED BY <1>n, <2>1
<1>10. /\ \A n \in F : n \in Nodes /\ lower <= rank[n] /\ rank[n] < upper
       /\ \A n \in B : n \in Nodes /\ lower < rank[n] /\ rank[n] <= upper
  BY <1>4, <1>5
<1>11. B \cap F = {}
  BY <1>8
<1> QED BY <1>2, <1>7, <1>8, <1>9, <1>10, <1>11 DEF upper, lower

LEMMA NodesInIndex ==
    ASSUME IInv
    PROVE  /\ Nodes \subseteq Index
           /\ \A id \in Ids : /\ NodeIndex(id) \in Index
                              /\ Found(id) => NodeIndex(id) \in Nodes
<1>1. size \in 0 .. MaxNodes /\ FreshCells
  BY DEF IInv, TypeOK
<1>2. Nodes \subseteq Index
  BY <1>1, GraphAssumption DEF Nodes, Index
<1>3. ASSUME NEW id \in Ids PROVE NodeIndex(id) \in Index /\ (Found(id) => NodeIndex(id) \in Nodes)
  <2>1. NodeIndex(id) \in Index /\ NodeVersion(id) \in 1 .. MaxVersion
    BY DEF Ids, NodeIndex, NodeVersion
  <2>2. NodeVersion(id) # 0
    BY <2>1
  <2>3. version[NodeIndex(id)] = 0 \/ NodeIndex(id) \in Nodes
    BY <1>1, <2>1 DEF FreshCells
  <2> QED BY <2>1, <2>2, <2>3 DEF Found
<1> QED BY <1>2, <1>3

(* A reordering insertion keeps the order an order, and moves no rank out  *)
(* of the region between its two ends.                                     *)
LEMMA InsertReorderedStep ==
    ASSUME IInv, NEW x \in Ids, NEW y \in Ids, InsertReordered(x, y)
    PROVE  /\ RanksDiffer' /\ EdgesIncreaseRank' /\ rank' \in [Index -> Index]
           /\ \A n \in Index \ Nodes : rank'[n] = rank[n]
           /\ \A n \in Index : rank'[n] # rank[n] =>
                 /\ rank[n]  \in rank[NodeIndex(y)] .. rank[NodeIndex(x)]
                 /\ rank'[n] \in rank[NodeIndex(y)] .. rank[NodeIndex(x)]
<1> DEFINE i == NodeIndex(x)
           j == NodeIndex(y)
           upper == rank[i]
           lower == rank[j]
           F == ForwardSet(j, upper)
           B == BackwardSet(i, lower, F)
           R == Reorder(B, F)
<1>1. /\ Found(x) /\ Found(y) /\ upper > lower /\ ~HitsUpper(j, upper)
      /\ out' = [out EXCEPT ![i] = @ \cup {j}] /\ rank' = R
  BY DEF InsertReordered, NewEdge, Link, Inserted
<1>2. i \in Nodes /\ j \in Nodes /\ Nodes \subseteq Index
  <2>1. Found(x) /\ Found(y)
    BY <1>1
  <2> QED BY <2>1, NodesInIndex
<1>3. /\ rank \in [Index -> Index] /\ out \in [Index -> SUBSET Index]
      /\ RanksDiffer /\ EdgesIncreaseRank /\ EdgesMirrored
  BY DEF IInv, TypeOK, CheckInvariants
<1>4. /\ \A n \in Index : rank[n] \in Int
      /\ upper \in Int /\ lower \in Int
  <2>1. Index \subseteq Int
    BY IndexIsFinite
  <2> QED BY <1>2, <1>3, <2>1
<1>5. /\ F \subseteq Nodes /\ B \subseteq Nodes /\ B \cap F = {}
      /\ j \in F /\ i \in B
      /\ \A n \in F : lower <= rank[n] /\ rank[n] < upper
      /\ \A n \in B : lower < rank[n] /\ rank[n] <= upper
      /\ \A n \in F : \A m \in out[n] : m \in F \/ upper < rank[m]
      /\ \A n \in B : \A m \in in[n] : m \in B \/ rank[m] <= lower
  <2>1. rank[j] < rank[i]
    BY <1>1, <1>4
  <2> QED BY <1>1, <1>2, <2>1, Searches
<1>6. F \subseteq Index /\ B \subseteq Index
  BY <1>2, <1>5
<1> HIDE DEF F, B
<1>7. /\ R \in [Index -> Index]
      /\ \A n \in Index \ (B \cup F) : R[n] = rank[n]
      /\ \A n \in B \cup F : \E a \in B \cup F : R[n] = rank[a]
      /\ \A a, b \in B : rank[a] < rank[b] => R[a] < R[b]
      /\ \A a, b \in F : rank[a] < rank[b] => R[a] < R[b]
      /\ \A a \in B, b \in F : R[a] < R[b]
      /\ \A b \in B : R[b] <= rank[b]
      /\ \A f \in F : rank[f] <= R[f]
  BY <1>3, <1>5, <1>6, ReorderSorts
<1> HIDE DEF R, upper, lower, i, j
<1>8. /\ \A n \in Index : R[n] \in Int
      /\ \A n \in B \cup F : /\ lower <= rank[n] /\ rank[n] <= upper
                             /\ lower <= R[n] /\ R[n] <= upper
  <2>1. \A n \in B \cup F : n \in Index /\ lower <= rank[n] /\ rank[n] <= upper
    BY <1>4, <1>5, <1>6
  <2>2. Index \subseteq Int
    BY IndexIsFinite
  <2> QED BY <1>7, <2>1, <2>2
\* No rank is given twice.
<1>9. ASSUME NEW a \in Index, NEW b \in Index, R[a] = R[b] PROVE a = b
  <2>1. CASE a \in B \cup F /\ b \in B \cup F
    <3>1. rank[a] = rank[b] \/ rank[a] < rank[b] \/ rank[b] < rank[a]
      BY <1>4
    <3>2. ~(R[a] < R[b]) /\ ~(R[b] < R[a])
      BY <1>8, <1>9
    <3>3. rank[a] = rank[b]
      BY <1>7, <2>1, <3>1, <3>2
    <3> QED BY <1>3, <3>3 DEF RanksDiffer
  <2>2. CASE a \notin B \cup F /\ b \notin B \cup F
    BY <1>3, <1>7, <1>9, <2>2 DEF RanksDiffer
  <2>3. CASE a \in B \cup F /\ b \notin B \cup F
    <3>1. PICK c \in B \cup F : R[a] = rank[c]
      BY <1>7, <2>3
    <3>2. rank[c] = rank[b] /\ c \in Index
      BY <1>6, <1>7, <1>9, <2>3, <3>1
    <3> QED BY <1>3, <2>3, <3>2 DEF RanksDiffer
  <2>4. CASE a \notin B \cup F /\ b \in B \cup F
    <3>1. PICK c \in B \cup F : R[b] = rank[c]
      BY <1>7, <2>4
    <3>2. rank[c] = rank[a] /\ c \in Index
      BY <1>6, <1>7, <1>9, <2>4, <3>1
    <3> QED BY <1>3, <2>4, <3>2 DEF RanksDiffer
  <2> QED BY <2>1, <2>2, <2>3, <2>4
\* Every edge, the old ones and the new one, leads to a higher rank.
<1>10. ASSUME NEW u \in Index, NEW w \in out[u] PROVE R[u] < R[w]
  <2>1. w \in Index /\ rank[u] < rank[w] /\ u \in in[w]
    BY <1>3, <1>10 DEF EdgesIncreaseRank, EdgesMirrored
  <2>2. CASE (u \in B /\ w \in B) \/ (u \in F /\ w \in F) \/ (u \in B /\ w \in F)
    BY <1>7, <2>1, <2>2
  <2>3. CASE u \in F /\ w \notin F
    <3>1. upper < rank[w] /\ R[u] <= upper
      BY <1>5, <1>8, <2>3
    <3>2. w \notin B
      <4>1. w \in B => rank[w] <= upper
        BY <1>5
      <4> QED BY <1>4, <2>1, <3>1, <4>1
    <3>3. R[w] = rank[w]
      BY <1>7, <2>1, <2>3, <3>2
    <3> QED BY <1>4, <1>8, <2>1, <3>1, <3>3
  <2>4. CASE u \in B /\ w \notin B \cup F
    <3>1. R[u] <= rank[u] /\ R[w] = rank[w]
      BY <1>7, <2>1, <2>4
    <3> QED BY <1>4, <1>8, <2>1, <3>1
  <2>5. CASE u \notin B \cup F /\ w \in F
    <3>1. R[u] = rank[u] /\ rank[w] <= R[w]
      BY <1>7, <2>5
    <3> QED BY <1>4, <1>8, <2>1, <3>1
  <2>6. CASE u \notin B \cup F /\ w \in B
    <3>1. rank[u] <= lower /\ lower <= R[w] /\ R[u] = rank[u]
      BY <1>5, <1>7, <1>8, <2>1, <2>6
    <3>2. rank[u] # lower
      BY <1>3, <1>5, <1>6, <2>6 DEF RanksDiffer, lower
    <3> QED BY <1>4, <1>8, <2>1, <3>1, <3>2
  <2>7. CASE u \notin B \cup F /\ w \notin B \cup F
    BY <1>7, <2>1, <2>7
  <2> QED BY <2>2, <2>3, <2>4, <2>5, <2>6, <2>7
<1>11. RanksDiffer'
  BY <1>1, <1>9 DEF RanksDiffer
<1>12. EdgesIncreaseRank'
  <2> SUFFICES ASSUME NEW u \in Index, NEW w \in out'[u] PROVE rank'[u] < rank'[w]
    BY DEF EdgesIncreaseRank
  <2>1. w \in out[u] \/ (u = i /\ w = j)
    BY <1>1, <1>3
  <2>2. R[i] < R[j]
    BY <1>5, <1>7
  <2> QED BY <1>1, <1>10, <2>1, <2>2
<1>13. \A n \in Index : rank'[n] # rank[n] => n \in B \cup F
  BY <1>1, <1>7
<1>14. \A n \in Index \ Nodes : rank'[n] = rank[n]
  BY <1>5, <1>13
<1>15. ASSUME NEW n \in Index, rank'[n] # rank[n]
       PROVE  rank[n] \in lower .. upper /\ rank'[n] \in lower .. upper
  <2>1. n \in B \cup F
    BY <1>13, <1>15
  <2>2. rank[n] \in Int /\ R[n] \in Int
    BY <1>4, <1>8
  <2> QED BY <1>1, <1>4, <1>8, <2>1, <2>2
<1> QED BY <1>1, <1>7, <1>11, <1>12, <1>14, <1>15 DEF upper, lower, i, j

-----------------------------------------------------------------------------
(* One lemma per call.                                                     *)

LEMMA UnchangedIInv == IInv /\ UNCHANGED graph => IInv'
  BY DEF graph, IInv, TypeOK, CheckInvariants, PtrIsUnique, MarkersCleared, RanksDiffer, EdgesIncreaseRank,
         EdgesMirrored, FreshCells, Nodes

(* A refused edge leaves nothing behind: neither half of it nor a mark.    *)
LEMMA RefusalUndone ==
    ASSUME IInv, NEW x \in Ids, NEW y \in Ids, InsertCycle(x, y)
    PROVE  UNCHANGED graph
<1> DEFINE i == NodeIndex(x)
           j == NodeIndex(y)
<1>1. /\ Found(x) /\ Found(y) /\ j \notin out[i]
      /\ out' = Erased(Inserted(out, i, j), i, j)
      /\ in' = Erased(Inserted(in, j, i), j, i)
      /\ UNCHANGED <<size, rank, version, masked_ptr, free_nodes>>
  BY DEF InsertCycle, NewEdge
<1>2. visited' = visited
  <2>1. visited = {}
    BY DEF IInv, CheckInvariants, MarkersCleared
  <2> QED BY <2>1 DEF InsertCycle
<1>3. /\ in \in [Index -> SUBSET Index] /\ out \in [Index -> SUBSET Index]
      /\ EdgesMirrored
  BY DEF IInv, TypeOK
<1>4. i \in Index /\ j \in Index
  BY NodesInIndex
<1> HIDE DEF i, j
<1>5. i \notin in[j]
  BY <1>1, <1>3, <1>4 DEF EdgesMirrored
<1>6. out' = out /\ in' = in
  BY <1>1, <1>3, <1>4, <1>5 DEF Erased, Inserted
<1> QED BY <1>1, <1>2, <1>6 DEF graph

LEMMA GetNewIdIInv ==
    ASSUME IInv, NEW p \in Ptrs, GetNewId(p)
    PROVE  IInv'
<1>1. /\ size \in 0 .. MaxNodes /\ size < MaxNodes
      /\ rank \in [Index -> Index] /\ version \in [Index -> 0 .. MaxVersion]
      /\ masked_ptr \in [Index -> Ptrs \cup {NoPtr}]
      /\ in \in [Index -> SUBSET Index] /\ out \in [Index -> SUBSET Index]
      /\ PtrIsUnique /\ RanksDiffer /\ EdgesIncreaseRank /\ EdgesMirrored /\ FreshCells /\ visited = {}
  BY DEF IInv, TypeOK, CheckInvariants, MarkersCleared, GetNewId
<1>2. /\ p \notin {masked_ptr[i] : i \in Nodes}
      /\ free_nodes = <<>> /\ UNCHANGED <<in, out, free_nodes>>
      /\ size' = size + 1 /\ visited' = visited \ {size}
      /\ version' = [version EXCEPT ![size] = 1]
      /\ masked_ptr' = [masked_ptr EXCEPT ![size] = p]
  BY DEF GetNewId
<1>3. size \in Index /\ size \notin Nodes /\ Nodes' = Nodes \cup {size}
  BY <1>1, <1>2, GraphAssumption DEF Index, Nodes
<1>4. rank' = rank
  <2>1. rank[size] = size
    BY <1>1, <1>3 DEF FreshCells
  <2>2. rank' = [rank EXCEPT ![size] = size]
    BY DEF GetNewId
  <2> QED BY <1>1, <2>1, <2>2
<1>5. TypeOK'
  <2>1. size' \in 0 .. MaxNodes
    BY <1>1, <1>2, GraphAssumption
  <2>2. version' \in [Index -> 0 .. MaxVersion]
    <3>1. 1 \in 0 .. MaxVersion
      BY GraphAssumption
    <3> QED BY <1>1, <1>2, <3>1
  <2>3. masked_ptr' \in [Index -> Ptrs \cup {NoPtr}]
    BY <1>1, <1>2
  <2>4. free_nodes' \in Seq(Nodes')
    BY <1>2
  <2> QED BY <1>1, <1>2, <1>4, <2>1, <2>2, <2>3, <2>4 DEF TypeOK
<1>6. PtrIsUnique'
  <2> SUFFICES ASSUME NEW i \in Nodes', NEW j \in Nodes', masked_ptr'[i] # NoPtr,
                      masked_ptr'[i] = masked_ptr'[j]
               PROVE  i = j
    BY DEF PtrIsUnique
  <2>1. /\ masked_ptr'[size] = p
        /\ \A k \in Nodes : masked_ptr'[k] = masked_ptr[k] /\ masked_ptr[k] # p
    BY <1>1, <1>2, <1>3
  <2>2. i \in Nodes \cup {size} /\ j \in Nodes \cup {size}
    BY <1>3
  <2> QED BY <1>1, <2>1, <2>2 DEF PtrIsUnique
<1>7. RanksDiffer' /\ EdgesIncreaseRank' /\ EdgesMirrored'
  BY <1>1, <1>2, <1>4 DEF RanksDiffer, EdgesIncreaseRank, EdgesMirrored
<1>8. FreshCells'
  BY <1>1, <1>2, <1>3, <1>4 DEF FreshCells
<1> QED BY <1>1, <1>2, <1>5, <1>6, <1>7, <1>8 DEF IInv, CheckInvariants, MarkersCleared

LEMMA GetRecycledIdIInv ==
    ASSUME IInv, NEW p \in Ptrs, GetRecycledId(p)
    PROVE  IInv'
<1> DEFINE r == free_nodes[Len(free_nodes)]
<1>1. /\ size \in 0 .. MaxNodes
      /\ masked_ptr \in [Index -> Ptrs \cup {NoPtr}]
      /\ free_nodes \in Seq(Nodes) /\ free_nodes # <<>>
      /\ PtrIsUnique /\ RanksDiffer /\ EdgesIncreaseRank /\ EdgesMirrored /\ FreshCells /\ visited = {}
  BY DEF IInv, TypeOK, CheckInvariants, MarkersCleared, GetRecycledId
<1>2. /\ p \notin {masked_ptr[i] : i \in Nodes}
      /\ free_nodes' = SubSeq(free_nodes, 1, Len(free_nodes) - 1)
      /\ masked_ptr' = [masked_ptr EXCEPT ![r] = p]
      /\ UNCHANGED <<size, rank, version, in, out, visited>>
  BY DEF GetRecycledId
<1>3. Len(free_nodes) \in Nat /\ Len(free_nodes) # 0 /\ r \in Nodes
  BY <1>1
<1>4. Nodes \subseteq Index /\ Nodes' = Nodes
  BY <1>2, NodesInIndex DEF Nodes
<1> HIDE DEF r
<1>5. free_nodes' \in Seq(Nodes)
  BY <1>1, <1>2, <1>3
<1>6. TypeOK'
  BY <1>1, <1>2, <1>4, <1>5 DEF IInv, TypeOK
<1>7. PtrIsUnique'
  <2> SUFFICES ASSUME NEW i \in Nodes, NEW j \in Nodes, masked_ptr'[i] # NoPtr,
                      masked_ptr'[i] = masked_ptr'[j]
               PROVE  i = j
    BY <1>4 DEF PtrIsUnique
  <2>1. /\ masked_ptr'[r] = p
        /\ \A k \in Nodes \ {r} : masked_ptr'[k] = masked_ptr[k] /\ masked_ptr[k] # p
    BY <1>1, <1>2, <1>3, <1>4
  <2> QED BY <1>1, <2>1 DEF PtrIsUnique
<1>8. RanksDiffer' /\ EdgesIncreaseRank' /\ EdgesMirrored'
  BY <1>1, <1>2 DEF RanksDiffer, EdgesIncreaseRank, EdgesMirrored
<1>9. FreshCells'
  BY <1>1, <1>2, <1>3, <1>4 DEF FreshCells
<1> QED BY <1>1, <1>2, <1>6, <1>7, <1>8, <1>9 DEF IInv, CheckInvariants, MarkersCleared

LEMMA RemoveNodeIInv ==
    ASSUME IInv, NEW p \in Ptrs, RemoveNode(p)
    PROVE  IInv'
<1>1. CASE UNCHANGED graph
  BY <1>1, UnchangedIInv
<1>2. ASSUME NEW i \in Nodes,
             masked_ptr[i] = p,
             in' = Isolate(in, out, i),
             out' = Isolate(out, in, i),
             masked_ptr' = [masked_ptr EXCEPT ![i] = NoPtr],
             IF version[i] = MaxVersion
             THEN UNCHANGED <<version, free_nodes>>
             ELSE /\ version' = [version EXCEPT ![i] = @ + 1]
                  /\ free_nodes' = Append(free_nodes, i),
             UNCHANGED <<size, rank, visited>>
      PROVE  IInv'
  <2>1. /\ rank \in [Index -> Index] /\ version \in [Index -> 0 .. MaxVersion]
        /\ masked_ptr \in [Index -> Ptrs \cup {NoPtr}]
        /\ in \in [Index -> SUBSET Index] /\ out \in [Index -> SUBSET Index]
        /\ free_nodes \in Seq(Nodes)
        /\ PtrIsUnique /\ RanksDiffer /\ EdgesIncreaseRank /\ EdgesMirrored /\ FreshCells /\ visited = {}
    BY DEF IInv, TypeOK, CheckInvariants, MarkersCleared
  <2>2. Nodes \subseteq Index /\ Nodes' = Nodes /\ i \in Index
    BY <1>2, NodesInIndex DEF Nodes
  <2>3. /\ in' \in [Index -> SUBSET Index] /\ out' \in [Index -> SUBSET Index]
        /\ \A k \in Index : /\ in'[k]  = IF k = i THEN {} ELSE in[k] \ {i}
                            /\ out'[k] = IF k = i THEN {} ELSE out[k] \ {i}
    BY <1>2, <2>1, <2>2 DEF Isolate, EdgesMirrored
  <2>4. version' \in [Index -> 0 .. MaxVersion] /\ free_nodes' \in Seq(Nodes)
    <3>1. CASE version[i] = MaxVersion
      BY <1>2, <2>1, <3>1
    <3>2. CASE version[i] # MaxVersion
      <4>1. version[i] + 1 \in 0 .. MaxVersion
        BY <2>1, <2>2, <3>2, GraphAssumption
      <4>2. version' = [version EXCEPT ![i] = @ + 1] /\ free_nodes' = Append(free_nodes, i)
        BY <1>2, <3>2
      <4>3. version' \in [Index -> 0 .. MaxVersion]
        BY <2>1, <4>1, <4>2
      <4>4. free_nodes' \in Seq(Nodes)
        BY <2>1, <4>2
      <4> QED BY <4>3, <4>4
    <3> QED BY <3>1, <3>2
  <2>5. TypeOK'
    BY <1>2, <2>1, <2>2, <2>3, <2>4 DEF IInv, TypeOK
  <2>6. PtrIsUnique'
    BY <1>2, <2>1, <2>2 DEF PtrIsUnique
  <2>7. RanksDiffer' /\ EdgesIncreaseRank' /\ EdgesMirrored'
    <3>1. rank' = rank
      BY <1>2
    <3>2. RanksDiffer'
      BY <2>1, <3>1 DEF RanksDiffer
    <3>3. EdgesIncreaseRank'
      BY <2>1, <2>3, <3>1 DEF EdgesIncreaseRank
    <3>4. EdgesMirrored'
      <4> SUFFICES ASSUME NEW a \in Index, NEW b \in Index
                   PROVE  b \in out'[a] <=> a \in in'[b]
        BY DEF EdgesMirrored
      <4>1. b \in out[a] <=> a \in in[b]
        BY <2>1 DEF EdgesMirrored
      <4>2. out'[a] = IF a = i THEN {} ELSE out[a] \ {i}
        BY <2>3
      <4>3. in'[b] = IF b = i THEN {} ELSE in[b] \ {i}
        BY <2>3
      <4> QED BY <4>1, <4>2, <4>3
    <3> QED BY <3>2, <3>3, <3>4
  <2>8. FreshCells'
    <3>1. \A k \in Index \ Nodes : version'[k] = version[k] /\ masked_ptr'[k] = masked_ptr[k]
      BY <1>2, <2>1, <2>2
    <3> QED BY <1>2, <2>1, <2>2, <2>3, <3>1 DEF FreshCells
  <2> QED BY <1>2, <2>1, <2>5, <2>6, <2>7, <2>8 DEF IInv, CheckInvariants, MarkersCleared
<1> QED BY <1>1, <1>2 DEF RemoveNode

LEMMA InsertEdgeIInv ==
    ASSUME IInv, NEW x \in Ids, NEW y \in Ids, InsertEdge(x, y)
    PROVE  IInv'
<1> DEFINE i == NodeIndex(x)
           j == NodeIndex(y)
<1>1. CASE UNCHANGED graph
  BY <1>1, UnchangedIInv
<1>2. ASSUME Found(x), Found(y), Link(i, j), rank' \in [Index -> Index],
             RanksDiffer', EdgesIncreaseRank',
             \A n \in Index \ Nodes : rank'[n] = rank[n],
             UNCHANGED <<size, version, masked_ptr, visited, free_nodes>>
      PROVE  IInv'
  <2>1. /\ in \in [Index -> SUBSET Index] /\ out \in [Index -> SUBSET Index]
        /\ PtrIsUnique /\ EdgesMirrored /\ FreshCells /\ visited = {}
    BY DEF IInv, TypeOK, CheckInvariants, MarkersCleared
  <2>2. /\ i \in Nodes /\ j \in Nodes /\ Nodes \subseteq Index /\ Nodes' = Nodes
    BY <1>2, NodesInIndex DEF Nodes
  <2>3. /\ out' = [out EXCEPT ![i] = @ \cup {j}]
        /\ in' = [in EXCEPT ![j] = @ \cup {i}]
    BY <1>2 DEF Link, Inserted
  <2> HIDE DEF i, j
  <2>4. in' \in [Index -> SUBSET Index] /\ out' \in [Index -> SUBSET Index]
    BY <2>1, <2>2, <2>3
  <2>5. TypeOK'
    BY <1>2, <2>2, <2>4 DEF IInv, TypeOK
  <2>6. PtrIsUnique'
    BY <1>2, <2>1, <2>2 DEF PtrIsUnique
  <2>7. EdgesMirrored'
    BY <2>1, <2>2, <2>3 DEF EdgesMirrored
  <2>8. FreshCells'
    BY <1>2, <2>1, <2>2, <2>3 DEF FreshCells
  <2> QED BY <1>2, <2>5, <2>6, <2>7, <2>8 DEF IInv, CheckInvariants, MarkersCleared
<1>3. CASE InsertInOrder(x, y)
  <2>1. /\ Found(x) /\ Found(y) /\ x # y /\ j \notin out[i]
        /\ rank[i] <= rank[j] /\ Link(i, j)
        /\ UNCHANGED <<size, rank, version, masked_ptr, visited, free_nodes>>
    BY <1>3 DEF InsertInOrder, NewEdge
  <2>2. /\ rank \in [Index -> Index] /\ out \in [Index -> SUBSET Index]
        /\ version \in [Index -> 0 .. MaxVersion]
        /\ RanksDiffer /\ EdgesIncreaseRank
    BY DEF IInv, TypeOK, CheckInvariants, MarkersCleared
  <2>3. i \in Index /\ j \in Index /\ i # j
    <3>1. i \in Index /\ j \in Index
      BY NodesInIndex
    <3>2. x = <<i, NodeVersion(x)>> /\ y = <<j, NodeVersion(y)>>
      BY DEF Ids, NodeIndex, NodeVersion
    <3> QED BY <2>1, <3>1, <3>2 DEF Found
  <2>4. out' = [out EXCEPT ![i] = @ \cup {j}] /\ rank' = rank
    BY <2>1 DEF Link, Inserted
  <2>5. rank[i] < rank[j]
    <3>0. Index \subseteq Int
      BY IndexIsFinite
    <3>1. rank[i] \in Int /\ rank[j] \in Int
      BY <2>2, <2>3, <3>0
    <3> QED BY <2>1, <2>2, <2>3, <3>1 DEF RanksDiffer
  <2>6. EdgesIncreaseRank'
    <3> HIDE DEF i, j
    <3> QED BY <2>2, <2>3, <2>4, <2>5 DEF EdgesIncreaseRank
  <2>7. RanksDiffer'
    BY <2>2, <2>4 DEF RanksDiffer
  <2> QED BY <1>2, <2>1, <2>2, <2>4, <2>6, <2>7
<1>4. CASE InsertReordered(x, y)
  <2>1. /\ Found(x) /\ Found(y) /\ Link(i, j)
        /\ UNCHANGED <<size, version, masked_ptr, visited, free_nodes>>
    <3>1. visited = {}
      BY DEF IInv, CheckInvariants, MarkersCleared
    <3> QED BY <1>4, <3>1 DEF InsertReordered, NewEdge
  <2>2. /\ RanksDiffer' /\ EdgesIncreaseRank' /\ rank' \in [Index -> Index]
        /\ \A n \in Index \ Nodes : rank'[n] = rank[n]
    BY <1>4, InsertReorderedStep
  <2> QED BY <1>2, <2>1, <2>2
<1>5. CASE InsertCycle(x, y)
  BY <1>1, <1>5, RefusalUndone
<1> QED BY <1>1, <1>3, <1>4, <1>5
        DEF InsertEdge, InsertExpired, InsertSelf, InsertKnown

LEMMA RemoveEdgeIInv ==
    ASSUME IInv, NEW x \in Ids, NEW y \in Ids, RemoveEdge(x, y)
    PROVE  IInv'
<1> DEFINE i == NodeIndex(x)
           j == NodeIndex(y)
<1>1. CASE UNCHANGED graph
  BY <1>1, UnchangedIInv
<1>2. ASSUME out' = [out EXCEPT ![i] = @ \ {j}], in' = [in EXCEPT ![j] = @ \ {i}],
             UNCHANGED <<size, rank, version, masked_ptr, visited, free_nodes>>
      PROVE  IInv'
  <2>1. /\ in \in [Index -> SUBSET Index] /\ out \in [Index -> SUBSET Index]
        /\ PtrIsUnique /\ RanksDiffer /\ EdgesIncreaseRank /\ EdgesMirrored /\ FreshCells /\ visited = {}
    BY DEF IInv, TypeOK, CheckInvariants, MarkersCleared
  <2>2. i \in Index /\ j \in Index /\ Nodes' = Nodes
    BY <1>2, NodesInIndex DEF Nodes
  <2> HIDE DEF i, j
  <2>3. in' \in [Index -> SUBSET Index] /\ out' \in [Index -> SUBSET Index]
    BY <1>2, <2>1, <2>2
  <2>4. TypeOK'
    BY <1>2, <2>2, <2>3 DEF IInv, TypeOK
  <2>5. PtrIsUnique' /\ RanksDiffer'
    BY <1>2, <2>1, <2>2 DEF PtrIsUnique, RanksDiffer
  <2>6. EdgesIncreaseRank'
    BY <1>2, <2>1, <2>2 DEF EdgesIncreaseRank
  <2>7. EdgesMirrored'
    BY <1>2, <2>1, <2>2 DEF EdgesMirrored
  <2>8. FreshCells'
    BY <1>2, <2>1, <2>2 DEF FreshCells
  <2> QED BY <1>2, <2>1, <2>4, <2>5, <2>6, <2>7, <2>8 DEF IInv, CheckInvariants, MarkersCleared
<1> QED BY <1>1, <1>2 DEF RemoveEdge

LEMMA NextIInv == IInv /\ [NextAny]_vars => IInv'
<1> SUFFICES ASSUME IInv, [NextAny]_vars PROVE IInv'
  OBVIOUS
<1>1. CASE UNCHANGED vars
  BY <1>1, UnchangedIInv DEF vars
<1>2. ASSUME NEW p \in Ptrs, GetKnownId(p) PROVE IInv'
  BY <1>2, UnchangedIInv DEF GetKnownId
<1>3. ASSUME NEW p \in Ptrs, GetNewId(p) PROVE IInv'
  BY <1>3, GetNewIdIInv
<1>4. ASSUME NEW p \in Ptrs, GetRecycledId(p) PROVE IInv'
  BY <1>4, GetRecycledIdIInv
<1>5. ASSUME NEW p \in Ptrs, RemoveNode(p) PROVE IInv'
  BY <1>5, RemoveNodeIInv
<1>6. ASSUME NEW x \in Ids, NEW y \in Ids, InsertEdge(x, y) PROVE IInv'
  BY <1>6, InsertEdgeIInv
<1>7. ASSUME NEW x \in Ids, NEW y \in Ids, RemoveEdge(x, y) PROVE IInv'
  BY <1>7, RemoveEdgeIInv
<1>8. IssuedIds \subseteq Ids
  BY DEF IssuedIds
<1> QED BY <1>1, <1>2, <1>3, <1>4, <1>5, <1>6, <1>7, <1>8 DEF NextAny, NodeNext

-----------------------------------------------------------------------------
(* The monitor's callers make fewer calls than callers that keep ids for   *)
(* ever.                                                                   *)
LEMMA SpecIsSpecAny == Spec => SpecAny
<1>1. [Next]_vars => [NextAny]_vars
  BY DEF Next, NextAny, UsableIds
<1> QED BY <1>1, PTL DEF Spec, SpecAny

(* What CheckInvariants looks at, with what it takes to be inductive.     *)
THEOREM Invariance == SpecAny => []IInv
<1> QED BY InitIInv, NextIInv, PTL DEF SpecAny

(* Every variable keeps its type: in particular no version leaves its      *)
(* width, and the ranks Reorder deals out are ranks.                       *)
THEOREM TypeCorrect == SpecAny => []TypeOK
<1>1. IInv => TypeOK
  BY DEF IInv
<1> QED BY <1>1, Invariance, PTL

(* GraphCycles::CheckInvariants never fails, whatever ids are passed in,   *)
(* also ids of removed nodes whose index another lock uses.                *)
THEOREM InvariantsHold == SpecAny => []CheckInvariants
<1>1. IInv => CheckInvariants
  BY DEF IInv
<1> QED BY <1>1, Invariance, PTL

-----------------------------------------------------------------------------
(* An id is not handed out again: what the monitor keeps in a thread's     *)
(* table never comes to mean another lock.                                 *)
THEOREM IdsStay == SpecAny => IdsNeverReused
<1> DEFINE Kept == \A id \in IssuedIds : Ptr(id)' # NoPtr => Ptr(id)' = Ptr(id)
<1>1. ASSUME IInv, [NextAny]_vars PROVE Kept
  <2> SUFFICES ASSUME NEW id \in IssuedIds, Ptr(id)' # NoPtr PROVE Ptr(id)' = Ptr(id)
    OBVIOUS
  <2> DEFINE i == NodeIndex(id)
             v == NodeVersion(id)
  <2>1. /\ i \in Index /\ v \in 1 .. MaxVersion /\ v <= version[i]
        /\ version[i] = v => ~InFree(i)
        /\ version'[i] = v /\ masked_ptr'[i] # NoPtr /\ Ptr(id)' = masked_ptr'[i]
    BY DEF IssuedIds, Ids, NodeIndex, NodeVersion, Ptr, Found
  <2>2. version[i] = v => Ptr(id) = masked_ptr[i]
    BY DEF Ptr, Found
  <2>3. /\ version \in [Index -> 0 .. MaxVersion] /\ masked_ptr \in [Index -> Ptrs \cup {NoPtr}]
        /\ free_nodes \in Seq(Nodes) /\ FreshCells
    BY <1>1 DEF IInv, TypeOK
  <2> HIDE DEF i, v
  <2>4. CASE UNCHANGED <<version, masked_ptr>>
    BY <2>1, <2>2, <2>4
  <2>5. ASSUME NEW p \in Ptrs, GetNewId(p) PROVE Ptr(id)' = Ptr(id)
    <3>1. i # size
      <4>1. size \notin Nodes
        BY DEF Nodes
      <4>2. size \in Index => version[size] = 0
        BY <2>3, <4>1 DEF FreshCells
      <4> QED BY <2>1, <4>2, GraphAssumption
    <3>2. version'[i] = version[i] /\ masked_ptr'[i] = masked_ptr[i]
      BY <2>1, <2>3, <2>5, <3>1 DEF GetNewId
    <3> QED BY <2>1, <2>2, <3>2
  <2>6. ASSUME NEW p \in Ptrs, GetRecycledId(p) PROVE Ptr(id)' = Ptr(id)
    <3> DEFINE r == free_nodes[Len(free_nodes)]
    <3>1. version' = version /\ masked_ptr' = [masked_ptr EXCEPT ![r] = p]
      BY <2>6 DEF GetRecycledId
    <3>2. InFree(r)
      <4>1. Len(free_nodes) \in Nat /\ free_nodes # <<>>
        BY <2>3, <2>6 DEF GetRecycledId
      <4>2. Len(free_nodes) \in 1 .. Len(free_nodes)
        BY <2>3, <4>1
      <4> QED BY <4>2 DEF InFree
    <3>3. version[i] = v /\ i # r
      BY <2>1, <3>1, <3>2
    <3> HIDE DEF r
    <3>4. masked_ptr'[i] = masked_ptr[i]
      BY <2>1, <2>3, <3>1, <3>3
    <3> QED BY <2>1, <2>2, <3>3, <3>4
  <2>7. ASSUME NEW p \in Ptrs, RemoveNode(p) PROVE Ptr(id)' = Ptr(id)
    <3>1. ASSUME NEW n \in Nodes, masked_ptr' = [masked_ptr EXCEPT ![n] = NoPtr],
                 version' = version \/ version' = [version EXCEPT ![n] = @ + 1]
          PROVE  Ptr(id)' = Ptr(id)
      <4>1. i # n
        BY <2>1, <2>3, <3>1
      <4>2. version'[i] = version[i] /\ masked_ptr'[i] = masked_ptr[i]
        BY <2>1, <2>3, <3>1, <4>1
      <4> QED BY <2>1, <2>2, <4>2
    <3>2. CASE UNCHANGED graph
      BY <2>4, <3>2 DEF graph
    <3> QED BY <2>7, <3>1, <3>2 DEF RemoveNode
  <2>8. ASSUME NEW x \in IssuedIds, NEW y \in IssuedIds, InsertEdge(x, y) \/ RemoveEdge(x, y)
        PROVE  UNCHANGED <<version, masked_ptr>>
    BY <2>8 DEF InsertEdge, InsertExpired, InsertSelf, InsertKnown, InsertInOrder, InsertCycle,
                InsertReordered, RemoveEdge, graph
  <2>9. ASSUME NEW p \in Ptrs, GetKnownId(p) PROVE UNCHANGED <<version, masked_ptr>>
    BY <2>9 DEF GetKnownId, graph
  <2>10. UNCHANGED vars => UNCHANGED <<version, masked_ptr>>
    BY DEF vars, graph
  <2> QED BY <1>1, <2>4, <2>5, <2>6, <2>7, <2>8, <2>9, <2>10 DEF NextAny, NodeNext
<1> QED BY <1>1, Invariance, PTL DEF SpecAny, IdsNeverReused

(* Only InsertEdge moves ranks, and only inside its region.                *)
THEOREM RanksStay == SpecAny => RanksOutsideRegionKept
<1> DEFINE Region(n) == /\ answer'.call = "InsertEdge"
                        /\ LET lower == rank[NodeIndex(answer'.to)]
                               upper == rank[NodeIndex(answer'.from)]
                           IN rank[n] \in lower .. upper /\ rank'[n] \in lower .. upper
           Kept == \A n \in Index : rank'[n] # rank[n] => Region(n)
<1>1. ASSUME IInv, [NextAny]_vars PROVE Kept
  <2>1. CASE UNCHANGED rank
    BY <2>1
  <2>2. ASSUME NEW p \in Ptrs, GetNewId(p) PROVE UNCHANGED rank
    <3>1. size \in 0 .. MaxNodes /\ size < MaxNodes /\ size \notin Nodes /\ FreshCells
          /\ rank \in [Index -> Index]
      BY <1>1, <2>2 DEF GetNewId, IInv, TypeOK, Nodes
    <3>2. size \in Index
      BY <3>1, GraphAssumption DEF Index
    <3>3. rank[size] = size
      BY <3>1, <3>2 DEF FreshCells
    <3> QED BY <2>2, <3>1, <3>3 DEF GetNewId
  <2>3. ASSUME NEW p \in Ptrs, GetKnownId(p) \/ GetRecycledId(p) \/ RemoveNode(p)
        PROVE  UNCHANGED rank
    BY <2>3 DEF GetKnownId, GetRecycledId, RemoveNode, graph
  <2>4. ASSUME NEW x \in IssuedIds, NEW y \in IssuedIds, InsertReordered(x, y) PROVE Kept
    <3>1. x \in Ids /\ y \in Ids
      BY DEF IssuedIds
    <3>2. answer'.call = "InsertEdge" /\ answer'.from = x /\ answer'.to = y
      BY <2>4 DEF InsertReordered, EdgeAnswer
    <3> QED BY <1>1, <2>4, <3>1, <3>2, InsertReorderedStep
  <2>5. ASSUME NEW x \in IssuedIds, NEW y \in IssuedIds,
               RemoveEdge(x, y) \/ (InsertEdge(x, y) /\ ~InsertReordered(x, y))
        PROVE  UNCHANGED rank
    BY <2>5 DEF InsertEdge, InsertExpired, InsertSelf, InsertKnown, InsertInOrder, InsertCycle,
                RemoveEdge, graph
  <2>6. UNCHANGED vars => UNCHANGED rank
    BY DEF vars, graph
  <2> HIDE DEF Kept
  <2> QED BY <1>1, <2>1, <2>2, <2>3, <2>4, <2>5, <2>6 DEF NextAny, NodeNext
<1> QED BY <1>1, Invariance, PTL DEF SpecAny, RanksOutsideRegionKept

-----------------------------------------------------------------------------
(* The monitor's use of the graph: an id it passes to InsertEdge belongs   *)
(* to a lock that is there, because a node without a lock is on the free   *)
(* list or retired.                                                        *)
NodesInUse == {k \in Nodes : masked_ptr[k] # NoPtr}
IdleNodesKnown == \A k \in Nodes \ NodesInUse : InFree(k) \/ version[k] = MaxVersion
LiveInv == IInv /\ EdgesJoinLiveNodes /\ IdleNodesKnown

LEMMA LiveInvInit == Init => LiveInv
  BY InitIInv DEF Init, LiveInv, IInv, EdgesJoinLiveNodes, IdleNodesKnown, Nodes, Index

\* Enough for a call that adds no edge and takes no lock away.
LEMMA LiveInvKept ==
    ASSUME LiveInv, IInv',
           \A i \in Index : out'[i] \subseteq out[i],
           NodesInUse \subseteq NodesInUse', IdleNodesKnown'
    PROVE  LiveInv'
<1>1. EdgesMirrored'
  BY DEF IInv
<1>2. \A i \in Index : \A j \in out[i] : i \in NodesInUse /\ j \in NodesInUse
  BY DEF LiveInv, EdgesJoinLiveNodes, NodesInUse
<1>3. \A i \in Index : \A j \in out'[i] : i \in NodesInUse' /\ j \in NodesInUse'
  BY <1>2
<1> QED BY <1>1, <1>3 DEF LiveInv, EdgesJoinLiveNodes, NodesInUse

LEMMA NextLiveInv == LiveInv /\ [Next]_vars => LiveInv'
<1> SUFFICES ASSUME LiveInv, [Next]_vars PROVE LiveInv'
  OBVIOUS
<1>0. IInv /\ IInv'
  <2>1. [NextAny]_vars
    BY DEF Next, NextAny, UsableIds
  <2> QED BY <2>1, NextIInv DEF LiveInv
<1>a. /\ size \in 0 .. MaxNodes
      /\ version \in [Index -> 0 .. MaxVersion]
      /\ masked_ptr \in [Index -> Ptrs \cup {NoPtr}]
      /\ in \in [Index -> SUBSET Index] /\ out \in [Index -> SUBSET Index]
      /\ free_nodes \in Seq(Nodes) /\ EdgesMirrored
  BY <1>0 DEF IInv, TypeOK
<1>b. Nodes \subseteq Index
  BY <1>0, NodesInIndex
<1>c. IdleNodesKnown
  BY DEF LiveInv
<1>d. \A i \in Index : \A j \in out[i] : i \in NodesInUse /\ j \in NodesInUse
  BY DEF LiveInv, EdgesJoinLiveNodes, NodesInUse
<1>1. CASE UNCHANGED graph
  <2>1. UNCHANGED <<out, size, masked_ptr, version, free_nodes>>
    BY <1>1 DEF graph
  <2>2. NodesInUse' = NodesInUse /\ IdleNodesKnown'
    BY <1>c, <2>1 DEF IdleNodesKnown, NodesInUse, Nodes, InFree
  <2> QED BY <1>0, <2>1, <2>2, LiveInvKept
<1>2. ASSUME NEW p \in Ptrs, GetNewId(p) PROVE LiveInv'
  <2>1. size \in Index /\ size \notin Nodes /\ Nodes' = Nodes \cup {size}
    BY <1>a, <1>2, GraphAssumption DEF GetNewId, Nodes, Index
  <2>2. /\ \A k \in Nodes : masked_ptr'[k] = masked_ptr[k] /\ version'[k] = version[k]
        /\ masked_ptr'[size] = p /\ UNCHANGED <<out, free_nodes>>
    BY <1>a, <1>b, <1>2, <2>1 DEF GetNewId
  <2>3. NodesInUse \subseteq NodesInUse' /\ Nodes' \ NodesInUse' = Nodes \ NodesInUse
    BY <2>1, <2>2, GraphAssumption DEF NodesInUse
  <2>4. IdleNodesKnown'
    BY <1>c, <2>2, <2>3 DEF IdleNodesKnown, InFree
  <2> QED BY <1>0, <2>2, <2>3, <2>4, LiveInvKept
<1>3. ASSUME NEW p \in Ptrs, GetRecycledId(p) PROVE LiveInv'
  <2> DEFINE n == Len(free_nodes)
             r == free_nodes[n]
  <2>1. /\ n \in Nat \ {0} /\ r \in Nodes
        /\ free_nodes' = SubSeq(free_nodes, 1, n - 1)
        /\ masked_ptr' = [masked_ptr EXCEPT ![r] = p]
        /\ UNCHANGED <<size, version, out>>
    BY <1>a, <1>3 DEF GetRecycledId
  <2>2. Nodes' = Nodes
    BY <2>1 DEF Nodes
  <2>3. NodesInUse' = NodesInUse \cup {r}
    BY <1>a, <1>b, <2>1, <2>2, GraphAssumption DEF NodesInUse
  <2>4. \A k \in Nodes \ {r} : InFree(k) => InFree(k)'
    <3> SUFFICES ASSUME NEW k \in Nodes \ {r}, InFree(k) PROVE InFree(k)'
      OBVIOUS
    <3>1. PICK q \in 1 .. n : free_nodes[q] = k
      BY DEF InFree
    <3>2. q # n
      BY <3>1
    <3>3. q \in 1 .. n - 1
      BY <2>1, <3>2
    <3>4. Len(free_nodes') = n - 1 /\ free_nodes'[q] = free_nodes[q]
      BY <1>a, <2>1, <3>3
    <3> QED BY <3>1, <3>3, <3>4 DEF InFree
  <2> HIDE DEF r
  <2>5. IdleNodesKnown'
    BY <1>c, <2>1, <2>2, <2>3, <2>4 DEF IdleNodesKnown
  <2> QED BY <1>0, <2>1, <2>3, <2>5, LiveInvKept
<1>4. ASSUME NEW p \in Ptrs, NEW i \in Nodes,
             in' = Isolate(in, out, i),
             out' = Isolate(out, in, i),
             masked_ptr' = [masked_ptr EXCEPT ![i] = NoPtr],
             IF version[i] = MaxVersion
             THEN UNCHANGED <<version, free_nodes>>
             ELSE /\ version' = [version EXCEPT ![i] = @ + 1]
                  /\ free_nodes' = Append(free_nodes, i),
             size' = size
      PROVE  LiveInv'
  <2>1. Nodes' = Nodes /\ i \in Index
    BY <1>b, <1>4 DEF Nodes
  <2>2. NodesInUse' = NodesInUse \ {i}
    BY <1>a, <1>b, <1>4, <2>1 DEF NodesInUse
  <2>3. \A k \in Index : out'[k] = IF k = i THEN {} ELSE out[k] \ {i}
    BY <1>a, <1>4, <2>1 DEF Isolate, EdgesMirrored
  <2>4. \A k \in Index : \A j \in out'[k] : k \in NodesInUse' /\ j \in NodesInUse'
    BY <1>d, <2>2, <2>3
  <2>5. ASSUME NEW k \in Nodes \ NodesInUse' PROVE InFree(k)' \/ version'[k] = MaxVersion
    <3>1. CASE version[i] = MaxVersion
      <4>1. UNCHANGED <<version, free_nodes>>
        BY <1>4, <3>1
      <4>2. k = i \/ k \in Nodes \ NodesInUse
        BY <2>2, <2>5
      <4> QED BY <1>c, <3>1, <4>1, <4>2 DEF IdleNodesKnown, InFree
    <3>2. CASE version[i] # MaxVersion
      <4>1. version' = [version EXCEPT ![i] = @ + 1] /\ free_nodes' = Append(free_nodes, i)
        BY <1>4, <3>2
      <4>2. CASE k = i
        <5>1. /\ Len(free_nodes') = Len(free_nodes) + 1 /\ Len(free_nodes) \in Nat
              /\ free_nodes'[Len(free_nodes) + 1] = i
          BY <1>a, <4>1
        <5>2. Len(free_nodes) + 1 \in 1 .. Len(free_nodes')
          BY <5>1
        <5> QED BY <4>2, <5>1, <5>2 DEF InFree
      <4>3. CASE k # i
        <5>1. version'[k] = version[k] /\ (InFree(k) \/ version[k] = MaxVersion)
          BY <1>a, <1>b, <1>c, <2>2, <2>5, <4>1, <4>3 DEF IdleNodesKnown
        <5>2. InFree(k) => InFree(k)'
          <6> SUFFICES ASSUME InFree(k) PROVE InFree(k)'
            OBVIOUS
          <6>1. PICK q \in 1 .. Len(free_nodes) : free_nodes[q] = k
            BY DEF InFree
          <6>2. q \in 1 .. Len(free_nodes') /\ free_nodes'[q] = free_nodes[q]
            BY <1>a, <4>1
          <6> QED BY <6>1, <6>2 DEF InFree
        <5> QED BY <5>1, <5>2
      <4> QED BY <4>2, <4>3
    <3> QED BY <3>1, <3>2
  <2>6. IdleNodesKnown'
    BY <2>1, <2>5 DEF IdleNodesKnown
  <2>7. EdgesMirrored'
    BY <1>0 DEF IInv
  <2> QED BY <1>0, <2>4, <2>6, <2>7 DEF LiveInv, EdgesJoinLiveNodes, NodesInUse
<1>5. ASSUME NEW p \in Ptrs, RemoveNode(p) PROVE LiveInv'
  BY <1>1, <1>4, <1>5 DEF RemoveNode
<1>6. ASSUME NEW x \in UsableIds, NEW y \in UsableIds,
             InsertInOrder(x, y) \/ InsertReordered(x, y)
      PROVE  LiveInv'
  <2> DEFINE i == NodeIndex(x)
             j == NodeIndex(y)
  <2>1. /\ Found(x) /\ Found(y) /\ Link(i, j)
        /\ UNCHANGED <<size, version, masked_ptr, free_nodes>>
    BY <1>6 DEF InsertInOrder, InsertReordered, NewEdge
  <2>2. \A id \in UsableIds : Found(id) => NodeIndex(id) \in NodesInUse
    <3> SUFFICES ASSUME NEW id \in UsableIds, Found(id) PROVE NodeIndex(id) \in NodesInUse
      OBVIOUS
    <3>1. id \in Ids /\ ~Retired(NodeIndex(id)) /\ ~InFree(NodeIndex(id))
      BY DEF UsableIds, IssuedIds
    <3>2. NodeIndex(id) \in Nodes
      BY <1>0, <3>1, NodesInIndex
    <3>3. masked_ptr[NodeIndex(id)] = NoPtr => InFree(NodeIndex(id)) \/ version[NodeIndex(id)] = MaxVersion
      BY <1>c, <3>2 DEF IdleNodesKnown, NodesInUse
    <3> QED BY <3>1, <3>2, <3>3 DEF Retired, NodesInUse
  <2>3. NodesInUse' = NodesInUse /\ IdleNodesKnown'
    BY <1>c, <2>1 DEF IdleNodesKnown, NodesInUse, Nodes, InFree
  <2>4. i \in NodesInUse /\ j \in NodesInUse
    BY <2>1, <2>2
  <2>5. out' = [out EXCEPT ![i] = @ \cup {j}]
    BY <2>1 DEF Link, Inserted
  <2> HIDE DEF i, j
  <2>6. \A k \in Index : \A m \in out'[k] : k \in NodesInUse' /\ m \in NodesInUse'
    BY <1>a, <1>d, <2>3, <2>4, <2>5
  <2>7. EdgesMirrored'
    BY <1>0 DEF IInv
  <2> QED BY <1>0, <2>3, <2>6, <2>7 DEF LiveInv, EdgesJoinLiveNodes, NodesInUse
<1>7. ASSUME NEW x \in UsableIds, NEW y \in UsableIds, InsertEdge(x, y) PROVE LiveInv'
  <2>1. x \in Ids /\ y \in Ids
    BY DEF UsableIds, IssuedIds
  <2>2. InsertCycle(x, y) => UNCHANGED graph
    BY <1>0, <2>1, RefusalUndone
  <2> QED BY <1>1, <1>6, <1>7, <2>2 DEF InsertEdge, InsertExpired, InsertSelf, InsertKnown
<1>8. ASSUME NEW x \in UsableIds, NEW y \in UsableIds, RemoveEdge(x, y) PROVE LiveInv'
  <2>1. CASE UNCHANGED graph
    BY <1>1, <2>1
  <2>2. CASE /\ out' = [out EXCEPT ![NodeIndex(x)] = @ \ {NodeIndex(y)}]
             /\ UNCHANGED <<size, rank, version, masked_ptr, free_nodes>>
    <3>1. \A k \in Index : out'[k] \subseteq out[k]
      BY <1>a, <2>2
    <3>2. NodesInUse' = NodesInUse /\ IdleNodesKnown'
      BY <1>c, <2>2 DEF IdleNodesKnown, NodesInUse, Nodes, InFree
    <3> QED BY <1>0, <3>1, <3>2, LiveInvKept
  <2> QED BY <1>8, <2>1, <2>2 DEF RemoveEdge
<1>9. ASSUME NEW p \in Ptrs, GetKnownId(p) PROVE LiveInv'
  BY <1>1, <1>9 DEF GetKnownId
<1>10. CASE UNCHANGED vars
  BY <1>1, <1>10 DEF vars
<1> QED BY <1>2, <1>3, <1>5, <1>7, <1>8, <1>9, <1>10 DEF Next, NodeNext

(* No edge of a removed lock survives it, in either direction.             *)
THEOREM EdgesStayLive == Spec => []EdgesJoinLiveNodes
<1>1. LiveInv => EdgesJoinLiveNodes
  BY DEF LiveInv
<1> QED BY <1>1, LiveInvInit, NextLiveInv, PTL DEF Spec

-----------------------------------------------------------------------------
(* GraphCycles implements LockOrder.                                       *)

(* What a node brings from the free list: no lock, no second place on the  *)
(* list, and a version of its own.                                         *)
FreeInv == /\ \A k \in Nodes : version[k] \in 1 .. MaxVersion
           /\ \A q, r \in 1 .. Len(free_nodes) : free_nodes[q] = free_nodes[r] => q = r
           /\ \A q \in 1 .. Len(free_nodes) : masked_ptr[free_nodes[q]] = NoPtr

LEMMA FreeInit == Init => FreeInv
  BY DEF Init, FreeInv, Nodes

LEMMA FreeKept ==
    ASSUME FreeInv, UNCHANGED <<size, version, masked_ptr, free_nodes>>
    PROVE  FreeInv'
  BY DEF FreeInv, Nodes

LEMMA NextFreeInv == IInv /\ FreeInv /\ [NextAny]_vars => FreeInv'
<1> SUFFICES ASSUME IInv, FreeInv, [NextAny]_vars PROVE FreeInv'
  OBVIOUS
<1>a. /\ size \in 0 .. MaxNodes
      /\ version \in [Index -> 0 .. MaxVersion]
      /\ masked_ptr \in [Index -> Ptrs \cup {NoPtr}]
      /\ free_nodes \in Seq(Nodes) /\ Len(free_nodes) \in Nat
      /\ \A q \in 1 .. Len(free_nodes) : free_nodes[q] \in Nodes
  <2>1. free_nodes \in Seq(Nodes)
    BY DEF IInv, TypeOK
  <2>2. Len(free_nodes) \in Nat /\ \A q \in 1 .. Len(free_nodes) : free_nodes[q] \in Nodes
    BY <2>1
  <2> QED BY <2>1, <2>2 DEF IInv, TypeOK
<1>b. Nodes \subseteq Index /\ MaxVersion \in Nat \ {0}
  BY NodesInIndex, GraphAssumption
<1>c. /\ \A k \in Nodes : version[k] \in 1 .. MaxVersion
      /\ \A q, r \in 1 .. Len(free_nodes) : free_nodes[q] = free_nodes[r] => q = r
      /\ \A q \in 1 .. Len(free_nodes) : masked_ptr[free_nodes[q]] = NoPtr
  BY DEF FreeInv
<1>1. CASE UNCHANGED <<size, version, masked_ptr, free_nodes>>
  BY <1>1, FreeKept
<1>2. ASSUME NEW p \in Ptrs, GetNewId(p) PROVE FreeInv'
  <2>1. size \in Index /\ Nodes' = Nodes \cup {size} /\ free_nodes' = <<>>
    BY <1>a, <1>2, GraphAssumption DEF GetNewId, Nodes, Index
  <2>2. \A k \in Nodes' : version'[k] \in 1 .. MaxVersion
    BY <1>a, <1>b, <1>c, <1>2, <2>1 DEF GetNewId
  <2>3. 1 .. Len(free_nodes') = {}
    BY <2>1
  <2> QED BY <2>2, <2>3 DEF FreeInv
<1>3. ASSUME NEW p \in Ptrs, GetRecycledId(p) PROVE FreeInv'
  <2> DEFINE n == Len(free_nodes)
             r == free_nodes[n]
  <2>1. /\ n \in Nat \ {0} /\ r \in Nodes
        /\ free_nodes' = SubSeq(free_nodes, 1, n - 1)
        /\ masked_ptr' = [masked_ptr EXCEPT ![r] = p]
        /\ UNCHANGED <<size, version>>
    BY <1>a, <1>3 DEF GetRecycledId
  <2>2. Nodes' = Nodes
    BY <2>1 DEF Nodes
  <2>3. /\ Len(free_nodes') = n - 1
        /\ \A q \in 1 .. n - 1 : free_nodes'[q] = free_nodes[q]
    <3>1. Len(free_nodes) = n /\ n \in Nat \ {0}
      BY <2>1
    <3> HIDE DEF n, r
    <3>2. /\ Len(free_nodes') = n - 1
          /\ \A q \in 1 .. n - 1 : free_nodes'[q] = free_nodes[1 + q - 1]
      BY <1>a, <2>1, <3>1, SubSeqProperties
    <3> QED BY <2>1, <3>2
  <2>4. \A q \in 1 .. n - 1 : q \in 1 .. n /\ q # n
    BY <2>1
  <2>5. \A q \in 1 .. n - 1 : free_nodes[q] # r
    BY <1>c, <2>1, <2>4
  <2> HIDE DEF r
  <2>6. \A q \in 1 .. n - 1 : masked_ptr'[free_nodes[q]] = NoPtr
    BY <1>a, <1>b, <1>c, <2>1, <2>4, <2>5
  <2> HIDE DEF n
  <2>7. /\ \A q, m \in 1 .. Len(free_nodes') : free_nodes'[q] = free_nodes'[m] => q = m
        /\ \A q \in 1 .. Len(free_nodes') : masked_ptr'[free_nodes'[q]] = NoPtr
    BY <1>c, <2>3, <2>4, <2>6 DEF n
  <2> QED BY <1>c, <2>1, <2>2, <2>7 DEF FreeInv
<1>4. ASSUME NEW p \in Ptrs, NEW i \in Nodes, masked_ptr[i] = p,
             masked_ptr' = [masked_ptr EXCEPT ![i] = NoPtr],
             IF version[i] = MaxVersion
             THEN UNCHANGED <<version, free_nodes>>
             ELSE /\ version' = [version EXCEPT ![i] = @ + 1]
                  /\ free_nodes' = Append(free_nodes, i),
             size' = size
      PROVE  FreeInv'
  <2>1. Nodes' = Nodes /\ i \in Index /\ p # NoPtr
    BY <1>b, <1>4, GraphAssumption DEF Nodes
  <2>2. \A k \in Index : masked_ptr[k] = NoPtr => masked_ptr'[k] = NoPtr
    BY <1>a, <1>4, <2>1
  <2>3. CASE version[i] = MaxVersion
    <3>1. UNCHANGED <<version, free_nodes>>
      BY <1>4, <2>3
    <3> QED BY <1>a, <1>b, <1>c, <2>1, <2>2, <3>1 DEF FreeInv
  <2>4. CASE version[i] # MaxVersion
    <3>1. version' = [version EXCEPT ![i] = @ + 1] /\ free_nodes' = Append(free_nodes, i)
      BY <1>4, <2>4
    <3>2. version[i] \in 1 .. MaxVersion
      BY <1>c, <1>4
    <3>3. version[i] + 1 \in 1 .. MaxVersion
      BY <1>b, <2>4, <3>2
    <3>4. \A k \in Nodes : version'[k] \in 1 .. MaxVersion
      BY <1>a, <1>b, <1>c, <3>1, <3>3
    <3>5. /\ Len(free_nodes') = Len(free_nodes) + 1 /\ free_nodes'[Len(free_nodes) + 1] = i
          /\ \A q \in 1 .. Len(free_nodes) : free_nodes'[q] = free_nodes[q]
      BY <1>a, <3>1
    <3>6. \A q \in 1 .. Len(free_nodes) : free_nodes[q] # i
      BY <1>c, <1>4, <2>1
    <3>7. \A q \in 1 .. Len(free_nodes') : q \in 1 .. Len(free_nodes) \/ q = Len(free_nodes) + 1
      BY <1>a, <3>5
    <3>8. \A q, m \in 1 .. Len(free_nodes') : free_nodes'[q] = free_nodes'[m] => q = m
      BY <1>c, <3>5, <3>6, <3>7
    <3>9. \A q \in 1 .. Len(free_nodes') : masked_ptr'[free_nodes'[q]] = NoPtr
      <4>1. masked_ptr'[i] = NoPtr
        BY <1>a, <1>4, <2>1
      <4> QED BY <1>a, <1>b, <1>c, <2>2, <3>5, <3>7, <4>1
    <3> QED BY <2>1, <3>4, <3>8, <3>9 DEF FreeInv
  <2> QED BY <2>3, <2>4
<1>5. ASSUME NEW p \in Ptrs, RemoveNode(p) PROVE FreeInv'
  <2>1. CASE UNCHANGED graph
    BY <1>1, <2>1 DEF graph
  <2> QED BY <1>4, <1>5, <2>1 DEF RemoveNode
<1>6. ASSUME NEW x \in IssuedIds, NEW y \in IssuedIds, InsertEdge(x, y) \/ RemoveEdge(x, y)
      PROVE  UNCHANGED <<size, version, masked_ptr, free_nodes>>
  BY <1>6 DEF InsertEdge, InsertExpired, InsertSelf, InsertKnown, InsertInOrder, InsertCycle,
              InsertReordered, RemoveEdge, graph
<1>7. ASSUME NEW p \in Ptrs, GetKnownId(p) PROVE UNCHANGED <<size, version, masked_ptr, free_nodes>>
  BY <1>7 DEF GetKnownId, graph
<1>8. UNCHANGED vars => UNCHANGED <<size, version, masked_ptr, free_nodes>>
  BY DEF vars, graph
<1> QED BY <1>1, <1>2, <1>3, <1>5, <1>6, <1>7, <1>8 DEF NextAny, NodeNext

(* The state of LockOrder, read off the nodes.                             *)
CurrentId(i) == MakeId(i, version[i])
MapFacts ==
    /\ \A p \in Ptrs : \A i \in Nodes : masked_ptr[i] = p => OrderIdOf[p] = CurrentId(i)
    /\ \A p \in Ptrs : p \notin {masked_ptr[i] : i \in Nodes} => OrderIdOf[p] = InvalidGraphId
    /\ \A e : e \in OrderEdges <=> \E a, b \in Nodes : /\ b \in out[a]
                                                       /\ e = <<CurrentId(a), CurrentId(b)>>

LEMMA MapOfNodes == IInv => MapFacts
<1> SUFFICES ASSUME IInv PROVE MapFacts
  OBVIOUS
<1>1. ASSUME NEW p \in Ptrs, NEW i \in Nodes, masked_ptr[i] = p
      PROVE  OrderIdOf[p] = CurrentId(i)
  <2>1. \A j \in Nodes : masked_ptr[j] = p => j = i
    BY <1>1, GraphAssumption DEF IInv, CheckInvariants, PtrIsUnique
  <2>2. (CHOOSE j \in Nodes : masked_ptr[j] = p) = i
    BY <1>1, <2>1
  <2> QED BY <1>1, <2>2 DEF OrderIdOf, CurrentId
<1>2. ASSUME NEW p \in Ptrs, p \notin {masked_ptr[i] : i \in Nodes}
      PROVE  OrderIdOf[p] = InvalidGraphId
  BY <1>2 DEF OrderIdOf
<1>3. ASSUME NEW e
      PROVE  e \in OrderEdges <=> \E a, b \in Nodes : /\ b \in out[a]
                                                      /\ e = <<CurrentId(a), CurrentId(b)>>
  <2>1. ASSUME NEW a \in Nodes, NEW b \in Nodes, b \in out[a], e = <<CurrentId(a), CurrentId(b)>>
        PROVE  e \in OrderEdges
    <3> DEFINE p == <<a, b>>
    <3>1. p \in Nodes \X Nodes /\ p[1] = a /\ p[2] = b
      OBVIOUS
    <3> HIDE DEF p
    <3>2. e = <<MakeId(p[1], version[p[1]]), MakeId(p[2], version[p[2]])>>
      BY <2>1, <3>1 DEF CurrentId
    <3> QED BY <2>1, <3>1, <3>2 DEF OrderEdges
  <2>2. ASSUME e \in OrderEdges
        PROVE  \E a, b \in Nodes : b \in out[a] /\ e = <<CurrentId(a), CurrentId(b)>>
    <3>1. PICK p \in Nodes \X Nodes :
             /\ p[2] \in out[p[1]]
             /\ e = <<MakeId(p[1], version[p[1]]), MakeId(p[2], version[p[2]])>>
      BY <2>2 DEF OrderEdges
    <3>2. p[1] \in Nodes /\ p[2] \in Nodes
      OBVIOUS
    <3> QED BY <3>1, <3>2 DEF CurrentId
  <2> QED BY <2>1, <2>2
<1> QED BY <1>1, <1>2, <1>3 DEF MapFacts

LEMMA MapOfNodesNext == IInv' => MapFacts'
  BY MapOfNodes, PTL

LEMMA IdsOfNodes ==
    ASSUME FreeInv, IInv
    PROVE  /\ InvalidGraphId \notin Ids
           /\ \A i \in Nodes : CurrentId(i) \in Ids /\ CurrentId(i) # InvalidGraphId
           /\ \A i, j : CurrentId(i) = CurrentId(j) => i = j
<1>1. InvalidGraphId \notin Ids
  BY DEF InvalidGraphId, Ids, MakeId
<1>2. \A i \in Nodes : CurrentId(i) \in Ids
  BY NodesInIndex DEF FreeInv, CurrentId, MakeId, Ids
<1>3. \A i, j : CurrentId(i) = CurrentId(j) => i = j
  BY DEF CurrentId, MakeId
<1> QED BY <1>1, <1>2, <1>3

(* The live ids are the current ids of the nodes in use.                   *)
LEMMA LiveNodes ==
    ASSUME FreeInv, IInv
    PROVE  /\ \A i \in NodesInUse : CurrentId(i) \in Order!Live
           /\ \A id \in Order!Live : \E i \in NodesInUse : id = CurrentId(i)
<1>1. MapFacts /\ masked_ptr \in [Index -> Ptrs \cup {NoPtr}] /\ Nodes \subseteq Index
  BY MapOfNodes, NodesInIndex DEF IInv, TypeOK
<1>2. ASSUME NEW i \in NodesInUse PROVE CurrentId(i) \in Order!Live
  <2>1. i \in Nodes /\ masked_ptr[i] \in Ptrs
    BY <1>1 DEF NodesInUse
  <2>2. OrderIdOf[masked_ptr[i]] = CurrentId(i)
    BY <1>1, <2>1 DEF MapFacts
  <2>3. CurrentId(i) # InvalidGraphId
    BY <2>1, IdsOfNodes
  <2> QED BY <2>1, <2>2, <2>3 DEF Order!Live
<1>3. ASSUME NEW id \in Order!Live PROVE \E i \in NodesInUse : id = CurrentId(i)
  <2>1. PICK p \in Ptrs : id = OrderIdOf[p] /\ id # InvalidGraphId
    BY DEF Order!Live
  <2>2. PICK i \in Nodes : masked_ptr[i] = p
    BY <1>1, <2>1 DEF MapFacts
  <2>3. id = CurrentId(i) /\ i \in NodesInUse
    BY <1>1, <2>1, <2>2, GraphAssumption DEF MapFacts, NodesInUse
  <2> QED BY <2>3
<1> QED BY <1>2, <1>3

(* What calls that leave the nodes and their pointers alone keep.          *)
LEMMA SameIds ==
    ASSUME UNCHANGED <<size, version, masked_ptr, free_nodes>>
    PROVE  OrderIdOf' = OrderIdOf /\ IssuedIds' = IssuedIds
<1>1. IssuedIds' = IssuedIds
  BY DEF IssuedIds, Found, InFree
<1>2. OrderIdOf' = OrderIdOf
  BY DEF OrderIdOf, Nodes
<1> QED BY <1>1, <1>2
LEMMA SameEdges ==
    ASSUME UNCHANGED <<size, version, out>>
    PROVE  OrderEdges' = OrderEdges
  BY DEF OrderEdges, Nodes

(* An id the monitor passes to InsertEdge is a live one exactly when       *)
(* FindNode finds its node.                                                *)
LEMMA UsableLive ==
    ASSUME LiveInv, FreeInv, NEW id \in UsableIds
    PROVE  /\ Found(id) => /\ NodeIndex(id) \in NodesInUse
                           /\ id = CurrentId(NodeIndex(id))
           /\ Found(id) <=> id \in Order!Live
<1>1. id \in Ids /\ IInv
  BY DEF UsableIds, IssuedIds, LiveInv
<1>2. ASSUME Found(id) PROVE NodeIndex(id) \in NodesInUse /\ id = CurrentId(NodeIndex(id))
  <2>1. ~Retired(NodeIndex(id)) /\ ~InFree(NodeIndex(id))
    BY <1>2 DEF UsableIds, IssuedIds
  <2>2. NodeIndex(id) \in Nodes
    BY <1>1, <1>2, NodesInIndex
  <2>3. masked_ptr[NodeIndex(id)] # NoPtr
    BY <2>1, <2>2 DEF LiveInv, IdleNodesKnown, NodesInUse, Retired
  <2>4. id = CurrentId(NodeIndex(id))
    BY <1>1, <1>2 DEF Ids, Found, CurrentId, MakeId, NodeIndex, NodeVersion
  <2> QED BY <2>2, <2>3, <2>4 DEF NodesInUse
<1>3. Found(id) => id \in Order!Live
  BY <1>1, <1>2, LiveNodes
<1>4. ASSUME id \in Order!Live PROVE Found(id)
  <2>1. PICK i \in NodesInUse : id = CurrentId(i)
    BY <1>1, <1>4, LiveNodes
  <2> QED BY <2>1 DEF CurrentId, MakeId, Found, NodeIndex, NodeVersion
<1> QED BY <1>2, <1>3, <1>4

(* A set of nodes in use that no edge leaves keeps every way inside.       *)
LEMMA NoWay ==
    ASSUME LiveInv, FreeInv, NEW S \in SUBSET NodesInUse,
           \A a \in S : \A b \in out[a] : b \in S,
           NEW i \in Nodes, NEW j \in S, i \notin S
    PROVE  ~Order!Leads(OrderEdges, Order!Live, CurrentId(j), CurrentId(i))
<1> DEFINE T == {CurrentId(k) : k \in S}
<1>0. IInv /\ MapFacts
  BY MapOfNodes DEF LiveInv
<1>1. \A a, b : CurrentId(a) = CurrentId(b) => a = b
  BY <1>0, IdsOfNodes
<1>2. T \in SUBSET Order!Live /\ CurrentId(j) \in T
  BY <1>0, LiveNodes
<1>3. ASSUME NEW e \in OrderEdges, e[1] \in T PROVE e[2] \in T
  <2>1. PICK a, b \in Nodes : b \in out[a] /\ e = <<CurrentId(a), CurrentId(b)>>
    BY <1>0, <1>3 DEF MapFacts
  <2>2. e[1] = CurrentId(a) /\ e[2] = CurrentId(b)
    BY <2>1
  <2>3. PICK k \in S : CurrentId(a) = CurrentId(k)
    BY <1>3, <2>2
  <2>4. a \in S
    BY <1>1, <2>3
  <2> QED BY <2>1, <2>2, <2>4
<1>4. CurrentId(i) \notin T
  BY <1>1
<1> HIDE DEF T
<1> QED BY <1>2, <1>3, <1>4 DEF Order!Leads

(* ForwardDFS meets x only where the edges lead from y to x.               *)
LEMMA HitIsWay ==
    ASSUME LiveInv, FreeInv, NEW i \in NodesInUse, NEW j \in NodesInUse,
           HitsUpper(j, rank[i])
    PROVE  Order!Leads(OrderEdges, Order!Live, CurrentId(j), CurrentId(i))
<1>0. IInv /\ MapFacts /\ Nodes \subseteq Index /\ RanksDiffer
  BY MapOfNodes, NodesInIndex DEF LiveInv, IInv, CheckInvariants
<1>1. \A a \in Index : \A b \in out[a] : a \in Nodes /\ b \in Nodes
  BY DEF LiveInv, EdgesJoinLiveNodes
<1>2. SUFFICES ASSUME NEW S \in SUBSET Order!Live, CurrentId(j) \in S,
                      \A e \in OrderEdges : e[1] \in S => e[2] \in S
               PROVE  CurrentId(i) \in S
  BY DEF Order!Leads
<1> DEFINE T == {k \in Index : CurrentId(k) \in S}
<1>3. T \in SUBSET Index /\ j \in T
  BY <1>0, <1>2 DEF NodesInUse
<1>4. ASSUME NEW a \in T, NEW b \in out[a] PROVE b \in T
  <2>1. a \in Nodes /\ b \in Nodes /\ b \in Index /\ CurrentId(a) \in S
    BY <1>0, <1>1
  <2> DEFINE e == <<CurrentId(a), CurrentId(b)>>
  <2>2. e \in OrderEdges
    BY <1>0, <2>1 DEF MapFacts
  <2>3. e[1] = CurrentId(a) /\ e[2] = CurrentId(b)
    OBVIOUS
  <2> HIDE DEF e
  <2>4. CurrentId(b) \in S
    BY <1>2, <2>1, <2>2, <2>3
  <2> QED BY <2>1, <2>4
<1>5. PICK a \in ForwardSet(j, rank[i]) : \E b \in out[a] : rank[b] = rank[i]
  BY DEF HitsUpper
<1>6. PICK b \in out[a] : rank[b] = rank[i]
  BY <1>5
<1>7. a \in T
  <2>1. \A R \in SUBSET Index :
          (j \in R /\ \A c \in R : \A d \in out[c] : rank[d] < rank[i] => d \in R) => a \in R
    BY <1>5 DEF ForwardSet
  <2> HIDE DEF T
  <2> QED BY <1>3, <1>4, <2>1
<1>8. b \in T
  BY <1>4, <1>6, <1>7
<1>9. b = i
  BY <1>0, <1>6, <1>8 DEF RanksDiffer, NodesInUse
<1> QED BY <1>8, <1>9

(* An insertion adds the pair of the two ids and no other.                 *)
LEMMA LinkedEdges ==
    ASSUME LiveInv, IInv', NEW i \in Nodes, NEW j \in Nodes, Link(i, j),
           UNCHANGED <<size, version>>
    PROVE  OrderEdges' = OrderEdges \cup {<<CurrentId(i), CurrentId(j)>>}
<1>0. IInv /\ MapFacts /\ MapFacts' /\ Nodes \subseteq Index
      /\ out \in [Index -> SUBSET Index]
  BY MapOfNodes, MapOfNodesNext, NodesInIndex DEF LiveInv, IInv, TypeOK
<1>1. Nodes' = Nodes /\ \A a : CurrentId(a)' = CurrentId(a)
  BY DEF Nodes, CurrentId
<1>2. \A a \in Nodes : out'[a] = IF a = i THEN out[a] \cup {j} ELSE out[a]
  BY <1>0 DEF Link, Inserted
<1>3. \A e : e \in OrderEdges' <=> \E a, b \in Nodes : /\ b \in out'[a]
                                                       /\ e = <<CurrentId(a), CurrentId(b)>>
  BY <1>0, <1>1 DEF MapFacts
<1>4. \A e : e \in OrderEdges <=> \E a, b \in Nodes : /\ b \in out[a]
                                                      /\ e = <<CurrentId(a), CurrentId(b)>>
  BY <1>0 DEF MapFacts
<1>5. ASSUME NEW e \in OrderEdges' PROVE e \in OrderEdges \cup {<<CurrentId(i), CurrentId(j)>>}
  <2>1. PICK a, b \in Nodes : b \in out'[a] /\ e = <<CurrentId(a), CurrentId(b)>>
    BY <1>3
  <2>2. b \in out[a] \/ (a = i /\ b = j)
    BY <1>2, <2>1
  <2> QED BY <1>4, <2>1, <2>2
<1>6. ASSUME NEW e \in OrderEdges \cup {<<CurrentId(i), CurrentId(j)>>} PROVE e \in OrderEdges'
  <2>1. \E a, b \in Nodes : b \in out'[a] /\ e = <<CurrentId(a), CurrentId(b)>>
    BY <1>2, <1>4
  <2> QED BY <1>3, <2>1
<1> QED BY <1>5, <1>6

(* InsertEdge of the graph with ranks is InsertEdge of the promise: it     *)
(* refuses exactly when the edges already lead back from y to x.           *)
LEMMA InsertKeepsPromise ==
    ASSUME LiveInv, FreeInv, IInv', NEW x \in UsableIds, NEW y \in UsableIds, InsertEdge(x, y)
    PROVE  Order!InsertEdge(x, y)
<1> DEFINE i == NodeIndex(x)
           j == NodeIndex(y)
           back == Order!Leads(OrderEdges, Order!Live, y, x)
<1>0. /\ IInv /\ Nodes \subseteq Index /\ out \in [Index -> SUBSET Index]
      /\ MapFacts /\ RanksDiffer /\ EdgesIncreaseRank
      /\ \A k \in Index : rank[k] \in Int
  <2>1. IInv
    BY DEF LiveInv
  <2>2. rank \in [Index -> Index] /\ Index \subseteq Int
    BY <2>1, IndexIsFinite DEF IInv, TypeOK
  <2> QED BY <2>1, <2>2, MapOfNodes, NodesInIndex DEF IInv, TypeOK, CheckInvariants
<1>1. UNCHANGED <<size, version, masked_ptr, free_nodes>>
  BY DEF InsertEdge, InsertExpired, InsertSelf, InsertKnown, InsertInOrder, InsertCycle,
         InsertReordered, graph
<1>2. OrderIdOf' = OrderIdOf /\ IssuedIds' = IssuedIds
  BY <1>1, SameIds
<1>3. /\ Found(x) <=> x \in Order!Live
      /\ Found(y) <=> y \in Order!Live
      /\ Found(x) => i \in NodesInUse /\ x = CurrentId(i)
      /\ Found(y) => j \in NodesInUse /\ y = CurrentId(j)
  BY UsableLive
<1>o. \A a \in Index : \A b \in out[a] : /\ a \in NodesInUse /\ b \in NodesInUse
                                         /\ a \in Index /\ b \in Index /\ rank[a] < rank[b]
  BY <1>0 DEF LiveInv, EdgesJoinLiveNodes, NodesInUse, EdgesIncreaseRank
\* No edge leaves the nodes from a rank upwards.
<1>u. ASSUME NEW r \in NodesInUse, NEW a \in {k \in NodesInUse : rank[r] <= rank[k]},
             NEW b \in out[a]
      PROVE  b \in {k \in NodesInUse : rank[r] <= rank[k]}
  <2>1. a \in Index /\ b \in NodesInUse /\ b \in Index /\ r \in Index
    BY <1>0, <1>o DEF NodesInUse
  <2>2. rank[a] < rank[b] /\ rank[r] <= rank[a]
    BY <1>o, <2>1
  <2> QED BY <1>0, <2>1, <2>2
\* No way leads from y to an x of a lower rank.
<1>n. ASSUME Found(x), Found(y), rank[i] < rank[j] PROVE ~back
  <2> DEFINE S == {k \in NodesInUse : rank[j] <= rank[k]}
  <2>1. i \in NodesInUse /\ j \in NodesInUse /\ x = CurrentId(i) /\ y = CurrentId(j)
    BY <1>3, <1>n
  <2>2. i \in Nodes /\ i \in Index /\ j \in Index
    BY <1>0, <2>1 DEF NodesInUse
  <2>3. S \in SUBSET NodesInUse /\ j \in S /\ i \notin S
    BY <1>0, <1>n, <2>1, <2>2
  <2>4. \A a \in S : \A b \in out[a] : b \in S
    BY <1>u, <2>1
  <2> HIDE DEF S
  <2>5. ~Order!Leads(OrderEdges, Order!Live, CurrentId(j), CurrentId(i))
    BY <2>2, <2>3, <2>4, NoWay
  <2> QED BY <2>1, <2>5
<1>m. Found(x) /\ Found(y) /\ x # y => i # j
  BY <1>3
<1> HIDE DEF back
\* What each outcome owes the promise.
<1>r. ASSUME NEW ok \in BOOLEAN, EdgeAnswer(x, y, ok),
             ok <=> ~(Found(x) /\ Found(y) /\ back),
             OrderEdges' = IF Found(x) /\ Found(y) /\ ~back
                           THEN OrderEdges \cup {<<x, y>>} ELSE OrderEdges
      PROVE  Order!InsertEdge(x, y)
  <2>1. {x, y} \subseteq Order!Live <=> Found(x) /\ Found(y)
    BY <1>3
  <2> DEFINE refused == /\ {x, y} \subseteq Order!Live
                        /\ Order!Leads(OrderEdges, Order!Live, y, x)
  <2>2. refused <=> (Found(x) /\ Found(y) /\ back)
    BY <2>1 DEF back
  <2>3. answer' = [call |-> "InsertEdge", from |-> x, to |-> y, ok |-> ~refused]
    <3>1. ok = ~refused
      BY <1>r, <2>2
    <3> HIDE DEF refused
    <3> QED BY <1>r, <3>1 DEF EdgeAnswer
  <2>4. OrderEdges' = IF {x, y} \subseteq Order!Live /\ ~refused
                      THEN OrderEdges \cup {<<x, y>>} ELSE OrderEdges
    <3> HIDE DEF refused
    <3> QED BY <1>r, <2>1, <2>2
  <2> QED BY <1>2, <2>3, <2>4 DEF Order!InsertEdge
<1>s. UNCHANGED graph => OrderEdges' = OrderEdges
  BY <1>1, SameEdges DEF graph
<1>l. ASSUME Found(x), Found(y), Link(i, j) PROVE OrderEdges' = OrderEdges \cup {<<x, y>>}
  <2>1. i \in Nodes /\ j \in Nodes /\ x = CurrentId(i) /\ y = CurrentId(j)
    BY <1>3, <1>l DEF NodesInUse
  <2> HIDE DEF i, j
  <2> QED BY <1>0, <1>1, <1>l, <2>1, LinkedEdges
<1>4. CASE InsertExpired(x, y)
  BY <1>4, <1>r, <1>s DEF InsertExpired
<1>5. CASE InsertSelf(x, y)
  <2>1. back
    BY <1>5 DEF back, Order!Leads, InsertSelf
  <2> QED BY <1>5, <1>r, <1>s, <2>1 DEF InsertSelf
<1>6. CASE InsertKnown(x, y)
  <2>1. Found(x) /\ Found(y) /\ j \in out[i] /\ EdgeAnswer(x, y, TRUE) /\ UNCHANGED graph
    BY <1>6 DEF InsertKnown
  <2>2. i \in NodesInUse /\ j \in NodesInUse /\ i \in Index
    BY <1>0, <1>3, <2>1 DEF NodesInUse
  <2>3. ~back
    BY <1>n, <1>o, <2>1, <2>2
  <2>4. <<x, y>> \in OrderEdges
    <3>1. i \in Nodes /\ j \in Nodes /\ x = CurrentId(i) /\ y = CurrentId(j)
      BY <1>3, <2>1 DEF NodesInUse
    <3> QED BY <1>0, <2>1, <3>1 DEF MapFacts
  <2>5. OrderEdges' = OrderEdges \cup {<<x, y>>}
    BY <1>s, <2>1, <2>4
  <2> QED BY <1>r, <2>1, <2>3, <2>5
<1>7. CASE InsertInOrder(x, y)
  <2>1. /\ Found(x) /\ Found(y) /\ x # y /\ rank[i] <= rank[j]
        /\ Link(i, j) /\ EdgeAnswer(x, y, TRUE)
    BY <1>7 DEF InsertInOrder, NewEdge
  <2>2. i \in Index /\ j \in Index /\ i # j
    BY <1>0, <1>3, <1>m, <2>1 DEF NodesInUse
  <2>3. rank[i] < rank[j]
    <3> HIDE DEF i, j
    <3> QED BY <1>0, <2>1, <2>2 DEF RanksDiffer
  <2>4. ~back
    BY <1>n, <2>1, <2>3
  <2> QED BY <1>l, <1>r, <2>1, <2>4
<1>8. CASE InsertCycle(x, y)
  <2>1. /\ Found(x) /\ Found(y) /\ HitsUpper(j, rank[i])
        /\ EdgeAnswer(x, y, FALSE) /\ UNCHANGED graph
    <3>1. x \in Ids /\ y \in Ids
      BY DEF UsableIds, IssuedIds
    <3>2. UNCHANGED graph
      BY <1>0, <1>8, <3>1, RefusalUndone
    <3> QED BY <1>8, <3>2 DEF InsertCycle, NewEdge
  <2>2. back
    <3>1. i \in NodesInUse /\ j \in NodesInUse /\ x = CurrentId(i) /\ y = CurrentId(j)
      BY <1>3, <2>1
    <3>2. Order!Leads(OrderEdges, Order!Live, CurrentId(j), CurrentId(i))
      BY <2>1, <3>1, HitIsWay
    <3> QED BY <3>1, <3>2 DEF back
  <2> QED BY <1>r, <1>s, <2>1, <2>2
<1>9. CASE InsertReordered(x, y)
  <2>1. /\ Found(x) /\ Found(y) /\ rank[i] > rank[j] /\ ~HitsUpper(j, rank[i])
        /\ Link(i, j) /\ EdgeAnswer(x, y, TRUE)
    BY <1>9 DEF InsertReordered, NewEdge
  <2>2. i \in NodesInUse /\ j \in NodesInUse /\ x = CurrentId(i) /\ y = CurrentId(j)
    BY <1>3, <2>1
  <2>3. i \in Nodes /\ j \in Nodes /\ i \in Index /\ j \in Index
    BY <1>0, <2>2 DEF NodesInUse
  <2>4. rank[j] < rank[i]
    BY <1>0, <2>1, <2>3
  <2> DEFINE F == ForwardSet(j, rank[i])
             B == BackwardSet(i, rank[j], F)
  <2>5. /\ F \subseteq Nodes /\ j \in F
        /\ \A n \in F : rank[j] <= rank[n] /\ rank[n] < rank[i]
        /\ \A n \in F : \A m \in out[n] : m \in F \/ rank[i] < rank[m]
    <3> HIDE DEF i, j
    <3> QED BY <1>0, <2>1, <2>3, <2>4, Searches
  <2> HIDE DEF F
  \* What ForwardDFS visits, and whatever is ranked after x.
  <2> DEFINE S == (F \cap NodesInUse) \cup {k \in NodesInUse : rank[i] < rank[k]}
  <2>6. S \in SUBSET NodesInUse /\ j \in S
    BY <2>2, <2>5
  <2>7. i \notin S
    <3>1. ~(rank[i] < rank[i])
      BY <1>0, <2>3
    <3> QED BY <2>5, <3>1
  <2>8. ASSUME NEW a \in S, NEW b \in out[a] PROVE b \in S
    <3>1. a \in Index /\ b \in NodesInUse /\ b \in Index /\ rank[a] < rank[b]
      BY <1>0, <1>o, <2>8 DEF NodesInUse
    <3>2. CASE a \in F
      BY <2>5, <3>1, <3>2
    <3>3. CASE rank[i] < rank[a]
      <4>1. rank[i] < rank[b]
        <5> HIDE DEF i
        <5> QED BY <1>0, <2>3, <3>1, <3>3
      <4> QED BY <3>1, <4>1
    <3> QED BY <3>2, <3>3
  <2> HIDE DEF S
  <2>9. ~Order!Leads(OrderEdges, Order!Live, CurrentId(j), CurrentId(i))
    BY <2>3, <2>6, <2>7, <2>8, NoWay
  <2>10. ~back
    BY <2>2, <2>9 DEF back
  <2> QED BY <1>l, <1>r, <2>1, <2>10
<1> QED BY <1>4, <1>5, <1>6, <1>7, <1>8, <1>9 DEF InsertEdge

LEMMA RemoveEdgeKeepsPromise ==
    ASSUME LiveInv, FreeInv, IInv', NEW x \in UsableIds, NEW y \in UsableIds, RemoveEdge(x, y)
    PROVE  Order!RemoveEdge(x, y)
<1> DEFINE i == NodeIndex(x)
           j == NodeIndex(y)
<1>0. IInv /\ MapFacts /\ MapFacts' /\ Nodes \subseteq Index
      /\ out \in [Index -> SUBSET Index]
  BY MapOfNodes, MapOfNodesNext, NodesInIndex DEF LiveInv, IInv, TypeOK
<1>1. UNCHANGED <<size, version, masked_ptr, free_nodes>>
  BY DEF RemoveEdge, graph
<1>2. OrderIdOf' = OrderIdOf /\ IssuedIds' = IssuedIds
  BY <1>1, SameIds
<1>3. /\ Found(x) => i \in Nodes /\ x = CurrentId(i)
      /\ Found(y) => j \in Nodes /\ y = CurrentId(j)
  BY UsableLive DEF NodesInUse
<1>4. \A a, b : CurrentId(a) = CurrentId(b) => a = b
  BY <1>0, IdsOfNodes
<1>5. \A e : e \in OrderEdges <=> \E a, b \in Nodes : /\ b \in out[a]
                                                      /\ e = <<CurrentId(a), CurrentId(b)>>
  BY <1>0 DEF MapFacts
<1>6. \A e : e \in OrderEdges' <=> \E a, b \in Nodes : /\ b \in out'[a]
                                                       /\ e = <<CurrentId(a), CurrentId(b)>>
  <2>1. Nodes' = Nodes /\ \A a : CurrentId(a)' = CurrentId(a)
    BY <1>1 DEF Nodes, CurrentId
  <2> QED BY <1>0, <2>1 DEF MapFacts
<1>7. CASE Found(x) /\ Found(y) /\ out' = [out EXCEPT ![i] = @ \ {j}]
  <2>1. i \in Nodes /\ j \in Nodes /\ x = CurrentId(i) /\ y = CurrentId(j)
    BY <1>3, <1>7
  <2>2. \A a \in Nodes : out'[a] = IF a = i THEN out[a] \ {j} ELSE out[a]
    BY <1>0, <1>7, <2>1
  <2> HIDE DEF i, j
  <2>3. ASSUME NEW e \in OrderEdges' PROVE e \in OrderEdges \ {<<x, y>>}
    <3>1. PICK a, b \in Nodes : b \in out'[a] /\ e = <<CurrentId(a), CurrentId(b)>>
      BY <1>6
    <3>2. b \in out[a] /\ ~(a = i /\ b = j)
      BY <2>2, <3>1
    <3>3. e \in OrderEdges
      BY <1>5, <3>1, <3>2
    <3>4. e # <<x, y>>
      BY <1>4, <2>1, <3>1, <3>2
    <3> QED BY <3>3, <3>4
  <2>4. ASSUME NEW e \in OrderEdges, e # <<x, y>> PROVE e \in OrderEdges'
    <3>1. PICK a, b \in Nodes : b \in out[a] /\ e = <<CurrentId(a), CurrentId(b)>>
      BY <1>5
    <3>2. ~(a = i /\ b = j)
      BY <2>1, <2>4, <3>1
    <3>3. b \in out'[a]
      BY <2>2, <3>1, <3>2
    <3> QED BY <1>6, <3>1, <3>3
  <2>5. OrderEdges' = OrderEdges \ {<<x, y>>}
    BY <2>3, <2>4
  <2> QED BY <1>2, <2>5 DEF RemoveEdge, Order!RemoveEdge
<1>8. CASE ~(Found(x) /\ Found(y)) /\ UNCHANGED graph
  <2>1. OrderEdges' = OrderEdges
    BY <1>8, SameEdges DEF graph
  <2>2. ASSUME <<x, y>> \in OrderEdges PROVE FALSE
    <3>1. PICK a, b \in Nodes : <<x, y>> = <<CurrentId(a), CurrentId(b)>>
      BY <1>5, <2>2
    <3>2. x = CurrentId(a) /\ y = CurrentId(b)
      BY <3>1
    <3> QED BY <1>8, <3>2 DEF CurrentId, MakeId, Found, NodeIndex, NodeVersion
  <2> QED BY <1>2, <2>1, <2>2 DEF RemoveEdge, Order!RemoveEdge
<1> QED BY <1>7, <1>8 DEF RemoveEdge

LEMMA GetKnownKeepsPromise ==
    ASSUME LiveInv, FreeInv, NEW p \in Ptrs, GetKnownId(p)
    PROVE  Order!GetId(p)
<1>1. PICK i \in Nodes : masked_ptr[i] = p /\ IdAnswer(p, CurrentId(i)) /\ UNCHANGED graph
  BY DEF GetKnownId, CurrentId
<1>2. OrderIdOf[p] = CurrentId(i) /\ CurrentId(i) # InvalidGraphId
  BY <1>1, MapOfNodes, IdsOfNodes DEF LiveInv, MapFacts
<1>3. OrderIdOf' = OrderIdOf /\ IssuedIds' = IssuedIds /\ OrderEdges' = OrderEdges
  BY <1>1, SameIds, SameEdges DEF graph
<1>4. answer' = [call |-> "GetId", ptr |-> p, id |-> OrderIdOf'[p]]
  BY <1>1, <1>2, <1>3 DEF IdAnswer
<1> QED BY <1>2, <1>3, <1>4 DEF Order!GetId

(* Node r is given to the address p, which had none, under an id that no   *)
(* call has returned.                                                      *)
LEMMA FreshIdKeepsPromise ==
    ASSUME LiveInv, FreeInv, IInv', FreeInv', NEW p \in Ptrs,
           p \notin {masked_ptr[i] : i \in Nodes},
           NEW r \in Index, Nodes' = Nodes \cup {r}, masked_ptr[r] = NoPtr,
           masked_ptr' = [masked_ptr EXCEPT ![r] = p],
           \A k \in Nodes \ {r} : version'[k] = version[k], UNCHANGED out,
           NEW id, id = MakeId(r, version'[r]), id \in Ids \ IssuedIds,
           IssuedIds' = IssuedIds \cup {id}, IdAnswer(p, id)
    PROVE  Order!GetId(p)
<1>0. IInv /\ MapFacts /\ MapFacts' /\ Nodes \subseteq Index
      /\ masked_ptr \in [Index -> Ptrs \cup {NoPtr}]
  BY MapOfNodes, MapOfNodesNext, NodesInIndex DEF LiveInv, IInv, TypeOK
<1>1. \A k \in Nodes \ {r} : CurrentId(k)' = CurrentId(k) /\ masked_ptr'[k] = masked_ptr[k]
  BY <1>0 DEF CurrentId
<1>2. OrderIdOf[p] = InvalidGraphId
  BY <1>0 DEF MapFacts
<1>3. masked_ptr'[r] = p /\ r \in Nodes' /\ CurrentId(r)' = id
  BY <1>0 DEF CurrentId
<1>4. OrderIdOf'[p] = id
  BY <1>0, <1>3 DEF MapFacts
<1>5. ASSUME NEW q \in Ptrs, q # p PROVE OrderIdOf'[q] = OrderIdOf[q]
  <2>1. CASE \E k \in Nodes : masked_ptr[k] = q
    <3>1. PICK k \in Nodes : masked_ptr[k] = q
      BY <2>1
    <3>2. k # r
      BY <3>1, GraphAssumption
    <3>3. k \in Nodes' /\ masked_ptr'[k] = q /\ CurrentId(k)' = CurrentId(k)
      BY <1>1, <3>1, <3>2
    <3>4. OrderIdOf'[q] = CurrentId(k)'
      BY <1>0, <3>3 DEF MapFacts
    <3>5. OrderIdOf[q] = CurrentId(k)
      BY <1>0, <3>1 DEF MapFacts
    <3> QED BY <3>3, <3>4, <3>5
  <2>2. CASE ~\E k \in Nodes : masked_ptr[k] = q
    <3>1. \A k \in Nodes' : masked_ptr'[k] # q
      BY <1>1, <1>3, <1>5, <2>2
    <3>2. q \notin {masked_ptr'[k] : k \in Nodes'}
      BY <3>1
    <3>3. OrderIdOf'[q] = InvalidGraphId
      BY <1>0, <3>2 DEF MapFacts, InvalidGraphId, MakeId
    <3>4. OrderIdOf[q] = InvalidGraphId
      BY <1>0, <2>2 DEF MapFacts
    <3> QED BY <3>3, <3>4
  <2> QED BY <2>1, <2>2
<1>6. OrderIdOf' = [OrderIdOf EXCEPT ![p] = id]
  <2>1. /\ OrderIdOf = [q \in Ptrs |-> OrderIdOf[q]]
        /\ OrderIdOf' = [q \in Ptrs |-> OrderIdOf'[q]]
    BY DEF OrderIdOf
  <2> QED BY <1>4, <1>5, <2>1
<1>7. \A a \in Index : \A b \in out[a] : a \in Nodes \ {r} /\ b \in Nodes \ {r}
  BY DEF LiveInv, EdgesJoinLiveNodes
<1>8. ASSUME NEW e PROVE e \in OrderEdges' <=> e \in OrderEdges
  <2>1. e \in OrderEdges' <=> \E a, b \in Nodes' : /\ b \in out'[a]
                                                   /\ e = <<CurrentId(a)', CurrentId(b)'>>
    BY <1>0 DEF MapFacts
  <2>2. e \in OrderEdges <=> \E a, b \in Nodes : /\ b \in out[a]
                                                 /\ e = <<CurrentId(a), CurrentId(b)>>
    BY <1>0 DEF MapFacts
  <2>3. Nodes' \subseteq Index
    BY <1>0
  <2>4. ASSUME NEW a \in Nodes', NEW b \in Nodes', b \in out'[a]
        PROVE  /\ a \in Nodes /\ b \in Nodes /\ b \in out[a]
               /\ CurrentId(a)' = CurrentId(a) /\ CurrentId(b)' = CurrentId(b)
    BY <1>1, <1>7, <2>3, <2>4
  <2>5. ASSUME NEW a \in Nodes, NEW b \in Nodes, b \in out[a]
        PROVE  /\ a \in Nodes' /\ b \in Nodes' /\ b \in out'[a]
               /\ CurrentId(a)' = CurrentId(a) /\ CurrentId(b)' = CurrentId(b)
    BY <1>0, <1>1, <1>7, <2>5
  <2>6. ASSUME e \in OrderEdges' PROVE e \in OrderEdges
    <3>1. PICK a, b \in Nodes' : b \in out'[a] /\ e = <<CurrentId(a)', CurrentId(b)'>>
      BY <2>1, <2>6
    <3> QED BY <2>2, <2>4, <3>1
  <2>7. ASSUME e \in OrderEdges PROVE e \in OrderEdges'
    <3>1. PICK a, b \in Nodes : b \in out[a] /\ e = <<CurrentId(a), CurrentId(b)>>
      BY <2>2, <2>7
    <3> QED BY <2>1, <2>5, <3>1
  <2> QED BY <2>6, <2>7
<1>9. OrderEdges' = OrderEdges
  BY <1>8
<1>10. answer' = [call |-> "GetId", ptr |-> p, id |-> OrderIdOf'[p]]
  BY <1>4 DEF IdAnswer
<1> QED BY <1>2, <1>6, <1>9, <1>10 DEF Order!GetId

LEMMA GetNewKeepsPromise ==
    ASSUME LiveInv, FreeInv, IInv', FreeInv', NEW p \in Ptrs, GetNewId(p)
    PROVE  Order!GetId(p)
<1> DEFINE r == size
           id == MakeId(r, 1)
<1>0. /\ IInv /\ size \in 0 .. MaxNodes /\ version \in [Index -> 0 .. MaxVersion]
      /\ masked_ptr \in [Index -> Ptrs \cup {NoPtr}] /\ FreshCells /\ Nodes \subseteq Index
  BY NodesInIndex DEF LiveInv, IInv, TypeOK
<1>1. r \in Index /\ r \notin Nodes /\ Nodes' = Nodes \cup {r}
  BY <1>0, GraphAssumption DEF GetNewId, Nodes, Index
<1>2. masked_ptr[r] = NoPtr /\ version[r] = 0
  BY <1>0, <1>1 DEF FreshCells
<1>3. /\ p \notin {masked_ptr[i] : i \in Nodes}
      /\ masked_ptr' = [masked_ptr EXCEPT ![r] = p]
      /\ version' = [version EXCEPT ![r] = 1]
      /\ UNCHANGED <<out, free_nodes>> /\ free_nodes = <<>>
      /\ IdAnswer(p, id)
  BY DEF GetNewId
<1> HIDE DEF r
<1>4. version'[r] = 1 /\ \A k \in Index \ {r} : version'[k] = version[k]
  BY <1>0, <1>1, <1>3
<1>5. id \in Ids /\ NodeIndex(id) = r /\ NodeVersion(id) = 1
  BY <1>1, GraphAssumption DEF Ids, MakeId, NodeIndex, NodeVersion
<1>6. id \notin IssuedIds
  BY <1>2, <1>5 DEF IssuedIds
<1>7. \A k : ~InFree(k) /\ ~InFree(k)'
  BY <1>3 DEF InFree
<1>8. ASSUME NEW d \in Ids PROVE d \in IssuedIds' <=> d \in IssuedIds \cup {id}
  <2>1. /\ NodeIndex(d) \in Index /\ NodeVersion(d) \in 1 .. MaxVersion
        /\ d = <<NodeIndex(d), NodeVersion(d)>>
    BY DEF Ids, NodeIndex, NodeVersion
  <2>2. /\ d \in IssuedIds <=> NodeVersion(d) <= version[NodeIndex(d)]
        /\ d \in IssuedIds' <=> NodeVersion(d) <= version'[NodeIndex(d)]
    BY <1>7 DEF IssuedIds
  <2>3. CASE NodeIndex(d) # r
    BY <1>4, <1>5, <2>1, <2>2, <2>3
  <2>4. CASE NodeIndex(d) = r
    <3>1. d \notin IssuedIds
      BY <1>2, <2>1, <2>2, <2>4
    <3>2. d \in IssuedIds' <=> NodeVersion(d) = 1
      BY <1>4, <2>1, <2>2, <2>4
    <3>3. d = id <=> NodeVersion(d) = 1
      BY <1>5, <2>1, <2>4 DEF MakeId
    <3> QED BY <3>1, <3>2, <3>3
  <2> QED BY <2>3, <2>4
<1>9. IssuedIds \subseteq Ids /\ IssuedIds' \subseteq Ids
  BY DEF IssuedIds
<1>10. IssuedIds' = IssuedIds \cup {id}
  BY <1>5, <1>8, <1>9
<1>11. id = MakeId(r, version'[r])
  BY <1>4
<1>12. \A k \in Nodes \ {r} : version'[k] = version[k]
  BY <1>0, <1>4
<1> HIDE DEF id
<1> QED BY <1>1, <1>2, <1>3, <1>5, <1>6, <1>10, <1>11, <1>12, FreshIdKeepsPromise

LEMMA GetRecycledKeepsPromise ==
    ASSUME LiveInv, FreeInv, IInv', FreeInv', NEW p \in Ptrs, GetRecycledId(p)
    PROVE  Order!GetId(p)
<1> DEFINE n == Len(free_nodes)
           r == free_nodes[n]
           id == MakeId(r, version[r])
<1>0. IInv /\ free_nodes \in Seq(Nodes) /\ Nodes \subseteq Index
  BY NodesInIndex DEF LiveInv, IInv, TypeOK
<1>1. /\ n \in Nat \ {0} /\ r \in Nodes
      /\ free_nodes' = SubSeq(free_nodes, 1, n - 1)
      /\ p \notin {masked_ptr[i] : i \in Nodes}
      /\ masked_ptr' = [masked_ptr EXCEPT ![r] = p]
      /\ IdAnswer(p, id) /\ UNCHANGED <<size, version, out>>
  BY <1>0 DEF GetRecycledId
<1>2. n \in 1 .. n
  BY <1>1
<1>3. masked_ptr[r] = NoPtr /\ version[r] \in 1 .. MaxVersion /\ InFree(r)
  BY <1>1, <1>2 DEF FreeInv, InFree
<1>4. \A q \in 1 .. n - 1 : q \in 1 .. n /\ q # n
  BY <1>1
<1>5. Len(free_nodes') = n - 1 /\ \A q \in 1 .. n - 1 : free_nodes'[q] = free_nodes[q]
  <2>1. Len(free_nodes') = n - 1
    <3>1. n \in Nat \ {0} /\ \A q \in 1 .. n - 1 : free_nodes[q] \in Nodes
      BY <1>0, <1>1, <1>4
    <3>2. free_nodes' = SubSeq(free_nodes, 1, n - 1)
      BY <1>1
    <3> HIDE DEF n, r
    <3>3. 1 \in Int /\ n - 1 \in Int
      BY <3>1
    <3>4. Len(SubSeq(free_nodes, 1, n - 1)) = IF 1 <= n - 1 THEN n - 1 - 1 + 1 ELSE 0
      BY <3>1, <3>3, SubSeqProperties
    <3> QED BY <3>1, <3>2, <3>4
  <2>2. ASSUME NEW q \in 1 .. n - 1 PROVE free_nodes'[q] = free_nodes[q]
    BY <1>0, <1>1, <2>2
  <2> QED BY <2>1, <2>2
<1>6. \A q \in 1 .. n : q = n \/ q \in 1 .. n - 1
  BY <1>1
<1>7. \A k : InFree(k)' <=> (InFree(k) /\ k # r)
  <2>1. \A q \in 1 .. n - 1 : free_nodes[q] # r
    BY <1>2, <1>4 DEF FreeInv
  <2> QED BY <1>4, <1>5, <1>6, <2>1 DEF InFree
<1> HIDE DEF r, n
<1>8. id \in Ids /\ NodeIndex(id) = r /\ NodeVersion(id) = version[r]
  BY <1>0, <1>1, <1>3 DEF Ids, MakeId, NodeIndex, NodeVersion
<1>9. id \notin IssuedIds
  BY <1>3, <1>8 DEF IssuedIds, Found
<1>10. ASSUME NEW d \in Ids PROVE d \in IssuedIds' <=> d \in IssuedIds \cup {id}
  <2>1. /\ NodeIndex(d) \in Index /\ NodeVersion(d) \in 1 .. MaxVersion
        /\ d = <<NodeIndex(d), NodeVersion(d)>>
    BY DEF Ids, NodeIndex, NodeVersion
  <2> DEFINE k == NodeIndex(d)
             v == NodeVersion(d)
  <2>2. /\ d \in IssuedIds <=> v <= version[k] /\ (version[k] = v => ~InFree(k))
        /\ d \in IssuedIds' <=> v <= version[k] /\ (version[k] = v => ~InFree(k)')
    BY <1>1 DEF IssuedIds, Found
  <2>3. d = id <=> (k = r /\ v = version[r])
    BY <1>8, <2>1 DEF MakeId
  <2> HIDE DEF k, v
  <2>4. CASE k = r
    BY <1>3, <1>7, <2>2, <2>3, <2>4
  <2>5. CASE k # r
    BY <1>7, <2>2, <2>3, <2>5
  <2> QED BY <2>4, <2>5
<1>11. IssuedIds \subseteq Ids /\ IssuedIds' \subseteq Ids
  BY DEF IssuedIds
<1>12. IssuedIds' = IssuedIds \cup {id}
  BY <1>8, <1>10, <1>11
<1>13. Nodes' = Nodes \cup {r} /\ r \in Index
  BY <1>0, <1>1 DEF Nodes
<1>14. id = MakeId(r, version'[r]) /\ \A k \in Nodes \ {r} : version'[k] = version[k]
  BY <1>1
<1> HIDE DEF id
<1> QED BY <1>1, <1>3, <1>8, <1>9, <1>12, <1>13, <1>14, FreshIdKeepsPromise

LEMMA RemoveAbsentKeepsPromise ==
    ASSUME LiveInv, FreeInv, NEW p \in Ptrs, UNCHANGED graph,
           p \notin {masked_ptr[i] : i \in Nodes},
           answer' = [call |-> "RemoveNode", ptr |-> p]
    PROVE  Order!RemoveNode(p)
<1>0. IInv /\ MapFacts
  BY MapOfNodes DEF LiveInv
<1>1. OrderIdOf' = OrderIdOf /\ IssuedIds' = IssuedIds /\ OrderEdges' = OrderEdges
  BY SameIds, SameEdges DEF graph
<1>2. OrderIdOf[p] = InvalidGraphId
  BY <1>0 DEF MapFacts
<1>3. OrderIdOf' = [OrderIdOf EXCEPT ![p] = InvalidGraphId]
  BY <1>1, <1>2 DEF OrderIdOf
<1>4. ASSUME NEW e \in OrderEdges PROVE OrderIdOf[p] \notin {e[1], e[2]}
  <2>1. PICK a, b \in Nodes : e = <<CurrentId(a), CurrentId(b)>>
    BY <1>0 DEF MapFacts
  <2>2. e[1] = CurrentId(a) /\ e[2] = CurrentId(b)
    BY <2>1
  <2>3. CurrentId(a) # InvalidGraphId /\ CurrentId(b) # InvalidGraphId
    BY <1>0, IdsOfNodes
  <2> QED BY <1>2, <2>2, <2>3
<1>5. OrderEdges' = {e \in OrderEdges : OrderIdOf[p] \notin {e[1], e[2]}}
  BY <1>1, <1>4
<1> QED BY <1>1, <1>3, <1>5 DEF Order!RemoveNode

LEMMA RemovePresentKeepsPromise ==
    ASSUME LiveInv, FreeInv, IInv', NEW p \in Ptrs, NEW i \in Nodes, masked_ptr[i] = p,
           in' = Isolate(in, out, i), out' = Isolate(out, in, i),
           masked_ptr' = [masked_ptr EXCEPT ![i] = NoPtr],
           IF version[i] = MaxVersion
           THEN UNCHANGED <<version, free_nodes>>
           ELSE /\ version' = [version EXCEPT ![i] = @ + 1]
                /\ free_nodes' = Append(free_nodes, i),
           size' = size, answer' = [call |-> "RemoveNode", ptr |-> p]
    PROVE  Order!RemoveNode(p)
<1>0. /\ IInv /\ MapFacts /\ MapFacts' /\ Nodes \subseteq Index /\ EdgesMirrored /\ PtrIsUnique
      /\ masked_ptr \in [Index -> Ptrs \cup {NoPtr}]
      /\ version \in [Index -> 0 .. MaxVersion]
      /\ out \in [Index -> SUBSET Index] /\ free_nodes \in Seq(Nodes)
  BY MapOfNodes, MapOfNodesNext, NodesInIndex DEF LiveInv, IInv, TypeOK, CheckInvariants
<1>1. Nodes' = Nodes /\ i \in Index
  BY <1>0 DEF Nodes
<1>2. \A k \in Index : masked_ptr'[k] = IF k = i THEN NoPtr ELSE masked_ptr[k]
  BY <1>0
<1>3. \A k \in Index : out'[k] = IF k = i THEN {} ELSE out[k] \ {i}
  BY <1>0, <1>1 DEF Isolate, EdgesMirrored
<1>4. \A k \in Index \ {i} : version'[k] = version[k]
  BY <1>0
<1>5. \A k \in Nodes \ {i} : CurrentId(k)' = CurrentId(k)
  BY <1>0, <1>4 DEF CurrentId
<1>6. OrderIdOf[p] = CurrentId(i)
  BY <1>0 DEF MapFacts
\* The address is forgotten, the others keep their ids.
<1>7. OrderIdOf'[p] = InvalidGraphId
  <2>1. \A k \in Nodes : masked_ptr'[k] # p
    BY <1>0, <1>2, GraphAssumption DEF PtrIsUnique
  <2>2. p \notin {masked_ptr'[k] : k \in Nodes'}
    BY <1>1, <2>1
  <2> QED BY <1>0, <2>2 DEF MapFacts, InvalidGraphId, MakeId
<1>8. ASSUME NEW q \in Ptrs, q # p PROVE OrderIdOf'[q] = OrderIdOf[q]
  <2>1. CASE \E k \in Nodes : masked_ptr[k] = q
    <3>1. PICK k \in Nodes : masked_ptr[k] = q
      BY <2>1
    <3>2. k # i /\ masked_ptr'[k] = q /\ k \in Nodes'
      BY <1>0, <1>1, <1>2, <1>8, <3>1
    <3>3. OrderIdOf'[q] = CurrentId(k)'
      BY <1>0, <3>2 DEF MapFacts
    <3>4. OrderIdOf[q] = CurrentId(k)
      BY <1>0, <3>1 DEF MapFacts
    <3> QED BY <1>5, <3>2, <3>3, <3>4
  <2>2. CASE ~\E k \in Nodes : masked_ptr[k] = q
    <3>1. \A k \in Nodes : masked_ptr'[k] # q
      BY <1>0, <1>2, <2>2, GraphAssumption
    <3>2. q \notin {masked_ptr'[k] : k \in Nodes'}
      BY <1>1, <3>1
    <3>3. OrderIdOf'[q] = InvalidGraphId
      BY <1>0, <3>2 DEF MapFacts, InvalidGraphId, MakeId
    <3>4. OrderIdOf[q] = InvalidGraphId
      BY <1>0, <2>2 DEF MapFacts
    <3> QED BY <3>3, <3>4
  <2> QED BY <2>1, <2>2
<1>9. OrderIdOf' = [OrderIdOf EXCEPT ![p] = InvalidGraphId]
  <2>1. /\ OrderIdOf = [q \in Ptrs |-> OrderIdOf[q]]
        /\ OrderIdOf' = [q \in Ptrs |-> OrderIdOf'[q]]
    BY DEF OrderIdOf
  <2> QED BY <1>7, <1>8, <2>1
\* Its edges go with it, the others stay.
<1>10. \A a, b : CurrentId(a) = CurrentId(b) => a = b
  BY <1>0, IdsOfNodes
<1>11. ASSUME NEW e
       PROVE  e \in OrderEdges' <=> (e \in OrderEdges /\ CurrentId(i) \notin {e[1], e[2]})
  <2>1. e \in OrderEdges' <=> \E a, b \in Nodes : /\ b \in out'[a]
                                                  /\ e = <<CurrentId(a)', CurrentId(b)'>>
    BY <1>0, <1>1 DEF MapFacts
  <2>2. e \in OrderEdges <=> \E a, b \in Nodes : /\ b \in out[a]
                                                 /\ e = <<CurrentId(a), CurrentId(b)>>
    BY <1>0 DEF MapFacts
  <2>3. ASSUME e \in OrderEdges' PROVE e \in OrderEdges /\ CurrentId(i) \notin {e[1], e[2]}
    <3>1. PICK a, b \in Nodes : b \in out'[a] /\ e = <<CurrentId(a)', CurrentId(b)'>>
      BY <2>1, <2>3
    <3>2. a # i /\ b # i /\ b \in out[a]
      BY <1>0, <1>3, <3>1
    <3>3. e = <<CurrentId(a), CurrentId(b)>>
      BY <1>5, <3>1, <3>2
    <3>4. e[1] = CurrentId(a) /\ e[2] = CurrentId(b)
      BY <3>3
    <3>5. e[1] # CurrentId(i) /\ e[2] # CurrentId(i)
      BY <1>10, <3>2, <3>4
    <3> QED BY <2>2, <3>2, <3>3, <3>5
  <2>4. ASSUME e \in OrderEdges, CurrentId(i) \notin {e[1], e[2]} PROVE e \in OrderEdges'
    <3>1. PICK a, b \in Nodes : b \in out[a] /\ e = <<CurrentId(a), CurrentId(b)>>
      BY <2>2, <2>4
    <3>2. a # i /\ b # i
      BY <2>4, <3>1
    <3>3. b \in out'[a]
      BY <1>0, <1>3, <3>1, <3>2
    <3>4. e = <<CurrentId(a)', CurrentId(b)'>>
      BY <1>5, <3>1, <3>2
    <3> QED BY <2>1, <3>3, <3>4
  <2> QED BY <2>3, <2>4
<1>12. OrderEdges' = {e \in OrderEdges : OrderIdOf[p] \notin {e[1], e[2]}}
  <2> DEFINE R == {e \in OrderEdges : OrderIdOf[p] \notin {e[1], e[2]}}
  <2>1. \A e : e \in OrderEdges' <=> e \in R
    BY <1>6, <1>11
  <2> HIDE DEF R
  <2>2. OrderEdges' = R
    BY <2>1
  <2> QED BY <2>2 DEF R
\* No id that was returned before is taken back, and no new one is returned.
<1>13. IssuedIds' = IssuedIds
  <2>1. CASE version[i] = MaxVersion
    <3>1. version' = version /\ free_nodes' = free_nodes
      BY <2>1
    <3> QED BY <3>1 DEF IssuedIds, Found, InFree
  <2>2. CASE version[i] # MaxVersion
    <3>1. version' = [version EXCEPT ![i] = @ + 1] /\ free_nodes' = Append(free_nodes, i)
      BY <2>2
    <3>2. version'[i] = version[i] + 1 /\ version[i] \in Nat
      BY <1>0, <1>1, <3>1
    <3>3. /\ Len(free_nodes) \in Nat /\ Len(free_nodes') = Len(free_nodes) + 1
          /\ free_nodes'[Len(free_nodes) + 1] = i
          /\ \A q \in 1 .. Len(free_nodes) : free_nodes'[q] = free_nodes[q]
      BY <1>0, <3>1
    <3>4. /\ \A q \in 1 .. Len(free_nodes') : q \in 1 .. Len(free_nodes) \/ q = Len(free_nodes) + 1
          /\ \A q \in 1 .. Len(free_nodes) : q \in 1 .. Len(free_nodes')
          /\ Len(free_nodes) + 1 \in 1 .. Len(free_nodes')
      BY <3>3
    <3>5. InFree(i)' /\ \A k : k # i => (InFree(k)' <=> InFree(k))
      BY <3>3, <3>4 DEF InFree
    <3>6. ~InFree(i)
      BY GraphAssumption DEF FreeInv, InFree
    <3>7. ASSUME NEW d \in Ids PROVE d \in IssuedIds' <=> d \in IssuedIds
      <4> DEFINE k == NodeIndex(d)
                 v == NodeVersion(d)
      <4>1. k \in Index /\ v \in 1 .. MaxVersion
        BY DEF Ids, NodeIndex, NodeVersion
      <4>2. /\ d \in IssuedIds <=> v <= version[k] /\ (version[k] = v => ~InFree(k))
            /\ d \in IssuedIds' <=> v <= version'[k] /\ (version'[k] = v => ~InFree(k)')
        BY DEF IssuedIds, Found
      <4> HIDE DEF k, v
      <4>3. CASE k = i
        BY <3>2, <3>5, <3>6, <4>1, <4>2, <4>3
      <4>4. CASE k # i
        BY <1>4, <3>5, <4>1, <4>2, <4>4
      <4> QED BY <4>3, <4>4
    <3>8. IssuedIds \subseteq Ids /\ IssuedIds' \subseteq Ids
      BY DEF IssuedIds
    <3> QED BY <3>7, <3>8
  <2> QED BY <2>1, <2>2
<1> QED BY <1>9, <1>12, <1>13 DEF Order!RemoveNode

LEMMA RemoveNodeKeepsPromise ==
    ASSUME LiveInv, FreeInv, IInv', NEW p \in Ptrs, RemoveNode(p)
    PROVE  Order!RemoveNode(p)
<1>1. answer' = [call |-> "RemoveNode", ptr |-> p]
  BY DEF RemoveNode
<1>2. CASE p \notin {masked_ptr[i] : i \in Nodes} /\ UNCHANGED graph
  BY <1>1, <1>2, RemoveAbsentKeepsPromise
<1>3. ASSUME NEW i \in Nodes, masked_ptr[i] = p,
             in' = Isolate(in, out, i), out' = Isolate(out, in, i),
             masked_ptr' = [masked_ptr EXCEPT ![i] = NoPtr],
             IF version[i] = MaxVersion
             THEN UNCHANGED <<version, free_nodes>>
             ELSE /\ version' = [version EXCEPT ![i] = @ + 1]
                  /\ free_nodes' = Append(free_nodes, i),
             size' = size
      PROVE  Order!RemoveNode(p)
  BY <1>1, <1>3, RemovePresentKeepsPromise
<1> QED BY <1>2, <1>3 DEF RemoveNode

LEMMA InitKeepsPromise == Init => Order!Init
<1> SUFFICES ASSUME Init PROVE Order!Init
  OBVIOUS
<1>1. Nodes = {} /\ version = [i \in Index |-> 0] /\ answer = [call |-> "none"]
  BY DEF Init, Nodes
<1>2. OrderIdOf = [p \in Ptrs |-> InvalidGraphId]
  BY <1>1 DEF OrderIdOf
<1>3. OrderEdges = {}
  BY <1>1 DEF OrderEdges
<1>4. IssuedIds = {}
  BY <1>1 DEF IssuedIds, Ids, NodeIndex, NodeVersion
<1> QED BY <1>1, <1>2, <1>3, <1>4 DEF Order!Init

OrderNext == [Order!Next]_(Order!orderVars)

LEMMA NextKeepsPromise ==
    LiveInv /\ FreeInv /\ LiveInv' /\ FreeInv' /\ [Next]_vars => OrderNext
<1> SUFFICES ASSUME LiveInv, FreeInv, LiveInv', FreeInv', [Next]_vars PROVE OrderNext
  OBVIOUS
<1>0. IInv'
  BY DEF LiveInv
<1>1. CASE UNCHANGED vars
  <2>1. UNCHANGED Order!orderVars
    BY <1>1, SameIds, SameEdges DEF vars, graph, Order!orderVars
  <2> QED BY <2>1 DEF OrderNext
<1>2. ASSUME NEW p \in Ptrs, GetKnownId(p) \/ GetNewId(p) \/ GetRecycledId(p)
      PROVE  Order!GetId(p)
  BY <1>0, <1>2, GetKnownKeepsPromise, GetNewKeepsPromise, GetRecycledKeepsPromise
<1>3. ASSUME NEW p \in Ptrs, RemoveNode(p) PROVE Order!RemoveNode(p)
  BY <1>0, <1>3, RemoveNodeKeepsPromise
<1>4. ASSUME NEW x \in UsableIds, NEW y \in UsableIds, InsertEdge(x, y)
      PROVE  Order!InsertEdge(x, y)
  BY <1>0, <1>4, InsertKeepsPromise
<1>5. ASSUME NEW x \in UsableIds, NEW y \in UsableIds, RemoveEdge(x, y)
      PROVE  Order!RemoveEdge(x, y)
  BY <1>0, <1>5, RemoveEdgeKeepsPromise
<1>6. UsableIds \subseteq IssuedIds
  BY DEF UsableIds
<1>7. CASE Next
  <2>1. Order!Next
    BY <1>2, <1>3, <1>4, <1>5, <1>6, <1>7 DEF Next, NodeNext, Order!Next
  <2> QED BY <2>1 DEF OrderNext
<1> QED BY <1>1, <1>7

(* The graph with ranks, versions and a free list keeps what graphcycles.h *)
(* promises of GetId, RemoveNode, InsertEdge and RemoveEdge: one id for an *)
(* address as long as it is known, never the same id again, and an edge    *)
(* refused exactly when it would close a cycle.                            *)
THEOREM PromiseIsKept == Spec => RefinesLockOrder
<1>1. LiveInv /\ FreeInv /\ [Next]_vars => LiveInv' /\ FreeInv'
  <2>1. [Next]_vars => [NextAny]_vars
    BY DEF Next, NextAny, UsableIds
  <2> QED BY <2>1, NextLiveInv, NextFreeInv DEF LiveInv
<1>2. LiveInv /\ FreeInv /\ LiveInv' /\ FreeInv' /\ [Next]_vars => [Order!Next]_(Order!orderVars)
  BY NextKeepsPromise DEF OrderNext
<1>3. Init => LiveInv /\ FreeInv /\ Order!Init
  BY LiveInvInit, FreeInit, InitKeepsPromise
<1> QED BY <1>1, <1>2, <1>3, PTL DEF Spec, RefinesLockOrder, Order!Spec
=============================================================================
