--------------------------- MODULE StorageProofs ---------------------------
(***************************************************************************)
(* Proofs about what lies below the monitors: the places of the leak       *)
(* report show the largest leaks; a node set is a set and each of its      *)
(* searches ends; the hash table of the nodes finds what GraphCycles says, *)
(* and the vectors own their blocks of the arena; the allocator's skip     *)
(* list is exact, its blocks tile its pages and it keeps the promise of    *)
(* ArenaMemory.  The tables and lists are built and searched by recursive  *)
(* functions: what they compute is proved with the smallest counterexample *)
(* (SmallestMember).                                                       *)
(***************************************************************************)
EXTENDS MCStorage, TLAPS, FiniteSetTheorems, SequenceTheorems, WellFoundedInduction

Stacks == [Slots -> [hash : Hashes \cup {NoHash}, size_bytes : Nat]]
Infos == [api_function : Api, total_bytes : Nat, hit_count : Nat, callstack_and_size : Stacks]

(* The places of one function against its leaks.  A place is empty in both *)
(* fields or in neither, so that a hash says where its call stack is.      *)
Largest(stacks, leaks) ==
    /\ \A s \in Slots : stacks[s].hash = NoHash <=> stacks[s].size_bytes = 0
    /\ \A s, r \in Slots : stacks[s].hash # NoHash /\ stacks[s].hash = stacks[r].hash => s = r
    /\ \A s \in Slots : stacks[s].size_bytes # 0 =>
         \E leak \in leaks : leak.hash = stacks[s].hash /\ leak.size = stacks[s].size_bytes
    /\ \A s \in Slots, leak \in leaks :
         leak.hash = stacks[s].hash => leak.size <= stacks[s].size_bytes
    /\ \A leak \in leaks : (\A s \in Slots : stacks[s].hash # leak.hash)
         => \A s \in Slots : leak.size <= stacks[s].size_bytes

RInv == /\ ReportTypeOK
        /\ \A i \in Api : Largest(used_api_infos[i].callstack_and_size, LeaksOf(used_api_infos[i]))
        /\ ~ sorted => \A i \in Api : used_api_infos[i].api_function = i

(* Every set of naturals has a smallest member. *)
LEMMA SmallestMember ==
    ASSUME NEW T \in SUBSET Nat, T # {}
    PROVE  \E x \in T : \A y \in T : x <= y
<1>1. PICK x \in T : \A y \in T : ~ (<<y, x>> \in OpToRel(<, Nat))
  BY WFMin, NatLessThanWellFounded
<1>2. ASSUME NEW y \in T
      PROVE  x <= y
  <2>1. ~ (y < x)
    BY <1>1 DEF OpToRel
  <2> QED BY <2>1
<1> QED BY <1>2

(* There is a smallest place, and CHOOSE finds it. *)
LEMMA SmallestExists ==
    ASSUME NEW stacks \in Stacks
    PROVE  /\ Smallest(stacks) \in Slots
           /\ \A r \in Slots : stacks[Smallest(stacks)].size_bytes <= stacks[r].size_bytes
<1> DEFINE sizes == {stacks[s].size_bytes : s \in Slots}
<1>1. sizes \in SUBSET Nat /\ sizes # {} /\ Slots \in SUBSET Nat
  BY ReportAssumption DEF Stacks, Slots
<1>2. PICK n \in sizes : \A m \in sizes : n <= m
  BY <1>1, SmallestMember
<1> DEFINE at == {s \in Slots : stacks[s].size_bytes = n}
<1>3. at \in SUBSET Nat /\ at # {}
  BY <1>1, <1>2
<1>4. PICK s \in at : \A r \in at : s <= r
  BY <1>3, SmallestMember
<1>5. \A r \in Slots : \/ stacks[s].size_bytes < stacks[r].size_bytes
                       \/ stacks[s].size_bytes = stacks[r].size_bytes /\ s <= r
  <2> SUFFICES ASSUME NEW r \in Slots
               PROVE  \/ stacks[s].size_bytes < stacks[r].size_bytes
                      \/ stacks[s].size_bytes = stacks[r].size_bytes /\ s <= r
    OBVIOUS
  <2>1. n <= stacks[r].size_bytes /\ n \in Nat /\ stacks[r].size_bytes \in Nat
    BY <1>1, <1>2
  <2>2. CASE stacks[r].size_bytes = n
    BY <1>4, <2>2
  <2>3. CASE stacks[r].size_bytes # n
    BY <1>4, <2>1, <2>3
  <2> QED BY <2>2, <2>3
<1> DEFINE P(q) == \A r \in Slots : \/ stacks[q].size_bytes < stacks[r].size_bytes
                                    \/ stacks[q].size_bytes = stacks[r].size_bytes /\ q <= r
<1>6. s \in Slots /\ P(s)
  BY <1>4, <1>5
<1>7. Smallest(stacks) = CHOOSE q \in Slots : P(q)
  BY DEF Smallest
<1>8. Smallest(stacks) \in Slots /\ P(Smallest(stacks))
  <2> HIDE DEF P
  <2> QED BY <1>6, <1>7
<1>9. \A r \in Slots : stacks[r].size_bytes \in Nat
  BY DEF Stacks
<1> QED BY <1>8, <1>9

(* One leak more: the place it gets, if any, and all others.               *)
LEMMA KeptLargest ==
    ASSUME NEW stacks \in Stacks, NEW leaks \in SUBSET Leaks, NEW leak \in Leaks,
           Largest(stacks, leaks)
    PROVE  Kept(stacks, leak) \in Stacks /\ Largest(Kept(stacks, leak), leaks \cup {leak})
<1>1. leak.hash # NoHash /\ leak.hash \in Hashes /\ leak.size \in Nat
  BY ReportAssumption DEF Leaks
<1>2. \A s \in Slots : stacks[s] \in [hash : Hashes \cup {NoHash}, size_bytes : Nat]
  BY DEF Stacks
<1>3. \A l \in leaks : l.size \in Nat /\ l.hash # NoHash
  BY ReportAssumption DEF Leaks
<1> DEFINE same == {s \in Slots : stacks[s].hash = leak.hash}
           place == IF same # {} THEN CHOOSE r \in same : \A q \in same : r <= q
                                 ELSE Smallest(stacks)
<1>4. ASSUME NEW s \in Slots, stacks[s].hash = leak.hash
      PROVE  place = s
  <2>1. same = {s}
    BY <1>1, <1>4 DEF Largest
  <2>2. \A q \in same : s <= q
    BY <2>1, ReportAssumption DEF Slots
  <2> QED BY <2>1, <2>2
<1>5. ASSUME \A s \in Slots : stacks[s].hash # leak.hash
      PROVE  /\ place \in Slots
             /\ \A r \in Slots : stacks[place].size_bytes <= stacks[r].size_bytes
  BY <1>5, SmallestExists
<1>6. place \in Slots
  BY <1>4, <1>5
<1>7. Kept(stacks, leak) = IF leak.size > stacks[place].size_bytes
                             THEN [stacks EXCEPT ![place] = [hash |-> leak.hash, size_bytes |-> leak.size]]
                             ELSE stacks
  BY DEF Kept
<1> HIDE DEF place, same
<1>8. CASE leak.size > stacks[place].size_bytes
  <2> DEFINE new == [stacks EXCEPT ![place] = [hash |-> leak.hash, size_bytes |-> leak.size]]
  <2>1. new \in Stacks
    BY <1>1, <1>6 DEF Stacks
  <2>2. /\ new[place].hash = leak.hash /\ new[place].size_bytes = leak.size
        /\ \A s \in Slots : s # place => new[s] = stacks[s]
    BY <1>6 DEF Stacks
  <2> HIDE DEF new
  <2>3. \A s \in Slots : s # place => stacks[s].hash # leak.hash
    BY <1>4
  <2>4. \A s \in Slots : stacks[s].size_bytes \in Nat
    BY <1>2
  <2>5. \A s \in Slots : new[s].hash = NoHash <=> new[s].size_bytes = 0
    BY <1>1, <1>6, <1>8, <2>2, <2>4 DEF Largest
  <2>6. \A s, r \in Slots : new[s].hash # NoHash /\ new[s].hash = new[r].hash => s = r
    BY <2>2, <2>3 DEF Largest
  <2>7. \A s \in Slots : new[s].size_bytes # 0 =>
          \E l \in leaks \cup {leak} : l.hash = new[s].hash /\ l.size = new[s].size_bytes
    BY <2>2 DEF Largest
  <2>8. ASSUME NEW l \in leaks, l.hash = leak.hash
        PROVE  l.size <= leak.size
    <3>1. CASE \E s \in Slots : stacks[s].hash = leak.hash
      <4>1. stacks[place].hash = l.hash
        BY <1>4, <2>8, <3>1
      <4> QED BY <1>1, <1>3, <1>6, <1>8, <2>4, <4>1 DEF Largest
    <3>2. CASE \A s \in Slots : stacks[s].hash # leak.hash
      <4>1. l.size <= stacks[place].size_bytes
        BY <1>6, <2>8, <3>2 DEF Largest
      <4> QED BY <1>1, <1>3, <1>6, <1>8, <2>4, <4>1
    <3> QED BY <3>1, <3>2
  <2>9. \A s \in Slots, l \in leaks \cup {leak} :
          l.hash = new[s].hash => l.size <= new[s].size_bytes
    <3> SUFFICES ASSUME NEW s \in Slots, NEW l \in leaks \cup {leak}, l.hash = new[s].hash
                 PROVE  l.size <= new[s].size_bytes
      OBVIOUS
    <3>1. CASE s = place
      BY <1>1, <2>2, <2>8, <3>1
    <3>2. CASE s # place
      BY <2>2, <2>3, <3>2 DEF Largest
    <3> QED BY <3>1, <3>2
  <2>10. \A s \in Slots : stacks[place].size_bytes <= new[s].size_bytes
                            \/ \E r \in Slots : stacks[r].hash = leak.hash
    <3> SUFFICES ASSUME NEW s \in Slots, \A r \in Slots : stacks[r].hash # leak.hash
                 PROVE  stacks[place].size_bytes <= new[s].size_bytes
      OBVIOUS
    <3>1. CASE s = place
      BY <1>1, <1>6, <1>8, <2>2, <2>4, <3>1
    <3>2. CASE s # place
      BY <1>5, <2>2, <3>2
    <3> QED BY <3>1, <3>2
  <2>11. \A l \in leaks \cup {leak} : (\A s \in Slots : new[s].hash # l.hash)
           => \A s \in Slots : l.size <= new[s].size_bytes
    <3> SUFFICES ASSUME NEW l \in leaks \cup {leak}, \A s \in Slots : new[s].hash # l.hash,
                        NEW s \in Slots
                 PROVE  l.size <= new[s].size_bytes
      OBVIOUS
    <3>1. l \in leaks /\ l.hash # leak.hash
      BY <1>6, <2>2
    <3>2. new[s].size_bytes \in Nat /\ l.size \in Nat /\ stacks[place].size_bytes \in Nat
      BY <1>1, <1>3, <1>6, <2>2, <2>4, <3>1
    <3>3. CASE stacks[place].hash = l.hash
      <4>1. l.size <= stacks[place].size_bytes
        BY <1>6, <3>1, <3>3 DEF Largest
      <4>2. \A r \in Slots : stacks[r].hash # leak.hash
        BY <1>4, <3>1, <3>3
      <4>3. stacks[place].size_bytes <= new[s].size_bytes
        BY <2>10, <4>2
      <4> QED BY <3>2, <4>1, <4>3
    <3>4. CASE stacks[place].hash # l.hash
      <4>1. \A r \in Slots : stacks[r].hash # l.hash
        BY <2>2, <3>4
      <4>2. \A r \in Slots : l.size <= stacks[r].size_bytes
        BY <3>1, <4>1 DEF Largest
      <4>3. CASE s = place
        BY <1>1, <1>6, <1>8, <2>2, <3>2, <4>2, <4>3
      <4>4. CASE s # place
        BY <2>2, <4>2, <4>4
      <4> QED BY <4>3, <4>4
    <3> QED BY <3>3, <3>4
  <2>12. Kept(stacks, leak) = new
    BY <1>7, <1>8 DEF new
  <2> QED BY <2>1, <2>5, <2>6, <2>7, <2>9, <2>11, <2>12 DEF Largest
<1>9. CASE ~ (leak.size > stacks[place].size_bytes)
  <2>1. leak.size <= stacks[place].size_bytes /\ stacks[place].size_bytes \in Nat
    BY <1>1, <1>2, <1>6, <1>9
  <2>2. \A s \in Slots : leak.hash = stacks[s].hash => leak.size <= stacks[s].size_bytes
    BY <1>4, <2>1
  <2>3. (\A s \in Slots : stacks[s].hash # leak.hash)
          => \A s \in Slots : leak.size <= stacks[s].size_bytes
    <3> SUFFICES ASSUME \A s \in Slots : stacks[s].hash # leak.hash, NEW s \in Slots
                 PROVE  leak.size <= stacks[s].size_bytes
      OBVIOUS
    <3>1. stacks[place].size_bytes <= stacks[s].size_bytes /\ stacks[s].size_bytes \in Nat
      BY <1>2, <1>5
    <3> QED BY <1>1, <2>1, <3>1
  <2>4. Largest(stacks, leaks \cup {leak})
    BY <2>2, <2>3 DEF Largest
  <2> QED BY <1>7, <1>9, <2>4
<1> QED BY <1>8, <1>9

(* One leak more keeps the places in order: it is counted with its         *)
(* function and takes the place of its call stack, an empty one, or the    *)
(* smallest if it is larger.                                               *)
LEMMA VisitPreserves ==
    ASSUME RInv, NEW leak \in Leaks, Visit(leak)
    PROVE  RInv'
<1> DEFINE f == leak.api_function
           info == used_api_infos[f]
           new == [api_function |-> info.api_function,
                   hit_count    |-> info.hit_count + 1,
                   total_bytes  |-> info.total_bytes + leak.size,
                   callstack_and_size |-> Kept(info.callstack_and_size, leak)]
<1>1. /\ used_api_infos \in [Api -> Infos] /\ visited \subseteq Leaks /\ visit_count \in Nat
      /\ sorted = FALSE /\ \A i \in Api : used_api_infos[i].api_function = i
      /\ \A i \in Api : Largest(used_api_infos[i].callstack_and_size, LeaksOf(used_api_infos[i]))
  BY DEF RInv, ReportTypeOK, Infos, Stacks, Visit
<1>2. f \in Api /\ info \in Infos /\ info.api_function = f /\ leak.size \in Nat
  BY <1>1, ReportAssumption DEF Leaks
<1>3. /\ used_api_infos' = [used_api_infos EXCEPT ![f] = new]
      /\ visited' = visited \cup {leak} /\ visit_count' = visit_count + 1 /\ sorted' = sorted
  BY DEF Visit
<1>4. LeaksOf(info) \in SUBSET Leaks /\ info.callstack_and_size \in Stacks
  BY <1>1, <1>2 DEF LeaksOf, Infos
<1>5. /\ Kept(info.callstack_and_size, leak) \in Stacks
      /\ Largest(Kept(info.callstack_and_size, leak), LeaksOf(info) \cup {leak})
  BY <1>1, <1>2, <1>4, KeptLargest
<1>6. /\ new \in Infos /\ new.api_function = f
      /\ new.callstack_and_size = Kept(info.callstack_and_size, leak)
  <2> DEFINE kept == Kept(info.callstack_and_size, leak)
  <2> HIDE DEF kept
  <2>1. kept \in Stacks
    BY <1>5 DEF kept
  <2> QED BY <1>2, <2>1 DEF Infos, kept
<1> HIDE DEF new
<1>7. ReportTypeOK'
  <2>1. used_api_infos' \in [Api -> Infos]
    BY <1>1, <1>2, <1>3, <1>6
  <2>2. visited' \subseteq Leaks /\ visit_count' \in Nat /\ sorted' \in BOOLEAN
    <3>1. visited' \subseteq Leaks
      BY <1>1, <1>3
    <3>2. visit_count' \in Nat
      BY <1>1, <1>3
    <3>3. sorted' \in BOOLEAN
      BY <1>1, <1>3
    <3> QED BY <3>1, <3>2, <3>3
  <2> QED BY <2>1, <2>2 DEF ReportTypeOK, Infos, Stacks
<1>8. \A i \in Api : used_api_infos'[i] = IF i = f THEN new ELSE used_api_infos[i]
  BY <1>1, <1>3
<1>9. \A i \in Api : used_api_infos'[i].api_function = i
  BY <1>1, <1>6, <1>8
<1>10. ASSUME NEW i \in Api
       PROVE  Largest(used_api_infos'[i].callstack_and_size, LeaksOf(used_api_infos[i])')
  <2>1. CASE i = f
    <3>1. LeaksOf(used_api_infos[i])' = LeaksOf(info) \cup {leak}
      BY <1>2, <1>3, <1>6, <1>8, <2>1 DEF LeaksOf
    <3> QED BY <1>5, <1>6, <1>8, <2>1, <3>1
  <2>2. CASE i # f
    <3>1. LeaksOf(used_api_infos[i])' = LeaksOf(used_api_infos[i])
      BY <1>1, <1>3, <1>8, <2>2 DEF LeaksOf
    <3> QED BY <1>1, <1>8, <2>2, <3>1
  <2> QED BY <2>1, <2>2
<1>11. \A i \in Api : Largest(used_api_infos[i].callstack_and_size, LeaksOf(used_api_infos[i]))'
  BY <1>10 DEF Largest, LeaksOf
<1> QED BY <1>7, <1>9, <1>11 DEF RInv

(* The sort permutes the functions, each with its places. *)
LEMMA SortPreserves == RInv /\ Sort => RInv'
<1> SUFFICES ASSUME RInv, Sort PROVE RInv'
  OBVIOUS
<1>1. PICK order \in [Api -> Api] : used_api_infos' = [i \in Api |-> used_api_infos[order[i]]]
  BY DEF Sort
<1>2. visited' = visited /\ visit_count' = visit_count /\ sorted' = TRUE
  BY DEF Sort
<1>3. ReportTypeOK'
  BY <1>1, <1>2 DEF RInv, ReportTypeOK
<1>4. \A i \in Api : Largest(used_api_infos[i].callstack_and_size, LeaksOf(used_api_infos[i]))'
  BY <1>1, <1>2 DEF RInv, Largest, LeaksOf
<1> QED BY <1>2, <1>3, <1>4 DEF RInv

(* At first all places are empty. *)
LEMMA RInvInit == ReportInit => RInv
<1> SUFFICES ASSUME ReportInit PROVE RInv
  OBVIOUS
<1>1. ReportTypeOK
  BY DEF ReportInit, ReportTypeOK, Leaks
<1>2. \A i \in Api : Largest(used_api_infos[i].callstack_and_size, LeaksOf(used_api_infos[i]))
  BY DEF ReportInit, Largest, LeaksOf
<1>3. \A i \in Api : used_api_infos[i].api_function = i
  BY DEF ReportInit
<1> QED BY <1>1, <1>2, <1>3 DEF RInv

(* However the map is visited, the places hold the largest leaks; the      *)
(* function of an entry is its index only until the sort.                  *)
THEOREM ReportInvariant == ReportSpec => []RInv
<1>1. RInv /\ [ReportNext]_reportVars => RInv'
  <2> SUFFICES ASSUME RInv, [ReportNext]_reportVars PROVE RInv'
    OBVIOUS
  <2>1. CASE Sort
    BY <2>1, SortPreserves
  <2>2. ASSUME NEW leak \in Leaks, Visit(leak)
        PROVE  RInv'
    BY <2>2, VisitPreserves
  <2>3. CASE UNCHANGED reportVars
    BY <2>3 DEF reportVars, RInv, ReportTypeOK, Largest, LeaksOf
  <2> QED BY <2>1, <2>2, <2>3 DEF ReportNext
<1> QED BY <1>1, RInvInit, PTL DEF ReportSpec

(* What is printed of a function are its largest leaks, each call stack    *)
(* once.                                                                   *)
THEOREM LargestShown == ReportSpec => []LargestLeaksAreShown
<1>1. RInv => LargestLeaksAreShown
  <2> SUFFICES ASSUME RInv, NEW i \in Api PROVE ShowsLargest(used_api_infos[i])
    BY DEF LargestLeaksAreShown
  <2> DEFINE info == used_api_infos[i]
             stacks == info.callstack_and_size
             leaks == LeaksOf(info)
  <2>1. Largest(stacks, leaks) /\ Shown(info) = {s \in Slots : stacks[s].size_bytes # 0}
    BY DEF RInv, Shown
  <2>2. \A leak \in leaks : leak.hash # NoHash
    BY ReportAssumption DEF RInv, ReportTypeOK, Leaks, LeaksOf
  <2> HIDE DEF leaks, stacks, info
  <2>3. \A s, r \in Shown(info) : stacks[s].hash = stacks[r].hash => s = r
    BY <2>1 DEF Largest
  <2>4. \A s \in Shown(info) :
          /\ \E leak \in leaks : leak.hash = stacks[s].hash /\ leak.size = stacks[s].size_bytes
          /\ \A leak \in leaks : leak.hash = stacks[s].hash => leak.size <= stacks[s].size_bytes
    BY <2>1 DEF Largest
  <2>5. \A leak \in leaks : (\A s \in Shown(info) : stacks[s].hash # leak.hash)
          => \A s \in Slots : leak.size <= stacks[s].size_bytes
    BY <2>1, <2>2 DEF Largest
  <2> QED BY <2>3, <2>4, <2>5 DEF ShowsLargest, leaks, stacks, info
<1> QED BY <1>1, ReportInvariant, PTL

-----------------------------------------------------------------------------
(* Tables: NodeSet                                                         *)

(* Division with remainder, and its uniqueness. *)
LEMMA Division ==
    ASSUME NEW h \in Nat, NEW M \in Nat \ {0}
    PROVE  /\ h \div M \in Nat /\ h % M \in 0 .. M - 1
           /\ h = (h \div M) * M + (h % M)
<1>1. h % M = h - M * (h \div M)
  BY SMT
<1>2. h \div M \in Int /\ h % M \in 0 .. M - 1
  BY SMT
<1>3. h = (h \div M) * M + (h % M)
  <2>1. M * (h \div M) = (h \div M) * M /\ M * (h \div M) \in Int
    BY <1>2
  <2> DEFINE p == M * (h \div M)
             r == h % M
  <2>2. r = h - p /\ p \in Int /\ r \in Int
    BY <1>1, <1>2, <2>1
  <2> HIDE DEF p, r
  <2>3. h = p + r
    BY <2>2
  <2>4. h = M * (h \div M) + (h % M)
    BY <2>3 DEF p, r
  <2> QED BY <2>1, <2>4
<1>4. h \div M >= 0
  <2> DEFINE q == h \div M
             r == h % M
  <2>1. h = q * M + r /\ q \in Int /\ r \in 0 .. M - 1
    BY <1>2, <1>3
  <2> HIDE DEF q, r
  <2>2. ASSUME q <= -1
        PROVE  FALSE
    <3>1. q * M <= -1 * M /\ q * M \in Int
      BY <2>1, <2>2
    <3> QED BY <2>1, <3>1
  <2>3. q >= 0
    BY <2>1, <2>2
  <2> QED BY <2>3 DEF q
<1>5. h \div M \in Nat
  BY <1>2, <1>4
<1> QED BY <1>2, <1>3, <1>5

(* The remainder of a multiple plus i is i. *)
LEMMA Remainder ==
    ASSUME NEW M \in Nat \ {0}, NEW q \in Nat, NEW i \in 0 .. M - 1
    PROVE  (q * M + i) % M = i
OBVIOUS

(* The probes from anywhere meet every cell. *)
LEMMA ProbesReach ==
    ASSUME NEW h \in Nat, NEW M \in Nat \ {0}, NEW i \in 0 .. M - 1
    PROVE  \E k \in 0 .. M - 1 : (h + k) % M = i
<1> DEFINE q == h \div M
           r == h % M
<1>1. q \in Nat /\ r \in 0 .. M - 1 /\ h = q * M + r
  BY Division
<1> HIDE DEF q, r
<1>3. q * M \in Nat /\ (q + 1) * M = q * M + M
  BY <1>1
<1>4. CASE i >= r
  <2>1. h + (i - r) = q * M + i /\ i - r \in 0 .. M - 1
    BY <1>1, <1>3, <1>4
  <2>2. (q * M + i) % M = i
    BY <1>1, Remainder
  <2> QED BY <2>1, <2>2
<1>5. CASE i < r
  <2>1. h + (i - r + M) = (q + 1) * M + i /\ i - r + M \in 0 .. M - 1
    BY <1>1, <1>3, <1>5
  <2>2. ((q + 1) * M + i) % M = i
    BY <1>1, Remainder
  <2> QED BY <2>1, <2>2
<1> QED BY <1>1, <1>4, <1>5

-----------------------------------------------------------------------------
(* Tables *)

Cell == Elements \cup {kEmpty, kDel}
Table(cells, M) == M \in Nat \ {0} /\ cells \in [0 .. M - 1 -> Cell]
Filled(cells) == {i \in DOMAIN cells : cells[i] # kEmpty}

(* Cell i is on the way of v: the probes from Hash(v) come to it before they *)
(* meet an empty cell.                                                       *)
OnWay(cells, v, i) ==
    \E k \in DOMAIN cells :
        Probe(cells, v, k) = i /\ \A l \in 0 .. k - 1 : cells[Probe(cells, v, l)] # kEmpty

(* Elements are entered once and on their way. *)
Sound(cells) ==
    /\ \A i, j \in DOMAIN cells : cells[i] \in Elements /\ cells[i] = cells[j] => i = j
    /\ \A i \in DOMAIN cells : cells[i] \in Elements => OnWay(cells, cells[i], i)

(* A table has as many cells as its size says. *)
LEMMA TableSize ==
    ASSUME NEW M, NEW cells, Table(cells, M)
    PROVE  /\ DOMAIN cells = 0 .. M - 1
           /\ IsFiniteSet(DOMAIN cells)
           /\ Cardinality(DOMAIN cells) = M
<1>1. M \in Nat \ {0} /\ DOMAIN cells = 0 .. M - 1
  BY DEF Table
<1> QED BY <1>1, FS_Interval, 0 \in Int, M - 1 \in Int

(* A probe is a cell of the table. *)
LEMMA ProbeType ==
    ASSUME NEW M, NEW cells, Table(cells, M), NEW v \in Elements, NEW k \in Nat
    PROVE  /\ Probe(cells, v, k) \in DOMAIN cells
           /\ Probe(cells, v, k) = (Hash(v) + k) % M
<1>1. M \in Nat \ {0} /\ v \in Nat
  BY NodeSetAssumption DEF Table
<1>2. Hash(v) \in Nat
  BY <1>1 DEF Hash
<1>3. Probe(cells, v, k) = (Hash(v) + k) % M
  BY TableSize DEF Probe
<1>4. (Hash(v) + k) % M \in 0 .. M - 1
  BY <1>1, <1>2, Division, Hash(v) + k \in Nat
<1> QED BY <1>3, <1>4, TableSize

(* FindIndex ends, at the cell of the element if it is in the table, and    *)
(* otherwise at a cell it can be put into.                                  *)
LEMMA FindsIt ==
    ASSUME NEW M, NEW cells, Table(cells, M), Sound(cells), NEW v \in Elements,
           \E e \in DOMAIN cells : cells[e] = kEmpty
    PROVE  LET i == FindIndex(cells, v) IN
           /\ i \in DOMAIN cells
           /\ OnWay(cells, v, i)
           /\ IF v \in Marks(cells) THEN cells[i] = v ELSE cells[i] \in {kEmpty, kDel}
<1> DEFINE P(k) == Probe(cells, v, k)
           stops == Stops(cells, v)
           last == Min(stops)
           deleted == {k \in 0 .. last - 1 : cells[P(k)] = kDel}
<1>1. M \in Nat \ {0} /\ DOMAIN cells = 0 .. M - 1 /\ v \in Nat
      /\ cells \in [0 .. M - 1 -> Cell]
  BY TableSize, NodeSetAssumption DEF Table
<1>2. \A k \in Nat : P(k) \in DOMAIN cells /\ P(k) = (Hash(v) + k) % M
  BY ProbeType
<1>3. stops # {} /\ stops \in SUBSET Nat
  <2>1. PICK e \in DOMAIN cells : cells[e] = kEmpty
    OBVIOUS
  <2>2. Hash(v) \in Nat
    BY <1>1 DEF Hash
  <2>3. PICK k \in 0 .. M - 1 : (Hash(v) + k) % M = e
    BY <1>1, <2>1, <2>2, ProbesReach, ZenonT(40)
  <2>4. k \in Nat /\ k \in DOMAIN cells /\ cells[P(k)] = kEmpty
    BY <1>1, <1>2, <2>1, <2>3
  <2>5. k \in stops
    BY <2>4 DEF Stops
  <2>6. stops \subseteq Nat
    BY <1>1 DEF Stops
  <2> QED BY <2>5, <2>6
<1>4. last \in stops /\ \A k \in stops : last <= k
  <2>1. \E x \in stops : \A y \in stops : x <= y
    BY <1>3, SmallestMember
  <2> QED BY <2>1 DEF Min
<1>5. last \in DOMAIN cells /\ last \in Nat /\ cells[P(last)] \in {v, kEmpty}
  BY <1>1, <1>4 DEF Stops
<1> HIDE DEF last
<1>6. \A k \in 0 .. last - 1 : k \in DOMAIN cells /\ k \in Nat /\ cells[P(k)] # v /\ cells[P(k)] # kEmpty
  <2> SUFFICES ASSUME NEW k \in 0 .. last - 1
               PROVE  k \in DOMAIN cells /\ k \in Nat /\ cells[P(k)] # v /\ cells[P(k)] # kEmpty
    OBVIOUS
  <2>1. k \in DOMAIN cells /\ k \in Nat /\ ~ (last <= k)
    BY <1>1, <1>5
  <2>2. k \notin stops
    BY <1>4, <2>1
  <2> QED BY <2>1, <2>2 DEF Stops
<1>7. v \in Marks(cells) <=> cells[P(last)] = v
  <2>1. ASSUME v \in Marks(cells)
        PROVE  cells[P(last)] = v
    <3>1. PICK j \in DOMAIN cells : cells[j] = v
      BY <2>1 DEF Marks
    <3>2. PICK k \in DOMAIN cells : P(k) = j /\ \A l \in 0 .. k - 1 : cells[P(l)] # kEmpty
      BY <3>1 DEF Sound, OnWay
    <3>3. k \in stops
      BY <3>1, <3>2 DEF Stops
    <3>4. last <= k /\ k \in Nat
      BY <1>1, <1>4, <3>3
    <3>5. CASE last = k
      BY <3>1, <3>2, <3>5
    <3>6. CASE last # k
      <4>1. last \in 0 .. k - 1
        BY <1>5, <3>4, <3>6
      <4> QED BY <1>5, <3>2, <4>1
    <3> QED BY <3>5, <3>6
  <2>2. ASSUME cells[P(last)] = v
        PROVE  v \in Marks(cells)
    BY <1>2, <1>5, <2>2 DEF Marks
  <2> QED BY <2>1, <2>2
<1>8. CASE cells[P(last)] # v /\ deleted # {}
  <2>1. deleted \in SUBSET Nat
    BY <1>6
  <2>2. \E x \in deleted : \A y \in deleted : x <= y
    BY <1>8, <2>1, SmallestMember
  <2> DEFINE d == Min(deleted)
  <2>3. d \in deleted
    BY <2>2 DEF Min
  <2> HIDE DEF d
  <2>4. FindIndex(cells, v) = P(d)
    BY <1>8 DEF FindIndex, last, d
  <2>5. d \in DOMAIN cells /\ d \in Nat /\ cells[P(d)] = kDel /\ d < last
    BY <1>5, <1>6, <2>3
  <2>6. \A l \in 0 .. d - 1 : cells[P(l)] # kEmpty
    BY <1>5, <1>6, <2>5
  <2>7. OnWay(cells, v, P(d))
    BY <2>5, <2>6 DEF OnWay
  <2> QED BY <1>2, <1>7, <1>8, <2>4, <2>5, <2>7
<1>9. CASE ~ (cells[P(last)] # v /\ deleted # {})
  <2>1. FindIndex(cells, v) = P(last)
    BY <1>9 DEF FindIndex, last
  <2>2. OnWay(cells, v, P(last))
    BY <1>5, <1>6 DEF OnWay
  <2> QED BY <1>2, <1>5, <1>7, <2>1, <2>2
<1> QED BY <1>8, <1>9
(* As long as fewer cells are filled than there are, one is empty. *)
LEMMA SomeEmpty ==
    ASSUME NEW M, NEW cells, Table(cells, M)
    PROVE  /\ IsFiniteSet(Filled(cells)) /\ Cardinality(Filled(cells)) \in 0 .. M
           /\ Cardinality(Filled(cells)) < M <=> \E e \in DOMAIN cells : cells[e] = kEmpty
<1>1. M \in Nat \ {0} /\ IsFiniteSet(DOMAIN cells) /\ Cardinality(DOMAIN cells) = M
  BY TableSize DEF Table
<1>2. Filled(cells) \in SUBSET DOMAIN cells
  BY DEF Filled
<1>3. /\ IsFiniteSet(Filled(cells)) /\ Cardinality(Filled(cells)) <= M
      /\ Cardinality(Filled(cells)) = M => Filled(cells) = DOMAIN cells
  BY <1>1, <1>2, FS_Subset
<1>4. Cardinality(Filled(cells)) \in Nat
  BY <1>3, FS_CardinalityType
<1>5. Filled(cells) = DOMAIN cells => Cardinality(Filled(cells)) = M
  BY <1>1
<1>6. Filled(cells) = DOMAIN cells <=> ~ \E e \in DOMAIN cells : cells[e] = kEmpty
  BY DEF Filled
<1> QED BY <1>1, <1>3, <1>4, <1>5, <1>6

(* A cell that is not empty is changed, or one is filled: every other      *)
(* element is as far as it was.                                            *)
LEMMA StaysOnWay ==
    ASSUME NEW M, NEW cells, Table(cells, M), NEW new, Table(new, M),
           \A j \in DOMAIN cells : cells[j] # kEmpty => new[j] # kEmpty,
           NEW v \in Elements, NEW i, OnWay(cells, v, i)
    PROVE  OnWay(new, v, i)
<1>1. PICK k \in DOMAIN cells : /\ Probe(cells, v, k) = i
                                /\ \A l \in 0 .. k - 1 : cells[Probe(cells, v, l)] # kEmpty
  BY DEF OnWay
<1>2. DOMAIN new = DOMAIN cells /\ DOMAIN cells = 0 .. M - 1 /\ M \in Nat \ {0}
  BY TableSize DEF Table
<1>3. \A l : Probe(new, v, l) = Probe(cells, v, l)
  BY <1>2 DEF Probe
<1>4. ASSUME NEW l \in 0 .. k - 1
      PROVE  new[Probe(new, v, l)] # kEmpty
  <2>1. l \in Nat
    BY <1>2
  <2>2. Probe(cells, v, l) \in DOMAIN cells
    BY <2>1, ProbeType
  <2> QED BY <1>1, <1>3, <2>2
<1> QED BY <1>1, <1>2, <1>3, <1>4 DEF OnWay

(* insert puts an element that is not there into the cell FindIndex finds; *)
(* every other element stays on its way.                                   *)
LEMMA Puts ==
    ASSUME NEW M, NEW cells, Table(cells, M), Sound(cells), NEW v \in Elements,
           v \notin Marks(cells), \E e \in DOMAIN cells : cells[e] = kEmpty
    PROVE  /\ Table(Put(cells, v), M) /\ Sound(Put(cells, v))
           /\ Marks(Put(cells, v)) = Marks(cells) \cup {v}
           /\ Filled(Put(cells, v)) = Filled(cells) \cup {FindIndex(cells, v)}
           /\ \A j \in DOMAIN cells : cells[j] # kDel => Put(cells, v)[j] # kDel
<1> DEFINE i == FindIndex(cells, v)
           new == Put(cells, v)
<1>1. i \in DOMAIN cells /\ OnWay(cells, v, i) /\ cells[i] \in {kEmpty, kDel}
  BY FindsIt
<1>2. new = [cells EXCEPT ![i] = v]
  BY DEF Put
<1>3. kEmpty \notin Elements /\ kDel \notin Elements /\ kEmpty # kDel
  BY NodeSetAssumption DEF kEmpty, kDel
<1>4. cells \in [0 .. M - 1 -> Cell] /\ DOMAIN cells = 0 .. M - 1 /\ v \in Cell /\ M \in Nat \ {0}
  BY TableSize DEF Table, Cell
<1> HIDE DEF i, new
<1>5. /\ Table(new, M) /\ DOMAIN new = DOMAIN cells
      /\ \A j \in DOMAIN cells : new[j] = IF j = i THEN v ELSE cells[j]
  BY <1>1, <1>2, <1>4 DEF Table
<1>6. \A j \in DOMAIN cells : cells[j] # kEmpty => new[j] # kEmpty
  BY <1>3, <1>5
<1>7. Marks(new) = Marks(cells) \cup {v}
  BY <1>1, <1>3, <1>5 DEF Marks
<1>8. Filled(new) = Filled(cells) \cup {i}
  BY <1>1, <1>3, <1>5 DEF Filled
<1>9. ASSUME NEW a \in DOMAIN new, NEW b \in DOMAIN new, new[a] \in Elements, new[a] = new[b]
      PROVE  a = b
  <2>1. \A j \in DOMAIN cells : cells[j] # v
    BY DEF Marks
  <2> QED BY <1>5, <1>9, <2>1 DEF Sound
<1>10. ASSUME NEW a \in DOMAIN new, new[a] \in Elements
       PROVE  OnWay(new, new[a], a)
  <2>1. OnWay(cells, new[a], a)
    BY <1>1, <1>5, <1>10 DEF Sound
  <2> QED BY <1>5, <1>6, <1>10, <2>1, StaysOnWay
<1>11. Sound(new)
  BY <1>9, <1>10 DEF Sound
<1>12. \A j \in DOMAIN cells : cells[j] # kDel => new[j] # kDel
  BY <1>3, <1>5
<1> QED BY <1>5, <1>7, <1>8, <1>11, <1>12 DEF new, i

(* erase leaves a deleted cell, which no search stops at: every other      *)
(* element stays on its way.                                               *)
LEMMA Erases ==
    ASSUME NEW M, NEW cells, Table(cells, M), Sound(cells),
           NEW i \in DOMAIN cells, cells[i] \in Elements
    PROVE  LET new == [cells EXCEPT ![i] = kDel] IN
           /\ Table(new, M) /\ Sound(new)
           /\ Marks(new) = Marks(cells) \ {cells[i]}
           /\ Filled(new) = Filled(cells)
<1> DEFINE new == [cells EXCEPT ![i] = kDel]
<1>1. kEmpty \notin Elements /\ kDel \notin Elements /\ kEmpty # kDel /\ kDel \in Cell
  BY NodeSetAssumption DEF kEmpty, kDel, Cell
<1>2. cells \in [0 .. M - 1 -> Cell] /\ DOMAIN cells = 0 .. M - 1 /\ M \in Nat \ {0}
  BY TableSize DEF Table
<1>3. /\ Table(new, M) /\ DOMAIN new = DOMAIN cells
      /\ \A j \in DOMAIN cells : new[j] = IF j = i THEN kDel ELSE cells[j]
  BY <1>1, <1>2 DEF Table
<1> HIDE DEF new
<1>4. \A j \in DOMAIN cells : cells[j] = cells[i] => j = i
  BY DEF Sound
<1>5. Marks(new) = Marks(cells) \ {cells[i]}
  BY <1>1, <1>3, <1>4 DEF Marks
<1>6. Filled(new) = Filled(cells)
  BY <1>1, <1>3 DEF Filled
<1>7. \A j \in DOMAIN cells : cells[j] # kEmpty => new[j] # kEmpty
  BY <1>1, <1>3
<1>8. ASSUME NEW a \in DOMAIN new, NEW b \in DOMAIN new, new[a] \in Elements, new[a] = new[b]
      PROVE  a = b
  BY <1>1, <1>3, <1>8 DEF Sound
<1>9. ASSUME NEW a \in DOMAIN new, new[a] \in Elements
      PROVE  OnWay(new, new[a], a)
  <2>1. OnWay(cells, new[a], a)
    BY <1>1, <1>3, <1>9 DEF Sound
  <2> QED BY <1>3, <1>7, <1>9, <2>1, StaysOnWay
<1>10. Sound(new)
  BY <1>8, <1>9 DEF Sound
<1> QED BY <1>3, <1>5, <1>6, <1>10 DEF new

(* The loop of Grow has its values: f[n] is the table after n cells.       *)
Loop(f, old, new, m) ==
    f = [n \in 0 .. m |-> IF n = 0 THEN new
                          ELSE IF old[n - 1] \in Elements THEN Put(f[n - 1], old[n - 1])
                          ELSE f[n - 1]]

(* The loop of Grow can be run to any bound: the first bound it could not  *)
(* be run to would have a predecessor.                                     *)
LEMMA LoopExists ==
    ASSUME NEW old, NEW new, NEW m \in Nat
    PROVE  \E f : Loop(f, old, new, m)
<1> DEFINE bad == {n \in Nat : ~ \E f : Loop(f, old, new, n)}
<1>1. SUFFICES ASSUME bad # {}
               PROVE  FALSE
  OBVIOUS
<1>2. PICK n \in bad : \A k \in bad : n <= k
  BY <1>1, SmallestMember
<1>3. CASE n = 0
  <2> DEFINE f == [k \in 0 .. 0 |-> new]
  <2>1. f = [k \in 0 .. 0 |-> IF k = 0 THEN new
                              ELSE IF old[k - 1] \in Elements THEN Put(f[k - 1], old[k - 1])
                              ELSE f[k - 1]]
    OBVIOUS
  <2>2. Loop(f, old, new, 0)
    BY <2>1 DEF Loop
  <2> QED BY <1>2, <1>3, <2>2
<1>4. CASE n # 0
  <2>1. n - 1 \in Nat /\ n \in Nat /\ ~ (n <= n - 1)
    BY <1>2, <1>4
  <2>2. PICK g : Loop(g, old, new, n - 1)
    BY <1>2, <2>1
  <2> DEFINE last == IF old[n - 1] \in Elements THEN Put(g[n - 1], old[n - 1]) ELSE g[n - 1]
             f == [k \in 0 .. n |-> IF k = n THEN last ELSE g[k]]
  <2>3. g = [k \in 0 .. n - 1 |-> IF k = 0 THEN new
                                  ELSE IF old[k - 1] \in Elements THEN Put(g[k - 1], old[k - 1])
                                  ELSE g[k - 1]]
    BY <2>2 DEF Loop
  <2>4. \A k \in 0 .. n - 1 : f[k] = g[k]
    BY <2>1
  <2>5. ASSUME NEW k \in 0 .. n
        PROVE  f[k] = IF k = 0 THEN new
                      ELSE IF old[k - 1] \in Elements THEN Put(f[k - 1], old[k - 1])
                      ELSE f[k - 1]
    <3>1. CASE k = n
      <4>1. f[n] = last /\ f[n - 1] = g[n - 1]
        BY <2>1, <2>4
      <4> HIDE DEF f
      <4> QED BY <1>4, <3>1, <4>1
    <3>2. CASE k # n
      <4>1. k \in 0 .. n - 1 /\ (k # 0 => k - 1 \in 0 .. n - 1)
        BY <2>1, <3>2
      <4>2. f[k] = g[k] /\ (k # 0 => f[k - 1] = g[k - 1])
        BY <2>4, <4>1
      <4> HIDE DEF f
      <4> QED BY <2>3, <4>1, <4>2
    <3> QED BY <3>1, <3>2
  <2>6. f = [k \in 0 .. n |-> f[k]]
    OBVIOUS
  <2> HIDE DEF f
  <2>7. f = [k \in 0 .. n |-> IF k = 0 THEN new
                              ELSE IF old[k - 1] \in Elements THEN Put(f[k - 1], old[k - 1])
                              ELSE f[k - 1]]
    BY <2>5, <2>6
  <2>8. Loop(f, old, new, n)
    BY <2>7 DEF Loop
  <2> QED BY <1>2, <2>8
<1> QED BY <1>3, <1>4

(* Rehashed is what that loop has computed after the last cell. *)
LEMMA RehashedIsTheLoop ==
    ASSUME NEW old, NEW new, NEW c \in Nat, Cardinality(DOMAIN old) = c
    PROVE  \E f : Loop(f, old, new, c) /\ Rehashed(old, new) = f[c]
<1> DEFINE f == CHOOSE g : Loop(g, old, new, c)
<1>1. Loop(f, old, new, c)
  BY LoopExists
<1>2. Rehashed(old, new) = f[c]
  BY DEF Rehashed, Loop
<1> QED BY <1>1, <1>2

(* What the loop has done after n of the old cells. *)
EnteredUpTo(t, old, n, M) ==
    /\ Table(t, M) /\ Sound(t)
    /\ Marks(t) = {v \in Elements : \E i \in 0 .. n - 1 : old[i] = v}
    /\ Cardinality(Filled(t)) <= n
    /\ \A j \in DOMAIN t : t[j] # kDel

(* One turn of the loop enters one old cell, if it holds an element. *)
LEMMA OneMoreEntered ==
    ASSUME NEW c, NEW old, Table(old, c), Sound(old), NEW M \in Nat, M > c,
           NEW n \in 1 .. c, NEW t, EnteredUpTo(t, old, n - 1, M)
    PROVE  EnteredUpTo(IF old[n - 1] \in Elements THEN Put(t, old[n - 1]) ELSE t, old, n, M)
<1>1. /\ c \in Nat \ {0} /\ DOMAIN old = 0 .. c - 1 /\ n - 1 \in DOMAIN old
      /\ 0 .. n - 1 = (0 .. (n - 1) - 1) \cup {n - 1}
  BY TableSize DEF Table
<1>2. /\ Table(t, M) /\ Sound(t) /\ Cardinality(Filled(t)) <= n - 1
      /\ Marks(t) = {v \in Elements : \E i \in 0 .. (n - 1) - 1 : old[i] = v}
      /\ \A j \in DOMAIN t : t[j] # kDel
  BY DEF EnteredUpTo
<1>3. IsFiniteSet(Filled(t)) /\ Cardinality(Filled(t)) \in 0 .. M
  BY <1>2, SomeEmpty
<1>4. CASE old[n - 1] \in Elements
  <2> DEFINE e == old[n - 1]
             i == FindIndex(t, e)
  <2>1. e \notin Marks(t)
    <3> SUFFICES ASSUME e \in Marks(t)
                 PROVE  FALSE
      OBVIOUS
    <3>1. PICK k \in 0 .. (n - 1) - 1 : old[k] = e
      BY <1>2
    <3>2. k \in DOMAIN old /\ k # n - 1
      BY <1>1
    <3> QED BY <1>1, <1>4, <3>1, <3>2 DEF Sound
  <2>2. \E j \in DOMAIN t : t[j] = kEmpty
    BY <1>1, <1>2, <1>3, SomeEmpty
  <2>3. /\ Table(Put(t, e), M) /\ Sound(Put(t, e))
        /\ Marks(Put(t, e)) = Marks(t) \cup {e}
        /\ Filled(Put(t, e)) = Filled(t) \cup {i}
        /\ \A j \in DOMAIN t : t[j] # kDel => Put(t, e)[j] # kDel
    BY <1>2, <1>4, <2>1, <2>2, Puts
  <2>4. DOMAIN Put(t, e) = DOMAIN t
    BY <1>2, <2>3, TableSize
  <2>5. Cardinality(Filled(t) \cup {i}) <= n
    <3>1. Cardinality(Filled(t) \cup {i})
            = IF i \in Filled(t) THEN Cardinality(Filled(t)) ELSE Cardinality(Filled(t)) + 1
      BY <1>3, FS_AddElement
    <3> QED BY <1>1, <1>2, <1>3, <3>1
  <2>6. Marks(Put(t, e)) = {v \in Elements : \E k \in 0 .. n - 1 : old[k] = v}
    <3>1. \A v : (\E k \in 0 .. n - 1 : old[k] = v)
                   <=> v = e \/ \E k \in 0 .. (n - 1) - 1 : old[k] = v
      BY <1>1
    <3> QED BY <1>2, <1>4, <2>3, <3>1
  <2> QED BY <1>2, <1>4, <2>3, <2>4, <2>5, <2>6 DEF EnteredUpTo
<1>5. CASE old[n - 1] \notin Elements
  <2>1. Cardinality(Filled(t)) <= n
    BY <1>1, <1>2, <1>3
  <2>2. Marks(t) = {v \in Elements : \E k \in 0 .. n - 1 : old[k] = v}
    <3>1. \A v \in Elements : (\E k \in 0 .. n - 1 : old[k] = v)
                                <=> \E k \in 0 .. (n - 1) - 1 : old[k] = v
      BY <1>1, <1>5
    <3> QED BY <1>2, <3>1
  <2> QED BY <1>2, <1>5, <2>1, <2>2 DEF EnteredUpTo
<1> QED BY <1>4, <1>5

(* Without deleted cells the filled cells are those of the elements, one   *)
(* each.                                                                   *)
LEMMA CountsAgree ==
    ASSUME NEW M, NEW t, Table(t, M), Sound(t), \A j \in DOMAIN t : t[j] # kDel
    PROVE  Cardinality(Filled(t)) = Cardinality(Marks(t))
<1> DEFINE f == [j \in Filled(t) |-> t[j]]
<1>1. kEmpty \notin Elements /\ t \in [DOMAIN t -> Cell]
  BY NodeSetAssumption, TableSize DEF kEmpty, Table
<1>2. \A j \in Filled(t) : j \in DOMAIN t /\ t[j] \in Elements
  BY <1>1 DEF Filled, Cell
<1>3. \A v \in Marks(t) : v \in Elements /\ \E j \in Filled(t) : t[j] = v
  BY <1>1 DEF Marks, Filled
<1>4. \A j \in Filled(t) : t[j] \in Marks(t)
  BY <1>2 DEF Marks
<1>5. f \in [Filled(t) -> Marks(t)]
  BY <1>4
<1>6. \A a, b \in Filled(t) : f[a] = f[b] => a = b
  BY <1>2 DEF Sound
<1>7. \A v \in Marks(t) : \E j \in Filled(t) : f[j] = v
  BY <1>3
<1>8. f \in Bijection(Filled(t), Marks(t))
  BY <1>5, <1>6, <1>7 DEF Bijection, Injection, Surjection, IsInjective
<1>9. ExistsBijection(Filled(t), Marks(t))
  BY <1>8 DEF ExistsBijection
<1> QED BY <1>9, SomeEmpty, FS_Bijection

(* Rehashing keeps the elements, drops the deleted cells and leaves room:  *)
(* this is why Grow may count occupied_ anew.                              *)
LEMMA RehashedIsSound ==
    ASSUME NEW c, NEW old, Table(old, c), Sound(old), NEW M \in Nat, M > c
    PROVE  LET t == Rehashed(old, [i \in 0 .. M - 1 |-> kEmpty]) IN
           /\ Table(t, M) /\ Sound(t)
           /\ Marks(t) = Marks(old)
           /\ Cardinality(Filled(t)) = Cardinality(Marks(t))
           /\ Cardinality(Filled(t)) < M
<1> DEFINE new == [i \in 0 .. M - 1 |-> kEmpty]
<1>1. c \in Nat \ {0} /\ DOMAIN old = 0 .. c - 1 /\ Cardinality(DOMAIN old) = c
  BY TableSize DEF Table
<1>2. EnteredUpTo(new, old, 0, M)
  <2>1. kEmpty \in Cell /\ kEmpty \notin Elements /\ kEmpty # kDel
    BY NodeSetAssumption DEF Cell, kEmpty, kDel
  <2>2. new \in [0 .. M - 1 -> Cell] /\ M \in Nat \ {0}
    BY <1>1, <2>1
  <2>3. Filled(new) = {} /\ Marks(new) = {} /\ Sound(new)
    BY <2>1 DEF Filled, Marks, Sound
  <2>4. {v \in Elements : \E i \in 0 .. 0 - 1 : old[i] = v} = {}
    OBVIOUS
  <2>5. \A j \in DOMAIN new : new[j] # kDel
    BY <2>1
  <2>6. Table(new, M)
    BY <2>2 DEF Table
  <2> HIDE DEF new
  <2>7. Cardinality(Filled(new)) = 0
    BY <2>3, FS_EmptySet
  <2> QED BY <2>3, <2>4, <2>5, <2>6, <2>7 DEF EnteredUpTo
<1> HIDE DEF new
<1>3. PICK f : Loop(f, old, new, c) /\ Rehashed(old, new) = f[c]
  BY <1>1, RehashedIsTheLoop
<1> DEFINE bad == {n \in 0 .. c : ~ EnteredUpTo(f[n], old, n, M)}
<1>4. bad = {}
  <2> SUFFICES ASSUME bad # {}
               PROVE  FALSE
    OBVIOUS
  <2>1. bad \in SUBSET Nat
    BY <1>1
  <2>2. PICK n \in bad : \A k \in bad : n <= k
    BY <2>1, SmallestMember
  <2>3. f[n] = IF n = 0 THEN new
               ELSE IF old[n - 1] \in Elements THEN Put(f[n - 1], old[n - 1])
               ELSE f[n - 1]
    BY <1>3, <2>2 DEF Loop
  <2>4. n # 0
    BY <1>2, <2>2, <2>3
  <2>5. n \in 1 .. c /\ n - 1 \in 0 .. c /\ ~ (n <= n - 1)
    BY <1>1, <2>2, <2>4
  <2>6. EnteredUpTo(f[n - 1], old, n - 1, M)
    BY <2>2, <2>5
  <2>7. EnteredUpTo(f[n], old, n, M)
    BY <2>3, <2>4, <2>5, <2>6, OneMoreEntered
  <2> QED BY <2>2, <2>7
<1>5. EnteredUpTo(f[c], old, c, M)
  BY <1>1, <1>4
<1>6. /\ Table(f[c], M) /\ Sound(f[c]) /\ Cardinality(Filled(f[c])) <= c
      /\ Marks(f[c]) = {v \in Elements : \E i \in 0 .. c - 1 : old[i] = v}
      /\ \A j \in DOMAIN f[c] : f[c][j] # kDel
  BY <1>5 DEF EnteredUpTo
<1>7. Marks(f[c]) = Marks(old)
  BY <1>1, <1>6 DEF Marks
<1>8. Cardinality(Filled(f[c])) = Cardinality(Marks(f[c]))
  BY <1>6, CountsAgree
<1>9. Cardinality(Filled(f[c])) < M
  BY <1>1, <1>6, SomeEmpty
<1> QED BY <1>3, <1>6, <1>7, <1>8, <1>9 DEF new

-----------------------------------------------------------------------------
(* Vectors and their blocks of the arena                                   *)

IsVec(v) == v = [ptr |-> v.ptr, cells |-> v.cells, capacity |-> v.capacity]

(* Grow moves a vector into a block nobody has and gives its old one back. *)
LEMMA GrowTakesABlock ==
    ASSUME NEW v, IsVec(v), NEW held, v.ptr \in held \cup {Space}, Space \notin held,
           ArenaBlocks \ held # {}, NEW n
    PROVE  LET g == Grow(v, held, n) IN
           /\ IsVec(g.vec) /\ g.vec.cells = v.cells
           /\ g.vec.ptr \in ArenaBlocks \ held
           /\ g.heap = (held \cup {g.vec.ptr}) \ {v.ptr}
<1> DEFINE b == CHOOSE x \in ArenaBlocks : x \notin held
           g == Grow(v, held, n)
<1>1. b \in ArenaBlocks /\ b \notin held
  OBVIOUS
<1>2. b # Space
  BY <1>1, VecAssumption
<1> HIDE DEF b
<1> DEFINE c == Min({x \in {v.capacity * 2 ^ k : k \in 0 .. n} : x >= n})
<1>3. g = [vec |-> [v EXCEPT !.ptr = b, !.capacity = c], heap |-> Discard(v, held \cup {b})]
  BY DEF Grow, b
<1> HIDE DEF c, g
<1>4. [v EXCEPT !.ptr = b, !.capacity = c] = [ptr |-> b, cells |-> v.cells, capacity |-> c]
  <2> DEFINE w == [v EXCEPT !.ptr = b]
  <2>1. w = [ptr |-> b, cells |-> v.cells, capacity |-> v.capacity]
    BY DEF IsVec
  <2>2. [v EXCEPT !.ptr = b, !.capacity = c] = [w EXCEPT !.capacity = c]
    OBVIOUS
  <2> HIDE DEF w
  <2>3. [w EXCEPT !.capacity = c] = [ptr |-> b, cells |-> v.cells, capacity |-> c]
    BY <2>1
  <2> QED BY <2>2, <2>3
<1>5. Discard(v, held \cup {b}) = (held \cup {b}) \ {v.ptr}
  BY DEF Discard
<1>6. g.vec = [ptr |-> b, cells |-> v.cells, capacity |-> c] /\ g.heap = (held \cup {b}) \ {v.ptr}
  BY <1>3, <1>4, <1>5
<1>7. g.vec.ptr = b /\ g.vec.cells = v.cells /\ IsVec(g.vec)
  BY <1>6 DEF IsVec
<1> QED BY <1>1, <1>6, <1>7 DEF g

(* resize within the capacity: the vector stays where it is. *)
LEMMA ResizeKeeps ==
    ASSUME NEW v, IsVec(v), NEW held, NEW n, ~ (n > v.capacity)
    PROVE  LET g == resize(v, held, n) IN
           /\ IsVec(g.vec) /\ DOMAIN g.vec.cells = 0 .. n - 1
           /\ g.vec.ptr = v.ptr /\ g.vec.capacity = v.capacity /\ g.heap = held
<1> DEFINE cells == [i \in 0 .. n - 1 |-> IF i < Size(v) THEN v.cells[i] ELSE Junk]
<1>1. resize(v, held, n) = [[vec |-> v, heap |-> held] EXCEPT !.vec.cells = cells]
  BY DEF resize
<1> DEFINE D == DOMAIN cells
<1>0. D = 0 .. n - 1
  OBVIOUS
<1> HIDE DEF cells
<1>2. [[vec |-> v, heap |-> held] EXCEPT !.vec.cells = cells]
        = [vec |-> [v EXCEPT !.cells = cells], heap |-> held]
  OBVIOUS
<1>3. [v EXCEPT !.cells = cells] = [ptr |-> v.ptr, cells |-> cells, capacity |-> v.capacity]
  BY DEF IsVec
<1> QED BY <1>0, <1>1, <1>2, <1>3 DEF IsVec

(* resize beyond the capacity: in a new block, with the old one given      *)
(* back.                                                                   *)
LEMMA ResizeGrows ==
    ASSUME NEW v, IsVec(v), NEW held, v.ptr \in held \cup {Space}, Space \notin held,
           ArenaBlocks \ held # {}, NEW n, n > v.capacity
    PROVE  LET g == resize(v, held, n) IN
           /\ IsVec(g.vec) /\ DOMAIN g.vec.cells = 0 .. n - 1
           /\ g.vec.ptr \in ArenaBlocks \ held
           /\ g.heap = (held \cup {g.vec.ptr}) \ {v.ptr}
<1> DEFINE cells == [i \in 0 .. n - 1 |-> IF i < Size(v) THEN v.cells[i] ELSE Junk]
           g == Grow(v, held, n)
<1>1. resize(v, held, n) = [g EXCEPT !.vec.cells = cells]
  BY DEF resize
<1> DEFINE D == DOMAIN cells
<1>0. D = 0 .. n - 1
  OBVIOUS
<1>2. /\ IsVec(g.vec) /\ g.vec.ptr \in ArenaBlocks \ held
      /\ g.heap = (held \cup {g.vec.ptr}) \ {v.ptr}
  BY GrowTakesABlock
<1>3. g = [vec |-> g.vec, heap |-> g.heap]
  BY DEF Grow
<1> HIDE DEF cells, g
<1>4. [g EXCEPT !.vec.cells = cells] = [vec |-> [g.vec EXCEPT !.cells = cells], heap |-> g.heap]
  BY <1>3
<1>5. [g.vec EXCEPT !.cells = cells] = [ptr |-> g.vec.ptr, cells |-> cells, capacity |-> g.vec.capacity]
  BY <1>2 DEF IsVec
<1> QED BY <1>0, <1>1, <1>2, <1>4, <1>5 DEF IsVec
(* A table and its block of the arena. *)
TableOwned(v, blocks) ==
    /\ IsVec(v)
    /\ v.ptr \in ArenaBlocks \cup {Space}
    /\ v.ptr = Space => Size(v) = kInline
    /\ v.ptr = Space => v.capacity = kInline
    /\ Size(v) >= kInline
    /\ blocks = {v.ptr} \ {Space}

(* A vector starts in its inlined storage. *)
LEMMA InlinedIsVec ==
    IsVec(Inlined) /\ Inlined.ptr = Space /\ Inlined.capacity = kInline
BY DEF IsVec, Inlined

(* Other cells in the same storage. *)
LEMMA SetCells ==
    ASSUME NEW v, IsVec(v), NEW cells
    PROVE  LET w == [v EXCEPT !.cells = cells] IN
           IsVec(w) /\ w.cells = cells /\ w.ptr = v.ptr /\ w.capacity = v.capacity
<1>1. [v EXCEPT !.cells = cells] = [ptr |-> v.ptr, cells |-> cells, capacity |-> v.capacity]
  BY DEF IsVec
<1> QED BY <1>1 DEF IsVec

(* fill writes every cell. *)
LEMMA FillsIn ==
    ASSUME NEW v, IsVec(v), NEW n, DOMAIN v.cells = 0 .. n - 1
    PROVE  fill(v, kEmpty) = [v EXCEPT !.cells = [i \in 0 .. n - 1 |-> kEmpty]]
<1>1. fill(v, kEmpty) = [v EXCEPT !.cells = [i \in DOMAIN v.cells |-> kEmpty]]
  BY DEF fill
<1> QED BY <1>1

(* The table of an empty node set. *)
LEMMA ClearedTable ==
    /\ Table(Cleared.cells, kInline) /\ Sound(Cleared.cells)
    /\ Filled(Cleared.cells) = {} /\ Marks(Cleared.cells) = {}
    /\ TableOwned(Cleared, {}) /\ Size(Cleared) = kInline
<1> DEFINE g == resize(Inlined, {}, kInline).vec
           cells == [i \in 0 .. kInline - 1 |-> kEmpty]
<1>1. kInline \in Nat \ {0} /\ kEmpty \notin Elements /\ kEmpty \in Cell
  BY VecAssumption, NodeSetAssumption DEF kEmpty, Cell
<1>2. /\ IsVec(g) /\ DOMAIN g.cells = 0 .. kInline - 1
      /\ g.ptr = Space /\ g.capacity = kInline
  BY <1>1, InlinedIsVec, ResizeKeeps
<1>3. Cleared = [g EXCEPT !.cells = cells]
  BY <1>2, FillsIn DEF Cleared
<1> HIDE DEF g
<1>4. /\ IsVec(Cleared) /\ Cleared.cells = cells
      /\ Cleared.ptr = Space /\ Cleared.capacity = kInline
  <2> HIDE DEF cells
  <2> QED BY <1>2, <1>3, SetCells
<1>5. Table(cells, kInline)
  BY <1>1 DEF Table
<1>6. Size(Cleared) = kInline
  BY <1>4, <1>5, TableSize DEF Size
<1>7. Filled(cells) = {} /\ Marks(cells) = {} /\ Sound(cells)
  BY <1>1 DEF Filled, Marks, Sound
<1>8. TableOwned(Cleared, {})
  BY <1>1, <1>4, <1>6 DEF TableOwned
<1> QED BY <1>4, <1>5, <1>6, <1>7, <1>8

(* MoveFrom hands a table over with its block, and its source is inlined   *)
(* again.                                                                  *)
LEMMA MoveKeeps ==
    ASSUME NEW v, NEW blocks, TableOwned(v, blocks)
    PROVE  LET m == MoveFrom(v, blocks) IN
           /\ IsVec(m.vec) /\ m.vec.cells = v.cells /\ m.vec.ptr = v.ptr
           /\ IsVec(m.src) /\ m.src.ptr = Space /\ m.src.capacity = kInline
           /\ m.heap = blocks
<1>1. IsVec(v) /\ blocks = {v.ptr} \ {Space} /\ kInline \in Nat
  BY VecAssumption DEF TableOwned
<1>2. CASE v.ptr = Space
  <2> DEFINE copy == resize(Inlined, blocks, Size(v))
  <2>1. v.capacity = kInline /\ ~ (Size(v) > kInline)
    BY <1>1, <1>2 DEF TableOwned
  <2>2. IsVec(copy.vec) /\ copy.vec.ptr = Space /\ copy.heap = blocks
    BY <2>1, InlinedIsVec, ResizeKeeps
  <2>3. MoveFrom(v, blocks) = [vec  |-> [copy.vec EXCEPT !.cells = v.cells],
                               src  |-> [v EXCEPT !.cells = [i \in {} |-> Junk]],
                               heap |-> copy.heap]
    BY <1>2 DEF MoveFrom
  <2> HIDE DEF copy
  <2> DEFINE none == [i \in {} |-> Junk]
  <2> HIDE DEF none
  <2>4. LET w == [copy.vec EXCEPT !.cells = v.cells] IN IsVec(w) /\ w.cells = v.cells /\ w.ptr = Space
    BY <2>2, SetCells
  <2>5. LET w == [v EXCEPT !.cells = none] IN IsVec(w) /\ w.ptr = Space /\ w.capacity = kInline
    BY <1>1, <1>2, <2>1, SetCells
  <2>6. /\ MoveFrom(v, blocks).vec = [copy.vec EXCEPT !.cells = v.cells]
        /\ MoveFrom(v, blocks).src = [v EXCEPT !.cells = none]
        /\ MoveFrom(v, blocks).heap = copy.heap
    BY <2>3 DEF none
  <2> QED BY <1>2, <2>2, <2>4, <2>5, <2>6
<1>3. CASE v.ptr # Space
  <2>1. MoveFrom(v, blocks) = [vec |-> v, src |-> Inlined, heap |-> blocks]
    BY <1>3 DEF MoveFrom
  <2> QED BY <1>1, <2>1, InlinedIsVec
<1> QED BY <1>2, <1>3

(* The table behind Grow: twice as large, in a block of its own, and the   *)
(* block of the old one is given back.                                     *)
LEMMA GrownTable ==
    ASSUME NEW M, NEW v, NEW blocks, Table(v.cells, M), Sound(v.cells), TableOwned(v, blocks)
    PROVE  LET g == Grown(v, blocks) IN
           /\ Table(g.vec.cells, 2 * M) /\ Sound(g.vec.cells)
           /\ Marks(g.vec.cells) = Marks(v.cells)
           /\ Cardinality(Filled(g.vec.cells)) = Cardinality(Marks(g.vec.cells))
           /\ Cardinality(Filled(g.vec.cells)) < 2 * M
           /\ TableOwned(g.vec, g.heap)
<1> DEFINE moved == MoveFrom(v, blocks)
           fresh == resize(moved.src, moved.heap, 2 * Size(moved.vec))
           empty == [i \in 0 .. 2 * M - 1 |-> kEmpty]
           cells == Rehashed(v.cells, empty)
           g == Grown(v, blocks)
<1>1. /\ IsVec(moved.vec) /\ moved.vec.cells = v.cells /\ moved.vec.ptr = v.ptr
      /\ IsVec(moved.src) /\ moved.src.ptr = Space /\ moved.src.capacity = kInline
      /\ moved.heap = blocks
  BY MoveKeeps
<1>2. /\ IsVec(v) /\ v.ptr \in ArenaBlocks \cup {Space} /\ blocks = {v.ptr} \ {Space}
      /\ Size(v) >= kInline
  BY DEF TableOwned
<1>3. Size(v) = M /\ M \in Nat \ {0} /\ kInline \in Nat \ {0}
  BY TableSize, VecAssumption DEF Size, Table
<1>4. Size(moved.vec) = M
  BY <1>1, <1>3 DEF Size
<1>5. 2 * M > kInline
  BY <1>2, <1>3
<1>6. /\ Space \notin blocks /\ Space \notin ArenaBlocks
      /\ ArenaBlocks \ blocks # {}
  BY <1>2, VecAssumption
<1> HIDE DEF moved
<1>7. /\ IsVec(fresh.vec) /\ DOMAIN fresh.vec.cells = 0 .. 2 * M - 1
      /\ fresh.vec.ptr \in ArenaBlocks \ blocks
      /\ fresh.heap = (blocks \cup {fresh.vec.ptr}) \ {Space}
  BY <1>1, <1>4, <1>5, <1>6, ResizeGrows
<1>8. g = [vec  |-> [fresh.vec EXCEPT !.cells = Rehashed(moved.vec.cells, fill(fresh.vec, kEmpty).cells)],
           heap |-> Discard(moved.vec, fresh.heap)]
  BY DEF Grown, moved
<1> HIDE DEF fresh, g
<1>9. fill(fresh.vec, kEmpty).cells = empty
  <2>1. fill(fresh.vec, kEmpty) = [fresh.vec EXCEPT !.cells = empty]
    BY <1>7, FillsIn
  <2> HIDE DEF empty
  <2> QED BY <1>7, <2>1, SetCells
<1>10. g = [vec |-> [fresh.vec EXCEPT !.cells = cells], heap |-> Discard(moved.vec, fresh.heap)]
  BY <1>1, <1>8, <1>9
<1>11. /\ Table(cells, 2 * M) /\ Sound(cells) /\ Marks(cells) = Marks(v.cells)
       /\ Cardinality(Filled(cells)) = Cardinality(Marks(cells))
       /\ Cardinality(Filled(cells)) < 2 * M
  BY <1>3, RehashedIsSound, 2 * M \in Nat, 2 * M > M
<1> HIDE DEF cells
<1>12. IsVec(g.vec) /\ g.vec.cells = cells /\ g.vec.ptr = fresh.vec.ptr
  BY <1>7, <1>10, SetCells
<1>13. g.heap = {g.vec.ptr}
  <2>1. Discard(moved.vec, fresh.heap) = fresh.heap \ {v.ptr}
    BY <1>1, <1>2, <1>7 DEF Discard
  <2> QED BY <1>2, <1>6, <1>7, <1>10, <1>12, <2>1
<1>14. Size(g.vec) = 2 * M
  BY <1>11, <1>12, TableSize DEF Size
<1>15. TableOwned(g.vec, g.heap)
  BY <1>3, <1>5, <1>6, <1>7, <1>12, <1>13, <1>14 DEF TableOwned
<1> QED BY <1>11, <1>12, <1>15 DEF g

-----------------------------------------------------------------------------
(* NodeSet: every search ends, and the set is a set                        *)

SetInv ==
    /\ TableOwned(table_, set_blocks)
    /\ Table(table_.cells, Size(table_)) /\ Sound(table_.cells)
    /\ occupied_ = Cardinality(Filled(table_.cells))
    /\ occupied_ < Size(table_)

(* A new node set is empty. *)
LEMMA SetInitial ==
    ASSUME SetInit
    PROVE  SetInv /\ Abstract!Init
<1>1. table_ = Cleared /\ occupied_ = 0 /\ set_blocks = {} /\ answer = [call |-> "none"]
  BY DEF SetInit
<1>2. Cardinality(Filled(table_.cells)) = 0
  BY <1>1, ClearedTable, FS_EmptySet
<1>3. kInline \in Nat \ {0}
  BY VecAssumption
<1>4. Table(table_.cells, Size(table_)) /\ 0 < Size(table_)
  BY <1>1, <1>3, ClearedTable
<1>5. SetInv
  BY <1>1, <1>2, <1>4, ClearedTable DEF SetInv
<1>6. Members = {}
  BY <1>1, ClearedTable DEF Members
<1> QED BY <1>1, <1>5, <1>6 DEF Abstract!Init

(* What a search finds in the table. *)
LEMMA Searched ==
    ASSUME SetInv, NEW v \in Elements
    PROVE  LET cells == table_.cells
               i == FindIndex(cells, v)
           IN /\ i \in DOMAIN cells
              /\ cells[i] = v <=> v \in Members
              /\ v \notin Members => cells[i] \in {kEmpty, kDel}
              /\ \E e \in DOMAIN cells : cells[e] = kEmpty
<1>1. /\ Table(table_.cells, Size(table_)) /\ Sound(table_.cells)
      /\ Cardinality(Filled(table_.cells)) < Size(table_)
  BY DEF SetInv
<1>2. \E e \in DOMAIN table_.cells : table_.cells[e] = kEmpty
  BY <1>1, SomeEmpty
<1>3. v # kEmpty /\ v # kDel
  BY NodeSetAssumption DEF kEmpty, kDel
<1> QED BY <1>1, <1>2, <1>3, FindsIt DEF Members

(* insert answers whether the element is new, and adds it. *)
LEMMA InsertStep ==
    ASSUME SetInv, NEW v \in Elements, insert(v)
    PROVE  SetInv' /\ Abstract!Insert(v)
<1> DEFINE cells == table_.cells
           i == FindIndex(cells, v)
           M == Size(table_)
           count == IF cells[i] = kEmpty THEN occupied_ + 1 ELSE occupied_
           grows == FullEnough(count, DOMAIN cells)
           put == [table_ EXCEPT !.cells = Put(cells, v)]
           new == Grown(put, set_blocks)
<1>1. /\ i \in DOMAIN cells
      /\ cells[i] = v <=> v \in Members
      /\ v \notin Members => cells[i] \in {kEmpty, kDel}
      /\ \E e \in DOMAIN cells : cells[e] = kEmpty
  BY Searched
<1>2. /\ answer' = [call |-> "insert", elem |-> v, ok |-> cells[i] # v]
      /\ IF cells[i] = v THEN UNCHANGED <<table_, occupied_, set_blocks>>
         ELSE IF grows
              THEN /\ table_' = new.vec
                   /\ set_blocks' = new.heap
                   /\ occupied_' = Cardinality(Marks(new.vec.cells))
              ELSE table_' = put /\ occupied_' = count /\ UNCHANGED set_blocks
  BY DEF insert
<1>3. /\ TableOwned(table_, set_blocks) /\ Table(cells, M) /\ Sound(cells)
      /\ occupied_ = Cardinality(Filled(cells)) /\ occupied_ < M
      /\ M \in Nat \ {0} /\ IsVec(table_) /\ Cardinality(DOMAIN cells) = M
  BY TableSize DEF SetInv, Table, TableOwned
<1> HIDE DEF put, new, i, grows
<1>4. answer' = [call |-> "insert", elem |-> v, ok |-> v \notin Members]
  BY <1>1, <1>2
<1>5. CASE cells[i] = v
  <2>1. UNCHANGED <<table_, occupied_, set_blocks>>
    BY <1>2, <1>5
  <2>2. SetInv'
    BY <2>1 DEF SetInv, Size
  <2>3. Members' = Members /\ v \in Members
    BY <1>1, <1>5, <2>1 DEF Members
  <2> QED BY <1>4, <2>2, <2>3 DEF Abstract!Insert
<1>6. CASE cells[i] # v
  <2>1. v \notin Marks(cells) /\ v \notin Members /\ cells[i] \in {kEmpty, kDel}
    BY <1>1, <1>6 DEF Members
  <2>2. /\ Table(Put(cells, v), M) /\ Sound(Put(cells, v))
        /\ Marks(Put(cells, v)) = Marks(cells) \cup {v}
        /\ Filled(Put(cells, v)) = Filled(cells) \cup {i}
    BY <1>1, <1>3, <2>1, Puts DEF i
  <2>3. /\ IsVec(put) /\ put.cells = Put(cells, v)
        /\ put.ptr = table_.ptr /\ put.capacity = table_.capacity
    BY <1>3, SetCells DEF put
  <2>4. Size(put) = M
    BY <2>2, <2>3, TableSize DEF Size
  <2>5. TableOwned(put, set_blocks)
    BY <1>3, <2>3, <2>4 DEF TableOwned
  <2>6. Cardinality(Filled(put.cells)) = count /\ count \in Nat
    <3>1. i \in Filled(cells) <=> cells[i] # kEmpty
      BY <1>1 DEF Filled
    <3>2. IsFiniteSet(Filled(cells)) /\ Cardinality(Filled(cells)) \in 0 .. M
      BY <1>3, SomeEmpty
    <3>3. Cardinality(Filled(cells) \cup {i})
            = IF i \in Filled(cells) THEN Cardinality(Filled(cells)) ELSE Cardinality(Filled(cells)) + 1
      BY <3>2, FS_AddElement
    <3> QED BY <1>3, <2>2, <2>3, <3>1, <3>2, <3>3
  <2>7. CASE grows
    <3>1. /\ table_' = new.vec /\ set_blocks' = new.heap
          /\ occupied_' = Cardinality(Marks(new.vec.cells))
      BY <1>2, <1>6, <2>7
    <3>2. /\ Table(new.vec.cells, 2 * M) /\ Sound(new.vec.cells)
          /\ Marks(new.vec.cells) = Marks(put.cells)
          /\ Cardinality(Filled(new.vec.cells)) = Cardinality(Marks(new.vec.cells))
          /\ Cardinality(Filled(new.vec.cells)) < 2 * M
          /\ TableOwned(new.vec, new.heap)
      BY <2>2, <2>3, <2>5, GrownTable DEF new
    <3>3. Size(new.vec) = 2 * M
      BY <3>2, TableSize DEF Size
    <3>4. SetInv'
      BY <3>1, <3>2, <3>3 DEF SetInv, Size
    <3>5. Members' = Members \cup {v}
      BY <2>2, <2>3, <3>1, <3>2 DEF Members
    <3> QED BY <1>4, <3>4, <3>5 DEF Abstract!Insert
  <2>8. CASE ~ grows
    <3>1. table_' = put /\ occupied_' = count /\ set_blocks' = set_blocks
      BY <1>2, <1>6, <2>8
    <3>2. count < M
      <4>1. ~ (count >= M - M \div 4)
        BY <1>3, <2>8 DEF grows, FullEnough
      <4> HIDE DEF count, M
      <4>2. M \div 4 \in Nat
        BY <1>3
      <4> QED BY <1>3, <2>6, <4>1, <4>2
    <3> HIDE DEF count
    <3>3. SetInv'
      BY <2>2, <2>3, <2>4, <2>5, <2>6, <3>1, <3>2 DEF SetInv, Size
    <3>4. Members' = Members \cup {v}
      BY <2>2, <2>3, <3>1 DEF Members
    <3> QED BY <1>4, <3>3, <3>4 DEF Abstract!Insert
  <2> QED BY <2>7, <2>8
<1> QED BY <1>5, <1>6

(* erase takes the element out, if it is there. *)
LEMMA EraseStep ==
    ASSUME SetInv, NEW v \in Elements, erase(v)
    PROVE  SetInv' /\ Abstract!Erase(v)
<1> DEFINE cells == table_.cells
           i == FindIndex(cells, v)
           M == Size(table_)
           left == [cells EXCEPT ![i] = kDel]
<1>1. /\ i \in DOMAIN cells
      /\ cells[i] = v <=> v \in Members
  BY Searched
<1>2. /\ table_' = IF cells[i] = v THEN [table_ EXCEPT !.cells[i] = kDel] ELSE table_
      /\ answer' = [call |-> "erase", elem |-> v]
      /\ occupied_' = occupied_ /\ set_blocks' = set_blocks
  BY DEF erase
<1>3. /\ TableOwned(table_, set_blocks) /\ Table(cells, M) /\ Sound(cells)
      /\ occupied_ = Cardinality(Filled(cells)) /\ occupied_ < M
      /\ IsVec(table_)
  BY DEF SetInv, TableOwned
<1> HIDE DEF i
<1>4. CASE cells[i] = v
  <2>1. [table_ EXCEPT !.cells[i] = kDel] = [table_ EXCEPT !.cells = left]
    OBVIOUS
  <2>2. /\ Table(left, M) /\ Sound(left)
        /\ Marks(left) = Marks(cells) \ {v} /\ Filled(left) = Filled(cells)
    BY <1>1, <1>3, <1>4, Erases
  <2>8. table_' = [table_ EXCEPT !.cells = left]
    BY <1>2, <1>4, <2>1
  <2> HIDE DEF left
  <2>3. /\ IsVec(table_') /\ table_'.cells = left
        /\ table_'.ptr = table_.ptr /\ table_'.capacity = table_.capacity
    BY <1>3, <2>8, SetCells
  <2>4. Size(table_') = M
    BY <2>2, <2>3, TableSize DEF Size
  <2>5. TableOwned(table_', set_blocks)
    BY <1>3, <2>3, <2>4 DEF TableOwned
  <2>6. SetInv'
    BY <1>2, <1>3, <2>2, <2>3, <2>4, <2>5 DEF SetInv, Size
  <2>7. Members' = Members \ {v}
    BY <2>2, <2>3 DEF Members
  <2> QED BY <1>2, <2>6, <2>7 DEF Abstract!Erase
<1>5. CASE cells[i] # v
  <2>1. UNCHANGED <<table_, occupied_, set_blocks>>
    BY <1>2, <1>5
  <2>2. SetInv'
    BY <2>1 DEF SetInv, Size
  <2>3. Members' = Members /\ v \notin Members
    BY <1>1, <1>5, <2>1 DEF Members
  <2> QED BY <1>2, <2>2, <2>3 DEF Abstract!Erase
<1> QED BY <1>4, <1>5

(* contains answers whether the element is there, and changes nothing. *)
LEMMA ContainsStep ==
    ASSUME SetInv, NEW v \in Elements, contains(v)
    PROVE  SetInv' /\ Abstract!Contains(v)
<1>1. table_.cells[FindIndex(table_.cells, v)] = v <=> v \in Members
  BY Searched
<1>2. /\ answer' = [call |-> "contains", elem |-> v,
                    ok |-> table_.cells[FindIndex(table_.cells, v)] = v]
      /\ UNCHANGED <<table_, occupied_, set_blocks>>
  BY DEF contains
<1>3. answer' = [call |-> "contains", elem |-> v, ok |-> v \in Members]
  BY <1>1, <1>2
<1>4. SetInv' /\ Members' = Members
  BY <1>2 DEF SetInv, Size, Members
<1> QED BY <1>3, <1>4 DEF Abstract!Contains

(* clear gives the block back and starts with an empty table. *)
LEMMA ClearStep ==
    ASSUME SetInv, clear
    PROVE  SetInv' /\ Abstract!Clear
<1>1. /\ table_' = Cleared /\ occupied_' = 0 /\ answer' = [call |-> "clear"]
      /\ set_blocks' = Discard(table_, set_blocks)
  BY DEF clear
<1>2. set_blocks = {table_.ptr} \ {Space}
  BY DEF SetInv, TableOwned
<1>3. set_blocks' = {}
  BY <1>1, <1>2 DEF Discard
<1>4. Cardinality(Filled(table_'.cells)) = 0
  BY <1>1, ClearedTable, FS_EmptySet
<1>5. kInline \in Nat \ {0}
  BY VecAssumption
<1>6. Table(table_'.cells, Size(table_')) /\ 0 < Size(table_')
  BY <1>1, <1>5, ClearedTable
<1>7. SetInv'
  BY <1>1, <1>3, <1>4, <1>6, ClearedTable DEF SetInv, Size
<1>8. Members' = {}
  BY <1>1, ClearedTable DEF Members
<1> QED BY <1>1, <1>7, <1>8 DEF Abstract!Clear

SetStep == SetNext \/ UNCHANGED setVars

(* Every step of the node set is one of a set, or leaves members and       *)
(* answer alone.                                                           *)
LEMMA SetStepped ==
    ASSUME SetInv, SetStep
    PROVE  SetInv' /\ (Abstract!Next \/ UNCHANGED <<Members, answer>>)
<1>1. ASSUME NEW v \in Elements, insert(v) \/ erase(v) \/ contains(v)
      PROVE  SetInv' /\ Abstract!Next
  BY <1>1, InsertStep, EraseStep, ContainsStep DEF Abstract!Next
<1>2. ASSUME clear
      PROVE  SetInv' /\ Abstract!Next
  BY <1>2, ClearStep DEF Abstract!Next
<1>3. ASSUME UNCHANGED setVars
      PROVE  SetInv' /\ UNCHANGED <<Members, answer>>
  BY <1>3 DEF SetInv, Size, Members, setVars
<1> QED BY <1>1, <1>2, <1>3 DEF SetStep, SetNext

(* Through every sequence of insert, erase, contains and clear the         *)
(* elements stand once and on their way, a cell stays empty, occupied_     *)
(* counts the cells that are not, and the table has its block.             *)
THEOREM SetInvariance == SetSpec => []SetInv
<1>1. SetInit => SetInv
  BY SetInitial
<1>2. SetInv /\ [SetNext]_setVars => SetInv'
  BY SetStepped DEF SetStep
<1> QED BY <1>1, <1>2, PTL DEF SetSpec

(* FindIndex ends: whatever deleted cells are left behind, a probe meets   *)
(* an empty cell before it has gone around the table.                      *)
THEOREM SearchesTerminate == SetSpec => []SearchesEnd
<1>1. SetInv => SearchesEnd
  BY DEF SetInv, SearchesEnd, Filled
<1> QED BY <1>1, SetInvariance, PTL

(* The hash table of NodeSet answers like a set, through growth, rehashing *)
(* and reused cells.                                                       *)
THEOREM NodeSetIsASet == SetSpec => RefinesSet
<1>1. SetInit => Abstract!Init
  BY SetInitial
<1>2. SetInv /\ [SetNext]_setVars => [Abstract!Next]_<<Members, answer>>
  BY SetStepped DEF SetStep
<1> QED BY <1>1, <1>2, SetInvariance, PTL DEF SetSpec, RefinesSet, Abstract!Spec

-----------------------------------------------------------------------------
(* PointerMap: the chains                                                  *)

(* What the nodes and the buckets hold. *)
Buckets == {HashOf[p] : p \in Ptrs}
NodeRecords == [masked_ptr : Ptrs \cup {NoPtr}, next_hash : Int, version : 1 .. MaxVersion]
NodeTable(nodes, N) == N \in Nat /\ nodes \in [0 .. N - 1 -> NodeRecords]
LiveIn(nodes) == {i \in DOMAIN nodes : nodes[i].masked_ptr # NoPtr}
BucketOf(nodes, i) == HashOf[nodes[i].masked_ptr]

(* The chains: pos[i] nodes are behind node i in its chain.  The bucket     *)
(* leads to the node with the most behind it, and a node to the one with    *)
(* one less.                                                                *)
Chained(nodes, table, pos) ==
    /\ \A i \in LiveIn(nodes) : pos[i] \in Nat
    /\ \A i \in LiveIn(nodes) : pos[i] = 0 => nodes[i].next_hash = -1
    /\ \A i \in LiveIn(nodes) : pos[i] # 0 =>
          /\ nodes[i].next_hash \in LiveIn(nodes)
          /\ BucketOf(nodes, nodes[i].next_hash) = BucketOf(nodes, i)
          /\ pos[nodes[i].next_hash] = pos[i] - 1
    /\ \A i, j \in LiveIn(nodes) :
          BucketOf(nodes, i) = BucketOf(nodes, j) /\ pos[i] = pos[j] => i = j
    /\ \A b \in Buckets : table[b] = -1 => \A i \in LiveIn(nodes) : BucketOf(nodes, i) # b
    /\ \A b \in Buckets : table[b] # -1 =>
          /\ table[b] \in LiveIn(nodes) /\ BucketOf(nodes, table[b]) = b
          /\ \A i \in LiveIn(nodes) : BucketOf(nodes, i) = b => pos[i] <= pos[table[b]]

(* What the table of the nodes says of its members. *)
LEMMA NodeTableSize ==
    ASSUME NEW N, NEW nodes, NodeTable(nodes, N)
    PROVE  /\ N \in Nat /\ DOMAIN nodes = 0 .. N - 1 /\ IsFiniteSet(DOMAIN nodes)
           /\ Cardinality(DOMAIN nodes) = N
           /\ -1 \notin DOMAIN nodes /\ DOMAIN nodes \subseteq Nat
           /\ \A i \in DOMAIN nodes : nodes[i] \in NodeRecords
           /\ \A i \in LiveIn(nodes) : nodes[i].masked_ptr \in Ptrs /\ BucketOf(nodes, i) \in Buckets
<1>1. N \in Nat /\ DOMAIN nodes = 0 .. N - 1 /\ nodes \in [0 .. N - 1 -> NodeRecords]
  BY DEF NodeTable
<1>2. IsFiniteSet(DOMAIN nodes) /\ Cardinality(DOMAIN nodes) = N
  <2>1. IsFiniteSet(0 .. N - 1) /\ Cardinality(0 .. N - 1) = IF 0 > N - 1 THEN 0 ELSE N - 1 - 0 + 1
    BY <1>1, FS_Interval, 0 \in Int, N - 1 \in Int
  <2> QED BY <1>1, <2>1
<1>3. \A i \in LiveIn(nodes) : nodes[i].masked_ptr \in Ptrs
  BY <1>1 DEF LiveIn, NodeRecords
<1>4. \A i \in LiveIn(nodes) : BucketOf(nodes, i) \in Buckets
  BY <1>3 DEF BucketOf, Buckets
<1> QED BY <1>1, <1>2, <1>3, <1>4

(* Add puts a node in front of its chain. *)
LEMMA AddedInFront ==
    ASSUME NEW N, NEW nodes, NodeTable(nodes, N), NEW table, DOMAIN table = Buckets,
           NEW pos, Chained(nodes, table, pos),
           NEW K, NEW new, NodeTable(new, K), NEW p \in Ptrs, NEW i, i \notin LiveIn(nodes),
           i # -1,
           LiveIn(new) = LiveIn(nodes) \cup {i},
           \A n \in LiveIn(nodes) : /\ new[n].masked_ptr = nodes[n].masked_ptr
                                    /\ new[n].next_hash = nodes[n].next_hash,
           new[i].masked_ptr = p, new[i].next_hash = table[HashOf[p]]
    PROVE  \E after : Chained(new, [table EXCEPT ![HashOf[p]] = i], after)
<1> DEFINE h == HashOf[p]
           top == [table EXCEPT ![h] = i]
           after == [n \in LiveIn(new) |->
                        IF n = i THEN (IF table[h] = -1 THEN 0 ELSE pos[table[h]] + 1) ELSE pos[n]]
<1>1. h \in Buckets
  BY DEF Buckets
<1>2. \A b \in Buckets : top[b] = IF b = h THEN i ELSE table[b]
  BY <1>1
<1>3. /\ \A n \in LiveIn(nodes) : n # i /\ n # -1 /\ after[n] = pos[n] /\ BucketOf(new, n) = BucketOf(nodes, n)
      /\ after[i] = IF table[h] = -1 THEN 0 ELSE pos[table[h]] + 1
      /\ BucketOf(new, i) = h
  BY NodeTableSize DEF BucketOf, LiveIn
<1>4. /\ table[h] = -1 => \A n \in LiveIn(nodes) : BucketOf(nodes, n) # h
      /\ table[h] # -1 => /\ table[h] \in LiveIn(nodes) /\ BucketOf(nodes, table[h]) = h
                          /\ pos[table[h]] \in Nat
                          /\ \A n \in LiveIn(nodes) : BucketOf(nodes, n) = h => pos[n] <= pos[table[h]]
  BY <1>1 DEF Chained
<1> HIDE DEF h, top, after
<1>5. \A n \in LiveIn(nodes) : pos[n] \in Nat
  BY DEF Chained
<1>6. \A n \in LiveIn(new) : after[n] \in Nat
  BY <1>3, <1>4, <1>5
<1>7. ASSUME NEW n \in LiveIn(new), after[n] = 0
      PROVE  new[n].next_hash = -1
  BY <1>3, <1>4, <1>7 DEF Chained, h
<1>8. ASSUME NEW n \in LiveIn(new), after[n] # 0
      PROVE  /\ new[n].next_hash \in LiveIn(new)
             /\ BucketOf(new, new[n].next_hash) = BucketOf(new, n)
             /\ after[new[n].next_hash] = after[n] - 1
  <2>1. CASE n = i
    <3>1. table[h] # -1 /\ new[n].next_hash = table[h]
      BY <1>3, <1>8, <2>1 DEF h
    <3> QED BY <1>3, <1>4, <2>1, <3>1
  <2>2. CASE n # i
    <3>1. /\ nodes[n].next_hash \in LiveIn(nodes)
          /\ BucketOf(nodes, nodes[n].next_hash) = BucketOf(nodes, n)
          /\ pos[nodes[n].next_hash] = pos[n] - 1
      BY <1>3, <1>8, <2>2 DEF Chained
    <3> QED BY <1>3, <2>2, <3>1
  <2> QED BY <2>1, <2>2
<1>9. ASSUME NEW m \in LiveIn(new), NEW n \in LiveIn(new),
             BucketOf(new, m) = BucketOf(new, n), after[m] = after[n]
      PROVE  m = n
  <2>1. CASE m = i \/ n = i
    BY <1>3, <1>4, <1>5, <1>9, <2>1
  <2>2. CASE m # i /\ n # i
    BY <1>3, <1>9, <2>2 DEF Chained
  <2> QED BY <2>1, <2>2
<1>10. ASSUME NEW b \in Buckets, top[b] = -1
       PROVE  \A n \in LiveIn(new) : BucketOf(new, n) # b
  BY <1>2, <1>3, <1>10 DEF Chained
<1>11. ASSUME NEW b \in Buckets, top[b] # -1
       PROVE  /\ top[b] \in LiveIn(new) /\ BucketOf(new, top[b]) = b
              /\ \A n \in LiveIn(new) : BucketOf(new, n) = b => after[n] <= after[top[b]]
  <2>1. CASE b = h
    BY <1>2, <1>3, <1>4, <1>5, <1>6, <2>1
  <2>2. CASE b # h
    <3>1. /\ top[b] \in LiveIn(nodes) /\ BucketOf(nodes, top[b]) = b
          /\ \A n \in LiveIn(nodes) : BucketOf(nodes, n) = b => pos[n] <= pos[top[b]]
      BY <1>2, <1>11, <2>2 DEF Chained
    <3> QED BY <1>3, <2>2, <3>1
  <2> QED BY <2>1, <2>2
<1>12. Chained(new, top, after)
  BY <1>6, <1>7, <1>8, <1>9, <1>10, <1>11 DEF Chained
<1> QED BY <1>12 DEF top, h

(* Remove takes a node out of its chain: who led to it now leads to its    *)
(* successor.                                                              *)
LEMMA TakenOut ==
    ASSUME NEW N, NEW nodes, NodeTable(nodes, N), NEW table, NEW pos, Chained(nodes, table, pos),
           NEW new, NodeTable(new, N), NEW i \in LiveIn(nodes), NEW less,
           LiveIn(new) = LiveIn(nodes) \ {i},
           \A n \in LiveIn(new) :
              /\ new[n].masked_ptr = nodes[n].masked_ptr
              /\ new[n].next_hash = IF nodes[n].next_hash = i THEN nodes[i].next_hash
                                                              ELSE nodes[n].next_hash,
           \A b \in Buckets : less[b] = IF table[b] = i THEN nodes[i].next_hash ELSE table[b]
    PROVE  \E after : Chained(new, less, after)
<1> DEFINE h == BucketOf(nodes, i)
           next == nodes[i].next_hash
           after == [n \in LiveIn(new) |->
                        IF BucketOf(nodes, n) = h /\ pos[n] > pos[i] THEN pos[n] - 1 ELSE pos[n]]
<1>1. h \in Buckets /\ i # -1 /\ -1 \notin LiveIn(nodes)
  BY NodeTableSize DEF LiveIn
<1>2. /\ \A n \in LiveIn(new) : n \in LiveIn(nodes) /\ n # i /\ BucketOf(new, n) = BucketOf(nodes, n)
      /\ \A n \in LiveIn(new) :
            after[n] = IF BucketOf(nodes, n) = h /\ pos[n] > pos[i] THEN pos[n] - 1 ELSE pos[n]
  BY DEF BucketOf
<1> HIDE DEF after
<1>3. /\ \A n \in LiveIn(nodes) : pos[n] \in Nat
      /\ \A n \in LiveIn(nodes) : BucketOf(nodes, n) = h /\ pos[n] = pos[i] => n = i
      /\ pos[i] = 0 => next = -1
      /\ pos[i] # 0 => next \in LiveIn(nodes) /\ BucketOf(nodes, next) = h /\ pos[next] = pos[i] - 1
  BY DEF Chained
<1>4. pos[i] # 0 => next \in LiveIn(new) /\ after[next] = pos[i] - 1
  BY <1>2, <1>3
<1> HIDE DEF h, next
<1>5. \A n \in LiveIn(new) : after[n] \in Nat
  BY <1>2, <1>3
<1>6. ASSUME NEW n \in LiveIn(new), nodes[n].next_hash = i
      PROVE  BucketOf(nodes, n) = h /\ pos[n] = pos[i] + 1
  <2>1. pos[n] # 0
    BY <1>1, <1>2, <1>6 DEF Chained
  <2>2. BucketOf(nodes, i) = BucketOf(nodes, n) /\ pos[i] = pos[n] - 1
    BY <1>2, <1>6, <2>1 DEF Chained
  <2> QED BY <1>2, <1>3, <2>2 DEF h
<1>7. ASSUME NEW n \in LiveIn(new), after[n] = 0
      PROVE  new[n].next_hash = -1
  <2>1. CASE nodes[n].next_hash = i
    BY <1>2, <1>3, <1>6, <1>7, <2>1 DEF next
  <2>2. CASE nodes[n].next_hash # i
    <3>1. new[n].next_hash = nodes[n].next_hash
      BY <2>2
    <3>2. CASE pos[n] = 0
      BY <1>2, <3>1, <3>2 DEF Chained
    <3>3. CASE pos[n] # 0
      <4>1. BucketOf(nodes, n) = h /\ pos[n] = 1 /\ pos[i] = 0
        BY <1>2, <1>3, <1>7, <3>3
      <4>2. /\ nodes[n].next_hash \in LiveIn(nodes)
            /\ BucketOf(nodes, nodes[n].next_hash) = h
            /\ pos[nodes[n].next_hash] = 0
        BY <1>2, <3>3, <4>1 DEF Chained
      <4> QED BY <1>3, <2>2, <4>1, <4>2
    <3> QED BY <3>2, <3>3
  <2> QED BY <2>1, <2>2
<1>8. ASSUME NEW n \in LiveIn(new), after[n] # 0
      PROVE  /\ new[n].next_hash \in LiveIn(new)
             /\ BucketOf(new, new[n].next_hash) = BucketOf(new, n)
             /\ after[new[n].next_hash] = after[n] - 1
  <2>1. CASE nodes[n].next_hash = i
    <3>1. BucketOf(nodes, n) = h /\ pos[n] = pos[i] + 1 /\ after[n] = pos[i] /\ new[n].next_hash = next
      BY <1>2, <1>3, <1>6, <2>1 DEF next
    <3> QED BY <1>2, <1>3, <1>4, <1>8, <3>1
  <2>2. CASE nodes[n].next_hash # i
    <3> DEFINE m == nodes[n].next_hash
    <3>1. new[n].next_hash = m
      BY <2>2
    <3>2. pos[n] # 0
      BY <1>2, <1>3, <1>8
    <3>3. m \in LiveIn(nodes) /\ BucketOf(nodes, m) = BucketOf(nodes, n) /\ pos[m] = pos[n] - 1
      BY <1>2, <3>2 DEF Chained
    <3>4. m \in LiveIn(new)
      BY <2>2, <3>3
    <3>5. BucketOf(nodes, m) = h => pos[m] # pos[i]
      BY <1>3, <2>2, <3>3
    <3> HIDE DEF m
    <3> QED BY <1>2, <1>3, <3>1, <3>3, <3>4, <3>5
  <2> QED BY <2>1, <2>2
<1>9. ASSUME NEW m \in LiveIn(new), NEW n \in LiveIn(new),
             BucketOf(new, m) = BucketOf(new, n), after[m] = after[n]
      PROVE  m = n
  <2>1. BucketOf(nodes, m) = BucketOf(nodes, n) /\ m \in LiveIn(nodes) /\ n \in LiveIn(nodes)
    BY <1>2, <1>9
  <2>2. pos[m] = pos[n]
    BY <1>2, <1>3, <1>9, <2>1
  <2> QED BY <2>1, <2>2 DEF Chained
<1>10. ASSUME NEW b \in Buckets, table[b] # i
       PROVE  /\ less[b] = table[b]
              /\ less[b] = -1 => \A n \in LiveIn(new) : BucketOf(new, n) # b
              /\ less[b] # -1 =>
                    /\ less[b] \in LiveIn(new) /\ BucketOf(new, less[b]) = b
                    /\ \A n \in LiveIn(new) : BucketOf(new, n) = b => after[n] <= after[less[b]]
  <2>1. less[b] = table[b]
    BY <1>10
  <2>2. ASSUME less[b] = -1
        PROVE  \A n \in LiveIn(new) : BucketOf(new, n) # b
    <3>1. \A n \in LiveIn(nodes) : BucketOf(nodes, n) # b
      BY <2>1, <2>2 DEF Chained
    <3> QED BY <1>2, <3>1
  <2>3. ASSUME less[b] # -1
        PROVE  /\ less[b] \in LiveIn(new) /\ BucketOf(new, less[b]) = b
               /\ \A n \in LiveIn(new) : BucketOf(new, n) = b => after[n] <= after[less[b]]
    <3>1. /\ less[b] \in LiveIn(nodes) /\ BucketOf(nodes, less[b]) = b
          /\ \A n \in LiveIn(nodes) : BucketOf(nodes, n) = b => pos[n] <= pos[less[b]]
      BY <2>1, <2>3 DEF Chained
    <3>2. less[b] \in LiveIn(new)
      BY <1>10, <2>1, <3>1
    <3>3. ASSUME NEW n \in LiveIn(new), BucketOf(new, n) = b
          PROVE  after[n] <= after[less[b]]
      BY <1>2, <1>3, <3>1, <3>2, <3>3
    <3> QED BY <1>2, <3>1, <3>2, <3>3
  <2> QED BY <2>1, <2>2, <2>3
<1>11. ASSUME NEW b \in Buckets, table[b] = i
       PROVE  /\ less[b] = -1 => \A n \in LiveIn(new) : BucketOf(new, n) # b
              /\ less[b] # -1 =>
                    /\ less[b] \in LiveIn(new) /\ BucketOf(new, less[b]) = b
                    /\ \A n \in LiveIn(new) : BucketOf(new, n) = b => after[n] <= after[less[b]]
  <2>1. b = h /\ less[b] = next /\ \A n \in LiveIn(nodes) : BucketOf(nodes, n) = h => pos[n] <= pos[i]
    BY <1>1, <1>11 DEF Chained, h, next
  <2>2. \A n \in LiveIn(new) : BucketOf(new, n) = b => after[n] = pos[n] /\ pos[n] < pos[i] /\ pos[n] \in Nat
    BY <1>2, <1>3, <2>1
  <2>3. CASE pos[i] = 0
    BY <1>3, <2>1, <2>2, <2>3
  <2>4. CASE pos[i] # 0
    <3>1. /\ less[b] \in LiveIn(new) /\ BucketOf(new, less[b]) = b /\ after[less[b]] = pos[i] - 1
      BY <1>2, <1>3, <1>4, <2>1, <2>4
    <3>2. less[b] # -1
      BY <1>1, <1>2, <3>1
    <3> QED BY <1>3, <2>2, <3>1, <3>2
  <2> QED BY <2>3, <2>4
<1>12. Chained(new, less, after)
  BY <1>5, <1>7, <1>8, <1>9, <1>10, <1>11 DEF Chained
<1> QED BY <1>12
(* The chain has its values. *)
Entries(f, p, m) ==
    f = [k \in 0 .. m |-> IF k = 0 THEN ptrmap_[HashOf[p]]
                          ELSE IF f[k - 1] = -1 THEN -1
                          ELSE nodes_[f[k - 1]].next_hash]

(* A chain can be followed to any bound. *)
LEMMA EntriesExist ==
    ASSUME NEW p, NEW m \in Nat
    PROVE  \E f : Entries(f, p, m)
<1> DEFINE bad == {n \in Nat : ~ \E f : Entries(f, p, n)}
<1>1. SUFFICES ASSUME bad # {}
               PROVE  FALSE
  OBVIOUS
<1>2. PICK n \in bad : \A k \in bad : n <= k
  BY <1>1, SmallestMember
<1>3. CASE n = 0
  <2> DEFINE f == [k \in 0 .. 0 |-> ptrmap_[HashOf[p]]]
  <2>1. f = [k \in 0 .. 0 |-> IF k = 0 THEN ptrmap_[HashOf[p]]
                              ELSE IF f[k - 1] = -1 THEN -1
                              ELSE nodes_[f[k - 1]].next_hash]
    OBVIOUS
  <2>2. Entries(f, p, 0)
    BY <2>1 DEF Entries
  <2> QED BY <1>2, <1>3, <2>2
<1>4. CASE n # 0
  <2>1. n - 1 \in Nat /\ n \in Nat /\ ~ (n <= n - 1)
    BY <1>2, <1>4
  <2>2. PICK g : Entries(g, p, n - 1)
    BY <1>2, <2>1
  <2> DEFINE last == IF g[n - 1] = -1 THEN -1 ELSE nodes_[g[n - 1]].next_hash
             f == [k \in 0 .. n |-> IF k = n THEN last ELSE g[k]]
  <2>3. g = [k \in 0 .. n - 1 |-> IF k = 0 THEN ptrmap_[HashOf[p]]
                                  ELSE IF g[k - 1] = -1 THEN -1
                                  ELSE nodes_[g[k - 1]].next_hash]
    BY <2>2 DEF Entries
  <2>4. \A k \in 0 .. n - 1 : f[k] = g[k]
    BY <2>1
  <2>5. ASSUME NEW k \in 0 .. n
        PROVE  f[k] = IF k = 0 THEN ptrmap_[HashOf[p]]
                      ELSE IF f[k - 1] = -1 THEN -1
                      ELSE nodes_[f[k - 1]].next_hash
    <3>1. CASE k = n
      <4>1. f[n] = last /\ f[n - 1] = g[n - 1]
        BY <2>1, <2>4
      <4> HIDE DEF f
      <4> QED BY <1>4, <3>1, <4>1
    <3>2. CASE k # n
      <4>1. k \in 0 .. n - 1 /\ (k # 0 => k - 1 \in 0 .. n - 1)
        BY <2>1, <3>2
      <4>2. f[k] = g[k] /\ (k # 0 => f[k - 1] = g[k - 1])
        BY <2>4, <4>1
      <4> HIDE DEF f
      <4> QED BY <2>3, <4>1, <4>2
    <3> QED BY <3>1, <3>2
  <2>6. f = [k \in 0 .. n |-> f[k]]
    OBVIOUS
  <2> HIDE DEF f
  <2>7. f = [k \in 0 .. n |-> IF k = 0 THEN ptrmap_[HashOf[p]]
                              ELSE IF f[k - 1] = -1 THEN -1
                              ELSE nodes_[f[k - 1]].next_hash]
    BY <2>5, <2>6
  <2>8. Entries(f, p, n)
    BY <2>7 DEF Entries
  <2> QED BY <1>2, <2>8
<1> QED BY <1>3, <1>4

(* Chain follows next_hash from the bucket of a lock. *)
LEMMA ChainEntries ==
    ASSUME NEW p, Count \in Nat
    PROVE  /\ Chain(p)[0] = ptrmap_[HashOf[p]]
           /\ \A k \in 1 .. Count :
                Chain(p)[k] = IF Chain(p)[k - 1] = -1 THEN -1 ELSE nodes_[Chain(p)[k - 1]].next_hash
<1> DEFINE f == CHOOSE g : Entries(g, p, Count)
<1>1. Entries(f, p, Count)
  BY EntriesExist
<1>2. Chain(p) = f
  BY DEF Chain, Entries
<1> HIDE DEF f
<1>3. f = [k \in 0 .. Count |-> IF k = 0 THEN ptrmap_[HashOf[p]]
                                ELSE IF f[k - 1] = -1 THEN -1
                                ELSE nodes_[f[k - 1]].next_hash]
  BY <1>1 DEF Entries
<1>4. \A k \in 0 .. Count : f[k] = IF k = 0 THEN ptrmap_[HashOf[p]]
                                   ELSE IF f[k - 1] = -1 THEN -1
                                   ELSE nodes_[f[k - 1]].next_hash
  BY <1>3
<1>5. f[0] = ptrmap_[HashOf[p]]
  BY <1>4
<1>6. \A k \in 1 .. Count : f[k] = IF f[k - 1] = -1 THEN -1 ELSE nodes_[f[k - 1]].next_hash
  BY <1>4
<1> QED BY <1>2, <1>5, <1>6

(* The nodes from the first of a bucket on, and the -1 behind them. *)
LEMMA ChainDescends ==
    ASSUME NodeTable(nodes_, Count), NEW pos, Chained(nodes_, ptrmap_, pos), NEW p \in Ptrs
    PROVE  LET h == HashOf[p]
               first == ptrmap_[h]
           IN \A k \in 0 .. Count :
                IF first # -1 /\ k <= pos[first]
                THEN /\ Chain(p)[k] \in LiveIn(nodes_) /\ BucketOf(nodes_, Chain(p)[k]) = h
                     /\ pos[Chain(p)[k]] = pos[first] - k
                ELSE Chain(p)[k] = -1
<1> DEFINE h == HashOf[p]
           first == ptrmap_[h]
           Right(k) == IF first # -1 /\ k <= pos[first]
                       THEN /\ Chain(p)[k] \in LiveIn(nodes_) /\ BucketOf(nodes_, Chain(p)[k]) = h
                            /\ pos[Chain(p)[k]] = pos[first] - k
                       ELSE Chain(p)[k] = -1
           bad == {k \in 0 .. Count : ~ Right(k)}
<1>1. Count \in Nat /\ h \in Buckets
  BY DEF NodeTable, Buckets
<1>2. first # -1 => first \in LiveIn(nodes_) /\ BucketOf(nodes_, first) = h /\ pos[first] \in Nat
  BY <1>1 DEF Chained
<1>3. /\ Chain(p)[0] = first
      /\ \A k \in 1 .. Count :
            Chain(p)[k] = IF Chain(p)[k - 1] = -1 THEN -1 ELSE nodes_[Chain(p)[k - 1]].next_hash
  BY <1>1, ChainEntries
<1>4. bad = {}
  <2> SUFFICES ASSUME bad # {}
               PROVE  FALSE
    OBVIOUS
  <2>1. bad \in SUBSET Nat
    BY <1>1
  <2> HIDE DEF bad
  <2>2. PICK k \in bad : \A n \in bad : k <= n
    BY <2>1, SmallestMember
  <2>3. k \in 0 .. Count /\ ~ Right(k)
    BY <2>2 DEF bad
  <2>4. CASE k = 0
    BY <1>2, <1>3, <2>3, <2>4
  <2>5. CASE k # 0
    <3>1. k \in 1 .. Count /\ k - 1 \in 0 .. Count /\ ~ (k <= k - 1)
      BY <1>1, <2>3, <2>5
    <3>2. Right(k - 1)
      BY <2>2, <3>1 DEF bad
    <3>3. Chain(p)[k] = IF Chain(p)[k - 1] = -1 THEN -1 ELSE nodes_[Chain(p)[k - 1]].next_hash
      BY <1>3, <3>1
    <3> DEFINE c == Chain(p)[k - 1]
               d == Chain(p)[k]
    <3>4. -1 \notin LiveIn(nodes_)
      BY NodeTableSize DEF LiveIn
    <3>5. CASE first # -1 /\ k - 1 <= pos[first]
      <4>1. c \in LiveIn(nodes_) /\ BucketOf(nodes_, c) = h /\ pos[c] = pos[first] - (k - 1)
        BY <3>2, <3>5
      <4>2. c # -1 /\ d = nodes_[c].next_hash
        BY <3>3, <3>4, <4>1
      <4> HIDE DEF c, d
      <4>3. CASE pos[c] = 0
        <5>1. d = -1
          BY <4>1, <4>2, <4>3 DEF Chained
        <5>2. ~ (k <= pos[first])
          BY <1>2, <2>3, <3>5, <4>1, <4>3
        <5> QED BY <2>3, <5>1, <5>2 DEF d
      <4>4. CASE pos[c] # 0
        <5>1. d \in LiveIn(nodes_) /\ BucketOf(nodes_, d) = h /\ pos[d] = pos[c] - 1
          BY <4>1, <4>2, <4>4 DEF Chained
        <5>2. pos[c] \in Nat /\ pos[first] \in Nat /\ k \in Int
          BY <1>2, <3>1, <3>5, <4>1 DEF Chained
        <5>3. k <= pos[first] /\ pos[d] = pos[first] - k
          BY <4>1, <4>4, <5>1, <5>2
        <5> QED BY <2>3, <3>5, <5>1, <5>3 DEF d
      <4> QED BY <4>3, <4>4
    <3>6. CASE ~ (first # -1 /\ k - 1 <= pos[first])
      <4>1. d = -1
        BY <3>2, <3>3, <3>6
      <4>2. ~ (first # -1 /\ k <= pos[first])
        BY <1>2, <3>1, <3>6
      <4> HIDE DEF first, h
      <4> QED BY <2>3, <4>1, <4>2
    <3> QED BY <3>5, <3>6
  <2> QED BY <2>4, <2>5
<1>5. \A k \in 0 .. Count : Right(k)
  BY <1>4
<1> QED BY <1>5

(* A chain has no more nodes than there are: its end is reached. *)
LEMMA ChainIsShort ==
    ASSUME NodeTable(nodes_, Count), NEW pos, Chained(nodes_, ptrmap_, pos), NEW p \in Ptrs,
           ptrmap_[HashOf[p]] # -1
    PROVE  pos[ptrmap_[HashOf[p]]] \in Nat /\ pos[ptrmap_[HashOf[p]]] < Count
<1> DEFINE h == HashOf[p]
           first == ptrmap_[h]
           P == pos[first]
<1>1. Count \in Nat /\ h \in Buckets /\ IsFiniteSet(DOMAIN nodes_)
  BY NodeTableSize DEF Buckets
<1>2. first \in LiveIn(nodes_) /\ P \in Nat
  BY <1>1 DEF Chained
<1>3. SUFFICES ASSUME P >= Count
               PROVE  FALSE
  BY <1>1, <1>2
<1> HIDE DEF P
<1>4. \A k \in 0 .. Count : Chain(p)[k] \in LiveIn(nodes_) /\ pos[Chain(p)[k]] = P - k
  <2>1. \A k \in 0 .. Count : first # -1 /\ k <= P
    BY <1>1, <1>2, <1>3
  <2> QED BY <2>1, ChainDescends DEF P
<1> DEFINE f == [k \in 0 .. Count |-> Chain(p)[k]]
<1>5. f \in [0 .. Count -> DOMAIN nodes_]
  BY <1>4 DEF LiveIn
<1>6. \A k, n \in 0 .. Count : f[k] = f[n] => k = n
  <2> SUFFICES ASSUME NEW k \in 0 .. Count, NEW n \in 0 .. Count, f[k] = f[n]
               PROVE  k = n
    OBVIOUS
  <2>1. Chain(p)[k] = Chain(p)[n]
    OBVIOUS
  <2>2. P - k = P - n
    BY <1>4, <2>1
  <2> QED BY <1>1, <1>2, <2>2
<1>7. f \in Injection(0 .. Count, DOMAIN nodes_)
  BY <1>5, <1>6 DEF Injection, IsInjective
<1> HIDE DEF f
<1>8. Cardinality(0 .. Count) <= Cardinality(DOMAIN nodes_)
  BY <1>1, <1>7, FS_Injection
<1>9. Cardinality(0 .. Count) = Count + 1
  BY <1>1, FS_Interval
<1> QED BY <1>1, <1>8, <1>9 DEF Count

(* Find ends at the node of the lock, if it has one, and Place says who    *)
(* leads to it: the bucket, or exactly one node.                           *)
LEMMA Finds ==
    ASSUME NodeTable(nodes_, Count), NEW pos, Chained(nodes_, ptrmap_, pos), NEW p \in Ptrs
    PROVE  LET i == Find(p)
               k == Place(p)
               c == Chain(p)[k - 1]
               first == ptrmap_[HashOf[p]]
           IN /\ i = -1 => \A n \in DOMAIN nodes_ : nodes_[n].masked_ptr # p
              /\ i # -1 =>
                    /\ i \in LiveIn(nodes_) /\ nodes_[i].masked_ptr = p
                    /\ k = 0 => first = i /\ \A n \in LiveIn(nodes_) : nodes_[n].next_hash # i
                    /\ k # 0 => /\ first # i /\ c \in LiveIn(nodes_)
                                /\ \A n \in LiveIn(nodes_) : nodes_[n].next_hash = i <=> n = c
<1> DEFINE h == HashOf[p]
           first == ptrmap_[h]
           stops == {k \in 0 .. Count : Chain(p)[k] = -1 \/ nodes_[Chain(p)[k]].masked_ptr = p}
           k == Place(p)
           i == Find(p)
<1>1. /\ Count \in Nat /\ h \in Buckets /\ -1 \notin LiveIn(nodes_) /\ p # NoPtr
      /\ LiveIn(nodes_) \subseteq DOMAIN nodes_
  BY NodeTableSize, MapAssumption DEF Buckets, LiveIn
<1>2. \A n \in 0 .. Count :
         IF first # -1 /\ n <= pos[first]
         THEN /\ Chain(p)[n] \in LiveIn(nodes_) /\ BucketOf(nodes_, Chain(p)[n]) = h
              /\ pos[Chain(p)[n]] = pos[first] - n
         ELSE Chain(p)[n] = -1
  BY ChainDescends
<1>3. first # -1 => pos[first] \in Nat /\ pos[first] < Count
  BY ChainIsShort
<1>4. stops \in SUBSET Nat /\ stops # {}
  <2>1. CASE first = -1
    <3>1. 0 \in 0 .. Count /\ Chain(p)[0] = -1
      BY <1>1, <1>2, <2>1
    <3> QED BY <1>1, <3>1
  <2>2. CASE first # -1
    <3>1. pos[first] + 1 \in 0 .. Count /\ ~ (pos[first] + 1 <= pos[first])
      BY <1>1, <1>3, <2>2
    <3>2. Chain(p)[pos[first] + 1] = -1
      BY <1>2, <3>1
    <3> QED BY <1>1, <3>1, <3>2
  <2> QED BY <2>1, <2>2
<1>5. k = Min(stops)
  BY DEF Place
<1>6. k \in stops /\ \A n \in stops : k <= n
  <2>1. \E x \in stops : \A y \in stops : x <= y
    BY <1>4, SmallestMember
  <2> HIDE DEF stops
  <2> QED BY <1>5, <2>1 DEF Min
<1>7. i = Chain(p)[k]
  BY DEF Find
<1> HIDE DEF k, i
<1>8. ASSUME i = -1, NEW n \in DOMAIN nodes_, nodes_[n].masked_ptr = p
      PROVE  FALSE
  <2>1. n \in LiveIn(nodes_) /\ BucketOf(nodes_, n) = h
    BY <1>1, <1>8 DEF LiveIn, BucketOf
  <2>2. first # -1 /\ first \in LiveIn(nodes_) /\ pos[n] <= pos[first] /\ pos[n] \in Nat
    BY <1>1, <2>1 DEF Chained
  <2> DEFINE j == pos[first] - pos[n]
  <2>3. j \in 0 .. Count /\ j <= pos[first] /\ pos[first] - j = pos[n]
    BY <1>1, <1>3, <2>2
  <2> HIDE DEF j
  <2>4. /\ Chain(p)[j] \in LiveIn(nodes_) /\ BucketOf(nodes_, Chain(p)[j]) = h
        /\ pos[Chain(p)[j]] = pos[n]
    BY <1>2, <2>2, <2>3
  <2>5. Chain(p)[j] = n
    BY <2>1, <2>4 DEF Chained
  <2>6. j \in stops
    BY <1>8, <2>3, <2>5
  <2>7. k <= j /\ k \in 0 .. Count
    BY <1>6, <2>6
  <2>8. k <= pos[first]
    BY <1>1, <1>3, <2>2, <2>3, <2>7
  <2>9. Chain(p)[k] \in LiveIn(nodes_)
    BY <1>2, <2>2, <2>7, <2>8
  <2> QED BY <1>1, <1>7, <1>8, <2>9
<1>9. ASSUME i # -1
      PROVE  /\ i \in LiveIn(nodes_) /\ nodes_[i].masked_ptr = p
             /\ k = 0 => first = i /\ \A n \in LiveIn(nodes_) : nodes_[n].next_hash # i
             /\ k # 0 => /\ first # i /\ Chain(p)[k - 1] \in LiveIn(nodes_)
                         /\ \A n \in LiveIn(nodes_) : nodes_[n].next_hash = i <=> n = Chain(p)[k - 1]
  <2>1. k \in 0 .. Count /\ nodes_[i].masked_ptr = p
    BY <1>6, <1>7, <1>9
  <2>2. first # -1 /\ k <= pos[first] /\ i \in LiveIn(nodes_) /\ BucketOf(nodes_, i) = h /\ pos[i] = pos[first] - k
    BY <1>2, <1>7, <1>9, <2>1
  <2>3. ASSUME NEW n \in LiveIn(nodes_), nodes_[n].next_hash = i
        PROVE  BucketOf(nodes_, n) = h /\ pos[n] = pos[i] + 1 /\ pos[n] <= pos[first] /\ pos[i] \in Nat
    <3>1. pos[n] # 0
      BY <1>9, <2>3 DEF Chained
    <3>2. /\ BucketOf(nodes_, n) = h /\ pos[i] = pos[n] - 1
          /\ pos[n] \in Nat /\ pos[i] \in Nat
      BY <2>2, <2>3, <3>1 DEF Chained
    <3>3. pos[n] <= pos[first]
      BY <1>1, <2>2, <3>2 DEF Chained
    <3> QED BY <3>2, <3>3
  <2>4. CASE k = 0
    <3>1. first = i
      BY <1>1, <1>7, <2>4, ChainEntries
    <3>2. \A n \in LiveIn(nodes_) : nodes_[n].next_hash # i
      BY <1>3, <2>2, <2>3, <3>1
    <3> QED BY <2>1, <2>2, <2>4, <3>1, <3>2
  <2>5. CASE k # 0
    <3>1. k - 1 \in 0 .. Count /\ k \in 1 .. Count /\ k - 1 <= pos[first]
      BY <1>1, <1>3, <2>1, <2>2, <2>5
    <3>2. /\ Chain(p)[k - 1] \in LiveIn(nodes_) /\ BucketOf(nodes_, Chain(p)[k - 1]) = h
          /\ pos[Chain(p)[k - 1]] = pos[first] - (k - 1)
      BY <1>2, <2>2, <3>1
    <3>3. nodes_[Chain(p)[k - 1]].next_hash = i
      BY <1>1, <1>7, <3>1, <3>2, ChainEntries
    <3> DEFINE c == Chain(p)[k - 1]
    <3> HIDE DEF c
    <3>4. ASSUME NEW n \in LiveIn(nodes_), nodes_[n].next_hash = i
          PROVE  n = c
      <4>1. BucketOf(nodes_, n) = h /\ pos[n] = pos[i] + 1
        BY <2>3, <3>4
      <4>2. pos[c] = pos[i] + 1 /\ c \in LiveIn(nodes_) /\ BucketOf(nodes_, c) = h
        BY <1>3, <2>2, <3>1, <3>2 DEF c
      <4> QED BY <4>1, <4>2 DEF Chained
    <3>5. first # i
      BY <1>3, <2>2, <2>5, <3>1
    <3> QED BY <2>1, <2>2, <2>5, <3>2, <3>3, <3>4, <3>5 DEF c
  <2> QED BY <2>4, <2>5
<1> QED BY <1>8, <1>9 DEF i, k

(* Fields of one node *)
LEMMA SetNextHash ==
    ASSUME NEW N, NEW nodes, NodeTable(nodes, N), NEW i \in 0 .. N - 1, NEW x \in Int
    PROVE  LET new == [nodes EXCEPT ![i].next_hash = x] IN
           /\ NodeTable(new, N)
           /\ \A n \in 0 .. N - 1 :
                 /\ new[n].masked_ptr = nodes[n].masked_ptr
                 /\ new[n].version = nodes[n].version
                 /\ new[n].next_hash = IF n = i THEN x ELSE nodes[n].next_hash
BY DEF NodeTable, NodeRecords

(* A node gets another lock, or none. *)
LEMMA SetMaskedPtr ==
    ASSUME NEW N, NEW nodes, NodeTable(nodes, N), NEW i \in 0 .. N - 1, NEW x \in Ptrs \cup {NoPtr}
    PROVE  LET new == [nodes EXCEPT ![i].masked_ptr = x] IN
           /\ NodeTable(new, N)
           /\ \A n \in 0 .. N - 1 :
                 /\ new[n].masked_ptr = IF n = i THEN x ELSE nodes[n].masked_ptr
                 /\ new[n].version = nodes[n].version
                 /\ new[n].next_hash = nodes[n].next_hash
BY DEF NodeTable, NodeRecords

(* A node gets another version. *)
LEMMA SetVersion ==
    ASSUME NEW N, NEW nodes, NodeTable(nodes, N), NEW i \in 0 .. N - 1, NEW x \in 1 .. MaxVersion
    PROVE  LET new == [nodes EXCEPT ![i].version = x] IN
           /\ NodeTable(new, N)
           /\ \A n \in 0 .. N - 1 :
                 /\ new[n].masked_ptr = nodes[n].masked_ptr
                 /\ new[n].version = IF n = i THEN x ELSE nodes[n].version
                 /\ new[n].next_hash = nodes[n].next_hash
BY DEF NodeTable, NodeRecords

(* A list of nodes and its block of the arena. *)
ListOwned(v, blocks) ==
    /\ IsVec(v) /\ Size(v) \in Nat /\ DOMAIN v.cells = 0 .. Size(v) - 1
    /\ v.ptr \in ArenaBlocks \cup {Space}
    /\ blocks = {v.ptr} \ {Space}

(* The free list holds nodes no lock has, once. *)
Spare(v, nodes) ==
    /\ \A k \in DOMAIN v.cells : v.cells[k] \in DOMAIN nodes \ LiveIn(nodes)
    /\ \A j, k \in DOMAIN v.cells : v.cells[j] = v.cells[k] => j = k

MapInv ==
    /\ NodeTable(nodes_, Count) /\ Count <= MaxNodes
    /\ ptrmap_ \in [Buckets -> Int]
    /\ \E pos : Chained(nodes_, ptrmap_, pos)
    /\ \A m, n \in LiveIn(nodes_) : nodes_[m].masked_ptr = nodes_[n].masked_ptr => m = n
    /\ ListOwned(free_nodes_, list_blocks)
    /\ Spare(free_nodes_, nodes_)

(* What the graph sees of them. *)
Versions(nodes) == [i \in Index |-> IF i \in DOMAIN nodes THEN nodes[i].version ELSE 0]
Pointers(nodes) == [i \in Index |-> IF i \in DOMAIN nodes THEN nodes[i].masked_ptr ELSE NoPtr]
AsSequence(v)   == [k \in 1 .. Size(v) |-> v.cells[k - 1]]

(* The size of a vector with so many cells. *)
LEMMA CellsOfSize ==
    ASSUME NEW v, NEW n \in Nat, DOMAIN v.cells = 0 .. n - 1
    PROVE  Size(v) = n
<1>1. Cardinality(0 .. n - 1) = IF 0 > n - 1 THEN 0 ELSE n - 1 - 0 + 1
  BY FS_Interval, 0 \in Int, n - 1 \in Int
<1> QED BY <1>1 DEF Size

(* pop_back leaves all entries but the last. *)
LEMMA PoppedList ==
    ASSUME NEW v, NEW blocks, ListOwned(v, blocks), Size(v) > 0
    PROVE  /\ ListOwned(pop_back(v), blocks) /\ Size(pop_back(v)) = Size(v) - 1
           /\ \A k \in 0 .. Size(v) - 2 : pop_back(v).cells[k] = v.cells[k]
           /\ Size(v) - 1 \in DOMAIN v.cells
           /\ DOMAIN pop_back(v).cells = 0 .. Size(v) - 2
<1> DEFINE cells == [i \in 0 .. Size(v) - 2 |-> v.cells[i]]
           w == pop_back(v)
<1>1. Size(v) \in Nat /\ IsVec(v) /\ DOMAIN v.cells = 0 .. Size(v) - 1
  BY DEF ListOwned
<1>2. w = [v EXCEPT !.cells = cells]
  BY DEF pop_back
<1>3. DOMAIN cells = 0 .. Size(v) - 2 /\ \A k \in 0 .. Size(v) - 2 : cells[k] = v.cells[k]
  OBVIOUS
<1> HIDE DEF cells, w
<1>4. IsVec(w) /\ w.cells = cells /\ w.ptr = v.ptr
  BY <1>1, <1>2, SetCells
<1>5. Size(v) - 1 \in Nat /\ 0 .. (Size(v) - 1) - 1 = 0 .. Size(v) - 2
  BY <1>1
<1>6. Size(w) = Size(v) - 1
  BY <1>3, <1>4, <1>5, CellsOfSize
<1>7. ListOwned(w, blocks)
  BY <1>3, <1>4, <1>5, <1>6 DEF ListOwned
<1> QED BY <1>1, <1>3, <1>4, <1>5, <1>6, <1>7 DEF w

(* push_back adds one entry behind the others. *)
LEMMA PushedList ==
    ASSUME NEW v, NEW blocks, ListOwned(v, blocks), NEW val
    PROVE  LET g == push_back(v, blocks, val) IN
           /\ ListOwned(g.vec, g.heap) /\ Size(g.vec) = Size(v) + 1
           /\ DOMAIN g.vec.cells = 0 .. Size(v)
           /\ \A k \in 0 .. Size(v) : g.vec.cells[k] = IF k < Size(v) THEN v.cells[k] ELSE val
<1> DEFINE cells == [i \in 0 .. Size(v) |-> IF i < Size(v) THEN v.cells[i] ELSE val]
           g == IF Size(v) = v.capacity THEN Grow(v, blocks, Size(v) + 1)
                                        ELSE [vec |-> v, heap |-> blocks]
           pushed == push_back(v, blocks, val)
<1>1. /\ Size(v) \in Nat /\ IsVec(v) /\ v.ptr \in ArenaBlocks \cup {Space}
      /\ blocks = {v.ptr} \ {Space}
  BY DEF ListOwned
<1>2. pushed = [g EXCEPT !.vec.cells = cells]
  BY DEF push_back
<1>3. DOMAIN cells = 0 .. Size(v)
      /\ \A k \in 0 .. Size(v) : cells[k] = IF k < Size(v) THEN v.cells[k] ELSE val
  OBVIOUS
<1>4. /\ g = [vec |-> g.vec, heap |-> g.heap] /\ IsVec(g.vec)
      /\ g.vec.ptr \in ArenaBlocks \cup {Space} /\ g.heap = {g.vec.ptr} \ {Space}
  <2>1. CASE Size(v) = v.capacity
    <3> DEFINE big == Grow(v, blocks, Size(v) + 1)
    <3>1. /\ v.ptr \in blocks \cup {Space} /\ Space \notin blocks /\ Space \notin ArenaBlocks
          /\ ArenaBlocks \ blocks # {}
      BY <1>1, VecAssumption
    <3>2. /\ IsVec(big.vec) /\ big.vec.ptr \in ArenaBlocks \ blocks
          /\ big.heap = (blocks \cup {big.vec.ptr}) \ {v.ptr}
      BY <1>1, <3>1, GrowTakesABlock
    <3>3. big = [vec |-> big.vec, heap |-> big.heap]
      BY DEF Grow
    <3>4. g = big
      BY <2>1
    <3> HIDE DEF big, g
    <3>5. big.heap = {big.vec.ptr} \ {Space}
      BY <1>1, <3>1, <3>2
    <3> QED BY <3>2, <3>3, <3>4, <3>5
  <2>2. CASE Size(v) # v.capacity
    <3>1. g = [vec |-> v, heap |-> blocks]
      BY <2>2
    <3> HIDE DEF g
    <3> QED BY <1>1, <3>1
  <2> QED BY <2>1, <2>2
<1> HIDE DEF cells, g, pushed
<1>5. pushed = [vec |-> [g.vec EXCEPT !.cells = cells], heap |-> g.heap]
  BY <1>2, <1>4
<1>6. IsVec(pushed.vec) /\ pushed.vec.cells = cells /\ pushed.vec.ptr = g.vec.ptr /\ pushed.heap = g.heap
  BY <1>4, <1>5, SetCells
<1>7. Size(v) + 1 \in Nat /\ 0 .. (Size(v) + 1) - 1 = 0 .. Size(v)
  BY <1>1
<1>8. Size(pushed.vec) = Size(v) + 1
  BY <1>3, <1>6, <1>7, CellsOfSize
<1>9. ListOwned(pushed.vec, pushed.heap)
  BY <1>3, <1>4, <1>6, <1>7, <1>8 DEF ListOwned
<1> QED BY <1>3, <1>6, <1>8, <1>9 DEF pushed

(* A graph without nodes has empty chains. *)
LEMMA MapInitial ==
    ASSUME MapInit
    PROVE  MapInv /\ G!Init
<1>1. /\ nodes_ = [i \in {} |-> Junk] /\ ptrmap_ = [b \in Buckets |-> -1]
      /\ free_nodes_ = Inlined /\ list_blocks = {} /\ got = [call |-> "none"]
  BY DEF MapInit, Buckets
<1>2. DOMAIN nodes_ = {} /\ LiveIn(nodes_) = {}
  BY <1>1 DEF LiveIn
<1>3. Count = 0
  BY <1>2, FS_EmptySet DEF Count
<1>4. NodeTable(nodes_, 0)
  <2>1. 0 .. 0 - 1 = {}
    OBVIOUS
  <2>2. nodes_ \in [{} -> NodeRecords]
    BY <1>1
  <2> QED BY <2>1, <2>2 DEF NodeTable
<1>5. Chained(nodes_, ptrmap_, nodes_)
  BY <1>1, <1>2 DEF Chained
<1>6. DOMAIN free_nodes_.cells = {}
  BY <1>1 DEF Inlined
<1>7. Size(free_nodes_) = 0
  BY <1>6, FS_EmptySet DEF Size
<1>8. ListOwned(free_nodes_, list_blocks)
  <2>1. 0 .. 0 - 1 = {}
    OBVIOUS
  <2> QED BY <1>1, <1>6, <1>7, <2>1, InlinedIsVec DEF ListOwned
<1>9. Spare(free_nodes_, nodes_)
  BY <1>6 DEF Spare
<1>10. MapInv
  BY <1>1, <1>2, <1>3, <1>4, <1>5, <1>8, <1>9, MapAssumption DEF MapInv
<1>11. /\ Versions(nodes_) = [i \in Index |-> 0] /\ Pointers(nodes_) = [i \in Index |-> NoPtr]
       /\ AsSequence(free_nodes_) = <<>>
  BY <1>2, <1>7 DEF Versions, Pointers, AsSequence
<1>12. G!Init
  BY <1>1, <1>3, <1>11 DEF G!Init, G!Index, Index, Versions, Pointers, AsSequence
<1> QED BY <1>10, <1>12

(* The graph of GraphCycles has the nodes of the table, each with its      *)
(* version and its lock.                                                   *)
LEMMA GraphView ==
    ASSUME MapInv
    PROVE  /\ Count \in Nat /\ DOMAIN nodes_ = 0 .. Count - 1 /\ DOMAIN nodes_ \subseteq Index
           /\ G!Nodes = DOMAIN nodes_
           /\ \A i \in DOMAIN nodes_ : /\ Versions(nodes_)[i] = nodes_[i].version
                                       /\ Pointers(nodes_)[i] = nodes_[i].masked_ptr
                                       /\ nodes_[i].version \in 1 .. MaxVersion
           /\ \A i \in Index \ DOMAIN nodes_ : Versions(nodes_)[i] = 0 /\ Pointers(nodes_)[i] = NoPtr
           /\ Size(free_nodes_) \in Nat
<1>1. /\ Count \in Nat /\ DOMAIN nodes_ = 0 .. Count - 1 /\ Count <= MaxNodes /\ MaxNodes \in Nat
      /\ \A i \in DOMAIN nodes_ : nodes_[i] \in NodeRecords
  BY NodeTableSize, MapAssumption DEF MapInv
<1>2. DOMAIN nodes_ \subseteq Index
  BY <1>1 DEF Index
<1> QED BY <1>1, <1>2 DEF G!Nodes, Versions, Pointers, NodeRecords, MapInv, ListOwned

(* Find answers what the graph asks: whether a lock has a node, and which. *)
LEMMA PointersOf ==
    ASSUME MapInv, NEW p \in Ptrs
    PROVE  /\ p \notin {Pointers(nodes_)[i] : i \in G!Nodes} <=> Find(p) = -1
           /\ Find(p) # -1 => /\ Find(p) \in DOMAIN nodes_ /\ Find(p) \in LiveIn(nodes_)
                              /\ nodes_[Find(p)].masked_ptr = p
<1>1. NodeTable(nodes_, Count) /\ \E pos : Chained(nodes_, ptrmap_, pos)
  BY DEF MapInv
<1>2. /\ Find(p) = -1 => \A n \in DOMAIN nodes_ : nodes_[n].masked_ptr # p
      /\ Find(p) # -1 => Find(p) \in LiveIn(nodes_) /\ nodes_[Find(p)].masked_ptr = p
  BY <1>1, Finds
<1>3. LiveIn(nodes_) \subseteq DOMAIN nodes_
  BY DEF LiveIn
<1> QED BY <1>2, <1>3, GraphView

KnownGet(p) ==
    /\ Find(p) # -1
    /\ Got(p, Find(p), nodes_[Find(p)].version)
    /\ UNCHANGED <<nodes_, ptrmap_, free_nodes_, list_blocks>>

NewGet(p) ==
    LET node == [masked_ptr |-> p, next_hash |-> -1, version |-> 1]
    IN /\ Find(p) = -1 /\ Size(free_nodes_) = 0
       /\ Count < MaxNodes
       /\ Add([n \in 0 .. Count |-> IF n = Count THEN node ELSE nodes_[n]], p, Count)
       /\ Got(p, Count, 1)
       /\ UNCHANGED <<free_nodes_, list_blocks>>

RecycledGet(p) ==
    LET r == back(free_nodes_)
    IN /\ Find(p) = -1 /\ Size(free_nodes_) > 0
       /\ free_nodes_' = pop_back(free_nodes_)
       /\ Add([nodes_ EXCEPT ![r].masked_ptr = p], p, r)
       /\ Got(p, r, nodes_[r].version)
       /\ UNCHANGED list_blocks

(* GetId of a lock that has a node. *)
LEMMA KnownStep ==
    ASSUME MapInv, NEW p \in Ptrs, KnownGet(p)
    PROVE  MapInv' /\ G!GetKnownId(p)
<1> DEFINE i == Find(p)
<1>1. i \in DOMAIN nodes_ /\ nodes_[i].masked_ptr = p
  BY PointersOf DEF KnownGet
<1>2. /\ got' = [call |-> "GetId", ptr |-> p, id |-> <<i, nodes_[i].version>>]
      /\ nodes_' = nodes_ /\ ptrmap_' = ptrmap_ /\ free_nodes_' = free_nodes_
      /\ list_blocks' = list_blocks
  BY DEF KnownGet, Got
<1> HIDE DEF i
<1>3. MapInv'
  BY <1>2 DEF MapInv, Count
<1>4. G!graph' = G!graph
  BY <1>2 DEF G!graph, Count, Size
<1>5. /\ i \in G!Nodes /\ Versions(nodes_)[i] = nodes_[i].version
      /\ Pointers(nodes_)[i] = p
  BY <1>1, GraphView
<1>6. G!IdAnswer(p, G!MakeId(i, Versions(nodes_)[i]))
  BY <1>2, <1>5 DEF G!IdAnswer, G!MakeId
<1> QED BY <1>3, <1>4, <1>5, <1>6 DEF G!GetKnownId, Versions, Pointers

(* A lock is entered into node i, which none had. *)
Entered(p, i) ==
    /\ NodeTable(nodes_', Count') /\ i \in DOMAIN nodes_' /\ i \notin LiveIn(nodes_)
    /\ DOMAIN nodes_' = DOMAIN nodes_ \cup {i}
    /\ \A n \in DOMAIN nodes_ : n # i => nodes_'[n] = nodes_[n]
    /\ nodes_'[i].masked_ptr = p /\ nodes_'[i].next_hash = ptrmap_[HashOf[p]]
    /\ ptrmap_' = [ptrmap_ EXCEPT ![HashOf[p]] = i]

(* The lock given to a free or a new node is entered into its chain, once. *)
LEMMA EnteredChains ==
    ASSUME MapInv, NEW p \in Ptrs, NEW i, Entered(p, i), Find(p) = -1
    PROVE  /\ LiveIn(nodes_') = LiveIn(nodes_) \cup {i}
           /\ ptrmap_' \in [Buckets -> Int]
           /\ \E pos : Chained(nodes_', ptrmap_', pos)
           /\ \A m, n \in LiveIn(nodes_') : nodes_'[m].masked_ptr = nodes_'[n].masked_ptr => m = n
<1>1. /\ NodeTable(nodes_, Count) /\ ptrmap_ \in [Buckets -> Int]
      /\ \A m, n \in LiveIn(nodes_) : nodes_[m].masked_ptr = nodes_[n].masked_ptr => m = n
  BY DEF MapInv
<1>2. PICK pos : Chained(nodes_, ptrmap_, pos)
  BY DEF MapInv
<1>3. /\ NodeTable(nodes_', Count') /\ i \in DOMAIN nodes_' /\ i \notin LiveIn(nodes_)
      /\ DOMAIN nodes_' = DOMAIN nodes_ \cup {i}
      /\ \A n \in DOMAIN nodes_ : n # i => nodes_'[n] = nodes_[n]
      /\ nodes_'[i].masked_ptr = p /\ nodes_'[i].next_hash = ptrmap_[HashOf[p]]
      /\ ptrmap_' = [ptrmap_ EXCEPT ![HashOf[p]] = i]
  BY DEF Entered
<1>4. i # -1 /\ i \in Int /\ p # NoPtr /\ HashOf[p] \in Buckets
  <2>1. -1 \notin DOMAIN nodes_' /\ DOMAIN nodes_' \subseteq Nat
    BY <1>3, NodeTableSize
  <2> QED BY <1>3, <2>1, MapAssumption DEF Buckets
<1>5. LiveIn(nodes_') = LiveIn(nodes_) \cup {i}
  BY <1>3, <1>4 DEF LiveIn
<1>6. \A n \in LiveIn(nodes_) : nodes_'[n] = nodes_[n] /\ n # i
  BY <1>3 DEF LiveIn
<1>7. \E after : Chained(nodes_', [ptrmap_ EXCEPT ![HashOf[p]] = i], after)
  <2>1. /\ DOMAIN ptrmap_ = Buckets
        /\ \A n \in LiveIn(nodes_) : /\ nodes_'[n].masked_ptr = nodes_[n].masked_ptr
                                     /\ nodes_'[n].next_hash = nodes_[n].next_hash
    BY <1>1, <1>6
  <2> QED BY <1>1, <1>2, <1>3, <1>4, <1>5, <2>1, AddedInFront
<1>8. ptrmap_' \in [Buckets -> Int]
  BY <1>1, <1>3, <1>4
<1>9. \A n \in LiveIn(nodes_) : nodes_[n].masked_ptr # p
  <2>1. \A n \in DOMAIN nodes_ : nodes_[n].masked_ptr # p
    BY <1>1, <1>2, Finds
  <2> QED BY <2>1 DEF LiveIn
<1>10. \A m, n \in LiveIn(nodes_') : nodes_'[m].masked_ptr = nodes_'[n].masked_ptr => m = n
  BY <1>1, <1>3, <1>5, <1>6, <1>9
<1> QED BY <1>3, <1>5, <1>7, <1>8, <1>10

(* GetId of a lock that gets a node nobody had. *)
LEMMA NewStep ==
    ASSUME MapInv, NEW p \in Ptrs, NewGet(p)
    PROVE  MapInv' /\ G!GetNewId(p)
<1> DEFINE N == Count
           h == HashOf[p]
           node == [masked_ptr |-> p, next_hash |-> -1, version |-> 1]
           base == [n \in 0 .. N |-> IF n = N THEN node ELSE nodes_[n]]
<1>1. /\ Find(p) = -1 /\ Size(free_nodes_) = 0 /\ N < MaxNodes
      /\ nodes_' = [base EXCEPT ![N].next_hash = ptrmap_[h]]
      /\ ptrmap_' = [ptrmap_ EXCEPT ![h] = N]
      /\ got' = [call |-> "GetId", ptr |-> p, id |-> <<N, 1>>]
      /\ free_nodes_' = free_nodes_ /\ list_blocks' = list_blocks
  BY DEF NewGet, Add, Got
<1>2. /\ NodeTable(nodes_, N) /\ ptrmap_ \in [Buckets -> Int] /\ h \in Buckets
      /\ N \in Nat /\ DOMAIN nodes_ = 0 .. N - 1
      /\ \A i \in DOMAIN nodes_ : nodes_[i] \in NodeRecords
      /\ ListOwned(free_nodes_, list_blocks) /\ Spare(free_nodes_, nodes_)
  BY NodeTableSize DEF MapInv, Buckets
<1>3. NodeTable(base, N + 1)
  <2>1. node \in NodeRecords
    BY MapAssumption DEF NodeRecords
  <2> HIDE DEF node
  <2>2. base \in [0 .. N -> NodeRecords] /\ (N + 1) - 1 = N
    BY <1>2, <2>1
  <2> HIDE DEF base
  <2> QED BY <1>2, <2>2 DEF NodeTable
<1>4. /\ \A n \in 0 .. N - 1 : base[n] = nodes_[n]
      /\ base[N] = node
  BY <1>2
<1> HIDE DEF N, base
<1>5. N \in 0 .. (N + 1) - 1 /\ ptrmap_[h] \in Int /\ 0 .. (N + 1) - 1 = 0 .. N
  BY <1>2
<1>6. /\ NodeTable(nodes_', N + 1)
      /\ \A n \in 0 .. N :
            /\ nodes_'[n].masked_ptr = base[n].masked_ptr
            /\ nodes_'[n].version = base[n].version
            /\ nodes_'[n].next_hash = IF n = N THEN ptrmap_[h] ELSE base[n].next_hash
  <2> DEFINE K == N + 1
             x == ptrmap_[h]
  <2>1. NodeTable(base, K) /\ N \in 0 .. K - 1 /\ x \in Int /\ 0 .. K - 1 = 0 .. N
    BY <1>3, <1>5
  <2>2. nodes_' = [base EXCEPT ![N].next_hash = x]
    BY <1>1
  <2> HIDE DEF K, x
  <2>3. /\ NodeTable(nodes_', K)
        /\ \A n \in 0 .. K - 1 :
              /\ nodes_'[n].masked_ptr = base[n].masked_ptr
              /\ nodes_'[n].version = base[n].version
              /\ nodes_'[n].next_hash = IF n = N THEN x ELSE base[n].next_hash
    <3>1. LET new == [base EXCEPT ![N].next_hash = x] IN
          /\ NodeTable(new, K)
          /\ \A n \in 0 .. K - 1 :
                /\ new[n].masked_ptr = base[n].masked_ptr
                /\ new[n].version = base[n].version
                /\ new[n].next_hash = IF n = N THEN x ELSE base[n].next_hash
      BY <2>1, SetNextHash
    <3> QED BY <2>2, <3>1
  <2> QED BY <2>1, <2>3 DEF K, x
<1>7. Count' = N + 1 /\ DOMAIN nodes_' = 0 .. N
  BY <1>5, <1>6, NodeTableSize DEF Count
<1>8. \A n \in 0 .. N - 1 : nodes_'[n] = nodes_[n]
  BY <1>1, <1>2, <1>3, <1>4 DEF NodeTable
<1>9. Entered(p, N)
  <2>1. N \notin LiveIn(nodes_) /\ DOMAIN nodes_' = DOMAIN nodes_ \cup {N} /\ N \in DOMAIN nodes_'
    BY <1>2, <1>7 DEF LiveIn
  <2>2. nodes_'[N].masked_ptr = p /\ nodes_'[N].next_hash = ptrmap_[h]
    BY <1>4, <1>5, <1>6
  <2> QED BY <1>1, <1>2, <1>6, <1>7, <1>8, <2>1, <2>2 DEF Entered
<1>10. /\ LiveIn(nodes_') = LiveIn(nodes_) \cup {N}
       /\ ptrmap_' \in [Buckets -> Int]
       /\ \E pos : Chained(nodes_', ptrmap_', pos)
       /\ \A m, n \in LiveIn(nodes_') : nodes_'[m].masked_ptr = nodes_'[n].masked_ptr => m = n
  BY <1>1, <1>9, EnteredChains
<1>11. Spare(free_nodes_', nodes_')
  <2>1. \A x \in DOMAIN nodes_ \ LiveIn(nodes_) : x \in DOMAIN nodes_' \ LiveIn(nodes_')
    BY <1>2, <1>7, <1>10
  <2>2. /\ \A k \in DOMAIN free_nodes_.cells : free_nodes_.cells[k] \in DOMAIN nodes_ \ LiveIn(nodes_)
        /\ \A j, k \in DOMAIN free_nodes_.cells : free_nodes_.cells[j] = free_nodes_.cells[k] => j = k
    BY <1>2 DEF Spare
  <2> QED BY <1>1, <2>1, <2>2 DEF Spare
<1>12. MapInv'
  <2>1. Count' <= MaxNodes
    BY <1>1, <1>2, <1>7, MapAssumption
  <2>2. ListOwned(free_nodes_', list_blocks')
    BY <1>1, <1>2
  <2> QED BY <1>6, <1>7, <1>10, <1>11, <2>1, <2>2 DEF MapInv
<1>13. G!GetNewId(p)
  <2>1. p \notin {Pointers(nodes_)[i] : i \in G!Nodes}
    BY <1>1, PointersOf
  <2>2. AsSequence(free_nodes_) = <<>> /\ AsSequence(free_nodes_)' = AsSequence(free_nodes_)
    BY <1>1 DEF AsSequence, Size
  <2>3. N \in Index
    BY <1>1, <1>2, MapAssumption DEF Index
  <2>4. nodes_'[N].version = 1 /\ nodes_'[N].masked_ptr = p
    BY <1>4, <1>5, <1>6
  <2>5. Versions(nodes_)' = [Versions(nodes_) EXCEPT ![N] = 1]
    <3>1. \A i \in Index : (IF i \in DOMAIN nodes_' THEN nodes_'[i].version ELSE 0)
                            = IF i = N THEN 1
                              ELSE IF i \in DOMAIN nodes_ THEN nodes_[i].version ELSE 0
      BY <1>2, <1>7, <1>8, <2>3, <2>4
    <3> QED BY <2>3, <3>1 DEF Versions
  <2>6. Pointers(nodes_)' = [Pointers(nodes_) EXCEPT ![N] = p]
    <3>1. \A i \in Index : (IF i \in DOMAIN nodes_' THEN nodes_'[i].masked_ptr ELSE NoPtr)
                            = IF i = N THEN p
                              ELSE IF i \in DOMAIN nodes_ THEN nodes_[i].masked_ptr ELSE NoPtr
      BY <1>2, <1>7, <1>8, <2>3, <2>4
    <3> QED BY <2>3, <3>1 DEF Pointers
  <2>7. [i \in Index |-> i] = [[i \in Index |-> i] EXCEPT ![N] = N]
    BY <2>3
  <2>8. Count = N /\ Count < MaxNodes /\ Count' = Count + 1
    BY <1>1, <1>7 DEF N
  <2>9. G!IdAnswer(p, G!MakeId(N, 1))
    BY <1>1 DEF G!IdAnswer, G!MakeId
  <2> QED BY <2>1, <2>2, <2>5, <2>6, <2>7, <2>8, <2>9 DEF G!GetNewId, Versions, Pointers, AsSequence
<1> QED BY <1>12, <1>13

(* A function from 1 .. n is a sequence of length n. *)
LEMMA TupleIsSeq ==
    ASSUME NEW n \in Nat, NEW S, NEW s \in [1 .. n -> S]
    PROVE  s \in Seq(S) /\ Len(s) = n
<1>1. s \in Seq(S)
  BY SeqDef
<1>2. DOMAIN s = 1 .. n /\ Len(s) \in Nat /\ DOMAIN s = 1 .. Len(s)
  BY <1>1, LenProperties
<1>3. Len(s) = n
  <2>1. ASSUME Len(s) < n
        PROVE  FALSE
    BY <1>2, <2>1, n \in 1 .. n, n \notin 1 .. Len(s)
  <2>2. ASSUME n < Len(s)
        PROVE  FALSE
    BY <1>2, <2>2, Len(s) \in 1 .. Len(s), Len(s) \notin 1 .. n
  <2> QED BY <1>2, <2>1, <2>2
<1> QED BY <1>1, <1>3

(* The free list as the sequence GraphCycles has. *)
LEMMA ListView ==
    ASSUME NEW v, NEW blocks, ListOwned(v, blocks), NEW S, \A k \in DOMAIN v.cells : v.cells[k] \in S
    PROVE  /\ AsSequence(v) \in Seq(S) /\ Len(AsSequence(v)) = Size(v)
           /\ \A k \in 1 .. Size(v) : AsSequence(v)[k] = v.cells[k - 1]
<1>1. Size(v) \in Nat /\ DOMAIN v.cells = 0 .. Size(v) - 1
  BY DEF ListOwned
<1>2. \A k \in 1 .. Size(v) : v.cells[k - 1] \in S
  BY <1>1
<1> DEFINE s == AsSequence(v)
<1>3. s \in [1 .. Size(v) -> S] /\ \A k \in 1 .. Size(v) : s[k] = v.cells[k - 1]
  BY <1>2 DEF AsSequence
<1> HIDE DEF s
<1>4. s \in Seq(S) /\ Len(s) = Size(v)
  BY <1>1, <1>3, TupleIsSeq
<1> QED BY <1>3, <1>4 DEF s

(* pop_back takes the last of that sequence. *)
LEMMA PoppedView ==
    ASSUME NEW v, NEW blocks, ListOwned(v, blocks), Size(v) > 0
    PROVE  /\ AsSequence(v) # <<>>
           /\ AsSequence(v)[Len(AsSequence(v))] = back(v)
           /\ AsSequence(pop_back(v)) = SubSeq(AsSequence(v), 1, Len(AsSequence(v)) - 1)
<1> DEFINE S == {v.cells[k] : k \in DOMAIN v.cells}
           s == AsSequence(v)
           t == AsSequence(pop_back(v))
           n == Size(v)
           u == SubSeq(s, 1, Len(s) - 1)
<1>1. n \in Nat /\ n > 0 /\ DOMAIN v.cells = 0 .. n - 1
  BY DEF ListOwned
<1>2. \A k \in DOMAIN v.cells : v.cells[k] \in S
  OBVIOUS
<1>3. /\ ListOwned(pop_back(v), blocks) /\ Size(pop_back(v)) = n - 1
      /\ \A k \in 0 .. n - 2 : pop_back(v).cells[k] = v.cells[k]
      /\ DOMAIN pop_back(v).cells = 0 .. n - 2
  BY PoppedList
<1>4. back(v) = v.cells[n - 1]
  BY DEF back
<1> HIDE DEF S, n
<1>5. s \in Seq(S) /\ Len(s) = n /\ \A k \in 1 .. n : s[k] = v.cells[k - 1]
  BY <1>2, ListView DEF n
<1>6. \A k \in DOMAIN pop_back(v).cells : pop_back(v).cells[k] \in S
  BY <1>1, <1>2, <1>3
<1>7. t \in Seq(S) /\ Len(t) = n - 1 /\ \A k \in 1 .. n - 1 : t[k] = pop_back(v).cells[k - 1]
  BY <1>3, <1>6, ListView
<1> HIDE DEF s, t
<1>8. \A k \in 1 .. n : s[k] \in S
  BY <1>1, <1>2, <1>5
<1>9. u \in Seq(S) /\ Len(u) = n - 1 /\ \A i \in 1 .. n - 1 : u[i] = s[i]
  <2> DEFINE m == n - 1
  <2>1. m \in Int /\ \A i \in 1 .. m : s[i] \in S
    BY <1>1, <1>8
  <2>2. /\ SubSeq(s, 1, m) \in Seq(S)
        /\ Len(SubSeq(s, 1, m)) = IF 1 <= m THEN m - 1 + 1 ELSE 0
        /\ \A i \in 1 .. m - 1 + 1 : SubSeq(s, 1, m)[i] = s[1 + i - 1]
    <3> HIDE DEF m
    <3> QED BY <2>1, 1 \in Int, SubSeqProperties
  <2>3. u = SubSeq(s, 1, m)
    BY <1>5
  <2> HIDE DEF u
  <2>4. Len(u) = n - 1
    BY <1>1, <2>2, <2>3
  <2>5. \A i \in 1 .. n - 1 : u[i] = s[i]
    BY <1>1, <2>2, <2>3
  <2> QED BY <2>2, <2>3, <2>4, <2>5
<1> HIDE DEF u
<1>10. \A i \in 1 .. Len(t) : t[i] = u[i]
  <2> SUFFICES ASSUME NEW i \in 1 .. n - 1
               PROVE  t[i] = u[i]
    BY <1>7
  <2>1. i - 1 \in 0 .. n - 2 /\ i \in 1 .. n
    BY <1>1
  <2>2. t[i] = pop_back(v).cells[i - 1] /\ s[i] = v.cells[i - 1] /\ u[i] = s[i]
    BY <1>5, <1>7, <1>9, <2>1
  <2> QED BY <1>3, <2>1, <2>2
<1>11. t = u
  BY <1>7, <1>9, <1>10, SeqEqual
<1>12. s # <<>>
  BY <1>1, <1>5, EmptySeq
<1>13. s[Len(s)] = back(v)
  BY <1>1, <1>4, <1>5
<1> QED BY <1>11, <1>12, <1>13 DEF s, t, u

(* push_back appends to it. *)
LEMMA PushedView ==
    ASSUME NEW v, NEW blocks, ListOwned(v, blocks), NEW val
    PROVE  AsSequence(push_back(v, blocks, val).vec) = Append(AsSequence(v), val)
<1> DEFINE S == {v.cells[k] : k \in DOMAIN v.cells} \cup {val}
           w == push_back(v, blocks, val).vec
           s == AsSequence(v)
           t == AsSequence(w)
           n == Size(v)
<1>1. n \in Nat /\ DOMAIN v.cells = 0 .. n - 1
  BY DEF ListOwned
<1>2. (\A k \in DOMAIN v.cells : v.cells[k] \in S) /\ val \in S
  OBVIOUS
<1>3. /\ ListOwned(w, push_back(v, blocks, val).heap) /\ Size(w) = n + 1
      /\ DOMAIN w.cells = 0 .. n
      /\ \A k \in 0 .. n : w.cells[k] = IF k < n THEN v.cells[k] ELSE val
  BY PushedList
<1> HIDE DEF S, n, w
<1>4. s \in Seq(S) /\ Len(s) = n /\ \A k \in 1 .. n : s[k] = v.cells[k - 1]
  BY <1>2, ListView DEF n
<1>5. \A k \in DOMAIN w.cells : w.cells[k] \in S
  BY <1>1, <1>2, <1>3
<1>6. t \in Seq(S) /\ Len(t) = n + 1 /\ \A k \in 1 .. n + 1 : t[k] = w.cells[k - 1]
  BY <1>3, <1>5, ListView
<1> HIDE DEF s, t
<1>7. /\ Append(s, val) \in Seq(S) /\ Len(Append(s, val)) = n + 1
      /\ \A i \in 1 .. n : Append(s, val)[i] = s[i]
      /\ Append(s, val)[n + 1] = val
  BY <1>2, <1>4, AppendProperties
<1> DEFINE u == Append(s, val)
<1> HIDE DEF u
<1>8. \A i \in 1 .. Len(t) : t[i] = u[i]
  <2> SUFFICES ASSUME NEW i \in 1 .. n + 1
               PROVE  t[i] = u[i]
    BY <1>6
  <2>1. CASE i = n + 1
    BY <1>1, <1>3, <1>6, <1>7, <2>1 DEF u
  <2>2. CASE i # n + 1
    <3>1. i \in 1 .. n /\ i - 1 \in 0 .. n /\ i - 1 < n
      BY <1>1, <2>2
    <3>2. t[i] = w.cells[i - 1] /\ s[i] = v.cells[i - 1] /\ u[i] = s[i]
      BY <1>4, <1>6, <1>7, <3>1 DEF u
    <3> QED BY <1>3, <3>1, <3>2
  <2> QED BY <2>1, <2>2
<1>9. t = u
  BY <1>6, <1>7, <1>8, SeqEqual DEF u
<1> QED BY <1>9 DEF s, t, u, w

(* GetId of a lock that gets the node freed last. *)
LEMMA RecycledStep ==
    ASSUME MapInv, NEW p \in Ptrs, RecycledGet(p)
    PROVE  MapInv' /\ G!GetRecycledId(p)
<1> DEFINE N == Count
           h == HashOf[p]
           r == back(free_nodes_)
           base == [nodes_ EXCEPT ![r].masked_ptr = p]
<1>1. /\ Find(p) = -1 /\ Size(free_nodes_) > 0
      /\ free_nodes_' = pop_back(free_nodes_)
      /\ nodes_' = [base EXCEPT ![r].next_hash = ptrmap_[h]]
      /\ ptrmap_' = [ptrmap_ EXCEPT ![h] = r]
      /\ got' = [call |-> "GetId", ptr |-> p, id |-> <<r, nodes_[r].version>>]
      /\ list_blocks' = list_blocks
  BY DEF RecycledGet, Add, Got
<1>2. /\ NodeTable(nodes_, N) /\ ptrmap_ \in [Buckets -> Int] /\ h \in Buckets
      /\ N \in Nat /\ DOMAIN nodes_ = 0 .. N - 1 /\ N <= MaxNodes
      /\ ListOwned(free_nodes_, list_blocks) /\ Spare(free_nodes_, nodes_)
  BY NodeTableSize DEF MapInv, Buckets
<1>3. /\ ListOwned(pop_back(free_nodes_), list_blocks)
      /\ \A k \in 0 .. Size(free_nodes_) - 2 : pop_back(free_nodes_).cells[k] = free_nodes_.cells[k]
      /\ Size(free_nodes_) - 1 \in DOMAIN free_nodes_.cells
      /\ DOMAIN pop_back(free_nodes_).cells = 0 .. Size(free_nodes_) - 2
  BY <1>1, <1>2, PoppedList
<1>4. r = free_nodes_.cells[Size(free_nodes_) - 1] /\ r \in DOMAIN nodes_ \ LiveIn(nodes_)
  BY <1>2, <1>3 DEF back, Spare
<1> HIDE DEF N, r
<1>5. /\ NodeTable(base, N)
      /\ \A n \in 0 .. N - 1 :
            /\ base[n].masked_ptr = IF n = r THEN p ELSE nodes_[n].masked_ptr
            /\ base[n].version = nodes_[n].version
            /\ base[n].next_hash = nodes_[n].next_hash
  <2>1. r \in 0 .. N - 1 /\ p \in Ptrs \cup {NoPtr}
    BY <1>2, <1>4
  <2>2. LET new == [nodes_ EXCEPT ![r].masked_ptr = p] IN
        /\ NodeTable(new, N)
        /\ \A n \in 0 .. N - 1 :
              /\ new[n].masked_ptr = IF n = r THEN p ELSE nodes_[n].masked_ptr
              /\ new[n].version = nodes_[n].version
              /\ new[n].next_hash = nodes_[n].next_hash
    <3> HIDE DEF base
    <3>1. NodeTable(nodes_, N)
      BY <1>2
    <3> QED BY <2>1, <3>1, SetMaskedPtr
  <2> QED BY <2>2
<1>6. \A n \in 0 .. N - 1 : n # r => base[n] = nodes_[n]
  BY <1>2
<1> HIDE DEF base
<1>7. /\ NodeTable(nodes_', N)
      /\ \A n \in 0 .. N - 1 :
            /\ nodes_'[n].masked_ptr = base[n].masked_ptr
            /\ nodes_'[n].version = base[n].version
            /\ nodes_'[n].next_hash = IF n = r THEN ptrmap_[h] ELSE base[n].next_hash
  <2>1. ptrmap_[h] \in Int /\ r \in 0 .. N - 1
    BY <1>2, <1>4
  <2> DEFINE x == ptrmap_[h]
  <2> HIDE DEF x
  <2>2. LET new == [base EXCEPT ![r].next_hash = x] IN
        /\ NodeTable(new, N)
        /\ \A n \in 0 .. N - 1 :
              /\ new[n].masked_ptr = base[n].masked_ptr
              /\ new[n].version = base[n].version
              /\ new[n].next_hash = IF n = r THEN x ELSE base[n].next_hash
    BY <1>5, <2>1, SetNextHash DEF x
  <2>3. nodes_' = [base EXCEPT ![r].next_hash = x]
    BY <1>1 DEF x
  <2>4. /\ NodeTable(nodes_', N)
        /\ \A n \in 0 .. N - 1 :
              /\ nodes_'[n].masked_ptr = base[n].masked_ptr
              /\ nodes_'[n].version = base[n].version
              /\ nodes_'[n].next_hash = IF n = r THEN x ELSE base[n].next_hash
    BY <2>2, <2>3
  <2> QED BY <2>4 DEF x
<1>8. Count' = N /\ DOMAIN nodes_' = DOMAIN nodes_
  BY <1>2, <1>7, NodeTableSize DEF Count
<1>9. \A n \in 0 .. N - 1 : n # r => nodes_'[n] = nodes_[n]
  BY <1>1, <1>5, <1>6 DEF NodeTable
<1>10. nodes_'[r].masked_ptr = p /\ nodes_'[r].next_hash = ptrmap_[h]
  BY <1>2, <1>4, <1>5, <1>7
<1>11. Entered(p, r)
  BY <1>1, <1>2, <1>4, <1>7, <1>8, <1>9, <1>10 DEF Entered
<1>12. /\ LiveIn(nodes_') = LiveIn(nodes_) \cup {r}
       /\ ptrmap_' \in [Buckets -> Int]
       /\ \E pos : Chained(nodes_', ptrmap_', pos)
       /\ \A m, n \in LiveIn(nodes_') : nodes_'[m].masked_ptr = nodes_'[n].masked_ptr => m = n
  BY <1>1, <1>11, EnteredChains
<1>13. Spare(free_nodes_', nodes_')
  <2> DEFINE top == Size(free_nodes_) - 1
  <2>1. \A k \in DOMAIN free_nodes_'.cells :
           /\ free_nodes_'.cells[k] = free_nodes_.cells[k]
           /\ k \in DOMAIN free_nodes_.cells /\ k # top
    <3>1. Size(free_nodes_) \in Nat /\ DOMAIN free_nodes_.cells = 0 .. Size(free_nodes_) - 1
      BY <1>2 DEF ListOwned
    <3> QED BY <1>1, <1>3, <3>1
  <2>2. /\ \A k \in DOMAIN free_nodes_.cells : free_nodes_.cells[k] \in DOMAIN nodes_ \ LiveIn(nodes_)
        /\ \A j, k \in DOMAIN free_nodes_.cells : free_nodes_.cells[j] = free_nodes_.cells[k] => j = k
    BY <1>2 DEF Spare
  <2>3. \A k \in DOMAIN free_nodes_'.cells : free_nodes_'.cells[k] # r
    BY <1>3, <1>4, <2>1, <2>2
  <2> QED BY <1>8, <1>12, <2>1, <2>2, <2>3 DEF Spare
<1>14. MapInv'
  <2>1. ListOwned(free_nodes_', list_blocks')
    BY <1>1, <1>3
  <2> QED BY <1>2, <1>7, <1>8, <1>12, <1>13, <2>1 DEF MapInv
<1>15. G!GetRecycledId(p)
  <2>1. p \notin {Pointers(nodes_)[i] : i \in G!Nodes}
    BY <1>1, PointersOf
  <2> DEFINE s == AsSequence(free_nodes_)
  <2>2. /\ s # <<>> /\ s[Len(s)] = r
        /\ AsSequence(pop_back(free_nodes_)) = SubSeq(s, 1, Len(s) - 1)
    BY <1>1, <1>2, PoppedView DEF r
  <2>3. s' = SubSeq(s, 1, Len(s) - 1)
    BY <1>1, <2>2 DEF AsSequence, Size
  <2>4. r \in Index /\ r \in DOMAIN nodes_ /\ Versions(nodes_)[r] = nodes_[r].version
    BY <1>4, GraphView
  <2>5. Versions(nodes_)' = Versions(nodes_)
    <3>1. \A i \in DOMAIN nodes_ : nodes_'[i].version = nodes_[i].version
      BY <1>2, <1>5, <1>7
    <3>2. \A i \in Index : (IF i \in DOMAIN nodes_' THEN nodes_'[i].version ELSE 0)
                            = IF i \in DOMAIN nodes_ THEN nodes_[i].version ELSE 0
      BY <1>8, <3>1
    <3> QED BY <3>2 DEF Versions
  <2>6. Pointers(nodes_)' = [Pointers(nodes_) EXCEPT ![r] = p]
    <3>1. \A i \in Index : (IF i \in DOMAIN nodes_' THEN nodes_'[i].masked_ptr ELSE NoPtr)
                            = IF i = r THEN p
                              ELSE IF i \in DOMAIN nodes_ THEN nodes_[i].masked_ptr ELSE NoPtr
      BY <1>2, <1>8, <1>9, <1>10, <2>4
    <3> QED BY <2>4, <3>1 DEF Pointers
  <2>7. Count' = Count
    BY <1>8 DEF N
  <2>8. G!IdAnswer(p, G!MakeId(r, Versions(nodes_)[r]))
    BY <1>1, <2>4 DEF G!IdAnswer, G!MakeId
  <2> HIDE DEF s
  <2>9. /\ s # <<>>
        /\ s' = SubSeq(s, 1, Len(s) - 1)
        /\ Pointers(nodes_)' = [Pointers(nodes_) EXCEPT ![s[Len(s)]] = p]
        /\ G!IdAnswer(p, G!MakeId(s[Len(s)], Versions(nodes_)[s[Len(s)]]))
    BY <2>2, <2>3, <2>6, <2>8
  <2> QED BY <2>1, <2>5, <2>7, <2>9 DEF G!GetRecycledId, Versions, Pointers, AsSequence, s
<1> QED BY <1>14, <1>15

(* What Remove writes: the bucket or the one node that led to node i leads *)
(* to its successor.                                                       *)
LEMMA NodeUnlinked ==
    ASSUME NodeTable(nodes_, Count), ptrmap_ \in [Buckets -> Int],
           NEW pos, Chained(nodes_, ptrmap_, pos), NEW p \in Ptrs, Find(p) # -1
    PROVE  LET i == Find(p)
               new == Remove(p, i)
           IN /\ NodeTable(new.nodes, Count) /\ new.table \in [Buckets -> Int]
              /\ \A n \in 0 .. Count - 1 : /\ new.nodes[n].masked_ptr = nodes_[n].masked_ptr
                                           /\ new.nodes[n].version = nodes_[n].version
              /\ \A n \in LiveIn(nodes_) \ {i} :
                    new.nodes[n].next_hash = IF nodes_[n].next_hash = i THEN nodes_[i].next_hash
                                                                       ELSE nodes_[n].next_hash
              /\ \A b \in Buckets : new.table[b] = IF ptrmap_[b] = i THEN nodes_[i].next_hash
                                                                    ELSE ptrmap_[b]
<1> DEFINE i == Find(p)
           k == Place(p)
           c == Chain(p)[k - 1]
           h == HashOf[p]
           N == Count
           next == nodes_[i].next_hash
           new == Remove(p, i)
<1>1. /\ i \in LiveIn(nodes_) /\ nodes_[i].masked_ptr = p
      /\ k = 0 => ptrmap_[h] = i /\ \A n \in LiveIn(nodes_) : nodes_[n].next_hash # i
      /\ k # 0 => /\ ptrmap_[h] # i /\ c \in LiveIn(nodes_)
                  /\ \A n \in LiveIn(nodes_) : nodes_[n].next_hash = i <=> n = c
  BY Finds
<1>2. new = IF k = 0
            THEN [table |-> [ptrmap_ EXCEPT ![h] = next],
                  nodes |-> [nodes_ EXCEPT ![i].next_hash = -1]]
            ELSE [table |-> ptrmap_,
                  nodes |-> [nodes_ EXCEPT ![c].next_hash = next, ![i].next_hash = -1]]
  BY DEF Remove
<1> HIDE DEF i, k, c, N, new
<1>3. /\ NodeTable(nodes_, N) /\ h \in Buckets /\ DOMAIN nodes_ = 0 .. N - 1
      /\ i \in 0 .. N - 1 /\ next \in Int /\ BucketOf(nodes_, i) = h /\ i # -1
  <2>1. /\ NodeTable(nodes_, N) /\ h \in Buckets /\ DOMAIN nodes_ = 0 .. N - 1
        /\ -1 \notin DOMAIN nodes_ /\ \A n \in DOMAIN nodes_ : nodes_[n] \in NodeRecords
    BY NodeTableSize DEF Buckets, N
  <2>2. i \in DOMAIN nodes_
    BY <1>1 DEF LiveIn
  <2>3. next \in Int
    BY <2>1, <2>2 DEF NodeRecords
  <2> QED BY <1>1, <2>1, <2>2, <2>3 DEF BucketOf
<1>4. \A b \in Buckets : ptrmap_[b] = i => b = h
  <2> SUFFICES ASSUME NEW b \in Buckets, ptrmap_[b] = i
               PROVE  b = h
    OBVIOUS
  <2>1. BucketOf(nodes_, ptrmap_[b]) = b
    BY <1>3 DEF Chained
  <2> QED BY <1>3, <2>1
<1> HIDE DEF next, h
<1>5. CASE k = 0
  <2> DEFINE one == [nodes_ EXCEPT ![i].next_hash = -1]
             less == [ptrmap_ EXCEPT ![h] = next]
  <2>1. new.nodes = one /\ new.table = less
    BY <1>2, <1>5
  <2>2. -1 \in Int
    OBVIOUS
  <2>3. /\ NodeTable(one, N)
        /\ \A n \in 0 .. N - 1 : /\ one[n].masked_ptr = nodes_[n].masked_ptr
                                 /\ one[n].version = nodes_[n].version
                                 /\ one[n].next_hash = IF n = i THEN -1 ELSE nodes_[n].next_hash
    <3>1. NodeTable(nodes_, N) /\ i \in 0 .. N - 1
      BY <1>3
    <3> QED BY <2>2, <3>1, SetNextHash
  <2>4. less \in [Buckets -> Int] /\ \A b \in Buckets : less[b] = IF b = h THEN next ELSE ptrmap_[b]
    BY <1>3
  <2> HIDE DEF one, less
  <2>5. \A b \in Buckets : less[b] = IF ptrmap_[b] = i THEN next ELSE ptrmap_[b]
    BY <1>1, <1>4, <1>5, <2>4
  <2>6. \A n \in LiveIn(nodes_) \ {i} : one[n].next_hash = nodes_[n].next_hash /\ nodes_[n].next_hash # i
    BY <1>1, <1>3, <1>5, <2>3 DEF LiveIn
  <2> QED BY <2>1, <2>3, <2>4, <2>5, <2>6 DEF i, N, new, next
<1>6. CASE k # 0
  <2> DEFINE one == [nodes_ EXCEPT ![c].next_hash = next]
             two == [one EXCEPT ![i].next_hash = -1]
  <2>1. new.nodes = [nodes_ EXCEPT ![c].next_hash = next, ![i].next_hash = -1] /\ new.table = ptrmap_
    BY <1>2, <1>6
  <2>2. [nodes_ EXCEPT ![c].next_hash = next, ![i].next_hash = -1] = two
    OBVIOUS
  <2>3. new.nodes = two
    BY <2>1, <2>2
  <2>4. c \in 0 .. N - 1 /\ -1 \in Int
    BY <1>1, <1>3, <1>6 DEF LiveIn
  <2>5. /\ NodeTable(one, N)
        /\ \A n \in 0 .. N - 1 : /\ one[n].masked_ptr = nodes_[n].masked_ptr
                                 /\ one[n].version = nodes_[n].version
                                 /\ one[n].next_hash = IF n = c THEN next ELSE nodes_[n].next_hash
    <3>1. NodeTable(nodes_, N) /\ next \in Int
      BY <1>3
    <3> QED BY <2>4, <3>1, SetNextHash
  <2> HIDE DEF one
  <2>6. /\ NodeTable(two, N)
        /\ \A n \in 0 .. N - 1 : /\ two[n].masked_ptr = one[n].masked_ptr
                                 /\ two[n].version = one[n].version
                                 /\ two[n].next_hash = IF n = i THEN -1 ELSE one[n].next_hash
    <3> DEFINE x == -1
    <3>1. NodeTable(one, N) /\ i \in 0 .. N - 1 /\ x \in Int
      BY <1>3, <2>5
    <3>3. two = [one EXCEPT ![i].next_hash = x]
      OBVIOUS
    <3> HIDE DEF two, x
    <3>2. LET new2 == [one EXCEPT ![i].next_hash = x] IN
          /\ NodeTable(new2, N)
          /\ \A n \in 0 .. N - 1 : /\ new2[n].masked_ptr = one[n].masked_ptr
                                   /\ new2[n].version = one[n].version
                                   /\ new2[n].next_hash = IF n = i THEN x ELSE one[n].next_hash
      BY <3>1, SetNextHash
    <3> QED BY <3>2, <3>3 DEF x
  <2> HIDE DEF two
  <2>7. \A b \in Buckets : ptrmap_[b] # i
    BY <1>1, <1>4, <1>6
  <2>8. \A n \in LiveIn(nodes_) \ {i} :
           two[n].next_hash = IF nodes_[n].next_hash = i THEN next ELSE nodes_[n].next_hash
    BY <1>1, <1>3, <1>6, <2>5, <2>6 DEF LiveIn
  <2> QED BY <2>1, <2>3, <2>5, <2>6, <2>7, <2>8 DEF i, N, new, next
<1> QED BY <1>5, <1>6

(* RemoveNode of a lock, with or without a node. *)
LEMMA RemoveStep ==
    ASSUME MapInv, NEW p \in Ptrs, RemoveNode(p)
    PROVE  MapInv' /\ G!RemoveNode(p)
<1> DEFINE N == Count
           i == Find(p)
           new == Remove(p, i)
           list == push_back(free_nodes_, list_blocks, i)
           last == nodes_[i].version = MaxVersion
<1>1. /\ got' = [call |-> "RemoveNode", ptr |-> p]
      /\ IF i = -1 THEN UNCHANGED <<nodes_, ptrmap_, free_nodes_, list_blocks>>
         ELSE /\ ptrmap_' = new.table
              /\ nodes_' = [new.nodes EXCEPT ![i].masked_ptr = NoPtr,
                                             ![i].version = IF last THEN @ ELSE @ + 1]
              /\ free_nodes_' = IF last THEN free_nodes_ ELSE list.vec
              /\ list_blocks' = IF last THEN list_blocks ELSE list.heap
  BY DEF RemoveNode
<1>2. /\ NodeTable(nodes_, N) /\ ptrmap_ \in [Buckets -> Int] /\ N <= MaxNodes
      /\ N \in Nat /\ DOMAIN nodes_ = 0 .. N - 1
      /\ \A n \in DOMAIN nodes_ : nodes_[n] \in NodeRecords
      /\ ListOwned(free_nodes_, list_blocks) /\ Spare(free_nodes_, nodes_)
      /\ \A m, n \in LiveIn(nodes_) : nodes_[m].masked_ptr = nodes_[n].masked_ptr => m = n
  BY NodeTableSize DEF MapInv
<1>3. CASE i = -1
  <2>1. nodes_' = nodes_ /\ ptrmap_' = ptrmap_ /\ free_nodes_' = free_nodes_ /\ list_blocks' = list_blocks
    BY <1>1, <1>3
  <2>2. MapInv'
    BY <2>1 DEF MapInv, Count
  <2>3. G!graph' = G!graph
    BY <2>1 DEF G!graph, Count, Size
  <2>4. p \notin {Pointers(nodes_)[n] : n \in G!Nodes}
    BY <1>3, PointersOf
  <2> QED BY <1>1, <2>2, <2>3, <2>4 DEF G!RemoveNode, Pointers
<1>4. CASE i # -1
  <2>1. /\ ptrmap_' = new.table
        /\ nodes_' = [new.nodes EXCEPT ![i].masked_ptr = NoPtr,
                                       ![i].version = IF last THEN @ ELSE @ + 1]
        /\ free_nodes_' = IF last THEN free_nodes_ ELSE list.vec
        /\ list_blocks' = IF last THEN list_blocks ELSE list.heap
    BY <1>1, <1>4
  <2>2. PICK pos : Chained(nodes_, ptrmap_, pos)
    BY DEF MapInv
  <2>3. i \in LiveIn(nodes_) /\ i \in DOMAIN nodes_ /\ nodes_[i].masked_ptr = p
    BY <1>4, PointersOf
  <2>4. /\ NodeTable(new.nodes, N) /\ new.table \in [Buckets -> Int]
        /\ \A n \in 0 .. N - 1 : /\ new.nodes[n].masked_ptr = nodes_[n].masked_ptr
                                 /\ new.nodes[n].version = nodes_[n].version
        /\ \A n \in LiveIn(nodes_) \ {i} :
              new.nodes[n].next_hash = IF nodes_[n].next_hash = i THEN nodes_[i].next_hash
                                                                 ELSE nodes_[n].next_hash
        /\ \A b \in Buckets : new.table[b] = IF ptrmap_[b] = i THEN nodes_[i].next_hash
                                                              ELSE ptrmap_[b]
    BY <1>2, <1>4, <2>2, NodeUnlinked
  <2> DEFINE unlinked == new.nodes
             version == IF last THEN nodes_[i].version ELSE nodes_[i].version + 1
             one == [unlinked EXCEPT ![i].masked_ptr = NoPtr]
             two == [one EXCEPT ![i].version = version]
  <2> HIDE DEF i, N, new, unlinked
  <2>5. /\ NodeTable(one, N)
        /\ \A n \in 0 .. N - 1 : /\ one[n].masked_ptr = IF n = i THEN NoPtr ELSE unlinked[n].masked_ptr
                                 /\ one[n].version = unlinked[n].version
                                 /\ one[n].next_hash = unlinked[n].next_hash
    <3>1. NodeTable(unlinked, N) /\ i \in 0 .. N - 1 /\ NoPtr \in Ptrs \cup {NoPtr}
      BY <1>2, <2>3, <2>4 DEF unlinked
    <3> QED BY <3>1, SetMaskedPtr, SMTT(40)
  <2>6. [unlinked EXCEPT ![i].masked_ptr = NoPtr, ![i].version = IF last THEN @ ELSE @ + 1]
          = [one EXCEPT ![i].version = IF last THEN @ ELSE @ + 1]
    OBVIOUS
  <2> HIDE DEF one
  <2>7. one[i].version = nodes_[i].version /\ nodes_[i].version \in 1 .. MaxVersion
    BY <1>2, <2>3, <2>4, <2>5 DEF NodeRecords, unlinked
  <2>8. [one EXCEPT ![i].version = IF last THEN @ ELSE @ + 1] = two
    BY <2>7
  <2>9. nodes_' = two
    BY <2>1, <2>6, <2>8 DEF unlinked
  <2>10. version \in 1 .. MaxVersion
    BY <2>7, MapAssumption
  <2> HIDE DEF version
  <2>11. /\ NodeTable(two, N)
         /\ \A n \in 0 .. N - 1 : /\ two[n].masked_ptr = one[n].masked_ptr
                                  /\ two[n].version = IF n = i THEN version ELSE one[n].version
                                  /\ two[n].next_hash = one[n].next_hash
    <3>1. NodeTable(one, N) /\ i \in 0 .. N - 1
      BY <1>2, <2>3, <2>5
    <3> QED BY <2>10, <3>1, SetVersion
  <2> HIDE DEF two
  <2>12. \A n \in 0 .. N - 1 :
            /\ nodes_'[n].masked_ptr = IF n = i THEN NoPtr ELSE nodes_[n].masked_ptr
            /\ nodes_'[n].version = IF n = i THEN version ELSE nodes_[n].version
            /\ nodes_'[n].next_hash = unlinked[n].next_hash
    BY <2>4, <2>5, <2>9, <2>11 DEF unlinked
  <2>13. NodeTable(nodes_', N) /\ Count' = N /\ DOMAIN nodes_' = DOMAIN nodes_
    <3>1. NodeTable(nodes_', N)
      BY <2>9, <2>11
    <3> QED BY <1>2, <3>1, NodeTableSize DEF Count
  <2>14. LiveIn(nodes_') = LiveIn(nodes_) \ {i}
    BY <1>2, <2>3, <2>12, <2>13 DEF LiveIn
  <2>15. \E after : Chained(nodes_', ptrmap_', after)
    <3>1. \A n \in LiveIn(nodes_') :
             /\ nodes_'[n].masked_ptr = nodes_[n].masked_ptr
             /\ nodes_'[n].next_hash = IF nodes_[n].next_hash = i THEN nodes_[i].next_hash
                                                                 ELSE nodes_[n].next_hash
      <4> SUFFICES ASSUME NEW n \in LiveIn(nodes_')
                   PROVE  /\ nodes_'[n].masked_ptr = nodes_[n].masked_ptr
                          /\ nodes_'[n].next_hash = IF nodes_[n].next_hash = i THEN nodes_[i].next_hash
                                                                              ELSE nodes_[n].next_hash
        OBVIOUS
      <4>1. n \in LiveIn(nodes_) \ {i} /\ n \in 0 .. N - 1
        BY <1>2, <2>14 DEF LiveIn
      <4> QED BY <2>4, <2>12, <4>1 DEF unlinked
    <3>2. \A b \in Buckets : ptrmap_'[b] = IF ptrmap_[b] = i THEN nodes_[i].next_hash ELSE ptrmap_[b]
      BY <2>1, <2>4
    <3> QED BY <1>2, <2>2, <2>3, <2>13, <2>14, <3>1, <3>2, TakenOut
  <2>16. \A m, n \in LiveIn(nodes_') : nodes_'[m].masked_ptr = nodes_'[n].masked_ptr => m = n
    <3>1. \A n \in LiveIn(nodes_') : n \in LiveIn(nodes_) /\ nodes_'[n].masked_ptr = nodes_[n].masked_ptr
      BY <1>2, <2>12, <2>14 DEF LiveIn
    <3> QED BY <1>2, <3>1
  <2>17. /\ \A k \in DOMAIN free_nodes_.cells : free_nodes_.cells[k] \in DOMAIN nodes_' \ LiveIn(nodes_')
         /\ \A k \in DOMAIN free_nodes_.cells : free_nodes_.cells[k] # i
         /\ \A j, k \in DOMAIN free_nodes_.cells : free_nodes_.cells[j] = free_nodes_.cells[k] => j = k
    BY <1>2, <2>3, <2>13, <2>14 DEF Spare
  <2>18. /\ ListOwned(list.vec, list.heap) /\ DOMAIN list.vec.cells = 0 .. Size(free_nodes_)
         /\ \A k \in 0 .. Size(free_nodes_) :
               list.vec.cells[k] = IF k < Size(free_nodes_) THEN free_nodes_.cells[k] ELSE i
         /\ DOMAIN free_nodes_.cells = 0 .. Size(free_nodes_) - 1 /\ Size(free_nodes_) \in Nat
    <3>1. ListOwned(free_nodes_, list_blocks)
      BY <1>2
    <3>2. /\ ListOwned(list.vec, list.heap) /\ DOMAIN list.vec.cells = 0 .. Size(free_nodes_)
          /\ \A k \in 0 .. Size(free_nodes_) :
                list.vec.cells[k] = IF k < Size(free_nodes_) THEN free_nodes_.cells[k] ELSE i
      BY <3>1, PushedList
    <3> QED BY <3>1, <3>2 DEF ListOwned
  <2>19. ListOwned(free_nodes_', list_blocks') /\ Spare(free_nodes_', nodes_')
    <3>1. CASE last
      BY <1>2, <2>1, <2>17, <3>1 DEF Spare
    <3>2. CASE ~ last
      <4>1. free_nodes_' = list.vec /\ list_blocks' = list.heap
        BY <2>1, <3>2
      <4> HIDE DEF list, last
      <4>2. i \in DOMAIN nodes_' \ LiveIn(nodes_')
        BY <2>3, <2>13, <2>14
      <4>3. \A k \in 0 .. Size(free_nodes_) :
               \/ k \in DOMAIN free_nodes_.cells /\ list.vec.cells[k] = free_nodes_.cells[k]
               \/ k = Size(free_nodes_) /\ list.vec.cells[k] = i
        BY <2>18
      <4>4. \A k \in DOMAIN list.vec.cells : list.vec.cells[k] \in DOMAIN nodes_' \ LiveIn(nodes_')
        BY <2>17, <2>18, <4>2, <4>3
      <4>5. \A j, k \in DOMAIN list.vec.cells : list.vec.cells[j] = list.vec.cells[k] => j = k
        BY <2>17, <2>18, <4>3
      <4> QED BY <2>18, <4>1, <4>4, <4>5 DEF Spare
    <3> QED BY <3>1, <3>2
  <2>20. MapInv'
    <3>1. ptrmap_' \in [Buckets -> Int]
      BY <2>1, <2>4
    <3> QED BY <1>2, <2>13, <2>15, <2>16, <2>19, <3>1 DEF MapInv
  <2>21. i \in G!Nodes /\ i \in Index /\ Pointers(nodes_)[i] = p /\ Versions(nodes_)[i] = nodes_[i].version
    BY <2>3, GraphView
  <2>22. Pointers(nodes_)' = [Pointers(nodes_) EXCEPT ![i] = NoPtr]
    <3>1. \A n \in Index : (IF n \in DOMAIN nodes_' THEN nodes_'[n].masked_ptr ELSE NoPtr)
                            = IF n = i THEN NoPtr
                              ELSE IF n \in DOMAIN nodes_ THEN nodes_[n].masked_ptr ELSE NoPtr
      BY <1>2, <2>12, <2>13
    <3> QED BY <2>21, <3>1 DEF Pointers
  <2>23. Versions(nodes_)' = [Versions(nodes_) EXCEPT ![i] = version]
    <3>1. \A n \in Index : (IF n \in DOMAIN nodes_' THEN nodes_'[n].version ELSE 0)
                            = IF n = i THEN version
                              ELSE IF n \in DOMAIN nodes_ THEN nodes_[n].version ELSE 0
      BY <1>2, <2>3, <2>12, <2>13
    <3> QED BY <2>21, <3>1 DEF Versions
  <2> DEFINE none == [n \in Index |-> {}]
             ranks == [n \in Index |-> n]
  <2>24. G!Isolate(none, none, i) = none
    BY <2>21 DEF G!Isolate, G!Index, Index
  <2>25. IF Versions(nodes_)[i] = MaxVersion
         THEN Versions(nodes_)' = Versions(nodes_) /\ AsSequence(free_nodes_)' = AsSequence(free_nodes_)
         ELSE /\ Versions(nodes_)' = [Versions(nodes_) EXCEPT ![i] = Versions(nodes_)[i] + 1]
              /\ AsSequence(free_nodes_)' = Append(AsSequence(free_nodes_), i)
    <3>1. CASE last
      <4>1. version = Versions(nodes_)[i] /\ Versions(nodes_)[i] = MaxVersion
        BY <2>21, <3>1 DEF version
      <4>2. [Versions(nodes_) EXCEPT ![i] = Versions(nodes_)[i]] = Versions(nodes_)
        BY DEF Versions
      <4>3. Versions(nodes_)' = Versions(nodes_)
        BY <2>23, <4>1, <4>2
      <4>4. free_nodes_' = free_nodes_
        BY <2>1, <3>1
      <4>5. AsSequence(free_nodes_)' = AsSequence(free_nodes_)
        BY <4>4 DEF AsSequence, Size
      <4> QED BY <4>1, <4>3, <4>5
    <3>2. CASE ~ last
      <4>1. version = Versions(nodes_)[i] + 1 /\ Versions(nodes_)[i] # MaxVersion
        BY <2>21, <3>2 DEF version
      <4>2. free_nodes_' = list.vec
        BY <2>1, <3>2
      <4>3. AsSequence(list.vec) = Append(AsSequence(free_nodes_), i)
        BY <1>2, PushedView
      <4> HIDE DEF list
      <4>4. AsSequence(free_nodes_)' = AsSequence(list.vec)
        BY <4>2 DEF AsSequence, Size
      <4> QED BY <2>23, <4>1, <4>3, <4>4
    <3> QED BY <3>1, <3>2
  <2>26. Count' = Count
    BY <2>13 DEF N
  <2>27. /\ i \in G!Nodes /\ Pointers(nodes_)[i] = p
         /\ none' = G!Isolate(none, none, i)
         /\ Pointers(nodes_)' = [Pointers(nodes_) EXCEPT ![i] = NoPtr]
         /\ ranks' = ranks
    BY <2>21, <2>22, <2>24
  <2>28. G!RemoveNode(p)
    BY <1>1, <2>25, <2>26, <2>27 DEF G!RemoveNode, Versions, Pointers, AsSequence
  <2> QED BY <2>20, <2>28
<1> QED BY <1>3, <1>4

MapStep == MapNext \/ UNCHANGED mapVars

(* Every step of the pointer map is GetId or RemoveNode of the graph, or a *)
(* stutter.                                                                *)
LEMMA MapStepped ==
    ASSUME MapInv, MapStep
    PROVE  MapInv' /\ (G!NodeNext \/ UNCHANGED G!vars)
<1>1. ASSUME NEW p \in Ptrs, GetId(p)
      PROVE  MapInv' /\ G!NodeNext
  <2>1. KnownGet(p) \/ NewGet(p) \/ RecycledGet(p)
    BY <1>1 DEF GetId, KnownGet, NewGet, RecycledGet
  <2>2. MapInv' /\ (G!GetKnownId(p) \/ G!GetNewId(p) \/ G!GetRecycledId(p))
    BY <2>1, KnownStep, NewStep, RecycledStep
  <2> QED BY <2>2 DEF G!NodeNext
<1>2. ASSUME NEW p \in Ptrs, RemoveNode(p)
      PROVE  MapInv' /\ G!NodeNext
  <2>1. MapInv' /\ G!RemoveNode(p)
    BY <1>2, RemoveStep
  <2> QED BY <2>1 DEF G!NodeNext
<1>3. ASSUME UNCHANGED mapVars
      PROVE  MapInv' /\ UNCHANGED G!vars
  <2>1. /\ nodes_' = nodes_ /\ ptrmap_' = ptrmap_ /\ free_nodes_' = free_nodes_
        /\ list_blocks' = list_blocks /\ got' = got
    BY <1>3 DEF mapVars
  <2>2. MapInv'
    BY <2>1 DEF MapInv, Count
  <2>3. UNCHANGED G!vars
    BY <2>1 DEF G!vars, G!graph, Count, Size
  <2> QED BY <2>2, <2>3
<1> QED BY <1>1, <1>2, <1>3 DEF MapStep, MapNext

(* Whatever nodes are freed and used again, each lock with a node is in    *)
(* the chain of its bucket once, the free list holds each node without a   *)
(* lock at most once, and it has its block.                                *)
THEOREM MapInvariance == MapSpec => []MapInv
<1>1. MapInit => MapInv
  BY MapInitial
<1>2. MapInv /\ [MapNext]_mapVars => MapInv'
  BY MapStepped DEF MapStep
<1> QED BY <1>1, <1>2, PTL DEF MapSpec

(* The chains, the free list and the versions do what GraphCycles says of  *)
(* GetId and RemoveNode, for every hash function: the same node, the same  *)
(* id, the same free list.                                                 *)
THEOREM PointerMapIsTheGraphs == MapSpec => RefinesGraph
<1>1. MapInit => G!Init
  BY MapInitial
<1>2. MapInv /\ [MapNext]_mapVars => [G!NodeNext]_(G!vars)
  BY MapStepped DEF MapStep
<1> QED BY <1>1, <1>2, MapInvariance, PTL DEF MapSpec, RefinesGraph

-----------------------------------------------------------------------------
(* Levels                                                                  *)

(* The smallest number of a set. *)
LEMMA MinOf ==
    ASSUME NEW T \in SUBSET Nat, T # {}
    PROVE  Min(T) \in T /\ \A y \in T : Min(T) <= y
BY SmallestMember DEF Min

(* The largest number of a bounded set. *)
LEMMA MaxOf ==
    ASSUME NEW B \in Nat, NEW T \in SUBSET (0 .. B), T # {}
    PROVE  Max(T) \in T /\ \A y \in T : y <= Max(T)
<1> DEFINE D == {B - x : x \in T}
<1>1. D \in SUBSET Nat /\ D # {}
  <2>1. \A x \in T : B - x \in Nat
    OBVIOUS
  <2> QED BY <2>1
<1>2. PICK d \in D : \A e \in D : d <= e
  BY <1>1, SmallestMember
<1>3. PICK m \in T : d = B - m
  BY <1>2
<1>4. ASSUME NEW y \in T
      PROVE  y <= m
  <2>1. B - y \in D /\ y \in 0 .. B /\ m \in 0 .. B
    OBVIOUS
  <2>2. d <= B - y
    BY <1>2, <2>1
  <2> QED BY <1>3, <2>1, <2>2
<1>5. \A y \in T : m >= y
  BY <1>4
<1> QED BY <1>3, <1>5 DEF Max

(* The loop of IntLog2. *)
Halves(f, s, n) == f = [r \in 0 .. n |-> IF r = 0 THEN UnitBytes * s ELSE f[r - 1] \div 2]

(* It can be run to any bound. *)
LEMMA HalvesExist ==
    ASSUME NEW s \in Nat, NEW m \in Nat
    PROVE  \E f : Halves(f, s, m)
<1> DEFINE bad == {n \in Nat : ~ \E f : Halves(f, s, n)}
<1>1. SUFFICES ASSUME bad # {}
               PROVE  FALSE
  OBVIOUS
<1>2. PICK n \in bad : \A k \in bad : n <= k
  BY <1>1, SmallestMember
<1>3. CASE n = 0
  <2> DEFINE f == [r \in 0 .. 0 |-> UnitBytes * s]
  <2>1. f = [r \in 0 .. 0 |-> IF r = 0 THEN UnitBytes * s ELSE f[r - 1] \div 2]
    OBVIOUS
  <2>2. Halves(f, s, 0)
    BY <2>1 DEF Halves
  <2> QED BY <1>2, <1>3, <2>2
<1>4. CASE n # 0
  <2>1. n - 1 \in Nat /\ n \in Nat /\ ~ (n <= n - 1)
    BY <1>2, <1>4
  <2>2. PICK g : Halves(g, s, n - 1)
    BY <1>2, <2>1
  <2> DEFINE last == g[n - 1] \div 2
             f == [r \in 0 .. n |-> IF r = n THEN last ELSE g[r]]
  <2>3. g = [r \in 0 .. n - 1 |-> IF r = 0 THEN UnitBytes * s ELSE g[r - 1] \div 2]
    BY <2>2 DEF Halves
  <2>4. \A r \in 0 .. n - 1 : f[r] = g[r]
    BY <2>1
  <2>5. ASSUME NEW r \in 0 .. n
        PROVE  f[r] = IF r = 0 THEN UnitBytes * s ELSE f[r - 1] \div 2
    <3>1. CASE r = n
      <4>1. f[n] = last /\ f[n - 1] = g[n - 1]
        BY <2>1, <2>4
      <4> HIDE DEF f
      <4> QED BY <1>4, <3>1, <4>1
    <3>2. CASE r # n
      <4>1. r \in 0 .. n - 1 /\ (r # 0 => r - 1 \in 0 .. n - 1)
        BY <2>1, <3>2
      <4>2. f[r] = g[r] /\ (r # 0 => f[r - 1] = g[r - 1])
        BY <2>4, <4>1
      <4> HIDE DEF f
      <4> QED BY <2>3, <4>1, <4>2
    <3> QED BY <3>1, <3>2
  <2>6. f = [r \in 0 .. n |-> f[r]]
    OBVIOUS
  <2> HIDE DEF f
  <2>7. f = [r \in 0 .. n |-> IF r = 0 THEN UnitBytes * s ELSE f[r - 1] \div 2]
    BY <2>5, <2>6
  <2>8. Halves(f, s, n)
    BY <2>7 DEF Halves
  <2> QED BY <1>2, <2>8
<1> QED BY <1>3, <1>4

(* What IntLog2 counts: the halvings until the base is reached. *)
LEMMA IntLog2Halves ==
    ASSUME NEW s \in Nat
    PROVE  \E f : /\ Halves(f, s, s)
                  /\ IntLog2(s) = Min({r \in 0 .. s : f[r] <= UnitBytes * MinSize})
<1> DEFINE f == CHOOSE g : Halves(g, s, s)
<1>1. Halves(f, s, s)
  BY HalvesExist
<1>2. IntLog2(s) = Min({r \in 0 .. s : f[r] <= UnitBytes * MinSize})
  BY DEF IntLog2, Halves
<1> QED BY <1>1, <1>2

(* Halving ends at the base in time, and from less it is reached earlier. *)
LEMMA HalvesFall ==
    ASSUME NEW s \in Nat, NEW n \in Nat, NEW f, Halves(f, s, n)
    PROVE  \A r \in 0 .. n : f[r] \in Nat /\ (f[r] <= 64 \/ f[r] <= 32 * (s - r))
<1>1. /\ f[0] = 32 * s
      /\ \A r \in 1 .. n : f[r] = f[r - 1] \div 2
  <2>1. f = [r \in 0 .. n |-> IF r = 0 THEN UnitBytes * s ELSE f[r - 1] \div 2]
    BY DEF Halves
  <2>2. \A r \in 0 .. n : f[r] = IF r = 0 THEN UnitBytes * s ELSE f[r - 1] \div 2
    BY <2>1
  <2> QED BY <2>2 DEF UnitBytes
<1> DEFINE bad == {r \in 0 .. n : ~ (f[r] \in Nat /\ (f[r] <= 64 \/ f[r] <= 32 * (s - r)))}
<1>2. SUFFICES ASSUME bad # {}
               PROVE  FALSE
  OBVIOUS
<1>3. PICK r \in bad : \A k \in bad : r <= k
  <2>1. bad \in SUBSET Nat
    OBVIOUS
  <2> QED BY <1>2, <2>1, SmallestMember
<1>4. r # 0
  BY <1>1, <1>3
<1>5. /\ r - 1 \in 0 .. n /\ r \in 1 .. n
      /\ f[r - 1] \in Nat /\ (f[r - 1] <= 64 \/ f[r - 1] <= 32 * (s - (r - 1)))
  BY <1>3, <1>4
<1>6. f[r] = f[r - 1] \div 2
  BY <1>1, <1>5
<1>7. f[r] \in Nat /\ (f[r] <= 64 \/ f[r] <= 32 * (s - r))
  <2> DEFINE x == f[r - 1]
  <2>1. x \in Nat /\ f[r] = x \div 2
    BY <1>5, <1>6
  <2>2. x \div 2 \in Nat /\ 2 * (x \div 2) <= x
    BY <2>1
  <2> HIDE DEF x
  <2>3. f[r] > 64 => f[r] <= x - 64
    BY <2>1, <2>2
  <2>4. x <= 64 \/ x <= 32 * (s - (r - 1))
    BY <1>5 DEF x
  <2> QED BY <1>5, <2>1, <2>2, <2>3, <2>4
<1> QED BY <1>3, <1>7

(* IntLog2 is bounded by its argument. *)
LEMMA IntLog2Type ==
    ASSUME NEW s \in Nat
    PROVE  IntLog2(s) \in 0 .. s
<1>1. PICK f : /\ Halves(f, s, s)
               /\ IntLog2(s) = Min({r \in 0 .. s : f[r] <= UnitBytes * MinSize})
  BY IntLog2Halves
<1>2. s \in {r \in 0 .. s : f[r] <= UnitBytes * MinSize}
  BY <1>1, HalvesFall DEF UnitBytes, MinSize
<1>3. IntLog2(s) \in {r \in 0 .. s : f[r] <= UnitBytes * MinSize}
  BY <1>1, <1>2, MinOf
<1> QED BY <1>3

(* A smaller block has no larger logarithm. *)
LEMMA IntLog2Grows ==
    ASSUME NEW s \in Nat, NEW t \in Nat, s <= t
    PROVE  IntLog2(s) <= IntLog2(t)
<1>1. PICK f : /\ Halves(f, s, s)
               /\ IntLog2(s) = Min({r \in 0 .. s : f[r] <= UnitBytes * MinSize})
  BY IntLog2Halves
<1>2. PICK g : /\ Halves(g, t, t)
               /\ IntLog2(t) = Min({r \in 0 .. t : g[r] <= UnitBytes * MinSize})
  BY IntLog2Halves
<1>3. /\ f[0] = 32 * s /\ \A r \in 1 .. s : f[r] = f[r - 1] \div 2
      /\ g[0] = 32 * t /\ \A r \in 1 .. t : g[r] = g[r - 1] \div 2
      /\ \A r \in 0 .. s : f[r] \in Nat
      /\ \A r \in 0 .. t : g[r] \in Nat
  <2>1. /\ f = [r \in 0 .. s |-> IF r = 0 THEN UnitBytes * s ELSE f[r - 1] \div 2]
        /\ g = [r \in 0 .. t |-> IF r = 0 THEN UnitBytes * t ELSE g[r - 1] \div 2]
    BY <1>1, <1>2 DEF Halves
  <2>2. \A r \in 0 .. s : f[r] = IF r = 0 THEN UnitBytes * s ELSE f[r - 1] \div 2
    BY <2>1
  <2>3. \A r \in 0 .. t : g[r] = IF r = 0 THEN UnitBytes * t ELSE g[r - 1] \div 2
    BY <2>1
  <2> QED BY <1>1, <1>2, <2>2, <2>3, HalvesFall DEF UnitBytes
<1>4. \A r \in 0 .. s : f[r] <= g[r]
  <2> DEFINE bad == {r \in 0 .. s : ~ (f[r] <= g[r])}
  <2>1. SUFFICES ASSUME bad # {}
                 PROVE  FALSE
    OBVIOUS
  <2>2. PICK r \in bad : \A k \in bad : r <= k
    <3>1. bad \in SUBSET Nat
      OBVIOUS
    <3> QED BY <2>1, <3>1, SmallestMember
  <2>3. r # 0
    BY <1>3, <2>2
  <2>4. r \in 1 .. s /\ r \in 1 .. t /\ r - 1 \in 0 .. s /\ r - 1 \in 0 .. t /\ f[r - 1] <= g[r - 1]
    BY <2>2, <2>3
  <2> DEFINE x == f[r - 1]  y == g[r - 1]
  <2>5. x \in Nat /\ y \in Nat /\ x <= y /\ f[r] = x \div 2 /\ g[r] = y \div 2
    BY <1>3, <2>4
  <2> HIDE DEF x, y
  <2>6. x \div 2 <= y \div 2
    BY <2>5
  <2> QED BY <2>2, <2>5, <2>6
<1> DEFINE R == IntLog2(t)
<1>5. R \in 0 .. t /\ g[R] <= UnitBytes * MinSize
  <2>1. t \in {r \in 0 .. t : g[r] <= UnitBytes * MinSize}
    BY <1>2, HalvesFall DEF UnitBytes, MinSize
  <2>2. R \in {r \in 0 .. t : g[r] <= UnitBytes * MinSize}
    <3> DEFINE T == {r \in 0 .. t : g[r] <= UnitBytes * MinSize}
    <3>1. T \in SUBSET Nat /\ T # {}
      BY <2>1
    <3> QED BY <1>2, <3>1, MinOf
  <2> QED BY <2>2
<1>6. IntLog2(s) \in 0 .. s
  BY IntLog2Type
<1> HIDE DEF R
<1>7. CASE R > s
  BY <1>5, <1>6, <1>7 DEF R
<1>8. CASE ~ (R > s)
  <2>1. R \in 0 .. s
    BY <1>5, <1>8
  <2>2. f[R] \in Nat /\ g[R] \in Nat /\ f[R] <= g[R]
    BY <1>3, <1>4, <1>5, <2>1
  <2>3. f[R] <= UnitBytes * MinSize
    BY <1>5, <2>2 DEF UnitBytes, MinSize
  <2>4. R \in {r \in 0 .. s : f[r] <= UnitBytes * MinSize}
    BY <2>1, <2>3
  <2>5. IntLog2(s) <= R
    BY <1>1, <2>4, MinOf
  <2> QED BY <2>5 DEF R
<1> QED BY <1>7, <1>8

(* The number of levels of a block lies between the one the search for its *)
(* size begins at and the last but one.                                    *)
LEMMA ClipOf ==
    ASSUME NEW s \in Nat, s >= MinSize, NEW l \in Nat \ {0}
    PROVE  /\ Clip(l, s) \in 1 .. kMaxLevel - 1
           /\ \A t \in Nat, k \in Nat \ {0} : s <= t /\ l <= k => Clip(l, s) <= Clip(k, t)
<1>1. \A t \in Nat : t >= MinSize => MaxFit(t) = 4 * t - 5 /\ MaxFit(t) \in Nat \ {0}
  BY DEF MaxFit, UnitBytes, MinSize
<1>2. kMaxLevel \in Nat \ {0, 1}
  BY AllocAssumption
<1>3. ASSUME NEW t \in Nat, t >= MinSize, NEW k \in Nat \ {0}
      PROVE  /\ Clip(k, t) \in {k, MaxFit(t), kMaxLevel - 1}
             /\ Clip(k, t) <= k /\ Clip(k, t) <= MaxFit(t) /\ Clip(k, t) <= kMaxLevel - 1
  <2> DEFINE T == {k, MaxFit(t), kMaxLevel - 1}
  <2>1. T \in SUBSET Nat /\ T # {}
    BY <1>1, <1>2, <1>3
  <2>2. Min(T) \in T /\ \A y \in T : Min(T) <= y
    BY <2>1, MinOf
  <2> QED BY <2>2 DEF Clip
<1>4. Clip(l, s) \in 1 .. kMaxLevel - 1
  BY <1>1, <1>2, <1>3
<1>5. ASSUME NEW t \in Nat, NEW k \in Nat \ {0}, s <= t, l <= k
      PROVE  Clip(l, s) <= Clip(k, t)
  <2>1. t >= MinSize
    BY <1>5 DEF MinSize
  <2> QED BY <1>1, <1>2, <1>3, <1>5, <2>1
<1> QED BY <1>4, <1>5

(* Each number of levels that may be drawn for a block fits into it. *)
LEMMA LevelsOf ==
    ASSUME NEW s \in Nat, s >= MinSize
    PROVE  /\ SkiplistLevels(s) \subseteq 1 .. kMaxLevel - 1
           /\ FewestLevels(s) \in 1 .. kMaxLevel - 1
           /\ \A l \in SkiplistLevels(s) : FewestLevels(s) <= l
<1>1. IntLog2(s) \in Nat
  BY IntLog2Type
<1>2. \A r \in Levels : IntLog2(s) + r \in Nat \ {0} /\ IntLog2(s) + 1 <= IntLog2(s) + r
  BY <1>1, AllocAssumption DEF Levels
<1>3. IntLog2(s) + 1 \in Nat \ {0}
  BY <1>1
<1>4. ASSUME NEW l \in SkiplistLevels(s)
      PROVE  l \in 1 .. kMaxLevel - 1 /\ FewestLevels(s) <= l
  <2>1. PICK r \in Levels : l = Clip(IntLog2(s) + r, s)
    BY DEF SkiplistLevels
  <2> DEFINE x == IntLog2(s) + r   y == IntLog2(s) + 1
  <2>2. x \in Nat \ {0} /\ y \in Nat \ {0} /\ y <= x
    BY <1>1, <1>2
  <2> HIDE DEF x, y
  <2>3. Clip(x, s) \in 1 .. kMaxLevel - 1 /\ Clip(y, s) <= Clip(x, s)
    BY <2>2, ClipOf
  <2> QED BY <2>1, <2>3 DEF FewestLevels, x, y
<1> QED BY <1>3, <1>4, ClipOf DEF FewestLevels

(* A larger block has no fewer levels. *)
LEMMA FewestLevelsGrow ==
    ASSUME NEW s \in Nat, s >= MinSize, NEW t \in Nat, s <= t
    PROVE  FewestLevels(s) <= FewestLevels(t)
<1> DEFINE x == IntLog2(s) + 1   y == IntLog2(t) + 1
<1>1. x \in Nat \ {0} /\ y \in Nat \ {0} /\ x <= y
  BY IntLog2Type, IntLog2Grows
<1> HIDE DEF x, y
<1>2. Clip(x, s) <= Clip(y, t)
  BY <1>1, ClipOf
<1> QED BY <1>2 DEF FewestLevels, x, y

-----------------------------------------------------------------------------
(* The skip list                                                           *)

HeapType == [size   : [Addrs -> Nat],
             magic  : [Addrs -> {"none", "allocated", "unallocated"}],
             levels : [Addrs \cup {Freelist} -> 0 .. kMaxLevel - 1],
             next   : [Addrs \cup {Freelist} -> [Levels -> Addrs \cup {Null}]]]

(* The blocks of S that have level i. *)
On(h, S, i) == {a \in S : h.levels[a] >= i}

(* y is the first of T behind x, if there is one. *)
Follows(T, x, y) == IF y = Null THEN \A b \in T : b <= x
                    ELSE y \in T /\ x < y /\ \A b \in T : b <= x \/ y <= b

(* The list holds exactly the blocks of S. *)
Listed(h, S) ==
    /\ h \in HeapType /\ S \subseteq Addrs
    /\ \A a \in S : h.levels[a] >= 1
    /\ \A i \in Levels : \A a \in {Freelist} \cup On(h, S, i) :
          Follows(On(h, S, i), a, h.next[a][i])
    /\ \A i \in Levels : h.levels[Freelist] >= i <=> On(h, S, i) # {}

Apart(S) == \A a, b \in S : a < b => a + MinSize <= b

(* Addresses and levels are numbers, Null is none. *)
LEMMA Numbers ==
    /\ Addrs \subseteq Nat \ {0} /\ Freelist = 0 /\ Freelist \notin Addrs
    /\ Null \notin Addrs /\ Null # Freelist /\ MemorySize \in Nat
    /\ \A a \in Addrs : a <= MemorySize
    /\ 1 \in Levels /\ Levels \subseteq Nat \ {0} /\ kMaxLevel \in Nat \ {0, 1}
BY AllocAssumption DEF Addrs, Freelist, Levels

(* The types of a list and of its levels. *)
LEMMA ListedTypes ==
    ASSUME NEW h, NEW S, Listed(h, S), NEW i \in Levels
    PROVE  /\ On(h, S, i) \subseteq S /\ S \subseteq Addrs
           /\ On(h, S, i) \in SUBSET (1 .. MemorySize) /\ S \in SUBSET (1 .. MemorySize)
           /\ \A a \in {Freelist} \cup Addrs : /\ h.next[a][i] \in Addrs \cup {Null}
                                               /\ h.levels[a] \in 0 .. kMaxLevel - 1
BY DEF Listed, On, HeapType, Addrs

(* The last of T before a leads to it. *)
LEMMA LastBefore ==
    ASSUME NEW T \in SUBSET (1 .. MemorySize), NEW e \in Nat
    PROVE  LET p == Max({Freelist} \cup {b \in T : b < e}) IN
           /\ p \in {Freelist} \cup T /\ p \in Nat /\ p <= MemorySize
           /\ p # Freelist => p < e
           /\ \A b \in T : b < e => b <= p
<1> DEFINE D == {Freelist} \cup {b \in T : b < e}
<1>1. D \in SUBSET (0 .. MemorySize) /\ D # {} /\ MemorySize \in Nat
  <2>1. MemorySize \in Nat /\ Freelist \in 0 .. MemorySize
    BY Numbers
  <2>2. \A b \in T : b \in 0 .. MemorySize
    BY <2>1
  <2> QED BY <2>1, <2>2
<1>2. Max(D) \in D /\ \A y \in D : y <= Max(D)
  BY <1>1, MaxOf
<1>3. \A b \in T : b \in Nat /\ (b < e => b \in D)
  BY <1>1
<1> QED BY <1>1, <1>2, <1>3, Numbers

(* What the last place before e leads to is e, or what follows e. *)
LEMMA BehindLast ==
    ASSUME NEW T \in SUBSET (1 .. MemorySize), NEW e \in Addrs, NEW p \in Nat, p < e,
           \A b \in T : b < e => b <= p, NEW y, Follows(T, p, y)
    PROVE  /\ e \in T => y = e
           /\ e \notin T => y # e /\ Follows(T, e, y)
<1>0. e \in Nat \ {0}
  BY Numbers
<1>1. Null \notin T /\ \A b \in T : b \in Nat
  <2>1. Null \notin 1 .. MemorySize
    BY Numbers DEF Addrs
  <2>2. \A b \in T : b \in 1 .. MemorySize /\ b \in Nat
    BY Numbers
  <2> QED BY <2>1, <2>2
<1>2. CASE y = Null
  <2>1. \A b \in T : b <= p /\ b \in Nat
    BY <1>1, <1>2 DEF Follows
  <2>2. \A b \in T : b < e
    BY <1>0, <2>1
  <2>3. \A b \in T : b <= e
    BY <1>0, <2>1
  <2>4. e \notin T
    BY <1>0, <2>2
  <2>5. y # e
    BY <1>2, Numbers
  <2> QED BY <1>2, <2>3, <2>4, <2>5 DEF Follows
<1>3. CASE y # Null
  <2>1. y \in T /\ p < y /\ \A b \in T : b <= p \/ y <= b
    BY <1>3 DEF Follows
  <2>2. e \in T => y = e
    BY <1>0, <1>1, <2>1
  <2>3. ASSUME e \notin T
        PROVE  y # e /\ e < y /\ \A b \in T : b <= e \/ y <= b
    BY <1>0, <1>1, <2>1, <2>3
  <2> QED BY <1>3, <2>1, <2>2, <2>3 DEF Follows
<1> QED BY <1>2, <1>3

Met(f, h, i, n) ==
    f = [k \in 0 .. n |-> IF k = 0 THEN {h.next[Freelist][i]} \ {Null}
                          ELSE f[k - 1] \cup ({h.next[a][i] : a \in f[k - 1]} \ {Null})]

(* The walk of OnLevel can be taken for any number of steps. *)
LEMMA MetExists ==
    ASSUME NEW h, NEW i, NEW m \in Nat
    PROVE  \E f : Met(f, h, i, m)
<1> DEFINE first == {h.next[Freelist][i]} \ {Null}
           more(s) == s \cup ({h.next[a][i] : a \in s} \ {Null})
<1>0. \A f : \A n : Met(f, h, i, n) <=> f = [k \in 0 .. n |-> IF k = 0 THEN first ELSE more(f[k - 1])]
  BY DEF Met
<1> HIDE DEF first, more
<1> DEFINE bad == {n \in Nat : ~ \E f : Met(f, h, i, n)}
<1>1. SUFFICES ASSUME bad # {}
               PROVE  FALSE
  OBVIOUS
<1>2. PICK n \in bad : \A k \in bad : n <= k
  BY <1>1, SmallestMember
<1>3. CASE n = 0
  <2> DEFINE f == [k \in 0 .. 0 |-> first]
  <2>1. f = [k \in 0 .. 0 |-> IF k = 0 THEN first ELSE more(f[k - 1])]
    OBVIOUS
  <2> HIDE DEF f
  <2>2. Met(f, h, i, 0)
    BY <1>0, <2>1
  <2> QED BY <1>2, <1>3, <2>2
<1>4. CASE n # 0
  <2>1. n - 1 \in Nat /\ n \in Nat /\ ~ (n <= n - 1)
    BY <1>2, <1>4
  <2>2. PICK g : Met(g, h, i, n - 1)
    BY <1>2, <2>1
  <2> DEFINE last == more(g[n - 1])
             f == [k \in 0 .. n |-> IF k = n THEN last ELSE g[k]]
  <2>3. g = [k \in 0 .. n - 1 |-> IF k = 0 THEN first ELSE more(g[k - 1])]
    BY <1>0, <2>2
  <2>4. \A k \in 0 .. n - 1 : f[k] = g[k]
    BY <2>1
  <2>5. ASSUME NEW k \in 0 .. n
        PROVE  f[k] = IF k = 0 THEN first ELSE more(f[k - 1])
    <3>1. CASE k = n
      <4>1. f[n] = last /\ f[n - 1] = g[n - 1]
        BY <2>1, <2>4
      <4> HIDE DEF f
      <4> QED BY <1>4, <3>1, <4>1
    <3>2. CASE k # n
      <4>1. k \in 0 .. n - 1 /\ (k # 0 => k - 1 \in 0 .. n - 1)
        BY <2>1, <3>2
      <4>2. f[k] = g[k] /\ (k # 0 => f[k - 1] = g[k - 1])
        BY <2>4, <4>1
      <4> HIDE DEF f
      <4>3. g[k] = IF k = 0 THEN first ELSE more(g[k - 1])
        BY <2>3, <4>1
      <4> QED BY <4>2, <4>3
    <3> QED BY <3>1, <3>2
  <2>6. f = [k \in 0 .. n |-> f[k]]
    OBVIOUS
  <2> HIDE DEF f
  <2>7. f = [k \in 0 .. n |-> IF k = 0 THEN first ELSE more(f[k - 1])]
    BY <2>5, <2>6
  <2>8. Met(f, h, i, n)
    BY <1>0, <2>7
  <2> QED BY <1>2, <2>8
<1> QED BY <1>3, <1>4

(* OnLevel is what such a walk has met. *)
LEMMA OnLevelIsMet ==
    ASSUME NEW h, NEW i
    PROVE  \E f : /\ Met(f, h, i, MemorySize \div MinSize)
                  /\ OnLevel(h, i) = f[MemorySize \div MinSize]
<1> DEFINE K == MemorySize \div MinSize
           f == CHOOSE g : Met(g, h, i, K)
<1>1. K \in Nat
  BY Numbers DEF MinSize
<1>2. Met(f, h, i, K)
  BY <1>1, MetExists
<1>3. OnLevel(h, i) = f[K]
  BY DEF OnLevel, Met
<1> QED BY <1>2, <1>3

(* A walk along level i meets all blocks that have the level: they are two *)
(* units apart, so that it has to take no more than so many steps.         *)
LEMMA Walk ==
    ASSUME NEW h, NEW S, Listed(h, S), Apart(S), NEW i \in Levels
    PROVE  OnLevel(h, i) = On(h, S, i)
<1> DEFINE T == On(h, S, i)
           K == MemorySize \div MinSize
<1>1. PICK f : Met(f, h, i, K) /\ OnLevel(h, i) = f[K]
  BY OnLevelIsMet
<1>2. K \in Nat /\ MemorySize <= 2 * K + 1
  BY Numbers DEF MinSize
<1>3. T \in SUBSET (1 .. MemorySize)
  BY ListedTypes
<1>4. \A a \in {Freelist} \cup T : Follows(T, a, h.next[a][i])
  BY DEF Listed
<1>5. \A a, b \in T : a < b => a + 2 <= b
  BY DEF Apart, MinSize, On
<1> HIDE DEF T, K
<1>6. /\ f[0] = {h.next[Freelist][i]} \ {Null}
      /\ \A k \in 1 .. K : f[k] = f[k - 1] \cup ({h.next[a][i] : a \in f[k - 1]} \ {Null})
  <2>1. \A k \in 0 .. K : f[k] = IF k = 0 THEN {h.next[Freelist][i]} \ {Null}
                                 ELSE f[k - 1] \cup ({h.next[a][i] : a \in f[k - 1]} \ {Null})
    BY <1>1 DEF Met
  <2>2. 0 \in 0 .. K /\ \A k \in 1 .. K : k \in 0 .. K /\ k # 0
    BY <1>2
  <2> QED BY <2>1, <2>2
<1>7. \A k \in 0 .. K : f[k] \subseteq T
  <2> DEFINE bad == {k \in 0 .. K : ~ (f[k] \subseteq T)}
  <2>1. SUFFICES ASSUME bad # {}
                 PROVE  FALSE
    OBVIOUS
  <2>2. PICK k \in bad : \A j \in bad : k <= j
    <3>1. bad \in SUBSET Nat
      BY <1>2
    <3> QED BY <2>1, <3>1, SmallestMember
  <2>3. f[0] \subseteq T
    BY <1>4, <1>6 DEF Follows
  <2>4. k \in 1 .. K /\ k - 1 \in 0 .. K /\ f[k - 1] \subseteq T
    BY <1>2, <2>2, <2>3
  <2>5. \A a \in f[k - 1] : h.next[a][i] # Null => h.next[a][i] \in T
    BY <1>4, <2>4 DEF Follows
  <2>6. f[k] \subseteq T
    BY <1>6, <2>4, <2>5
  <2> QED BY <2>2, <2>6
<1>8. \A k \in 0 .. K : \A a \in T : a <= 2 * k + 2 => a \in f[k]
  <2> DEFINE bad == {k \in 0 .. K : ~ \A a \in T : a <= 2 * k + 2 => a \in f[k]}
  <2>1. SUFFICES ASSUME bad # {}
                 PROVE  FALSE
    OBVIOUS
  <2>2. PICK k \in bad : \A j \in bad : k <= j
    <3>1. bad \in SUBSET Nat
      BY <1>2
    <3> QED BY <2>1, <3>1, SmallestMember
  <2>3. PICK a \in T : a <= 2 * k + 2 /\ a \notin f[k]
    BY <2>2
  <2> DEFINE p == Max({Freelist} \cup {b \in T : b < a})
  <2>4. /\ p \in {Freelist} \cup T /\ p \in Nat
        /\ p # Freelist => p < a
        /\ \A b \in T : b < a => b <= p
    <3>1. a \in Nat
      BY <1>3
    <3> QED BY <1>3, <3>1, LastBefore
  <2> HIDE DEF p
  <2>5. a \in Nat \ {0} /\ a \in Addrs /\ p < a /\ k \in 0 .. K /\ a # Null
    <3>1. a \in Nat \ {0} /\ a \in Addrs /\ k \in 0 .. K
      BY <1>3, <2>2 DEF Addrs
    <3> QED BY <2>4, <3>1, Numbers
  <2>6. h.next[p][i] = a
    <3>1. Follows(T, p, h.next[p][i])
      BY <1>4, <2>4
    <3> HIDE DEF Follows
    <3> DEFINE y == h.next[p][i]
    <3> HIDE DEF y
    <3>2. y = a
      BY <1>3, <2>4, <2>5, <3>1, BehindLast, SMTT(40) DEF y
    <3> QED BY <3>2 DEF y
  <2>7. CASE p = Freelist
    <3>1. a \in f[0]
      BY <1>6, <2>5, <2>6, <2>7
    <3>2. k # 0
      BY <2>3, <3>1
    <3> DEFINE c == k - 1
    <3>3. c \in 0 .. K /\ k = c + 1 /\ k \in 1 .. K
      BY <1>2, <2>5, <3>2
    <3>4. a > 2 * c + 2
      <4>1. c \notin bad
        BY <2>2, <3>3
      <4>2. a \notin f[c]
        BY <1>6, <2>3, <3>3
      <4> QED BY <1>3, <3>3, <4>1, <4>2
    <3>5. \A j \in 0 .. K : a \in f[j]
      <4> DEFINE less == {j \in 0 .. K : a \notin f[j]}
      <4>1. SUFFICES ASSUME less # {}
                     PROVE  FALSE
        OBVIOUS
      <4>2. PICK j \in less : \A l \in less : j <= l
        <5>1. less \in SUBSET Nat
          BY <1>2
        <5> QED BY <4>1, <5>1, SmallestMember
      <4>3. j \in 1 .. K /\ j - 1 \in 0 .. K /\ j - 1 \notin less
        BY <1>2, <3>1, <4>2
      <4> QED BY <1>6, <4>2, <4>3
    <3> QED BY <2>3, <2>5, <3>5
  <2>8. CASE p # Freelist
    <3>1. p \in T /\ p + 2 <= a
      BY <1>5, <2>4, <2>5, <2>8
    <3>2. k # 0
      <4>1. p \in Nat /\ p >= 1 /\ a \in Nat /\ a <= 2 * k + 2
        BY <1>3, <2>3, <2>5, <3>1
      <4> QED BY <3>1, <4>1
    <3> DEFINE c == k - 1
    <3>3. c \in 0 .. K /\ k = c + 1 /\ k \in 1 .. K
      BY <1>2, <2>5, <3>2
    <3>4. p <= 2 * c + 2
      BY <1>3, <2>3, <3>1, <3>3
    <3>5. p \in f[c]
      <4>1. c \notin bad
        BY <2>2, <3>3
      <4> QED BY <3>1, <3>3, <3>4, <4>1
    <3>6. a \in f[k]
      BY <1>6, <2>5, <2>6, <3>3, <3>5
    <3> QED BY <2>3, <3>6
  <2> QED BY <2>7, <2>8
<1>9. f[K] = T
  <2>1. K \in 0 .. K /\ \A a \in T : a <= 2 * K + 2
    BY <1>2, <1>3, Numbers
  <2> QED BY <1>7, <1>8, <2>1
<1> QED BY <1>1, <1>9 DEF T

(* LLA_SkiplistSearch: what is found on a level, and what it leads to. *)
LEMMA PrevIs ==
    ASSUME NEW h, NEW S, Listed(h, S), Apart(S), NEW i \in Levels, NEW e \in Addrs
    PROVE  LET p == Prev(h, i, e)
               T == On(h, S, i)
           IN /\ p \in {Freelist} \cup T /\ p \in Nat /\ p < e /\ p # e
              /\ p \in {Freelist} \cup Addrs
              /\ \A b \in T : b < e => b <= p
              /\ Follows(T, p, h.next[p][i])
              /\ e \in T => h.next[p][i] = e
              /\ e \notin T => h.next[p][i] # e /\ Follows(T, e, h.next[p][i])
<1> DEFINE p == Prev(h, i, e)
           T == On(h, S, i)
<1>1. OnLevel(h, i) = T
  BY Walk
<1>2. p = Max({Freelist} \cup {b \in T : b < e})
  BY <1>1 DEF Prev
<1>3. T \in SUBSET (1 .. MemorySize) /\ T \subseteq Addrs
  BY ListedTypes
<1>4. \A a \in {Freelist} \cup T : Follows(T, a, h.next[a][i])
  BY DEF Listed
<1>5. e \in Nat \ {0}
  BY Numbers
<1> HIDE DEF p, T
<1>6. /\ p \in {Freelist} \cup T /\ p \in Nat
      /\ p # Freelist => p < e
      /\ \A b \in T : b < e => b <= p
  BY <1>2, <1>3, <1>5, LastBefore
<1>7. p < e /\ p # e
  BY <1>5, <1>6, Numbers
<1>8. Follows(T, p, h.next[p][i])
  BY <1>4, <1>6
<1> DEFINE y == h.next[p][i]
<1>9. Follows(T, p, y)
  BY <1>8
<1> HIDE DEF y
<1>10. /\ e \in T => y = e
       /\ e \notin T => y # e /\ Follows(T, e, y)
  BY <1>3, <1>6, <1>7, <1>9, BehindLast
<1> QED BY <1>3, <1>6, <1>7, <1>8, <1>10 DEF y, p, T

(* The places in front of e, one on each of its levels. *)
LEMMA BeforeIs ==
    ASSUME NEW h, NEW e, NEW i, NEW a, h.levels[e] \in Nat
    PROVE  <<a, i>> \in Before(h, e) <=> i \in 1 .. h.levels[e] /\ a = Prev(h, i, e)
BY DEF Before

(* Two fields of the heap change. *)
LEMMA HeapFields ==
    ASSUME NEW h \in HeapType, NEW n, NEW l
    PROVE  LET g == [h EXCEPT !.next = n, !.levels = l] IN
           g = [size |-> h.size, magic |-> h.magic, levels |-> l, next |-> n]
<1> DEFINE w == [h EXCEPT !.next = n]
<1>1. w = [size |-> h.size, magic |-> h.magic, levels |-> h.levels, next |-> n]
  BY DEF HeapType
<1>2. [h EXCEPT !.next = n, !.levels = l] = [w EXCEPT !.levels = l]
  OBVIOUS
<1> HIDE DEF w
<1>3. [w EXCEPT !.levels = l] = [size |-> h.size, magic |-> h.magic, levels |-> l, next |-> n]
  BY <1>1
<1> QED BY <1>2, <1>3

(* A list of one more block, or of one less, and its levels. *)
LEMMA Inserted ==
    ASSUME NEW h, NEW S, Listed(h, S), Apart(S), NEW e \in Addrs, e \notin S,
           h.levels[e] \in 1 .. kMaxLevel - 1
    PROVE  LET g == Insert(h, e) IN
           /\ g.size = h.size /\ g.magic = h.magic
           /\ \A a \in Addrs : g.levels[a] = h.levels[a]
           /\ Listed(g, S \cup {e})
<1> DEFINE L == h.levels[e]
           prev == Before(h, e)
           next == [a \in DOMAIN h.next |-> [i \in Levels |->
                   IF <<a, i>> \in prev THEN e
                   ELSE IF a # e \/ i > h.levels[e] THEN h.next[a][i]
                   ELSE LET p == CHOOSE q \in prev : q[2] = i IN h.next[p[1]][i]]]
           m == Max({h.levels[Freelist], L})
           g == Insert(h, e)
<1>1. /\ h \in HeapType /\ L \in 1 .. kMaxLevel - 1 /\ L \in Nat /\ kMaxLevel \in Nat
      /\ \A i \in 1 .. L : i \in Levels
      /\ h.levels \in [Addrs \cup {Freelist} -> 0 .. kMaxLevel - 1]
      /\ h.next \in [Addrs \cup {Freelist} -> [Levels -> Addrs \cup {Null}]]
  BY Numbers DEF Listed, HeapType, Levels
<1>2. g = [h EXCEPT !.next = next, !.levels[Freelist] = m]
  BY DEF Insert
<1>3. \A a, i : <<a, i>> \in prev <=> i \in 1 .. L /\ a = Prev(h, i, e)
  BY <1>1, BeforeIs
<1>4. \A q \in prev : \E i \in 1 .. L : q = <<Prev(h, i, e), i>>
  BY DEF Before
<1>5. \A i \in 1 .. L : (CHOOSE q \in prev : q[2] = i) = <<Prev(h, i, e), i>>
  <2> SUFFICES ASSUME NEW i \in 1 .. L
               PROVE  (CHOOSE q \in prev : q[2] = i) = <<Prev(h, i, e), i>>
    OBVIOUS
  <2>1. <<Prev(h, i, e), i>> \in prev
    BY <1>3
  <2>2. \A q \in prev : q[2] = i => q = <<Prev(h, i, e), i>>
    BY <1>4
  <2> HIDE DEF prev
  <2> QED BY <2>1, <2>2
<1> HIDE DEF prev, m
<1>8. ASSUME NEW a \in Addrs \cup {Freelist}, NEW i \in Levels
      PROVE  next[a][i] = IF i <= L /\ a = Prev(h, i, e) THEN e
                          ELSE IF a = e /\ i <= L THEN h.next[Prev(h, i, e)][i]
                          ELSE h.next[a][i]
  <2>0. i \in Nat \ {0}
    BY Numbers
  <2>1. next[a][i] = IF <<a, i>> \in prev THEN e
                     ELSE IF a # e \/ i > L THEN h.next[a][i]
                     ELSE h.next[(CHOOSE q \in prev : q[2] = i)[1]][i]
    BY <1>1
  <2> HIDE DEF next
  <2>3. <<a, i>> \in prev <=> i <= L /\ a = Prev(h, i, e)
    BY <1>1, <1>3, <2>0
  <2> DEFINE c == CHOOSE q \in prev : q[2] = i
  <2>4. i <= L => c = <<Prev(h, i, e), i>>
    BY <1>1, <1>5, <2>0
  <2>5. next[a][i] = IF <<a, i>> \in prev THEN e
                     ELSE IF a # e \/ i > L THEN h.next[a][i]
                     ELSE h.next[c[1]][i]
    BY <2>1
  <2> HIDE DEF c
  <2> QED BY <1>1, <2>0, <2>3, <2>4, <2>5
<1>9. next \in [Addrs \cup {Freelist} -> [Levels -> Addrs \cup {Null}]]
  <2>1. ASSUME NEW a \in Addrs \cup {Freelist}, NEW i \in Levels
        PROVE  next[a][i] \in Addrs \cup {Null}
    <3>1. Prev(h, i, e) \in Addrs \cup {Freelist}
      BY PrevIs
    <3> HIDE DEF next
    <3> QED BY <1>1, <1>8, <3>1
  <2>2. next = [a \in Addrs \cup {Freelist} |-> [i \in Levels |-> next[a][i]]]
    BY <1>1
  <2> HIDE DEF next
  <2> QED BY <2>1, <2>2
<1> HIDE DEF next
<1>10. /\ m \in 0 .. kMaxLevel - 1 /\ m >= h.levels[Freelist] /\ m >= L
       /\ m = h.levels[Freelist] \/ m = L
  <2>1. {h.levels[Freelist], L} \in SUBSET (0 .. kMaxLevel) /\ h.levels[Freelist] \in 0 .. kMaxLevel - 1
    BY <1>1
  <2>2. /\ m \in {h.levels[Freelist], L}
        /\ \A y \in {h.levels[Freelist], L} : y <= m
    BY <1>1, <2>1, MaxOf DEF m
  <2> QED BY <1>1, <2>1, <2>2
<1>11. /\ g = [size |-> h.size, magic |-> h.magic, levels |-> g.levels, next |-> next]
       /\ g.levels = [h.levels EXCEPT ![Freelist] = m]
       /\ g \in HeapType
  <2>1. /\ g = [h EXCEPT !.next = next, !.levels = [h.levels EXCEPT ![Freelist] = m]]
    BY <1>1, <1>2 DEF HeapType
  <2> DEFINE l == [h.levels EXCEPT ![Freelist] = m]
  <2>2. l \in [Addrs \cup {Freelist} -> 0 .. kMaxLevel - 1]
    BY <1>1, <1>10
  <2> HIDE DEF l, g
  <2>3. g = [size |-> h.size, magic |-> h.magic, levels |-> l, next |-> next]
    BY <1>1, <2>1, HeapFields DEF l
  <2>4. g \in HeapType
    BY <1>1, <1>9, <2>2, <2>3 DEF HeapType
  <2> QED BY <2>3, <2>4 DEF l
<1> HIDE DEF g
<1>12. \A a \in Addrs : g.levels[a] = h.levels[a]
  BY <1>1, <1>11, Numbers
<1>13. g.levels[Freelist] = m /\ g.next = next /\ g.size = h.size /\ g.magic = h.magic
  <2>1. g.next = next /\ g.size = h.size /\ g.magic = h.magic
    BY <1>11
  <2> QED BY <1>1, <1>11, <2>1
<1>14. S \subseteq Addrs /\ \A a \in S \cup {e} : a \in Addrs /\ g.levels[a] >= 1
  BY <1>1, <1>12 DEF Listed
<1>15. ASSUME NEW i \in Levels
       PROVE  /\ On(g, S \cup {e}, i) = On(h, S, i) \cup (IF i <= L THEN {e} ELSE {})
              /\ g.levels[Freelist] >= i <=> On(g, S \cup {e}, i) # {}
  <2>0. i \in Nat \ {0}
    BY Numbers
  <2>1. On(g, S \cup {e}, i) = On(h, S, i) \cup (IF i <= L THEN {e} ELSE {})
    BY <1>1, <1>12, <1>14, <2>0 DEF On
  <2>2. h.levels[Freelist] >= i <=> On(h, S, i) # {}
    BY DEF Listed
  <2>3. h.levels[Freelist] \in Nat /\ m \in Nat
    BY <1>1, <1>10
  <2>4. m >= i <=> h.levels[Freelist] >= i \/ i <= L
    BY <1>1, <1>10, <2>0, <2>3
  <2> QED BY <1>13, <2>1, <2>2, <2>4
<1>16. ASSUME NEW i \in Levels, NEW a \in {Freelist} \cup On(g, S \cup {e}, i)
       PROVE  Follows(On(g, S \cup {e}, i), a, g.next[a][i])
  <2> DEFINE T == On(h, S, i)
             p == Prev(h, i, e)
             y == next[a][i]
  <2>0. i \in Nat \ {0} /\ e \in Nat \ {0} /\ e # Null /\ Freelist = 0 /\ Null \notin Addrs
    BY Numbers
  <2>1. /\ p \in {Freelist} \cup T /\ p \in Nat /\ p < e /\ p # e
        /\ \A b \in T : b < e => b <= p
        /\ Follows(T, p, h.next[p][i])
        /\ e \notin T => h.next[p][i] # e /\ Follows(T, e, h.next[p][i])
    BY PrevIs
  <2>2. e \notin T /\ T \subseteq Addrs /\ T \in SUBSET Nat
    BY ListedTypes, Numbers DEF On
  <2>3. \A b \in {Freelist} \cup T : Follows(T, b, h.next[b][i])
    BY DEF Listed
  <2>4. On(g, S \cup {e}, i) = T \cup (IF i <= L THEN {e} ELSE {})
    BY <1>15
  <2>5. a \in Addrs \cup {Freelist}
    BY <1>14, <2>4, <2>2
  <2>6. y = IF i <= L /\ a = p THEN e
            ELSE IF a = e /\ i <= L THEN h.next[p][i]
            ELSE h.next[a][i]
    BY <1>8, <2>5
  <2> HIDE DEF T, p, y
  <2>7. CASE ~ (i <= L)
    BY <2>3, <2>4, <2>6, <2>7, <1>13 DEF y
  <2>8. CASE i <= L /\ a = p
    <3>1. y = e
      BY <2>6, <2>8
    <3>2. Follows(T \cup {e}, p, e)
      BY <2>0, <2>1, <2>2 DEF Follows
    <3> QED BY <1>13, <2>4, <2>8, <3>1, <3>2 DEF y
  <2>9. CASE i <= L /\ a = e
    <3>1. y = h.next[p][i]
      BY <2>1, <2>6, <2>9
    <3>2. Follows(T, e, y)
      BY <2>1, <2>2, <3>1
    <3>3. Follows(T \cup {e}, e, y)
      BY <2>0, <2>2, <3>2 DEF Follows
    <3> QED BY <1>13, <2>4, <2>9, <3>3 DEF y
  <2>10. CASE i <= L /\ a # e /\ a # p
    <3>1. y = h.next[a][i] /\ a \in {Freelist} \cup T
      BY <2>4, <2>6, <2>10
    <3>2. Follows(T, a, y)
      BY <2>3, <3>1
    <3>3. a < p \/ e < a
      BY <2>0, <2>1, <2>2, <2>10, <3>1
    <3>4. p \in T \/ p = Freelist
      BY <2>1
    <3>5. a \in Nat
      BY <2>0, <2>2, <3>1
    <3>6. Follows(T \cup {e}, a, y)
      <4>1. CASE e < a
        BY <2>0, <2>2, <3>2, <3>5, <4>1 DEF Follows
      <4>2. CASE a < p
        <5>1. p \in T
          BY <2>0, <3>4, <3>5, <4>2
        <5>2. y # Null /\ y \in T /\ a < y /\ y <= p
          BY <2>1, <2>2, <3>2, <3>5, <4>2, <5>1 DEF Follows
        <5> QED BY <2>0, <2>1, <2>2, <3>2, <3>5, <5>2 DEF Follows
      <4> QED BY <3>3, <4>1, <4>2
    <3> QED BY <1>13, <2>4, <2>10, <3>6 DEF y
  <2> QED BY <2>7, <2>8, <2>9, <2>10
<1>17. Listed(g, S \cup {e})
  BY <1>11, <1>14, <1>15, <1>16 DEF Listed
<1> QED BY <1>12, <1>13, <1>17 DEF g

(* LLA_SkiplistDelete: the list without the block, on each of its levels. *)
LEMMA Deleted ==
    ASSUME NEW h, NEW S, Listed(h, S), Apart(S), NEW e \in S
    PROVE  LET g == Delete(h, e) IN
           /\ g.size = h.size /\ g.magic = h.magic
           /\ \A a \in Addrs \ {e} : g.levels[a] = h.levels[a]
           /\ Listed(g, S \ {e})
<1> DEFINE L == h.levels[e]
           prev == {p \in Before(h, e) : h.next[p[1]][p[2]] = e}
           next == [a \in DOMAIN h.next |-> [i \in Levels |->
                   IF <<a, i>> \in prev THEN h.next[e][i]
                   ELSE IF a = e THEN Null ELSE h.next[a][i]]]
           used == {i \in 1 .. h.levels[Freelist] : next[Freelist][i] # Null}
           m == Max({0} \cup used)
           g == Delete(h, e)
           N == kMaxLevel - 1
<1>1. /\ h \in HeapType /\ L \in 1 .. N /\ L \in Nat /\ kMaxLevel \in Nat /\ e \in Addrs
      /\ \A i \in 1 .. L : i \in Levels
      /\ h.levels \in [Addrs \cup {Freelist} -> 0 .. N]
      /\ h.next \in [Addrs \cup {Freelist} -> [Levels -> Addrs \cup {Null}]]
      /\ N \in Nat /\ \A i \in 1 .. N : i \in Levels
  BY Numbers DEF Listed, HeapType, Levels
<1>2. g = [h EXCEPT !.next = next, !.levels[Freelist] = m, !.levels[e] = 0]
  BY DEF Delete, Unlinked
<1>3. ASSUME NEW i \in Levels
      PROVE  /\ e \in On(h, S, i) <=> i <= L
             /\ i <= L => h.next[Prev(h, i, e)][i] = e
  BY <1>1, PrevIs DEF On
<1>4. ASSUME NEW a, NEW i \in Levels
      PROVE  <<a, i>> \in prev <=> i <= L /\ a = Prev(h, i, e)
  <2>1. <<a, i>> \in prev <=> <<a, i>> \in Before(h, e) /\ h.next[a][i] = e
    BY <1>1
  <2>2. i \in 1 .. L <=> i <= L
    BY <1>1, Numbers
  <2> QED BY <1>1, <1>3, <2>1, <2>2, BeforeIs
<1> HIDE DEF prev
<1>5. ASSUME NEW a \in Addrs \cup {Freelist}, NEW i \in Levels
      PROVE  next[a][i] = IF i <= L /\ a = Prev(h, i, e) THEN h.next[e][i]
                          ELSE IF a = e THEN Null ELSE h.next[a][i]
  BY <1>1, <1>4
<1>6. next \in [Addrs \cup {Freelist} -> [Levels -> Addrs \cup {Null}]]
  <2>1. ASSUME NEW a \in Addrs \cup {Freelist}, NEW i \in Levels
        PROVE  next[a][i] \in Addrs \cup {Null}
    <3> HIDE DEF next
    <3> QED BY <1>1, <1>5
  <2>2. next = [a \in Addrs \cup {Freelist} |-> [i \in Levels |-> next[a][i]]]
    BY <1>1
  <2> HIDE DEF next
  <2> QED BY <2>1, <2>2
<1> HIDE DEF next
<1>7. ASSUME NEW i \in Levels, NEW a \in {Freelist} \cup (On(h, S, i) \ {e})
      PROVE  Follows(On(h, S, i) \ {e}, a, next[a][i])
  <2> DEFINE T == On(h, S, i)
             p == Prev(h, i, e)
             y == next[a][i]
             z == h.next[e][i]
  <2>0. i \in Nat \ {0} /\ e \in Nat \ {0} /\ e # Null /\ Freelist = 0 /\ Null \notin Addrs
    BY <1>1, Numbers
  <2>1. /\ p \in {Freelist} \cup T /\ p \in Nat /\ p < e /\ p # e
        /\ \A b \in T : b < e => b <= p
        /\ e \in T => h.next[p][i] = e
    BY <1>1, PrevIs
  <2>2. T \subseteq Addrs /\ T \in SUBSET Nat
    BY ListedTypes, Numbers DEF On
  <2>3. \A b \in {Freelist} \cup T : Follows(T, b, h.next[b][i])
    BY DEF Listed
  <2>4. e \in T <=> i <= L
    BY <1>3
  <2>5. a \in Addrs \cup {Freelist} /\ a # e /\ a \in {Freelist} \cup T
    BY <2>0, <2>2
  <2>6. y = IF i <= L /\ a = p THEN z ELSE h.next[a][i]
    BY <1>5, <2>5
  <2> HIDE DEF T, p, y
  <2>7. CASE ~ (i <= L)
    <3>1. T \ {e} = T
      BY <2>4, <2>7
    <3>2. Follows(T, a, h.next[a][i])
      BY <2>3, <2>5
    <3> QED BY <2>6, <2>7, <3>1, <3>2 DEF y, T
  <2>8. CASE i <= L /\ a = p
    <3>1. Follows(T, e, z) /\ y = z
      BY <2>3, <2>4, <2>6, <2>8
    <3> HIDE DEF z
    <3>2. Follows(T \ {e}, p, z)
      <4>1. \A b \in T : b \in Nat /\ (b < e => b <= p)
        BY <2>1, <2>2
      <4>2. CASE z = Null
        <5>1. \A b \in T \ {e} : b <= p
          BY <2>0, <3>1, <4>1, <4>2 DEF Follows
        <5> QED BY <4>2, <5>1 DEF Follows
      <4>3. CASE z # Null
        <5>1. z \in T /\ e < z /\ \A b \in T : b <= e \/ z <= b
          BY <3>1, <4>3 DEF Follows
        <5>2. z \in T \ {e} /\ p < z
          BY <2>0, <2>1, <4>1, <5>1
        <5>3. \A b \in T \ {e} : b <= p \/ z <= b
          BY <2>0, <4>1, <5>1
        <5> QED BY <4>3, <5>2, <5>3 DEF Follows
      <4> QED BY <4>2, <4>3
    <3> QED BY <2>8, <3>1, <3>2 DEF y, T
  <2>9. CASE i <= L /\ a # p
    <3>1. y = h.next[a][i] /\ Follows(T, a, y)
      BY <2>3, <2>5, <2>6, <2>9
    <3>2. y # e
      <4>1. SUFFICES ASSUME y = e
                     PROVE  FALSE
        OBVIOUS
      <4>2. a < e /\ \A b \in T : b <= a \/ e <= b
        BY <2>0, <3>1, <4>1 DEF Follows
      <4>3. a \in Nat /\ a <= p
        BY <2>0, <2>1, <2>2, <2>5, <4>2
      <4>4. p <= a
        BY <2>0, <2>1, <2>2, <4>2, <4>3
      <4> QED BY <2>1, <2>9, <4>3, <4>4
    <3>3. Follows(T \ {e}, a, y)
      BY <2>0, <2>2, <3>1, <3>2 DEF Follows
    <3> QED BY <3>3 DEF y, T
  <2> QED BY <2>7, <2>8, <2>9
<1>8. ASSUME NEW i \in Levels
      PROVE  /\ next[Freelist][i] # Null <=> On(h, S, i) \ {e} # {}
             /\ h.levels[Freelist] >= i <=> On(h, S, i) # {}
  <2>1. Follows(On(h, S, i) \ {e}, Freelist, next[Freelist][i])
    BY <1>7
  <2>2. \A b \in On(h, S, i) : ~ (b <= Freelist) /\ b # Null
    BY ListedTypes, Numbers DEF On
  <2>3. h.levels[Freelist] >= i <=> On(h, S, i) # {}
    BY DEF Listed
  <2> QED BY <2>1, <2>2, <2>3 DEF Follows
<1>9. /\ m \in 0 .. N /\ m \in Nat
      /\ \A i \in Levels : m >= i <=> On(h, S, i) \ {e} # {}
  <2>1. h.levels[Freelist] \in 0 .. N
    BY <1>1
  <2>2. {0} \cup used \in SUBSET (0 .. N) /\ {0} \cup used # {}
    BY <1>1, <2>1
  <2>3. m \in {0} \cup used /\ \A y \in {0} \cup used : y <= m
    BY <1>1, <2>2, MaxOf
  <2>4. \A i \in Levels : On(h, S, i) \ {e} # {} => i \in used
    <3> SUFFICES ASSUME NEW i \in Levels, On(h, S, i) \ {e} # {}
                 PROVE  i \in used
      OBVIOUS
    <3>1. h.levels[Freelist] >= i /\ next[Freelist][i] # Null
      BY <1>8
    <3>2. i \in 1 .. h.levels[Freelist]
      BY <2>1, <3>1, Numbers
    <3> QED BY <3>1, <3>2
  <2>5. m # 0 => m \in Levels /\ On(h, S, m) \ {e} # {}
    <3>1. m # 0 => m \in 1 .. N /\ m \in used
      BY <1>1, <2>1, <2>3
    <3> HIDE DEF m
    <3> QED BY <1>1, <1>8, <3>1
  <2> HIDE DEF m, used
  <2>6. m \in 0 .. N /\ m \in Nat
    BY <2>2, <2>3
  <2>7. ASSUME NEW i \in Levels, On(h, S, i) \ {e} # {}
        PROVE  m >= i
    BY <1>1, <2>1, <2>2, <2>3, <2>4, <2>6, <2>7, Numbers
  <2>8. ASSUME NEW i \in Levels, m >= i
        PROVE  On(h, S, i) \ {e} # {}
    <3>1. m # 0 /\ i \in Nat \ {0}
      BY <2>6, <2>8, Numbers
    <3>2. PICK b \in On(h, S, m) : b # e
      BY <2>5, <3>1
    <3>3. b \in S /\ h.levels[b] >= m /\ h.levels[b] \in Nat
      BY <1>1, <3>2 DEF On, Listed
    <3>4. b \in On(h, S, i)
      BY <2>6, <2>8, <3>1, <3>3 DEF On
    <3> QED BY <3>2, <3>4
  <2> QED BY <2>6, <2>7, <2>8
<1> HIDE DEF m
<1>10. /\ g = [size |-> h.size, magic |-> h.magic, levels |-> g.levels, next |-> next]
       /\ g.levels = [h.levels EXCEPT ![Freelist] = m, ![e] = 0]
       /\ g \in HeapType
  <2> DEFINE l == [h.levels EXCEPT ![Freelist] = m, ![e] = 0]
             v == [h.levels EXCEPT ![Freelist] = m]
             w == [h EXCEPT !.next = next]
  <2>1. w = [size |-> h.size, magic |-> h.magic, levels |-> h.levels, next |-> next]
    BY <1>1 DEF HeapType
  <2>2. g = [[w EXCEPT !.levels[Freelist] = m] EXCEPT !.levels[e] = 0]
    BY <1>2
  <2> HIDE DEF w
  <2>3. [w EXCEPT !.levels[Freelist] = m]
          = [size |-> h.size, magic |-> h.magic, levels |-> v, next |-> next]
    BY <2>1
  <2>4. [[w EXCEPT !.levels[Freelist] = m] EXCEPT !.levels[e] = 0]
          = [size |-> h.size, magic |-> h.magic, levels |-> [v EXCEPT ![e] = 0], next |-> next]
    <3> DEFINE u == [w EXCEPT !.levels[Freelist] = m]
    <3>1. u = [size |-> h.size, magic |-> h.magic, levels |-> v, next |-> next]
      BY <2>3
    <3> HIDE DEF u, v
    <3>2. [u EXCEPT !.levels[e] = 0]
            = [size |-> h.size, magic |-> h.magic, levels |-> [v EXCEPT ![e] = 0], next |-> next]
      BY <3>1
    <3> QED BY <3>2 DEF u
  <2>5. l = [v EXCEPT ![e] = 0]
    OBVIOUS
  <2>6. [v EXCEPT ![e] = 0] \in [Addrs \cup {Freelist} -> 0 .. N]
    BY <1>1, <1>9
  <2> HIDE DEF l, g
  <2>7. g = [size |-> h.size, magic |-> h.magic, levels |-> l, next |-> next]
    BY <2>2, <2>4, <2>5
  <2>8. g \in HeapType
    BY <1>1, <1>6, <2>5, <2>6, <2>7 DEF HeapType
  <2> QED BY <2>7, <2>8 DEF l
<1> HIDE DEF g
<1>11. /\ \A a \in Addrs \ {e} : g.levels[a] = h.levels[a]
       /\ g.levels[Freelist] = m
  <2>1. Freelist \notin Addrs
    BY Numbers
  <2>2. g.levels = [[h.levels EXCEPT ![Freelist] = m] EXCEPT ![e] = 0]
    BY <1>10
  <2> QED BY <1>1, <2>1, <2>2
<1>12. g.next = next /\ g.size = h.size /\ g.magic = h.magic
  BY <1>10
<1>13. S \ {e} \subseteq Addrs /\ \A a \in S \ {e} : a \in Addrs \ {e} /\ g.levels[a] >= 1
  BY <1>1, <1>11 DEF Listed
<1>14. \A i \in Levels : On(g, S \ {e}, i) = On(h, S, i) \ {e}
  BY <1>11, <1>13 DEF On
<1>15. \A i \in Levels : g.levels[Freelist] >= i <=> On(g, S \ {e}, i) # {}
  BY <1>9, <1>11, <1>14
<1>16. ASSUME NEW i \in Levels, NEW a \in {Freelist} \cup On(g, S \ {e}, i)
       PROVE  Follows(On(g, S \ {e}, i), a, g.next[a][i])
  BY <1>7, <1>12, <1>14
<1>17. Listed(g, S \ {e})
  BY <1>10, <1>13, <1>15, <1>16 DEF Listed
<1> QED BY <1>11, <1>12, <1>17 DEF g

-----------------------------------------------------------------------------
(* Blocks                                                                  *)

(* The blocks of B lie side by side, each large enough for its pointers.   *)
Tiled(h, B) ==
    /\ B \subseteq Addrs
    /\ \A a \in B : h.size[a] >= MinSize
    /\ \A a, b \in B : a < b => a + h.size[a] <= b

Cover(h, B) == UNION {a .. a + h.size[a] - 1 : a \in B}

(* S is the free list among the blocks B; its blocks have the levels their *)
(* sizes must have at least.                                               *)
Orderly(h, S, B) ==
    /\ Listed(h, S) /\ S \subseteq B /\ Tiled(h, B)
    /\ \A a \in S : FewestLevels(h.size[a]) <= h.levels[a]

NoTouch(h, S) == \A a, b \in S : a + h.size[a] # b

(* The types of a list among its blocks. *)
LEMMA OrderlyTypes ==
    ASSUME NEW h, NEW S, NEW B, Orderly(h, S, B)
    PROVE  /\ h \in HeapType /\ B \subseteq Addrs /\ S \subseteq B
           /\ \A a \in B : a \in Nat \ {0} /\ h.size[a] \in Nat /\ h.size[a] >= 2
           /\ Apart(S)
<1>1. h \in HeapType /\ B \subseteq Addrs /\ S \subseteq B
  BY DEF Orderly, Listed, Tiled
<1>2. \A a \in B : a \in Nat \ {0} /\ h.size[a] \in Nat /\ h.size[a] >= 2
  BY <1>1, Numbers DEF HeapType, Orderly, Tiled, MinSize
<1>3. ASSUME NEW a \in S, NEW b \in S, a < b
      PROVE  a + MinSize <= b
  <2>1. a + h.size[a] <= b
    BY <1>1, <1>3 DEF Orderly, Tiled
  <2> QED BY <1>1, <1>2, <2>1 DEF MinSize
<1> QED BY <1>1, <1>2, <1>3 DEF Apart

(* Sizes and magic numbers do not matter to the list, nor the levels of a  *)
(* block that is not in it.                                                *)
LEMMA SameList ==
    ASSUME NEW h, NEW S, Listed(h, S), NEW g \in HeapType, g.next = h.next,
           \A a \in S \cup {Freelist} : g.levels[a] = h.levels[a]
    PROVE  Listed(g, S)
<1>1. \A i \in Levels : On(g, S, i) = On(h, S, i)
  BY DEF On
<1> QED BY <1>1 DEF Listed

(* Every block of the list has the lowest level. *)
LEMMA AllOnOne ==
    ASSUME NEW h, NEW S, Listed(h, S)
    PROVE  On(h, S, 1) = S
BY DEF On, Listed

(* The fields after Coalesce has added up the sizes. *)
LEMMA MergeFields ==
    ASSUME NEW h \in HeapType, NEW a \in Addrs, NEW n \in Addrs, NEW s \in Nat
    PROVE  LET g == [h EXCEPT !.size[a] = s, !.size[n] = 0, !.magic[n] = "none"] IN
           /\ g = [size   |-> [h.size EXCEPT ![a] = s, ![n] = 0],
                   magic  |-> [h.magic EXCEPT ![n] = "none"],
                   levels |-> h.levels, next |-> h.next]
           /\ g \in HeapType
<1> DEFINE u == [h EXCEPT !.size[a] = s]
           v == [u EXCEPT !.size[n] = 0]
           g == [h EXCEPT !.size[a] = s, !.size[n] = 0, !.magic[n] = "none"]
           x == [h.size EXCEPT ![a] = s]
           y == [x EXCEPT ![n] = 0]
           z == [h.magic EXCEPT ![n] = "none"]
<1>0. h = [size |-> h.size, magic |-> h.magic, levels |-> h.levels, next |-> h.next]
  BY DEF HeapType
<1>1. u = [size |-> x, magic |-> h.magic, levels |-> h.levels, next |-> h.next]
  <2> HIDE DEF x
  <2>1. u = [h EXCEPT !.size = x]
    BY DEF x
  <2> QED BY <1>0, <2>1
<1>2. /\ x \in [Addrs -> Nat] /\ y \in [Addrs -> Nat]
      /\ z \in [Addrs -> {"none", "allocated", "unallocated"}]
  BY DEF HeapType
<1>3. g = [v EXCEPT !.magic[n] = "none"]
  OBVIOUS
<1>4. y = [h.size EXCEPT ![a] = s, ![n] = 0]
  OBVIOUS
<1> HIDE DEF u, x, g
<1>5. v = [size |-> y, magic |-> h.magic, levels |-> h.levels, next |-> h.next]
  BY <1>1
<1> HIDE DEF v, y
<1>6. g = [size |-> y, magic |-> z, levels |-> h.levels, next |-> h.next]
  BY <1>3, <1>5
<1> HIDE DEF z
<1>7. g \in HeapType
  BY <1>2, <1>6 DEF HeapType
<1> QED BY <1>4, <1>6, <1>7 DEF g, z

(* The levels of one block change. *)
LEMMA SetLevel ==
    ASSUME NEW h \in HeapType, NEW a \in Addrs, NEW l \in 0 .. kMaxLevel - 1
    PROVE  LET g == [h EXCEPT !.levels[a] = l] IN
           /\ g = [size |-> h.size, magic |-> h.magic,
                   levels |-> [h.levels EXCEPT ![a] = l], next |-> h.next]
           /\ g \in HeapType
<1> DEFINE g == [h EXCEPT !.levels[a] = l]
           x == [h.levels EXCEPT ![a] = l]
<1>1. g = [size |-> h.size, magic |-> h.magic, levels |-> x, next |-> h.next]
  BY SMTT(40) DEF HeapType
<1>2. x \in [Addrs \cup {Freelist} -> 0 .. kMaxLevel - 1]
  BY DEF HeapType
<1> HIDE DEF x, g
<1>3. g \in HeapType
  BY <1>1, <1>2 DEF HeapType
<1> QED BY <1>1, <1>3 DEF x, g

(* Coalesce leaves the heap, or merges a with the next block n of the list. *)
MergesNext(k, h, S, a, n) ==
    /\ n = Null \/ n \in S
    /\ Follows(S, a, n)
    /\ n = Null \/ a + h.size[a] # n => k = h
    /\ n # Null /\ a + h.size[a] = n =>
         /\ Listed(k, S \ {n})
         /\ k.size[a] = h.size[a] + h.size[n]
         /\ \A b \in Addrs \ {a, n} : k.size[b] = h.size[b]
         /\ \A b \in Addrs : k.magic[b] = IF b = n THEN "none" ELSE h.magic[b]
         /\ \A b \in S \ {a, n} : k.levels[b] = h.levels[b]
         /\ FewestLevels(k.size[a]) <= k.levels[a]

(* Coalesce, by its cases: both blocks leave the list, the larger returns. *)
LEMMA CoalesceIs ==
    ASSUME NEW h, NEW S, NEW B, Orderly(h, S, B), NEW a \in S, NEW k \in Coalesce(h, a)
    PROVE  MergesNext(k, h, S, a, h.next[a][1])
<1> DEFINE n == h.next[a][1]
           s == h.size[a] + h.size[n]
           m == [h EXCEPT !.size[a] = s, !.size[n] = 0, !.magic[n] = "none"]
           d == Delete(m, n)
           g == Delete(d, a)
<1>1. /\ h \in HeapType /\ Listed(h, S) /\ S \subseteq Addrs /\ Apart(S) /\ a \in Addrs
      /\ \A b \in S : b \in Nat \ {0} /\ h.size[b] \in Nat /\ h.size[b] >= 2
      /\ S \in SUBSET Nat
  <2>1. Listed(h, S)
    BY DEF Orderly
  <2> QED BY <2>1, OrderlyTypes
<1>2. Follows(S, a, n)
  <2>1. 1 \in Levels /\ a \in {Freelist} \cup On(h, S, 1)
    BY <1>1, Numbers, AllOnOne
  <2> QED BY <1>1, <2>1, AllOnOne DEF Listed
<1>3. n = Null \/ n \in S
  BY <1>2 DEF Follows
<1>4. a # Freelist
  BY <1>1, Numbers
<1>5. k \in IF n = Null \/ a = Freelist \/ a + h.size[a] # n THEN {h}
            ELSE {Insert([g EXCEPT !.levels[a] = l], a) : l \in SkiplistLevels(g.size[a])}
  <2>1. m = [h EXCEPT !.size[a] = @ + h.size[n], !.size[n] = 0, !.magic[n] = "none"]
    OBVIOUS
  <2> QED BY <2>1 DEF Coalesce
<1> HIDE DEF m, d, g, n
<1>6. CASE n = Null \/ a + h.size[a] # n
  BY <1>2, <1>3, <1>5, <1>6 DEF n, MergesNext
<1>7. CASE n # Null /\ a + h.size[a] = n
  <2>1. PICK l \in SkiplistLevels(g.size[a]) : k = Insert([g EXCEPT !.levels[a] = l], a)
    BY <1>4, <1>5, <1>7
  <2>2. n \in S /\ n \in Addrs /\ a # n /\ s \in Nat /\ s >= 4
    BY <1>1, <1>3, <1>7
  <2>3. /\ m = [size   |-> [h.size EXCEPT ![a] = s, ![n] = 0],
                magic  |-> [h.magic EXCEPT ![n] = "none"],
                levels |-> h.levels, next |-> h.next]
        /\ m \in HeapType
    <3> HIDE DEF s
    <3> QED BY <1>1, <2>2, MergeFields DEF m
  <2>4. m.size = [h.size EXCEPT ![a] = s, ![n] = 0] /\ m.magic = [h.magic EXCEPT ![n] = "none"]
        /\ m.levels = h.levels /\ m.next = h.next
    BY <2>3
  <2>5. Listed(m, S)
    BY <1>1, <2>3, <2>4, SameList
  <2>6. /\ d.size = m.size /\ d.magic = m.magic /\ Listed(d, S \ {n})
        /\ \A b \in Addrs \ {n} : d.levels[b] = m.levels[b]
    BY <1>1, <2>2, <2>5, Deleted, ZenonT(40) DEF d
  <2>7. Apart(S \ {n}) /\ Apart(S \ {n, a}) /\ a \in S \ {n} /\ (S \ {n}) \ {a} = S \ {n, a}
    BY <1>1, <2>2 DEF Apart
  <2>8. /\ g.size = d.size /\ g.magic = d.magic /\ Listed(g, S \ {n, a})
        /\ \A b \in Addrs \ {a} : g.levels[b] = d.levels[b]
    <3> DEFINE T == S \ {n}
    <3>1. Listed(d, T) /\ Apart(T) /\ a \in T /\ T \ {a} = S \ {n, a}
      BY <2>6, <2>7
    <3> HIDE DEF T
    <3>2. LET c == Delete(d, a) IN
          /\ c.size = d.size /\ c.magic = d.magic
          /\ \A b \in Addrs \ {a} : c.levels[b] = d.levels[b]
          /\ Listed(c, T \ {a})
      BY <3>1, Deleted
    <3> QED BY <3>1, <3>2 DEF g
  <2>9. g.size[a] = s
    BY <1>1, <2>2, <2>4, <2>6, <2>8 DEF HeapType
  <2>10. l \in 1 .. kMaxLevel - 1 /\ FewestLevels(s) <= l /\ l \in 0 .. kMaxLevel - 1
    <3>1. s >= MinSize
      BY <2>2 DEF MinSize
    <3> HIDE DEF s
    <3>2. l \in 1 .. kMaxLevel - 1 /\ FewestLevels(s) <= l
      BY <2>1, <2>2, <2>9, <3>1, LevelsOf
    <3> QED BY <3>2, Numbers
  <2> DEFINE e == [g EXCEPT !.levels[a] = l]
  <2>11. /\ e = [size |-> g.size, magic |-> g.magic,
                 levels |-> [g.levels EXCEPT ![a] = l], next |-> g.next]
         /\ e \in HeapType /\ g \in HeapType
    BY <1>1, <2>8, <2>10, SetLevel DEF Listed
  <2> HIDE DEF e
  <2>12. /\ e.size = g.size /\ e.magic = g.magic /\ e.next = g.next
         /\ e.levels = [g.levels EXCEPT ![a] = l]
    BY <2>11
  <2>13. /\ e.levels[a] = l
         /\ \A b \in (Addrs \cup {Freelist}) \ {a} : e.levels[b] = g.levels[b]
    BY <1>1, <2>11, <2>12 DEF HeapType
  <2>14. Listed(e, S \ {n, a})
    <3> DEFINE T == S \ {n, a}
    <3>1. \A b \in T \cup {Freelist} : e.levels[b] = g.levels[b]
      BY <1>1, <1>4, <2>13
    <3>2. Listed(g, T) /\ e \in HeapType /\ e.next = g.next
      BY <2>8, <2>11, <2>12
    <3> HIDE DEF T
    <3>3. Listed(e, T)
      BY <3>1, <3>2, SameList
    <3> QED BY <3>3 DEF T
  <2>15. /\ k.size = e.size /\ k.magic = e.magic
         /\ \A b \in Addrs : k.levels[b] = e.levels[b]
         /\ Listed(k, (S \ {n, a}) \cup {a})
    <3> DEFINE T == S \ {n, a}
    <3>1. k = Insert(e, a) /\ e.levels[a] \in 1 .. kMaxLevel - 1
      BY <2>1, <2>10, <2>13 DEF e
    <3>2. a \notin T /\ Apart(T) /\ Listed(e, T)
      BY <2>7, <2>14
    <3> HIDE DEF T
    <3>3. /\ k.size = e.size /\ k.magic = e.magic
          /\ \A b \in Addrs : k.levels[b] = e.levels[b]
          /\ Listed(k, T \cup {a})
      BY <1>1, <3>1, <3>2, Inserted
    <3> QED BY <3>3 DEF T
  <2>16. (S \ {n, a}) \cup {a} = S \ {n}
    BY <2>2
  <2>17. \A b \in S \ {a, n} : k.levels[b] = h.levels[b]
    <3> SUFFICES ASSUME NEW b \in S \ {a, n}
                 PROVE  k.levels[b] = h.levels[b]
      OBVIOUS
    <3>1. b \in Addrs /\ b # a /\ b # n
      BY <1>1
    <3>2. d.levels[b] = h.levels[b]
      BY <2>4, <2>6, <3>1
    <3>3. g.levels[b] = d.levels[b]
      BY <2>8, <3>1
    <3>4. e.levels[b] = g.levels[b] /\ k.levels[b] = e.levels[b]
      BY <2>13, <2>15, <3>1
    <3> QED BY <3>2, <3>3, <3>4
  <2>18. FewestLevels(k.size[a]) <= k.levels[a]
    BY <1>1, <2>9, <2>10, <2>12, <2>13, <2>15
  <2>19. /\ k.size[a] = s /\ \A b \in Addrs \ {a, n} : k.size[b] = h.size[b]
         /\ \A b \in Addrs : k.magic[b] = IF b = n THEN "none" ELSE h.magic[b]
    <3>1. /\ k.size = [h.size EXCEPT ![a] = s, ![n] = 0]
          /\ k.magic = [h.magic EXCEPT ![n] = "none"]
      BY <2>4, <2>6, <2>8, <2>12, <2>15
    <3> QED BY <1>1, <2>2, <3>1 DEF HeapType
  <2>20. Listed(k, S \ {n})
    BY <2>15, <2>16
  <2> QED BY <1>2, <1>3, <1>7, <2>17, <2>18, <2>19, <2>20 DEF n, MergesNext
<1> QED BY <1>6, <1>7

(* Of the two neighbours that touch one is left, as large as both.         *)
LEMMA MergedTiles ==
    ASSUME NEW h, NEW B, Tiled(h, B), h.size \in [Addrs -> Nat], NEW a \in B, NEW n \in B,
           a + h.size[a] = n,
           NEW k, k.size[a] = h.size[a] + h.size[n],
           \A b \in Addrs \ {a, n} : k.size[b] = h.size[b]
    PROVE  /\ a < n /\ a \in B \ {n}
           /\ Tiled(k, B \ {n})
           /\ Cover(k, B \ {n}) = Cover(h, B)
<1>1. /\ B \subseteq Addrs /\ Addrs \subseteq Nat \ {0}
      /\ \A b \in Addrs : h.size[b] \in Nat
      /\ \A b \in B : h.size[b] >= 2
      /\ \A b, c \in B : b < c => b + h.size[b] <= c
  BY Numbers DEF Tiled, MinSize
<1>2. a < n /\ a # n /\ a \in Nat /\ n \in Nat
  BY <1>1
<1>3. /\ k.size[a] = h.size[a] + h.size[n]
      /\ \A b \in Addrs \ {a, n} : k.size[b] = h.size[b]
  BY <1>1, <1>2
<1>4. ASSUME NEW b \in B \ {n}
      PROVE  k.size[b] >= MinSize
  BY <1>1, <1>3 DEF MinSize
<1>5. ASSUME NEW b \in B \ {n}, NEW c \in B \ {n}, b < c
      PROVE  b + k.size[b] <= c
  <2>1. b \in Nat /\ c \in Nat /\ h.size[b] \in Nat /\ h.size[n] \in Nat
    BY <1>1
  <2>2. CASE b = a
    <3>1. n <= c /\ n # c
      BY <1>1, <1>5, <2>2
    <3>2. n + h.size[n] <= c
      BY <1>1, <1>2, <2>1, <3>1
    <3> QED BY <1>1, <1>2, <1>3, <2>1, <2>2, <3>2
  <2>3. CASE b # a
    BY <1>1, <1>3, <1>5, <2>1, <2>3
  <2> QED BY <2>2, <2>3
<1>6. Tiled(k, B \ {n})
  BY <1>1, <1>4, <1>5 DEF Tiled
<1>7. Cover(k, B \ {n}) \subseteq Cover(h, B)
  <2>1. SUFFICES ASSUME NEW z \in Cover(k, B \ {n})
                 PROVE  z \in Cover(h, B)
    OBVIOUS
  <2>2. PICK b \in B \ {n} : z \in b .. b + k.size[b] - 1
    BY DEF Cover
  <2>3. CASE b # a
    <3>1. k.size[b] = h.size[b]
      BY <1>1, <1>3, <2>3
    <3> QED BY <2>2, <3>1 DEF Cover
  <2>4. CASE b = a
    <3>1. z \in a .. a + h.size[a] - 1 \/ z \in n .. n + h.size[n] - 1
      BY <1>1, <1>2, <1>3, <2>2, <2>4
    <3> QED BY <3>1 DEF Cover
  <2> QED BY <2>3, <2>4
<1>8. Cover(h, B) \subseteq Cover(k, B \ {n})
  <2>1. SUFFICES ASSUME NEW z \in Cover(h, B)
                 PROVE  z \in Cover(k, B \ {n})
    OBVIOUS
  <2>2. PICK b \in B : z \in b .. b + h.size[b] - 1
    BY DEF Cover
  <2>3. CASE b # a /\ b # n
    <3>1. k.size[b] = h.size[b]
      BY <1>1, <1>3, <2>3
    <3> QED BY <2>2, <2>3, <3>1 DEF Cover
  <2>4. CASE b = a \/ b = n
    <3>1. z \in a .. a + k.size[a] - 1
      BY <1>1, <1>2, <1>3, <2>2, <2>4
    <3> QED BY <1>2, <3>1 DEF Cover
  <2> QED BY <2>3, <2>4
<1> QED BY <1>2, <1>3, <1>6, <1>7, <1>8

(* What Coalesce does to the list S among the blocks B: at most one block D *)
(* goes, behind the block a it is part of afterwards, and of the pairs that *)
(* touch only that of a may be gone or have moved.                          *)
Joined(k, h, S, B, a, D) ==
    /\ D \subseteq S /\ \A d \in D : a < d
    /\ Orderly(k, S \ D, B \ D) /\ Cover(k, B \ D) = Cover(h, B)
    /\ \A b \in Addrs : k.magic[b] = IF b \in D THEN "none" ELSE h.magic[b]
    /\ \A b \in B \ S : k.size[b] = h.size[b]
    /\ \A x, y \in S \ D : x + k.size[x] = y =>
          \/ x # a /\ x + h.size[x] = y
          \/ x = a /\ \E n \in S : a + h.size[a] = n /\ n + h.size[n] = y
    /\ \A x \in S : \E y \in S \ D : y <= x /\ x + h.size[x] <= y + k.size[y]

(* Coalesce where nothing touches. *)
LEMMA Unchanged ==
    ASSUME NEW h, NEW S, NEW B, Orderly(h, S, B), NEW a,
           \A y \in S : a \in S => a + h.size[a] # y
    PROVE  Joined(h, h, S, B, a, {})
<1>1. /\ \A b \in S : b \in Nat /\ h.size[b] \in Nat
      /\ S \ {} = S /\ B \ {} = B
  BY OrderlyTypes
<1> QED BY <1>1 DEF Joined

(* Every outcome of Coalesce is one of these. *)
LEMMA Coalesced ==
    ASSUME NEW h, NEW S, NEW B, Orderly(h, S, B), NEW a \in S \cup {Freelist},
           NEW k \in Coalesce(h, a)
    PROVE  \E D \in SUBSET S : Joined(k, h, S, B, a, D)
<1>1. /\ h \in HeapType /\ B \subseteq Addrs /\ S \subseteq B /\ Tiled(h, B) /\ Listed(h, S)
      /\ h.size \in [Addrs -> Nat]
      /\ \A b \in B : b \in Nat \ {0} /\ h.size[b] \in Nat /\ h.size[b] >= 2
      /\ Freelist \notin S /\ Null \notin S
  <2>1. Tiled(h, B) /\ Listed(h, S)
    BY DEF Orderly
  <2>2. h \in HeapType /\ B \subseteq Addrs /\ S \subseteq B
        /\ \A b \in B : b \in Nat \ {0} /\ h.size[b] \in Nat /\ h.size[b] >= 2
    BY OrderlyTypes
  <2> QED BY <2>1, <2>2, Numbers DEF HeapType
<1>2. CASE a = Freelist
  <2>1. k = h
    BY <1>2 DEF Coalesce
  <2> QED BY <1>1, <1>2, <2>1, Unchanged
<1>3. CASE a \in S
  <2> DEFINE n == h.next[a][1]
  <2>1. MergesNext(k, h, S, a, n)
    BY <1>3, CoalesceIs
  <2> HIDE DEF n
  <2>2. CASE n = Null \/ a + h.size[a] # n
    <3>1. ASSUME NEW y \in S, a + h.size[a] = y
          PROVE  FALSE
      <4>1. a < y /\ a \in Nat /\ y \in Nat
        BY <1>1, <1>3, <3>1
      <4>2. n # Null /\ n \in S /\ a < n /\ n <= y
        BY <2>1, <4>1 DEF Follows, MergesNext
      <4>3. a + h.size[a] <= n
        BY <1>1, <1>3, <4>2 DEF Tiled
      <4>4. n \in Nat /\ h.size[a] \in Nat
        BY <1>1, <1>3, <4>2
      <4>5. n = y
        BY <3>1, <4>1, <4>2, <4>3, <4>4
      <4> QED BY <2>2, <3>1, <4>2, <4>5
    <3> QED BY <2>1, <2>2, <3>1, Unchanged DEF MergesNext
  <2>3. CASE n # Null /\ a + h.size[a] = n
    <3>1. /\ n \in S /\ Listed(k, S \ {n})
          /\ k.size[a] = h.size[a] + h.size[n]
          /\ \A b \in Addrs \ {a, n} : k.size[b] = h.size[b]
          /\ \A b \in Addrs : k.magic[b] = IF b = n THEN "none" ELSE h.magic[b]
          /\ \A b \in S \ {a, n} : k.levels[b] = h.levels[b]
          /\ FewestLevels(k.size[a]) <= k.levels[a]
          /\ a \in B /\ n \in B /\ a \in Addrs /\ n \in Addrs
      BY <1>1, <1>3, <2>1, <2>3 DEF MergesNext
    <3>2. /\ a < n /\ a \in B \ {n}
          /\ Tiled(k, B \ {n})
          /\ Cover(k, B \ {n}) = Cover(h, B)
      <4>1. /\ Tiled(h, B) /\ h.size \in [Addrs -> Nat] /\ a \in B /\ n \in B
            /\ a + h.size[a] = n
            /\ k.size[a] = h.size[a] + h.size[n]
            /\ \A b \in Addrs \ {a, n} : k.size[b] = h.size[b]
        BY <1>1, <2>3, <3>1
      <4> QED BY <4>1, MergedTiles
    <3>3. Orderly(k, S \ {n}, B \ {n})
      <4>1. \A b \in S \ {n} : FewestLevels(k.size[b]) <= k.levels[b]
        BY <1>1, <3>1, <3>2 DEF Orderly
      <4> QED BY <1>1, <3>1, <3>2, <4>1 DEF Orderly
    <3>4. \A b \in Addrs : k.magic[b] = IF b \in {n} THEN "none" ELSE h.magic[b]
      BY <1>1, <3>1 DEF HeapType
    <3>5. \A b \in B \ S : k.size[b] = h.size[b]
      BY <1>1, <1>3, <3>1, <3>2
    <3>6. ASSUME NEW x \in S \ {n}, NEW y \in S \ {n}, x + k.size[x] = y
          PROVE  \/ x # a /\ x + h.size[x] = y
                 \/ x = a /\ \E c \in S : a + h.size[a] = c /\ c + h.size[c] = y
      BY <1>1, <2>3, <3>1, <3>2, <3>6
    <3>7. ASSUME NEW x \in S
          PROVE  \E y \in S \ {n} : y <= x /\ x + h.size[x] <= y + k.size[y]
      <4>1. CASE x = a \/ x = n
        <5>1. a <= x /\ x + h.size[x] <= a + k.size[a] /\ a \in S \ {n}
          BY <1>1, <1>3, <2>3, <3>1, <3>2, <4>1
        <5> QED BY <5>1
      <4>2. CASE x # a /\ x # n
        <5>1. x <= x /\ x + h.size[x] <= x + k.size[x] /\ x \in S \ {n}
          BY <1>1, <3>1, <3>2, <4>2
        <5> QED BY <5>1
      <4> QED BY <4>1, <4>2
    <3>8. {n} \subseteq S /\ \A d \in {n} : a < d
      BY <3>1, <3>2
    <3>9. Joined(k, h, S, B, a, {n})
      BY <3>2, <3>3, <3>4, <3>5, <3>6, <3>7, <3>8 DEF Joined
    <3> QED BY <3>8, <3>9
  <2> QED BY <2>2, <2>3
<1> QED BY <1>2, <1>3

(* The block f joins the free list S among the blocks B; D are the blocks  *)
(* that are part of another one afterwards.                                *)
Freed(k, h, S, B, f, D) ==
    /\ D \subseteq S \cup {f}
    /\ Orderly(k, (S \cup {f}) \ D, B \ D)
    /\ NoTouch(k, (S \cup {f}) \ D)
    /\ Cover(k, B \ D) = Cover(h, B)
    /\ \A b \in Addrs : k.magic[b] = IF b \in D THEN "none"
                                     ELSE IF b = f THEN "unallocated" ELSE h.magic[b]
    /\ \A b \in B \ (S \cup {f}) : k.size[b] = h.size[b]
    /\ \E y \in (S \cup {f}) \ D : y <= f /\ f + h.size[f] <= y + k.size[y]

(* The fields of a block that is about to be free. *)
LEMMA MarkFields ==
    ASSUME NEW h \in HeapType, NEW f \in Addrs, NEW l \in 0 .. kMaxLevel - 1
    PROVE  LET g == [h EXCEPT !.levels[f] = l, !.magic[f] = "unallocated"] IN
           /\ g \in HeapType /\ g.size = h.size /\ g.next = h.next
           /\ g.levels = [h.levels EXCEPT ![f] = l]
           /\ g.magic = [h.magic EXCEPT ![f] = "unallocated"]
<1> DEFINE u == [h EXCEPT !.levels[f] = l]
           g == [h EXCEPT !.levels[f] = l, !.magic[f] = "unallocated"]
           x == [h.levels EXCEPT ![f] = l]
           z == [h.magic EXCEPT ![f] = "unallocated"]
<1>1. u = [size |-> h.size, magic |-> h.magic, levels |-> x, next |-> h.next]
  BY SetLevel
<1>2. /\ x \in [Addrs \cup {Freelist} -> 0 .. kMaxLevel - 1]
      /\ z \in [Addrs -> {"none", "allocated", "unallocated"}]
  BY DEF HeapType
<1>3. g = [u EXCEPT !.magic[f] = "unallocated"]
  OBVIOUS
<1> HIDE DEF u, x, g
<1>4. g = [size |-> h.size, magic |-> z, levels |-> x, next |-> h.next]
  BY <1>1, <1>3
<1> HIDE DEF z
<1>5. g \in HeapType
  BY <1>2, <1>4 DEF HeapType
<1> QED BY <1>4, <1>5 DEF x, z, g

(* The list before the neighbours are looked at. *)
JustIn(g, h, T, B, f) ==
    /\ Orderly(g, T, B)
    /\ g.size = h.size /\ g.magic = [h.magic EXCEPT ![f] = "unallocated"]
    /\ \A x, y \in T : x + g.size[x] = y => x = f \/ y = f

(* LLA_SkiplistInsert in AddToFreelist: only with f can two blocks touch. *)
LEMMA Joins ==
    ASSUME NEW h, NEW S, NEW B, Orderly(h, S, B), NoTouch(h, S), NEW f \in B, f \notin S,
           NEW l \in SkiplistLevels(h.size[f])
    PROVE  JustIn(Insert([h EXCEPT !.levels[f] = l, !.magic[f] = "unallocated"], f),
                  h, S \cup {f}, B, f)
<1> DEFINE e == [h EXCEPT !.levels[f] = l, !.magic[f] = "unallocated"]
           g == Insert(e, f)
           T == S \cup {f}
<1>1. /\ h \in HeapType /\ B \subseteq Addrs /\ S \subseteq B /\ Apart(S)
      /\ \A b \in B : b \in Nat \ {0} /\ h.size[b] \in Nat /\ h.size[b] >= 2
      /\ Listed(h, S) /\ Tiled(h, B) /\ f \in Addrs /\ f # Freelist
      /\ \A a \in S : FewestLevels(h.size[a]) <= h.levels[a]
  <2>1. Listed(h, S) /\ Tiled(h, B) /\ \A a \in S : FewestLevels(h.size[a]) <= h.levels[a]
    BY DEF Orderly
  <2> QED BY <2>1, OrderlyTypes, Numbers
<1>2. l \in 1 .. kMaxLevel - 1 /\ FewestLevels(h.size[f]) <= l /\ l \in 0 .. kMaxLevel - 1
  <2>1. h.size[f] \in Nat /\ h.size[f] >= MinSize
    BY <1>1 DEF MinSize
  <2>2. l \in 1 .. kMaxLevel - 1 /\ FewestLevels(h.size[f]) <= l
    BY <2>1, LevelsOf
  <2> QED BY <2>2, Numbers
<1>3. /\ e \in HeapType /\ e.size = h.size /\ e.next = h.next
      /\ e.levels = [h.levels EXCEPT ![f] = l]
      /\ e.magic = [h.magic EXCEPT ![f] = "unallocated"]
  BY <1>1, <1>2, MarkFields
<1> HIDE DEF e
<1>4. /\ e.levels[f] = l
      /\ \A a \in (Addrs \cup {Freelist}) \ {f} : e.levels[a] = h.levels[a]
  BY <1>1, <1>3 DEF HeapType
<1>5. Listed(e, S)
  <2>1. \A a \in S \cup {Freelist} : e.levels[a] = h.levels[a]
    BY <1>1, <1>4
  <2>2. e \in HeapType /\ e.next = h.next /\ Listed(h, S)
    BY <1>1, <1>3
  <2> QED BY <2>1, <2>2, SameList
<1>6. /\ g.size = e.size /\ g.magic = e.magic
      /\ \A a \in Addrs : g.levels[a] = e.levels[a]
      /\ Listed(g, T)
  BY <1>1, <1>2, <1>4, <1>5, Inserted
<1> HIDE DEF g
<1>7. Orderly(g, T, B)
  <2>1. T \subseteq B /\ g.size = h.size
    BY <1>1, <1>3, <1>6
  <2>2. Tiled(g, B)
    BY <1>1, <2>1 DEF Tiled
  <2>3. \A a \in T : FewestLevels(g.size[a]) <= g.levels[a]
    BY <1>1, <1>2, <1>4, <1>6, <2>1
  <2> HIDE DEF T
  <2> QED BY <1>6, <2>1, <2>2, <2>3 DEF Orderly
<1>8. \A x, y \in T : x + g.size[x] = y => x = f \/ y = f
  BY <1>3, <1>6 DEF NoTouch
<1> QED BY <1>3, <1>6, <1>7, <1>8 DEF g, e, JustIn

(* AddToFreelist merges the block with its two neighbours where they are   *)
(* free; no other blocks can touch.                                        *)
LEMMA AddedToFreelist ==
    ASSUME NEW h, NEW S, NEW B, Orderly(h, S, B), NoTouch(h, S), NEW f \in B, f \notin S,
           NEW k \in AddToFreelist(h, f)
    PROVE  \E D : Freed(k, h, S, B, f, D)
<1> DEFINE T == S \cup {f}
<1>1. PICK l \in SkiplistLevels(h.size[f]) :
         LET g == Insert([h EXCEPT !.levels[f] = l, !.magic[f] = "unallocated"], f)
         IN k \in UNION {Coalesce(c, Prev(g, 1, f)) : c \in Coalesce(g, f)}
  BY DEF AddToFreelist
<1> DEFINE g == Insert([h EXCEPT !.levels[f] = l, !.magic[f] = "unallocated"], f)
           p == Prev(g, 1, f)
<1>2. PICK c \in Coalesce(g, f) : k \in Coalesce(c, p)
  BY <1>1
<1>3. /\ Orderly(g, T, B)
      /\ g.size = h.size /\ g.magic = [h.magic EXCEPT ![f] = "unallocated"]
      /\ \A x, y \in T : x + g.size[x] = y => x = f \/ y = f
  <2>1. JustIn(g, h, T, B, f)
    BY Joins
  <2> HIDE DEF g, T
  <2> QED BY <2>1 DEF JustIn
<1> HIDE DEF g
<1>4. /\ h \in HeapType /\ B \subseteq Addrs /\ T \subseteq B /\ f \in T /\ f \in Addrs
      /\ \A b \in B : b \in Nat \ {0} /\ h.size[b] \in Nat /\ h.size[b] >= 2
      /\ Listed(g, T) /\ Apart(T) /\ Tiled(h, B)
  <2>1. h \in HeapType /\ B \subseteq Addrs
        /\ \A b \in B : b \in Nat \ {0} /\ h.size[b] \in Nat /\ h.size[b] >= 2
    BY OrderlyTypes
  <2>2. T \subseteq B /\ Apart(T)
    <3> HIDE DEF T
    <3> QED BY <1>3, OrderlyTypes
  <2> QED BY <1>3, <2>1, <2>2 DEF Orderly
<1>5. /\ p \in {Freelist} \cup T /\ p \in Nat /\ p < f
      /\ \A b \in T : b < f => b <= p
  <2> HIDE DEF T, p
  <2>1. LET q == Prev(g, 1, f)
            U == On(g, T, 1)
        IN /\ q \in {Freelist} \cup U /\ q \in Nat /\ q < f /\ q # f
           /\ q \in {Freelist} \cup Addrs
           /\ \A b \in U : b < f => b <= q
           /\ Follows(U, q, g.next[q][1])
           /\ f \in U => g.next[q][1] = f
           /\ f \notin U => g.next[q][1] # f /\ Follows(U, f, g.next[q][1])
    BY <1>4, Numbers, PrevIs
  <2>2. On(g, T, 1) = T
    BY <1>4, AllOnOne
  <2> QED BY <2>1, <2>2 DEF p
<1> HIDE DEF p
<1>6. PICK D1 \in SUBSET T : Joined(c, g, T, B, f, D1)
  <2> HIDE DEF T
  <2>1. f \in T \cup {Freelist}
    BY <1>4
  <2> QED BY <1>2, <1>3, <2>1, Coalesced
<1>7. /\ f \notin D1 /\ Orderly(c, T \ D1, B \ D1)
      /\ p \in (T \ D1) \cup {Freelist}
  BY <1>4, <1>5, <1>6 DEF Joined
<1>8. ASSUME NEW x \in T \ D1, NEW y \in T \ D1, x + c.size[x] = y
      PROVE  x # f /\ y = f
  <2>1. \/ x # f /\ x + g.size[x] = y
        \/ x = f /\ \E n \in T : f + g.size[f] = n /\ n + g.size[n] = y
    BY <1>6, <1>8 DEF Joined
  <2>2. CASE x # f /\ x + g.size[x] = y
    BY <1>3, <2>2
  <2>3. ASSUME NEW n \in T, f + g.size[f] = n, n + g.size[n] = y
        PROVE  FALSE
    <3>1. n # f /\ y # f
      BY <1>3, <1>4, <2>3
    <3> QED BY <1>3, <2>3, <3>1
  <2> QED BY <2>1, <2>2, <2>3
<1>9. PICK D2 \in SUBSET (T \ D1) : Joined(k, c, T \ D1, B \ D1, p, D2)
  <2> DEFINE U == T \ D1
             A == B \ D1
  <2>1. Orderly(c, U, A) /\ p \in U \cup {Freelist}
    BY <1>7
  <2> HIDE DEF U, A
  <2>2. \E D \in SUBSET U : Joined(k, c, U, A, p, D)
    BY <1>2, <2>1, Coalesced
  <2> QED BY <2>2 DEF U, A
<1> DEFINE D == D1 \cup D2
<1>10. (T \ D1) \ D2 = T \ D /\ (B \ D1) \ D2 = B \ D
  OBVIOUS
<1>11. Orderly(k, T \ D, B \ D)
  BY <1>9, <1>10 DEF Joined
<1>12. ASSUME NEW x \in T \ D, NEW y \in T \ D, x + k.size[x] = y
       PROVE  FALSE
  <2>1. \/ x # p /\ x + c.size[x] = y
        \/ x = p /\ \E n \in T \ D1 : p + c.size[p] = n /\ n + c.size[n] = y
    BY <1>9, <1>10, <1>12 DEF Joined
  <2>2. x \in T \ D1 /\ y \in T \ D1
    OBVIOUS
  <2>3. CASE x # p /\ x + c.size[x] = y
    <3>1. y = f /\ x # f
      BY <1>8, <2>2, <2>3
    <3>2. \A b \in B \ D1 : b \in Nat \ {0} /\ c.size[b] \in Nat /\ c.size[b] >= 2
      <4> DEFINE U == T \ D1
                 A == B \ D1
      <4>1. Orderly(c, U, A)
        BY <1>7
      <4> HIDE DEF U, A
      <4>2. \A b \in A : b \in Nat \ {0} /\ c.size[b] \in Nat /\ c.size[b] >= 2
        BY <4>1, OrderlyTypes
      <4> QED BY <4>2 DEF A
    <3>3. x \in Nat \ {0} /\ x < f /\ c.size[x] \in Nat /\ f \in Nat
      BY <1>4, <2>2, <2>3, <3>1, <3>2
    <3>4. x <= p /\ x < p
      BY <1>5, <2>2, <2>3, <3>3
    <3>5. p # Freelist /\ p \in T \ D1
      BY <1>7, <3>3, <3>4, Numbers
    <3>6. x + c.size[x] <= p
      BY <1>4, <1>7, <2>2, <3>4, <3>5 DEF Orderly, Tiled
    <3> QED BY <1>5, <2>3, <3>1, <3>3, <3>6
  <2>4. CASE x = p /\ \E n \in T \ D1 : p + c.size[p] = n /\ n + c.size[n] = y
    <3>1. PICK n \in T \ D1 : p + c.size[p] = n /\ n + c.size[n] = y
      BY <2>4
    <3>2. n = f
      BY <1>8, <2>2, <2>4, <3>1
    <3> QED BY <1>8, <2>2, <3>1, <3>2
  <2> QED BY <2>1, <2>3, <2>4
<1>13. NoTouch(k, T \ D)
  BY <1>12 DEF NoTouch
<1>14. Cover(k, B \ D) = Cover(h, B)
  BY <1>3, <1>6, <1>9, <1>10 DEF Joined, Cover
<1>15. ASSUME NEW b \in Addrs
       PROVE  k.magic[b] = IF b \in D THEN "none"
                           ELSE IF b = f THEN "unallocated" ELSE h.magic[b]
  <2>1. g.magic[b] = IF b = f THEN "unallocated" ELSE h.magic[b]
    BY <1>3, <1>4 DEF HeapType
  <2>2. c.magic[b] = IF b \in D1 THEN "none" ELSE g.magic[b]
    BY <1>6 DEF Joined
  <2>3. k.magic[b] = IF b \in D2 THEN "none" ELSE c.magic[b]
    BY <1>9 DEF Joined
  <2> QED BY <2>1, <2>2, <2>3
<1>16. ASSUME NEW b \in B \ T
       PROVE  k.size[b] = h.size[b]
  <2>1. b \in (B \ D1) \ (T \ D1)
    OBVIOUS
  <2> QED BY <1>3, <1>6, <1>9, <2>1 DEF Joined
<1>17. \E y \in T \ D : y <= f /\ f + h.size[f] <= y + k.size[y]
  <2>1. PICK x \in T \ D1 : x <= f /\ f + g.size[f] <= x + c.size[x]
    BY <1>4, <1>6 DEF Joined
  <2>2. PICK y \in (T \ D1) \ D2 : y <= x /\ x + c.size[x] <= y + k.size[y]
    BY <1>9 DEF Joined
  <2>3. /\ f \in Nat /\ x \in Nat /\ y \in Nat /\ g.size[f] \in Nat
        /\ c.size[x] \in Nat /\ k.size[y] \in Nat
    <3>1. g \in HeapType /\ c \in HeapType /\ k \in HeapType
      BY <1>3, <1>7, <1>11 DEF Orderly, Listed
    <3> QED BY <1>4, <3>1 DEF HeapType
  <2> QED BY <1>3, <2>1, <2>2, <2>3, <1>10
<1>18. D \subseteq T
  OBVIOUS
<1> HIDE DEF D
<1> QED BY <1>11, <1>13, <1>14, <1>15, <1>16, <1>17, <1>18 DEF Freed

-----------------------------------------------------------------------------
(* What the three calls do to the heap                                     *)

BlocksOf(h) == {a \in Addrs : h.magic[a] # "none"}
FreeOf(h) == {a \in Addrs : h.magic[a] = "unallocated"}
Held(h) == BlocksOf(h) \ FreeOf(h)
Covered(h) == Cover(h, BlocksOf(h))

HeapInv(h) == Orderly(h, FreeOf(h), BlocksOf(h)) /\ NoTouch(h, FreeOf(h))

(* The size of one block changes. *)
LEMMA SizeField ==
    ASSUME NEW h \in HeapType, NEW a \in Addrs, NEW n \in Nat
    PROVE  LET g == [h EXCEPT !.size[a] = n] IN
           /\ g \in HeapType /\ g.magic = h.magic /\ g.levels = h.levels /\ g.next = h.next
           /\ g.size[a] = n /\ \A b \in Addrs \ {a} : g.size[b] = h.size[b]
<1> DEFINE g == [h EXCEPT !.size[a] = n]
           x == [h.size EXCEPT ![a] = n]
<1>0. h = [size |-> h.size, magic |-> h.magic, levels |-> h.levels, next |-> h.next]
  BY DEF HeapType
<1>1. g = [size |-> x, magic |-> h.magic, levels |-> h.levels, next |-> h.next]
  <2> HIDE DEF x
  <2>1. g = [h EXCEPT !.size = x]
    BY DEF x
  <2> HIDE DEF g
  <2> QED BY <1>0, <2>1
<1>2. /\ x \in [Addrs -> Nat] /\ x[a] = n
      /\ \A b \in Addrs \ {a} : x[b] = h.size[b]
  BY DEF HeapType
<1> HIDE DEF x, g
<1>3. g \in HeapType
  BY <1>1, <1>2 DEF HeapType
<1> QED BY <1>1, <1>2, <1>3 DEF g

(* One block is marked as handed out. *)
LEMMA MagicField ==
    ASSUME NEW h \in HeapType, NEW a \in Addrs
    PROVE  LET g == [h EXCEPT !.magic[a] = "allocated"] IN
           /\ g \in HeapType /\ g.size = h.size /\ g.levels = h.levels /\ g.next = h.next
           /\ g.magic[a] = "allocated" /\ \A b \in Addrs \ {a} : g.magic[b] = h.magic[b]
<1> DEFINE g == [h EXCEPT !.magic[a] = "allocated"]
           x == [h.magic EXCEPT ![a] = "allocated"]
<1>0. h = [size |-> h.size, magic |-> h.magic, levels |-> h.levels, next |-> h.next]
  BY DEF HeapType
<1>1. g = [size |-> h.size, magic |-> x, levels |-> h.levels, next |-> h.next]
  <2> HIDE DEF x
  <2>1. g = [h EXCEPT !.magic = x]
    BY DEF x
  <2> HIDE DEF g
  <2> QED BY <1>0, <2>1
<1>2. /\ x \in [Addrs -> {"none", "allocated", "unallocated"}] /\ x[a] = "allocated"
      /\ \A b \in Addrs \ {a} : x[b] = h.magic[b]
  BY DEF HeapType
<1> HIDE DEF x, g
<1>3. g \in HeapType
  BY <1>1, <1>2 DEF HeapType
<1> QED BY <1>1, <1>2, <1>3 DEF g

(* Lists of the same heap but for sizes and magic numbers of blocks. *)
LEMMA SameOrder ==
    ASSUME NEW h, NEW S, NEW B, Orderly(h, S, B), NoTouch(h, S),
           NEW g \in HeapType, g.next = h.next, g.levels = h.levels,
           \A a \in S : g.size[a] = h.size[a], NEW A, S \subseteq A, Tiled(g, A)
    PROVE  Orderly(g, S, A) /\ NoTouch(g, S)
<1>1. Listed(h, S) /\ \A a \in S : FewestLevels(h.size[a]) <= h.levels[a]
  BY DEF Orderly
<1>2. Listed(g, S)
  BY <1>1, SameList
<1>3. NoTouch(g, S)
  BY DEF NoTouch
<1>4. \A a \in S : FewestLevels(g.size[a]) <= g.levels[a]
  BY <1>1
<1> QED BY <1>2, <1>3, <1>4 DEF Orderly

(* Free: the memory stays the arena's, the other blocks that are out stay  *)
(* as they are.                                                            *)
LEMMA FreeKeeps ==
    ASSUME NEW h, HeapInv(h), NEW f \in Held(h), NEW k \in AddToFreelist(h, f)
    PROVE  /\ HeapInv(k) /\ Covered(k) = Covered(h)
           /\ Held(k) = Held(h) \ {f}
           /\ \A b \in Held(k) : k.size[b] = h.size[b]
<1> DEFINE S == FreeOf(h)
           B == BlocksOf(h)
           T == S \cup {f}
<1>1. Orderly(h, S, B) /\ NoTouch(h, S) /\ f \in B /\ f \notin S
  BY DEF HeapInv, Held
<1>2. PICK D : Freed(k, h, S, B, f, D)
  <2> HIDE DEF S, B
  <2> QED BY <1>1, AddedToFreelist
<1>3. /\ B \subseteq Addrs /\ S \subseteq B
      /\ D \subseteq T
      /\ Orderly(k, T \ D, B \ D) /\ NoTouch(k, T \ D)
      /\ Cover(k, B \ D) = Cover(h, B)
      /\ \A b \in Addrs : k.magic[b] = IF b \in D THEN "none"
                                       ELSE IF b = f THEN "unallocated" ELSE h.magic[b]
      /\ \A b \in B \ T : k.size[b] = h.size[b]
  BY <1>2 DEF Freed, BlocksOf, FreeOf
<1>4. FreeOf(k) = T \ D /\ BlocksOf(k) = B \ D
  BY <1>1, <1>3 DEF FreeOf, BlocksOf
<1>5. Held(k) = B \ T /\ Held(h) \ {f} = B \ T
  BY <1>1, <1>3, <1>4 DEF Held
<1>6. HeapInv(k) /\ Covered(k) = Covered(h)
  BY <1>3, <1>4 DEF HeapInv, Covered
<1> QED BY <1>3, <1>5, <1>6

(* New pages: a free block that has all of them is in the list afterwards, *)
(* though it may have been merged with its neighbours.                     *)
LEMMA NewPagesKeep ==
    ASSUME NEW h, HeapInv(h), NEW p \in Addrs, NEW n \in Nat, n >= MinSize,
           \A z \in p .. p + n - 1 : z \notin Covered(h),
           NEW k \in AddToFreelist([h EXCEPT !.size[p] = n], p)
    PROVE  /\ HeapInv(k) /\ Covered(k) = Covered(h) \cup (p .. p + n - 1)
           /\ Held(k) = Held(h)
           /\ \A b \in Held(k) : k.size[b] = h.size[b]
           /\ \E b \in FreeOf(k) : k.size[b] >= n
<1> DEFINE S == FreeOf(h)
           B == BlocksOf(h)
           A == B \cup {p}
           g == [h EXCEPT !.size[p] = n]
           T == S \cup {p}
<1>1. Orderly(h, S, B) /\ NoTouch(h, S)
  BY DEF HeapInv
<1>2. /\ h \in HeapType /\ B \subseteq Addrs /\ S \subseteq B
      /\ \A b \in B : b \in Nat \ {0} /\ h.size[b] \in Nat /\ h.size[b] >= 2
      /\ Tiled(h, B) /\ p \in Nat \ {0}
  <2>1. Tiled(h, B)
    BY <1>1 DEF Orderly
  <2> HIDE DEF S, B
  <2> QED BY <1>1, <2>1, OrderlyTypes, Numbers
<1>3. ASSUME NEW b \in B, NEW z \in b .. b + h.size[b] - 1
      PROVE  z \notin p .. p + n - 1
  BY DEF Covered, Cover
<1>4. p \notin B
  <2>1. SUFFICES ASSUME p \in B
                 PROVE  FALSE
    OBVIOUS
  <2>2. p \in p .. p + h.size[p] - 1 /\ p \in p .. p + n - 1
    BY <1>2, <2>1 DEF MinSize
  <2> QED BY <1>3, <2>1, <2>2
<1>5. /\ g \in HeapType /\ g.magic = h.magic /\ g.levels = h.levels /\ g.next = h.next
      /\ g.size[p] = n /\ \A b \in Addrs \ {p} : g.size[b] = h.size[b]
  BY <1>2, SizeField
<1> HIDE DEF g
<1>6. \A b \in B : g.size[b] = h.size[b]
  BY <1>2, <1>4, <1>5
<1>7. ASSUME NEW b \in A, NEW c \in A, b < c
      PROVE  b + g.size[b] <= c
  <2>1. CASE b \in B /\ c \in B
    BY <1>2, <1>6, <1>7, <2>1 DEF Tiled
  <2>2. CASE b \in B /\ c = p
    <3>1. p \notin b .. b + h.size[b] - 1
      <4>1. p \in p .. p + n - 1
        BY <1>2 DEF MinSize
      <4> QED BY <1>3, <2>2, <4>1
    <3> QED BY <1>2, <1>6, <1>7, <2>2, <3>1
  <2>3. CASE b = p /\ c \in B
    <3>1. c \in c .. c + h.size[c] - 1
      BY <1>2, <2>3
    <3>2. c \notin p .. p + n - 1
      BY <1>3, <2>3, <3>1
    <3> QED BY <1>2, <1>5, <1>7, <2>3, <3>2
  <2> QED BY <1>2, <1>7, <2>1, <2>2, <2>3
<1>8. Tiled(g, A)
  BY <1>2, <1>5, <1>6, <1>7 DEF Tiled
<1>9. Orderly(g, S, A) /\ NoTouch(g, S)
  <2>1. S \subseteq A /\ \A a \in S : g.size[a] = h.size[a]
    BY <1>2, <1>6
  <2> HIDE DEF S, B, A
  <2> QED BY <1>1, <1>5, <1>8, <2>1, SameOrder
<1>10. PICK D : Freed(k, g, S, A, p, D)
  <2>1. p \in A /\ p \notin S /\ k \in AddToFreelist(g, p)
    BY <1>2, <1>4 DEF g
  <2> HIDE DEF S, A
  <2> QED BY <1>9, <2>1, AddedToFreelist
<1>11. /\ D \subseteq T
       /\ Orderly(k, T \ D, A \ D) /\ NoTouch(k, T \ D)
       /\ Cover(k, A \ D) = Cover(g, A)
       /\ \A b \in Addrs : k.magic[b] = IF b \in D THEN "none"
                                        ELSE IF b = p THEN "unallocated" ELSE h.magic[b]
       /\ \A b \in A \ T : k.size[b] = g.size[b]
       /\ \E y \in T \ D : y <= p /\ p + g.size[p] <= y + k.size[y]
  BY <1>5, <1>10 DEF Freed
<1>12. FreeOf(k) = T \ D /\ BlocksOf(k) = A \ D
  BY <1>2, <1>4, <1>11 DEF FreeOf, BlocksOf
<1>13. Held(k) = Held(h) /\ Held(h) = A \ T
  BY <1>2, <1>4, <1>11, <1>12 DEF Held
<1>14. HeapInv(k)
  BY <1>11, <1>12 DEF HeapInv
<1>15. Covered(k) = Covered(h) \cup (p .. p + n - 1)
  <2>1. Cover(g, A) = Cover(h, B) \cup (p .. p + n - 1)
    BY <1>2, <1>4, <1>5, <1>6 DEF Cover
  <2> QED BY <1>11, <1>12, <2>1 DEF Covered
<1>16. \A b \in Held(k) : k.size[b] = h.size[b]
  BY <1>6, <1>11, <1>13
<1>17. \E b \in FreeOf(k) : k.size[b] >= n
  <2>1. PICK y \in T \ D : y <= p /\ p + n <= y + k.size[y]
    BY <1>5, <1>11
  <2>2. y \in Nat /\ k.size[y] \in Nat
    <3>1. k \in HeapType
      BY <1>11 DEF Orderly, Listed
    <3> QED BY <1>2, <2>1, <3>1 DEF HeapType
  <2> QED BY <1>2, <1>12, <2>1, <2>2
<1> QED BY <1>13, <1>14, <1>15, <1>16, <1>17

(* A block of which the rest is a block of its own. *)
LEMMA CutTiles ==
    ASSUME NEW h, NEW B, Tiled(h, B), h.size \in [Addrs -> Nat], NEW s \in B, NEW r \in Addrs,
           NEW n \in Nat, n >= MinSize, r = s + n, n + MinSize <= h.size[s],
           NEW g, g.size[s] = n, g.size[r] = h.size[s] - n,
           \A b \in Addrs \ {s, r} : g.size[b] = h.size[b]
    PROVE  /\ r \notin B /\ Tiled(g, B \cup {r})
           /\ Cover(g, B \cup {r}) = Cover(h, B)
<1>1. /\ B \subseteq Addrs /\ Addrs \subseteq Nat \ {0}
      /\ \A b \in Addrs : h.size[b] \in Nat
      /\ \A b \in B : h.size[b] >= 2
      /\ \A b, c \in B : b < c => b + h.size[b] <= c
      /\ n >= 2 /\ n + 2 <= h.size[s]
  BY Numbers DEF Tiled, MinSize
<1>2. s < r /\ s \in Nat /\ r \in Nat /\ r + 2 <= s + h.size[s] /\ h.size[s] \in Nat
  BY <1>1
<1>3. r \notin B
  BY <1>1, <1>2
<1>4. g.size[r] \in Nat /\ g.size[r] >= 2 /\ r + g.size[r] = s + h.size[s]
  BY <1>1, <1>2
<1>5. ASSUME NEW b \in B \cup {r}
      PROVE  g.size[b] >= MinSize
  BY <1>1, <1>4 DEF MinSize
<1>6. ASSUME NEW b \in B \cup {r}, NEW c \in B \cup {r}, b < c
      PROVE  b + g.size[b] <= c
  <2>1. b \in Nat /\ c \in Nat /\ h.size[b] \in Nat
    BY <1>1
  <2>2. CASE b = r
    <3>1. c \in B /\ s < c
      BY <1>2, <1>6, <2>1, <2>2
    <3> QED BY <1>1, <1>4, <2>2, <3>1
  <2>3. CASE b = s
    <3>1. CASE c = r
      BY <1>2, <2>3, <3>1
    <3>2. CASE c # r
      <4>1. s + h.size[s] <= c
        BY <1>1, <1>6, <2>3, <3>2
      <4> QED BY <1>1, <1>2, <2>1, <2>3, <4>1
    <3> QED BY <3>1, <3>2
  <2>4. CASE b # r /\ b # s
    <3>1. g.size[b] = h.size[b] /\ b \in B
      BY <1>1, <2>4
    <3>2. CASE c # r
      BY <1>1, <1>6, <3>1, <3>2
    <3>3. CASE c = r
      <4>1. b < s \/ s < b
        BY <1>2, <2>1, <2>4
      <4>2. CASE b < s
        <5>1. b + h.size[b] <= s
          BY <1>1, <3>1, <4>2
        <5> QED BY <1>2, <2>1, <3>1, <3>3, <5>1
      <4>3. CASE s < b
        <5>1. s + h.size[s] <= b
          BY <1>1, <3>1, <4>3
        <5> QED BY <1>2, <1>6, <2>1, <3>3, <5>1
      <4> QED BY <4>1, <4>2, <4>3
    <3> QED BY <3>2, <3>3
  <2> QED BY <2>2, <2>3, <2>4
<1>7. Tiled(g, B \cup {r})
  BY <1>1, <1>5, <1>6 DEF Tiled
<1>8. Cover(g, B \cup {r}) \subseteq Cover(h, B)
  <2>1. SUFFICES ASSUME NEW z \in Cover(g, B \cup {r})
                 PROVE  z \in Cover(h, B)
    OBVIOUS
  <2>2. PICK b \in B \cup {r} : z \in b .. b + g.size[b] - 1
    BY DEF Cover
  <2>3. CASE b # r /\ b # s
    <3>1. g.size[b] = h.size[b] /\ b \in B
      BY <1>1, <2>3
    <3> QED BY <2>2, <3>1 DEF Cover
  <2>4. CASE b = r \/ b = s
    <3>1. z \in s .. s + h.size[s] - 1
      BY <1>1, <1>2, <1>4, <2>2, <2>4
    <3> QED BY <3>1 DEF Cover
  <2> QED BY <2>3, <2>4
<1>9. Cover(h, B) \subseteq Cover(g, B \cup {r})
  <2>1. SUFFICES ASSUME NEW z \in Cover(h, B)
                 PROVE  z \in Cover(g, B \cup {r})
    OBVIOUS
  <2>2. PICK b \in B : z \in b .. b + h.size[b] - 1
    BY DEF Cover
  <2>3. CASE b # s
    <3>1. g.size[b] = h.size[b]
      BY <1>1, <1>3, <2>3
    <3> QED BY <2>2, <3>1 DEF Cover
  <2>4. CASE b = s
    <3>1. z \in s .. s + g.size[s] - 1 \/ z \in r .. r + g.size[r] - 1
      BY <1>1, <1>2, <1>4, <2>2, <2>4
    <3> QED BY <3>1 DEF Cover
  <2> QED BY <2>3, <2>4
<1> QED BY <1>3, <1>7, <1>8, <1>9

(* The list without s, which is handed out. *)
LEMMA Unlisted ==
    ASSUME NEW h, NEW S, NEW B, Orderly(h, S, B), NoTouch(h, S), NEW s \in S
    PROVE  LET g == Delete(h, s) IN
           /\ g.size = h.size /\ g.magic = h.magic
           /\ Orderly(g, S \ {s}, B) /\ NoTouch(g, S \ {s})
<1> DEFINE g == Delete(h, s)
           T == S \ {s}
<1>1. /\ Listed(h, S) /\ Apart(S) /\ S \subseteq B /\ Tiled(h, B) /\ S \subseteq Addrs
      /\ \A a \in S : FewestLevels(h.size[a]) <= h.levels[a]
  <2>1. Apart(S) /\ B \subseteq Addrs /\ S \subseteq B
    BY OrderlyTypes
  <2> QED BY <2>1 DEF Orderly
<1>2. /\ g.size = h.size /\ g.magic = h.magic
      /\ \A a \in Addrs \ {s} : g.levels[a] = h.levels[a]
      /\ Listed(g, T)
  BY <1>1, Deleted
<1> HIDE DEF g
<1>3. Tiled(g, B) /\ NoTouch(g, T)
  BY <1>1, <1>2 DEF Tiled, NoTouch
<1>4. T \subseteq B /\ \A a \in T : FewestLevels(g.size[a]) <= g.levels[a]
  BY <1>1, <1>2
<1> HIDE DEF T
<1>5. Orderly(g, T, B)
  BY <1>2, <1>3, <1>4 DEF Orderly
<1> QED BY <1>2, <1>3, <1>5 DEF g, T

(* Found: the block is handed out, not larger than it must be, and its rest *)
(* is free.                                                                 *)
Handed(k, h, s, n) ==
    /\ HeapInv(k) /\ Covered(k) = Covered(h)
    /\ s \notin Held(h) /\ Held(k) = Held(h) \cup {s}
    /\ \A b \in Held(h) : k.size[b] = h.size[b]
    /\ k.size[s] >= n /\ k.size[s] < n + MinSize

(* The block that left the list is marked as handed out at the end. *)
LEMMA Remarked ==
    ASSUME NEW k, NEW S, NEW B, Orderly(k, S, B), NoTouch(k, S), NEW s \in B, s \notin S,
           \A b \in Addrs \ {s} : k.magic[b] = "unallocated" <=> b \in S,
           \A b \in Addrs \ {s} : k.magic[b] # "none" <=> b \in B
    PROVE  LET m == [k EXCEPT !.magic[s] = "allocated"] IN
           /\ HeapInv(m) /\ FreeOf(m) = S /\ BlocksOf(m) = B /\ m.size = k.size
           /\ Covered(m) = Cover(k, B)
<1> DEFINE m == [k EXCEPT !.magic[s] = "allocated"]
<1>1. k \in HeapType /\ S \subseteq B /\ B \subseteq Addrs /\ Tiled(k, B)
  <2>1. k \in HeapType /\ B \subseteq Addrs /\ S \subseteq B
    BY OrderlyTypes
  <2> QED BY <2>1 DEF Orderly
<1>2. /\ m \in HeapType /\ m.size = k.size /\ m.levels = k.levels /\ m.next = k.next
      /\ m.magic[s] = "allocated" /\ \A b \in Addrs \ {s} : m.magic[b] = k.magic[b]
  BY <1>1, MagicField
<1> HIDE DEF m
<1>3. FreeOf(m) = S /\ BlocksOf(m) = B
  BY <1>1, <1>2 DEF FreeOf, BlocksOf
<1>4. Tiled(m, B) /\ Cover(m, B) = Cover(k, B)
  BY <1>1, <1>2 DEF Tiled, Cover
<1>5. Orderly(m, S, B) /\ NoTouch(m, S)
  BY <1>1, <1>2, <1>4, SameOrder
<1> QED BY <1>2, <1>3, <1>4, <1>5 DEF m, HeapInv, Covered

(* The block that was found is handed out, split or whole. *)
LEMMA SplitHands ==
    ASSUME NEW h, HeapInv(h), Covered(h) \subseteq Addrs, NEW s \in FreeOf(h),
           NEW n \in Nat, n >= MinSize, h.size[s] >= n, NEW k \in Split(h, s, n)
    PROVE  Handed(k, h, s, n)
<1> DEFINE S == FreeOf(h)
           B == BlocksOf(h)
           U == S \ {s}
           r == s + n
           g == Delete(h, s)
           m == h.size[s] - n
           e == [g EXCEPT !.size[r] = m, !.size[s] = n]
<1>1. Orderly(h, S, B) /\ NoTouch(h, S)
  BY DEF HeapInv
<1>2. /\ h \in HeapType /\ B \subseteq Addrs /\ S \subseteq B
      /\ \A b \in B : b \in Nat \ {0} /\ h.size[b] \in Nat /\ h.size[b] >= 2
      /\ Tiled(h, B) /\ s \in Addrs /\ s \in Nat \ {0} /\ s \in S /\ s \in B
  <2>1. Tiled(h, B)
    BY <1>1 DEF Orderly
  <2>2. h \in HeapType /\ B \subseteq Addrs /\ S \subseteq B
        /\ \A b \in B : b \in Nat \ {0} /\ h.size[b] \in Nat /\ h.size[b] >= 2
    <3> HIDE DEF S, B
    <3> QED BY <1>1, OrderlyTypes
  <2> QED BY <2>1, <2>2
<1>3. g.size = h.size /\ g.magic = h.magic /\ Orderly(g, U, B) /\ NoTouch(g, U)
  <2> HIDE DEF S, B
  <2>1. s \in S
    BY <1>2
  <2> QED BY <1>1, <2>1, Unlisted
<1>4. PICK c \in IF n + MinSize <= h.size[s] THEN AddToFreelist(e, r) ELSE {g} :
         k = [c EXCEPT !.magic[s] = "allocated"]
  BY DEF Split
<1> HIDE DEF g, e
<1>5. s \notin Held(h)
  BY DEF Held
<1>6. CASE ~ (n + MinSize <= h.size[s])
  <2>1. c = g
    BY <1>4, <1>6
  <2>2. /\ \A b \in Addrs \ {s} : g.magic[b] = "unallocated" <=> b \in U
        /\ \A b \in Addrs \ {s} : g.magic[b] # "none" <=> b \in B
        /\ s \notin U
    BY <1>3 DEF FreeOf, BlocksOf
  <2>3. /\ HeapInv(k) /\ FreeOf(k) = U /\ BlocksOf(k) = B /\ k.size = g.size
        /\ Covered(k) = Cover(g, B)
    <3> HIDE DEF U, B
    <3> QED BY <1>2, <1>3, <1>4, <2>1, <2>2, Remarked
  <2>4. Covered(k) = Covered(h)
    BY <1>3, <2>3 DEF Covered, Cover
  <2>5. Held(k) = Held(h) \cup {s}
    BY <1>2, <2>3 DEF Held
  <2>6. k.size[s] >= n /\ k.size[s] < n + MinSize
    BY <1>2, <1>3, <1>6, <2>3 DEF MinSize
  <2> QED BY <1>3, <1>5, <2>3, <2>4, <2>5, <2>6 DEF Handed
<1>7. CASE n + MinSize <= h.size[s]
  <2>1. c \in AddToFreelist(e, r)
    BY <1>4, <1>7
  <2>2. /\ r \in Nat /\ m \in Nat /\ s < r /\ s # r /\ r \in Addrs
    <3>1. h.size[s] \in Nat /\ MinSize = 2
      BY <1>2 DEF MinSize
    <3>2. r \in s .. s + h.size[s] - 1
      BY <1>2, <1>7, <3>1
    <3>3. r \in Covered(h)
      BY <1>2, <3>2 DEF Covered, Cover
    <3> QED BY <1>2, <1>7, <3>1, <3>3
  <2>3. g \in HeapType
    BY <1>3, OrderlyTypes
  <2>4. /\ e \in HeapType /\ e.magic = g.magic /\ e.levels = g.levels /\ e.next = g.next
        /\ e.size[s] = n /\ e.size[r] = m
        /\ \A b \in Addrs \ {s, r} : e.size[b] = g.size[b]
    <3> DEFINE u == [g EXCEPT !.size[r] = m]
    <3>1. /\ u \in HeapType /\ u.magic = g.magic /\ u.levels = g.levels /\ u.next = g.next
          /\ u.size[r] = m /\ \A b \in Addrs \ {r} : u.size[b] = g.size[b]
      <4> HIDE DEF r, m
      <4> QED BY <2>2, <2>3, SizeField
    <3>2. e = [u EXCEPT !.size[s] = n]
      BY DEF e
    <3> HIDE DEF u
    <3>3. LET q == [u EXCEPT !.size[s] = n] IN
          /\ q \in HeapType /\ q.magic = u.magic /\ q.levels = u.levels /\ q.next = u.next
          /\ q.size[s] = n /\ \A b \in Addrs \ {s} : q.size[b] = u.size[b]
      <4>1. u \in HeapType /\ s \in Addrs
        BY <1>2, <3>1
      <4> QED BY <4>1, SizeField
    <3>4. /\ e \in HeapType /\ e.magic = u.magic /\ e.levels = u.levels /\ e.next = u.next
          /\ e.size[s] = n /\ \A b \in Addrs \ {s} : e.size[b] = u.size[b]
      BY <3>2, <3>3
    <3> QED BY <2>2, <3>1, <3>4
  <2> DEFINE A == B \cup {r}
             T == U \cup {r}
  <2>5. r \notin B /\ Tiled(e, A) /\ Cover(e, A) = Cover(h, B)
    <3>1. h.size \in [Addrs -> Nat] /\ \A b \in Addrs \ {s, r} : e.size[b] = h.size[b]
      BY <1>2, <1>3, <2>4 DEF HeapType
    <3> HIDE DEF B
    <3> QED BY <1>2, <1>7, <2>2, <2>4, <3>1, CutTiles, SMTT(40)
  <2>6. Orderly(e, U, A) /\ NoTouch(e, U)
    <3>1. U \subseteq A /\ \A a \in U : e.size[a] = g.size[a]
      BY <1>2, <2>4, <2>5
    <3> HIDE DEF U, A, B
    <3> QED BY <1>3, <2>4, <2>5, <3>1, SameOrder
  <2>7. PICK D : Freed(c, e, U, A, r, D)
    <3>1. r \in A /\ r \notin U
      BY <1>2, <2>5
    <3> HIDE DEF U, A, r
    <3> QED BY <2>1, <2>6, <3>1, AddedToFreelist
  <2>8. /\ D \subseteq T
        /\ Orderly(c, T \ D, A \ D) /\ NoTouch(c, T \ D)
        /\ Cover(c, A \ D) = Cover(e, A)
        /\ \A b \in Addrs : c.magic[b] = IF b \in D THEN "none"
                                         ELSE IF b = r THEN "unallocated" ELSE h.magic[b]
        /\ \A b \in A \ T : c.size[b] = e.size[b]
    BY <1>3, <2>4, <2>7 DEF Freed
  <2>9. s \notin T /\ s \in A /\ s \in A \ D /\ s \notin T \ D
    BY <1>2, <2>2, <2>8
  <2>10. /\ \A b \in Addrs \ {s} : c.magic[b] = "unallocated" <=> b \in T \ D
         /\ \A b \in Addrs \ {s} : c.magic[b] # "none" <=> b \in A \ D
    BY <1>2, <2>8 DEF FreeOf, BlocksOf
  <2>11. /\ HeapInv(k) /\ FreeOf(k) = T \ D /\ BlocksOf(k) = A \ D /\ k.size = c.size
         /\ Covered(k) = Cover(c, A \ D)
    <3> DEFINE V == T \ D
               C == A \ D
    <3>1. /\ Orderly(c, V, C) /\ NoTouch(c, V) /\ s \in C /\ s \notin V
          /\ \A b \in Addrs \ {s} : c.magic[b] = "unallocated" <=> b \in V
          /\ \A b \in Addrs \ {s} : c.magic[b] # "none" <=> b \in C
      BY <2>8, <2>9, <2>10
    <3> HIDE DEF V, C
    <3>2. /\ HeapInv(k) /\ FreeOf(k) = V /\ BlocksOf(k) = C /\ k.size = c.size
          /\ Covered(k) = Cover(c, C)
      BY <1>4, <3>1, Remarked
    <3> QED BY <3>2 DEF V, C
  <2>12. Covered(k) = Covered(h)
    BY <2>5, <2>8, <2>11 DEF Covered
  <2>13. Held(k) = Held(h) \cup {s}
    BY <1>2, <2>2, <2>5, <2>8, <2>11 DEF Held
  <2>14. ASSUME NEW b \in A \ T, b # s
         PROVE  k.size[b] = h.size[b]
    <3>1. b \in Addrs \ {s, r}
      BY <1>2, <2>2, <2>14
    <3> QED BY <1>3, <2>4, <2>8, <2>11, <2>14, <3>1
  <2>15. \A b \in Held(h) : k.size[b] = h.size[b]
    <3>1. \A b \in Held(h) : b \in A \ T /\ b # s
      BY <1>2, <2>5 DEF Held
    <3> QED BY <2>14, <3>1
  <2>16. k.size[s] = n
    BY <2>4, <2>8, <2>9, <2>11
  <2> QED BY <1>5, <2>11, <2>12, <2>13, <2>15, <2>16 DEF Handed, MinSize
<1> QED BY <1>6, <1>7

-----------------------------------------------------------------------------
(* The allocator                                                           *)

GivenOf(h) == {[at |-> a, size |-> h.size[a]] : a \in Held(h)}

(* The free list and the blocks, where they lie, how many are out, and     *)
(* that what Windows returned can be found at the second look.             *)
AllocInv ==
    /\ HeapInv(heap)
    /\ \A r \in regions : r.at \in Addrs /\ r.size \in Nat /\ r.at + r.size - 1 <= MemorySize
    /\ Covered(heap) = Owned
    /\ allocation_count = Cardinality(GivenOf(heap))
    /\ request \in Requests \cup {0}
    /\ grown \in {0, 1}
    /\ request # 0 /\ grown = 1 => \E a \in FreeOf(heap) : heap.size[a] >= request

(* The operators of a heap, of the heap of the arena. *)
LEMMA SameNames ==
    Blocks = BlocksOf(heap) /\ FreeBlocks = FreeOf(heap) /\ Given = GivenOf(heap)
BY DEF Blocks, FreeBlocks, Given, BlocksOf, FreeOf, GivenOf, Held

(* What the invariant says of the types, and that the blocks are finite. *)
LEMMA HeapTypes ==
    ASSUME NEW h, HeapInv(h)
    PROVE  /\ h \in HeapType /\ BlocksOf(h) \subseteq Addrs /\ FreeOf(h) \subseteq BlocksOf(h)
           /\ \A a \in BlocksOf(h) : a \in Nat \ {0} /\ h.size[a] \in Nat /\ h.size[a] >= 2
           /\ Listed(h, FreeOf(h)) /\ Apart(FreeOf(h)) /\ Tiled(h, BlocksOf(h))
           /\ \A a \in FreeOf(h) : FewestLevels(h.size[a]) <= h.levels[a]
           /\ IsFiniteSet(Held(h)) /\ IsFiniteSet(GivenOf(h))
<1> DEFINE S == FreeOf(h)
           B == BlocksOf(h)
<1>1. Orderly(h, S, B)
  BY DEF HeapInv
<1>2. Listed(h, S) /\ Tiled(h, B) /\ \A a \in S : FewestLevels(h.size[a]) <= h.levels[a]
  BY <1>1 DEF Orderly
<1>3. /\ h \in HeapType /\ B \subseteq Addrs /\ S \subseteq B /\ Apart(S)
      /\ \A a \in B : a \in Nat \ {0} /\ h.size[a] \in Nat /\ h.size[a] >= 2
  <2> HIDE DEF S, B
  <2> QED BY <1>1, OrderlyTypes
<1>4. IsFiniteSet(Held(h))
  <2>1. IsFiniteSet(Addrs)
    BY AllocAssumption, FS_Interval DEF Addrs
  <2>2. Held(h) \subseteq Addrs
    BY <1>3 DEF Held
  <2> QED BY <2>1, <2>2, FS_Subset
<1>5. IsFiniteSet(GivenOf(h))
  <2> DEFINE f == [a \in Held(h) |-> [at |-> a, size |-> h.size[a]]]
             K == GivenOf(h)
  <2>1. f \in [Held(h) -> K]
    BY DEF GivenOf
  <2>2. \A g \in K : \E a \in Held(h) : f[a] = g
    BY DEF GivenOf
  <2> HIDE DEF f, K
  <2>3. f \in Surjection(Held(h), K)
    BY <2>1, <2>2 DEF Surjection
  <2>4. IsFiniteSet(K)
    BY <1>4, <2>3, FS_Surjection
  <2> QED BY <2>4 DEF K
<1> QED BY <1>2, <1>3, <1>4, <1>5

(* The search at the level of the request finds each free block that is    *)
(* large enough: none of them has fewer levels.                            *)
LEMMA FitsAll ==
    ASSUME HeapInv(heap), NEW n \in Nat, n >= MinSize
    PROVE  Fits(n) = {a \in FreeOf(heap) : heap.size[a] >= n}
<1> DEFINE S == FreeOf(heap)
           i == FewestLevels(n)
<1>1. /\ Listed(heap, S) /\ Apart(S) /\ heap \in HeapType /\ S \subseteq Addrs
      /\ \A a \in S : FewestLevels(heap.size[a]) <= heap.levels[a] /\ heap.size[a] \in Nat
  BY HeapTypes
<1>2. i \in 1 .. kMaxLevel - 1 /\ i \in Levels
  <2>1. i \in 1 .. kMaxLevel - 1
    <3>1. IntLog2(n) + 1 \in Nat \ {0}
      BY IntLog2Type
    <3> QED BY <3>1, ClipOf DEF FewestLevels
  <2> QED BY <2>1, Numbers DEF Levels
<1>3. \A a \in S : heap.size[a] >= n => i <= heap.levels[a]
  <2> SUFFICES ASSUME NEW a \in S, heap.size[a] >= n
               PROVE  i <= heap.levels[a]
    OBVIOUS
  <2> DEFINE t == heap.size[a]
  <2>1. t \in Nat /\ n <= t
    BY <1>1
  <2> HIDE DEF t
  <2>2. i <= FewestLevels(t)
    BY <2>1, FewestLevelsGrow
  <2>3. FewestLevels(t) \in 1 .. kMaxLevel - 1
    <3>1. IntLog2(t) + 1 \in Nat \ {0} /\ t >= MinSize
      BY <2>1, IntLog2Type DEF MinSize
    <3> QED BY <2>1, <3>1, ClipOf DEF FewestLevels
  <2>4. FewestLevels(t) <= heap.levels[a] /\ heap.levels[a] \in 0 .. kMaxLevel - 1
    BY <1>1 DEF t, HeapType
  <2> HIDE DEF i
  <2> QED BY <1>2, <2>2, <2>3, <2>4, Numbers
<1> HIDE DEF i, S
<1>4. On(heap, S, i) = {a \in S : heap.levels[a] >= i}
  BY DEF On
<1>5. heap.levels[Freelist] >= i <=> On(heap, S, i) # {}
  BY <1>1, <1>2 DEF Listed
<1>6. OnLevel(heap, i) = On(heap, S, i)
  BY <1>1, <1>2, Walk
<1>7. heap.levels[Freelist] \in Nat /\ i \in Nat /\ \A a \in S : heap.levels[a] \in Nat
  BY <1>1, <1>2, Numbers DEF HeapType
<1>8. Fits(n) = IF i > heap.levels[Freelist] THEN {}
                ELSE {a \in OnLevel(heap, i) : heap.size[a] >= n}
  BY DEF Fits, i
<1>9. Fits(n) = {a \in S : heap.size[a] >= n}
  <2>1. CASE i > heap.levels[Freelist]
    <3>1. On(heap, S, i) = {}
      BY <1>5, <1>7, <2>1
    <3> QED BY <1>3, <1>4, <1>7, <1>8, <2>1, <3>1
  <2>2. CASE ~ (i > heap.levels[Freelist])
    BY <1>3, <1>4, <1>6, <1>7, <1>8, <2>2
  <2> QED BY <2>1, <2>2
<1> QED BY <1>9 DEF S

ArenaStep == Arena!Ask \/ Arena!Grow \/ Arena!Give \/ Arena!Free
AllocStep == Next \/ UNCHANGED vars

(* An arena without memory. *)
LEMMA AllocInitial ==
    ASSUME Init
    PROVE  AllocInv /\ Arena!Init
<1>1. /\ heap \in HeapType
      /\ \A a \in Addrs : heap.magic[a] = "none"
      /\ \A a \in Addrs \cup {Freelist} : heap.levels[a] = 0
      /\ \A i \in Levels : heap.next[Freelist][i] = Null
  <2>1. NoNext \in [Levels -> Addrs \cup {Null}] /\ \A i \in Levels : NoNext[i] = Null
    BY DEF NoNext
  <2>2. 0 \in 0 .. kMaxLevel - 1
    BY Numbers
  <2> DEFINE s == [a \in Addrs |-> 0]
             m == [a \in Addrs |-> "none"]
             l == [a \in Addrs \cup {Freelist} |-> 0]
             n == [a \in Addrs \cup {Freelist} |-> NoNext]
  <2>3. /\ s \in [Addrs -> Nat] /\ m \in [Addrs -> {"none", "allocated", "unallocated"}]
        /\ l \in [Addrs \cup {Freelist} -> 0 .. kMaxLevel - 1]
        /\ n \in [Addrs \cup {Freelist} -> [Levels -> Addrs \cup {Null}]]
    BY <2>1, <2>2
  <2>4. /\ \A a \in Addrs : m[a] = "none"
        /\ \A a \in Addrs \cup {Freelist} : l[a] = 0
        /\ \A i \in Levels : n[Freelist][i] = Null
    BY <2>1
  <2>5. heap = [size |-> s, magic |-> m, levels |-> l, next |-> n]
    BY DEF Init
  <2> HIDE DEF s, m, l, n
  <2>6. heap.size = s /\ heap.magic = m /\ heap.levels = l /\ heap.next = n
    BY <2>5
  <2>7. heap \in HeapType
    BY <2>3, <2>5 DEF HeapType
  <2> QED BY <2>4, <2>6, <2>7
<1>2. FreeOf(heap) = {} /\ BlocksOf(heap) = {} /\ Held(heap) = {} /\ Owned = {}
  BY <1>1 DEF FreeOf, BlocksOf, Held, Init, Owned
<1>3. Listed(heap, {})
  <2>1. \A i \in Levels : On(heap, {}, i) = {}
    BY DEF On
  <2>2. \A i \in Levels : ~ (heap.levels[Freelist] >= i)
    BY <1>1, Numbers
  <2>3. \A i \in Levels : \A a \in {Freelist} \cup On(heap, {}, i) :
           Follows(On(heap, {}, i), a, heap.next[a][i])
    BY <1>1, <2>1 DEF Follows
  <2> QED BY <1>1, <2>1, <2>2, <2>3 DEF Listed
<1>4. HeapInv(heap)
  BY <1>2, <1>3 DEF HeapInv, Orderly, Tiled, NoTouch
<1>5. Covered(heap) = {} /\ GivenOf(heap) = {}
  BY <1>2 DEF Covered, Cover, GivenOf
<1>6. AllocInv
  BY <1>2, <1>4, <1>5, FS_EmptySet DEF AllocInv, Init
<1>7. Arena!Init
  BY <1>2, <1>5, SameNames DEF Arena!Init, Init
<1> QED BY <1>6, <1>7

(* A call begins. *)
LEMMA AskStep ==
    ASSUME AllocInv, NEW r \in Requests, AllocWithArena(r)
    PROVE  AllocInv' /\ ArenaStep
<1>1. /\ request = 0 /\ request' = r /\ grown' = 0
      /\ heap' = heap /\ regions' = regions /\ allocation_count' = allocation_count
  BY DEF AllocWithArena
<1>2. AllocInv'
  BY <1>1 DEF AllocInv, HeapInv, Covered, Owned, GivenOf, Held, BlocksOf, FreeOf
<1>3. r \in Nat \ {0}
  BY AllocAssumption DEF MinSize
<1>4. Owned' = Owned /\ Given' = Given
  BY <1>1 DEF Owned, Given, Blocks, FreeBlocks
<1>5. Arena!Ask
  BY <1>1, <1>3, <1>4 DEF Arena!Ask
<1> QED BY <1>2, <1>5 DEF ArenaStep

(* A request is a size that has its header. *)
LEMMA RequestType ==
    ASSUME AllocInv, request # 0
    PROVE  request \in Nat /\ request >= MinSize /\ request >= 2
BY AllocAssumption DEF AllocInv, MinSize

(* VirtualAlloc: the arena grows, the blocks that are out do not move. *)
LEMMA NewPagesStep ==
    ASSUME AllocInv, NewPages
    PROVE  AllocInv' /\ ArenaStep
<1> DEFINE n == RoundUp(request, PageRun)
<1>1. request # 0 /\ request \in Nat /\ request >= MinSize
  BY RequestType DEF NewPages
<1>2. PICK p \in Vacant(n) :
         /\ regions' = regions \cup {[at |-> p, size |-> n]}
         /\ heap' \in AddToFreelist([heap EXCEPT !.size[p] = n], p)
  BY DEF NewPages
<1>3. /\ grown' = grown + 1 /\ allocation_count' = allocation_count /\ request' = request
      /\ Fits(request) = {}
  BY DEF NewPages
<1>4. n \in Nat /\ n >= request /\ n >= MinSize
  <2> DEFINE q == (request + PageRun - 1) \div PageRun
  <2>1. PageRun \in Nat \ {0} /\ request + PageRun - 1 \in Nat
    BY <1>1, AllocAssumption
  <2>2. q \in Nat /\ (request + PageRun - 1) - PageRun * q < PageRun
    BY <2>1
  <2>3. n = q * PageRun
    BY DEF RoundUp
  <2> HIDE DEF q, n
  <2>4. n \in Nat /\ n = PageRun * q
    BY <2>1, <2>2, <2>3
  <2>5. n >= request
    BY <1>1, <2>1, <2>2, <2>4
  <2> QED BY <1>1, <2>4, <2>5 DEF MinSize
<1>5. /\ p \in Addrs /\ p + n - 1 <= MemorySize
      /\ \A r \in regions : p + n <= r.at \/ r.at + r.size <= p
  BY DEF Vacant
<1> HIDE DEF n
<1>6. \A z \in p .. p + n - 1 : z \notin Covered(heap)
  <2>1. Covered(heap) = Owned
    BY DEF AllocInv
  <2>2. ASSUME NEW r \in regions, NEW z \in p .. p + n - 1
        PROVE  z \notin r.at .. r.at + r.size - 1
    <3>1. r.at \in Nat /\ r.size \in Nat /\ p \in Nat
      BY <1>5, Numbers DEF AllocInv
    <3> QED BY <1>4, <1>5, <3>1
  <2> QED BY <2>1, <2>2 DEF Owned
<1>7. /\ HeapInv(heap)' /\ Covered(heap)' = Covered(heap) \cup (p .. p + n - 1)
      /\ Held(heap)' = Held(heap)
      /\ \A b \in Held(heap)' : heap'.size[b] = heap.size[b]
      /\ \E b \in FreeOf(heap)' : heap'.size[b] >= n
  <2>1. HeapInv(heap)
    BY DEF AllocInv
  <2>2. /\ HeapInv(heap') /\ Covered(heap') = Covered(heap) \cup (p .. p + n - 1)
        /\ Held(heap') = Held(heap)
        /\ \A b \in Held(heap') : heap'.size[b] = heap.size[b]
        /\ \E b \in FreeOf(heap') : heap'.size[b] >= n
    BY <1>2, <1>4, <1>5, <1>6, <2>1, NewPagesKeep
  <2> QED BY <2>2
<1>8. grown = 0 /\ grown' = 1
  <2>1. ~ \E a \in FreeOf(heap) : heap.size[a] >= request
    <3>1. Fits(request) = {a \in FreeOf(heap) : heap.size[a] >= request}
      BY <1>1, FitsAll DEF AllocInv
    <3> QED BY <1>3, <3>1
  <2>2. grown = 0
    BY <1>1, <2>1 DEF AllocInv
  <2> QED BY <1>3, <2>2
<1>9. \E a \in FreeOf(heap') : heap'.size[a] >= request'
  <2>1. PICK b \in FreeOf(heap') : heap'.size[b] >= n
    BY <1>7
  <2>2. heap'.size[b] \in Nat
    BY <1>7, HeapTypes, <2>1
  <2> QED BY <1>1, <1>3, <1>4, <2>1, <2>2
<1>10. GivenOf(heap') = GivenOf(heap)
  BY <1>7 DEF GivenOf
<1>11. Owned' = Owned \cup (p .. p + n - 1)
  <2> DEFINE new == [at |-> p, size |-> n]
  <2>1. new.at = p /\ new.size = n /\ regions' = regions \cup {new}
    BY <1>2
  <2> HIDE DEF new
  <2> QED BY <2>1 DEF Owned
<1>12. \A r \in regions' : r.at \in Addrs /\ r.size \in Nat /\ r.at + r.size - 1 <= MemorySize
  BY <1>2, <1>4, <1>5 DEF AllocInv
<1>13. AllocInv'
  <2>1. Covered(heap') = Owned'
    BY <1>7, <1>11 DEF AllocInv
  <2>2. HeapInv(heap')
    BY <1>7
  <2>3. /\ allocation_count' = Cardinality(GivenOf(heap'))
        /\ request' \in Requests \cup {0}
    BY <1>3, <1>10 DEF AllocInv
  <2>4. grown' \in {0, 1}
    BY <1>8
  <2> QED BY <1>9, <1>12, <2>1, <2>2, <2>3, <2>4 DEF AllocInv
<1>14. Given' = Given
  <2>1. Given' = GivenOf(heap') /\ Given = GivenOf(heap)
    BY DEF Given, GivenOf, Held, BlocksOf, FreeOf, Blocks, FreeBlocks
  <2> QED BY <1>10, <2>1
<1>15. Arena!Grow
  BY <1>1, <1>3, <1>11, <1>14 DEF Arena!Grow
<1> QED BY <1>13, <1>15 DEF ArenaStep
(* The call ends with the first block that is large enough. *)
LEMMA FoundStep ==
    ASSUME AllocInv, Found
    PROVE  AllocInv' /\ ArenaStep
<1> DEFINE s == Min(Fits(request))
<1>1. /\ request # 0 /\ request \in Nat /\ request >= MinSize /\ Fits(request) # {}
      /\ heap' \in Split(heap, s, request)
      /\ allocation_count' = allocation_count + 1 /\ request' = 0
      /\ regions' = regions /\ grown' = grown
  BY RequestType DEF Found
<1>2. HeapInv(heap) /\ Covered(heap) = Owned
  BY DEF AllocInv
<1>3. s \in FreeOf(heap) /\ heap.size[s] >= request
  <2>1. Fits(request) = {a \in FreeOf(heap) : heap.size[a] >= request}
    BY <1>1, <1>2, FitsAll
  <2>2. Fits(request) \in SUBSET Nat
    BY <2>1, Numbers DEF FreeOf
  <2>3. s \in Fits(request)
    BY <1>1, <2>2, MinOf
  <2> QED BY <2>1, <2>3
<1>4. Covered(heap) \subseteq Addrs
  <2> SUFFICES ASSUME NEW z \in Owned
               PROVE  z \in Addrs
    BY <1>2
  <2>1. PICK r \in regions : z \in r.at .. r.at + r.size - 1
    BY DEF Owned
  <2>2. r.at \in Addrs /\ r.size \in Nat /\ r.at + r.size - 1 <= MemorySize
    BY DEF AllocInv
  <2> QED BY <2>1, <2>2, AllocAssumption DEF Addrs
<1> HIDE DEF s
<1>5. Handed(heap', heap, s, request)
  BY <1>1, <1>2, <1>3, <1>4, SplitHands
<1>6. /\ HeapInv(heap') /\ Covered(heap') = Covered(heap)
      /\ s \notin Held(heap) /\ Held(heap') = Held(heap) \cup {s}
      /\ \A b \in Held(heap) : heap'.size[b] = heap.size[b]
      /\ heap'.size[s] >= request /\ heap'.size[s] < request + MinSize
  BY <1>5 DEF Handed
<1> DEFINE new == [at |-> s, size |-> heap'.size[s]]
           old == GivenOf(heap)
<1>7. GivenOf(heap') = old \cup {new}
  BY <1>6 DEF GivenOf
<1>8. \A c \in old : c.at \in Held(heap) /\ c.size = heap.size[c.at]
  BY DEF GivenOf
<1>9. new.at = s /\ new.size = heap'.size[s]
  OBVIOUS
<1> HIDE DEF new, old
<1>10. new \notin old
  BY <1>6, <1>8, <1>9
<1>11. IsFiniteSet(old)
  BY <1>2, HeapTypes DEF old
<1>12. allocation_count' = Cardinality(GivenOf(heap'))
  <2>1. Cardinality(old \cup {new}) = Cardinality(old) + 1
    BY <1>10, <1>11, FS_AddElement
  <2>2. allocation_count = Cardinality(old)
    BY DEF AllocInv, old
  <2> QED BY <1>1, <1>7, <2>1, <2>2
<1>13. Owned' = Owned
  BY <1>1 DEF Owned
<1>14. AllocInv'
  <2>1. /\ HeapInv(heap') /\ Covered(heap') = Owned' /\ request' = 0
    BY <1>1, <1>2, <1>6, <1>13
  <2>2. \A r \in regions' : r.at \in Addrs /\ r.size \in Nat /\ r.at + r.size - 1 <= MemorySize
    BY <1>1 DEF AllocInv
  <2>3. grown' \in {0, 1}
    BY <1>1 DEF AllocInv
  <2> QED BY <1>12, <2>1, <2>2, <2>3 DEF AllocInv
<1>15. Given' = old \cup {new} /\ Given = old
  <2>1. Given' = GivenOf(heap') /\ Given = GivenOf(heap)
    BY DEF Given, GivenOf, Held, BlocksOf, FreeOf, Blocks, FreeBlocks
  <2> QED BY <1>7, <2>1 DEF old
<1>16. /\ s \in Nat \ {0} /\ heap'.size[s] \in Nat
       /\ \A b \in Held(heap') : b \in Nat \ {0} /\ heap'.size[b] \in Nat
       /\ \A a, b \in Held(heap') : a < b => a + heap'.size[a] <= b
       /\ \A b \in Held(heap') : \A z \in b .. b + heap'.size[b] - 1 : z \in Covered(heap')
  <2>1. /\ Held(heap') \subseteq BlocksOf(heap')
        /\ \A a \in BlocksOf(heap') : a \in Nat \ {0} /\ heap'.size[a] \in Nat
        /\ Tiled(heap', BlocksOf(heap'))
    BY <1>6, HeapTypes DEF Held
  <2> QED BY <1>6, <2>1 DEF Tiled, Covered, Cover
<1>17. /\ new.size \in request .. request + (MinSize - 1)
       /\ Arena!Units(new) \subseteq Owned
  <2>1. new.size \in request .. request + (MinSize - 1)
    BY <1>1, <1>6, <1>9, <1>16 DEF MinSize
  <2>2. Arena!Units(new) = s .. s + heap'.size[s] - 1
    BY <1>9 DEF Arena!Units
  <2>3. Arena!Units(new) \subseteq Owned
    BY <1>2, <1>6, <1>16, <2>2
  <2> QED BY <2>1, <2>3
<1>18. ASSUME NEW c \in old
       PROVE  Arena!Units(new) \cap Arena!Units(c) = {}
  <2> DEFINE a == c.at
  <2>1. a \in Held(heap) /\ c.size = heap'.size[a] /\ a # s /\ a \in Held(heap') /\ s \in Held(heap')
    BY <1>6, <1>8
  <2>2. /\ Arena!Units(c) = a .. a + heap'.size[a] - 1
        /\ Arena!Units(new) = s .. s + heap'.size[s] - 1
    BY <1>9, <2>1 DEF Arena!Units
  <2>3. a \in Nat /\ heap'.size[a] \in Nat /\ s \in Nat /\ heap'.size[s] \in Nat
    BY <1>16, <2>1
  <2>4. a + heap'.size[a] <= s \/ s + heap'.size[s] <= a
    <3> HIDE DEF a
    <3>1. a < s \/ s < a
      BY <2>1, <2>3
    <3> QED BY <1>16, <2>1, <3>1
  <2> HIDE DEF a
  <2> QED BY <2>2, <2>3, <2>4, SMTT(40)
<1>19. Arena!Give
  BY <1>1, <1>10, <1>13, <1>15, <1>17, <1>18 DEF Arena!Give
<1> QED BY <1>14, <1>19 DEF ArenaStep

(* LowLevelAlloc::Free *)
LEMMA FreeStep ==
    ASSUME AllocInv, NEW v \in Addrs, Free(v)
    PROVE  AllocInv' /\ ArenaStep
<1>1. /\ request = 0 /\ request' = 0 /\ heap.magic[v] = "allocated"
      /\ heap' \in AddToFreelist(heap, v)
      /\ allocation_count' = allocation_count - 1
      /\ regions' = regions /\ grown' = grown
  BY DEF Free
<1>2. HeapInv(heap) /\ Covered(heap) = Owned
  BY DEF AllocInv
<1>3. v \in Held(heap)
  BY <1>1 DEF Held, BlocksOf, FreeOf
<1>4. /\ HeapInv(heap') /\ Covered(heap') = Covered(heap)
      /\ Held(heap') = Held(heap) \ {v}
      /\ \A b \in Held(heap') : heap'.size[b] = heap.size[b]
  BY <1>1, <1>2, <1>3, FreeKeeps
<1> DEFINE gone == [at |-> v, size |-> heap.size[v]]
           old == GivenOf(heap)
<1>5. gone \in old
  BY <1>3 DEF GivenOf
<1>6. GivenOf(heap') = old \ {gone}
  <2>1. GivenOf(heap') = {[at |-> a, size |-> heap.size[a]] : a \in Held(heap) \ {v}}
    BY <1>4 DEF GivenOf
  <2>2. ASSUME NEW a \in Held(heap) \ {v}
        PROVE  [at |-> a, size |-> heap.size[a]] # gone
    <3>1. [at |-> a, size |-> heap.size[a]].at = a /\ gone.at = v
      OBVIOUS
    <3> HIDE DEF gone
    <3> QED BY <3>1
  <2>3. old \ {gone} \subseteq {[at |-> a, size |-> heap.size[a]] : a \in Held(heap) \ {v}}
    BY DEF GivenOf
  <2>4. {[at |-> a, size |-> heap.size[a]] : a \in Held(heap) \ {v}} \subseteq old
    BY DEF GivenOf
  <2> HIDE DEF gone, old
  <2> QED BY <2>1, <2>2, <2>3, <2>4
<1> HIDE DEF gone, old
<1>7. IsFiniteSet(old)
  BY <1>2, HeapTypes DEF old
<1>8. allocation_count' = Cardinality(GivenOf(heap'))
  <2>1. Cardinality(old \ {gone}) = Cardinality(old) - 1
    BY <1>5, <1>7, FS_RemoveElement
  <2>2. allocation_count = Cardinality(old)
    BY DEF AllocInv, old
  <2> QED BY <1>1, <1>6, <2>1, <2>2
<1>9. Owned' = Owned
  BY <1>1 DEF Owned
<1>10. AllocInv'
  <2>1. /\ HeapInv(heap') /\ Covered(heap') = Owned' /\ request' = 0
    BY <1>1, <1>2, <1>4, <1>9
  <2>2. \A r \in regions' : r.at \in Addrs /\ r.size \in Nat /\ r.at + r.size - 1 <= MemorySize
    BY <1>1 DEF AllocInv
  <2>3. grown' \in {0, 1}
    BY <1>1 DEF AllocInv
  <2> QED BY <1>8, <2>1, <2>2, <2>3 DEF AllocInv
<1>11. Given' = old \ {gone} /\ Given = old
  <2>1. Given' = GivenOf(heap') /\ Given = GivenOf(heap)
    BY DEF Given, GivenOf, Held, BlocksOf, FreeOf, Blocks, FreeBlocks
  <2> QED BY <1>6, <2>1 DEF old
<1>12. Arena!Free
  BY <1>1, <1>5, <1>9, <1>11 DEF Arena!Free
<1> QED BY <1>10, <1>12 DEF ArenaStep

(* Each step keeps the invariant and is one that ArenaMemory allows. *)
LEMMA AllocStepped ==
    ASSUME AllocInv, AllocStep
    PROVE  AllocInv' /\ (ArenaStep \/ UNCHANGED <<Owned, Given, request>>)
<1>1. CASE \E r \in Requests : AllocWithArena(r)
  BY <1>1, AskStep
<1>2. CASE NewPages
  BY <1>2, NewPagesStep
<1>3. CASE Found
  BY <1>3, FoundStep
<1>4. CASE \E v \in Addrs : Free(v)
  BY <1>4, FreeStep
<1>5. CASE UNCHANGED vars
  <2>1. /\ heap' = heap /\ regions' = regions /\ allocation_count' = allocation_count
        /\ request' = request /\ grown' = grown
    BY <1>5 DEF vars
  <2>2. Owned' = Owned /\ Given' = Given
    BY <2>1 DEF Owned, Given, Blocks, FreeBlocks
  <2>3. AllocInv'
    BY <2>1 DEF AllocInv, HeapInv, Covered, Owned, GivenOf, Held, BlocksOf, FreeOf
  <2> QED BY <2>1, <2>2, <2>3
<1> QED BY <1>1, <1>2, <1>3, <1>4, <1>5 DEF AllocStep, Next

(* The skip list, the blocks and the pages of the arena stay what they are *)
(* said to be, for any size of memory and whatever levels are drawn.       *)
THEOREM AllocInvariance == Spec => []AllocInv
<1>1. Init => AllocInv
  BY AllocInitial
<1>2. AllocInv /\ [Next]_vars => AllocInv'
  BY AllocStepped DEF AllocStep
<1> QED BY <1>1, <1>2, PTL DEF Spec

(* However blocks are split and merged, each unit of the pages is in one   *)
(* block, the count is that of the blocks handed out, and no two free      *)
(* blocks touch.                                                           *)
THEOREM NoUnitIsLost == Spec => []BlocksTileTheRegions
<1>1. AllocInv => BlocksTileTheRegions
  <2> SUFFICES ASSUME AllocInv
               PROVE  BlocksTileTheRegions
    OBVIOUS
  <2>1. /\ HeapInv(heap) /\ Covered(heap) = Owned /\ allocation_count = Cardinality(Given)
        /\ Blocks = BlocksOf(heap) /\ FreeBlocks = FreeOf(heap)
    BY SameNames DEF AllocInv
  <2>2. /\ \A a \in Blocks : a \in Nat \ {0} /\ heap.size[a] \in Nat
        /\ \A a, b \in Blocks : a < b => a + heap.size[a] <= b
    BY <2>1, HeapTypes DEF Tiled
  <2>3. Owned = UNION {Units(a) : a \in Blocks}
    BY <2>1 DEF Covered, Cover, Units
  <2>4. ASSUME NEW a \in Blocks, NEW b \in Blocks, a # b
        PROVE  Units(a) \cap Units(b) = {}
    <3>1. a + heap.size[a] <= b \/ b + heap.size[b] <= a
      <4>1. a < b \/ b < a
        BY <2>2, <2>4
      <4> QED BY <2>2, <4>1
    <3> QED BY <2>2, <3>1 DEF Units
  <2>5. \A a, b \in FreeBlocks : a + heap.size[a] # b
    BY <2>1 DEF HeapInv, NoTouch
  <2> QED BY <2>1, <2>3, <2>4, <2>5 DEF BlocksTileTheRegions
<1> QED BY <1>1, AllocInvariance, PTL

(* Each level of the skip list leads upwards to exactly the free blocks    *)
(* that have it, whatever levels are drawn.                                *)
THEOREM SkipListStaysExact == Spec => []SkipListIsExact
<1>1. AllocInv => SkipListIsExact
  <2> SUFFICES ASSUME AllocInv, NEW i \in Levels
               PROVE  LET there == {a \in FreeBlocks : heap.levels[a] >= i}
                      IN /\ OnLevel(heap, i) = there
                         /\ heap.levels[Freelist] >= i <=> there # {}
                         /\ \A a \in there : heap.next[a][i] \in there \cup {Null}
                         /\ \A a \in there : heap.next[a][i] # Null => a < heap.next[a][i]
    BY DEF SkipListIsExact
  <2> DEFINE S == FreeOf(heap)
             T == On(heap, S, i)
  <2>1. Listed(heap, S) /\ Apart(S)
    BY HeapTypes DEF AllocInv
  <2>2. T = {a \in FreeBlocks : heap.levels[a] >= i}
    BY SameNames DEF On
  <2> HIDE DEF S
  <2>3. /\ OnLevel(heap, i) = T
        /\ heap.levels[Freelist] >= i <=> T # {}
        /\ \A a \in T : Follows(T, a, heap.next[a][i])
    BY <2>1, Walk DEF Listed
  <2> HIDE DEF T
  <2>4. \A a \in T : /\ heap.next[a][i] \in T \cup {Null}
                     /\ heap.next[a][i] # Null => a < heap.next[a][i]
    BY <2>3 DEF Follows
  <2> QED BY <2>2, <2>3, <2>4
<1> QED BY <1>1, AllocInvariance, PTL

(* The search at the level of the request misses no block that is large    *)
(* enough, so VirtualAlloc is called at most once for a call.              *)
THEOREM WindowsAskedOnce == Spec => []WindowsIsAskedOnce
<1>1. AllocInv => WindowsIsAskedOnce
  <2> SUFFICES ASSUME AllocInv
               PROVE  WindowsIsAskedOnce
    OBVIOUS
  <2>1. grown <= 1
    BY DEF AllocInv
  <2>2. ASSUME request # 0, Fits(request) = {}
        PROVE  grown = 0 /\ \A a \in FreeBlocks : heap.size[a] < request
    <3>1. request \in Nat /\ request >= MinSize
      BY <2>2, RequestType
    <3>2. Fits(request) = {a \in FreeOf(heap) : heap.size[a] >= request}
      BY <3>1, FitsAll DEF AllocInv
    <3>3. \A a \in FreeOf(heap) : heap.size[a] \in Nat
      BY HeapTypes DEF AllocInv
    <3>4. \A a \in FreeOf(heap) : heap.size[a] < request
      BY <2>2, <3>1, <3>2, <3>3
    <3>5. grown = 0
      BY <2>2, <3>2 DEF AllocInv
    <3> QED BY <3>4, <3>5, SameNames
  <2> QED BY <2>1, <2>2 DEF WindowsIsAskedOnce
<1> QED BY <1>1, AllocInvariance, PTL

(* LowLevelAlloc keeps what ArenaMemory promises the graph: blocks that    *)
(* are large enough, overlap no other and stay as they are until freed.    *)
THEOREM AllocatorKeepsItsPromise == Spec => RefinesArenaMemory
<1>1. Init => Arena!Init
  BY AllocInitial
<1>2. AllocInv /\ [Next]_vars => [ArenaStep]_(Arena!vars)
  BY AllocStepped DEF AllocStep, Arena!vars
<1>3. AllocInv /\ [Next]_vars
        => [Arena!Ask \/ Arena!Grow \/ Arena!Give \/ Arena!Free]_(Arena!vars)
  BY <1>2 DEF ArenaStep
<1> QED BY <1>1, <1>3, AllocInvariance, PTL DEF Spec, RefinesArenaMemory, Arena!Spec

-----------------------------------------------------------------------------
(* The containers side by side: the parts of a behaviour are one of them.  *)
BothInv == SetInv /\ MapInv
StorageStep == \/ InArena \/ InSet \/ InMap \/ InReport \/ ReportIsOut
               \/ UNCHANGED <<vars, setVars, mapVars, reportVars, part>>

(* Side by side, each container keeps its own invariant. *)
LEMMA StorageStepped ==
    ASSUME BothInv, StorageStep
    PROVE  BothInv'
<1>1. ASSUME SetNext \/ UNCHANGED setVars
      PROVE  SetInv'
  BY <1>1, SetStepped DEF BothInv, SetStep
<1>2. ASSUME MapNext \/ UNCHANGED mapVars
      PROVE  MapInv'
  BY <1>2, MapStepped DEF BothInv, MapStep
<1> QED BY <1>1, <1>2 DEF StorageStep, BothInv, InArena, InSet, InMap, InReport, ReportIsOut

(* Whatever a node set and the free list grow out of, are moved out of or  *)
(* are cleared from, the arena gets the block back, once: it has a block   *)
(* behind each of them that has outgrown its inline storage, and no other. *)
THEOREM BlocksAreGivenBack == StorageSpec => []BlocksAreOwned
<1>1. StorageInit => BothInv
  BY SetInitial, MapInitial DEF StorageInit, BothInv
<1>2. BothInv /\ StorageStep => BothInv'
  BY StorageStepped
<1>3. BothInv => BlocksAreOwned
  BY DEF BothInv, BlocksAreOwned, SetInv, TableOwned, MapInv, ListOwned
<1>4. [InArena \/ InSet \/ InMap \/ InReport \/ ReportIsOut]_<<vars, setVars, mapVars, reportVars, part>>
        => StorageStep
  BY DEF StorageStep
<1> QED BY <1>1, <1>2, <1>3, <1>4, PTL DEF StorageSpec

=============================================================================
