---------------------------- MODULE LowLevelAlloc ----------------------------
(***************************************************************************)
(* helper/low_level_alloc.cc: the allocator of the graph, which may not    *)
(* call malloc since malloc is monitored.  One arena: memory from Windows  *)
(* is divided into blocks, the free ones are kept in a skip list in the    *)
(* order of their addresses and are merged when they touch.  All calls are *)
(* made under the lock of the graph, one at a time.                        *)
(*                                                                         *)
(* Addresses and sizes count units of round_up; a size has the unit of the *)
(* header in it.  The levels of the skip list count from 1.  What a block  *)
(* holds while its client has it is not looked at.                         *)
(***************************************************************************)
EXTENDS Integers, FiniteSets, FiniteSetsExt

CONSTANTS MemorySize,  \* bound: units of memory Windows has
          PageRun,     \* units of pagesize * 16
          kMaxLevel,
          Requests,    \* the sizes asked for, with the header, rounded up
          Null

UnitBytes == 32                                  \* round_up
MinSize == 2                                     \* min_size is 2 * round_up
Freelist == 0                                    \* &arena->freelist
Addrs == 1 .. MemorySize
Levels == 1 .. kMaxLevel

ASSUME AllocAssumption ==
    /\ PageRun \in Nat \ {0} /\ MemorySize \in Nat
    /\ kMaxLevel \in Nat \ {0, 1}
    /\ Requests \subseteq Nat /\ \A r \in Requests : r >= MinSize
    /\ Null \notin 0 .. MemorySize

VARIABLES heap,              \* the headers: size, magic; the skip list: levels, next
          regions,           \* what VirtualAlloc has returned
          allocation_count,
          request,           \* the size a call in progress needs, 0 if there is none
          grown              \* how often that call has asked Windows for memory

vars == <<heap, regions, allocation_count, request, grown>>

NoNext == [i \in Levels |-> Null]

Init == /\ heap = [size   |-> [a \in Addrs |-> 0],
                   magic  |-> [a \in Addrs |-> "none"],
                   levels |-> [a \in Addrs \cup {Freelist} |-> 0],
                   next   |-> [a \in Addrs \cup {Freelist} |-> NoNext]]
        /\ regions = {}
        /\ allocation_count = 0
        /\ request = 0
        /\ grown = 0

-----------------------------------------------------------------------------
(* The skip list                                                           *)

\* How often the bytes of s can be halved until they are at most the base.
IntLog2(s) ==
    LET half[r \in 0 .. s] == IF r = 0 THEN UnitBytes * s ELSE half[r - 1] \div 2
    IN Min({r \in 0 .. s : half[r] <= UnitBytes * MinSize})

\* The levels whose pointers fit into a block: the fields in front of next take
\* 40 bytes, a pointer 8.
MaxFit(s) == (UnitBytes * s - 40) \div 8

Clip(l, s) == Min({l, MaxFit(s), kMaxLevel - 1})

\* Mutant: a search begins one level too high.
FewestLevelsHigh(s) == Clip(IntLog2(s) + 2, s)

\* LLA_SkiplistLevels, without and with a random number.
FewestLevels(s) == Clip(IntLog2(s) + 1, s)
SkiplistLevels(s) == {Clip(IntLog2(s) + r, s) : r \in Levels}

\* The blocks a walk along level i meets.
OnLevel(h, i) ==
    LET met[k \in 0 .. MemorySize \div MinSize] ==
          IF k = 0 THEN {h.next[Freelist][i]} \ {Null}
          ELSE LET m == met[k - 1] IN m \cup ({h.next[a][i] : a \in m} \ {Null})
    IN met[MemorySize \div MinSize]

\* LLA_SkiplistSearch: the last block before e on level i.
Prev(h, i, e) == Max({Freelist} \cup {p \in OnLevel(h, i) : p < e})

\* The places next[i] in front of e, on each of its levels.
Before(h, e) == {<<Prev(h, i, e), i>> : i \in 1 .. h.levels[e]}

\* LLA_SkiplistInsert of a block whose levels are set
Insert(h, e) ==
    LET prev == Before(h, e)
        next == [a \in DOMAIN h.next |-> [i \in Levels |->
                   IF <<a, i>> \in prev THEN e
                   ELSE IF a # e \/ i > h.levels[e] THEN h.next[a][i]
                   ELSE LET p == CHOOSE q \in prev : q[2] = i IN h.next[p[1]][i]]]
    IN [h EXCEPT !.next = next,
                 !.levels[Freelist] = Max({@, h.levels[e]})]

\* The list after the places prev were led to what follows e; the pointers of e
\* are memory of the client afterwards.
Unlinked(h, e, prev) ==
    LET next == [a \in DOMAIN h.next |-> [i \in Levels |->
                   IF <<a, i>> \in prev THEN h.next[e][i]
                   ELSE IF a = e THEN Null ELSE h.next[a][i]]]
        used == {i \in 1 .. h.levels[Freelist] : next[Freelist][i] # Null}
    IN [h EXCEPT !.next = next,
                 !.levels[Freelist] = Max({0} \cup used),
                 !.levels[e] = 0]

\* Mutant: the lowest level is not unlinked.
DeleteUpper(h, e) == Unlinked(h, e, {p \in Before(h, e) : p[2] # 1 /\ h.next[p[1]][p[2]] = e})

\* LLA_SkiplistDelete
Delete(h, e) == Unlinked(h, e, {p \in Before(h, e) : h.next[p[1]][p[2]] = e})

-----------------------------------------------------------------------------
(* The blocks.  Levels are random: the operators return every heap that    *)
(* may follow.                                                             *)

\* Mutant: the merged block keeps its size.
CoalesceNoSize(h, a) ==
    LET n == h.next[a][1] IN
    IF n = Null \/ a = Freelist \/ a + h.size[a] # n THEN {h}
    ELSE LET g == Delete(Delete([h EXCEPT !.size[n] = 0, !.magic[n] = "none"], n), a)
         IN {Insert([g EXCEPT !.levels[a] = l], a) : l \in SkiplistLevels(g.size[a])}

\* Coalesce: a with its successor; the head of the list touches no block.
Coalesce(h, a) ==
    LET n == h.next[a][1] IN
    IF n = Null \/ a = Freelist \/ a + h.size[a] # n THEN {h}
    ELSE LET g == Delete(Delete([h EXCEPT !.size[a] = @ + h.size[n], !.size[n] = 0,
                                          !.magic[n] = "none"], n), a)
         IN {Insert([g EXCEPT !.levels[a] = l], a) : l \in SkiplistLevels(g.size[a])}

AddToFreelist(h, f) ==
    UNION {LET g == Insert([h EXCEPT !.levels[f] = l, !.magic[f] = "unallocated"], f)
           IN UNION {Coalesce(k, Prev(g, 1, f)) : k \in Coalesce(g, f)}
           : l \in SkiplistLevels(h.size[f])}

\* The block s leaves the free list; what it has too much goes back.
Split(h, s, req) ==
    LET g == Delete(h, s)
        rest == s + req
        parts == IF req + MinSize <= h.size[s]
                 THEN AddToFreelist([g EXCEPT !.size[rest] = h.size[s] - req,
                                              !.size[s] = req], rest)
                 ELSE {g}
    IN {[k EXCEPT !.magic[s] = "allocated"] : k \in parts}

-----------------------------------------------------------------------------
(* DoAllocWithArena and Free                                               *)

RoundUp(s, align) == ((s + align - 1) \div align) * align

\* Mutant: the first block of the level is taken for large enough.
FitsAny(req) ==
    LET i == FewestLevels(req)
    IN IF i > heap.levels[Freelist] THEN {} ELSE OnLevel(heap, i)

\* The regions the search at the level of the request can find.
Fits(req) ==
    LET i == FewestLevels(req)
    IN IF i > heap.levels[Freelist] THEN {}
       ELSE {s \in OnLevel(heap, i) : heap.size[s] >= req}

\* Where Windows still has that much memory.
Vacant(size) == {p \in Addrs :
                    /\ p + size - 1 <= MemorySize
                    /\ \A r \in regions : p + size <= r.at \/ r.at + r.size <= p
                    /\ (p - 1) % PageRun = 0}

\* Bound: a call is made only while it can be served.
AllocWithArena(req) ==
    /\ request = 0
    /\ Fits(req) # {} \/ Vacant(RoundUp(req, PageRun)) # {}
    /\ request' = req
    /\ grown' = 0
    /\ UNCHANGED <<heap, regions, allocation_count>>

NewPages ==
    /\ request # 0 /\ Fits(request) = {}
    /\ LET size == RoundUp(request, PageRun) IN
       \E p \in Vacant(size) :
          /\ regions' = regions \cup {[at |-> p, size |-> size]}
          /\ heap' \in AddToFreelist([heap EXCEPT !.size[p] = size], p)
    /\ grown' = grown + 1
    /\ UNCHANGED <<allocation_count, request>>

Found ==
    /\ request # 0 /\ Fits(request) # {}
    /\ heap' \in Split(heap, Min(Fits(request)), request)
    /\ allocation_count' = allocation_count + 1
    /\ request' = 0
    /\ UNCHANGED <<regions, grown>>

Free(v) ==
    /\ request = 0
    /\ heap.magic[v] = "allocated"
    /\ heap' \in AddToFreelist(heap, v)
    /\ allocation_count' = allocation_count - 1
    /\ UNCHANGED <<regions, request, grown>>

Next == \/ \E r \in Requests : AllocWithArena(r)
        \/ NewPages \/ Found
        \/ \E v \in Addrs : Free(v)

Spec == Init /\ [][Next]_vars

-----------------------------------------------------------------------------
TypeOK ==
    /\ heap \in [size   : [Addrs -> 0 .. MemorySize],
                 magic  : [Addrs -> {"none", "allocated", "unallocated"}],
                 levels : [Addrs \cup {Freelist} -> 0 .. kMaxLevel - 1],
                 next   : [Addrs \cup {Freelist} -> [Levels -> Addrs \cup {Null}]]]
    /\ regions \subseteq [at : Addrs, size : 1 .. MemorySize]
    /\ allocation_count \in 0 .. MemorySize
    /\ request \in Requests \cup {0}
    /\ grown \in Nat

Blocks == {a \in Addrs : heap.magic[a] # "none"}
FreeBlocks == {a \in Addrs : heap.magic[a] = "unallocated"}
Given == {[at |-> a, size |-> heap.size[a]] : a \in Blocks \ FreeBlocks}
Units(a) == a .. a + heap.size[a] - 1
Owned == UNION {r.at .. r.at + r.size - 1 : r \in regions}

(* No unit of memory is lost or in two blocks, however blocks are split and *)
(* merged, also across two runs of pages that happen to touch; and the      *)
(* count DeleteArena decides by is the number of blocks handed out.  Free   *)
(* blocks that touch have been merged: "no two regions are adjacent in      *)
(* memory (they should have been coalesced)".                               *)
BlocksTileTheRegions ==
    /\ Owned = UNION {Units(a) : a \in Blocks}
    /\ \A a, b \in Blocks : a # b => Units(a) \cap Units(b) = {}
    /\ allocation_count = Cardinality(Given)
    /\ \A a, b \in FreeBlocks : a + heap.size[a] # b

(* Each level of the skip list leads to exactly the free blocks that have   *)
(* the level, upwards, and ends; the head has the levels that are in use.   *)
SkipListIsExact ==
    \A i \in Levels :
        LET there == {a \in FreeBlocks : heap.levels[a] >= i}
        IN /\ OnLevel(heap, i) = there
           /\ heap.levels[Freelist] >= i <=> there # {}
           /\ \A a \in there : heap.next[a][i] \in there \cup {Null}
           /\ \A a \in there : heap.next[a][i] # Null => a < heap.next[a][i]

(* The search starts at the level of the request and never looks below:    *)
(* nevertheless Windows is asked only when no free block is large enough,  *)
(* and what it returns is found at the second look, so the loop ends.      *)
WindowsIsAskedOnce ==
    /\ grown <= 1
    /\ request # 0 /\ Fits(request) = {} =>
          /\ grown = 0
          /\ \A a \in FreeBlocks : heap.size[a] < request

\* The rest of a block that is too small to be split off.
Arena == INSTANCE ArenaMemory WITH owned <- Owned, given <- Given, Waste <- MinSize - 1

(* A block handed out is large enough, overlaps no other and is not touched *)
(* until it is freed, whatever is split and merged around it.               *)
RefinesArenaMemory == Arena!Spec

=============================================================================
