-------------------------------- MODULE Vec --------------------------------
(***************************************************************************)
(* class Vec<T> (graphcycles/graphcycles.cc): a vector whose elements are  *)
(* in the object itself while there are few of them and in a block of the  *)
(* arena afterwards, released by hand.  An operation takes the vector and  *)
(* the arena's blocks (heap) and returns both.                             *)
(***************************************************************************)
EXTENDS Naturals, FiniteSets, FiniteSetsExt

CONSTANTS kInline,     \* elements in the object, a power of two
          ArenaBlocks, \* blocks the arena may hand out
          Space,       \* ptr_ = space_
          Junk         \* memory nobody has written to

\* There is always another block.
ASSUME VecAssumption == /\ kInline \in Nat \ {0} /\ Space \notin ArenaBlocks
                        /\ \E a, b \in ArenaBlocks : a # b

\* Init: an empty vector with inlined storage.
Inlined == [ptr |-> Space, cells |-> [i \in {} |-> Junk], capacity |-> kInline]

Size(v) == Cardinality(DOMAIN v.cells)

\* Discard: a block that is given back twice is a Junk entry of the arena.
Discard(v, heap) ==
    IF v.ptr \in heap \cup {Space} THEN heap \ {v.ptr} ELSE heap \cup {Junk}

\* Grow: the capacity is doubled until n elements fit, the elements move to a
\* new block and the old block is given back.
Grow(v, heap, n) ==
    LET b == CHOOSE x \in ArenaBlocks : x \notin heap
        doubled == {v.capacity * 2 ^ k : k \in 0 .. n}
    IN [vec  |-> [v EXCEPT !.ptr = b, !.capacity = Min({c \in doubled : c >= n})],
        heap |-> Discard(v, heap \cup {b})]

\* resize: the new elements are not initialised.
resize(v, heap, n) ==
    LET g == IF n > v.capacity THEN Grow(v, heap, n) ELSE [vec |-> v, heap |-> heap]
    IN [g EXCEPT !.vec.cells = [i \in 0 .. n - 1 |-> IF i < Size(v) THEN v.cells[i] ELSE Junk]]

back(v) == v.cells[Size(v) - 1]
pop_back(v) == [v EXCEPT !.cells = [i \in 0 .. Size(v) - 2 |-> v.cells[i]]]

push_back(v, heap, val) ==
    LET g == IF Size(v) = v.capacity THEN Grow(v, heap, Size(v) + 1) ELSE [vec |-> v, heap |-> heap]
    IN [g EXCEPT !.vec.cells = [i \in 0 .. Size(v) |-> IF i < Size(v) THEN v.cells[i] ELSE val]]

fill(v, val) == [v EXCEPT !.cells = [i \in DOMAIN @ |-> val]]

\* Mutant: the source keeps its block.
MoveFromKeeping(src, heap) == [vec |-> src, src |-> src, heap |-> heap]

\* MoveFrom, into a new vector: inlined elements are copied, a block changes
\* hands.  src is empty afterwards.
MoveFrom(src, heap) ==
    IF src.ptr = Space
    THEN LET copy == resize(Inlined, heap, Size(src))
         IN [vec  |-> [copy.vec EXCEPT !.cells = src.cells],
             src  |-> [src EXCEPT !.cells = [i \in {} |-> Junk]],
             heap |-> copy.heap]
    ELSE [vec |-> src, src |-> Inlined, heap |-> heap]

=============================================================================
