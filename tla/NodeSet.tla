------------------------------ MODULE NodeSet ------------------------------
(***************************************************************************)
(* class NodeSet (graphcycles/graphcycles.cc): the set of neighbours of a  *)
(* node, a hash table with open addressing and linear probing.  An erased  *)
(* cell keeps a mark (kDel) so that the elements behind it are found; a    *)
(* search ends at an empty cell only.                                      *)
(***************************************************************************)
EXTENDS Integers, Vec

CONSTANTS Elements,    \* the node indices that are entered
          MaxTable     \* bound: cells of the table

kEmpty == -1
kDel   == -2

ASSUME NodeSetAssumption ==
    /\ Elements \subseteq Nat /\ MaxTable \in Nat
    /\ Junk \notin Elements \cup {kEmpty, kDel}

VARIABLES table_,    \* Vec<int32_t>
          occupied_, \* cells that are not empty, the deleted ones among them
          set_blocks,      \* blocks of the arena this set has
          answer     \* what the last call returned

setVars == <<table_, occupied_, set_blocks, answer>>

\* The wrap at 2^32 is left out: the tables' sizes are powers of two.
Hash(a) == a * 41

Marks(cells) == {v \in Elements : \E i \in DOMAIN cells : cells[i] = v}
\* The elements of the set, as HASH_FOR_EACH enumerates them.
Members == Marks(table_.cells)

-----------------------------------------------------------------------------
\* Cells from Hash(v) on, up to where the loop of FindIndex ends.
Probe(cells, v, k) == (Hash(v) + k) % Cardinality(DOMAIN cells)
Stops(cells, v) == {k \in DOMAIN cells : cells[Probe(cells, v, k)] \in {v, kEmpty}}

\* Mutant: the first deleted cell is returned at once.
FindIndexAtOnce(cells, v) ==
    Probe(cells, v, Min({k \in DOMAIN cells : cells[Probe(cells, v, k)] \in {v, kEmpty, kDel}}))

\* FindIndex: the cell of v, or else the first deleted cell on the way to the
\* empty one, or else that.
FindIndex(cells, v) ==
    LET last    == Min(Stops(cells, v))
        deleted == {k \in 0 .. last - 1 : cells[Probe(cells, v, k)] = kDel}
    IN IF cells[Probe(cells, v, last)] # v /\ deleted # {} THEN Probe(cells, v, Min(deleted))
                                                           ELSE Probe(cells, v, last)

\* insert of an element that is not there, without the growing.
Put(cells, v) == [cells EXCEPT ![FindIndex(cells, v)] = v]

\* Init: a table of kInline empty cells.
Cleared == fill(resize(Inlined, {}, kInline).vec, kEmpty)

\* The loop of NodeSet::Grow: the elements are entered again in the order of
\* the old cells, the deleted ones are left behind.
Rehashed(old, new) ==
    LET upTo[n \in 0 .. Cardinality(DOMAIN old)] ==
            IF n = 0 THEN new
            ELSE IF old[n - 1] \in Elements THEN Put(upTo[n - 1], old[n - 1])
            ELSE upTo[n - 1]
    IN upTo[Cardinality(DOMAIN old)]

\* NodeSet::Grow of a table v; copy is destroyed at its end.
Grown(v, blocks) ==
    LET moved == MoveFrom(v, blocks)
        fresh == resize(moved.src, moved.heap, 2 * Size(moved.vec))
        cells == Rehashed(moved.vec.cells, fill(fresh.vec, kEmpty).cells)
    IN [vec |-> [fresh.vec EXCEPT !.cells = cells], heap |-> Discard(moved.vec, fresh.heap)]

-----------------------------------------------------------------------------
SetInit == /\ table_ = Cleared
           /\ occupied_ = 0
           /\ set_blocks = {}
           /\ answer = [call |-> "none"]

\* Mutant: only a table without an empty cell is enlarged.
FullEnoughLate(n, cells) == n > Cardinality(cells)
\* "Double when 75% full."
FullEnough(n, cells) == n >= Cardinality(cells) - Cardinality(cells) \div 4

\* The growing is left out at the bound MaxTable.
insert(v) ==
    LET cells == table_.cells
        i     == FindIndex(cells, v)
        count == IF cells[i] = kEmpty THEN occupied_ + 1 ELSE occupied_
        grows == FullEnough(count, DOMAIN cells)
    IN /\ grows => Size(table_) < MaxTable
       /\ answer' = [call |-> "insert", elem |-> v, ok |-> cells[i] # v]
       /\ IF cells[i] = v THEN UNCHANGED <<table_, occupied_, set_blocks>>
          ELSE LET put == [table_ EXCEPT !.cells = Put(cells, v)]
                   new == Grown(put, set_blocks)
               IN IF grows
                  THEN /\ table_' = new.vec
                       /\ set_blocks' = new.heap
                       /\ occupied_' = Cardinality(Marks(new.vec.cells))
                  ELSE table_' = put /\ occupied_' = count /\ UNCHANGED set_blocks

erase(v) ==
    LET i == FindIndex(table_.cells, v)
    IN /\ table_' = IF table_.cells[i] = v THEN [table_ EXCEPT !.cells[i] = kDel] ELSE table_
       /\ answer' = [call |-> "erase", elem |-> v]
       /\ UNCHANGED <<occupied_, set_blocks>>

contains(v) ==
    /\ answer' = [call |-> "contains", elem |-> v,
                  ok |-> table_.cells[FindIndex(table_.cells, v)] = v]
    /\ UNCHANGED <<table_, occupied_, set_blocks>>

clear ==
    /\ table_' = Cleared
    /\ occupied_' = 0
    /\ set_blocks' = Discard(table_, set_blocks)
    /\ answer' = [call |-> "clear"]

SetNext == \/ \E v \in Elements : insert(v) \/ erase(v) \/ contains(v)
           \/ clear

SetSpec == SetInit /\ [][SetNext]_setVars

-----------------------------------------------------------------------------
(* Every search ends: there is always an empty cell, however many deleted  *)
(* ones have piled up, since occupied_ counts what is not empty.           *)
SearchesEnd ==
    /\ occupied_ = Cardinality({i \in DOMAIN table_.cells : table_.cells[i] # kEmpty})
    /\ occupied_ < Size(table_)

(* A node set answers like a set: an element is found behind deleted       *)
(* cells, is entered once (so one erasure removes it and an iteration      *)
(* meets it once), and survives the rehashing.                             *)
Abstract == INSTANCE SetOfNodes WITH members <- Members
RefinesSet == Abstract!Spec

=============================================================================
