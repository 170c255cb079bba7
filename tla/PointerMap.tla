----------------------------- MODULE PointerMap -----------------------------
(***************************************************************************)
(* How GraphCycles keeps its nodes (graphcycles/graphcycles.cc): class     *)
(* PointerMap, the hash table from a lock's address to its node, whose     *)
(* chains run through the nodes themselves, and free_nodes_, a Vec of the  *)
(* nodes to use again.  GetId and RemoveNode as GraphCycles.tla describes  *)
(* them come from this.  A Node stays where it is, so nodes_ is a sequence *)
(* of the nodes and not of their addresses.                                *)
(***************************************************************************)
EXTENDS Integers, Vec

CONSTANTS Ptrs, NoPtr,
          HashOf,     \* [Ptrs -> Nat], PointerMap::Hash
          MaxNodes,   \* bound: nodes
          MaxVersion  \* numeric_limits<uint32_t>::max, made small

ASSUME MapAssumption == /\ NoPtr \notin Ptrs /\ HashOf \in [Ptrs -> Nat]
                        /\ MaxNodes \in Nat /\ MaxVersion \in Nat \ {0}

VARIABLES nodes_,      \* [masked_ptr, next_hash, version], by index
          ptrmap_,     \* PointerMap::table_: the first node of each chain or -1
          free_nodes_, \* Vec<int32_t>
          list_blocks,      \* blocks of the arena free_nodes_ has
          got          \* what the last call returned

mapVars == <<nodes_, ptrmap_, free_nodes_, list_blocks, got>>

Count == Cardinality(DOMAIN nodes_)

\* The chain of a bucket: its k-th node, -1 at its end.
Chain(p) ==
    LET entry[k \in 0 .. Count] ==
            IF k = 0 THEN ptrmap_[HashOf[p]]
            ELSE IF entry[k - 1] = -1 THEN -1
            ELSE nodes_[entry[k - 1]].next_hash
    IN entry

\* Where the walk along the chain ends: at the node of p or behind the last.
Place(p) == Min({k \in 0 .. Count : LET i == Chain(p)[k]
                                    IN i = -1 \/ nodes_[i].masked_ptr = p})

Find(p) == Chain(p)[Place(p)]

\* Add to the front of a chain.
Add(nodes, p, i) == /\ nodes_' = [nodes EXCEPT ![i].next_hash = ptrmap_[HashOf[p]]]
                    /\ ptrmap_' = [ptrmap_ EXCEPT ![HashOf[p]] = i]

\* Mutant: the bucket loses the nodes in front of the one removed.
RemoveFromHead(p, i) ==
    [table |-> [ptrmap_ EXCEPT ![HashOf[p]] = nodes_[i].next_hash],
     nodes |-> [nodes_ EXCEPT ![i].next_hash = -1]]

\* Remove node i of p: the slot that leads to it, the bucket or the node
\* before it, leads to the next one.
Remove(p, i) ==
    LET k == Place(p)
    IN IF k = 0
       THEN [table |-> [ptrmap_ EXCEPT ![HashOf[p]] = nodes_[i].next_hash],
             nodes |-> [nodes_ EXCEPT ![i].next_hash = -1]]
       ELSE [table |-> ptrmap_,
             nodes |-> [nodes_ EXCEPT ![Chain(p)[k - 1]].next_hash = nodes_[i].next_hash,
                                      ![i].next_hash = -1]]

-----------------------------------------------------------------------------
MapInit == /\ nodes_ = [i \in {} |-> Junk]
           /\ ptrmap_ = [b \in {HashOf[p] : p \in Ptrs} |-> -1]
           /\ free_nodes_ = Inlined
           /\ list_blocks = {}
           /\ got = [call |-> "none"]

Got(p, i, v) == got' = [call |-> "GetId", ptr |-> p, id |-> <<i, v>>]

GetId(p) ==
    LET i == Find(p)
        r == back(free_nodes_)
        node == [masked_ptr |-> p, next_hash |-> -1, version |-> 1]
    IN \/ /\ i # -1
          /\ Got(p, i, nodes_[i].version)
          /\ UNCHANGED <<nodes_, ptrmap_, free_nodes_, list_blocks>>
       \/ /\ i = -1 /\ Size(free_nodes_) = 0
          /\ Count < MaxNodes
          /\ Add([n \in 0 .. Count |-> IF n = Count THEN node ELSE nodes_[n]], p, Count)
          /\ Got(p, Count, 1)
          /\ UNCHANGED <<free_nodes_, list_blocks>>
       \/ /\ i = -1 /\ Size(free_nodes_) > 0
          /\ free_nodes_' = pop_back(free_nodes_)
          /\ Add([nodes_ EXCEPT ![r].masked_ptr = p], p, r)
          /\ Got(p, r, nodes_[r].version)
          /\ UNCHANGED list_blocks

RemoveNode(p) ==
    LET i == Find(p)
        new == Remove(p, i)
        list == push_back(free_nodes_, list_blocks, i)
        last == nodes_[i].version = MaxVersion
    IN /\ got' = [call |-> "RemoveNode", ptr |-> p]
       /\ IF i = -1 THEN UNCHANGED <<nodes_, ptrmap_, free_nodes_, list_blocks>>
          ELSE /\ ptrmap_' = new.table
               /\ nodes_' = [new.nodes EXCEPT ![i].masked_ptr = NoPtr,
                                              ![i].version = IF last THEN @ ELSE @ + 1]
               /\ free_nodes_' = IF last THEN free_nodes_ ELSE list.vec
               /\ list_blocks' = IF last THEN list_blocks ELSE list.heap

MapNext == \E p \in Ptrs : GetId(p) \/ RemoveNode(p)

MapSpec == MapInit /\ [][MapNext]_mapVars

-----------------------------------------------------------------------------
Index == 0 .. MaxNodes - 1
G == INSTANCE GraphCycles WITH
        size       <- Count,
        rank       <- [i \in Index |-> i],
        version    <- [i \in Index |-> IF i \in DOMAIN nodes_ THEN nodes_[i].version ELSE 0],
        masked_ptr <- [i \in Index |-> IF i \in DOMAIN nodes_ THEN nodes_[i].masked_ptr ELSE NoPtr],
        in         <- [i \in Index |-> {}],
        out        <- [i \in Index |-> {}],
        visited    <- {},
        free_nodes <- [k \in 1 .. Size(free_nodes_) |-> free_nodes_.cells[k - 1]],
        answer     <- got

(* GetId and RemoveNode do what GraphCycles.tla says of them: a live lock   *)
(* is always found behind the others of its bucket, a removed one is not,  *)
(* though its node may be in another bucket by then, and the nodes come    *)
(* back in the order of the free list.                                     *)
RefinesGraph == G!Init /\ [][G!NodeNext]_(G!vars)

=============================================================================
