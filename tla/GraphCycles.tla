---------------------------- MODULE GraphCycles ----------------------------
(***************************************************************************)
(* class GraphCycles (graphcycles/graphcycles.cc): the online topological  *)
(* order of Pearce and Kelly that the deadlock monitor keeps of every lock *)
(* it has seen.  Every call runs under deadlock_monitor_t's                *)
(* m_deadlock_graph_mutex, so a call is one step.                          *)
(*                                                                         *)
(* The searches (ForwardDFS, BackwardDFS) are the sets they mark, with the *)
(* marks in the nodes as they are; PointerMap is the function masked_ptr   *)
(* read backwards, and NodeSet is a set.                                   *)
(***************************************************************************)
EXTENDS Naturals, Sequences, FiniteSets

CONSTANTS Ptrs,       \* lock addresses
          NoPtr,      \* nullptr
          MaxNodes,   \* bound: how many nodes nodes_ may hold
          MaxVersion  \* numeric_limits<uint32_t>::max, made small by the instances

ASSUME GraphAssumption == /\ NoPtr \notin Ptrs
                          /\ MaxNodes \in Nat
                          /\ MaxVersion \in Nat \ {0}

\* A cell at or above size is not allocated yet: version 0, no pointer, no edge.
VARIABLES size,       \* nodes_.size()
          rank,       \* Node::rank, by node index
          version,    \* Node::version
          masked_ptr, \* Node::masked_ptr
          in,         \* Node::in
          out,        \* Node::out
          visited,    \* the nodes whose Node::visited is set
          free_nodes, \* free_nodes_, last element on top
          answer      \* what the last call returned to the caller

graph == <<size, rank, version, masked_ptr, in, out, visited, free_nodes>>
vars  == <<graph, answer>>

Index == 0 .. MaxNodes - 1
Nodes == 0 .. size - 1

(* Ids: MakeId packs the index and the version, NodeIndex and NodeVersion  *)
(* take them apart.  Version 0 is InvalidGraphId's.                        *)
Ids             == Index \X (1 .. MaxVersion)
MakeId(i, v)    == <<i, v>>
NodeIndex(id)   == id[1]
NodeVersion(id) == id[2]
InvalidGraphId  == MakeId(0, 0)

Found(id) == version[NodeIndex(id)] = NodeVersion(id)          \* FindNode(id) # nullptr
Ptr(id)   == IF Found(id) THEN masked_ptr[NodeIndex(id)] ELSE NoPtr
HasNode(id) == Found(id)

InFree(i) == \E k \in 1 .. Len(free_nodes) : free_nodes[k] = i

\* Every id some GetId has returned: the current version of a node on the free
\* list is the one its next user will get.
IssuedIds == {id \in Ids : /\ NodeVersion(id) <= version[NodeIndex(id)]
                           /\ Found(id) => ~InFree(NodeIndex(id))}

\* A node removed at the last version keeps it ("Cannot use x any more").
Retired(i) == version[i] = MaxVersion /\ masked_ptr[i] = NoPtr /\ ~InFree(i)

\* The ids the deadlock monitor may still hand to InsertEdge: it skips an id
\* whose Ptr is null, and 2^32 - 1 removals of one node are out of its reach.
UsableIds == {id \in IssuedIds : Found(id) => ~Retired(NodeIndex(id))}

-----------------------------------------------------------------------------
(* The searches of InsertEdge.  They pass over a node that is marked, so a *)
(* mark an earlier call left behind hides a node from them.  The edge that *)
(* is tried is in the sets already; neither search takes it, since its     *)
(* ends have the ranks the searches stop at.                               *)

\* ForwardDFS from y along out below the rank upper: deltaf_, what it marks.
ForwardSet(y, upper) ==
    {n \in Index \ visited :
        \A S \in SUBSET Index :
            (y \in S /\ \A a \in S \ visited : \A b \in out[a] : rank[b] < upper => b \in S)
            => n \in S}

\* ForwardDFS gives up when a node it marks has a successor of rank upper.
HitsUpper(y, upper) ==
    \E a \in ForwardSet(y, upper) : \E b \in out[a] : rank[b] = upper

\* BackwardDFS from x along in above the rank lower, after ForwardDFS has
\* marked F: deltab_.
BackwardSet(x, lower, F) ==
    {n \in Index \ (visited \cup F) :
        \A S \in SUBSET Index :
            (x \in S /\ \A a \in S \ (visited \cup F) :
                            \A b \in in[a] : lower < rank[b] => b \in S)
            => n \in S}

\* Mutant: the nodes after the edge are placed before the nodes in front of it.
ReorderForwardFirst(B, F) ==
    LET L == B \cup F
        Before(a, b) == \/ a \in F /\ b \in B
                        \/ ({a, b} \subseteq B \/ {a, b} \subseteq F) /\ rank[a] < rank[b]
        place(n)  == Cardinality({a \in L : Before(a, n)})
        merged(n) == Cardinality({a \in L : rank[a] < rank[n]})
    IN [n \in Index |->
          IF n \in L THEN rank[CHOOSE a \in L : merged(a) = place(n)] ELSE rank[n]]

\* Reorder: list_ is deltab_ sorted by rank, then deltaf_ sorted by rank;
\* merged_ is the sorted ranks of both; list_[i] gets rank merged_[i].
Reorder(B, F) ==
    LET L == B \cup F
        Before(a, b) == \/ a \in B /\ b \in F
                        \/ {a, b} \subseteq B /\ rank[a] < rank[b]
                        \/ {a, b} \subseteq F /\ rank[a] < rank[b]
        place(n)  == Cardinality({a \in L : Before(a, n)})         \* in list_
        merged(n) == Cardinality({a \in L : rank[a] < rank[n]})    \* in merged_
    IN [n \in Index |->
          IF n \in L THEN rank[CHOOSE a \in L : merged(a) = place(n)] ELSE rank[n]]

-----------------------------------------------------------------------------
Init == /\ size = 0
        /\ rank = [i \in Index |-> i]
        /\ version = [i \in Index |-> 0]
        /\ masked_ptr = [i \in Index |-> NoPtr]
        /\ in = [i \in Index |-> {}]
        /\ out = [i \in Index |-> {}]
        /\ visited = {}
        /\ free_nodes = <<>>
        /\ answer = [call |-> "none"]

IdAnswer(p, id) == answer' = [call |-> "GetId", ptr |-> p, id |-> id]

\* GetId, the pointer is in the hash table.
GetKnownId(p) ==
    \E i \in Nodes : /\ masked_ptr[i] = p
                     /\ IdAnswer(p, MakeId(i, version[i]))
                     /\ UNCHANGED graph

\* GetId, no free node: a new one whose rank is its index.
GetNewId(p) ==
    /\ p \notin {masked_ptr[i] : i \in Nodes}
    /\ free_nodes = <<>>
    /\ size < MaxNodes
    /\ size' = size + 1
    /\ rank' = [rank EXCEPT ![size] = size]
    /\ version' = [version EXCEPT ![size] = 1]
    /\ masked_ptr' = [masked_ptr EXCEPT ![size] = p]
    /\ visited' = visited \ {size}
    /\ IdAnswer(p, MakeId(size, 1))
    /\ UNCHANGED <<in, out, free_nodes>>

\* Mutant: a node that is used again starts with the version of a new one.
GetRecycledIdRestarted(p) ==
    /\ p \notin {masked_ptr[i] : i \in Nodes}
    /\ free_nodes # <<>>
    /\ LET r == free_nodes[Len(free_nodes)]
       IN /\ free_nodes' = SubSeq(free_nodes, 1, Len(free_nodes) - 1)
          /\ masked_ptr' = [masked_ptr EXCEPT ![r] = p]
          /\ version' = [version EXCEPT ![r] = 1]
          /\ IdAnswer(p, MakeId(r, 1))
    /\ UNCHANGED <<size, rank, in, out, visited>>

\* GetId, a free node is used again: it keeps its rank and its version.
GetRecycledId(p) ==
    /\ p \notin {masked_ptr[i] : i \in Nodes}
    /\ free_nodes # <<>>
    /\ LET r == free_nodes[Len(free_nodes)]
       IN /\ free_nodes' = SubSeq(free_nodes, 1, Len(free_nodes) - 1)
          /\ masked_ptr' = [masked_ptr EXCEPT ![r] = p]
          /\ IdAnswer(p, MakeId(r, version[r]))
    /\ UNCHANGED <<size, rank, version, in, out, visited>>

\* Mutant: the successors forget the wrong side.
IsolateWrongSide(nbrs, back, i) ==
    [k \in Index |-> IF k = i THEN {} ELSE IF k \in nbrs[i] THEN nbrs[k] \ {i} ELSE nbrs[k]]

\* The edges that remain when node i leaves the graph.
Isolate(nbrs, back, i) ==
    [k \in Index |-> IF k = i THEN {} ELSE IF k \in back[i] THEN nbrs[k] \ {i} ELSE nbrs[k]]

\* Mutant: no test for the last version.
RemoveNodeOverflow(p) ==
    /\ answer' = [call |-> "RemoveNode", ptr |-> p]
    /\ \E i \in Nodes :
            /\ masked_ptr[i] = p
            /\ in' = Isolate(in, out, i)
            /\ out' = Isolate(out, in, i)
            /\ masked_ptr' = [masked_ptr EXCEPT ![i] = NoPtr]
            /\ version' = [version EXCEPT ![i] = @ + 1]
            /\ free_nodes' = Append(free_nodes, i)
            /\ UNCHANGED <<size, rank, visited>>

RemoveNode(p) ==
    /\ answer' = [call |-> "RemoveNode", ptr |-> p]
    /\ \/ /\ p \notin {masked_ptr[i] : i \in Nodes}
          /\ UNCHANGED graph
       \/ \E i \in Nodes :
            /\ masked_ptr[i] = p
            /\ in' = Isolate(in, out, i)
            /\ out' = Isolate(out, in, i)
            /\ masked_ptr' = [masked_ptr EXCEPT ![i] = NoPtr]
            /\ IF version[i] = MaxVersion
               THEN UNCHANGED <<version, free_nodes>>
               ELSE /\ version' = [version EXCEPT ![i] = @ + 1]
                    /\ free_nodes' = Append(free_nodes, i)
            /\ UNCHANGED <<size, rank, visited>>

EdgeAnswer(x, y, ok) ==
    answer' = [call |-> "InsertEdge", from |-> x, to |-> y, ok |-> ok]

\* NodeSet::insert and erase in node i's set.
Inserted(nbrs, i, j) == [nbrs EXCEPT ![i] = @ \cup {j}]
Erased(nbrs, i, j)   == [nbrs EXCEPT ![i] = @ \ {j}]

Link(i, j) == out' = Inserted(out, i, j) /\ in' = Inserted(in, j, i)

\* Mutant: an edge of a lock that is gone is refused like a cycle.
InsertExpiredRefused(x, y) ==
    /\ ~(Found(x) /\ Found(y))
    /\ EdgeAnswer(x, y, FALSE)
    /\ UNCHANGED graph

InsertExpired(x, y) ==
    /\ ~(Found(x) /\ Found(y))
    /\ EdgeAnswer(x, y, TRUE)
    /\ UNCHANGED graph

InsertSelf(x, y) ==
    /\ Found(x) /\ x = y
    /\ EdgeAnswer(x, y, FALSE)
    /\ UNCHANGED graph

InsertKnown(x, y) ==
    /\ Found(x) /\ Found(y) /\ x # y
    /\ NodeIndex(y) \in out[NodeIndex(x)]
    /\ EdgeAnswer(x, y, TRUE)
    /\ UNCHANGED graph

NewEdge(x, y) ==
    /\ Found(x) /\ Found(y) /\ x # y
    /\ NodeIndex(y) \notin out[NodeIndex(x)]

\* The edge agrees with the ranks.
InsertInOrder(x, y) ==
    /\ NewEdge(x, y)
    /\ rank[NodeIndex(x)] <= rank[NodeIndex(y)]
    /\ Link(NodeIndex(x), NodeIndex(y))
    /\ EdgeAnswer(x, y, TRUE)
    /\ UNCHANGED <<size, rank, version, masked_ptr, visited, free_nodes>>

\* Mutant: the refused edge is taken back on one side only.
InsertCycleHalfUndone(x, y) ==
    LET i == NodeIndex(x)
        j == NodeIndex(y)
    IN /\ NewEdge(x, y)
       /\ rank[i] > rank[j]
       /\ HitsUpper(j, rank[i])
       /\ out' = Erased(Inserted(out, i, j), i, j)
       /\ in' = Inserted(in, j, i)
       /\ EdgeAnswer(x, y, FALSE)
       /\ UNCHANGED <<size, rank, version, masked_ptr, visited, free_nodes>>

\* Mutant: a search that ends at a cycle leaves its marks.
InsertCycleMarked(x, y) ==
    LET i == NodeIndex(x)
        j == NodeIndex(y)
    IN /\ NewEdge(x, y)
       /\ rank[i] > rank[j]
       /\ HitsUpper(j, rank[i])
       /\ out' = Erased(Inserted(out, i, j), i, j)
       /\ in' = Erased(Inserted(in, j, i), j, i)
       /\ visited' = visited \cup ForwardSet(j, rank[i])
       /\ EdgeAnswer(x, y, FALSE)
       /\ UNCHANGED <<size, rank, version, masked_ptr, free_nodes>>

\* ForwardDFS meets x: the edge is taken back on both sides, and the nodes the
\* search marked before it gave up (any it could have come to) are cleared.
InsertCycle(x, y) ==
    LET i == NodeIndex(x)
        j == NodeIndex(y)
    IN /\ NewEdge(x, y)
       /\ rank[i] > rank[j]
       /\ HitsUpper(j, rank[i])
       /\ out' = Erased(Inserted(out, i, j), i, j)
       /\ in' = Erased(Inserted(in, j, i), j, i)
       /\ \E deltaf \in SUBSET ForwardSet(j, rank[i]) :
             visited' = (visited \cup deltaf) \ deltaf
       /\ EdgeAnswer(x, y, FALSE)
       /\ UNCHANGED <<size, rank, version, masked_ptr, free_nodes>>

\* The ranks between y's and x's are given out again, and MoveToList clears the
\* marks of both searches.
InsertReordered(x, y) ==
    LET i == NodeIndex(x)
        j == NodeIndex(y)
        F == ForwardSet(j, rank[i])
        B == BackwardSet(i, rank[j], F)
    IN /\ NewEdge(x, y)
       /\ rank[i] > rank[j]
       /\ ~HitsUpper(j, rank[i])
       /\ Link(i, j)
       /\ rank' = Reorder(B, F)
       /\ visited' = (visited \cup F \cup B) \ (F \cup B)
       /\ EdgeAnswer(x, y, TRUE)
       /\ UNCHANGED <<size, version, masked_ptr, free_nodes>>

InsertEdge(x, y) ==
    \/ InsertExpired(x, y) \/ InsertSelf(x, y)  \/ InsertKnown(x, y)
    \/ InsertInOrder(x, y) \/ InsertCycle(x, y) \/ InsertReordered(x, y)

RemoveEdge(x, y) ==
    /\ answer' = [call |-> "RemoveEdge", from |-> x, to |-> y]
    /\ \/ /\ Found(x) /\ Found(y)
          /\ out' = [out EXCEPT ![NodeIndex(x)] = @ \ {NodeIndex(y)}]
          /\ in' = [in EXCEPT ![NodeIndex(y)] = @ \ {NodeIndex(x)}]
          /\ UNCHANGED <<size, rank, version, masked_ptr, visited, free_nodes>>
       \/ /\ ~(Found(x) /\ Found(y))
          /\ UNCHANGED graph

NodeNext == \E p \in Ptrs : \/ GetKnownId(p) \/ GetNewId(p) \/ GetRecycledId(p)
                            \/ RemoveNode(p)

Next    == NodeNext \/ \E x, y \in UsableIds : InsertEdge(x, y) \/ RemoveEdge(x, y)
NextAny == NodeNext \/ \E x, y \in IssuedIds : InsertEdge(x, y) \/ RemoveEdge(x, y)

Spec    == Init /\ [][Next]_vars
SpecAny == Init /\ [][NextAny]_vars    \* callers that keep ids for ever

-----------------------------------------------------------------------------
TypeOK == /\ size \in 0 .. MaxNodes
          /\ rank \in [Index -> Index]
          /\ version \in [Index -> 0 .. MaxVersion]
          /\ masked_ptr \in [Index -> Ptrs \cup {NoPtr}]
          /\ in \in [Index -> SUBSET Index]
          /\ out \in [Index -> SUBSET Index]
          /\ visited \in SUBSET Index
          /\ free_nodes \in Seq(Nodes)

(* GraphCycles::CheckInvariants, which the code states and only a test may *)
(* call: the hash table leads from a live pointer to its one node, no call *)
(* leaves a node marked for the searches of the next one (the refused edge *)
(* clears what Reorder else clears), no rank is given twice, and every     *)
(* edge goes from a lower rank to a higher one (so the graph of lock       *)
(* orders has no cycle).                                                   *)
PtrIsUnique   == \A i, j \in Nodes :
                    masked_ptr[i] # NoPtr /\ masked_ptr[i] = masked_ptr[j] => i = j
MarkersCleared == visited = {}
RanksDiffer   == \A i, j \in Index : rank[i] = rank[j] => i = j
EdgesIncreaseRank == \A i \in Index : \A j \in out[i] : rank[i] < rank[j]
CheckInvariants == PtrIsUnique /\ MarkersCleared /\ RanksDiffer /\ EdgesIncreaseRank

(* in and out are two copies of one relation, and an edge joins two nodes  *)
(* in use: neither RemoveNode nor the undo of a refused edge leaves half   *)
(* an edge behind that the index's next user would inherit.                *)
EdgesMirrored   == \A i, j \in Index : j \in out[i] <=> i \in in[j]
EdgesJoinLiveNodes ==
    /\ EdgesMirrored
    /\ \A i \in Index : \A j \in out[i] : {i, j} \subseteq {k \in Nodes : masked_ptr[k] # NoPtr}

(* An id keeps its pointer until the pointer is removed, and resolves to   *)
(* no pointer ever after, also when its node index is used again (the held *)
(* locks of a thread keep ids of locks another thread destroyed).          *)
IdsNeverReused ==
    [][\A id \in IssuedIds : Ptr(id)' # NoPtr => Ptr(id)' = Ptr(id)]_vars

(* InsertEdge gives new ranks only inside the region between the ranks of  *)
(* its two ends, as Pearce and Kelly require; no other call moves a rank.  *)
RanksOutsideRegionKept ==
    [][\A n \in Index : rank'[n] # rank[n] =>
         /\ answer'.call = "InsertEdge"
         /\ LET lower == rank[NodeIndex(answer'.to)]
                upper == rank[NodeIndex(answer'.from)]
            IN rank[n] \in lower .. upper /\ rank'[n] \in lower .. upper]_vars

(* The graph with ranks implements the promise of graphcycles.h.           *)
OrderIdOf  == [p \in Ptrs |-> IF \E i \in Nodes : masked_ptr[i] = p
                               THEN LET i == CHOOSE i \in Nodes : masked_ptr[i] = p
                                    IN MakeId(i, version[i])
                               ELSE InvalidGraphId]
OrderEdges == {<<MakeId(e[1], version[e[1]]), MakeId(e[2], version[e[2]])>> :
                  e \in {p \in Nodes \X Nodes : p[2] \in out[p[1]]}}
Order == INSTANCE LockOrder WITH NoId <- InvalidGraphId, idOf <- OrderIdOf,
                                 issued <- IssuedIds, edges <- OrderEdges
RefinesLockOrder == Order!Spec

=============================================================================
