----------------------------- MODULE LockOrder -----------------------------
(***************************************************************************)
(* What class GraphCycles promises its caller (graphcycles.h, the comments *)
(* on GetId, RemoveNode, Ptr, InsertEdge, RemoveEdge): a directed acyclic  *)
(* graph of lock addresses.  An address has one id from the GetId that     *)
(* creates it to the RemoveNode that forgets it, an id that was forgotten  *)
(* never comes back, and an edge is refused exactly when it would close a  *)
(* cycle, in which case nothing changes.  No ranks, indices or versions.   *)
(***************************************************************************)
EXTENDS Naturals, Paths

CONSTANTS Ptrs,   \* lock addresses
          Ids,    \* graph ids
          NoId    \* the id of an address the graph does not know

VARIABLES idOf,   \* Ptrs -> the current id of an address, or NoId
          issued, \* every id ever returned by GetId
          edges,  \* the acquired-before pairs of ids
          answer  \* what the last call returned

orderVars == <<idOf, issued, edges, answer>>

Live == {idOf[p] : p \in Ptrs} \ {NoId}

OrderTypeOK == /\ idOf \in [Ptrs -> Ids \cup {NoId}]
               /\ issued \subseteq Ids
               /\ edges \subseteq Ids \X Ids

Init == /\ idOf = [p \in Ptrs |-> NoId]
        /\ issued = {}
        /\ edges = {}
        /\ answer = [call |-> "none"]

GetId(p) ==
    /\ \/ /\ idOf[p] # NoId
          /\ UNCHANGED <<idOf, issued>>
       \/ /\ idOf[p] = NoId
          /\ \E id \in Ids \ issued : /\ idOf' = [idOf EXCEPT ![p] = id]
                                      /\ issued' = issued \cup {id}
    /\ answer' = [call |-> "GetId", ptr |-> p, id |-> idOf'[p]]
    /\ UNCHANGED edges

RemoveNode(p) ==
    /\ idOf' = [idOf EXCEPT ![p] = NoId]
    /\ edges' = {e \in edges : idOf[p] \notin {e[1], e[2]}}
    /\ answer' = [call |-> "RemoveNode", ptr |-> p]
    /\ UNCHANGED issued

InsertEdge(x, y) ==
    LET refused == /\ {x, y} \subseteq Live
                   /\ Leads(edges, Live, y, x)
        added   == {x, y} \subseteq Live /\ ~refused
    IN /\ edges' = IF added THEN edges \cup {<<x, y>>} ELSE edges
       /\ answer' = [call |-> "InsertEdge", from |-> x, to |-> y, ok |-> ~refused]
       /\ UNCHANGED <<idOf, issued>>

RemoveEdge(x, y) ==
    /\ edges' = edges \ {<<x, y>>}
    /\ answer' = [call |-> "RemoveEdge", from |-> x, to |-> y]
    /\ UNCHANGED <<idOf, issued>>

Next == \/ \E p \in Ptrs : GetId(p) \/ RemoveNode(p)
        \/ \E x, y \in issued : InsertEdge(x, y) \/ RemoveEdge(x, y)

Spec == Init /\ [][Next]_orderVars

(* Refusing single edges is enough: no sequence of calls, with removals and *)
(* ids of forgotten addresses among them, makes the acquired-before graph   *)
(* cyclic, so a refusal always means that two orders contradict each other. *)
Acyclic == ~HasCycle(edges, Ids)
=============================================================================
