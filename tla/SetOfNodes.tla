---------------------------- MODULE SetOfNodes ----------------------------
(***************************************************************************)
(* What NodeSet promises to the graph: a set.                              *)
(***************************************************************************)
CONSTANT Elements
VARIABLES members, answer

Init == members = {} /\ answer = [call |-> "none"]

Insert(v) == /\ answer' = [call |-> "insert", elem |-> v, ok |-> v \notin members]
             /\ members' = members \cup {v}
Erase(v) == /\ answer' = [call |-> "erase", elem |-> v]
            /\ members' = members \ {v}
Contains(v) == /\ answer' = [call |-> "contains", elem |-> v, ok |-> v \in members]
               /\ UNCHANGED members
Clear == members' = {} /\ answer' = [call |-> "clear"]

Next == Clear \/ \E v \in Elements : Insert(v) \/ Erase(v) \/ Contains(v)
Spec == Init /\ [][Next]_<<members, answer>>

=============================================================================
