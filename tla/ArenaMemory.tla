----------------------------- MODULE ArenaMemory -----------------------------
(***************************************************************************)
(* What LowLevelAlloc promises to the graph: a block handed out is at      *)
(* least as large as asked for and at most Waste larger, it lies in memory *)
(* the arena has, it overlaps no other block, and it stays where and as    *)
(* it is until it is freed.                                                *)
(***************************************************************************)
EXTENDS Naturals

CONSTANT Waste

VARIABLES owned,       \* the units of memory the arena has
          given,       \* the blocks handed out
          request      \* the size asked for, 0 if no call is in progress

vars == <<owned, given, request>>

Units(b) == b.at .. b.at + b.size - 1

Init == owned = {} /\ given = {} /\ request = 0

Ask == /\ request = 0
       /\ request' \in Nat \ {0}
       /\ UNCHANGED <<owned, given>>

Grow == /\ request # 0
        /\ owned \subseteq owned'
        /\ UNCHANGED <<given, request>>

Give == /\ request # 0
        /\ given \subseteq given'
        /\ \E b \in given' \ given :
             /\ given' = given \cup {b}
             /\ b.size \in request .. request + Waste
             /\ Units(b) \subseteq owned
             /\ \A c \in given : Units(b) \cap Units(c) = {}
        /\ request' = 0
        /\ UNCHANGED owned

Free == /\ request = 0
        /\ \E b \in given : given' = given \ {b}
        /\ UNCHANGED <<owned, request>>

Spec == Init /\ [][Ask \/ Grow \/ Give \/ Free]_vars

=============================================================================
