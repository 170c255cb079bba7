------------------------------- MODULE Paths -------------------------------
(* Reachability without recursion, so that the provers can use it.         *)

\* Is b reached from a along the pairs of E, all of them between members of V?
\* (b is in every set that holds a and is closed under E.)
Leads(E, V, a, b) ==
    \A S \in SUBSET V :
        (a \in S /\ \A e \in E : e[1] \in S => e[2] \in S) => b \in S

\* Does some pair of E lie on a cycle?
HasCycle(E, V) == \E e \in E : Leads(E, V, e[2], e[1])
=============================================================================
