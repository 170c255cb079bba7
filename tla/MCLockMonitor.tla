--------------------------- MODULE MCLockMonitor ---------------------------
(* Instances of LockMonitor for TLC.                                       *)
EXTENDS LockMonitor, TLC

Symmetry == Permutations(Threads) \cup Permutations(Locks)
LockSymmetry == Permutations(Threads) \cup Permutations(Locks \ Ignored)
\* Bound: no step after an error that the invariants make an exception for.
NoErrorYet == ~other
\* Bound: one thread at a time has to do with the locks it has announced.
Announces(t) == \/ ignore_lock[t] + ignore_unlock[t] > 0
                \/ \E l \in Ignored : owner[l] = t \/ Busy(t, l)
OneAnnounces == \A t, u \in Threads : Announces(t) /\ Announces(u) => t = u
=============================================================================
