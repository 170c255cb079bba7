-------------------------- MODULE MCThreadWatchdog --------------------------
(* Instances of ThreadWatchdog for TLC.                                    *)
EXTENDS ThreadWatchdog, TLC

Symmetry == Permutations(Threads) \cup Permutations(Timers)
=============================================================================
