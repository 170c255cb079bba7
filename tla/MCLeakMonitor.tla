---------------------------- MODULE MCLeakMonitor ----------------------------
(* Instances of LeakMonitor for TLC.                                           *)
EXTENDS LeakMonitor, TLC

Symmetric == Permutations(Threads) \cup Permutations(Addrs)

\* A constraint: what follows the first wrong free is undefined, and not explored.
NoMisuseYet == ~misused
=============================================================================
