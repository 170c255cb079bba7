----------------------------- MODULE MCStorage -----------------------------
(* The containers below the monitors, for TLC: what GraphCycles is built   *)
(* on, the arena, the node sets in it and the tables of the nodes, and the *)
(* places of the leak report.  A behaviour is one of one of them, with the *)
(* other three at rest.                                                    *)
EXTENDS LowLevelAlloc, NodeSet, PointerMap, LeakReport

VARIABLE part

\* One request beyond a run of pages, which then takes two.
Sizes == {2, 3, 6}

MCJunk == -3
\* Three locks, two of them in one bucket.
MCPtrs == {"p", "q", "r"}
MCHashOf == [x \in MCPtrs |-> IF x = "r" THEN 1 ELSE 0]

InArena  == part = "arena"  /\ Next       /\ UNCHANGED <<part, setVars, mapVars, reportVars>>
InSet    == part = "set"    /\ SetNext    /\ UNCHANGED <<part, vars, mapVars, reportVars>>
InMap    == part = "map"    /\ MapNext    /\ UNCHANGED <<part, vars, setVars, reportVars>>
InReport == part = "report" /\ ReportNext /\ UNCHANGED <<part, vars, setVars, mapVars>>

\* The report is the one that ends.
ReportIsOut == part = "report" /\ sorted /\ UNCHANGED <<part, vars, setVars, mapVars, reportVars>>

StorageInit == Init /\ SetInit /\ MapInit /\ ReportInit
                 /\ part \in {"arena", "set", "map", "report"}
StorageSpec ==
    StorageInit /\ [][InArena \/ InSet \/ InMap \/ InReport \/ ReportIsOut]_<<vars, setVars,
                                                                         mapVars, reportVars, part>>

(* The arena's blocks: one behind each vector that has outgrown its inline *)
(* storage, and no other.  What it grew out of, or was moved out of, is    *)
(* given back once, and never while the other vector still uses it.        *)
BlocksAreOwned == /\ set_blocks = {table_.ptr} \ {Space}
                  /\ list_blocks = {free_nodes_.ptr} \ {Space}
=============================================================================
