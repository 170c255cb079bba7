----------------------------- MODULE LeakReport -----------------------------
(***************************************************************************)
(* memory_leak_repository_t::group_leaks2 (leak_check/                     *)
(* memory_leak_map_with_callstack.cpp) for the report of the leaks left at *)
(* the end: the map is visited once, in the order of its cells, and for    *)
(* each function the report keeps a sum and a few call stacks.  There may  *)
(* be more call stacks than places: the smallest gives way to a larger.    *)
(***************************************************************************)
EXTENDS Naturals

CONSTANTS e_SIZE,      \* api_functions_t: the number of functions
          Callstacks,  \* size of m_callstack_and_size
          Hashes,      \* m_stackframe_hash of the call stacks that were collected
          NoHash,      \* the hash nobody has computed
          LeakSizes,   \* m_size
          MaxLeaks     \* bound on the leaks in the map

ASSUME ReportAssumption == /\ e_SIZE \in Nat /\ Callstacks \in Nat \ {0}
                           /\ NoHash \notin Hashes /\ LeakSizes \subseteq Nat

VARIABLES used_api_infos, \* used_api_info_t, in the order of the report
          visited,        \* history: the leaks visited so far
          visit_count,    \* number of leaks visited
          sorted          \* the visit is over and the report is in its order

reportVars == <<used_api_infos, visited, visit_count, sorted>>

Api == 1 .. e_SIZE
Slots == 1 .. Callstacks
Leaks == [api_function : Api, hash : Hashes, size : LeakSizes]

\* ~loader_t: one entry for each function, with room for the call stacks
ReportInit ==
    /\ used_api_infos = [f \in Api |->
         [api_function |-> f, total_bytes |-> 0, hit_count |-> 0,
          callstack_and_size |-> [s \in Slots |-> [hash |-> NoHash, size_bytes |-> 0]]]]
    /\ visited = {} /\ visit_count = 0 /\ sorted = FALSE

\* found_index, if no place has the hash: the first of the smallest places
Smallest(stacks) ==
    CHOOSE s \in Slots : \A r \in Slots :
      \/ stacks[s].size_bytes < stacks[r].size_bytes
      \/ stacks[s].size_bytes = stacks[r].size_bytes /\ s <= r

\* Mutant: the place of the same call stack is not looked for.
KeptTwice(stacks, leak) ==
    LET s == Smallest(stacks)
    IN IF leak.size > stacks[s].size_bytes
         THEN [stacks EXCEPT ![s] = [hash |-> leak.hash, size_bytes |-> leak.size]]
         ELSE stacks

\* The scan of the places for one leak: a call stack that has a place keeps it
\* with the larger size, another gets the smallest place if it is larger.
Kept(stacks, leak) ==
    LET same == {s \in Slots : stacks[s].hash = leak.hash}
        s == IF same # {} THEN CHOOSE r \in same : \A q \in same : r <= q
                          ELSE Smallest(stacks)
    IN IF leak.size > stacks[s].size_bytes
         THEN [stacks EXCEPT ![s] = [hash |-> leak.hash, size_bytes |-> leak.size]]
         ELSE stacks

\* The callback of visit_all for one leak.
Visit(leak) ==
    /\ ~ sorted /\ visit_count < MaxLeaks
    /\ LET info == used_api_infos[leak.api_function]
       IN used_api_infos' = [used_api_infos EXCEPT ![leak.api_function] =
            [api_function |-> info.api_function,
             hit_count    |-> info.hit_count + 1,
             total_bytes  |-> info.total_bytes + leak.size,
             callstack_and_size |-> Kept(info.callstack_and_size, leak)]]
    /\ visited' = visited \cup {leak}
    /\ visit_count' = visit_count + 1
    /\ UNCHANGED sorted

\* The std::sort after the visit: largest sum first, equal sums in any order.
Sort ==
    /\ ~ sorted
    /\ \E order \in {o \in [Api -> Api] : \A f \in Api : \E i \in Api : o[i] = f} :
         /\ \A i, j \in Api : i < j => used_api_infos[order[i]].total_bytes
                                         >= used_api_infos[order[j]].total_bytes
         /\ used_api_infos' = [i \in Api |-> used_api_infos[order[i]]]
    /\ sorted' = TRUE
    /\ UNCHANGED <<visited, visit_count>>

ReportNext == Sort \/ \E leak \in Leaks : Visit(leak)

ReportSpec == ReportInit /\ [][ReportNext]_reportVars

-----------------------------------------------------------------------------
ReportTypeOK ==
    /\ used_api_infos \in
         [Api -> [api_function : Api, total_bytes : Nat, hit_count : Nat,
                  callstack_and_size :
                    [Slots -> [hash : Hashes \cup {NoHash}, size_bytes : Nat]]]]
    /\ visited \subseteq Leaks /\ visit_count \in Nat /\ sorted \in BOOLEAN

\* What generate_callstacks2 prints of an entry.
Shown(info) == {s \in Slots : info.callstack_and_size[s].size_bytes # 0}

\* What an entry shows against what was visited.
LeaksOf(info) == {leak \in visited : leak.api_function = info.api_function}
ShowsLargest(info) ==
    LET stacks == info.callstack_and_size
    IN /\ \A s, r \in Shown(info) : stacks[s].hash = stacks[r].hash => s = r
       /\ \A s \in Shown(info) :
            /\ \E leak \in LeaksOf(info) : /\ leak.hash = stacks[s].hash
                                           /\ leak.size = stacks[s].size_bytes
            /\ \A leak \in LeaksOf(info) : leak.hash = stacks[s].hash
                                             => leak.size <= stacks[s].size_bytes
       /\ \A leak \in LeaksOf(info) :
            (\A s \in Shown(info) : stacks[s].hash # leak.hash)
              => \A s \in Slots : leak.size <= stacks[s].size_bytes

(* The report shows, of each function, its largest leaks: a call stack     *)
(* stands once, with its largest leak, and one that is not shown never     *)
(* leaked more at once than any that is, also when it was shown before,    *)
(* gave way and came back, in whatever order the map is visited.           *)
LargestLeaksAreShown == \A i \in Api : ShowsLargest(used_api_infos[i])

=============================================================================
