----------------------------- MODULE LeakMonitor -----------------------------
(***************************************************************************)
(* The memory monitors (leak_check) and memory_leak_repository_t between   *)
(* the threads of the program under test and the allocators of the         *)
(* runtime library and of Windows.  A monitored call is the real function  *)
(* and single operations on the concurrent map m_flat_map, in an order     *)
(* that differs from function to function; nothing makes it atomic, so     *)
(* other threads run between any two of its steps.  The allocators are     *)
(* external.  All functions of one allocator that do the same are one call *)
(* here: malloc stands for calloc, _strdup, _getcwd, ..., LocalAlloc for   *)
(* FormatMessage, CryptProtectData, StrDup, ...  The size of a block is    *)
(* what was asked for or, if the function decides, what the monitor finds  *)
(* with strlen or LocalSize.                                               *)
(***************************************************************************)
EXTENDS Naturals, FiniteSets

CONSTANTS Threads,
          Addrs,        \* addresses the allocators hand out
          Null,         \* nullptr
          Families,     \* api_family_t, e_heapapi excepted
          Heaps,        \* handles of HeapAlloc
          Crt,          \* the families whose realloc(p, 0) is free(p)
          Before,       \* the families whose realloc forgets p before the real call
          NoHeap,       \* the 0 of the key of the other families
          Sizes

ASSUME LeakAssumption ==
    /\ Null \notin Addrs
    /\ Families \cap Heaps = {}
    /\ {"none", "heapapi"} \cap (Families \cup Heaps) = {}
    /\ NoHeap \notin Heaps
    /\ Crt \cup Before \subseteq Families
    /\ Crt \cap Before = {}

VARIABLES block,        \* the allocators: who handed an address out, of which size
          given,        \* the program: the addresses it may use and has to free
          pc,           \* where each thread is inside a monitored call
          map,          \* m_flat_map
          errors,       \* the kinds of error handed to process_error
          misused,      \* history: the program has freed wrongly
          asserted      \* an assert of add or erase has failed

vars == <<block, given, pc, map, errors, misused, asserted>>

Pools == Families \cup Heaps                 \* an allocator
Slot(p) == IF p \in Heaps THEN p ELSE NoHeap
Key(p, a) == <<Slot(p), a>>
Keys == (Heaps \cup {NoHeap}) \X (Addrs \cup {Null})
Family(p) == IF p \in Heaps THEN "heapapi" ELSE p
Data == [family : Families \cup {"heapapi"}, size : Sizes]
None == [family |-> "none", size |-> 0]
Free == [pool |-> "none", size |-> 0]
Block(p, s) == [pool |-> p, size |-> s]
Entry(p, s) == [family |-> Family(p), size |-> s]

\* A call in progress: old is the address passed in, new the one to return,
\* known is found_address.
Call(at, call, p, old, new, s, known) ==
    [at |-> at, call |-> call, pool |-> p, old |-> old, new |-> new,
     size |-> s, known |-> known]
Idle == Call("idle", "none", "none", Null, Null, 0, FALSE)
Goto(t, c) == pc' = [pc EXCEPT ![t] = c]
At(t, at) == pc[t].at = at

Init == /\ block = [a \in Addrs |-> Free]
        /\ given = {}
        /\ pc = [t \in Threads |-> Idle]
        /\ map = [k \in Keys |-> None]
        /\ errors = {}
        /\ misused = FALSE
        /\ asserted = FALSE

-----------------------------------------------------------------------------
(* memory_leak_repository_t and memory_helper                              *)

\* add: emplace leaves an entry that exists as it is.
Emplace(k, e) ==
    /\ map' = IF map[k] = None THEN [map EXCEPT ![k] = e] ELSE map
    /\ asserted' = (asserted \/ map[k] # None)

\* erase
Erase(k) ==
    /\ map' = [map EXCEPT ![k] = None]
    /\ asserted' = (asserted \/ map[k] = None)

\* Mutant: the heap is not part of the key that is looked up.
FoundAnywhere(p, a) == map[<<NoHeap, a>>]

\* get_data
Found(p, a) == map[Key(p, a)]

\* log_or_abort_if_heapalloc_memory_adddress_is_unknown
HeapMisuse(e) == IF e = None THEN {"unknown"} ELSE {}

\* Mutant: a call of the wrong family is let through.
MisuseNoFamily(p, e) == IF e = None THEN {"unknown"} ELSE {}

\* log_or_abort_if_memory_adddress_is_unknown
Misuse(p, e) == IF e = None THEN {"unknown"}
                ELSE IF e.family # p THEN {"wrong_family"} ELSE {}

Looked(p, a) == errors' = errors \cup (IF p \in Heaps THEN HeapMisuse(Found(p, a))
                                                      ELSE Misuse(p, Found(p, a)))

\* internal_reset_all_allocations, from the runtime API
Reset(t) ==
    /\ At(t, "idle")
    /\ map' = [k \in Keys |-> None]
    /\ UNCHANGED <<block, given, pc, errors, misused, asserted>>

-----------------------------------------------------------------------------
(* malloc and all that returns new memory                                  *)

Alloc(t, p, a, s) ==
    /\ At(t, "idle")
    /\ block[a] = Free
    /\ block' = [block EXCEPT ![a] = Block(p, s)]
    /\ Goto(t, Call("add", "alloc", p, Null, a, s, FALSE))
    /\ UNCHANGED <<given, map, errors, misused, asserted>>

\* CryptUnprotectData returns a description, which is added first, and the data.
UnprotectData(t, p, a, b, s) ==
    /\ At(t, "idle")
    /\ a # b /\ block[a] = Free /\ block[b] = Free
    /\ block' = [block EXCEPT ![a] = Block(p, s), ![b] = Block(p, s)]
    /\ Goto(t, Call("add_first", "unprotect", p, a, b, s, FALSE))
    /\ UNCHANGED <<given, map, errors, misused, asserted>>

AddDescription(t) ==
    /\ At(t, "add_first")
    /\ Emplace(Key(pc[t].pool, pc[t].old), Entry(pc[t].pool, pc[t].size))
    /\ Goto(t, [pc[t] EXCEPT !.at = "add_second"])
    /\ UNCHANGED <<block, given, errors, misused>>

AddData(t) ==
    /\ At(t, "add_second")
    /\ Emplace(Key(pc[t].pool, pc[t].new), Entry(pc[t].pool, pc[t].size))
    /\ given' = given \cup {pc[t].old, pc[t].new}
    /\ Goto(t, Idle)
    /\ UNCHANGED <<block, errors, misused>>

Add(t) ==
    /\ At(t, "add")
    /\ Emplace(Key(pc[t].pool, pc[t].new), Entry(pc[t].pool, pc[t].size))
    /\ given' = given \cup ({pc[t].new} \ {Null})
    /\ Goto(t, Idle)
    /\ UNCHANGED <<block, errors, misused>>

-----------------------------------------------------------------------------
(* free: look the address up, erase it, free it                            *)

\* What a call that passes a to pool p finds wrong.
Wrong(p, a) == a \notin given \/ block[a] = Free \/ block[a].pool # p

\* Mutant: the address is not forgotten.
FreeCallNotForgotten(t, p, a) ==
    /\ At(t, "idle")
    /\ Looked(p, a)
    /\ misused' = (misused \/ Wrong(p, a))
    /\ given' = given \ {a}
    /\ Goto(t, Call("real", "free", p, a, Null, 0, FALSE))
    /\ UNCHANGED <<block, map, asserted>>

FreeCall(t, p, a) ==
    /\ At(t, "idle")
    /\ Looked(p, a)
    /\ misused' = (misused \/ Wrong(p, a))
    /\ given' = given \ {a}
    /\ LET known == Found(p, a) # None
       IN Goto(t, Call(IF known THEN "erase" ELSE "real", "free", p, a, Null, 0, known))
    /\ UNCHANGED <<block, map, asserted>>

\* The wrong call on memory of another allocator is without effect here.
RealFree(t) ==
    /\ At(t, "real") /\ pc[t].call = "free"
    /\ block' = [block EXCEPT ![pc[t].old] =
                     IF @ # Free /\ @.pool = pc[t].pool THEN Free ELSE @]
    /\ Goto(t, Idle)
    /\ UNCHANGED <<given, map, errors, misused, asserted>>

-----------------------------------------------------------------------------
(* realloc: most forget the old address after the real call, LocalReAlloc  *)
(* forgets it before                                                       *)

ReallocCall(t, p, a, s) ==
    /\ At(t, "idle")
    /\ Looked(p, a)
    /\ misused' = (misused \/ Wrong(p, a))
    /\ given' = given \ {a}
    /\ LET known == Found(p, a) # None
       IN Goto(t, Call(IF known /\ p \in Before THEN "erase" ELSE "real",
                       IF p \in Before THEN "before" ELSE "after",
                       p, a, Null, s, known))
    /\ UNCHANGED <<block, map, asserted>>

\* Mutant: a block that kept its place is not forgotten.
AfterRealInPlace(c, b) ==
    [c EXCEPT !.at = IF c.call = "after" /\ c.known /\ b # c.old THEN "erase" ELSE "add",
              !.new = b]

AfterReal(c, b) ==
    [c EXCEPT !.at = IF c.call = "after" /\ c.known THEN "erase" ELSE "add",
              !.new = b]

\* The block keeps its place, with _expand always.
RealExpand(t) ==
    /\ At(t, "real") /\ pc[t].call \in {"after", "before"}
    /\ block' = [block EXCEPT ![pc[t].old] = Block(pc[t].pool, pc[t].size)]
    /\ Goto(t, AfterReal(pc[t], pc[t].old))
    /\ UNCHANGED <<given, map, errors, misused, asserted>>

\* The block gets another place.
RealMove(t) ==
    /\ At(t, "real") /\ pc[t].call \in {"after", "before"}
    /\ LET c == pc[t] IN
       \E b \in Addrs :
          /\ block[b] = Free
          /\ block' = [block EXCEPT ![c.old] = Free, ![b] = Block(c.pool, c.size)]
          /\ Goto(t, AfterReal(c, b))
    /\ UNCHANGED <<given, map, errors, misused, asserted>>

\* nullptr, the old block stays: the call returns without another step.
RealReallocFails(t) ==
    /\ At(t, "real") /\ pc[t].call = "after"
    /\ given' = given \cup {pc[t].old}
    /\ Goto(t, Idle)
    /\ UNCHANGED <<block, map, errors, misused, asserted>>

\* LocalReAlloc fails: the old block stays, but it is no longer in the map.
LocalReallocFails(t) ==
    /\ At(t, "real") /\ pc[t].call = "before"
    /\ given' = given \cup {pc[t].old}
    /\ Goto(t, Idle)
    /\ UNCHANGED <<block, map, errors, misused, asserted>>

\* Mutant: nullptr is never taken for "like free".
RealReallocToZeroKeeps(t) ==
    /\ At(t, "real") /\ pc[t].call = "after" /\ pc[t].pool \in Crt
    /\ block' = [block EXCEPT ![pc[t].old] = Free]
    /\ Goto(t, Idle)
    /\ UNCHANGED <<given, map, errors, misused, asserted>>

\* realloc(p, 0), _recalloc(p, n, 0): free(p) and nullptr, "like free".
RealReallocToZero(t) ==
    /\ At(t, "real") /\ pc[t].call = "after" /\ pc[t].pool \in Crt
    /\ block' = [block EXCEPT ![pc[t].old] = Free]
    /\ Goto(t, IF pc[t].known THEN [pc[t] EXCEPT !.at = "erase", !.call = "freed"]
                              ELSE Idle)
    /\ UNCHANGED <<given, map, errors, misused, asserted>>

\* The erase of all these calls, and where it stands in them.
Forget(t) ==
    /\ At(t, "erase")
    /\ Erase(Key(pc[t].pool, pc[t].old))
    /\ Goto(t, CASE pc[t].call \in {"free", "before"} -> [pc[t] EXCEPT !.at = "real"]
                 [] pc[t].call = "after"              -> [pc[t] EXCEPT !.at = "add"]
                 [] pc[t].call = "freed"              -> Idle)
    /\ UNCHANGED <<block, given, errors, misused>>

-----------------------------------------------------------------------------
(* Programs.                                                               *)

Freeing(t) ==
    \/ Add(t) \/ Forget(t) \/ RealFree(t)
    \/ \E p \in Pools, a \in Addrs, s \in Sizes : Alloc(t, p, a, s)
    \/ \E a \in given : FreeCall(t, block[a].pool, a)
Resizing(t) ==
    \/ RealExpand(t) \/ RealMove(t) \/ RealReallocFails(t) \/ RealReallocToZero(t)
    \/ \E a \in given, s \in Sizes : ReallocCall(t, block[a].pool, a, s)
Unprotecting(t) ==
    \/ AddDescription(t) \/ AddData(t)
    \/ \E p \in Before, a, b \in Addrs, s \in Sizes : UnprotectData(t, p, a, b, s)

\* Programs with the errors the monitor is there to find: an address is freed
\* that was freed before, or with the function of another allocator.  Not while
\* another call has the address: then what the monitor sees is a matter of luck.
Busy(a) == \E t \in Threads : ~At(t, "idle") /\ a \in {pc[t].old, pc[t].new}
Misusing(t) == \E p \in Pools, a \in Addrs : ~Busy(a) /\ FreeCall(t, p, a)

\* Programs that let nothing run beside a realloc that erases after the real
\* call; everything else they do at once.
ReallocElsewhere(t) == \E u \in Threads \ {t} : pc[u].call \in {"after", "freed"}
Careful(t) == /\ ~ReallocElsewhere(t)
              /\ Freeing(t) \/ Resizing(t) \/ Unprotecting(t) \/ Misusing(t)

NextFreeing   == \E t \in Threads : Freeing(t)
NextCareful   == \E t \in Threads : Careful(t)
NextResizing  == \E t \in Threads : Freeing(t) \/ Resizing(t)
NextResetting == \E t \in Threads : Freeing(t) \/ Resizing(t) \/ LocalReallocFails(t) \/ Reset(t)

SpecFreeing   == Init /\ [][NextFreeing]_vars
SpecCareful   == Init /\ [][NextCareful]_vars
SpecResizing  == Init /\ [][NextResizing]_vars
SpecResetting == Init /\ [][NextResetting]_vars

-----------------------------------------------------------------------------
Calls == [at : {"add", "add_first", "add_second", "erase", "real"},
          call : {"alloc", "unprotect", "free", "freed", "before", "after"},
          pool : Pools, old : Addrs \cup {Null}, new : Addrs \cup {Null},
          size : Sizes \cup {0}, known : BOOLEAN]

TypeOK ==
    /\ block \in [Addrs -> [pool : Pools, size : Sizes] \cup {Free}]
    /\ given \subseteq Addrs
    /\ pc \in [Threads -> Calls \cup {Idle}]
    /\ map \in [Keys -> Data \cup {None}]
    /\ errors \subseteq {"unknown", "wrong_family"}
    /\ {misused, asserted} \subseteq BOOLEAN

\* What m_flat_map should hold for a key.
Expected(k) == IF k[2] \in Addrs /\ block[k[2]] # Free /\ Key(block[k[2]].pool, k[2]) = k
               THEN Entry(block[k[2]].pool, block[k[2]].size)
               ELSE None

(* The leak report at exit and the bytes told by the runtime API are what   *)
(* m_flat_map holds: for every address outside a call in progress that is   *)
(* exactly the memory handed out and not freed, with its family and size.   *)
LeaksAreExact == \A k \in Keys : ~Busy(k[2]) => map[k] = Expected(k)

(* Whatever the threads do at once: memory that was freed is not reported   *)
(* as leaked, and what is reported has the right size and family.           *)
ReportedLeaksAreReal ==
    \A k \in Keys : map[k] # None /\ ~Busy(k[2]) => map[k] = Expected(k)

(* A call is only reported as one with an unknown address or of the wrong   *)
(* family when the program has freed something wrongly ...                  *)
ReportIsMisuse == errors # {} => misused

(* ... and then it is reported.                                             *)
MisuseIsReported == misused => errors # {}

(* assert(ok) in add and assert(count == 1) in erase: an address handed out *)
(* is new to the map, and what was found there is still there.              *)
AssertsHold == ~asserted

=============================================================================
