-------------------------- MODULE LeakMonitorProofs --------------------------
(***************************************************************************)
(* Proofs about LeakMonitor, for any threads, addresses, allocators and    *)
(* sizes: for programs whose threads allocate, free and resize as they     *)
(* like and throw the recorded allocations away (SpecResetting), for the   *)
(* careful ones, the wrong frees among them (SpecCareful), and for those   *)
(* that only allocate and free (SpecFreeing).                              *)
(*                                                                         *)
(* What the runs check says nothing of addresses that are in the hands of  *)
(* a call, so it is not inductive.  HandsInv adds who is responsible for   *)
(* each address: the program (given) or one call in progress, and never    *)
(* two; and EntriesAreReal which of them the map may have an entry for     *)
(* (RacingInv).  SoundInv adds for careful programs that the map has it.   *)
(***************************************************************************)
EXTENDS LeakMonitor, TLAPS

Slots == Heaps \cup {NoHeap}

\* The call c has taken the address a from an allocator or from the program
\* and not passed it on.
OwnedBy(c, a) ==
    \/ c.at \in {"add_first", "add_second"} /\ a \in {c.old, c.new}
    \/ c.at = "add" /\ a = c.new
    \/ c.at = "real" /\ a = c.old
    \/ c.at = "erase" /\ a = IF c.call \in {"after", "freed"} THEN c.new ELSE c.old

\* What the allocators b know of the addresses of a call.
SoundCall(b, c) ==
    /\ c.at = "idle" => c.call = "none"
    /\ c.at # "idle" => c.pool \in Pools
    /\ c.at \in {"add_first", "add_second"} =>
         /\ c.old # c.new /\ c.old \in Addrs /\ c.new \in Addrs /\ c.size \in Sizes
         /\ b[c.old] = Block(c.pool, c.size) /\ b[c.new] = Block(c.pool, c.size)
    /\ c.at = "add" =>
         c.new \in Addrs /\ c.size \in Sizes /\ b[c.new] = Block(c.pool, c.size)
    /\ c.at = "real" =>
         /\ c.call \in {"free", "before", "after"}
         /\ c.call # "free" => c.size \in Sizes
         /\ c.old \in Addrs /\ b[c.old] # Free /\ b[c.old].pool = c.pool /\ c.new = Null
    /\ c.at = "erase" =>
         /\ c.old \in Addrs /\ c.call \in {"free", "before", "after", "freed"}
         /\ c.call \in {"free", "before"} =>
              b[c.old] # Free /\ b[c.old].pool = c.pool /\ c.new = Null
         /\ c.call = "before" => c.size \in Sizes
         /\ c.call = "freed" => c.new = Null
         /\ c.call = "after" =>
              c.new \in Addrs /\ c.size \in Sizes /\ b[c.new] = Block(c.pool, c.size)

CallsAreSound == \A t \in Threads : SoundCall(block, pc[t])
OneOwner ==
    \A t \in Threads, a \in Addrs : OwnedBy(pc[t], a) =>
        /\ a \notin given
        /\ \A u \in Threads : OwnedBy(pc[u], a) => u = t
Owned == \A a \in Addrs : block[a] # Free => a \in given \/ \E t \in Threads : OwnedBy(pc[t], a)
GivenIsAllocated == \A a \in given : block[a] # Free

HandsInv == TypeOK /\ CallsAreSound /\ OneOwner /\ Owned /\ GivenIsAllocated

\* c has let the real function free or move the address, and not erased it yet.
StaleBy(c, h, a) ==
    c.at = "erase" /\ c.call \in {"after", "freed"} /\ a = c.old /\ h = Slot(c.pool)
\* c has added the address, or taken it over and not erased it yet.
SettledBy(c, a) ==
    /\ a = c.old
    /\ \/ c.at = "add_second"
       \/ c.at = "erase" /\ c.call \in {"free", "before"}
       \/ c.at = "real" /\ c.call = "after" /\ c.known

Stale(h, a) == \E t \in Threads : StaleBy(pc[t], h, a)
Settled(a)  == a \in Addrs /\ (a \in given \/ \E t \in Threads : SettledBy(pc[t], a))

\* Only stale entries are wrong; every other one tells the family and the size.
EntriesAreReal ==
    \A h \in Slots, a \in Addrs \cup {Null} :
        map[<<h, a>>] # None =>
            \/ Stale(h, a)
            \/ /\ Settled(a) /\ h = Slot(block[a].pool)
               /\ map[<<h, a>>] = Entry(block[a].pool, block[a].size)

RacingInv == HandsInv /\ EntriesAreReal

-----------------------------------------------------------------------------
(* What an allocator hands out differs from nothing, in block and in map.  *)
LEMMA NotNothing ==
    ASSUME NEW p \in Pools, NEW s \in Sizes
    PROVE  /\ Block(p, s) # Free
           /\ Block(p, s) \in [pool : Pools, size : Sizes]
           /\ Block(p, s).pool = p /\ Block(p, s).size = s
           /\ Entry(p, s) # None
           /\ Entry(p, s) \in Data
           /\ Entry(p, s).family = Family(p)
           /\ Slot(p) \in Slots
<1>1. p # "none" /\ Family(p) # "none" /\ Family(p) \in Families \cup {"heapapi"}
  BY LeakAssumption DEF Pools, Family
<1>2. Slot(p) \in Slots
  BY DEF Slot, Slots, Pools
<1> QED BY <1>1, <1>2 DEF Block, Free, Entry, None, Data

LEMMA AllocatedBlock ==
    ASSUME TypeOK, NEW a \in Addrs, block[a] # Free
    PROVE  /\ block[a].pool \in Pools /\ block[a].size \in Sizes
           /\ block[a] = Block(block[a].pool, block[a].size)
<1>1. block[a] \in [pool : Pools, size : Sizes]
  BY DEF TypeOK
<1> QED BY <1>1 DEF Block

LEMMA OwnedIsAllocated ==
    ASSUME NEW b, NEW c, SoundCall(b, c), NEW a \in Addrs, OwnedBy(c, a)
    PROVE  b[a] # Free
<1>1. c.at # "idle"
  BY DEF OwnedBy
<1>2. c.pool \in Pools
  BY <1>1 DEF SoundCall
<1>3. \A s \in Sizes : Block(c.pool, s) # Free
  BY <1>2, NotNothing
<1>4. CASE c.at \in {"add_first", "add_second"}
  BY <1>3, <1>4 DEF SoundCall, OwnedBy
<1>5. CASE c.at = "add"
  BY <1>3, <1>5 DEF SoundCall, OwnedBy
<1>6. CASE c.at = "real"
  BY <1>6 DEF SoundCall, OwnedBy
<1>7. CASE c.at = "erase"
  <2>1. CASE c.call \in {"free", "before"}
    BY <1>7, <2>1 DEF SoundCall, OwnedBy
  <2>2. CASE c.call = "freed"
    BY <1>7, <2>2, LeakAssumption DEF SoundCall, OwnedBy
  <2>3. CASE c.call = "after"
    BY <1>3, <1>7, <2>3 DEF SoundCall, OwnedBy
  <2> QED BY <1>7, <2>1, <2>2, <2>3 DEF SoundCall
<1> QED BY <1>4, <1>5, <1>6, <1>7 DEF OwnedBy

\* What a call owns decides whether it is sound.
LEMMA SoundElsewhere ==
    ASSUME NEW b, NEW d, NEW c, SoundCall(b, c),
           \A a \in Addrs : OwnedBy(c, a) => d[a] = b[a]
    PROVE  SoundCall(d, c)
<1>1. CASE c.at \in {"add_first", "add_second"}
  BY <1>1 DEF SoundCall, OwnedBy
<1>2. CASE c.at = "add"
  BY <1>2 DEF SoundCall, OwnedBy
<1>3. CASE c.at = "real"
  BY <1>3 DEF SoundCall, OwnedBy
<1>4. CASE c.at = "erase"
  BY <1>4 DEF SoundCall, OwnedBy
<1>5. CASE c.at \notin {"add_first", "add_second", "add", "real", "erase"}
  BY <1>5 DEF SoundCall
<1> QED BY <1>1, <1>2, <1>3, <1>4, <1>5

(* One step of thread t, after which its call is c.                        *)
LEMMA HandsKept ==
    ASSUME HandsInv, TypeOK', NEW t \in Threads, NEW c, pc'[t] = c,
           \A u \in Threads \ {t} : pc'[u] = pc[u],
           SoundCall(block', c),
           \A a \in Addrs : block'[a] # block[a] =>
               \A u \in Threads \ {t} : ~OwnedBy(pc[u], a),
           \A a \in Addrs : OwnedBy(c, a) =>
               a \notin given' /\ \A u \in Threads \ {t} : ~OwnedBy(pc[u], a),
           \A a \in given' : /\ block'[a] # Free
                             /\ \A u \in Threads \ {t} : ~OwnedBy(pc[u], a),
           \A a \in Addrs : block'[a] # Free =>
               \/ a \in given' \/ OwnedBy(c, a)
               \/ \E u \in Threads \ {t} : OwnedBy(pc[u], a)
    PROVE  HandsInv'
<1>1. CallsAreSound'
  <2> SUFFICES ASSUME NEW u \in Threads PROVE SoundCall(block', pc'[u])
    BY DEF CallsAreSound
  <2>1. CASE u = t
    BY <2>1
  <2>2. CASE u # t
    <3>1. SoundCall(block, pc[u]) /\ \A a \in Addrs : OwnedBy(pc[u], a) => block'[a] = block[a]
      BY <2>2 DEF HandsInv, CallsAreSound
    <3>2. SoundCall(block', pc[u])
      BY <3>1, SoundElsewhere
    <3> QED BY <2>2, <3>2
  <2> QED BY <2>1, <2>2
<1>2. OneOwner'
  <2> SUFFICES ASSUME NEW u \in Threads, NEW a \in Addrs, OwnedBy(pc'[u], a)
               PROVE  a \notin given' /\ \A v \in Threads : OwnedBy(pc'[v], a) => v = u
    BY DEF OneOwner
  <2>1. CASE u = t
    BY <2>1
  <2>2. CASE u # t
    <3>1. OwnedBy(pc[u], a)
      BY <2>2
    <3>2. \A v \in Threads : OwnedBy(pc[v], a) => v = u
      BY <3>1 DEF HandsInv, OneOwner
    <3>3. ~OwnedBy(c, a) /\ a \notin given'
      BY <2>2, <3>1
    <3> QED BY <3>2, <3>3
  <2> QED BY <2>1, <2>2
<1>3. Owned'
  <2> SUFFICES ASSUME NEW a \in Addrs, block'[a] # Free
               PROVE  a \in given' \/ \E u \in Threads : OwnedBy(pc'[u], a)
    BY DEF Owned
  <2> QED OBVIOUS
<1>4. GivenIsAllocated'
  BY DEF GivenIsAllocated
<1> QED BY <1>1, <1>2, <1>3, <1>4 DEF HandsInv

\* The same for what the map holds, if the step leaves the map alone.
LEMMA EntriesKept ==
    ASSUME RacingInv, NEW t \in Threads, NEW c, pc'[t] = c,
           \A u \in Threads \ {t} : pc'[u] = pc[u], map' = map,
           pc[t].at # "erase",
           \A a \in Addrs : block'[a] # block[a] =>
               \A u \in Threads \ {t} : ~OwnedBy(pc[u], a),
           \A a \in Addrs :
               /\ a \in given \/ SettledBy(pc[t], a)
               /\ map[<<Slot(block[a].pool), a>>] # None
               => \/ block'[a] = block[a] /\ (a \in given' \/ SettledBy(c, a))
                  \/ StaleBy(c, Slot(block[a].pool), a)
    PROVE  EntriesAreReal'
<1> SUFFICES ASSUME NEW h \in Slots, NEW a \in Addrs \cup {Null}, map[<<h, a>>] # None
             PROVE  \/ \E u \in Threads : StaleBy(pc'[u], h, a)
                    \/ /\ a \in Addrs
                       /\ a \in given' \/ \E u \in Threads : SettledBy(pc'[u], a)
                       /\ h = Slot(block'[a].pool)
                       /\ map[<<h, a>>] = Entry(block'[a].pool, block'[a].size)
  BY DEF EntriesAreReal, Stale, Settled
<1>1. CASE \E u \in Threads : StaleBy(pc[u], h, a)
  <2>1. PICK u \in Threads : StaleBy(pc[u], h, a)
    BY <1>1
  <2>2. u # t
    BY <2>1 DEF StaleBy
  <2> QED BY <2>1, <2>2
<1>2. CASE /\ Settled(a) /\ h = Slot(block[a].pool)
           /\ map[<<h, a>>] = Entry(block[a].pool, block[a].size)
  <2>1. CASE a \in given \/ SettledBy(pc[t], a)
    <3>1. a \in Addrs
      BY <1>2 DEF Settled
    <3>2. \/ block'[a] = block[a] /\ (a \in given' \/ SettledBy(pc'[t], a))
          \/ StaleBy(pc'[t], h, a)
      BY <1>2, <2>1, <3>1
    <3> QED BY <1>2, <3>1, <3>2
  <2>2. CASE \E u \in Threads \ {t} : SettledBy(pc[u], a)
    <3>1. PICK u \in Threads \ {t} : SettledBy(pc[u], a)
      BY <2>2
    <3>2. a \in Addrs /\ OwnedBy(pc[u], a)
      BY <1>2, <3>1 DEF Settled, SettledBy, OwnedBy
    <3>3. block'[a] = block[a] /\ SettledBy(pc'[u], a)
      BY <3>1, <3>2
    <3> QED BY <1>2, <3>2, <3>3
  <2> QED BY <1>2, <2>1, <2>2 DEF Settled
<1> QED BY <1>1, <1>2 DEF RacingInv, EntriesAreReal, Stale

-----------------------------------------------------------------------------
\* A call that has x was the only one, and so is the program.
LEMMA OthersNotFree ==
    ASSUME HandsInv, NEW a \in Addrs, block[a] = Free
    PROVE  a \notin given /\ \A u \in Threads : ~OwnedBy(pc[u], a)
<1>1. \A u \in Threads : OwnedBy(pc[u], a) => block[a] # Free
  BY OwnedIsAllocated DEF HandsInv, CallsAreSound
<1> QED BY <1>1 DEF HandsInv, GivenIsAllocated

\* Where a call stands, and what it has.
LEMMA WhereCallsAre ==
    ASSUME HandsInv, NEW t \in Threads
    PROVE  /\ SoundCall(block, pc[t])
           /\ pc[t] \in Calls \cup {Idle}
           /\ pc[t].at = "idle" => pc[t] = Idle
           /\ pc[t].at # "idle" => pc[t] \in Calls
           /\ \A a : pc[t].at = "idle" => ~OwnedBy(pc[t], a) /\ ~SettledBy(pc[t], a)
           /\ \A a : SettledBy(pc[t], a) => OwnedBy(pc[t], a)
<1>1. SoundCall(block, pc[t]) /\ pc[t] \in Calls \cup {Idle}
  BY DEF HandsInv, CallsAreSound, TypeOK
<1>2. pc[t].at = "idle" => pc[t] = Idle
  BY <1>1 DEF Calls
<1>3. pc[t].at # "idle" => pc[t] \in Calls
  BY <1>1 DEF Idle, Call
<1>4. /\ \A a : pc[t].at = "idle" => ~OwnedBy(pc[t], a) /\ ~SettledBy(pc[t], a)
      /\ \A a : SettledBy(pc[t], a) => OwnedBy(pc[t], a)
  BY DEF OwnedBy, SettledBy
<1> QED BY <1>1, <1>2, <1>3, <1>4

LEMMA IdleCall ==
    /\ Idle.at = "idle" /\ Idle.call = "none"
    /\ \A b : SoundCall(b, Idle)
    /\ \A a : ~OwnedBy(Idle, a) /\ ~SettledBy(Idle, a)
    /\ \A h, a : ~StaleBy(Idle, h, a)
  BY DEF Idle, Call, SoundCall, OwnedBy, SettledBy, StaleBy

LEMMA AllocHands ==
    ASSUME RacingInv, NEW t \in Threads, NEW p \in Pools, NEW x \in Addrs, NEW s \in Sizes,
           Alloc(t, p, x, s)
    PROVE  RacingInv'
<1> DEFINE c == Call("add", "alloc", p, Null, x, s, FALSE)
<1>0. HandsInv /\ TypeOK
  BY DEF RacingInv, HandsInv
<1>1. /\ pc[t].at = "idle" /\ block[x] = Free
      /\ block' = [block EXCEPT ![x] = Block(p, s)]
      /\ pc' = [pc EXCEPT ![t] = c]
      /\ UNCHANGED <<given, map, errors, misused, asserted>>
  BY DEF Alloc, At, Goto
<1>2. /\ c \in Calls /\ c.at = "add" /\ c.call = "alloc" /\ c.pool = p /\ c.old = Null
      /\ c.new = x /\ c.size = s
  BY DEF Calls, Call
<1> HIDE DEF c
<1>3. Block(p, s) # Free /\ Block(p, s) \in [pool : Pools, size : Sizes]
  BY NotNothing
<1>4. /\ block'[x] = Block(p, s) /\ \A a \in Addrs : a # x => block'[a] = block[a]
      /\ pc'[t] = c /\ \A u \in Threads \ {t} : pc'[u] = pc[u]
  BY <1>0, <1>1 DEF TypeOK
<1>5. x \notin given /\ \A u \in Threads : ~OwnedBy(pc[u], x)
  BY <1>0, <1>1, OthersNotFree
<1>6. TypeOK'
  BY <1>0, <1>1, <1>2, <1>3 DEF TypeOK
<1>7. SoundCall(block', c)
  BY <1>2, <1>4 DEF SoundCall
<1>8. \A a : OwnedBy(c, a) <=> a = x
  BY <1>2 DEF OwnedBy
<1>9. \A a : ~OwnedBy(pc[t], a) /\ ~SettledBy(pc[t], a)
  BY <1>0, <1>1, WhereCallsAre
<1>10. \A a \in Addrs : block'[a] # block[a] => a = x
  BY <1>4
<1>11. \A a \in given' : block'[a] # Free /\ \A u \in Threads \ {t} : ~OwnedBy(pc[u], a)
  BY <1>0, <1>1, <1>4, <1>5 DEF HandsInv, GivenIsAllocated, OneOwner, TypeOK
<1>12. \A a \in Addrs : block'[a] # Free =>
          \/ a \in given' \/ OwnedBy(c, a)
          \/ \E u \in Threads \ {t} : OwnedBy(pc[u], a)
  BY <1>0, <1>1, <1>4, <1>8, <1>9 DEF HandsInv, Owned
<1>13. HandsInv'
  <2>1. \A a \in Addrs : OwnedBy(c, a) =>
            a \notin given' /\ \A u \in Threads \ {t} : ~OwnedBy(pc[u], a)
    BY <1>1, <1>5, <1>8
  <2> QED BY <1>0, <1>4, <1>5, <1>6, <1>7, <1>10, <1>11, <1>12, <2>1, HandsKept
<1>14. EntriesAreReal'
  BY <1>1, <1>4, <1>5, <1>9, <1>10, EntriesKept
<1> QED BY <1>13, <1>14 DEF RacingInv

LEMMA UnprotectHands ==
    ASSUME RacingInv, NEW t \in Threads, NEW p \in Before, NEW x \in Addrs, NEW y \in Addrs,
           NEW s \in Sizes, UnprotectData(t, p, x, y, s)
    PROVE  RacingInv'
<1> DEFINE c == Call("add_first", "unprotect", p, x, y, s, FALSE)
<1>0. HandsInv /\ TypeOK /\ p \in Pools
  BY LeakAssumption DEF RacingInv, HandsInv, Pools
<1>1. /\ pc[t].at = "idle" /\ block[x] = Free /\ block[y] = Free /\ x # y
      /\ block' = [block EXCEPT ![x] = Block(p, s), ![y] = Block(p, s)]
      /\ pc' = [pc EXCEPT ![t] = c]
      /\ UNCHANGED <<given, map, errors, misused, asserted>>
  BY DEF UnprotectData, At, Goto
<1>2. /\ c \in Calls /\ c.at = "add_first" /\ c.call = "unprotect" /\ c.pool = p
      /\ c.old = x /\ c.new = y /\ c.size = s
  BY <1>0 DEF Calls, Call
<1> HIDE DEF c
<1>3. Block(p, s) # Free /\ Block(p, s) \in [pool : Pools, size : Sizes]
  BY <1>0, NotNothing
<1>4. /\ block'[x] = Block(p, s) /\ block'[y] = Block(p, s)
      /\ \A a \in Addrs : a # x /\ a # y => block'[a] = block[a]
      /\ pc'[t] = c /\ \A u \in Threads \ {t} : pc'[u] = pc[u]
  BY <1>0, <1>1 DEF TypeOK
<1>5. /\ x \notin given /\ \A u \in Threads : ~OwnedBy(pc[u], x)
      /\ y \notin given /\ \A u \in Threads : ~OwnedBy(pc[u], y)
  BY <1>0, <1>1, OthersNotFree
<1>6. TypeOK'
  BY <1>0, <1>1, <1>2, <1>3 DEF TypeOK
<1>7. SoundCall(block', c)
  BY <1>0, <1>1, <1>2, <1>4 DEF SoundCall
<1>8. \A a : OwnedBy(c, a) <=> a \in {x, y}
  BY <1>2 DEF OwnedBy
<1>9. \A a : ~OwnedBy(pc[t], a) /\ ~SettledBy(pc[t], a)
  BY <1>0, <1>1, WhereCallsAre
<1>10. \A a \in Addrs : block'[a] # block[a] => a \in {x, y}
  BY <1>4
<1>11. \A a \in given' : block'[a] # Free /\ \A u \in Threads \ {t} : ~OwnedBy(pc[u], a)
  BY <1>0, <1>1, <1>4, <1>5 DEF HandsInv, GivenIsAllocated, OneOwner, TypeOK
<1>12. \A a \in Addrs : block'[a] # Free =>
          \/ a \in given' \/ OwnedBy(c, a)
          \/ \E u \in Threads \ {t} : OwnedBy(pc[u], a)
  BY <1>0, <1>1, <1>4, <1>8, <1>9 DEF HandsInv, Owned
<1>13. HandsInv'
  <2>1. \A a \in Addrs : OwnedBy(c, a) =>
            a \notin given' /\ \A u \in Threads \ {t} : ~OwnedBy(pc[u], a)
    BY <1>1, <1>5, <1>8
  <2>2. \A a \in Addrs : block'[a] # block[a] =>
            \A u \in Threads \ {t} : ~OwnedBy(pc[u], a)
    BY <1>5, <1>10
  <2> QED BY <1>0, <1>4, <1>6, <1>7, <1>11, <1>12, <2>1, <2>2, HandsKept
<1>14. EntriesAreReal'
  <2>1. \A a \in Addrs : block'[a] # block[a] =>
            \A u \in Threads \ {t} : ~OwnedBy(pc[u], a)
    BY <1>5, <1>10
  <2>2. \A a \in Addrs : a \in given \/ SettledBy(pc[t], a) =>
            block'[a] = block[a] /\ a \in given'
    BY <1>1, <1>5, <1>9, <1>10
  <2>3. pc[t].at # "erase"
    BY <1>1
  <2> QED BY <1>1, <1>4, <2>1, <2>2, <2>3, EntriesKept, ZenonT(40)
<1> QED BY <1>13, <1>14 DEF RacingInv

(* A call takes the address x over from the program.                       *)
LEMMA TakenOver ==
    ASSUME RacingInv, NEW t \in Threads, NEW x \in given, pc[t].at = "idle",
           NEW c \in Calls, pc' = [pc EXCEPT ![t] = c], UNCHANGED <<block, map, asserted>>,
           given' = given \ {x}, errors' \subseteq {"unknown", "wrong_family"},
           misused' \in BOOLEAN,
           SoundCall(block, c), \A a : OwnedBy(c, a) <=> a = x,
           map[<<Slot(block[x].pool), x>>] # None => SettledBy(c, x)
    PROVE  RacingInv'
<1>0. HandsInv /\ TypeOK
  BY DEF RacingInv, HandsInv
<1>1. /\ pc'[t] = c /\ \A u \in Threads \ {t} : pc'[u] = pc[u]
      /\ block' = block /\ map' = map
  BY <1>0 DEF TypeOK
<1>2. x \in Addrs /\ block[x] # Free /\ \A u \in Threads : ~OwnedBy(pc[u], x)
  BY <1>0 DEF HandsInv, GivenIsAllocated, OneOwner, TypeOK
<1>3. \A a : ~OwnedBy(pc[t], a) /\ ~SettledBy(pc[t], a)
  BY <1>0, WhereCallsAre
<1>4. TypeOK'
  BY <1>0 DEF TypeOK
<1>5. \A a \in given' : block'[a] # Free /\ \A u \in Threads \ {t} : ~OwnedBy(pc[u], a)
  BY <1>0, <1>1 DEF HandsInv, GivenIsAllocated, OneOwner, TypeOK
<1>6. \A a \in Addrs : block'[a] # Free =>
          \/ a \in given' \/ OwnedBy(c, a)
          \/ \E u \in Threads \ {t} : OwnedBy(pc[u], a)
  BY <1>0, <1>1, <1>3 DEF HandsInv, Owned
<1>7. HandsInv'
  BY <1>0, <1>1, <1>2, <1>4, <1>5, <1>6, HandsKept
<1>8. \A a \in Addrs :
          a \in given \/ SettledBy(pc[t], a) => a = x \/ (block'[a] = block[a] /\ a \in given')
  BY <1>1, <1>3
<1>9. \A a \in Addrs :
          (a \in given \/ SettledBy(pc[t], a)) /\ map[<<Slot(block[a].pool), a>>] # None =>
              block'[a] = block[a] /\ (a \in given' \/ SettledBy(c, a))
  BY <1>1, <1>8
<1>10. EntriesAreReal'
  BY <1>1, <1>9, EntriesKept
<1> QED BY <1>7, <1>10 DEF RacingInv

LEMMA FreeCallHands ==
    ASSUME RacingInv, NEW t \in Threads, NEW x \in given, FreeCall(t, block[x].pool, x)
    PROVE  RacingInv'
<1> DEFINE p == block[x].pool
           known == Found(p, x) # None
           c == Call(IF known THEN "erase" ELSE "real", "free", p, x, Null, 0, known)
<1>0. HandsInv /\ TypeOK
  BY DEF RacingInv, HandsInv
<1>1. x \in Addrs /\ block[x] # Free /\ p \in Pools
  BY <1>0, AllocatedBlock DEF HandsInv, GivenIsAllocated, TypeOK
<1>2. /\ pc[t].at = "idle" /\ pc' = [pc EXCEPT ![t] = c] /\ given' = given \ {x}
      /\ UNCHANGED <<block, map, asserted>>
      /\ misused' = (misused \/ Wrong(p, x)) /\ Looked(p, x)
  BY DEF FreeCall, At, Goto
<1>3. errors' \subseteq {"unknown", "wrong_family"} /\ misused' \in BOOLEAN
  <2>1. errors \subseteq {"unknown", "wrong_family"}
    BY <1>0 DEF TypeOK
  <2>2. errors' \subseteq {"unknown", "wrong_family"}
    BY <1>2, <2>1 DEF Looked, HeapMisuse, Misuse
  <2> QED BY <1>2, <2>2
<1>4. /\ c \in Calls /\ c.at = IF known THEN "erase" ELSE "real"
      /\ c.call = "free" /\ c.pool = p /\ c.old = x /\ c.new = Null
  <2>1. known \in BOOLEAN
    OBVIOUS
  <2> HIDE DEF p, known
  <2> QED BY <1>1, <2>1 DEF Calls, Call
<1>5. known <=> map[<<Slot(p), x>>] # None
  BY DEF Found, Key
<1> HIDE DEF c, known
<1>6. SoundCall(block, c)
  BY <1>1, <1>4 DEF SoundCall
<1>7. \A a : OwnedBy(c, a) <=> a = x
  BY <1>4 DEF OwnedBy
<1>8. map[<<Slot(block[x].pool), x>>] # None => SettledBy(c, x)
  BY <1>4, <1>5 DEF SettledBy
<1> QED BY <1>2, <1>3, <1>4, <1>6, <1>7, <1>8, TakenOver

LEMMA ReallocCallHands ==
    ASSUME RacingInv, NEW t \in Threads, NEW x \in given, NEW s \in Sizes,
           ReallocCall(t, block[x].pool, x, s)
    PROVE  RacingInv'
<1> DEFINE p == block[x].pool
           known == Found(p, x) # None
           c == Call(IF known /\ p \in Before THEN "erase" ELSE "real",
                     IF p \in Before THEN "before" ELSE "after", p, x, Null, s, known)
<1>0. HandsInv /\ TypeOK
  BY DEF RacingInv, HandsInv
<1>1. x \in Addrs /\ block[x] # Free /\ p \in Pools
  BY <1>0, AllocatedBlock DEF HandsInv, GivenIsAllocated, TypeOK
<1>2. /\ pc[t].at = "idle" /\ pc' = [pc EXCEPT ![t] = c] /\ given' = given \ {x}
      /\ UNCHANGED <<block, map, asserted>>
      /\ misused' = (misused \/ Wrong(p, x)) /\ Looked(p, x)
  BY DEF ReallocCall, At, Goto
<1>3. errors' \subseteq {"unknown", "wrong_family"} /\ misused' \in BOOLEAN
  <2>1. errors \subseteq {"unknown", "wrong_family"}
    BY <1>0 DEF TypeOK
  <2>2. errors' \subseteq {"unknown", "wrong_family"}
    BY <1>2, <2>1 DEF Looked, HeapMisuse, Misuse
  <2> QED BY <1>2, <2>2
<1>4. /\ c \in Calls /\ c.at = IF known /\ p \in Before THEN "erase" ELSE "real"
      /\ c.call = IF p \in Before THEN "before" ELSE "after"
      /\ c.pool = p /\ c.old = x /\ c.new = Null /\ c.size = s /\ c.known = known
  <2>1. known \in BOOLEAN
    OBVIOUS
  <2> HIDE DEF p, known
  <2> QED BY <1>1, <2>1 DEF Calls, Call
<1>5. known <=> map[<<Slot(p), x>>] # None
  BY DEF Found, Key
<1> HIDE DEF c, known
<1>6. SoundCall(block, c)
  BY <1>1, <1>4 DEF SoundCall
<1>7. \A a : OwnedBy(c, a) <=> a = x
  BY <1>4 DEF OwnedBy
<1>8. map[<<Slot(block[x].pool), x>>] # None => SettledBy(c, x)
  BY <1>4, <1>5 DEF SettledBy
<1> QED BY <1>2, <1>3, <1>4, <1>6, <1>7, <1>8, TakenOver

(* A call that is about to call the real function with an old address.     *)
LEMMA AtReal ==
    ASSUME RacingInv, NEW t \in Threads, pc[t].at = "real",
           NEW x, x = pc[t].old
    PROVE  /\ x \in Addrs \ given /\ block[x] # Free
           /\ block[x].pool = pc[t].pool /\ pc[t].pool \in Pools
           /\ pc[t].new = Null /\ pc[t].call \in {"free", "before", "after"}
           /\ pc[t].call # "free" => pc[t].size \in Sizes
           /\ \A u \in Threads \ {t} : ~OwnedBy(pc[u], x)
           /\ \A a : OwnedBy(pc[t], a) <=> a = x
           /\ \A a : SettledBy(pc[t], a) <=> (a = x /\ pc[t].call = "after" /\ pc[t].known)
           /\ pc[t] \in Calls /\ pc \in [Threads -> Calls \cup {Idle}]
<1>0. HandsInv /\ pc \in [Threads -> Calls \cup {Idle}]
  BY DEF RacingInv, HandsInv, TypeOK
<1>1. SoundCall(block, pc[t]) /\ pc[t] \in Calls
  BY <1>0, WhereCallsAre
<1>2. /\ x \in Addrs /\ block[x] # Free /\ block[x].pool = pc[t].pool /\ pc[t].pool \in Pools
      /\ pc[t].new = Null /\ pc[t].call \in {"free", "before", "after"}
      /\ pc[t].call # "free" => pc[t].size \in Sizes
  BY <1>1 DEF SoundCall
<1>3. \A a : OwnedBy(pc[t], a) <=> a = x
  BY DEF OwnedBy
<1>4. x \notin given /\ \A u \in Threads \ {t} : ~OwnedBy(pc[u], x)
  BY <1>0, <1>2, <1>3 DEF HandsInv, OneOwner
<1>5. \A a : SettledBy(pc[t], a) <=> (a = x /\ pc[t].call = "after" /\ pc[t].known)
  BY DEF SettledBy
<1> QED BY <1>0, <1>1, <1>2, <1>3, <1>4, <1>5

(* The real function has freed the old address.                            *)
LEMMA FreedForReal ==
    ASSUME RacingInv, NEW t \in Threads, pc[t].at = "real", NEW x, x = pc[t].old,
           NEW c \in Calls \cup {Idle}, pc' = [pc EXCEPT ![t] = c],
           block' = [block EXCEPT ![x] = Free],
           UNCHANGED <<given, map, errors, misused, asserted>>,
           SoundCall(block', c), \A a \in Addrs : ~OwnedBy(c, a),
           SettledBy(pc[t], x) => StaleBy(c, Slot(pc[t].pool), x)
    PROVE  RacingInv'
<1>0. HandsInv /\ TypeOK
  BY DEF RacingInv, HandsInv
<1>1. /\ x \in Addrs \ given /\ block[x].pool = pc[t].pool
      /\ \A u \in Threads \ {t} : ~OwnedBy(pc[u], x)
      /\ \A a : OwnedBy(pc[t], a) <=> a = x
  BY AtReal
<1>s. \A a : SettledBy(pc[t], a) => a = x
  BY DEF SettledBy
<1>2. /\ pc'[t] = c /\ \A u \in Threads \ {t} : pc'[u] = pc[u]
      /\ block'[x] = Free /\ \A a \in Addrs : a # x => block'[a] = block[a]
  BY <1>0, <1>1 DEF TypeOK
<1>3. TypeOK'
  BY <1>0 DEF TypeOK
<1>4. \A a \in Addrs : block'[a] # block[a] => a = x
  BY <1>2
<1>5. \A a \in Addrs : block'[a] # block[a] => \A u \in Threads \ {t} : ~OwnedBy(pc[u], a)
  BY <1>1, <1>4
<1>6. \A a \in given' : block'[a] # Free /\ \A u \in Threads \ {t} : ~OwnedBy(pc[u], a)
  BY <1>0, <1>1, <1>2 DEF HandsInv, GivenIsAllocated, OneOwner, TypeOK
<1>7. \A a \in Addrs : block'[a] # Free =>
          \/ a \in given' \/ OwnedBy(c, a)
          \/ \E u \in Threads \ {t} : OwnedBy(pc[u], a)
  BY <1>0, <1>1, <1>2 DEF HandsInv, Owned
<1>8. HandsInv'
  BY <1>0, <1>2, <1>3, <1>5, <1>6, <1>7, HandsKept
<1>9. \A a \in Addrs : a \in given \/ SettledBy(pc[t], a) =>
          (block'[a] = block[a] /\ a \in given') \/ StaleBy(c, Slot(block[a].pool), a)
  BY <1>1, <1>s, <1>2
<1>10. EntriesAreReal'
  BY <1>2, <1>5, <1>9, EntriesKept
<1> QED BY <1>8, <1>10 DEF RacingInv

LEMMA RealFreeHands ==
    ASSUME RacingInv, NEW t \in Threads, RealFree(t)
    PROVE  RacingInv'
<1> DEFINE x == pc[t].old
<1>1. pc[t].at = "real" /\ pc[t].call = "free" /\ pc' = [pc EXCEPT ![t] = Idle]
      /\ UNCHANGED <<given, map, errors, misused, asserted>>
  BY DEF RealFree, At, Goto
<1>2. block[x] # Free /\ block[x].pool = pc[t].pool /\ ~SettledBy(pc[t], x)
  BY <1>1, AtReal
<1>3. block' = [block EXCEPT ![x] = Free]
  BY <1>2 DEF RealFree
<1> HIDE DEF x
<1>4. SoundCall(block', Idle) /\ \A a \in Addrs : ~OwnedBy(Idle, a)
  BY IdleCall
<1> QED BY <1>1, <1>2, <1>3, <1>4, FreedForReal DEF x

LEMMA RealReallocToZeroHands ==
    ASSUME RacingInv, NEW t \in Threads, RealReallocToZero(t)
    PROVE  RacingInv'
<1> DEFINE x == pc[t].old
           d == [pc[t] EXCEPT !.at = "erase", !.call = "freed"]
           c == IF pc[t].known THEN d ELSE Idle
<1>1. /\ pc[t].at = "real" /\ pc[t].call = "after" /\ pc' = [pc EXCEPT ![t] = c]
      /\ block' = [block EXCEPT ![x] = Free]
      /\ UNCHANGED <<given, map, errors, misused, asserted>>
  BY DEF RealReallocToZero, At, Goto
<1>2. /\ x \in Addrs /\ pc[t].new = Null /\ pc[t] \in Calls /\ pc[t].pool \in Pools
      /\ SettledBy(pc[t], x) => pc[t].known
  BY <1>1, AtReal
<1>3. /\ d \in Calls /\ d.at = "erase" /\ d.call = "freed" /\ d.old = x
      /\ d.new = Null /\ d.pool = pc[t].pool
  BY <1>2 DEF Calls
<1> HIDE DEF d
<1>4. SoundCall(block', c)
  <2>1. SoundCall(block', d)
    BY <1>2, <1>3 DEF SoundCall
  <2> QED BY <2>1, IdleCall
<1>5. \A a \in Addrs : ~OwnedBy(c, a)
  <2>1. \A a \in Addrs : ~OwnedBy(d, a)
    BY <1>3, LeakAssumption DEF OwnedBy
  <2> QED BY <2>1, IdleCall
<1>6. SettledBy(pc[t], x) => StaleBy(c, Slot(pc[t].pool), x)
  <2>1. StaleBy(d, Slot(pc[t].pool), x)
    BY <1>3 DEF StaleBy
  <2> QED BY <1>2, <2>1
<1>7. c \in Calls \cup {Idle}
  BY <1>3
<1> HIDE DEF c, x
<1> QED BY <1>1, <1>4, <1>5, <1>6, <1>7, FreedForReal DEF x

(* The real function has failed: the program has its memory back.          *)
LEMMA FailedHands ==
    ASSUME RacingInv, NEW t \in Threads, RealReallocFails(t) \/ LocalReallocFails(t)
    PROVE  RacingInv'
<1> DEFINE x == pc[t].old
<1>0. HandsInv /\ TypeOK
  BY DEF RacingInv, HandsInv
<1>1. /\ pc[t].at = "real" /\ pc' = [pc EXCEPT ![t] = Idle]
      /\ given' = given \cup {x}
      /\ UNCHANGED <<block, map, errors, misused, asserted>>
  BY DEF RealReallocFails, LocalReallocFails, At, Goto
<1>2. /\ x \in Addrs \ given /\ block[x] # Free
      /\ \A u \in Threads \ {t} : ~OwnedBy(pc[u], x)
      /\ \A a : OwnedBy(pc[t], a) <=> a = x
      /\ \A a : SettledBy(pc[t], a) => a = x
  BY <1>1, AtReal
<1> HIDE DEF x
<1>3. pc'[t] = Idle /\ (\A u \in Threads \ {t} : pc'[u] = pc[u]) /\ block' = block
  BY <1>0, <1>1 DEF TypeOK
<1>4. TypeOK'
  BY <1>0, <1>1, <1>2 DEF TypeOK
<1>5. \A a \in given' : block'[a] # Free /\ \A u \in Threads \ {t} : ~OwnedBy(pc[u], a)
  BY <1>0, <1>1, <1>2 DEF HandsInv, GivenIsAllocated, OneOwner, TypeOK
<1>6. \A a \in Addrs : block'[a] # Free =>
          \/ a \in given' \/ OwnedBy(Idle, a)
          \/ \E u \in Threads \ {t} : OwnedBy(pc[u], a)
  BY <1>0, <1>1, <1>2 DEF HandsInv, Owned
<1>7. HandsInv'
  <2>1. SoundCall(block', Idle) /\ \A a : ~OwnedBy(Idle, a)
    BY IdleCall
  <2> QED BY <1>0, <1>3, <1>4, <1>5, <1>6, <2>1, HandsKept
<1>8. \A a \in Addrs : a \in given \/ SettledBy(pc[t], a) => block'[a] = block[a] /\ a \in given'
  BY <1>1, <1>2
<1>9. EntriesAreReal'
  BY <1>1, <1>3, <1>8, EntriesKept
<1> QED BY <1>7, <1>9 DEF RacingInv

(* The real function has given the block the place y, perhaps the old one. *)
MovedTo(t, y) ==
    /\ pc[t].at = "real" /\ pc[t].call \in {"after", "before"}
    /\ pc[t].old = y \/ block[y] = Free
    /\ pc' = [pc EXCEPT ![t] = AfterReal(pc[t], y)]
    /\ block' \in [Addrs -> [pool : Pools, size : Sizes] \cup {Free}]
    /\ block'[y] = Block(pc[t].pool, pc[t].size)
    /\ pc[t].old # y => block'[pc[t].old] = Free
    /\ \A a \in Addrs : a # pc[t].old /\ a # y => block'[a] = block[a]
    /\ UNCHANGED <<given, map, errors, misused, asserted>>

LEMMA MovedForReal ==
    ASSUME RacingInv, NEW t \in Threads, NEW y \in Addrs, MovedTo(t, y)
    PROVE  RacingInv'
<1> DEFINE x == pc[t].old
<1>m. /\ pc[t].at = "real" /\ pc[t].call \in {"after", "before"}
      /\ x = y \/ block[y] = Free
      /\ pc' = [pc EXCEPT ![t] = AfterReal(pc[t], y)]
      /\ block' \in [Addrs -> [pool : Pools, size : Sizes] \cup {Free}]
      /\ block'[y] = Block(pc[t].pool, pc[t].size)
      /\ x # y => block'[x] = Free
      /\ \A a \in Addrs : a # x /\ a # y => block'[a] = block[a]
      /\ UNCHANGED <<given, map, errors, misused, asserted>>
  BY DEF MovedTo
<1>x. x = pc[t].old
  OBVIOUS
<1> HIDE DEF x
<1> USE <1>m, <1>x
<1> DEFINE c == AfterReal(pc[t], y)
<1>0. HandsInv /\ TypeOK
  BY DEF RacingInv, HandsInv
<1>1. /\ x \in Addrs \ given /\ block[x] # Free
      /\ block[x].pool = pc[t].pool /\ pc[t].pool \in Pools /\ pc[t].size \in Sizes
      /\ \A u \in Threads \ {t} : ~OwnedBy(pc[u], x)
      /\ \A a : OwnedBy(pc[t], a) <=> a = x
      /\ pc[t] \in Calls
  BY AtReal
<1>s. \A a : SettledBy(pc[t], a) => a = x /\ pc[t].call = "after" /\ pc[t].known
  BY DEF SettledBy
<1>2. /\ c \in Calls /\ c.call = pc[t].call /\ c.pool = pc[t].pool /\ c.size = pc[t].size
      /\ c.old = x /\ c.new = y
      /\ c.at = IF pc[t].call = "after" /\ pc[t].known THEN "erase" ELSE "add"
      /\ pc' = [pc EXCEPT ![t] = c]
  BY <1>1 DEF AfterReal, Calls
<1> HIDE DEF c
<1>3. Block(pc[t].pool, pc[t].size) # Free
      /\ Block(pc[t].pool, pc[t].size) \in [pool : Pools, size : Sizes]
  BY <1>1, NotNothing
<1>4. /\ block'[y] = Block(c.pool, c.size)
      /\ x # y => block'[x] = Free
      /\ \A a \in Addrs : a # x /\ a # y => block'[a] = block[a]
      /\ pc'[t] = c /\ \A u \in Threads \ {t} : pc'[u] = pc[u]
  BY <1>0, <1>1, <1>2 DEF TypeOK
<1>5. \A u \in Threads \ {t} : ~OwnedBy(pc[u], y)
  <2>1. block[y] = Free => \A u \in Threads : ~OwnedBy(pc[u], y)
    BY <1>0, OthersNotFree
  <2> QED BY <1>1, <2>1
<1>6. y \notin given
  BY <1>0, <1>1 DEF HandsInv, GivenIsAllocated
<1>7. TypeOK'
  BY <1>0, <1>2 DEF TypeOK
<1>8. SoundCall(block', c)
  BY <1>1, <1>2, <1>4 DEF SoundCall
<1>9. \A a : OwnedBy(c, a) <=> a = y
  BY <1>2 DEF OwnedBy
<1>10. \A a \in Addrs : block'[a] # block[a] => \A u \in Threads \ {t} : ~OwnedBy(pc[u], a)
  BY <1>1, <1>4, <1>5
<1>11. \A a \in given' : block'[a] # Free /\ \A u \in Threads \ {t} : ~OwnedBy(pc[u], a)
  BY <1>0, <1>1, <1>4, <1>6 DEF HandsInv, GivenIsAllocated, OneOwner, TypeOK
<1>12. \A a \in Addrs : block'[a] # Free =>
          \/ a \in given' \/ OwnedBy(c, a)
          \/ \E u \in Threads \ {t} : OwnedBy(pc[u], a)
  <2> SUFFICES ASSUME NEW a \in Addrs, block'[a] # Free, a # y
               PROVE  a \in given' \/ \E u \in Threads \ {t} : OwnedBy(pc[u], a)
    BY <1>9
  <2>1. a # x /\ block[a] # Free
    BY <1>4
  <2>2. a \in given \/ \E u \in Threads : OwnedBy(pc[u], a)
    BY <1>0, <2>1 DEF HandsInv, Owned
  <2> QED BY <1>1, <2>1, <2>2
<1>13. HandsInv'
  <2>1. \A a \in Addrs : OwnedBy(c, a) =>
            a \notin given' /\ \A u \in Threads \ {t} : ~OwnedBy(pc[u], a)
    BY <1>5, <1>6, <1>9
  <2> QED BY <1>0, <1>4, <1>7, <1>8, <1>10, <1>11, <1>12, <2>1, HandsKept
<1>14. \A a \in Addrs : a \in given \/ SettledBy(pc[t], a) =>
          \/ block'[a] = block[a] /\ a \in given'
          \/ StaleBy(c, Slot(block[a].pool), a)
  <2>1. SettledBy(pc[t], x) => StaleBy(c, Slot(block[x].pool), x)
    BY <1>1, <1>2, <1>s DEF StaleBy
  <2>2. \A a \in given : block'[a] = block[a]
    BY <1>0, <1>1, <1>4, <1>6 DEF TypeOK
  <2> QED BY <1>s, <2>1, <2>2
<1>15. EntriesAreReal'
  BY <1>4, <1>10, <1>14, EntriesKept
<1> QED BY <1>13, <1>15 DEF RacingInv

LEMMA ExpandMoves ==
    ASSUME RacingInv, NEW t \in Threads, RealExpand(t)
    PROVE  \E y \in Addrs : MovedTo(t, y)
<1> DEFINE x == pc[t].old
<1>1. /\ pc[t].at = "real" /\ pc[t].call \in {"after", "before"}
      /\ pc' = [pc EXCEPT ![t] = AfterReal(pc[t], x)]
      /\ block' = [block EXCEPT ![x] = Block(pc[t].pool, pc[t].size)]
      /\ UNCHANGED <<given, map, errors, misused, asserted>>
  BY DEF RealExpand, At, Goto
<1>2. x \in Addrs
  BY <1>1, AtReal
<1>3. /\ block'[x] = Block(pc[t].pool, pc[t].size)
      /\ \A a \in Addrs : a # x => block'[a] = block[a]
  BY <1>1, <1>2 DEF RacingInv, HandsInv, TypeOK
<1>4. block' \in [Addrs -> [pool : Pools, size : Sizes] \cup {Free}]
  BY <1>1, AtReal, NotNothing DEF RacingInv, HandsInv, TypeOK
<1>5. MovedTo(t, x)
  BY <1>1, <1>3, <1>4 DEF MovedTo
<1> HIDE DEF x
<1> QED BY <1>2, <1>5

LEMMA MoveMoves ==
    ASSUME RacingInv, NEW t \in Threads, RealMove(t)
    PROVE  \E y \in Addrs : MovedTo(t, y)
<1> DEFINE x == pc[t].old
<1>1. pc[t].at = "real" /\ pc[t].call \in {"after", "before"}
      /\ UNCHANGED <<given, map, errors, misused, asserted>>
  BY DEF RealMove, At
<1>2. PICK y \in Addrs :
         /\ block[y] = Free
         /\ block' = [block EXCEPT ![x] = Free, ![y] = Block(pc[t].pool, pc[t].size)]
         /\ pc' = [pc EXCEPT ![t] = AfterReal(pc[t], y)]
  BY DEF RealMove, Goto
<1>3. x \in Addrs
  BY <1>1, AtReal
<1>4. /\ block'[y] = Block(pc[t].pool, pc[t].size)
      /\ x # y => block'[x] = Free
      /\ \A a \in Addrs : a # x /\ a # y => block'[a] = block[a]
  BY <1>2, <1>3 DEF RacingInv, HandsInv, TypeOK
<1>5. block' \in [Addrs -> [pool : Pools, size : Sizes] \cup {Free}]
  BY <1>1, <1>2, AtReal, NotNothing DEF RacingInv, HandsInv, TypeOK
<1>6. MovedTo(t, y)
  BY <1>1, <1>2, <1>4, <1>5 DEF MovedTo
<1> QED BY <1>6

LEMMA ResizedHands ==
    ASSUME RacingInv, NEW t \in Threads, RealExpand(t) \/ RealMove(t)
    PROVE  RacingInv'
  BY ExpandMoves, MoveMoves, MovedForReal

-----------------------------------------------------------------------------
(* The steps on the map: emplace leaves the entry of another call alone.   *)
LEMMA EntriesAdded ==
    ASSUME RacingInv, NEW t \in Threads, NEW c, pc'[t] = c,
           \A u \in Threads \ {t} : pc'[u] = pc[u],
           block' = block, given \subseteq given', pc[t].at # "erase",
           NEW y \in Addrs, NEW p, NEW s, OwnedBy(pc[t], y), ~SettledBy(pc[t], y),
           p \in Pools, block[y] = Block(p, s), Emplace(Key(p, y), Entry(p, s)),
           y \in given' \/ SettledBy(c, y),
           \A a \in Addrs : SettledBy(pc[t], a) => a \in given' \/ SettledBy(c, a)
    PROVE  EntriesAreReal'
<1>0. HandsInv /\ TypeOK /\ EntriesAreReal
  BY DEF RacingInv, HandsInv
<1>1. \A u \in Threads : OwnedBy(pc[u], y) => u = t
  BY <1>0 DEF HandsInv, OneOwner
<1>2. ~Settled(y)
  <2>1. y \notin given
    BY <1>0 DEF HandsInv, OneOwner
  <2>2. \A u \in Threads : SettledBy(pc[u], y) => OwnedBy(pc[u], y)
    BY <1>0, WhereCallsAre
  <2> QED BY <1>1, <2>1, <2>2 DEF Settled
<1>3. \A h, a : Stale(h, a) => Stale(h, a)'
  <2> SUFFICES ASSUME NEW h, NEW a, NEW u \in Threads, StaleBy(pc[u], h, a)
               PROVE  StaleBy(pc'[u], h, a)
    BY DEF Stale
  <2>1. u # t
    BY DEF StaleBy
  <2> QED BY <2>1
<1>4. \A a : Settled(a) => Settled(a)'
  BY DEF Settled
<1>5. Settled(y)'
  BY DEF Settled
<1>6. block[y].pool = p /\ block[y].size = s
  BY DEF Block
<1> SUFFICES ASSUME NEW h \in Slots, NEW a \in Addrs \cup {Null}, map'[<<h, a>>] # None
             PROVE  \/ Stale(h, a)'
                    \/ /\ Settled(a)' /\ h = Slot(block[a].pool)
                       /\ map'[<<h, a>>] = Entry(block[a].pool, block[a].size)
  BY DEF EntriesAreReal
<1>7. <<h, a>> \in Keys
  BY DEF Slots, Keys
<1>8. CASE map[<<h, a>>] # None
  <2>1. map'[<<h, a>>] = map[<<h, a>>]
    BY <1>0, <1>7, <1>8 DEF Emplace, TypeOK
  <2> QED BY <1>0, <1>3, <1>4, <1>8, <2>1 DEF EntriesAreReal
<1>9. CASE map[<<h, a>>] = None
  <2> DEFINE k == <<Slot(p), y>>
  <2>1. map' = IF map[k] = None THEN [map EXCEPT ![k] = Entry(p, s)] ELSE map
    BY DEF Emplace, Key
  <2>2. <<h, a>> = k
    <3> HIDE DEF k
    <3> QED BY <1>0, <1>7, <1>9, <2>1 DEF TypeOK
  <2>3. h = Slot(p) /\ a = y
    BY <2>2
  <2>4. map'[<<h, a>>] = Entry(p, s)
    <3> HIDE DEF k
    <3> QED BY <1>0, <1>7, <1>9, <2>1, <2>2 DEF TypeOK
  <2> QED BY <1>5, <1>6, <2>3, <2>4
<1> QED BY <1>8, <1>9

LEMMA EmplaceTypes ==
    ASSUME TypeOK, NEW a \in Addrs, NEW p \in Pools, NEW s \in Sizes,
           Emplace(Key(p, a), Entry(p, s))
    PROVE  map' \in [Keys -> Data \cup {None}] /\ asserted' \in BOOLEAN
<1>1. map \in [Keys -> Data \cup {None}] /\ asserted \in BOOLEAN
  BY DEF TypeOK
<1>2. Entry(p, s) \in Data
  BY NotNothing
<1> QED BY <1>1, <1>2 DEF Emplace

(* A call of t gives the program some of what it has; the allocators sleep. *)
LEMMA HandedOn ==
    ASSUME HandsInv, TypeOK', NEW t \in Threads, NEW c, pc'[t] = c,
           \A u \in Threads \ {t} : pc'[u] = pc[u], block' = block,
           SoundCall(block, c), NEW Y \in SUBSET Addrs, given' = given \cup Y,
           \A a \in Y : OwnedBy(pc[t], a) /\ ~OwnedBy(c, a),
           \A a \in Addrs : OwnedBy(c, a) => OwnedBy(pc[t], a),
           \A a \in Addrs : OwnedBy(pc[t], a) /\ block[a] # Free =>
               a \in Y \/ OwnedBy(c, a)
    PROVE  HandsInv'
<1>1. \A a \in Addrs : OwnedBy(pc[t], a) =>
          a \notin given /\ \A u \in Threads \ {t} : ~OwnedBy(pc[u], a)
  BY DEF HandsInv, OneOwner
<1>2. \A a \in Addrs : OwnedBy(c, a) =>
          a \notin given' /\ \A u \in Threads \ {t} : ~OwnedBy(pc[u], a)
  BY <1>1
<1>3. \A a \in given' : block'[a] # Free /\ \A u \in Threads \ {t} : ~OwnedBy(pc[u], a)
  <2> SUFFICES ASSUME NEW a \in given'
               PROVE  block[a] # Free /\ \A u \in Threads \ {t} : ~OwnedBy(pc[u], a)
    OBVIOUS
  <2>1. CASE a \in given
    BY <2>1 DEF HandsInv, GivenIsAllocated, OneOwner, TypeOK
  <2>2. CASE a \in Y
    <3>1. block[a] # Free
      BY <2>2, OwnedIsAllocated DEF HandsInv, CallsAreSound
    <3> QED BY <1>1, <2>2, <3>1
  <2> QED BY <2>1, <2>2
<1>4. \A a \in Addrs : block'[a] # Free =>
          \/ a \in given' \/ OwnedBy(c, a)
          \/ \E u \in Threads \ {t} : OwnedBy(pc[u], a)
  <2> SUFFICES ASSUME NEW a \in Addrs, block[a] # Free, a \notin given', ~OwnedBy(c, a)
               PROVE  \E u \in Threads \ {t} : OwnedBy(pc[u], a)
    OBVIOUS
  <2>1. PICK u \in Threads : OwnedBy(pc[u], a)
    BY DEF HandsInv, Owned
  <2>2. ~OwnedBy(pc[t], a)
    OBVIOUS
  <2> QED BY <2>1, <2>2
<1> QED BY <1>2, <1>3, <1>4, HandsKept

LEMMA AddHands ==
    ASSUME RacingInv, NEW t \in Threads, Add(t)
    PROVE  RacingInv'
<1> DEFINE y == pc[t].new
           p == pc[t].pool
           s == pc[t].size
<1>0. HandsInv /\ TypeOK
  BY DEF RacingInv, HandsInv
<1>1. /\ pc[t].at = "add" /\ Emplace(Key(p, y), Entry(p, s))
      /\ given' = given \cup ({y} \ {Null})
      /\ pc' = [pc EXCEPT ![t] = Idle]
      /\ UNCHANGED <<block, errors, misused>>
  BY DEF Add, At, Goto
<1>2. y \in Addrs /\ s \in Sizes /\ p \in Pools /\ block[y] = Block(p, s) /\ y # Null
  BY <1>0, <1>1, WhereCallsAre, LeakAssumption DEF SoundCall
<1>3. \A a : ~SettledBy(pc[t], a) /\ (OwnedBy(pc[t], a) <=> a = y)
  BY <1>1 DEF SettledBy, OwnedBy
<1> HIDE DEF y, p, s
<1>4. pc'[t] = Idle /\ (\A u \in Threads \ {t} : pc'[u] = pc[u]) /\ block' = block
  BY <1>0, <1>1 DEF TypeOK
<1>5. given' = given \cup {y}
  BY <1>1, <1>2
<1>6. TypeOK'
  <2>1. map' \in [Keys -> Data \cup {None}] /\ asserted' \in BOOLEAN
    BY <1>0, <1>1, <1>2, EmplaceTypes
  <2> QED BY <1>0, <1>1, <1>2, <1>5, <2>1 DEF TypeOK
<1>7. HandsInv'
  <2>1. SoundCall(block, Idle) /\ \A a : ~OwnedBy(Idle, a)
    BY IdleCall
  <2>2. {y} \in SUBSET Addrs /\ \A a \in {y} : OwnedBy(pc[t], a)
    BY <1>2, <1>3
  <2>3. \A a \in Addrs : OwnedBy(pc[t], a) => a \in {y}
    BY <1>3
  <2> QED BY <1>0, <1>4, <1>5, <1>6, <2>1, <2>2, <2>3, HandedOn
<1>8. EntriesAreReal'
  BY <1>1, <1>2, <1>3, <1>4, <1>5, EntriesAdded
<1> QED BY <1>7, <1>8 DEF RacingInv

LEMMA AddDescriptionHands ==
    ASSUME RacingInv, NEW t \in Threads, AddDescription(t)
    PROVE  RacingInv'
<1> DEFINE y == pc[t].old
           p == pc[t].pool
           s == pc[t].size
           c == [pc[t] EXCEPT !.at = "add_second"]
<1>0. HandsInv /\ TypeOK
  BY DEF RacingInv, HandsInv
<1>1. /\ pc[t].at = "add_first" /\ Emplace(Key(p, y), Entry(p, s))
      /\ pc' = [pc EXCEPT ![t] = c]
      /\ UNCHANGED <<block, given, errors, misused>>
  BY DEF AddDescription, At, Goto
<1>2. /\ y \in Addrs /\ s \in Sizes /\ p \in Pools /\ block[y] = Block(p, s)
      /\ SoundCall(block, pc[t]) /\ pc[t] \in Calls
  BY <1>0, <1>1, WhereCallsAre, LeakAssumption DEF SoundCall
<1>3. /\ c.at = "add_second" /\ c.old = y /\ c.new = pc[t].new /\ c.pool = p /\ c.size = s
      /\ c \in Calls
  BY <1>2 DEF Calls
<1> HIDE DEF c
<1>4. SoundCall(block, c)
  BY <1>1, <1>2, <1>3 DEF SoundCall
<1>5. \A a : /\ ~SettledBy(pc[t], a)
             /\ OwnedBy(pc[t], a) <=> a \in {y, pc[t].new}
             /\ OwnedBy(c, a) <=> a \in {y, pc[t].new}
  BY <1>1, <1>3 DEF SettledBy, OwnedBy
<1>6. SettledBy(c, y)
  BY <1>3 DEF SettledBy
<1> HIDE DEF y, p, s
<1>7. pc'[t] = c /\ (\A u \in Threads \ {t} : pc'[u] = pc[u]) /\ block' = block
  BY <1>0, <1>1 DEF TypeOK
<1>8. TypeOK'
  <2>1. map' \in [Keys -> Data \cup {None}] /\ asserted' \in BOOLEAN
    BY <1>0, <1>1, <1>2, EmplaceTypes
  <2> QED BY <1>0, <1>1, <1>3, <2>1 DEF TypeOK
<1>9. HandsInv'
  <2>1. {} \in SUBSET Addrs /\ given' = given \cup {}
    BY <1>1
  <2>2. \A a \in Addrs : OwnedBy(pc[t], a) => OwnedBy(c, a)
    BY <1>5
  <2>3. \A a \in Addrs : OwnedBy(c, a) => OwnedBy(pc[t], a)
    BY <1>5
  <2> QED BY <1>0, <1>4, <1>7, <1>8, <2>1, <2>2, <2>3, HandedOn
<1>10. EntriesAreReal'
  BY <1>1, <1>2, <1>5, <1>6, <1>7, EntriesAdded
<1> QED BY <1>9, <1>10 DEF RacingInv

LEMMA AddDataHands ==
    ASSUME RacingInv, NEW t \in Threads, AddData(t)
    PROVE  RacingInv'
<1> DEFINE x == pc[t].old
           y == pc[t].new
           p == pc[t].pool
           s == pc[t].size
<1>0. HandsInv /\ TypeOK
  BY DEF RacingInv, HandsInv
<1>1. /\ pc[t].at = "add_second" /\ Emplace(Key(p, y), Entry(p, s))
      /\ given' = given \cup {x, y}
      /\ pc' = [pc EXCEPT ![t] = Idle]
      /\ UNCHANGED <<block, errors, misused>>
  BY DEF AddData, At, Goto
<1>2. /\ x \in Addrs /\ y \in Addrs /\ x # y /\ s \in Sizes /\ p \in Pools
      /\ block[y] = Block(p, s)
  BY <1>0, <1>1, WhereCallsAre DEF SoundCall
<1>3. \A a : (SettledBy(pc[t], a) => a = x) /\ (OwnedBy(pc[t], a) <=> a \in {x, y})
  BY <1>1 DEF SettledBy, OwnedBy
<1> HIDE DEF x, y, p, s
<1>4. pc'[t] = Idle /\ (\A u \in Threads \ {t} : pc'[u] = pc[u]) /\ block' = block
  BY <1>0, <1>1 DEF TypeOK
<1>5. TypeOK'
  <2>1. map' \in [Keys -> Data \cup {None}] /\ asserted' \in BOOLEAN
    BY <1>0, <1>1, <1>2, EmplaceTypes
  <2> QED BY <1>0, <1>1, <1>2, <2>1 DEF TypeOK
<1>6. HandsInv'
  <2>1. SoundCall(block, Idle) /\ \A a : ~OwnedBy(Idle, a)
    BY IdleCall
  <2> DEFINE Y == {x, y}
  <2>2. Y \in SUBSET Addrs /\ \A a \in Y : OwnedBy(pc[t], a)
    BY <1>2, <1>3
  <2>3. \A a \in Addrs : OwnedBy(pc[t], a) => a \in Y
    BY <1>3
  <2>4. given' = given \cup Y
    BY <1>1
  <2> HIDE DEF Y
  <2> QED BY <1>0, <1>4, <1>5, <2>1, <2>2, <2>3, <2>4, HandedOn
<1>7. EntriesAreReal'
  <2>1. given \subseteq given' /\ y \in given' /\ ~SettledBy(pc[t], y) /\ OwnedBy(pc[t], y)
    BY <1>1, <1>2, <1>3
  <2>2. \A a \in Addrs : SettledBy(pc[t], a) => a \in given'
    BY <1>1, <1>3
  <2> QED BY <1>1, <1>2, <1>4, <2>1, <2>2, EntriesAdded
<1> QED BY <1>6, <1>7 DEF RacingInv

LEMMA ForgetHands ==
    ASSUME RacingInv, NEW t \in Threads, Forget(t)
    PROVE  RacingInv'
<1> DEFINE x == pc[t].old
           k == <<Slot(pc[t].pool), x>>
           c == CASE pc[t].call \in {"free", "before"} -> [pc[t] EXCEPT !.at = "real"]
                  [] pc[t].call = "after"              -> [pc[t] EXCEPT !.at = "add"]
                  [] pc[t].call = "freed"              -> Idle
<1>0. HandsInv /\ TypeOK /\ EntriesAreReal
  BY DEF RacingInv, HandsInv
<1>1. /\ pc[t].at = "erase" /\ map' = [map EXCEPT ![k] = None]
      /\ asserted' = (asserted \/ map[k] = None)
      /\ pc' = [pc EXCEPT ![t] = c]
      /\ UNCHANGED <<block, given, errors, misused>>
  BY DEF Forget, Erase, Key, At, Goto
<1>2. /\ SoundCall(block, pc[t]) /\ pc[t] \in Calls /\ x \in Addrs /\ pc[t].pool \in Pools
      /\ pc[t].call \in {"free", "before", "after", "freed"}
  BY <1>0, <1>1, WhereCallsAre DEF SoundCall
<1>3. /\ SoundCall(block, c) /\ c \in Calls \cup {Idle}
      /\ \A a \in Addrs : OwnedBy(c, a) <=> OwnedBy(pc[t], a)
      /\ \A h, a : ~StaleBy(c, h, a) /\ (SettledBy(pc[t], a) => h # Slot(block[a].pool) \/ <<h, a>> = k)
  <2>1. CASE pc[t].call \in {"free", "before"}
    <3>1. /\ c \in Calls /\ c.at = "real" /\ c.call = pc[t].call /\ c.old = x
          /\ c.new = pc[t].new /\ c.pool = pc[t].pool /\ c.size = pc[t].size
      BY <1>2, <2>1 DEF Calls
    <3> HIDE DEF c
    <3>2. SoundCall(block, c)
      BY <1>1, <1>2, <2>1, <3>1 DEF SoundCall
    <3>3. \A a \in Addrs : OwnedBy(c, a) <=> OwnedBy(pc[t], a)
      BY <1>1, <2>1, <3>1 DEF OwnedBy
    <3>4. block[x].pool = pc[t].pool
      BY <1>1, <1>2, <2>1 DEF SoundCall
    <3>5. \A h, a : ~StaleBy(c, h, a) /\ (SettledBy(pc[t], a) => a = x)
      BY <3>1 DEF StaleBy, SettledBy
    <3> QED BY <3>1, <3>2, <3>3, <3>4, <3>5
  <2>2. CASE pc[t].call = "after"
    <3>1. /\ c \in Calls /\ c.at = "add" /\ c.call = pc[t].call /\ c.old = x
          /\ c.new = pc[t].new /\ c.pool = pc[t].pool /\ c.size = pc[t].size
      BY <1>2, <2>2 DEF Calls
    <3> HIDE DEF c
    <3>2. SoundCall(block, c)
      BY <1>1, <1>2, <2>2, <3>1 DEF SoundCall
    <3>3. \A a \in Addrs : OwnedBy(c, a) <=> OwnedBy(pc[t], a)
      BY <1>1, <2>2, <3>1 DEF OwnedBy
    <3>5. \A h, a : ~StaleBy(c, h, a) /\ ~SettledBy(pc[t], a)
      BY <1>1, <2>2, <3>1 DEF StaleBy, SettledBy
    <3> QED BY <3>1, <3>2, <3>3, <3>5
  <2>3. CASE pc[t].call = "freed"
    <3>1. c = Idle
      BY <2>3
    <3> HIDE DEF c
    <3>2. pc[t].new \notin Addrs
      BY <1>1, <1>2, <2>3, LeakAssumption DEF SoundCall
    <3>3. \A a \in Addrs : ~OwnedBy(pc[t], a)
      BY <1>1, <2>3, <3>2 DEF OwnedBy
    <3>4. \A a : ~SettledBy(pc[t], a)
      BY <1>1, <2>3 DEF SettledBy
    <3> QED BY <3>1, <3>3, <3>4, IdleCall
  <2> QED BY <1>2, <2>1, <2>2, <2>3
<1> HIDE DEF c
<1>4. pc'[t] = c /\ (\A u \in Threads \ {t} : pc'[u] = pc[u]) /\ block' = block
  BY <1>0, <1>1 DEF TypeOK
<1>5. TypeOK'
  BY <1>0, <1>1, <1>3 DEF TypeOK
<1>6. HandsInv'
  <2>1. {} \in SUBSET Addrs /\ given' = given \cup {}
    BY <1>1
  <2>2. \A a \in Addrs : OwnedBy(c, a) => OwnedBy(pc[t], a)
    BY <1>3
  <2>3. \A a \in Addrs : OwnedBy(pc[t], a) => OwnedBy(c, a)
    BY <1>3
  <2> QED BY <1>0, <1>3, <1>4, <1>5, <2>1, <2>2, <2>3, HandedOn
<1>7. EntriesAreReal'
  <2> SUFFICES ASSUME NEW h \in Slots, NEW a \in Addrs \cup {Null}, map'[<<h, a>>] # None
               PROVE  \/ Stale(h, a)'
                      \/ /\ Settled(a)' /\ h = Slot(block[a].pool)
                         /\ map'[<<h, a>>] = Entry(block[a].pool, block[a].size)
    BY <1>4 DEF EntriesAreReal
  <2>1. <<h, a>> \in Keys
    BY DEF Slots, Keys
  <2>2. <<h, a>> # k /\ map'[<<h, a>>] = map[<<h, a>>]
    <3> HIDE DEF k
    <3> QED BY <1>0, <1>1, <2>1 DEF TypeOK
  <2>3. CASE Stale(h, a)
    <3>1. PICK u \in Threads : StaleBy(pc[u], h, a)
      BY <2>3 DEF Stale
    <3>2. u # t
      BY <2>2, <3>1 DEF StaleBy
    <3> QED BY <1>4, <3>1, <3>2 DEF Stale
  <2>4. CASE /\ Settled(a) /\ h = Slot(block[a].pool)
             /\ map[<<h, a>>] = Entry(block[a].pool, block[a].size)
    <3>1. ~SettledBy(pc[t], a)
      BY <1>3, <2>2, <2>4
    <3>2. Settled(a)'
      BY <1>1, <1>4, <2>4, <3>1 DEF Settled
    <3> QED BY <2>2, <2>4, <3>2
  <2> QED BY <1>0, <2>2, <2>3, <2>4 DEF EntriesAreReal
<1> QED BY <1>6, <1>7 DEF RacingInv

LEMMA ResetHands ==
    ASSUME RacingInv, NEW t \in Threads, Reset(t)
    PROVE  RacingInv'
<1>1. map' = [k \in Keys |-> None] /\ UNCHANGED <<block, given, pc, errors, misused, asserted>>
  BY DEF Reset
<1>2. TypeOK'
  BY <1>1 DEF RacingInv, HandsInv, TypeOK
<1>3. HandsInv'
  BY <1>1, <1>2 DEF RacingInv, HandsInv, CallsAreSound, OneOwner, Owned, GivenIsAllocated
<1>4. \A h \in Slots, a \in Addrs \cup {Null} : map'[<<h, a>>] = None
  BY <1>1 DEF Slots, Keys
<1> QED BY <1>3, <1>4 DEF RacingInv, EntriesAreReal

LEMMA RacingInit == Init => RacingInv
<1> SUFFICES ASSUME Init PROVE RacingInv
  OBVIOUS
<1>1. /\ block = [a \in Addrs |-> Free] /\ given = {} /\ pc = [t \in Threads |-> Idle]
      /\ map = [k \in Keys |-> None] /\ errors = {} /\ misused = FALSE /\ asserted = FALSE
  BY DEF Init
<1>2. TypeOK
  BY <1>1 DEF TypeOK
<1>3. \A t \in Threads : SoundCall(block, pc[t]) /\ \A a : ~OwnedBy(pc[t], a)
  BY <1>1, IdleCall
<1>4. HandsInv
  BY <1>1, <1>2, <1>3 DEF HandsInv, CallsAreSound, OneOwner, Owned, GivenIsAllocated
<1>5. \A h \in Slots, a \in Addrs \cup {Null} : map[<<h, a>>] = None
  BY <1>1 DEF Slots, Keys
<1> QED BY <1>4, <1>5 DEF RacingInv, EntriesAreReal

LEMMA RacingStutters ==
    ASSUME RacingInv, UNCHANGED vars
    PROVE  RacingInv'
  BY DEF vars, RacingInv, HandsInv, TypeOK, CallsAreSound, OneOwner, Owned,
         GivenIsAllocated, EntriesAreReal, Stale, Settled

LEMMA FreeingHands ==
    ASSUME RacingInv, NEW t \in Threads, Freeing(t)
    PROVE  RacingInv'
  BY AddHands, ForgetHands, RealFreeHands, AllocHands, FreeCallHands DEF Freeing

LEMMA ResizingHands ==
    ASSUME RacingInv, NEW t \in Threads, Resizing(t)
    PROVE  RacingInv'
  BY ResizedHands, FailedHands, RealReallocToZeroHands, ReallocCallHands
     DEF Resizing

LEMMA UnprotectingHands ==
    ASSUME RacingInv, NEW t \in Threads, Unprotecting(t)
    PROVE  RacingInv'
  BY AddDescriptionHands, AddDataHands, UnprotectHands DEF Unprotecting

(* Whatever the threads do at once, every address is in one hand, and only  *)
(* an entry whose erase is still to come may be wrong.                      *)
THEOREM RacingInvariance == SpecResetting => []RacingInv
<1>1. RacingInv /\ [NextResetting]_vars => RacingInv'
  <2> SUFFICES ASSUME RacingInv, [NextResetting]_vars PROVE RacingInv'
    OBVIOUS
  <2>1. CASE UNCHANGED vars
    BY <2>1, RacingStutters
  <2>2. CASE NextResetting
    BY <2>2, FreeingHands, ResizingHands, FailedHands, ResetHands DEF NextResetting
  <2> QED BY <2>1, <2>2
<1> QED BY <1>1, RacingInit, PTL DEF SpecResetting

LEMMA RacingIsReal == RacingInv => ReportedLeaksAreReal
<1> SUFFICES ASSUME RacingInv, NEW k \in Keys, map[k] # None, ~Busy(k[2])
             PROVE  map[k] = Expected(k)
  BY DEF ReportedLeaksAreReal
<1> PICK h \in Slots, a \in Addrs \cup {Null} : k = <<h, a>>
  BY DEF Keys, Slots
<1>1. ~Stale(h, a)
  BY DEF Stale, StaleBy, Busy, At
<1>2. /\ Settled(a) /\ h = Slot(block[a].pool)
      /\ map[<<h, a>>] = Entry(block[a].pool, block[a].size)
  BY <1>1 DEF RacingInv, EntriesAreReal
<1>3. \A t \in Threads : ~SettledBy(pc[t], a)
  BY DEF SettledBy, Busy, At
<1>4. a \in Addrs /\ block[a] # Free
  BY <1>2, <1>3 DEF Settled, RacingInv, HandsInv, GivenIsAllocated
<1> QED BY <1>2, <1>4 DEF Expected, Key

(* Whatever the threads do at once, memory that was freed is not reported   *)
(* as leaked, and what is reported has the right size and family.           *)
THEOREM ReportedIsReal == SpecResetting => []ReportedLeaksAreReal
  BY RacingIsReal, RacingInvariance, PTL

-----------------------------------------------------------------------------
(* Programs whose reallocs that erase late run alone (SpecCareful): nothing *)
(* is missing in the map, either.                                          *)

\* m has what the call c is to erase after the real function, and nobody else
\* can have got that address.
StillFound(b, m, c) ==
    /\ c.at = "real" /\ c.call = "after" => c.known
    /\ c.at = "erase" /\ c.call \in {"after", "freed"} =>
         /\ m[Key(c.pool, c.old)] # None
         /\ b[c.old] = Free \/ c.new = c.old

EntriesAreComplete == \A a \in Addrs : Settled(a) => map[Key(block[a].pool, a)] # None
CallsAreFound == \A t \in Threads : StillFound(block, map, pc[t])

SoundInv == /\ RacingInv /\ EntriesAreComplete /\ CallsAreFound
            /\ errors = {} /\ misused = FALSE /\ asserted = FALSE

\* What a call has settled belongs to the allocator it is for.
LEMMA SettledPool ==
    ASSUME NEW b, NEW c, SoundCall(b, c), NEW a \in Addrs, SettledBy(c, a)
    PROVE  b[a].pool = c.pool
<1>1. CASE c.at = "add_second"
  BY <1>1 DEF SoundCall, SettledBy, Block
<1>2. CASE c.at = "erase" \/ c.at = "real"
  BY <1>2 DEF SoundCall, SettledBy
<1> QED BY <1>1, <1>2 DEF SettledBy

LEMMA SettledIsFound ==
    ASSUME SoundInv, NEW t \in Threads, NEW a \in Addrs, SettledBy(pc[t], a)
    PROVE  map[Key(pc[t].pool, a)] # None
<1>1. SoundCall(block, pc[t])
  BY WhereCallsAre DEF SoundInv, RacingInv
<1>2. block[a].pool = pc[t].pool
  BY <1>1, SettledPool
<1>3. Settled(a)
  BY DEF Settled
<1> QED BY <1>2, <1>3 DEF SoundInv, EntriesAreComplete

\* Nothing else than t erases late, so t sees no stale entry but its own.
LEMMA NoStaleElsewhere ==
    ASSUME NEW t \in Threads, ~ReallocElsewhere(t), pc[t].at # "erase", NEW h, NEW a
    PROVE  ~Stale(h, a)
<1> SUFFICES ASSUME NEW u \in Threads, StaleBy(pc[u], h, a) PROVE FALSE
  BY DEF Stale
<1>1. u # t /\ pc[u].call \in {"after", "freed"}
  BY DEF StaleBy
<1> QED BY <1>1 DEF ReallocElsewhere

(* One step of thread t, with nothing that erases late beside it.          *)
LEMMA SoundKept ==
    ASSUME SoundInv, RacingInv', NEW t \in Threads, ~ReallocElsewhere(t),
           NEW c, pc'[t] = c, \A u \in Threads \ {t} : pc'[u] = pc[u],
           StillFound(block', map', c),
           \A a \in Addrs : a \in given' \/ SettledBy(c, a) =>
               map'[Key(block'[a].pool, a)] # None,
           \A u \in Threads \ {t}, a \in Addrs : SettledBy(pc[u], a) =>
               map'[Key(pc[u].pool, a)] # None,
           errors' = {}, misused' = FALSE, asserted' = FALSE
    PROVE  SoundInv'
<1>1. CallsAreFound'
  <2> SUFFICES ASSUME NEW u \in Threads, u # t PROVE StillFound(block', map', pc[u])
    BY DEF CallsAreFound
  <2>1. pc[u].call \notin {"after", "freed"}
    BY DEF ReallocElsewhere
  <2> QED BY <2>1 DEF StillFound
<1>2. EntriesAreComplete'
  <2> SUFFICES ASSUME NEW a \in Addrs, Settled(a)' PROVE map'[Key(block'[a].pool, a)] # None
    BY DEF EntriesAreComplete
  <2>1. CASE a \in given' \/ SettledBy(c, a)
    BY <2>1
  <2>2. CASE \E u \in Threads \ {t} : SettledBy(pc[u], a)
    <3>1. PICK u \in Threads \ {t} : SettledBy(pc[u], a)
      BY <2>2
    <3>2. SoundCall(block', pc[u])
      <4>1. pc'[u] = pc[u]
        OBVIOUS
      <4> QED BY <4>1 DEF RacingInv, HandsInv, CallsAreSound
    <3>3. block'[a].pool = pc[u].pool
      BY <3>1, <3>2, SettledPool
    <3> QED BY <3>1, <3>3
  <2> QED BY <2>1, <2>2 DEF Settled
<1> QED BY <1>1, <1>2 DEF SoundInv

\* The same for a step that leaves the map alone.
LEMMA SoundBeside ==
    ASSUME SoundInv, RacingInv', NEW t \in Threads, ~ReallocElsewhere(t),
           NEW c, pc'[t] = c, \A u \in Threads \ {t} : pc'[u] = pc[u],
           map' = map, StillFound(block', map, c),
           \A a \in Addrs : a \in given' \/ SettledBy(c, a) =>
               (a \in given \/ SettledBy(pc[t], a)) /\ block'[a].pool = block[a].pool,
           errors' = {}, misused' = FALSE, asserted' = FALSE
    PROVE  SoundInv'
<1>1. \A a \in Addrs : a \in given' \/ SettledBy(c, a) =>
          map'[Key(block'[a].pool, a)] # None
  BY DEF SoundInv, EntriesAreComplete, Settled
<1>2. \A u \in Threads \ {t}, a \in Addrs : SettledBy(pc[u], a) =>
          map'[Key(pc[u].pool, a)] # None
  BY SettledIsFound
<1>3. StillFound(block', map', c)
  OBVIOUS
<1> QED BY <1>1, <1>2, <1>3, SoundKept

LEMMA AllocSound ==
    ASSUME SoundInv, NEW t \in Threads, ~ReallocElsewhere(t),
           NEW p \in Pools, NEW x \in Addrs, NEW s \in Sizes, Alloc(t, p, x, s)
    PROVE  SoundInv'
<1> DEFINE c == Call("add", "alloc", p, Null, x, s, FALSE)
<1>0. RacingInv /\ HandsInv /\ TypeOK
  BY DEF SoundInv, RacingInv, HandsInv
<1>1. /\ pc[t].at = "idle" /\ block[x] = Free
      /\ block' = [block EXCEPT ![x] = Block(p, s)]
      /\ pc' = [pc EXCEPT ![t] = c]
      /\ UNCHANGED <<given, map, errors, misused, asserted>>
  BY DEF Alloc, At, Goto
<1>2. c.at = "add"
  BY DEF Call
<1> HIDE DEF c
<1>3. RacingInv'
  BY <1>0, AllocHands
<1>4. pc'[t] = c /\ \A u \in Threads \ {t} : pc'[u] = pc[u]
  BY <1>0, <1>1 DEF TypeOK
<1>5. StillFound(block', map, c) /\ \A a : ~SettledBy(c, a)
  BY <1>2 DEF StillFound, SettledBy
<1>6. \A a \in Addrs : a \in given' => a \in given /\ block'[a].pool = block[a].pool
  BY <1>0, <1>1 DEF TypeOK, HandsInv, GivenIsAllocated
<1>7. errors' = {} /\ misused' = FALSE /\ asserted' = FALSE /\ map' = map
  BY <1>1 DEF SoundInv
<1> QED BY <1>3, <1>4, <1>5, <1>6, <1>7, SoundBeside

LEMMA UnprotectSound ==
    ASSUME SoundInv, NEW t \in Threads, ~ReallocElsewhere(t),
           NEW p \in Before, NEW x \in Addrs, NEW y \in Addrs, NEW s \in Sizes,
           UnprotectData(t, p, x, y, s)
    PROVE  SoundInv'
<1> DEFINE c == Call("add_first", "unprotect", p, x, y, s, FALSE)
<1>0. RacingInv /\ HandsInv /\ TypeOK
  BY DEF SoundInv, RacingInv, HandsInv
<1>1. /\ pc[t].at = "idle" /\ block[x] = Free /\ block[y] = Free
      /\ block' = [block EXCEPT ![x] = Block(p, s), ![y] = Block(p, s)]
      /\ pc' = [pc EXCEPT ![t] = c]
      /\ UNCHANGED <<given, map, errors, misused, asserted>>
  BY DEF UnprotectData, At, Goto
<1>2. c.at = "add_first"
  BY DEF Call
<1> HIDE DEF c
<1>3. RacingInv'
  BY <1>0, UnprotectHands
<1>4. pc'[t] = c /\ \A u \in Threads \ {t} : pc'[u] = pc[u]
  BY <1>0, <1>1 DEF TypeOK
<1>5. StillFound(block', map, c) /\ \A a : ~SettledBy(c, a)
  BY <1>2 DEF StillFound, SettledBy
<1>6. \A a \in Addrs : a \in given' => a \in given /\ block'[a].pool = block[a].pool
  BY <1>0, <1>1 DEF TypeOK, HandsInv, GivenIsAllocated
<1>7. errors' = {} /\ misused' = FALSE /\ asserted' = FALSE /\ map' = map
  BY <1>1 DEF SoundInv
<1> QED BY <1>3, <1>4, <1>5, <1>6, <1>7, SoundBeside

\* The program passes an address it was given to the allocator it is from.
LEMMA GivenIsFound ==
    ASSUME SoundInv, NEW t \in Threads, ~ReallocElsewhere(t), pc[t].at = "idle",
           NEW x \in given, NEW p, p = block[x].pool, Looked(p, x)
    PROVE  /\ map[<<Slot(p), x>>] # None /\ Found(p, x) # None
           /\ errors' = {} /\ ~Wrong(p, x)
<1>0. RacingInv /\ HandsInv /\ TypeOK
  BY DEF SoundInv, RacingInv, HandsInv
<1>1. x \in Addrs /\ block[x] # Free /\ p \in Pools
  BY <1>0, AllocatedBlock DEF HandsInv, GivenIsAllocated, TypeOK
<1>2. Settled(x) /\ map[<<Slot(p), x>>] # None
  BY <1>1 DEF Settled, SoundInv, EntriesAreComplete, Key
<1>3. ~Stale(Slot(p), x)
  BY NoStaleElsewhere
<1>4. map[<<Slot(p), x>>] = Entry(p, block[x].size)
  <2>1. Slot(p) \in Slots
    BY <1>1 DEF Slot, Slots
  <2> QED BY <1>0, <1>1, <1>2, <1>3, <2>1 DEF RacingInv, EntriesAreReal
<1>5. Found(p, x).family = Family(p)
  BY <1>4 DEF Found, Key, Entry
<1>6. ~Wrong(p, x)
  BY <1>1 DEF Wrong
<1>7. errors' = {}
  <2>1. errors = {} /\ Found(p, x) # None
    BY <1>2 DEF SoundInv, Found, Key
  <2>2. CASE p \in Heaps
    BY <2>1, <2>2 DEF Looked, HeapMisuse
  <2>3. CASE p \notin Heaps
    BY <1>5, <2>1, <2>3 DEF Looked, Misuse, Family
  <2> QED BY <2>2, <2>3
<1> QED BY <1>2, <1>6, <1>7 DEF Found, Key

LEMMA FreeCallSound ==
    ASSUME SoundInv, NEW t \in Threads, ~ReallocElsewhere(t), NEW x \in given,
           FreeCall(t, block[x].pool, x)
    PROVE  SoundInv'
<1> DEFINE p == block[x].pool
           c == Call("erase", "free", p, x, Null, 0, TRUE)
<1>0. RacingInv /\ HandsInv /\ TypeOK
  BY DEF SoundInv, RacingInv, HandsInv
<1>1. /\ pc[t].at = "idle" /\ Looked(p, x) /\ given' = given \ {x}
      /\ misused' = (misused \/ Wrong(p, x))
      /\ UNCHANGED <<block, map, asserted>>
  BY DEF FreeCall, At
<1>2. Found(p, x) # None /\ errors' = {} /\ ~Wrong(p, x)
  <2> HIDE DEF p
  <2>1. p = block[x].pool
    BY DEF p
  <2> QED BY <1>1, <2>1, GivenIsFound
<1>3. pc' = [pc EXCEPT ![t] = c]
  BY <1>2 DEF FreeCall, Goto
<1>4. c.at = "erase" /\ c.call = "free" /\ c.old = x
  BY DEF Call
<1> HIDE DEF c, p
<1>5. pc'[t] = c /\ \A u \in Threads \ {t} : pc'[u] = pc[u]
  BY <1>0, <1>3 DEF TypeOK
<1>6. RacingInv'
  BY <1>0, FreeCallHands
<1>7. StillFound(block', map, c) /\ \A a : SettledBy(c, a) => a = x
  BY <1>4 DEF StillFound, SettledBy
<1>8. misused' = FALSE /\ asserted' = FALSE /\ map' = map
  BY <1>1, <1>2 DEF SoundInv
<1>9. \A a \in Addrs : a \in given' \/ SettledBy(c, a) =>
          a \in given /\ block'[a].pool = block[a].pool
  BY <1>1, <1>7
<1> QED BY <1>2, <1>5, <1>6, <1>7, <1>8, <1>9, SoundBeside

LEMMA ReallocCallSound ==
    ASSUME SoundInv, NEW t \in Threads, ~ReallocElsewhere(t), NEW x \in given,
           NEW s \in Sizes, ReallocCall(t, block[x].pool, x, s)
    PROVE  SoundInv'
<1> DEFINE p == block[x].pool
           c == Call(IF p \in Before THEN "erase" ELSE "real",
                     IF p \in Before THEN "before" ELSE "after", p, x, Null, s, TRUE)
<1>0. RacingInv /\ HandsInv /\ TypeOK
  BY DEF SoundInv, RacingInv, HandsInv
<1>1. /\ pc[t].at = "idle" /\ Looked(p, x) /\ given' = given \ {x}
      /\ misused' = (misused \/ Wrong(p, x))
      /\ UNCHANGED <<block, map, asserted>>
  BY DEF ReallocCall, At
<1>2. Found(p, x) # None /\ errors' = {} /\ ~Wrong(p, x)
  <2> HIDE DEF p
  <2>1. p = block[x].pool
    BY DEF p
  <2> QED BY <1>1, <2>1, GivenIsFound
<1>3. pc' = [pc EXCEPT ![t] = c]
  BY <1>2 DEF ReallocCall, Goto
<1>4. /\ c.old = x /\ c.known = TRUE
      /\ \/ c.at = "erase" /\ c.call = "before"
         \/ c.at = "real" /\ c.call = "after"
  BY DEF Call
<1> HIDE DEF c, p
<1>5. pc'[t] = c /\ \A u \in Threads \ {t} : pc'[u] = pc[u]
  BY <1>0, <1>3 DEF TypeOK
<1>6. RacingInv'
  BY <1>0, ReallocCallHands
<1>7. StillFound(block', map, c) /\ \A a : SettledBy(c, a) => a = x
  BY <1>4 DEF StillFound, SettledBy
<1>8. misused' = FALSE /\ asserted' = FALSE /\ map' = map
  BY <1>1, <1>2 DEF SoundInv
<1>9. \A a \in Addrs : a \in given' \/ SettledBy(c, a) =>
          a \in given /\ block'[a].pool = block[a].pool
  BY <1>1, <1>7
<1> QED BY <1>2, <1>5, <1>6, <1>7, <1>8, <1>9, SoundBeside

LEMMA RealFreeSound ==
    ASSUME SoundInv, NEW t \in Threads, ~ReallocElsewhere(t), RealFree(t)
    PROVE  SoundInv'
<1>0. RacingInv /\ HandsInv /\ TypeOK
  BY DEF SoundInv, RacingInv, HandsInv
<1>1. /\ pc[t].at = "real" /\ pc' = [pc EXCEPT ![t] = Idle]
      /\ \/ block' = [block EXCEPT ![pc[t].old] = Free]
         \/ block' = block
      /\ UNCHANGED <<given, map, errors, misused, asserted>>
  BY <1>0 DEF RealFree, At, Goto, TypeOK
<1>2. RacingInv'
  BY <1>0, RealFreeHands
<1>3. pc'[t] = Idle /\ \A u \in Threads \ {t} : pc'[u] = pc[u]
  BY <1>0, <1>1 DEF TypeOK
<1>4. StillFound(block', map, Idle) /\ \A a : ~SettledBy(Idle, a)
  BY IdleCall DEF StillFound
<1>5. pc[t].old \notin given
  BY <1>0, <1>1, AtReal
<1>6. \A a \in Addrs : a \in given' => a \in given /\ block'[a].pool = block[a].pool
  BY <1>0, <1>1, <1>5 DEF TypeOK
<1>7. errors' = {} /\ misused' = FALSE /\ asserted' = FALSE /\ map' = map
  BY <1>1 DEF SoundInv
<1> QED BY <1>2, <1>3, <1>4, <1>6, <1>7, SoundBeside

\* What a call that erases late is about to free or move is in the map.
LEMMA AtRealFound ==
    ASSUME SoundInv, NEW t \in Threads, pc[t].at = "real", pc[t].call = "after"
    PROVE  /\ pc[t].known /\ SettledBy(pc[t], pc[t].old) /\ pc[t].old \in Addrs
           /\ map[Key(pc[t].pool, pc[t].old)] # None
<1>1. pc[t].known
  BY DEF SoundInv, CallsAreFound, StillFound
<1>2. SettledBy(pc[t], pc[t].old)
  BY <1>1 DEF SettledBy
<1>3. pc[t].old \in Addrs
  BY AtReal DEF SoundInv
<1> QED BY <1>1, <1>2, <1>3, SettledIsFound

LEMMA MovedSound ==
    ASSUME SoundInv, NEW t \in Threads, ~ReallocElsewhere(t), NEW y \in Addrs, MovedTo(t, y)
    PROVE  SoundInv'
<1> DEFINE c == AfterReal(pc[t], y)
<1>0. RacingInv /\ HandsInv /\ TypeOK
  BY DEF SoundInv, RacingInv, HandsInv
<1>1. /\ pc[t].at = "real" /\ pc[t].call \in {"after", "before"}
      /\ pc[t].old = y \/ block[y] = Free
      /\ pc' = [pc EXCEPT ![t] = c]
      /\ pc[t].old # y => block'[pc[t].old] = Free
      /\ \A a \in Addrs : a # pc[t].old /\ a # y => block'[a] = block[a]
      /\ UNCHANGED <<given, map, errors, misused, asserted>>
  BY DEF MovedTo
<1>2. RacingInv'
  BY <1>0, MovedForReal
<1>3. pc[t] \in Calls /\ pc[t].old \notin given
  BY <1>0, <1>1, AtReal
<1>4. /\ c.call = pc[t].call /\ c.pool = pc[t].pool /\ c.old = pc[t].old /\ c.new = y
      /\ c.at = IF pc[t].call = "after" /\ pc[t].known THEN "erase" ELSE "add"
  BY <1>3 DEF AfterReal, Calls
<1> HIDE DEF c
<1>5. pc'[t] = c /\ \A u \in Threads \ {t} : pc'[u] = pc[u]
  BY <1>0, <1>1 DEF TypeOK
<1>6. StillFound(block', map, c)
  <2>1. CASE pc[t].call = "after"
    <3>1. map[Key(c.pool, c.old)] # None
      BY <1>1, <1>4, <2>1, AtRealFound
    <3> QED BY <1>1, <1>4, <3>1 DEF StillFound
  <2>2. CASE pc[t].call # "after"
    BY <1>1, <1>4, <2>2 DEF StillFound
  <2> QED BY <2>1, <2>2
<1>7. \A a : ~SettledBy(c, a)
  BY <1>1, <1>4 DEF SettledBy
<1>8. \A a \in Addrs : a \in given' => a \in given /\ block'[a].pool = block[a].pool
  <2>1. y \notin given
    BY <1>0, <1>1, <1>3 DEF HandsInv, GivenIsAllocated
  <2> QED BY <1>1, <1>3, <2>1
<1>9. errors' = {} /\ misused' = FALSE /\ asserted' = FALSE /\ map' = map
  BY <1>1 DEF SoundInv
<1> QED BY <1>2, <1>5, <1>6, <1>7, <1>8, <1>9, SoundBeside

LEMMA FailedSound ==
    ASSUME SoundInv, NEW t \in Threads, ~ReallocElsewhere(t), RealReallocFails(t)
    PROVE  SoundInv'
<1> DEFINE x == pc[t].old
<1>0. RacingInv /\ HandsInv /\ TypeOK
  BY DEF SoundInv, RacingInv, HandsInv
<1>1. /\ pc[t].at = "real" /\ pc[t].call = "after" /\ pc' = [pc EXCEPT ![t] = Idle]
      /\ given' = given \cup {x}
      /\ UNCHANGED <<block, map, errors, misused, asserted>>
  BY DEF RealReallocFails, At, Goto
<1>2. SettledBy(pc[t], x)
  BY <1>1, AtRealFound
<1> HIDE DEF x
<1>3. RacingInv'
  BY <1>0, FailedHands
<1>4. pc'[t] = Idle /\ \A u \in Threads \ {t} : pc'[u] = pc[u]
  BY <1>0, <1>1 DEF TypeOK
<1>5. StillFound(block', map, Idle) /\ \A a : ~SettledBy(Idle, a)
  BY IdleCall DEF StillFound
<1>6. \A a \in Addrs : a \in given' =>
          (a \in given \/ SettledBy(pc[t], a)) /\ block'[a].pool = block[a].pool
  BY <1>1, <1>2
<1>7. errors' = {} /\ misused' = FALSE /\ asserted' = FALSE /\ map' = map
  BY <1>1 DEF SoundInv
<1> QED BY <1>3, <1>4, <1>5, <1>6, <1>7, SoundBeside

LEMMA ReallocToZeroSound ==
    ASSUME SoundInv, NEW t \in Threads, ~ReallocElsewhere(t), RealReallocToZero(t)
    PROVE  SoundInv'
<1> DEFINE x == pc[t].old
           c == [pc[t] EXCEPT !.at = "erase", !.call = "freed"]
<1>0. RacingInv /\ HandsInv /\ TypeOK
  BY DEF SoundInv, RacingInv, HandsInv
<1>1. /\ pc[t].at = "real" /\ pc[t].call = "after"
      /\ block' = [block EXCEPT ![x] = Free]
      /\ UNCHANGED <<given, map, errors, misused, asserted>>
  BY DEF RealReallocToZero, At
<1>2. pc[t].known /\ x \in Addrs /\ map[Key(pc[t].pool, x)] # None
  BY <1>1, AtRealFound
<1>3. pc[t] \in Calls /\ x \notin given
  BY <1>0, <1>1, AtReal
<1>4. pc' = [pc EXCEPT ![t] = c]
  BY <1>2 DEF RealReallocToZero, Goto
<1>5. c.at = "erase" /\ c.call = "freed" /\ c.old = x /\ c.pool = pc[t].pool
  BY <1>3 DEF Calls
<1> HIDE DEF c, x
<1>6. RacingInv'
  BY <1>0, RealReallocToZeroHands
<1>7. pc'[t] = c /\ \A u \in Threads \ {t} : pc'[u] = pc[u]
  BY <1>0, <1>4 DEF TypeOK
<1>8. block'[x] = Free /\ \A a \in Addrs : a # x => block'[a] = block[a]
  BY <1>0, <1>1, <1>2 DEF TypeOK
<1>9. StillFound(block', map, c)
  BY <1>2, <1>5, <1>8 DEF StillFound
<1>10. \A a : ~SettledBy(c, a)
  BY <1>5 DEF SettledBy
<1>11. \A a \in Addrs : a \in given' => a \in given /\ block'[a].pool = block[a].pool
  BY <1>1, <1>3, <1>8
<1>12. errors' = {} /\ misused' = FALSE /\ asserted' = FALSE /\ map' = map
  BY <1>1 DEF SoundInv
<1> QED BY <1>6, <1>7, <1>9, <1>10, <1>11, <1>12, SoundBeside

\* What t is about to add is new to the map.
LEMMA NewToTheMap ==
    ASSUME SoundInv, NEW t \in Threads, ~ReallocElsewhere(t), pc[t].at # "erase",
           NEW y \in Addrs, OwnedBy(pc[t], y), ~SettledBy(pc[t], y), NEW h \in Slots
    PROVE  map[<<h, y>>] = None
<1>0. RacingInv /\ HandsInv /\ TypeOK
  BY DEF SoundInv, RacingInv, HandsInv
<1>1. ~Settled(y)
  <2>1. y \notin given /\ \A u \in Threads : OwnedBy(pc[u], y) => u = t
    BY <1>0 DEF HandsInv, OneOwner
  <2>2. \A u \in Threads : SettledBy(pc[u], y) => OwnedBy(pc[u], y)
    BY <1>0, WhereCallsAre
  <2> QED BY <2>1, <2>2 DEF Settled
<1>2. ~Stale(h, y)
  BY NoStaleElsewhere
<1> QED BY <1>0, <1>1, <1>2 DEF RacingInv, EntriesAreReal

\* A thread adds the address y.
LEMMA SoundAdded ==
    ASSUME SoundInv, RacingInv', NEW t \in Threads, ~ReallocElsewhere(t), pc[t].at # "erase",
           NEW c, pc'[t] = c, \A u \in Threads \ {t} : pc'[u] = pc[u],
           c.at \in {"idle", "add_second"},
           NEW y \in Addrs, NEW p, NEW s, OwnedBy(pc[t], y), ~SettledBy(pc[t], y),
           p \in Pools, s \in Sizes, block[y] = Block(p, s), Emplace(Key(p, y), Entry(p, s)),
           \A a \in Addrs : a \in given' \/ SettledBy(c, a) =>
               a \in given \/ SettledBy(pc[t], a) \/ a = y,
           UNCHANGED <<block, errors, misused>>
    PROVE  SoundInv'
<1> DEFINE k == Key(p, y)
<1>0. RacingInv /\ HandsInv /\ TypeOK
  BY DEF SoundInv, RacingInv, HandsInv
<1>1. map[k] = None
  <2>1. Slot(p) \in Slots
    BY DEF Slot, Slots
  <2> QED BY <2>1, NewToTheMap DEF Key
<1>2. k \in Keys
  BY DEF Key, Keys, Slot
<1> HIDE DEF k
<1>3. map' = [map EXCEPT ![k] = Entry(p, s)] /\ asserted' = asserted
  BY <1>0, <1>1 DEF Emplace, k, TypeOK
<1>4. Entry(p, s) # None
  BY NotNothing
<1>5. map'[k] # None /\ \A j \in Keys : map[j] # None => map'[j] # None
  BY <1>0, <1>2, <1>3, <1>4 DEF TypeOK
<1>6. \A q : \A a \in Addrs : Key(q, a) \in Keys
  BY DEF Key, Keys, Slot
<1>7. \A a \in Addrs : a \in given' \/ SettledBy(c, a) => map'[Key(block'[a].pool, a)] # None
  <2> SUFFICES ASSUME NEW a \in Addrs, a \in given' \/ SettledBy(c, a)
               PROVE  map'[Key(block[a].pool, a)] # None
    OBVIOUS
  <2>1. CASE a \in given \/ SettledBy(pc[t], a)
    <3>1. map[Key(block[a].pool, a)] # None
      BY <2>1 DEF SoundInv, EntriesAreComplete, Settled
    <3> QED BY <1>5, <1>6, <3>1
  <2>2. CASE a = y
    <3>1. block[y].pool = p
      BY DEF Block
    <3> QED BY <1>5, <2>2, <3>1 DEF k
  <2> QED BY <2>1, <2>2
<1>8. \A u \in Threads \ {t}, a \in Addrs : SettledBy(pc[u], a) =>
          map'[Key(pc[u].pool, a)] # None
  BY <1>5, <1>6, SettledIsFound
<1>9. StillFound(block', map', c)
  BY DEF StillFound
<1>10. errors' = {} /\ misused' = FALSE /\ asserted' = FALSE
  BY <1>3 DEF SoundInv
<1> QED BY <1>7, <1>8, <1>9, <1>10, SoundKept

LEMMA AddSound ==
    ASSUME SoundInv, NEW t \in Threads, ~ReallocElsewhere(t), Add(t)
    PROVE  SoundInv'
<1> DEFINE y == pc[t].new
           p == pc[t].pool
           s == pc[t].size
<1>0. RacingInv /\ HandsInv /\ TypeOK
  BY DEF SoundInv, RacingInv, HandsInv
<1>1. /\ pc[t].at = "add" /\ Emplace(Key(p, y), Entry(p, s))
      /\ given' = given \cup ({y} \ {Null})
      /\ pc' = [pc EXCEPT ![t] = Idle]
      /\ UNCHANGED <<block, errors, misused>>
  BY DEF Add, At, Goto
<1>2. y \in Addrs /\ s \in Sizes /\ p \in Pools /\ block[y] = Block(p, s)
  BY <1>0, <1>1, WhereCallsAre DEF SoundCall
<1>3. OwnedBy(pc[t], y) /\ ~SettledBy(pc[t], y)
  BY <1>1 DEF SettledBy, OwnedBy
<1> HIDE DEF y, p, s
<1>4. pc'[t] = Idle /\ \A u \in Threads \ {t} : pc'[u] = pc[u]
  BY <1>0, <1>1 DEF TypeOK
<1>5. RacingInv'
  BY <1>0, AddHands
<1>6. \A a \in Addrs : a \in given' \/ SettledBy(Idle, a) => a \in given \/ a = y
  BY <1>1, IdleCall
<1> QED BY <1>1, <1>2, <1>3, <1>4, <1>5, <1>6, IdleCall, SoundAdded

LEMMA AddDescriptionSound ==
    ASSUME SoundInv, NEW t \in Threads, ~ReallocElsewhere(t), AddDescription(t)
    PROVE  SoundInv'
<1> DEFINE y == pc[t].old
           p == pc[t].pool
           s == pc[t].size
           c == [pc[t] EXCEPT !.at = "add_second"]
<1>0. RacingInv /\ HandsInv /\ TypeOK
  BY DEF SoundInv, RacingInv, HandsInv
<1>1. /\ pc[t].at = "add_first" /\ Emplace(Key(p, y), Entry(p, s))
      /\ pc' = [pc EXCEPT ![t] = c]
      /\ UNCHANGED <<block, given, errors, misused>>
  BY DEF AddDescription, At, Goto
<1>2. /\ y \in Addrs /\ s \in Sizes /\ p \in Pools /\ block[y] = Block(p, s)
      /\ pc[t] \in Calls
  BY <1>0, <1>1, WhereCallsAre DEF SoundCall
<1>3. c.at = "add_second" /\ c.old = y
  BY <1>2 DEF Calls
<1>4. OwnedBy(pc[t], y) /\ ~SettledBy(pc[t], y)
  BY <1>1 DEF SettledBy, OwnedBy
<1> HIDE DEF y, p, s, c
<1>5. pc'[t] = c /\ \A u \in Threads \ {t} : pc'[u] = pc[u]
  BY <1>0, <1>1 DEF TypeOK
<1>6. RacingInv'
  BY <1>0, AddDescriptionHands
<1>7. \A a \in Addrs : a \in given' \/ SettledBy(c, a) => a \in given \/ a = y
  BY <1>1, <1>3 DEF SettledBy
<1>8. pc[t].at # "erase"
  BY <1>1
<1> QED BY <1>1, <1>2, <1>3, <1>4, <1>5, <1>6, <1>7, <1>8, SoundAdded

LEMMA AddDataSound ==
    ASSUME SoundInv, NEW t \in Threads, ~ReallocElsewhere(t), AddData(t)
    PROVE  SoundInv'
<1> DEFINE x == pc[t].old
           y == pc[t].new
           p == pc[t].pool
           s == pc[t].size
<1>0. RacingInv /\ HandsInv /\ TypeOK
  BY DEF SoundInv, RacingInv, HandsInv
<1>1. /\ pc[t].at = "add_second" /\ Emplace(Key(p, y), Entry(p, s))
      /\ given' = given \cup {x, y}
      /\ pc' = [pc EXCEPT ![t] = Idle]
      /\ UNCHANGED <<block, errors, misused>>
  BY DEF AddData, At, Goto
<1>2. /\ x \in Addrs /\ y \in Addrs /\ x # y /\ s \in Sizes /\ p \in Pools
      /\ block[y] = Block(p, s)
  BY <1>0, <1>1, WhereCallsAre DEF SoundCall
<1>3. OwnedBy(pc[t], y) /\ ~SettledBy(pc[t], y) /\ SettledBy(pc[t], x)
  BY <1>1, <1>2 DEF SettledBy, OwnedBy
<1> HIDE DEF x, y, p, s
<1>4. pc'[t] = Idle /\ \A u \in Threads \ {t} : pc'[u] = pc[u]
  BY <1>0, <1>1 DEF TypeOK
<1>5. RacingInv'
  BY <1>0, AddDataHands
<1>6. \A a \in Addrs : a \in given' \/ SettledBy(Idle, a) =>
          a \in given \/ SettledBy(pc[t], a) \/ a = y
  BY <1>1, <1>3, IdleCall
<1>7. pc[t].at # "erase"
  BY <1>1
<1> QED BY <1>1, <1>2, <1>3, <1>4, <1>5, <1>6, <1>7, IdleCall, SoundAdded

\* What is erased is there, and it is nobody's.
LEMMA ForgetSound ==
    ASSUME SoundInv, NEW t \in Threads, ~ReallocElsewhere(t), Forget(t)
    PROVE  SoundInv'
<1> DEFINE x == pc[t].old
           k == Key(pc[t].pool, x)
           c == CASE pc[t].call \in {"free", "before"} -> [pc[t] EXCEPT !.at = "real"]
                  [] pc[t].call = "after"              -> [pc[t] EXCEPT !.at = "add"]
                  [] pc[t].call = "freed"              -> Idle
<1>0. RacingInv /\ HandsInv /\ TypeOK
  BY DEF SoundInv, RacingInv, HandsInv
<1>1. /\ pc[t].at = "erase" /\ map' = [map EXCEPT ![k] = None]
      /\ asserted' = (asserted \/ map[k] = None)
      /\ pc' = [pc EXCEPT ![t] = c]
      /\ UNCHANGED <<block, given, errors, misused>>
  BY DEF Forget, Erase, At, Goto
<1>2. /\ SoundCall(block, pc[t]) /\ pc[t] \in Calls /\ x \in Addrs
      /\ pc[t].call \in {"free", "before", "after", "freed"}
  BY <1>0, <1>1, WhereCallsAre DEF SoundCall
<1>3. map[k] # None
  <2>1. CASE pc[t].call \in {"free", "before"}
    <3>1. SettledBy(pc[t], x)
      BY <1>1, <2>1 DEF SettledBy
    <3> QED BY <1>2, <3>1, SettledIsFound
  <2>2. CASE pc[t].call \in {"after", "freed"}
    BY <1>1, <2>2 DEF SoundInv, CallsAreFound, StillFound
  <2> QED BY <1>2, <2>1, <2>2
<1>4. x \notin given /\ \A u \in Threads \ {t} : ~SettledBy(pc[u], x)
  <2>1. OwnedBy(pc[t], x) \/ block[x] = Free
    <3>1. CASE pc[t].call \in {"free", "before"}
      BY <1>1, <3>1 DEF OwnedBy
    <3>2. CASE pc[t].call \in {"after", "freed"}
      <4>1. block[x] = Free \/ pc[t].new = x
        BY <1>1, <3>2 DEF SoundInv, CallsAreFound, StillFound
      <4> QED BY <1>1, <3>2, <4>1 DEF OwnedBy
    <3> QED BY <1>2, <3>1, <3>2
  <2>2. CASE block[x] = Free
    <3>1. x \notin given /\ \A u \in Threads : ~OwnedBy(pc[u], x)
      BY <1>0, <1>2, <2>2, OthersNotFree
    <3> QED BY <1>0, <3>1, WhereCallsAre
  <2>3. CASE OwnedBy(pc[t], x)
    <3>1. x \notin given /\ \A u \in Threads : OwnedBy(pc[u], x) => u = t
      BY <1>0, <1>2, <2>3 DEF HandsInv, OneOwner
    <3> QED BY <1>0, <3>1, WhereCallsAre
  <2> QED BY <2>1, <2>2, <2>3
<1>5. StillFound(block', map', c) /\ \A a : ~SettledBy(c, a)
  <2>1. CASE pc[t].call \in {"free", "before"}
    <3>1. c.at = "real" /\ c.call = pc[t].call
      BY <1>2, <2>1 DEF Calls
    <3> HIDE DEF c
    <3> QED BY <2>1, <3>1 DEF StillFound, SettledBy
  <2>2. CASE pc[t].call = "after"
    <3>1. c.at = "add"
      BY <1>2, <2>2 DEF Calls
    <3> HIDE DEF c
    <3> QED BY <3>1 DEF StillFound, SettledBy
  <2>3. CASE pc[t].call = "freed"
    <3>1. c = Idle
      BY <2>3
    <3> QED BY <3>1, IdleCall DEF StillFound
  <2> QED BY <1>2, <2>1, <2>2, <2>3
<1>6. \A q, a : a \in Addrs /\ a # x => Key(q, a) # k /\ Key(q, a) \in Keys
  BY DEF Key, Keys, Slot
<1> HIDE DEF c, x, k
<1>7. pc'[t] = c /\ \A u \in Threads \ {t} : pc'[u] = pc[u]
  BY <1>0, <1>1 DEF TypeOK
<1>8. RacingInv'
  BY <1>0, ForgetHands
<1>9. \A q, a : a \in Addrs /\ a # x => map'[Key(q, a)] = map[Key(q, a)]
  BY <1>0, <1>1, <1>6 DEF TypeOK
<1>10. \A a \in Addrs : a \in given' \/ SettledBy(c, a) => map'[Key(block'[a].pool, a)] # None
  <2> SUFFICES ASSUME NEW a \in Addrs, a \in given PROVE map'[Key(block[a].pool, a)] # None
    BY <1>1, <1>5
  <2>1. map[Key(block[a].pool, a)] # None
    BY DEF SoundInv, EntriesAreComplete, Settled
  <2> QED BY <1>4, <1>9, <2>1
<1>11. \A u \in Threads \ {t}, a \in Addrs : SettledBy(pc[u], a) =>
          map'[Key(pc[u].pool, a)] # None
  <2> SUFFICES ASSUME NEW u \in Threads \ {t}, NEW a \in Addrs, SettledBy(pc[u], a)
               PROVE  map'[Key(pc[u].pool, a)] # None
    OBVIOUS
  <2>1. map[Key(pc[u].pool, a)] # None
    BY SettledIsFound
  <2> QED BY <1>4, <1>9, <2>1
<1>12. errors' = {} /\ misused' = FALSE /\ asserted' = FALSE
  BY <1>1, <1>3 DEF SoundInv
<1> QED BY <1>5, <1>7, <1>8, <1>10, <1>11, <1>12, SoundKept

(* A wrong free of an address no call has is seen at once.                 *)
LEMMA WrongIsSeen ==
    ASSUME SoundInv, NEW t \in Threads, NEW p \in Pools, NEW a \in Addrs, ~Busy(a),
           FreeCall(t, p, a), Wrong(p, a)
    PROVE  misused' = TRUE /\ errors' # {}
<1> DEFINE e == Found(p, a)
<1>0. RacingInv /\ HandsInv /\ TypeOK
  BY DEF SoundInv, RacingInv, HandsInv
<1>1. Looked(p, a) /\ misused' = (misused \/ Wrong(p, a))
  BY DEF FreeCall
<1>2. CASE e = None
  BY <1>1, <1>2 DEF Looked, HeapMisuse, Misuse
<1>3. CASE e # None
  <2>1. Slot(p) \in Slots
    BY DEF Slot, Slots
  <2>2. ~Stale(Slot(p), a)
    BY DEF Stale, StaleBy, Busy, At
  <2>3. /\ Settled(a) /\ Slot(p) = Slot(block[a].pool)
        /\ e = Entry(block[a].pool, block[a].size)
    BY <1>0, <1>3, <2>1, <2>2 DEF RacingInv, EntriesAreReal, Found, Key
  <2>4. \A u \in Threads : ~SettledBy(pc[u], a)
    BY DEF SettledBy, Busy, At
  <2>5. a \in given /\ block[a] # Free
    BY <1>0, <2>3, <2>4 DEF Settled, HandsInv, GivenIsAllocated
  <2>6. block[a].pool # p /\ block[a].pool \in Pools
    BY <1>0, <2>5, AllocatedBlock DEF Wrong
  <2>7. p \notin Heaps /\ block[a].pool \notin Heaps
    BY <2>3, <2>6, LeakAssumption DEF Slot
  <2>8. e.family = block[a].pool
    BY <2>3, <2>7 DEF Entry, Family
  <2> HIDE DEF e
  <2>9. Misuse(p, e) = {"wrong_family"}
    BY <1>3, <2>6, <2>8 DEF Misuse
  <2> QED BY <1>1, <2>7, <2>9 DEF Looked, e
<1>4. misused' = TRUE
  BY <1>0, <1>1 DEF TypeOK
<1> QED BY <1>2, <1>3, <1>4

\* A wrong free is what ends a careful program; until then the map is exact.
CarefulInv == SoundInv \/ (misused = TRUE /\ errors # {})

LEMMA CarefulKeeps ==
    ASSUME SoundInv, NEW t \in Threads, Careful(t)
    PROVE  CarefulInv'
<1>1. ~ReallocElsewhere(t)
  BY DEF Careful
<1>2. CASE Freeing(t)
  BY <1>1, <1>2, AddSound, ForgetSound, RealFreeSound, AllocSound, FreeCallSound
     DEF Freeing, CarefulInv
<1>3. CASE Resizing(t)
  <2>1. CASE RealExpand(t) \/ RealMove(t)
    <3>1. \E y \in Addrs : MovedTo(t, y)
      BY <2>1, ExpandMoves, MoveMoves DEF SoundInv
    <3> QED BY <1>1, <3>1, MovedSound DEF CarefulInv
  <2> QED BY <1>1, <1>3, <2>1, FailedSound, ReallocToZeroSound, ReallocCallSound
          DEF Resizing, CarefulInv
<1>4. CASE Unprotecting(t)
  BY <1>1, <1>4, AddDescriptionSound, AddDataSound, UnprotectSound
     DEF Unprotecting, CarefulInv
<1>5. CASE Misusing(t)
  <2>1. PICK p \in Pools, a \in Addrs : ~Busy(a) /\ FreeCall(t, p, a)
    BY <1>5 DEF Misusing
  <2>2. CASE Wrong(p, a)
    BY <2>1, <2>2, WrongIsSeen DEF CarefulInv
  <2>3. CASE ~Wrong(p, a)
    <3>1. a \in given /\ block[a].pool = p
      BY <2>3 DEF Wrong
    <3> QED BY <1>1, <2>1, <3>1, FreeCallSound DEF CarefulInv
  <2> QED BY <2>2, <2>3
<1> QED BY <1>2, <1>3, <1>4, <1>5 DEF Careful

\* The monitor forgets no error, and the program does not take one back.
LEMMA ErrorsStay ==
    ASSUME misused = TRUE, errors # {}, NEW t \in Threads, Careful(t)
    PROVE  misused' = TRUE /\ errors' # {}
<1>1. /\ \A p, a : Looked(p, a) => errors \subseteq errors'
      /\ \A p, a : misused' = (misused \/ Wrong(p, a)) => misused' = TRUE
  BY DEF Looked
<1>2. CASE Freeing(t)
  BY <1>1, <1>2 DEF Freeing, Add, Forget, RealFree, Alloc, FreeCall
<1>3. CASE Resizing(t)
  BY <1>1, <1>3 DEF Resizing, RealExpand, RealMove, RealReallocFails, RealReallocToZero,
                    ReallocCall
<1>4. CASE Unprotecting(t)
  BY <1>4 DEF Unprotecting, AddDescription, AddData, UnprotectData
<1>5. CASE Misusing(t)
  BY <1>1, <1>5 DEF Misusing, FreeCall
<1> QED BY <1>2, <1>3, <1>4, <1>5 DEF Careful

LEMMA SoundInit == Init => SoundInv
<1> SUFFICES ASSUME Init PROVE SoundInv
  OBVIOUS
<1>1. /\ given = {} /\ pc = [t \in Threads |-> Idle]
      /\ errors = {} /\ misused = FALSE /\ asserted = FALSE
  BY DEF Init
<1>2. \A t \in Threads : StillFound(block, map, pc[t]) /\ \A a : ~SettledBy(pc[t], a)
  BY <1>1, IdleCall DEF StillFound
<1> QED BY <1>1, <1>2, RacingInit DEF SoundInv, EntriesAreComplete, CallsAreFound, Settled

LEMMA SoundStutters ==
    ASSUME SoundInv, UNCHANGED vars
    PROVE  SoundInv'
<1>1. RacingInv'
  BY RacingStutters DEF SoundInv
<1> QED BY <1>1 DEF vars, SoundInv, EntriesAreComplete, CallsAreFound, Settled

(* As long as a careful program has freed nothing wrongly the map has       *)
(* exactly the entries it should have, whatever its threads do at once.     *)
THEOREM CarefulInvariance == SpecCareful => []CarefulInv
<1>1. Init => CarefulInv
  BY SoundInit DEF CarefulInv
<1>2. CarefulInv /\ [NextCareful]_vars => CarefulInv'
  <2> SUFFICES ASSUME CarefulInv, [NextCareful]_vars PROVE CarefulInv'
    OBVIOUS
  <2>1. CASE UNCHANGED vars
    BY <2>1, SoundStutters DEF CarefulInv, vars
  <2>2. CASE NextCareful
    BY <2>2, CarefulKeeps, ErrorsStay DEF NextCareful, CarefulInv
  <2> QED BY <2>1, <2>2
<1> QED BY <1>1, <1>2, PTL DEF SpecCareful

\* What SoundInv says about addresses no call has.
LEMMA SoundIsExact == SoundInv => LeaksAreExact /\ ReportedLeaksAreReal
<1> SUFFICES ASSUME SoundInv, NEW k \in Keys, ~Busy(k[2]) PROVE map[k] = Expected(k)
  BY DEF LeaksAreExact, ReportedLeaksAreReal
<1>1. CASE map[k] # None
  BY <1>1, RacingIsReal DEF SoundInv, ReportedLeaksAreReal
<1>2. CASE map[k] = None
  <2> SUFFICES ASSUME k[2] \in Addrs, block[k[2]] # Free, Key(block[k[2]].pool, k[2]) = k
               PROVE  FALSE
    BY <1>2 DEF Expected
  <2>1. \A t \in Threads : ~OwnedBy(pc[t], k[2])
    BY DEF OwnedBy, Busy, At
  <2>2. Settled(k[2])
    BY <2>1 DEF SoundInv, RacingInv, HandsInv, Owned, Settled
  <2> QED BY <1>2, <2>2 DEF SoundInv, EntriesAreComplete
<1> QED BY <1>1, <1>2

(* A careful program that frees wrongly is told so: freed twice, never      *)
(* allocated, with the function of another allocator or for another heap.   *)
THEOREM WrongFreesAreReported == SpecCareful => []MisuseIsReported
<1>1. CarefulInv => MisuseIsReported
  BY DEF CarefulInv, SoundInv, MisuseIsReported
<1> QED BY <1>1, CarefulInvariance, PTL

(* A careful program that frees what it allocated is told of no error.      *)
THEOREM ReportsAreWrongFrees == SpecCareful => []ReportIsMisuse
<1>1. CarefulInv => ReportIsMisuse
  BY DEF CarefulInv, SoundInv, ReportIsMisuse
<1> QED BY <1>1, CarefulInvariance, PTL

(* The leak report of a careful program is exactly the memory it has not    *)
(* freed, and no assertion of add and erase fails, until it frees wrongly.  *)
THEOREM CarefulIsExact == SpecCareful => [](~misused => LeaksAreExact /\ AssertsHold)
<1>1. CarefulInv => (~misused => LeaksAreExact /\ AssertsHold)
  BY SoundIsExact DEF CarefulInv, SoundInv, AssertsHold
<1> QED BY <1>1, CarefulInvariance, PTL

-----------------------------------------------------------------------------
(* Programs that only allocate and free need no care.                      *)
FreeingInv == SoundInv /\ \A t \in Threads : pc[t].call \notin {"after", "freed"}

(* FreeingInv holds in every state of a program that allocates and frees,  *)
(* however its threads interleave inside the monitored calls.              *)
THEOREM FreeingInvariance == SpecFreeing => []FreeingInv
<1>1. Init => FreeingInv
  BY SoundInit, IdleCall DEF FreeingInv, Init
<1>2. FreeingInv /\ [NextFreeing]_vars => FreeingInv'
  <2> SUFFICES ASSUME FreeingInv, [NextFreeing]_vars PROVE FreeingInv'
    OBVIOUS
  <2>1. CASE UNCHANGED vars
    BY <2>1, SoundStutters DEF FreeingInv, vars
  <2>2. CASE NextFreeing
    <3> PICK t \in Threads : Freeing(t)
      BY <2>2 DEF NextFreeing
    <3>1. SoundInv /\ ~ReallocElsewhere(t)
      BY DEF FreeingInv, ReallocElsewhere
    <3>2. SoundInv'
      BY <3>1, AddSound, ForgetSound, RealFreeSound, AllocSound, FreeCallSound DEF Freeing
    <3>3. PICK c : pc' = [pc EXCEPT ![t] = c] /\ c.call \notin {"after", "freed"}
      <4>1. CASE Add(t) \/ RealFree(t)
        BY <4>1, IdleCall DEF Add, RealFree, Goto
      <4>2. CASE \E p \in Pools, a \in Addrs, s \in Sizes : Alloc(t, p, a, s)
        <5>1. PICK p \in Pools, a \in Addrs, s \in Sizes : Alloc(t, p, a, s)
          BY <4>2
        <5> DEFINE c == Call("add", "alloc", p, Null, a, s, FALSE)
        <5>2. pc' = [pc EXCEPT ![t] = c]
          BY <5>1 DEF Alloc, Goto
        <5>3. c.call = "alloc"
          BY DEF Call
        <5> HIDE DEF c
        <5> QED BY <5>2, <5>3
      <4>3. CASE \E a \in given : FreeCall(t, block[a].pool, a)
        <5>1. PICK a \in given : FreeCall(t, block[a].pool, a)
          BY <4>3
        <5> DEFINE known == Found(block[a].pool, a) # None
                   c == Call(IF known THEN "erase" ELSE "real", "free",
                             block[a].pool, a, Null, 0, known)
        <5>2. pc' = [pc EXCEPT ![t] = c]
          BY <5>1 DEF FreeCall, Goto
        <5>3. c.call = "free"
          BY DEF Call
        <5> HIDE DEF c
        <5> QED BY <5>2, <5>3
      <4>4. CASE Forget(t)
        <5>1. pc[t].at = "erase" /\ pc[t].call \notin {"after", "freed"}
          BY <4>4 DEF Forget, At, FreeingInv
        <5>2. SoundCall(block, pc[t]) /\ pc[t] \in Calls
          BY <5>1, WhereCallsAre DEF FreeingInv, SoundInv, RacingInv
        <5>3. pc[t].call \in {"free", "before"}
          BY <5>1, <5>2 DEF SoundCall
        <5>4. pc' = [pc EXCEPT ![t] = [pc[t] EXCEPT !.at = "real"]]
          BY <4>4, <5>3 DEF Forget, Goto
        <5>5. [pc[t] EXCEPT !.at = "real"].call = pc[t].call
          BY <5>2 DEF Calls
        <5> QED BY <5>1, <5>4, <5>5
      <4> QED BY <4>1, <4>2, <4>3, <4>4 DEF Freeing
    <3>4. \A u \in Threads : pc'[u] = IF u = t THEN c ELSE pc[u]
      BY <3>1, <3>3 DEF SoundInv, RacingInv, HandsInv, TypeOK
    <3> QED BY <3>2, <3>3, <3>4 DEF FreeingInv
  <2> QED BY <2>1, <2>2
<1> QED BY <1>1, <1>2, PTL DEF SpecFreeing

(* The leak report and the bytes told by the runtime API are exactly the   *)
(* memory the program has not freed.                                       *)
THEOREM FreeingIsExact == SpecFreeing => []LeaksAreExact
<1>1. FreeingInv => LeaksAreExact
  BY SoundIsExact DEF FreeingInv
<1> QED BY <1>1, FreeingInvariance, PTL

(* A program that frees what it allocated gets no memory error.            *)
THEOREM NoFalseReport == SpecFreeing => []ReportIsMisuse
<1>1. FreeingInv => ReportIsMisuse
  BY DEF FreeingInv, SoundInv, ReportIsMisuse
<1> QED BY <1>1, FreeingInvariance, PTL

(* The assertions of add and erase hold for such a program.                *)
THEOREM AssertionsHold == SpecFreeing => []AssertsHold
<1>1. FreeingInv => AssertsHold
  BY DEF FreeingInv, SoundInv, AssertsHold
<1> QED BY <1>1, FreeingInvariance, PTL
=============================================================================
