------------------------- MODULE LockMonitorProofs -------------------------
(***************************************************************************)
(* Proofs about LockMonitor, for any threads, locks, table size and        *)
(* nesting depth: the tables of held locks agree with the real ownership,  *)
(* and the graph with the orders in which the program took its locks.      *)
(***************************************************************************)
EXTENDS LockMonitor, TLAPS, SequenceTheorems, FiniteSetTheorems, WellFoundedInduction

(* Where a thread is inside a call that concerns l.                        *)
At(t, l, places) == pc[t].at \in places /\ pc[t].mu = l

(* The table has an entry with this id and this count.                     *)
Has(locks, id, c) == \E i \in DOMAIN locks : locks[i].id = id /\ locks[i].count = c
Distinct(locks)   == \A i, j \in DOMAIN locks : locks[i].id = locks[j].id => i = j

(* The table of t has an entry with the current id of l and this count.    *)
Noted(t, l, c) == Has(held[t], idOf[l], c)

(* Nested acquisitions of l by t that the table does not count: the one    *)
(* not entered yet or already dropped.                                     *)
Uncounted(t, l) == IF At(t, l, {"locked", "unlock"}) THEN 1 ELSE 0

Calls == [at : {"lock", "locked", "unlock", "try", "delete", "wait"},
          mu : Locks, id : Ids \cup {NoId}]

(* TypeOK, the two bounds that need arguments of their own left out.       *)
TypeInv ==
    /\ owner \in [Locks -> Threads \cup {NoThread}]
    /\ depth \in [Locks -> 0 .. MaxDepth]
    /\ pc \in [Threads -> {Idle} \cup Calls]
    /\ held \in [Threads -> Seq(Entry)]
    /\ start \in [Threads -> {"zero", "running", "waiting"}]
    /\ ignore_lock \in [Threads -> 0 .. MaxIgnore]
    /\ ignore_unlock \in [Threads -> 0 .. MaxIgnore]
    /\ idOf \in [Locks -> Ids \cup {NoId}]
    /\ born \in [Locks -> 0 .. MaxBorn]
    /\ edges \subseteq Ids \X Ids
    /\ recorded \subseteq Ids
    /\ spare \in Nat
    /\ potential \in BOOLEAN /\ other \in BOOLEAN /\ inverted \in BOOLEAN
    /\ order \subseteq Locks \X Locks

(* The graph gives a lock one id at a time, the youngest; an entry carries *)
(* an id its lock has or had, each id at most once; edges join live nodes. *)
CurrentIds    == \A l \in Locks : idOf[l] = NoId \/ idOf[l] = <<l, born[l]>>
EntryIds      == \A t \in Threads : \A i \in DOMAIN held[t] :
                     /\ held[t][i].id[1] = held[t][i].mu
                     /\ held[t][i].id[2] <= born[held[t][i].mu]
EntriesDiffer == \A t \in Threads : Distinct(held[t])
EdgesLive     == \A e \in edges : IsLive(e[1]) /\ IsLive(e[2])
IdsInv == /\ CurrentIds /\ EntryIds /\ EntriesDiffer
          /\ EdgesLive /\ PathNodesAreRecorded

(* What the monitor may rely on between the steps of one call.             *)
RealInv      == \A l \in Locks : owner[l] = NoThread <=> depth[l] = 0
WatchedInv   == \A t \in Threads, l \in Locks :
                    At(t, l, {"lock", "locked", "try"}) /\ pc[t].id # NoId
                    => /\ pc[t].id = idOf[l] /\ l \notin Ignored
                       /\ Len(held[t]) < MAX_LOCKS_PER_THREAD
UnwatchedInv == \A t \in Threads, l \in Locks :
                    At(t, l, {"lock", "locked", "try"}) /\ pc[t].id = NoId
                    => pc[t].at = "lock" /\ (l \in Ignored \/ other)
WaitInv      == \A t \in Threads, l \in Locks :
                    /\ At(t, l, {"locked"}) => owner[l] = t
                    /\ At(t, l, {"lock", "try"}) /\ owner[l] = t => depth[l] < MaxDepth
                    /\ At(t, l, {"wait"}) => owner[l] # t
DyingAlone   == \A t, u \in Threads, l \in Locks :
                    /\ At(t, l, {"delete"})
                    /\ At(u, l, {"lock", "locked", "try", "wait", "delete"})
                    => t = u
CallInv == RealInv /\ WatchedInv /\ UnwatchedInv /\ WaitInv /\ DyingAlone

(* A live entry means that its thread owns the lock, at least as often as  *)
(* the entry says (a thread in a condition wait has let go of it).         *)
OwnedIfNoted ==
    \A t \in Threads, l \in Locks, c \in 1 .. MaxDepth : Noted(t, l, c) =>
        /\ l \notin Ignored /\ ~Dying(l)
        /\ \/ owner[l] = t /\ c + Uncounted(t, l) <= depth[l]
           \/ At(t, l, {"wait"}) /\ c = 1

(* ... and while no other error is found, the tables miss nothing.         *)
NotedIfOwned ==
    other \/ \A t \in Threads, l \in Locks : l \notin Ignored /\ ~Dying(l) =>
        /\ owner[l] = t /\ depth[l] > Uncounted(t, l) => Noted(t, l, depth[l] - Uncounted(t, l))
        /\ At(t, l, {"wait"}) => Noted(t, l, 1)

TableInv == TypeInv /\ IdsInv /\ CallInv /\ OwnedIfNoted

-----------------------------------------------------------------------------
(* A table of held locks: entries are found by their id.                   *)

LEMMA TableFacts ==
    ASSUME NEW locks \in Seq(Entry)
    PROVE  /\ Len(locks) \in Nat /\ DOMAIN locks = 1 .. Len(locks)
           /\ \A i \in DOMAIN locks : /\ locks[i] \in Entry /\ locks[i].mu \in Locks
                                      /\ locks[i].count \in 1 .. MaxDepth
                                      /\ locks[i].id \in Ids
<1>1. Len(locks) \in Nat /\ DOMAIN locks = 1 .. Len(locks)
  BY LenProperties
<1>2. \A i \in DOMAIN locks : locks[i] \in Entry
  BY <1>1, ElementOfSeq
<1>3. \A e \in Entry : e.mu \in Locks /\ e.count \in 1 .. MaxDepth /\ e.id \in Ids
  BY DEF Entry
<1> QED BY <1>1, <1>2, <1>3

(* An entry with another count is an entry.                                *)
LEMMA Recounted ==
    ASSUME NEW e \in Entry
    PROVE  /\ e.count < MaxDepth => [e EXCEPT !.count = @ + 1] \in Entry
           /\ e.count > 1 => [e EXCEPT !.count = @ - 1] \in Entry
           /\ LET p == [e EXCEPT !.count = @ + 1]
              IN p.mu = e.mu /\ p.id = e.id /\ p.count = e.count + 1
           /\ LET m == [e EXCEPT !.count = @ - 1]
              IN m.mu = e.mu /\ m.id = e.id /\ m.count = e.count - 1
<1>1. e.mu \in Locks /\ e.count \in 1 .. MaxDepth /\ e.id \in Ids /\ MaxDepth \in Nat
  BY MonitorAssumption DEF Entry
<1>2. /\ [e EXCEPT !.count = @ + 1] = [mu |-> e.mu, count |-> e.count + 1, id |-> e.id]
      /\ [e EXCEPT !.count = @ - 1] = [mu |-> e.mu, count |-> e.count - 1, id |-> e.id]
  BY DEF Entry
<1>3. /\ e.count < MaxDepth => e.count + 1 \in 1 .. MaxDepth
      /\ e.count > 1 => e.count - 1 \in 1 .. MaxDepth
  BY <1>1
<1> QED BY <1>1, <1>2, <1>3 DEF Entry

(* Acquired, the id is in the table: its entry counts one more.            *)
LEMMA AcquiredAgain ==
    ASSUME NEW locks \in Seq(Entry), NEW l, NEW id, NEW k \in DOMAIN locks, locks[k].id = id,
           \A i \in DOMAIN locks : locks[i].id = id => locks[i].count < MaxDepth
    PROVE  LET new == Acquired(locks, l, id)
           IN /\ new \in Seq(Entry) /\ Len(new) = Len(locks) /\ DOMAIN new = DOMAIN locks
              /\ \A i \in DOMAIN locks :
                    /\ new[i].mu = locks[i].mu /\ new[i].id = locks[i].id
                    /\ new[i].count = IF locks[i].id = id THEN locks[i].count + 1
                                                          ELSE locks[i].count
<1> DEFINE f(i) == IF locks[i].id = id THEN [locks[i] EXCEPT !.count = @ + 1] ELSE locks[i]
           g == [i \in DOMAIN locks |-> f(i)]
<1>1. Acquired(locks, l, id) = g
  BY DEF Acquired
<1>2. Len(locks) \in Nat /\ DOMAIN locks = 1 .. Len(locks)
  BY TableFacts
<1>3. \A i \in DOMAIN locks : locks[i] \in Entry
  BY TableFacts
<1>4. ASSUME NEW i \in DOMAIN locks
      PROVE  /\ f(i) \in Entry /\ f(i).mu = locks[i].mu /\ f(i).id = locks[i].id
             /\ f(i).count = IF locks[i].id = id THEN locks[i].count + 1 ELSE locks[i].count
  <2>1. CASE locks[i].id = id
    BY <1>3, <2>1, Recounted
  <2>2. CASE locks[i].id # id
    BY <1>3, <2>2
  <2> QED BY <2>1, <2>2
<1> HIDE DEF f
<1>5. g \in [1 .. Len(locks) -> Entry]
  BY <1>2, <1>4
<1>6. g \in Seq(Entry)
  BY <1>2, <1>5, SeqDef
<1>7. DOMAIN g = DOMAIN locks
  OBVIOUS
<1>8. Len(g) = Len(locks)
  BY <1>2, <1>6, <1>7, LenProperties
<1>9. \A i \in DOMAIN locks : g[i] = f(i)
  OBVIOUS
<1> HIDE DEF g
<1> QED BY <1>1, <1>4, <1>6, <1>7, <1>8, <1>9

(* Acquired, the id is not in the table and there is room.                 *)
LEMMA AcquiredFirst ==
    ASSUME NEW locks \in Seq(Entry), NEW l \in Locks, NEW id \in Ids,
           \A i \in DOMAIN locks : locks[i].id # id, Len(locks) # MAX_LOCKS_PER_THREAD
    PROVE  LET new == Acquired(locks, l, id)
               n   == Len(locks) + 1
           IN /\ new \in Seq(Entry) /\ Len(new) = n /\ DOMAIN new = DOMAIN locks \cup {n}
              /\ n \notin DOMAIN locks
              /\ new[n].mu = l /\ new[n].id = id /\ new[n].count = 1
              /\ \A i \in DOMAIN locks : new[i] = locks[i]
<1> DEFINE x == [mu |-> l, count |-> 1, id |-> id]
           n == Len(locks) + 1
<1>1. Acquired(locks, l, id) = Append(locks, x)
  BY DEF Acquired
<1>2. x \in Entry
  BY MonitorAssumption DEF Entry
<1>3. x.mu = l /\ x.count = 1 /\ x.id = id
  OBVIOUS
<1>4. Len(locks) \in Nat /\ DOMAIN locks = 1 .. Len(locks)
  BY TableFacts
<1> HIDE DEF x
<1>5. /\ Append(locks, x) \in Seq(Entry) /\ Len(Append(locks, x)) = n
      /\ \A i \in 1 .. Len(locks) : Append(locks, x)[i] = locks[i]
      /\ Append(locks, x)[n] = x
  BY <1>2, AppendProperties
<1>6. DOMAIN Append(locks, x) = 1 .. n
  BY <1>5, LenProperties
<1>7. 1 .. n = (1 .. Len(locks)) \cup {n} /\ n \notin 1 .. Len(locks)
  BY <1>4
<1> QED BY <1>1, <1>3, <1>4, <1>5, <1>6, <1>7

(* Released, the entry counts more than one.                               *)
LEMMA ReleasedOnce ==
    ASSUME NEW locks \in Seq(Entry), NEW k \in DOMAIN locks, locks[k].count > 1
    PROVE  LET new == Released(locks, k)
           IN /\ new \in Seq(Entry) /\ Len(new) = Len(locks) /\ DOMAIN new = DOMAIN locks
              /\ \A i \in DOMAIN locks :
                    /\ new[i].mu = locks[i].mu /\ new[i].id = locks[i].id
                    /\ new[i].count = IF i = k THEN locks[i].count - 1 ELSE locks[i].count
<1> DEFINE x == [locks[k] EXCEPT !.count = @ - 1]
<1>1. Released(locks, k) = [locks EXCEPT ![k] = x]
  BY DEF Released
<1>2. /\ Len(locks) \in Nat /\ DOMAIN locks = 1 .. Len(locks)
      /\ \A i \in DOMAIN locks : locks[i] \in Entry
  BY TableFacts
<1>3. /\ x \in Entry /\ x.mu = locks[k].mu /\ x.id = locks[k].id
      /\ x.count = locks[k].count - 1
  BY <1>2, Recounted
<1> HIDE DEF x
<1>4. /\ [locks EXCEPT ![k] = x] \in Seq(Entry) /\ Len([locks EXCEPT ![k] = x]) = Len(locks)
      /\ \A i \in 1 .. Len(locks) : [locks EXCEPT ![k] = x][i] = IF i = k THEN x ELSE locks[i]
  BY <1>2, <1>3, ExceptSeq
<1>5. DOMAIN [locks EXCEPT ![k] = x] = DOMAIN locks
  BY <1>2, <1>4, LenProperties
<1> QED BY <1>1, <1>2, <1>3, <1>4, <1>5

(* Released, the entry is used up: the last one takes its place.           *)
LEMMA ReleasedLast ==
    ASSUME NEW locks \in Seq(Entry), NEW k \in DOMAIN locks, ~(locks[k].count > 1)
    PROVE  LET new == Released(locks, k)
               n   == Len(locks)
           IN /\ new \in Seq(Entry) /\ Len(new) = n - 1
              /\ DOMAIN new = DOMAIN locks \ {n} /\ n \in DOMAIN locks
              /\ \A i \in DOMAIN new : new[i] = locks[IF i = k THEN n ELSE i]
<1> DEFINE n == Len(locks)
           e == [locks EXCEPT ![k] = locks[n]]
<1>1. Released(locks, k) = SubSeq(e, 1, n - 1)
  BY DEF Released
<1>2. n \in Nat /\ DOMAIN locks = 1 .. n /\ n >= 1 /\ n \in DOMAIN locks
  BY TableFacts
<1>3. locks[n] \in Entry
  BY <1>2, ElementOfSeq
<1>4. /\ e \in Seq(Entry) /\ Len(e) = n
      /\ \A i \in 1 .. n : e[i] = IF i = k THEN locks[n] ELSE locks[i]
  BY <1>2, <1>3, ExceptSeq
<1>5. \A i \in 1 .. n - 1 : e[i] \in Entry
  BY <1>2, <1>4, ElementOfSeq
<1> HIDE DEF e
<1>6. /\ SubSeq(e, 1, n - 1) \in Seq(Entry)
      /\ Len(SubSeq(e, 1, n - 1)) = IF 1 <= n - 1 THEN n - 1 - 1 + 1 ELSE 0
      /\ \A i \in 1 .. n - 1 - 1 + 1 : SubSeq(e, 1, n - 1)[i] = e[1 + i - 1]
  BY <1>2, <1>5, SubSeqProperties
<1>7. Len(SubSeq(e, 1, n - 1)) = n - 1
  <2>1. CASE 1 <= n - 1
    <3>1. n - 1 - 1 + 1 = n - 1
      BY <1>2
    <3> QED BY <1>6, <2>1, <3>1
  <2>2. CASE ~(1 <= n - 1)
    <3>1. n - 1 = 0
      BY <1>2, <2>2
    <3> QED BY <1>6, <2>2, <3>1
  <2> QED BY <2>1, <2>2
<1>8. \A i \in 1 .. n - 1 : SubSeq(e, 1, n - 1)[i] = e[i]
  <2> TAKE i \in 1 .. n - 1
  <2>1. i \in 1 .. n - 1 - 1 + 1 /\ 1 + i - 1 = i
    BY <1>2
  <2> QED BY <1>6, <2>1
<1>9. DOMAIN SubSeq(e, 1, n - 1) = 1 .. n - 1
  BY <1>6, <1>7, LenProperties
<1>10. 1 .. n - 1 = (1 .. n) \ {n}
  BY <1>2
<1>11. \A i \in 1 .. n - 1 : e[i] = locks[IF i = k THEN n ELSE i]
  BY <1>2, <1>4
<1> QED BY <1>1, <1>2, <1>6, <1>7, <1>8, <1>9, <1>10, <1>11

(* update_lock_history_in_lock on the whole table, when there is room: one *)
(* acquisition of id more, every other count as before.                    *)
LEMMA AcquiredTable ==
    ASSUME NEW locks \in Seq(Entry), Distinct(locks), NEW l \in Locks, NEW id \in Ids,
           \A i \in DOMAIN locks : locks[i].id = id => locks[i].count < MaxDepth,
           Len(locks) # MAX_LOCKS_PER_THREAD
    PROVE  LET new == Acquired(locks, l, id)
           IN /\ new \in Seq(Entry) /\ Distinct(new) /\ new # <<>>
              /\ \A i \in DOMAIN new :
                    \/ new[i].id = id /\ new[i].mu = l
                    \/ \E j \in DOMAIN locks : /\ new[i].id = locks[j].id
                                               /\ new[i].mu = locks[j].mu
              /\ \A x, c : x # id => (Has(new, x, c) <=> Has(locks, x, c))
              /\ \A c \in Nat : Has(locks, id, c) => Has(new, id, c + 1)
              /\ \A c \in Nat : Has(new, id, c) => c = 1 \/ Has(locks, id, c - 1)
              /\ (\A c \in 1 .. MaxDepth : ~Has(locks, id, c)) => Has(new, id, 1)
<1> DEFINE new == Acquired(locks, l, id)
<1>1. \A i \in DOMAIN locks : locks[i].count \in 1 .. MaxDepth /\ MaxDepth \in Nat
  BY TableFacts, MonitorAssumption
<1>2. CASE \E k \in DOMAIN locks : locks[k].id = id
  <2>1. PICK k \in DOMAIN locks : locks[k].id = id
    BY <1>2
  <2>2. /\ new \in Seq(Entry) /\ Len(new) = Len(locks) /\ DOMAIN new = DOMAIN locks
        /\ \A i \in DOMAIN locks :
              /\ new[i].mu = locks[i].mu /\ new[i].id = locks[i].id
              /\ new[i].count = IF locks[i].id = id THEN locks[i].count + 1
                                                    ELSE locks[i].count
    BY <2>1, AcquiredAgain DEF Acquired
  <2> HIDE DEF new
  <2>3. Distinct(new)
    BY <2>2 DEF Distinct
  <2>4. \A x, c : x # id => (Has(new, x, c) <=> Has(locks, x, c))
    BY <2>2 DEF Has
  <2>5. \A c \in Nat : Has(locks, id, c) => Has(new, id, c + 1)
    BY <2>2 DEF Has
  <2>6. \A c \in Nat : Has(new, id, c) => Has(locks, id, c - 1)
    BY <1>1, <2>2 DEF Has
  <2>7. Has(locks, id, locks[k].count)
    BY <2>1 DEF Has
  <2>8. DOMAIN new # {}
    BY <2>2
  <2>9. new # <<>>
    BY <2>8, EmptySeq
  <2> QED BY <1>1, <2>1, <2>2, <2>3, <2>4, <2>5, <2>6, <2>7, <2>9 DEF new
<1>3. CASE \A k \in DOMAIN locks : locks[k].id # id
  <2> DEFINE n == Len(locks) + 1
  <2>2. /\ new \in Seq(Entry) /\ Len(new) = n /\ DOMAIN new = DOMAIN locks \cup {n}
        /\ n \notin DOMAIN locks
        /\ new[n].mu = l /\ new[n].id = id /\ new[n].count = 1
        /\ \A i \in DOMAIN locks : new[i] = locks[i]
    BY <1>3, AcquiredFirst DEF Acquired
  <2> HIDE DEF new, n
  <2>3. Distinct(new)
    BY <1>3, <2>2 DEF Distinct
  <2>4. \A x, c : x # id => (Has(new, x, c) <=> Has(locks, x, c))
    BY <2>2 DEF Has
  <2>5. \A c : ~Has(locks, id, c)
    BY <1>3 DEF Has
  <2>6. \A c : Has(new, id, c) => c = 1
    BY <1>3, <2>2 DEF Has
  <2>7. Has(new, id, 1)
    BY <2>2 DEF Has
  <2>8. new # <<>>
    BY <2>2, EmptySeq
  <2>9. \A i \in DOMAIN new : i = n \/ i \in DOMAIN locks
    BY <2>2
  <2> QED BY <2>2, <2>3, <2>4, <2>5, <2>6, <2>7, <2>8, <2>9 DEF new
<1> QED BY <1>2, <1>3

(* update_lock_history_after_lock on the whole table: one acquisition of   *)
(* the entry's id less.                                                    *)
LEMMA ReleasedTable ==
    ASSUME NEW locks \in Seq(Entry), Distinct(locks), NEW k \in DOMAIN locks
    PROVE  LET new == Released(locks, k)
               id  == locks[k].id
           IN /\ new \in Seq(Entry) /\ Distinct(new)
              /\ \A i \in DOMAIN new : \E j \in DOMAIN locks : /\ new[i].id = locks[j].id
                                                              /\ new[i].mu = locks[j].mu
              /\ \A x, c : x # id => (Has(new, x, c) <=> Has(locks, x, c))
              /\ \A c \in Nat \ {0} : Has(new, id, c) <=> Has(locks, id, c + 1)
<1> DEFINE new == Released(locks, k)
           id  == locks[k].id
           n   == Len(locks)
<1>1. \A i \in DOMAIN locks : locks[i].count \in 1 .. MaxDepth /\ MaxDepth \in Nat
  BY TableFacts, MonitorAssumption
<1>2. CASE locks[k].count > 1
  <2>1. /\ new \in Seq(Entry) /\ DOMAIN new = DOMAIN locks
        /\ \A i \in DOMAIN locks :
              /\ new[i].mu = locks[i].mu /\ new[i].id = locks[i].id
              /\ new[i].count = IF i = k THEN locks[i].count - 1 ELSE locks[i].count
    BY <1>2, ReleasedOnce
  <2> HIDE DEF new
  <2>2. Distinct(new)
    BY <2>1 DEF Distinct
  <2>3. \A x, c : x # id => (Has(new, x, c) <=> Has(locks, x, c))
    BY <2>1 DEF Has
  <2>4. \A i \in DOMAIN locks : locks[i].id = id => i = k
    BY DEF Distinct
  <2>5. \A c : Has(new, id, c) <=> c = locks[k].count - 1
    BY <2>1, <2>4 DEF Has
  <2>6. \A c : Has(locks, id, c) <=> c = locks[k].count
    BY <2>4 DEF Has
  <2>7. \A c \in Nat \ {0} : Has(new, id, c) <=> Has(locks, id, c + 1)
    BY <1>1, <2>5, <2>6
  <2> QED BY <2>1, <2>2, <2>3, <2>7 DEF new
<1>3. CASE ~(locks[k].count > 1)
  <2>1. /\ new \in Seq(Entry)
        /\ DOMAIN new = DOMAIN locks \ {n} /\ n \in DOMAIN locks
        /\ \A i \in DOMAIN new : new[i] = locks[IF i = k THEN n ELSE i]
    BY <1>3, ReleasedLast
  <2> HIDE DEF new, n
  <2>2. Distinct(new)
    BY <2>1 DEF Distinct
  <2>3. \A i \in DOMAIN new : (IF i = k THEN n ELSE i) \in DOMAIN locks \ {k}
    BY <2>1
  <2>4. \A j \in DOMAIN locks \ {k} : \E i \in DOMAIN new : new[i] = locks[j]
    <3> TAKE j \in DOMAIN locks \ {k}
    <3>1. CASE j = n
      BY <2>1, <3>1
    <3>2. CASE j # n
      BY <2>1, <3>2
    <3> QED BY <3>1, <3>2
  <2>5. \A i \in DOMAIN locks : locks[i].id = id => i = k
    BY DEF Distinct
  <2>6. \A x, c : x # id => (Has(new, x, c) <=> Has(locks, x, c))
    <3> SUFFICES ASSUME NEW x, NEW c, x # id PROVE Has(new, x, c) <=> Has(locks, x, c)
      OBVIOUS
    <3>1. Has(new, x, c) => Has(locks, x, c)
      BY <2>1, <2>3 DEF Has
    <3>2. Has(locks, x, c) => Has(new, x, c)
      BY <2>4 DEF Has
    <3> QED BY <3>1, <3>2
  <2>7. \A c : ~Has(new, id, c)
    BY <2>1, <2>3, <2>5 DEF Has
  <2>8. locks[k].count = 1
    BY <1>1, <1>3
  <2>9. \A c \in Nat \ {0} : ~Has(locks, id, c + 1)
    BY <2>5, <2>8 DEF Has
  <2> QED BY <2>1, <2>2, <2>3, <2>6, <2>7, <2>9 DEF new
<1> QED BY <1>2, <1>3

-----------------------------------------------------------------------------
(* Places in a call, and the nodes of the graph.                           *)

LEMMA PlaceFacts ==
    ASSUME NEW p \in {Idle} \cup Calls
    PROVE  /\ p.at \in {"idle", "lock", "locked", "unlock", "try", "delete", "wait"}
           /\ p.at = "idle" <=> p = Idle
           /\ p.at # "idle" => /\ p \in Calls /\ p.mu \in Locks /\ p.id \in Ids \cup {NoId}
                               /\ [p EXCEPT !.at = "locked"] = In("locked", p.mu, p.id)
<1>1. CASE p = Idle
  BY <1>1 DEF Idle
<1>2. CASE p \in Calls
  BY <1>2 DEF Idle, Calls, In
<1> QED BY <1>1, <1>2

LEMMA InFacts ==
    ASSUME NEW at \in {"lock", "locked", "unlock", "try", "delete", "wait"},
           NEW l \in Locks, NEW id \in Ids \cup {NoId}
    PROVE  /\ In(at, l, id) \in Calls /\ In(at, l, id) # Idle
           /\ In(at, l, id).at = at /\ In(at, l, id).mu = l /\ In(at, l, id).id = id
<1>1. In(at, l, id).at = at /\ Idle.at = "idle"
  BY DEF In, Idle
<1> QED BY <1>1 DEF In, Calls

(* Dying, in terms of At.                                                  *)
LEMMA DyingMeans ==
    ASSUME pc \in [Threads -> {Idle} \cup Calls], NEW l
    PROVE  Dying(l) <=> \E t \in Threads : At(t, l, {"delete"})
<1>1. \A t \in Threads : pc[t].at = "delete" => pc[t] # Idle
  BY DEF Idle
<1> QED BY <1>1 DEF Dying, Busy, At

LEMMA DyingMeansNext ==
    ASSUME pc' \in [Threads -> {Idle} \cup Calls], NEW l
    PROVE  Dying(l)' <=> \E t \in Threads : At(t, l, {"delete"})'
<1>1. \A t \in Threads : pc'[t].at = "delete" => pc'[t] # Idle
  BY DEF Idle
<1> QED BY <1>1 DEF Dying, Busy, At

LEMMA IdFacts ==
    /\ NoId \notin Ids
    /\ \A l \in Locks, n \in 1 .. MaxBorn : <<l, n>> \in Ids
    /\ \A x \in Ids : x = <<x[1], x[2]>> /\ x[1] \in Locks /\ x[2] \in 1 .. MaxBorn
  BY MonitorAssumption DEF Ids

(* GraphCycles::GetId: a lock without a node gets an id nobody has seen.   *)
LEMMA GetIdFacts ==
    ASSUME TypeInv, CurrentIds, EntryIds, NEW l \in Locks, NEW traced \in BOOLEAN, GetId(l, traced)
    PROVE  /\ IdFor(l) \in Ids /\ IdFor(l)[1] = l
           /\ idOf' = [idOf EXCEPT ![l] = IdFor(l)] /\ idOf' \in [Locks -> Ids \cup {NoId}]
           /\ born' \in [Locks -> 0 .. MaxBorn] /\ spare' \in Nat /\ recorded' \subseteq Ids
           /\ \A k \in Locks : born[k] <= born'[k] /\ (k # l => born'[k] = born[k])
           /\ IdFor(l)[2] = born'[l]
           /\ recorded \subseteq recorded' /\ (traced => IdFor(l) \in recorded')
           /\ idOf[l] = NoId =>
                \A t \in Threads : \A i \in DOMAIN held[t] : held[t][i].id # IdFor(l)
<1>1. /\ MaxBorn \in Nat /\ born[l] \in 0 .. MaxBorn /\ idOf[l] \in Ids \cup {NoId}
      /\ spare \in Nat /\ recorded \subseteq Ids
  BY MonitorAssumption DEF TypeInv
<1>2. CASE idOf[l] # NoId
  <2>1. /\ IdFor(l) = idOf[l] /\ idOf' = [idOf EXCEPT ![l] = IdFor(l)]
        /\ born' = born /\ spare' = spare
        /\ recorded' = IF traced THEN recorded \cup {IdFor(l)} ELSE recorded
    BY <1>2 DEF GetId, IdFor, UpdateStackTrace
  <2>2. IdFor(l) = <<l, born[l]>> /\ IdFor(l) \in Ids
    BY <1>1, <1>2, <2>1 DEF CurrentIds
  <2>3. idOf' \in [Locks -> Ids \cup {NoId}] /\ recorded' \subseteq Ids
    BY <1>1, <2>1, <2>2 DEF TypeInv
  <2>4. /\ born' \in [Locks -> 0 .. MaxBorn]
        /\ \A k \in Locks : born[k] <= born'[k] /\ (k # l => born'[k] = born[k])
    BY <2>1 DEF TypeInv
  <2> QED BY <1>1, <1>2, <2>1, <2>2, <2>3, <2>4
<1>3. CASE idOf[l] = NoId
  <2>1. /\ IdFor(l) = <<l, born[l] + 1>> /\ idOf' = [idOf EXCEPT ![l] = IdFor(l)]
        /\ born[l] < MaxBorn /\ born' = [born EXCEPT ![l] = @ + 1]
        /\ spare' = IF spare > 0 THEN spare - 1 ELSE spare
    BY <1>3 DEF GetId, IdFor
  <2>2. /\ recorded \subseteq recorded' /\ (traced => IdFor(l) \in recorded')
        /\ recorded' \subseteq recorded \cup {IdFor(l)}
    BY DEF GetId, UpdateStackTrace
  <2>3. born[l] + 1 \in 1 .. MaxBorn
    BY <1>1, <2>1
  <2>4. IdFor(l) \in Ids /\ IdFor(l)[1] = l /\ IdFor(l)[2] = born[l] + 1
    BY <2>1, <2>3, IdFacts
  <2>5. /\ born' \in [Locks -> 0 .. MaxBorn] /\ born'[l] = born[l] + 1
        /\ \A k \in Locks : born[k] <= born'[k] /\ (k # l => born'[k] = born[k])
    BY <1>1, <2>1, <2>3 DEF TypeInv
  <2>6. spare' \in Nat
    BY <1>1, <2>1
  <2>7. idOf' \in [Locks -> Ids \cup {NoId}] /\ recorded' \subseteq Ids
    BY <1>1, <2>1, <2>2, <2>4 DEF TypeInv
  <2>8. ASSUME NEW t \in Threads, NEW i \in DOMAIN held[t], held[t][i].id = IdFor(l)
        PROVE  FALSE
    <3>1. held[t][i].mu = l /\ held[t][i].id[2] <= born[l]
      BY <2>4, <2>8 DEF EntryIds
    <3> QED BY <1>1, <2>4, <2>8, <3>1
  <2> QED BY <2>1, <2>2, <2>4, <2>5, <2>6, <2>7, <2>8
<1> QED BY <1>2, <1>3

(* A node of its own for every lock: its id leads back to it.              *)
LEMMA LiveIds ==
    ASSUME TypeInv, CurrentIds, NEW l \in Locks, idOf[l] # NoId
    PROVE  idOf[l] \in Ids /\ idOf[l][1] = l /\ IsLive(idOf[l])
<1>1. idOf[l] \in Ids /\ idOf[l] = <<l, born[l]>>
  BY DEF TypeInv, CurrentIds
<1> QED BY <1>1 DEF IsLive

LEMMA InitTables == Init => TableInv /\ NotedIfOwned
<1> SUFFICES ASSUME Init PROVE TableInv /\ NotedIfOwned
  OBVIOUS
<1>1. \A t \in Threads : held[t] = <<>> /\ <<>> \in Seq(Entry) /\ DOMAIN <<>> = {} /\ pc[t] = Idle
  BY EmptySeq DEF Init
<1>2. \A t \in Threads, l \in Locks : \A S : At(t, l, S) => "idle" \in S
  BY <1>1 DEF At, Idle
<1>3. held \in [Threads -> Seq(Entry)] /\ pc \in [Threads -> {Idle} \cup Calls]
  BY <1>1 DEF Init
<1>4. TypeInv
  <2>1. 0 \in 0 .. MaxDepth /\ 0 \in 0 .. MaxIgnore /\ 0 \in 0 .. MaxBorn
    BY MonitorAssumption
  <2>2. /\ owner \in [Locks -> Threads \cup {NoThread}] /\ depth \in [Locks -> 0 .. MaxDepth]
        /\ start \in [Threads -> {"zero", "running", "waiting"}]
        /\ ignore_lock \in [Threads -> 0 .. MaxIgnore]
        /\ ignore_unlock \in [Threads -> 0 .. MaxIgnore]
    BY <2>1 DEF Init
  <2>3. idOf \in [Locks -> Ids \cup {NoId}] /\ born \in [Locks -> 0 .. MaxBorn] /\ spare \in Nat
    BY <2>1 DEF Init
  <2>4. /\ edges \subseteq Ids \X Ids /\ recorded \subseteq Ids /\ order \subseteq Locks \X Locks
        /\ potential \in BOOLEAN /\ other \in BOOLEAN /\ inverted \in BOOLEAN
    BY DEF Init
  <2> QED BY <1>3, <2>2, <2>3, <2>4 DEF TypeInv
<1>5. IdsInv
  BY <1>1 DEF Init, IdsInv, CurrentIds, EntryIds, EntriesDiffer, Distinct, EdgesLive,
              PathNodesAreRecorded
<1>6. CallInv
  BY <1>2, MonitorAssumption
     DEF Init, CallInv, RealInv, WatchedInv, UnwatchedInv, WaitInv, DyingAlone
<1>7. OwnedIfNoted
  BY <1>1 DEF OwnedIfNoted, Noted, Has
<1>8. NotedIfOwned
  BY <1>2, MonitorAssumption DEF Init, NotedIfOwned
<1> QED BY <1>4, <1>5, <1>6, <1>7, <1>8 DEF TableInv

-----------------------------------------------------------------------------
(* One thread moves; the lemmas after these take the steps one by one.     *)

LEMMA Moved ==
    ASSUME pc \in [Threads -> {Idle} \cup Calls], NEW t \in Threads,
           NEW q \in {Idle} \cup Calls, Goto(t, q)
    PROVE  /\ pc' \in [Threads -> {Idle} \cup Calls] /\ pc'[t] = q
           /\ \A u \in Threads : u # t => pc'[u] = pc[u]
           /\ \A k, S : At(t, k, S)' <=> q.at \in S /\ q.mu = k
           /\ \A u \in Threads : \A k, S : u # t => (At(u, k, S)' <=> At(u, k, S))
<1>1. /\ pc' \in [Threads -> {Idle} \cup Calls] /\ pc'[t] = q
      /\ \A u \in Threads : u # t => pc'[u] = pc[u]
  BY DEF Goto
<1> QED BY <1>1 DEF At

LEMMA NowhereWhenIdle ==
    ASSUME NEW t, pc[t] = Idle, NEW l, NEW S, "idle" \notin S
    PROVE  ~At(t, l, S)
  BY DEF At, Idle

LEMMA IdsFrame ==
    ASSUME IdsInv, UNCHANGED <<held, idOf, born, edges, recorded>>
    PROVE  IdsInv'
  BY DEF IdsInv, CurrentIds, EntryIds, EntriesDiffer, EdgesLive, IsLive, PathNodesAreRecorded

LEMMA InvertsTypes ==
    ASSUME TypeInv, NEW t \in Threads, NEW l \in Locks, Inverts(t, l)
    PROVE  order' \subseteq Locks \X Locks /\ inverted' \in BOOLEAN
<1>1. order' \subseteq order \cup (Locks \X {l})
  BY DEF Inverts
<1>2. order' \subseteq Locks \X Locks
  BY <1>1 DEF TypeInv
<1>3. inverted' \in BOOLEAN
  BY DEF Inverts
<1> QED BY <1>2, <1>3

(* A call begins that the monitor does not watch: of an announced lock, or *)
(* of any lock when the table is full.                                     *)
LEMMA UnwatchedCall ==
    ASSUME TableInv, TypeInv', NEW t \in Threads, NEW l \in Locks, pc[t] = Idle,
           NEW at \in {"lock", "unlock"}, Goto(t, In(at, l, NoId)),
           UNCHANGED <<owner, depth, held, idOf, born, edges, recorded>>,
           other => other',
           at = "lock" => MayAcquire(t, l) /\ (l \in Ignored \/ other'),
           at = "unlock" => l \in Ignored
    PROVE  TableInv'
<1> DEFINE q == In(at, l, NoId)
<1>1. /\ TypeInv /\ IdsInv /\ CallInv /\ OwnedIfNoted
      /\ pc \in [Threads -> {Idle} \cup Calls]
  BY DEF TableInv, TypeInv
<1>2. q \in Calls /\ q.at = at /\ q.mu = l /\ q.id = NoId
  BY InFacts
<1> HIDE DEF q
<1>3. /\ pc' \in [Threads -> {Idle} \cup Calls] /\ pc'[t] = q
      /\ \A u \in Threads : u # t => pc'[u] = pc[u]
      /\ \A k, S : At(t, k, S)' <=> at \in S /\ l = k
      /\ \A u \in Threads : \A k, S : u # t => (At(u, k, S)' <=> At(u, k, S))
  BY <1>1, <1>2, Moved DEF q
<1>4. \A k \in Locks : Dying(k)' <=> Dying(k)
  BY <1>1, <1>3, DyingMeans, DyingMeansNext, NowhereWhenIdle
<1>5. IdsInv'
  BY <1>1, IdsFrame
<1>6. CallInv'
  <2>1. RealInv' /\ WatchedInv'
    BY <1>1, <1>2, <1>3 DEF CallInv, RealInv, WatchedInv
  <2>2. UnwatchedInv'
    BY <1>1, <1>2, <1>3 DEF CallInv, UnwatchedInv
  <2>3. WaitInv'
    BY <1>1, <1>3 DEF CallInv, WaitInv, MayAcquire
  <2>4. DyingAlone'
    <3> SUFFICES ASSUME NEW v \in Threads, NEW u \in Threads, NEW k \in Locks,
                        At(v, k, {"delete"})',
                        At(u, k, {"lock", "locked", "try", "wait", "delete"})'
                 PROVE  v = u
      BY DEF DyingAlone
    <3>1. v # t /\ At(v, k, {"delete"}) /\ Dying(k)
      BY <1>1, <1>3, DyingMeans
    <3>2. CASE u = t
      BY <1>3, <3>1, <3>2 DEF MayAcquire
    <3>3. CASE u # t
      BY <1>1, <1>3, <3>1, <3>3 DEF CallInv, DyingAlone
    <3> QED BY <3>2, <3>3
  <2> QED BY <2>1, <2>2, <2>3, <2>4 DEF CallInv
<1>7. OwnedIfNoted'
  <2> SUFFICES ASSUME NEW u \in Threads, NEW k \in Locks, NEW c \in 1 .. MaxDepth, Noted(u, k, c)'
               PROVE  /\ k \notin Ignored /\ ~Dying(k)'
                      /\ \/ owner[k] = u /\ c + Uncounted(u, k)' <= depth[k]
                         \/ At(u, k, {"wait"})' /\ c = 1
    BY DEF OwnedIfNoted
  <2>1. Noted(u, k, c)
    BY DEF Noted
  <2>2. /\ k \notin Ignored /\ ~Dying(k)'
        /\ \/ owner[k] = u /\ c + Uncounted(u, k) <= depth[k]
           \/ At(u, k, {"wait"}) /\ c = 1
    BY <1>1, <1>4, <2>1 DEF OwnedIfNoted
  <2>3. CASE u # t
    BY <1>3, <2>2, <2>3 DEF Uncounted
  <2>4. CASE u = t
    <3>1. ~At(t, k, {"wait"}) /\ ~At(t, k, {"locked", "unlock"})
      BY NowhereWhenIdle
    <3>2. ~At(t, k, {"locked", "unlock"})'
      BY <1>3, <2>2
    <3> QED BY <2>2, <2>4, <3>1, <3>2 DEF Uncounted
  <2> QED BY <2>3, <2>4
<1> QED BY <1>5, <1>6, <1>7 DEF TableInv

(* GetId changes what is known of no other lock, and a new id is in no     *)
(* table yet.                                                              *)
LEMMA GetIdKeeps ==
    ASSUME TypeInv, CurrentIds, EntryIds, NEW l \in Locks, NEW traced \in BOOLEAN, GetId(l, traced)
    PROVE  /\ CurrentIds'
           /\ \A u \in Threads, k \in Locks : \A c :
                 Has(held[u], idOf'[k], c) <=> Noted(u, k, c)
           /\ \A x \in Ids : IsLive(x) => IsLive(x)'
           /\ idOf'[IdFor(l)[1]] = IdFor(l)
           /\ \A k \in Locks : idOf[k] # NoId => idOf'[k] = idOf[k]
<1>1. /\ IdFor(l) \in Ids /\ IdFor(l)[1] = l /\ IdFor(l)[2] = born'[l]
      /\ idOf' = [idOf EXCEPT ![l] = IdFor(l)]
      /\ \A k \in Locks : k # l => born'[k] = born[k]
      /\ idOf[l] = NoId =>
           \A t \in Threads : \A i \in DOMAIN held[t] : held[t][i].id # IdFor(l)
  BY GetIdFacts
<1>2. idOf \in [Locks -> Ids \cup {NoId}] /\ held \in [Threads -> Seq(Entry)]
  BY DEF TypeInv
<1>3. IdFor(l) = <<l, born'[l]>> /\ IdFor(l) # NoId
  BY <1>1, IdFacts
<1>4. \A k \in Locks : idOf'[k] = IF k = l THEN IdFor(l) ELSE idOf[k]
  BY <1>1, <1>2
<1>5. idOf[l] # NoId => IdFor(l) = idOf[l]
  BY DEF IdFor
<1>6. CurrentIds'
  <2>1. \A k \in Locks : idOf'[k] = NoId \/ idOf'[k] = <<k, born'[k]>>
    BY <1>1, <1>3, <1>4 DEF CurrentIds
  <2> QED BY <2>1 DEF CurrentIds
<1>7. ASSUME NEW u \in Threads, NEW k \in Locks, NEW c
      PROVE  Has(held[u], idOf'[k], c) <=> Noted(u, k, c)
  <2>1. CASE k # l \/ idOf[l] # NoId
    BY <1>4, <1>5, <2>1 DEF Noted
  <2>2. CASE k = l /\ idOf[l] = NoId
    <3>1. ~Has(held[u], idOf'[k], c)
      BY <1>1, <1>4, <2>2 DEF Has
    <3>2. \A i \in DOMAIN held[u] : held[u][i].id \in Ids
      BY <1>2, TableFacts
    <3>3. ~Noted(u, k, c)
      BY <2>2, <3>2, IdFacts DEF Noted, Has
    <3> QED BY <3>1, <3>3
  <2> QED BY <2>1, <2>2
<1>8. ASSUME NEW x \in Ids, IsLive(x) PROVE IsLive(x)'
  <2>1. x[1] \in Locks /\ x # NoId /\ idOf[x[1]] = x
    BY <1>8, IdFacts DEF IsLive
  <2> QED BY <1>4, <1>5, <2>1 DEF IsLive
<1>9. idOf'[IdFor(l)[1]] = IdFor(l)
  BY <1>1, <1>4
<1> QED BY <1>4, <1>5, <1>6, <1>7, <1>8, <1>9

(* A watched call begins: before_lock with room in the table, or a try.    *)
LEMMA WatchedCall ==
    ASSUME TableInv, TypeInv', NEW t \in Threads, NEW l \in Locks, NEW at \in {"lock", "try"},
           NEW traced \in BOOLEAN, GetId(l, traced), Goto(t, In(at, l, IdFor(l))),
           UNCHANGED <<owner, depth, held, other>>, MayAcquire(t, l),
           l \notin Ignored, Len(held[t]) < MAX_LOCKS_PER_THREAD,
           EdgesLive', PathNodesAreRecorded'
    PROVE  TableInv'
<1> DEFINE q == In(at, l, IdFor(l))
<1>1. /\ TypeInv /\ IdsInv /\ CallInv /\ OwnedIfNoted /\ pc[t] = Idle
      /\ pc \in [Threads -> {Idle} \cup Calls] /\ CurrentIds /\ EntryIds
  BY DEF TableInv, TypeInv, IdsInv, MayAcquire
<1>2. /\ IdFor(l) \in Ids /\ idOf'[l] = IdFor(l) /\ \A k \in Locks : k # l => idOf'[k] = idOf[k]
      /\ \A k \in Locks : born[k] <= born'[k]
      /\ born' \in [Locks -> 0 .. MaxBorn] /\ born \in [Locks -> 0 .. MaxBorn]
  <2>1. /\ IdFor(l) \in Ids /\ idOf' = [idOf EXCEPT ![l] = IdFor(l)]
        /\ \A k \in Locks : born[k] <= born'[k]
        /\ born' \in [Locks -> 0 .. MaxBorn]
    BY <1>1, GetIdFacts
  <2> QED BY <1>1, <2>1 DEF TypeInv
<1>3. /\ CurrentIds'
      /\ \A u \in Threads, k \in Locks : \A c : Has(held[u], idOf'[k], c) <=> Noted(u, k, c)
      /\ \A k \in Locks : idOf[k] # NoId => idOf'[k] = idOf[k]
  BY <1>1, GetIdKeeps
<1>4. q \in Calls /\ q.at = at /\ q.mu = l /\ q.id = IdFor(l)
  BY <1>2, InFacts
<1> HIDE DEF q
<1>5. /\ pc' \in [Threads -> {Idle} \cup Calls] /\ pc'[t] = q
      /\ \A u \in Threads : u # t => pc'[u] = pc[u]
      /\ \A k, S : At(t, k, S)' <=> at \in S /\ l = k
      /\ \A u \in Threads : \A k, S : u # t => (At(u, k, S)' <=> At(u, k, S))
  BY <1>1, <1>4, Moved DEF q
<1>6. \A k \in Locks : Dying(k)' <=> Dying(k)
  BY <1>1, <1>5, DyingMeans, DyingMeansNext, NowhereWhenIdle
<1>7. IdsInv'
  <2>1. EntryIds'
    <3>1. \A u \in Threads : \A i \in DOMAIN held[u] :
             /\ held[u][i].mu \in Locks /\ held[u][i].id \in Ids
      BY <1>1, TableFacts DEF TypeInv
    <3>2. \A x \in Ids : x[2] \in Nat
      BY IdFacts
    <3>3. \A u \in Threads : \A i \in DOMAIN held[u] :
             /\ held[u][i].id[1] = held[u][i].mu
             /\ held[u][i].id[2] <= born'[held[u][i].mu]
      BY <1>1, <1>2, <3>1, <3>2, MonitorAssumption DEF EntryIds
    <3> QED BY <3>3 DEF EntryIds
  <2>2. EntriesDiffer'
    BY <1>1 DEF IdsInv, EntriesDiffer
  <2> QED BY <1>3, <2>1, <2>2 DEF IdsInv
<1>8. CallInv'
  <2>1. RealInv'
    BY <1>1 DEF CallInv, RealInv
  <2>2. WatchedInv'
    <3> SUFFICES ASSUME NEW u \in Threads, NEW k \in Locks,
                        At(u, k, {"lock", "locked", "try"})', pc'[u].id # NoId
                 PROVE  /\ pc'[u].id = idOf'[k] /\ k \notin Ignored
                        /\ Len(held[u]) < MAX_LOCKS_PER_THREAD
      BY DEF WatchedInv
    <3>1. CASE u = t
      BY <1>2, <1>4, <1>5, <3>1
    <3>2. CASE u # t
      <4>1. /\ pc[u].id = idOf[k] /\ pc[u].id # NoId /\ k \notin Ignored
            /\ Len(held[u]) < MAX_LOCKS_PER_THREAD
        BY <1>1, <1>5, <3>2 DEF CallInv, WatchedInv
      <4> QED BY <1>3, <1>5, <3>2, <4>1
    <3> QED BY <3>1, <3>2
  <2>3. UnwatchedInv'
    <3>1. pc'[t].id # NoId
      BY <1>2, <1>4, <1>5, IdFacts
    <3>2. other' = other
      OBVIOUS
    <3> QED BY <1>1, <1>5, <3>1, <3>2 DEF CallInv, UnwatchedInv
  <2>4. WaitInv'
    BY <1>1, <1>5 DEF CallInv, WaitInv, MayAcquire
  <2>5. DyingAlone'
    <3> SUFFICES ASSUME NEW v \in Threads, NEW u \in Threads, NEW k \in Locks,
                        At(v, k, {"delete"})',
                        At(u, k, {"lock", "locked", "try", "wait", "delete"})'
                 PROVE  v = u
      BY DEF DyingAlone
    <3>1. v # t /\ At(v, k, {"delete"}) /\ Dying(k)
      BY <1>1, <1>5, DyingMeans
    <3>2. CASE u = t
      BY <1>5, <3>1, <3>2 DEF MayAcquire
    <3>3. CASE u # t
      BY <1>1, <1>5, <3>1, <3>3 DEF CallInv, DyingAlone
    <3> QED BY <3>2, <3>3
  <2> QED BY <2>1, <2>2, <2>3, <2>4, <2>5 DEF CallInv
<1>9. OwnedIfNoted'
  <2> SUFFICES ASSUME NEW u \in Threads, NEW k \in Locks, NEW c \in 1 .. MaxDepth, Noted(u, k, c)'
               PROVE  /\ k \notin Ignored /\ ~Dying(k)'
                      /\ \/ owner[k] = u /\ c + Uncounted(u, k)' <= depth[k]
                         \/ At(u, k, {"wait"})' /\ c = 1
    BY DEF OwnedIfNoted
  <2>1. Noted(u, k, c)
    BY <1>3 DEF Noted
  <2>2. /\ k \notin Ignored /\ ~Dying(k)'
        /\ \/ owner[k] = u /\ c + Uncounted(u, k) <= depth[k]
           \/ At(u, k, {"wait"}) /\ c = 1
    BY <1>1, <1>6, <2>1 DEF OwnedIfNoted
  <2>3. CASE u # t
    BY <1>5, <2>2, <2>3 DEF Uncounted
  <2>4. CASE u = t
    <3>1. ~At(t, k, {"wait"}) /\ ~At(t, k, {"locked", "unlock"})
      BY <1>1, NowhereWhenIdle
    <3>2. ~At(t, k, {"locked", "unlock"})'
      BY <1>5
    <3> QED BY <2>2, <2>4, <3>1, <3>2 DEF Uncounted
  <2> QED BY <2>3, <2>4
<1> QED BY <1>7, <1>8, <1>9 DEF TableInv

-----------------------------------------------------------------------------
(* The loop of before_lock over the held locks.                            *)

LEMMA FirstMember ==
    ASSUME NEW T \in SUBSET Nat, T # {}
    PROVE  \E x \in T : \A y \in T : x <= y
<1>1. PICK x \in T : \A y \in T : ~ (<<y, x>> \in OpToRel(<, Nat))
  BY WFMin, NatLessThanWellFounded
<1>2. \A y \in T : ~ (y < x)
  BY <1>1 DEF OpToRel
<1> QED BY <1>2

(* A way through the ids it mentions is a way through all ids.             *)
LEMMA WaysAmongIds ==
    ASSUME NEW E, NEW V, NEW W, V \subseteq W, \A e \in E : e[1] \in V /\ e[2] \in V,
           NEW a \in V, NEW b
    PROVE  Leads(E, V, a, b) <=> Leads(E, W, a, b)
<1>1. ASSUME Leads(E, V, a, b), NEW S \in SUBSET W, a \in S, \A e \in E : e[1] \in S => e[2] \in S
      PROVE  b \in S
  <2>1. S \cap V \in SUBSET V /\ a \in S \cap V
    BY <1>1
  <2>2. \A e \in E : e[1] \in S \cap V => e[2] \in S \cap V
    BY <1>1
  <2> QED BY <1>1, <2>1, <2>2 DEF Leads
<1>2. ASSUME Leads(E, W, a, b), NEW S \in SUBSET V, a \in S, \A e \in E : e[1] \in S => e[2] \in S
      PROVE  b \in S
  BY <1>2 DEF Leads
<1> QED BY <1>1, <1>2 DEF Leads

(* Only live entries are linked, never one that the new lock already leads *)
(* to; a refusal means that there is one; and when nothing is refused, the *)
(* loop has linked them all or ended at the lock itself.                   *)
LEMMA LinkHeldFacts ==
    ASSUME TypeInv, NEW locks \in Seq(Entry), NEW id \in Ids, LinkHeld(locks, id)
    PROVE  /\ potential' \in BOOLEAN /\ (potential => potential')
           /\ potential' /\ ~potential =>
                \E i \in DOMAIN locks : /\ IsLive(locks[i].id) /\ locks[i].id # id
                                        /\ Leads(edges, Ids, id, locks[i].id)
           /\ \E N \in SUBSET DOMAIN locks :
                /\ \A i \in N : IsLive(locks[i].id) /\ ~Leads(edges, Ids, id, locks[i].id)
                /\ edges' = edges \cup {<<locks[i].id, id>> : i \in N}
                /\ potential' \/ N = {i \in DOMAIN locks : IsLive(locks[i].id)}
                              \/ \E i \in DOMAIN locks : IsLive(locks[i].id) /\ locks[i].id = id
<1> DEFINE live  == {i \in DOMAIN locks : IsLive(locks[i].id)}
           ids   == {locks[i].id : i \in live} \cup {id} \cup UNION {{e[1], e[2]} : e \in edges}
           stops == {i \in live : Leads(edges, ids, id, locks[i].id)}
           upTo(i) == \A j \in stops : i < j
           first(i) == \A j \in stops : i <= j
           refused == \E i \in stops : first(i) /\ locks[i].id # id
           N == {i \in live : upTo(i)}
<1>1. /\ edges' = edges \cup {<<locks[i].id, id>> : i \in N}
      /\ potential' = (potential \/ refused)
  BY DEF LinkHeld
<1>2. /\ DOMAIN locks \in SUBSET Nat
      /\ \A i \in DOMAIN locks : locks[i].id \in Ids
  BY TableFacts
<1>3. ids \subseteq Ids /\ id \in ids /\ \A e \in edges : e[1] \in ids /\ e[2] \in ids
  BY <1>2 DEF TypeInv
<1>4. \A i \in DOMAIN locks :
         Leads(edges, ids, id, locks[i].id) <=> Leads(edges, Ids, id, locks[i].id)
  <2> HIDE DEF ids
  <2> QED BY <1>3, WaysAmongIds
<1>5. live \subseteq DOMAIN locks /\ stops \subseteq live /\ N \subseteq live
  OBVIOUS
<1>6. \A i \in live : IsLive(locks[i].id)
  OBVIOUS
<1>7. \A i \in live : i \in stops <=> Leads(edges, Ids, id, locks[i].id)
  BY <1>4, <1>5
<1>8. \A i \in N : i \notin stops
  <2> SUFFICES ASSUME NEW i \in N, i \in stops PROVE FALSE
    OBVIOUS
  <2>1. i \in Nat /\ i < i
    BY <1>2
  <2> QED BY <2>1
<1>9. stops # {} => \E i \in stops : first(i)
  <2>1. stops \in SUBSET Nat
    BY <1>2, <1>5
  <2> QED BY <2>1, FirstMember
<1>10. stops = {} => N = live
  OBVIOUS
<1> HIDE DEF live, ids, stops, N, first
<1>11. ~refused => N = live \/ \E i \in stops : locks[i].id = id
  BY <1>9, <1>10
<1>12. refused => \E i \in live : locks[i].id # id /\ Leads(edges, Ids, id, locks[i].id)
  BY <1>5, <1>7
<1> HIDE DEF refused
<1>13. potential \in BOOLEAN
  BY DEF TypeInv
<1>14. potential' \in BOOLEAN /\ (potential => potential') /\ (potential' /\ ~potential => refused)
       /\ (~potential' => ~refused)
  BY <1>1, <1>13
<1>15. \A i \in N : IsLive(locks[i].id) /\ ~Leads(edges, Ids, id, locks[i].id)
  BY <1>5, <1>6, <1>7, <1>8
<1>16. potential' \/ N = live \/ \E i \in DOMAIN locks : IsLive(locks[i].id) /\ locks[i].id = id
  BY <1>5, <1>6, <1>11, <1>14
<1>17. potential' /\ ~potential =>
          \E i \in DOMAIN locks : /\ IsLive(locks[i].id) /\ locks[i].id # id
                                  /\ Leads(edges, Ids, id, locks[i].id)
  BY <1>5, <1>6, <1>12, <1>14
<1>18. N \in SUBSET DOMAIN locks
  BY <1>5
<1> QED BY <1>1, <1>14, <1>15, <1>16, <1>17, <1>18 DEF live

(* The edges and the refusal of one before_lock, the table empty or not.   *)
LEMMA BeforeLockEdges ==
    ASSUME TypeInv, NEW t \in Threads, NEW l \in Locks, BeforeLock(t, l), IdFor(l) \in Ids
    PROVE  /\ potential' \in BOOLEAN /\ (potential => potential')
           /\ potential' /\ ~potential =>
                \E i \in DOMAIN held[t] : /\ IsLive(held[t][i].id) /\ held[t][i].id # IdFor(l)
                                          /\ Leads(edges, Ids, IdFor(l), held[t][i].id)
           /\ \E N \in SUBSET DOMAIN held[t] :
                /\ \A i \in N : /\ IsLive(held[t][i].id)
                                /\ ~Leads(edges, Ids, IdFor(l), held[t][i].id)
                /\ edges' = edges \cup {<<held[t][i].id, IdFor(l)>> : i \in N}
                /\ \/ potential' \/ N = {i \in DOMAIN held[t] : IsLive(held[t][i].id)}
                   \/ \E i \in DOMAIN held[t] : /\ IsLive(held[t][i].id)
                                                /\ held[t][i].id = IdFor(l)
<1>1. held[t] \in Seq(Entry) /\ potential \in BOOLEAN
  BY DEF TypeInv
<1>2. CASE held[t] = <<>>
  <2>1. edges' = edges /\ potential' = potential
    BY <1>2 DEF BeforeLock
  <2>2. DOMAIN held[t] = {}
    BY <1>2
  <2>3. /\ {} \in SUBSET DOMAIN held[t]
        /\ edges' = edges \cup {<<held[t][i].id, IdFor(l)>> : i \in {}}
        /\ {} = {i \in DOMAIN held[t] : IsLive(held[t][i].id)}
    BY <2>1, <2>2
  <2> QED BY <1>1, <2>1, <2>3
<1>3. CASE held[t] # <<>>
  <2>1. LinkHeld(held[t], IdFor(l))
    BY <1>3 DEF BeforeLock
  <2> QED BY <1>1, <2>1, LinkHeldFacts
<1> QED BY <1>2, <1>3

LEMMA BeforeLockTables ==
    ASSUME TableInv, NEW t \in Threads, NEW l \in Locks, l \notin Ignored, BeforeLock(t, l)
    PROVE  TableInv'
<1>1. /\ TypeInv /\ IdsInv /\ CurrentIds /\ EntryIds
      /\ GetId(l, TRUE) /\ MayAcquire(t, l) /\ pc[t] = Idle
      /\ Goto(t, In("lock", l, IdFor(l))) /\ Len(held[t]) < MAX_LOCKS_PER_THREAD
      /\ UNCHANGED <<owner, depth, held, ignore_lock, ignore_unlock, other>>
  BY DEF TableInv, IdsInv, BeforeLock, MayAcquire, real, ignores
<1>2. /\ IdFor(l) \in Ids /\ idOf' \in [Locks -> Ids \cup {NoId}]
      /\ born' \in [Locks -> 0 .. MaxBorn] /\ spare' \in Nat /\ recorded' \subseteq Ids
      /\ recorded \subseteq recorded' /\ IdFor(l) \in recorded'
  BY <1>1, GetIdFacts
<1>3. /\ \A x \in Ids : IsLive(x) => IsLive(x)'
      /\ idOf'[IdFor(l)[1]] = IdFor(l)
  BY <1>1, GetIdKeeps
<1>4. held[t] \in Seq(Entry) /\ pc \in [Threads -> {Idle} \cup Calls] /\ edges \subseteq Ids \X Ids
  BY <1>1 DEF TypeInv
<1>5. \A i \in DOMAIN held[t] : held[t][i].id \in Ids
  BY <1>4, TableFacts
<1>6. potential' \in BOOLEAN
  BY <1>1, <1>2, BeforeLockEdges
<1>7. PICK N \in SUBSET DOMAIN held[t] :
         /\ \A i \in N : IsLive(held[t][i].id)
         /\ edges' = edges \cup {<<held[t][i].id, IdFor(l)>> : i \in N}
  BY <1>1, <1>2, BeforeLockEdges
<1>8. edges' \subseteq Ids \X Ids
  BY <1>2, <1>4, <1>5, <1>7
<1>9. EdgesLive'
  <2> SUFFICES ASSUME NEW e \in edges' PROVE IsLive(e[1])' /\ IsLive(e[2])'
    BY DEF EdgesLive
  <2>1. CASE e \in edges
    BY <1>1, <1>3, <1>4, <2>1 DEF IdsInv, EdgesLive
  <2>2. CASE e \notin edges
    <3>1. PICK i \in N : e = <<held[t][i].id, IdFor(l)>>
      BY <1>7, <2>2
    <3>2. IsLive(e[1]) /\ e[1] \in Ids
      BY <1>5, <1>7, <3>1
    <3>3. e[2] = IdFor(l)
      BY <3>1
    <3>4. IsLive(e[2])'
      BY <1>3, <3>3 DEF IsLive
    <3> QED BY <1>3, <3>2, <3>4
  <2> QED BY <2>1, <2>2
<1>10. PathNodesAreRecorded'
  BY <1>1, <1>2, <1>7 DEF IdsInv, PathNodesAreRecorded
<1>11. order' \subseteq Locks \X Locks /\ inverted' \in BOOLEAN
  <2>1. Inverts(t, l)
    BY DEF BeforeLock
  <2> QED BY <1>1, <2>1, InvertsTypes
<1>12. start' \in [Threads -> {"zero", "running", "waiting"}]
  <2>1. start' = start \/ start' = [start EXCEPT ![t] = "running"]
    BY DEF BeforeLock
  <2> QED BY <1>1, <2>1 DEF TypeInv
<1>13. pc' \in [Threads -> {Idle} \cup Calls]
  <2>1. In("lock", l, IdFor(l)) \in Calls
    BY <1>2, InFacts
  <2> QED BY <1>1, <1>4, <2>1, Moved
<1>14. TypeInv'
  BY <1>1, <1>2, <1>6, <1>8, <1>11, <1>12, <1>13 DEF TypeInv
<1> QED BY <1>1, <1>9, <1>10, <1>14, WatchedCall

LEMMA BeforeLockFullTables ==
    ASSUME TableInv, NEW t \in Threads, NEW l \in Locks, BeforeLockFull(t, l)
    PROVE  TableInv'
<1>1. /\ TypeInv /\ MayAcquire(t, l) /\ pc[t] = Idle /\ Goto(t, In("lock", l, NoId)) /\ other'
      /\ UNCHANGED <<owner, depth, held, start, ignore_lock, ignore_unlock,
                     idOf, born, recorded, spare, edges, potential>>
  BY DEF TableInv, BeforeLockFull, MayAcquire, real, ignores, nodes
<1>2. order' \subseteq Locks \X Locks /\ inverted' \in BOOLEAN
  <2>1. Inverts(t, l)
    BY DEF BeforeLockFull
  <2> QED BY <1>1, <2>1, InvertsTypes
<1>3. pc' \in [Threads -> {Idle} \cup Calls]
  <2>1. In("lock", l, NoId) \in Calls
    BY InFacts
  <2> QED BY <1>1, <2>1, Moved DEF TypeInv
<1>4. other' \in BOOLEAN
  BY DEF BeforeLockFull
<1>5. TypeInv'
  BY <1>1, <1>2, <1>3, <1>4 DEF TypeInv
<1> QED BY <1>1, <1>5, UnwatchedCall

LEMMA BeforeLockIgnoredTables ==
    ASSUME TableInv, NEW t \in Threads, NEW l \in Ignored, BeforeLockIgnored(t, l)
    PROVE  TableInv'
<1>0. l \in Locks
  BY MonitorAssumption
<1>1. /\ TypeInv /\ MayAcquire(t, l) /\ pc[t] = Idle /\ Goto(t, In("lock", l, NoId))
      /\ UNCHANGED <<owner, depth, held, start, ignore_unlock, idOf, born, recorded, spare,
                     edges, potential, other, order, inverted>>
  BY DEF TableInv, BeforeLockIgnored, MayAcquire, real, nodes, results, history
<1>2. ignore_lock' \in [Threads -> 0 .. MaxIgnore]
  <2>1. /\ ignore_lock' = [ignore_lock EXCEPT ![t] = ignore_lock[t] - 1]
        /\ ignore_lock[t] > 0 /\ ignore_lock[t] \in 0 .. MaxIgnore
    BY <1>1 DEF BeforeLockIgnored, TypeInv
  <2>2. ignore_lock[t] - 1 \in 0 .. MaxIgnore
    BY <2>1, MonitorAssumption
  <2> QED BY <1>1, <2>1, <2>2 DEF TypeInv
<1>3. pc' \in [Threads -> {Idle} \cup Calls]
  <2>1. In("lock", l, NoId) \in Calls
    BY <1>0, InFacts
  <2> QED BY <1>1, <2>1, Moved DEF TypeInv
<1>4. TypeInv'
  BY <1>1, <1>2, <1>3 DEF TypeInv
<1> QED BY <1>0, <1>1, <1>4, UnwatchedCall

LEMMA AfterLockIgnoredTables ==
    ASSUME TableInv, NEW t \in Threads, NEW l \in Ignored, AfterLockIgnored(t, l)
    PROVE  TableInv'
<1>0. l \in Locks
  BY MonitorAssumption
<1>1. /\ TypeInv /\ pc[t] = Idle /\ Goto(t, In("unlock", l, NoId))
      /\ UNCHANGED <<owner, depth, held, start, ignore_lock, idOf, born, recorded, spare,
                     edges, potential, other, order, inverted>>
  BY DEF TableInv, AfterLockIgnored, MayRelease, real, nodes, results, history
<1>2. ignore_unlock' \in [Threads -> 0 .. MaxIgnore]
  <2>1. /\ ignore_unlock' = [ignore_unlock EXCEPT ![t] = ignore_unlock[t] - 1]
        /\ ignore_unlock[t] > 0 /\ ignore_unlock[t] \in 0 .. MaxIgnore
    BY <1>1 DEF AfterLockIgnored, TypeInv
  <2>2. ignore_unlock[t] - 1 \in 0 .. MaxIgnore
    BY <2>1, MonitorAssumption
  <2> QED BY <1>1, <2>1, <2>2 DEF TypeInv
<1>3. pc' \in [Threads -> {Idle} \cup Calls]
  <2>1. In("unlock", l, NoId) \in Calls
    BY <1>0, InFacts
  <2> QED BY <1>1, <2>1, Moved DEF TypeInv
<1>4. TypeInv'
  BY <1>1, <1>2, <1>3 DEF TypeInv
<1> QED BY <1>0, <1>1, <1>4, UnwatchedCall

LEMMA BeforeTryLockTables ==
    ASSUME TableInv, NEW t \in Threads, NEW l \in Locks \ Ignored,
           Len(held[t]) < MAX_LOCKS_PER_THREAD, BeforeTryLock(t, l)
    PROVE  TableInv'
<1>1. /\ TypeInv /\ IdsInv /\ CurrentIds /\ EntryIds
      /\ GetId(l, FALSE) /\ MayAcquire(t, l) /\ pc[t] = Idle
      /\ Goto(t, In("try", l, IdFor(l)))
      /\ UNCHANGED <<owner, depth, held, ignore_unlock, edges, potential, other, order, inverted>>
  BY DEF TableInv, IdsInv, BeforeTryLock, MayAcquire, real, results, history
<1>2. /\ IdFor(l) \in Ids /\ idOf' \in [Locks -> Ids \cup {NoId}]
      /\ born' \in [Locks -> 0 .. MaxBorn] /\ spare' \in Nat /\ recorded' \subseteq Ids
      /\ recorded \subseteq recorded'
  BY <1>1, GetIdFacts
<1>3. \A x \in Ids : IsLive(x) => IsLive(x)'
  BY <1>1, GetIdKeeps
<1>4. EdgesLive'
  <2> SUFFICES ASSUME NEW e \in edges PROVE IsLive(e[1])' /\ IsLive(e[2])'
    BY <1>1 DEF EdgesLive
  <2>1. e[1] \in Ids /\ e[2] \in Ids /\ IsLive(e[1]) /\ IsLive(e[2])
    BY <1>1 DEF TypeInv, IdsInv, EdgesLive
  <2> QED BY <1>3, <2>1
<1>5. PathNodesAreRecorded'
  BY <1>1, <1>2 DEF IdsInv, PathNodesAreRecorded
<1>6. start' \in [Threads -> {"zero", "running", "waiting"}]
  <2>1. start' = start \/ start' = [start EXCEPT ![t] = "running"]
    BY DEF BeforeTryLock
  <2> QED BY <1>1, <2>1 DEF TypeInv
<1>7. ignore_lock' \in [Threads -> 0 .. MaxIgnore]
  <2>1. /\ ignore_lock' = [ignore_lock EXCEPT ![t] = IF ignore_lock[t] > 0 THEN ignore_lock[t] - 1
                                                                         ELSE 0]
        /\ ignore_lock[t] \in 0 .. MaxIgnore
    BY <1>1 DEF BeforeTryLock, TypeInv
  <2>2. (IF ignore_lock[t] > 0 THEN ignore_lock[t] - 1 ELSE 0) \in 0 .. MaxIgnore
    BY <2>1, MonitorAssumption
  <2> QED BY <1>1, <2>1, <2>2 DEF TypeInv
<1>8. pc' \in [Threads -> {Idle} \cup Calls]
  <2>1. In("try", l, IdFor(l)) \in Calls
    BY <1>2, InFacts
  <2> QED BY <1>1, <2>1, Moved DEF TypeInv
<1>9. TypeInv'
  BY <1>1, <1>2, <1>6, <1>7, <1>8 DEF TypeInv
<1> QED BY <1>1, <1>4, <1>5, <1>9, WatchedCall

(* The real lock is granted: EnterCriticalSection, or a try that succeeds. *)
LEMMA GrantedTables ==
    ASSUME TableInv, NEW t \in Threads, NEW l \in Locks, At(t, l, {"lock", "try"}),
           owner[l] \in {NoThread, t}, owner' = [owner EXCEPT ![l] = t],
           depth' = [depth EXCEPT ![l] = @ + 1],
           Goto(t, IF pc[t].id = NoId THEN Idle ELSE [pc[t] EXCEPT !.at = "locked"]),
           UNCHANGED <<held, start, ignores, nodes, edges, results, history>>
    PROVE  TableInv'
<1> DEFINE q == IF pc[t].id = NoId THEN Idle ELSE [pc[t] EXCEPT !.at = "locked"]
<1>1. /\ TypeInv /\ IdsInv /\ CallInv /\ OwnedIfNoted /\ pc \in [Threads -> {Idle} \cup Calls]
      /\ pc[t].mu = l /\ pc[t].at \in {"lock", "try"} /\ pc[t].at # "idle"
      /\ UNCHANGED <<held, start, ignore_lock, ignore_unlock, idOf, born, recorded, spare, edges,
                     potential, other, order, inverted>>
  BY DEF TableInv, TypeInv, At, ignores, nodes, results, history
<1>2. /\ q \in {Idle} \cup Calls
      /\ pc[t].id = NoId => q = Idle
      /\ pc[t].id # NoId => q = In("locked", l, pc[t].id) /\ pc[t].id \in Ids \cup {NoId}
  BY <1>1, PlaceFacts, InFacts
<1>g. Goto(t, q)
  OBVIOUS
<1> HIDE DEF q
<1>3. \A k, S : /\ "idle" \notin S /\ q.at \in S /\ q.mu = k
                => /\ "locked" \in S /\ k = l /\ q.at = "locked" /\ q.id = pc[t].id /\ q.id # NoId
  <2>1. CASE pc[t].id = NoId
    BY <1>2, <2>1 DEF Idle
  <2>2. CASE pc[t].id # NoId
    <3>1. q.at = "locked" /\ q.mu = l /\ q.id = pc[t].id
      BY <1>2, <2>2, InFacts
    <3> QED BY <2>2, <3>1
  <2> QED BY <2>1, <2>2
<1>4. /\ pc' \in [Threads -> {Idle} \cup Calls] /\ pc'[t] = q
      /\ \A u \in Threads : u # t => pc'[u] = pc[u]
      /\ \A k, S : At(t, k, S)' <=> q.at \in S /\ q.mu = k
      /\ \A u \in Threads : \A k, S : u # t => (At(u, k, S)' <=> At(u, k, S))
  BY <1>1, <1>2, <1>g, Moved
<1>5. \A k, S : "idle" \notin S /\ At(t, k, S)' =>
        "locked" \in S /\ k = l /\ pc'[t].id = pc[t].id /\ pc'[t].id # NoId /\ pc'[t].at = "locked"
  BY <1>3, <1>4
<1>6. \A k, S : At(t, k, S) <=> k = l /\ pc[t].at \in S
  BY <1>1 DEF At
<1>7. \A k \in Locks : Dying(k)' <=> Dying(k)
  <2>1. \A k : ~At(t, k, {"delete"})' /\ ~At(t, k, {"delete"})
    BY <1>1, <1>5, <1>6
  <2> QED BY <1>1, <1>4, <2>1, DyingMeans, DyingMeansNext
<1>8. /\ depth[l] \in 0 .. MaxDepth /\ MaxDepth \in Nat /\ depth[l] + 1 \in 1 .. MaxDepth
      /\ NoThread \notin Threads
  <2>1. depth[l] \in 0 .. MaxDepth /\ MaxDepth \in Nat /\ MaxDepth > 0 /\ NoThread \notin Threads
    BY <1>1, MonitorAssumption DEF TypeInv
  <2>2. CASE owner[l] = t
    BY <1>1, <1>6, <2>1, <2>2 DEF CallInv, WaitInv
  <2>3. CASE owner[l] = NoThread
    BY <1>1, <2>1, <2>3 DEF CallInv, RealInv
  <2> QED BY <2>1, <2>2, <2>3
<1>9. /\ owner' \in [Locks -> Threads \cup {NoThread}] /\ depth' \in [Locks -> 0 .. MaxDepth]
      /\ owner'[l] = t /\ depth'[l] = depth[l] + 1
      /\ \A k \in Locks : k # l => owner'[k] = owner[k] /\ depth'[k] = depth[k]
  BY <1>1, <1>8 DEF TypeInv
<1>10. TypeInv'
  BY <1>1, <1>4, <1>9 DEF TypeInv
<1>11. IdsInv'
  BY <1>1, IdsFrame
<1>12. CallInv'
  <2>1. RealInv'
    BY <1>1, <1>8, <1>9 DEF CallInv, RealInv
  <2>2. WatchedInv'
    <3> SUFFICES ASSUME NEW u \in Threads, NEW k \in Locks,
                        At(u, k, {"lock", "locked", "try"})', pc'[u].id # NoId
                 PROVE  /\ pc'[u].id = idOf[k] /\ k \notin Ignored
                        /\ Len(held[u]) < MAX_LOCKS_PER_THREAD
      BY <1>1 DEF WatchedInv
    <3>1. At(u, k, {"lock", "locked", "try"}) /\ pc'[u].id = pc[u].id
      BY <1>1, <1>4, <1>5, <1>6
    <3> QED BY <1>1, <3>1 DEF CallInv, WatchedInv
  <2>3. UnwatchedInv'
    <3> SUFFICES ASSUME NEW u \in Threads, NEW k \in Locks,
                        At(u, k, {"lock", "locked", "try"})', pc'[u].id = NoId
                 PROVE  pc'[u].at = "lock" /\ (k \in Ignored \/ other)
      BY <1>1 DEF UnwatchedInv
    <3>1. u # t
      BY <1>5
    <3> QED BY <1>1, <1>4, <3>1 DEF CallInv, UnwatchedInv
  <2>4. WaitInv'
    <3> SUFFICES ASSUME NEW u \in Threads, NEW k \in Locks
                 PROVE  /\ At(u, k, {"locked"})' => owner'[k] = u
                        /\ At(u, k, {"lock", "try"})' /\ owner'[k] = u => depth'[k] < MaxDepth
                        /\ At(u, k, {"wait"})' => owner'[k] # u
      BY DEF WaitInv
    <3>1. CASE u = t
      BY <1>5, <1>9, <3>1
    <3>2. CASE u # t
      <4>1. /\ At(u, k, {"locked"}) => owner[k] = u
            /\ At(u, k, {"lock", "try"}) /\ owner[k] = u => depth[k] < MaxDepth
            /\ At(u, k, {"wait"}) => owner[k] # u
        BY <1>1 DEF CallInv, WaitInv
      <4> QED BY <1>4, <1>8, <1>9, <3>2, <4>1
    <3> QED BY <3>1, <3>2
  <2>5. DyingAlone'
    <3> SUFFICES ASSUME NEW v \in Threads, NEW u \in Threads, NEW k \in Locks,
                        At(v, k, {"delete"})',
                        At(u, k, {"lock", "locked", "try", "wait", "delete"})'
                 PROVE  v = u
      BY DEF DyingAlone
    <3>1. At(v, k, {"delete"})
      BY <1>4, <1>5
    <3>2. At(u, k, {"lock", "locked", "try", "wait", "delete"})
      BY <1>1, <1>4, <1>5, <1>6
    <3> QED BY <1>1, <3>1, <3>2 DEF CallInv, DyingAlone
  <2> QED BY <2>1, <2>2, <2>3, <2>4, <2>5 DEF CallInv
<1>13. OwnedIfNoted'
  <2> SUFFICES ASSUME NEW u \in Threads, NEW k \in Locks, NEW c \in 1 .. MaxDepth, Noted(u, k, c)'
               PROVE  /\ k \notin Ignored /\ ~Dying(k)'
                      /\ \/ owner'[k] = u /\ c + Uncounted(u, k)' <= depth'[k]
                         \/ At(u, k, {"wait"})' /\ c = 1
    BY DEF OwnedIfNoted
  <2>1. Noted(u, k, c)
    BY <1>1 DEF Noted
  <2>2. /\ k \notin Ignored /\ ~Dying(k)'
        /\ \/ owner[k] = u /\ c + Uncounted(u, k) <= depth[k]
           \/ At(u, k, {"wait"}) /\ c = 1
    BY <1>1, <1>7, <2>1 DEF OwnedIfNoted
  <2>3. CASE u # t
    <3>1. Uncounted(u, k)' = Uncounted(u, k)
      BY <1>4, <2>3 DEF Uncounted
    <3>2. owner[k] = u => k # l
      BY <1>8, <2>3
    <3> QED BY <1>4, <1>9, <2>2, <2>3, <3>1, <3>2
  <2>4. CASE u = t
    <3>1. ~At(t, k, {"wait"}) /\ ~At(t, k, {"locked", "unlock"})
      BY <1>1, <1>6
    <3>2. owner[k] = t /\ c <= depth[k]
      BY <2>2, <2>4, <3>1 DEF Uncounted
    <3>3. CASE k = l
      BY <1>8, <1>9, <2>2, <2>4, <3>2, <3>3 DEF Uncounted
    <3>4. CASE k # l
      <4>1. Uncounted(t, k)' = 0
        BY <1>5, <3>4 DEF Uncounted
      <4> QED BY <1>9, <2>2, <2>4, <3>2, <3>4, <4>1
    <3> QED BY <3>3, <3>4
  <2> QED BY <2>3, <2>4
<1> QED BY <1>10, <1>11, <1>12, <1>13 DEF TableInv

(* The real lock l changes hands in some other way: t lets go of it, wakes *)
(* up with it, or destroys it.                                             *)
LEMMA RealStep ==
    ASSUME TableInv, NEW t \in Threads, NEW l \in Locks,
           pc'[t] \in {Idle} \cup Calls, Goto(t, pc'[t]), pc[t] = Idle \/ pc[t].mu = l,
           owner'[l] \in {t, NoThread}, depth'[l] \in 0 .. MaxDepth,
           owner'[l] = NoThread <=> depth'[l] = 0,
           owner' = [owner EXCEPT ![l] = owner'[l]], depth' = [depth EXCEPT ![l] = depth'[l]],
           pc'[t] # Idle => At(t, l, {"wait"})' /\ ~Dying(l) /\ owner'[l] = NoThread,
           \A u \in Threads \ {t} : ~At(u, l, {"locked"}),
           \A c \in 1 .. MaxDepth : Noted(t, l, c)
               => IF pc'[t] = Idle THEN owner'[l] = t /\ c <= depth'[l] ELSE c = 1,
           \A u \in Threads \ {t}, c \in 1 .. MaxDepth :
               Noted(u, l, c) => At(u, l, {"wait"}) /\ c = 1,
           start' \in [Threads -> {"zero", "running", "waiting"}],
           UNCHANGED <<held, ignores, nodes, edges, results, history>>
    PROVE  TableInv'
<1> DEFINE q == pc'[t]
           x == owner'[l]
           d == depth'[l]
<1>0. /\ q \in {Idle} \cup Calls /\ Goto(t, q)
      /\ x \in {t, NoThread} /\ d \in 0 .. MaxDepth /\ (x = NoThread <=> d = 0)
      /\ owner' = [owner EXCEPT ![l] = x] /\ depth' = [depth EXCEPT ![l] = d]
      /\ q # Idle => q.at = "wait" /\ q.mu = l /\ ~Dying(l) /\ x = NoThread
      /\ \A c \in 1 .. MaxDepth : q = Idle /\ Noted(t, l, c) => x = t /\ c <= d
      /\ \A c \in 1 .. MaxDepth : q # Idle /\ Noted(t, l, c) => c = 1
  BY DEF At
<1> HIDE DEF q, x, d
<1>1. /\ TypeInv /\ IdsInv /\ CallInv /\ OwnedIfNoted /\ pc \in [Threads -> {Idle} \cup Calls]
      /\ UNCHANGED <<held, ignore_lock, ignore_unlock, idOf, born, recorded, spare, edges,
                     potential, other, order, inverted>>
      /\ NoThread \notin Threads
  BY MonitorAssumption DEF TableInv, TypeInv, ignores, nodes, results, history
<1>2. /\ pc' \in [Threads -> {Idle} \cup Calls] /\ pc'[t] = q
      /\ \A u \in Threads : u # t => pc'[u] = pc[u]
      /\ \A k, S : At(t, k, S)' <=> q.at \in S /\ q.mu = k
      /\ \A u \in Threads : \A k, S : u # t => (At(u, k, S)' <=> At(u, k, S))
  BY <1>0, <1>1, Moved
<1>3. \A k, S : "idle" \notin S /\ At(t, k, S)' => "wait" \in S /\ k = l /\ q # Idle
  <2>1. CASE q = Idle
    BY <1>2, <2>1 DEF Idle
  <2>2. CASE q # Idle
    BY <1>2, <2>2
  <2> QED BY <2>1, <2>2
<1>4. \A k, S : "idle" \notin S /\ At(t, k, S) => k = l
  BY NowhereWhenIdle DEF At
<1>5. \A k \in Locks : Dying(k)' => Dying(k) /\ \E u \in Threads \ {t} : At(u, k, {"delete"})
  BY <1>1, <1>2, <1>3, DyingMeans, DyingMeansNext
<1>6. /\ owner' \in [Locks -> Threads \cup {NoThread}] /\ depth' \in [Locks -> 0 .. MaxDepth]
      /\ owner'[l] = x /\ depth'[l] = d
      /\ \A k \in Locks : k # l => owner'[k] = owner[k] /\ depth'[k] = depth[k]
  BY <1>0, <1>1 DEF TypeInv
<1>7. TypeInv'
  BY <1>1, <1>2, <1>6 DEF TypeInv
<1>8. IdsInv'
  BY <1>1, IdsFrame
<1>9. CallInv'
  <2>1. RealInv'
    BY <1>1, <1>6 DEF CallInv, RealInv
  <2>2. WatchedInv'
    <3> SUFFICES ASSUME NEW u \in Threads, NEW k \in Locks,
                        At(u, k, {"lock", "locked", "try"})', pc'[u].id # NoId
                 PROVE  /\ pc'[u].id = idOf[k] /\ k \notin Ignored
                        /\ Len(held[u]) < MAX_LOCKS_PER_THREAD
      BY <1>1 DEF WatchedInv
    <3>1. u # t
      BY <1>3
    <3> QED BY <1>1, <1>2, <3>1 DEF CallInv, WatchedInv
  <2>3. UnwatchedInv'
    <3> SUFFICES ASSUME NEW u \in Threads, NEW k \in Locks,
                        At(u, k, {"lock", "locked", "try"})', pc'[u].id = NoId
                 PROVE  pc'[u].at = "lock" /\ (k \in Ignored \/ other)
      BY <1>1 DEF UnwatchedInv
    <3>1. u # t
      BY <1>3
    <3> QED BY <1>1, <1>2, <3>1 DEF CallInv, UnwatchedInv
  <2>4. WaitInv'
    <3> SUFFICES ASSUME NEW u \in Threads, NEW k \in Locks
                 PROVE  /\ At(u, k, {"locked"})' => owner'[k] = u
                        /\ At(u, k, {"lock", "try"})' /\ owner'[k] = u => depth'[k] < MaxDepth
                        /\ At(u, k, {"wait"})' => owner'[k] # u
      BY DEF WaitInv
    <3>1. CASE u = t
      BY <1>0, <1>1, <1>3, <1>6, <3>1
    <3>2. CASE u # t
      <4>1. /\ At(u, k, {"locked"}) => owner[k] = u
            /\ At(u, k, {"lock", "try"}) /\ owner[k] = u => depth[k] < MaxDepth
            /\ At(u, k, {"wait"}) => owner[k] # u
        BY <1>1 DEF CallInv, WaitInv
      <4>2. CASE k = l
        BY <1>1, <1>2, <1>6, <3>2, <4>2
      <4>3. CASE k # l
        BY <1>2, <1>6, <3>2, <4>1, <4>3
      <4> QED BY <4>2, <4>3
    <3> QED BY <3>1, <3>2
  <2>5. DyingAlone'
    <3> SUFFICES ASSUME NEW v \in Threads, NEW u \in Threads, NEW k \in Locks,
                        At(v, k, {"delete"})',
                        At(u, k, {"lock", "locked", "try", "wait", "delete"})'
                 PROVE  v = u
      BY DEF DyingAlone
    <3>1. v # t /\ At(v, k, {"delete"}) /\ Dying(k)
      BY <1>1, <1>2, <1>3, DyingMeans
    <3>2. u # t
      BY <1>0, <1>3, <3>1
    <3> QED BY <1>1, <1>2, <3>1, <3>2 DEF CallInv, DyingAlone
  <2> QED BY <2>1, <2>2, <2>3, <2>4, <2>5 DEF CallInv
<1>10. OwnedIfNoted'
  <2> SUFFICES ASSUME NEW u \in Threads, NEW k \in Locks, NEW c \in 1 .. MaxDepth, Noted(u, k, c)'
               PROVE  /\ k \notin Ignored /\ ~Dying(k)'
                      /\ \/ owner'[k] = u /\ c + Uncounted(u, k)' <= depth'[k]
                         \/ At(u, k, {"wait"})' /\ c = 1
    BY DEF OwnedIfNoted
  <2>1. Noted(u, k, c)
    BY <1>1 DEF Noted
  <2>2. /\ k \notin Ignored /\ ~Dying(k)'
        /\ \/ owner[k] = u /\ c + Uncounted(u, k) <= depth[k]
           \/ At(u, k, {"wait"}) /\ c = 1
    BY <1>1, <1>5, <2>1 DEF OwnedIfNoted
  <2>3. CASE u # t
    <3>1. Uncounted(u, k)' = Uncounted(u, k)
      BY <1>2, <2>3 DEF Uncounted
    <3>2. CASE k = l
      BY <1>2, <2>1, <2>2, <2>3, <3>2
    <3>3. CASE k # l
      BY <1>2, <1>6, <2>2, <2>3, <3>1, <3>3
    <3> QED BY <3>2, <3>3
  <2>4. CASE u = t
    <3>1. Uncounted(t, k)' = 0
      BY <1>3 DEF Uncounted
    <3>2. CASE k = l
      <4>1. CASE q = Idle
        <5>1. x = t /\ c <= d
          BY <1>0, <2>1, <2>4, <3>2, <4>1
        <5> QED BY <1>6, <2>2, <2>4, <3>1, <3>2, <5>1
      <4>2. CASE q # Idle
        <5>1. c = 1 /\ At(t, l, {"wait"})'
          BY <1>2, <2>1, <2>4, <3>2, <4>2
        <5> QED BY <2>2, <2>4, <3>2, <5>1
      <4> QED BY <4>1, <4>2
    <3>3. CASE k # l
      <4>1. ~At(t, k, {"wait"}) /\ ~At(t, k, {"locked", "unlock"})
        BY <1>4, <3>3
      <4>2. owner[k] = t /\ c + 0 <= depth[k]
        BY <2>2, <2>4, <4>1 DEF Uncounted
      <4> QED BY <1>6, <2>2, <2>4, <3>1, <3>3, <4>2
    <3> QED BY <3>2, <3>3
  <2> QED BY <2>3, <2>4
<1> QED BY <1>7, <1>8, <1>9, <1>10 DEF TableInv

(* A call that had no effect on the real lock ends.                        *)
LEMMA CallEnds ==
    ASSUME TableInv, NEW t \in Threads, Goto(t, Idle),
           pc[t].at \in {"try", "unlock"},
           UNCHANGED <<real, held, start, ignores, nodes, edges, results, history>>
    PROVE  TableInv'
<1>1. /\ TypeInv /\ IdsInv /\ CallInv /\ OwnedIfNoted /\ pc \in [Threads -> {Idle} \cup Calls]
      /\ UNCHANGED <<owner, depth, held, start, ignore_lock, ignore_unlock, idOf, born, recorded,
                     spare, edges, potential, other, order, inverted>>
  BY DEF TableInv, TypeInv, real, ignores, nodes, results, history
<1>2. /\ pc' \in [Threads -> {Idle} \cup Calls] /\ pc'[t] = Idle
      /\ \A u \in Threads : u # t => pc'[u] = pc[u]
      /\ \A k, S : "idle" \notin S => ~At(t, k, S)'
      /\ \A u \in Threads : \A k, S : u # t => (At(u, k, S)' <=> At(u, k, S))
  <2>1. Idle.at = "idle"
    BY DEF Idle
  <2> QED BY <1>1, <2>1, Moved
<1>3. \A u \in Threads : \A k, S : "idle" \notin S /\ At(u, k, S)' => At(u, k, S) /\ pc'[u] = pc[u]
  BY <1>2
<1>4. \A k \in Locks : Dying(k)' => Dying(k)
  BY <1>1, <1>2, <1>3, DyingMeans, DyingMeansNext
<1>5. TypeInv'
  BY <1>1, <1>2 DEF TypeInv
<1>6. IdsInv'
  BY <1>1, IdsFrame
<1>7. CallInv'
  <2>1. RealInv'
    BY <1>1 DEF CallInv, RealInv
  <2>2. WatchedInv'
    BY <1>1, <1>3 DEF CallInv, WatchedInv
  <2>3. UnwatchedInv'
    BY <1>1, <1>3 DEF CallInv, UnwatchedInv
  <2>4. WaitInv'
    BY <1>1, <1>3 DEF CallInv, WaitInv
  <2>5. DyingAlone'
    BY <1>1, <1>3 DEF CallInv, DyingAlone
  <2> QED BY <2>1, <2>2, <2>3, <2>4, <2>5 DEF CallInv
<1>8. OwnedIfNoted'
  <2> SUFFICES ASSUME NEW u \in Threads, NEW k \in Locks, NEW c \in 1 .. MaxDepth, Noted(u, k, c)'
               PROVE  /\ k \notin Ignored /\ ~Dying(k)'
                      /\ \/ owner[k] = u /\ c + Uncounted(u, k)' <= depth[k]
                         \/ At(u, k, {"wait"})' /\ c = 1
    BY <1>1 DEF OwnedIfNoted
  <2>1. Noted(u, k, c)
    BY <1>1 DEF Noted
  <2>2. /\ k \notin Ignored /\ ~Dying(k)'
        /\ \/ owner[k] = u /\ c + Uncounted(u, k) <= depth[k]
           \/ At(u, k, {"wait"}) /\ c = 1
    BY <1>1, <1>4, <2>1 DEF OwnedIfNoted
  <2>3. CASE u # t
    BY <1>2, <2>2, <2>3 DEF Uncounted
  <2>4. CASE u = t
    <3>1. ~At(t, k, {"wait"})
      BY DEF At
    <3>2. Uncounted(t, k)' = 0 /\ Uncounted(t, k) \in {0, 1}
      BY <1>2 DEF Uncounted
    <3>3. depth[k] \in Nat
      BY <1>1 DEF TypeInv
    <3> QED BY <2>2, <2>4, <3>1, <3>2, <3>3
  <2> QED BY <2>3, <2>4
<1> QED BY <1>5, <1>6, <1>7, <1>8 DEF TableInv

(* Where a thread is, it is with a lock.                                   *)
LEMMA AtSome ==
    ASSUME TypeInv, NEW t \in Threads, NEW S, pc[t].at \in S, "idle" \notin S
    PROVE  /\ pc[t].mu \in Locks /\ At(t, pc[t].mu, S) /\ pc[t] \in Calls /\ pc[t] # Idle
           /\ pc[t].id \in Ids \cup {NoId}
<1>1. pc[t] \in {Idle} \cup Calls
  BY DEF TypeInv
<1> QED BY <1>1, PlaceFacts DEF At

LEMMA RealLockTables ==
    ASSUME TableInv, NEW t \in Threads, RealLock(t)
    PROVE  TableInv'
<1> DEFINE l == pc[t].mu
<1>1. l \in Locks /\ At(t, l, {"lock", "try"})
  <2>1. pc[t].at \in {"lock", "try"}
    BY DEF RealLock
  <2> QED BY <2>1, AtSome DEF TableInv
<1>2. /\ owner[l] \in {NoThread, t} /\ owner' = [owner EXCEPT ![l] = t]
      /\ depth' = [depth EXCEPT ![l] = @ + 1]
      /\ Goto(t, IF pc[t].id = NoId THEN Idle ELSE [pc[t] EXCEPT !.at = "locked"])
      /\ UNCHANGED <<held, start, ignores, nodes, edges, results, history>>
  BY DEF RealLock
<1> HIDE DEF l
<1> QED BY <1>1, <1>2, GrantedTables

LEMMA RealTryLockTables ==
    ASSUME TableInv, NEW t \in Threads, RealTryLock(t)
    PROVE  TableInv'
<1> DEFINE l == pc[t].mu
<1>1. TypeInv /\ CallInv /\ pc[t].at = "try"
  BY DEF TableInv, RealTryLock
<1>2. l \in Locks /\ At(t, l, {"try"}) /\ At(t, l, {"lock", "try"})
      /\ At(t, l, {"lock", "locked", "try"})
  BY <1>1, AtSome DEF At
<1>3. pc[t].id # NoId
  BY <1>1, <1>2 DEF CallInv, UnwatchedInv
<1>4. UNCHANGED <<held, start, ignores, nodes, edges, results, history>>
  BY DEF RealTryLock
<1>5. CASE owner[l] \in {NoThread, t}
  <2>1. /\ owner' = [owner EXCEPT ![l] = t] /\ depth' = [depth EXCEPT ![l] = @ + 1]
        /\ Goto(t, [pc[t] EXCEPT !.at = "locked"])
    BY <1>5 DEF RealTryLock
  <2>2. Goto(t, IF pc[t].id = NoId THEN Idle ELSE [pc[t] EXCEPT !.at = "locked"])
    BY <1>3, <2>1
  <2> HIDE DEF l
  <2> QED BY <1>2, <1>4, <1>5, <2>1, <2>2, GrantedTables
<1>6. CASE owner[l] \notin {NoThread, t}
  <2>1. UNCHANGED real /\ Goto(t, Idle)
    BY <1>6 DEF RealTryLock
  <2> QED BY <1>1, <1>4, <2>1, CallEnds
<1> QED BY <1>5, <1>6

LEMMA RealUnlockTables ==
    ASSUME TableInv, NEW t \in Threads, RealUnlock(t)
    PROVE  TableInv'
<1> DEFINE l == pc[t].mu
<1>1. /\ TypeInv /\ CallInv /\ OwnedIfNoted /\ pc[t].at = "unlock" /\ Goto(t, Idle)
      /\ UNCHANGED <<held, start, ignores, nodes, edges, results, history>>
  BY DEF TableInv, RealUnlock
<1>2. l \in Locks /\ At(t, l, {"unlock"}) /\ At(t, l, {"locked", "unlock"}) /\ Uncounted(t, l) = 1
      /\ ~At(t, l, {"wait"})
  BY <1>1, AtSome DEF At, Uncounted
<1>3. CASE owner[l] # t
  <2>1. UNCHANGED real
    BY <1>3 DEF RealUnlock
  <2> QED BY <1>1, <2>1, CallEnds
<1>4. CASE owner[l] = t
  <2> DEFINE x == IF depth[l] = 1 THEN NoThread ELSE t
             d == depth[l] - 1
  <2>1. owner' = [owner EXCEPT ![l] = x] /\ depth' = [depth EXCEPT ![l] = d]
    BY <1>4 DEF RealUnlock
  <2>2. depth[l] \in 1 .. MaxDepth /\ MaxDepth \in Nat /\ NoThread \notin Threads
    BY <1>1, <1>2, <1>4, MonitorAssumption DEF TypeInv, CallInv, RealInv
  <2>3. x \in {t, NoThread} /\ d \in 0 .. MaxDepth /\ (x = NoThread <=> d = 0)
    BY <2>2
  <2>4. \A u \in Threads \ {t} : ~At(u, l, {"locked"})
    BY <1>1, <1>2, <1>4 DEF CallInv, WaitInv
  <2>5. \A c \in 1 .. MaxDepth : Noted(t, l, c) => c + 1 <= depth[l]
    BY <1>1, <1>2 DEF OwnedIfNoted
  <2>6. \A c \in 1 .. MaxDepth : Noted(t, l, c) => x = t /\ c <= d
    BY <2>2, <2>5
  <2>7. \A u \in Threads \ {t}, c \in 1 .. MaxDepth :
            Noted(u, l, c) => At(u, l, {"wait"}) /\ c = 1
    BY <1>1, <1>2, <1>4 DEF OwnedIfNoted
  <2>8. start' \in [Threads -> {"zero", "running", "waiting"}]
    BY <1>1 DEF TypeInv
  <2>9. pc[t] = Idle \/ pc[t].mu = l
    OBVIOUS
  <2> HIDE DEF l, x, d
  <2>10. pc'[t] = Idle /\ owner'[l] = x /\ depth'[l] = d
    BY <1>1, <1>2, <2>1 DEF TypeInv, Goto
  <2>11. /\ pc'[t] \in {Idle} \cup Calls /\ Goto(t, pc'[t])
         /\ owner'[l] \in {t, NoThread} /\ depth'[l] \in 0 .. MaxDepth
         /\ owner'[l] = NoThread <=> depth'[l] = 0
         /\ owner' = [owner EXCEPT ![l] = owner'[l]] /\ depth' = [depth EXCEPT ![l] = depth'[l]]
    BY <1>1, <2>1, <2>3, <2>10
  <2>12. \A c \in 1 .. MaxDepth : Noted(t, l, c)
             => IF pc'[t] = Idle THEN owner'[l] = t /\ c <= depth'[l] ELSE c = 1
    BY <2>6, <2>10
  <2> QED BY <1>1, <1>2, <2>4, <2>7, <2>8, <2>9, <2>10, <2>11, <2>12, RealStep
<1> QED BY <1>3, <1>4

LEMMA RealDeleteTables ==
    ASSUME TableInv, NEW t \in Threads, RealDelete(t)
    PROVE  TableInv'
<1> DEFINE l == pc[t].mu
<1>1. /\ TypeInv /\ CallInv /\ OwnedIfNoted /\ pc[t].at = "delete" /\ Goto(t, Idle)
      /\ owner' = [owner EXCEPT ![l] = NoThread] /\ depth' = [depth EXCEPT ![l] = 0]
      /\ UNCHANGED <<held, start, ignores, nodes, edges, results, history>>
  BY DEF TableInv, RealDelete
<1>2. l \in Locks /\ At(t, l, {"delete"}) /\ Dying(l)
  <2>1. l \in Locks /\ At(t, l, {"delete"})
    BY <1>1, AtSome
  <2> QED BY <1>1, <2>1, DyingMeans DEF TypeInv
<1>3. \A u \in Threads \ {t} : ~At(u, l, {"locked"})
  <2>1. \A u \in Threads : At(u, l, {"locked"})
            => At(u, l, {"lock", "locked", "try", "wait", "delete"})
    BY DEF At
  <2> QED BY <1>1, <1>2, <2>1 DEF CallInv, DyingAlone
<1>4. \A u \in Threads, c \in 1 .. MaxDepth : ~Noted(u, l, c)
  BY <1>1, <1>2 DEF OwnedIfNoted
<1>5. start' \in [Threads -> {"zero", "running", "waiting"}] /\ 0 \in 0 .. MaxDepth
  BY <1>1, MonitorAssumption DEF TypeInv
<1>6. pc[t].mu = l
  OBVIOUS
<1> HIDE DEF l
<1>7. pc'[t] = Idle /\ owner'[l] = NoThread /\ depth'[l] = 0
  BY <1>1, <1>2 DEF TypeInv, Goto
<1> QED BY <1>1, <1>2, <1>3, <1>4, <1>5, <1>6, <1>7, RealStep, ZenonT(40)

LEMMA CndWaitTables ==
    ASSUME TableInv, NEW t \in Threads, NEW l \in Locks, CndWait(t, l)
    PROVE  TableInv'
<1> DEFINE q == In("wait", l, NoId)
<1>1. /\ TypeInv /\ CallInv /\ OwnedIfNoted /\ pc[t] = Idle /\ Goto(t, q)
      /\ ~Dying(l) /\ owner[l] = t /\ depth[l] = 1
      /\ owner' = [owner EXCEPT ![l] = NoThread] /\ depth' = [depth EXCEPT ![l] = 0]
      /\ start' = [start EXCEPT ![t] = "waiting"]
      /\ UNCHANGED <<held, ignores, nodes, edges, results, history>>
  BY DEF TableInv, CndWait, MayRelease
<1>2. q \in {Idle} \cup Calls /\ q.at = "wait" /\ q.mu = l /\ q # Idle
  BY InFacts
<1>3. NoThread \notin Threads
  BY MonitorAssumption
<1>4. \A u \in Threads \ {t} : ~At(u, l, {"locked"})
  BY <1>1 DEF CallInv, WaitInv
<1>5. \A c \in 1 .. MaxDepth : Noted(t, l, c) => c = 1
  <2>1. ~At(t, l, {"locked", "unlock"})
    BY <1>1, NowhereWhenIdle
  <2> QED BY <1>1, <2>1 DEF OwnedIfNoted, Uncounted
<1>6. \A u \in Threads \ {t}, c \in 1 .. MaxDepth :
          Noted(u, l, c) => At(u, l, {"wait"}) /\ c = 1
  BY <1>1 DEF OwnedIfNoted
<1>7. start' \in [Threads -> {"zero", "running", "waiting"}] /\ 0 \in 0 .. MaxDepth
  BY <1>1, MonitorAssumption DEF TypeInv
<1>8. pc'[t] = q /\ owner'[l] = NoThread /\ depth'[l] = 0
  BY <1>1 DEF TypeInv, Goto
<1>9. At(t, l, {"wait"})'
  BY <1>2, <1>8 DEF At
<1> HIDE DEF q
<1>10. q \in {Idle} \cup Calls /\ q # Idle
  BY <1>2
<1> QED BY <1>1, <1>4, <1>5, <1>6, <1>7, <1>8, <1>9, <1>10, RealStep

LEMMA CndWakeTables ==
    ASSUME TableInv, NEW t \in Threads, CndWake(t)
    PROVE  TableInv'
<1> DEFINE l == pc[t].mu
<1>1. /\ TypeInv /\ CallInv /\ OwnedIfNoted /\ pc[t].at = "wait" /\ Goto(t, Idle)
      /\ owner[l] = NoThread
      /\ owner' = [owner EXCEPT ![l] = t] /\ depth' = [depth EXCEPT ![l] = 1]
      /\ UNCHANGED <<held, start, ignores, nodes, edges, results, history>>
  BY DEF TableInv, CndWake
<1>2. l \in Locks /\ At(t, l, {"wait"})
  BY <1>1, AtSome
<1>3. NoThread \notin Threads /\ 1 \in 0 .. MaxDepth
  BY MonitorAssumption
<1>4. \A u \in Threads : ~At(u, l, {"locked"})
  BY <1>1, <1>2, <1>3 DEF CallInv, WaitInv
<1>5. \A u \in Threads, c \in 1 .. MaxDepth : Noted(u, l, c) => At(u, l, {"wait"}) /\ c = 1
  BY <1>1, <1>2, <1>3 DEF OwnedIfNoted
<1>6. start' \in [Threads -> {"zero", "running", "waiting"}]
  BY <1>1 DEF TypeInv
<1>7. pc'[t] = Idle /\ owner'[l] = t /\ depth'[l] = 1 /\ pc[t].mu = l
  BY <1>1, <1>2 DEF TypeInv, Goto
<1>8. /\ \A c \in 1 .. MaxDepth :
            Noted(t, l, c) => t = t /\ c <= 1
      /\ \A u \in Threads \ {t} : ~At(u, l, {"locked"})
      /\ \A u \in Threads \ {t}, c \in 1 .. MaxDepth :
            Noted(u, l, c) => At(u, l, {"wait"}) /\ c = 1
  BY <1>4, <1>5
<1> HIDE DEF l
<1>9. /\ pc'[t] \in {Idle} \cup Calls /\ Goto(t, pc'[t])
      /\ owner'[l] \in {t, NoThread} /\ depth'[l] \in 0 .. MaxDepth
      /\ owner' = [owner EXCEPT ![l] = owner'[l]] /\ depth' = [depth EXCEPT ![l] = depth'[l]]
  BY <1>1, <1>3, <1>7
<1>11. owner'[l] = NoThread <=> depth'[l] = 0
  BY <1>3, <1>7
<1>10. \A c \in 1 .. MaxDepth : Noted(t, l, c)
           => IF pc'[t] = Idle THEN owner'[l] = t /\ c <= depth'[l] ELSE c = 1
  BY <1>7, <1>8
<1> QED BY <1>1, <1>2, <1>6, <1>7, <1>8, <1>9, <1>10, <1>11, RealStep

-----------------------------------------------------------------------------
(* The monitor's own steps on the tables.                                  *)

(* No two locks have the same node.                                        *)
LEMMA OtherNode ==
    ASSUME TypeInv, CurrentIds, NEW l \in Locks, NEW k \in Locks, k # l, idOf[l] # NoId
    PROVE  idOf[k] # idOf[l]
<1>1. idOf[l][1] = l
  BY LiveIds
<1>2. CASE idOf[k] = NoId
  BY <1>2
<1>3. CASE idOf[k] # NoId
  <2>1. idOf[k][1] = k
    BY <1>3, LiveIds
  <2> QED BY <1>1, <2>1
<1> QED BY <1>2, <1>3

(* in_lock is called for a lock the thread has just got.                   *)
LEMMA InLockCall ==
    ASSUME TableInv, NEW t \in Threads, pc[t].at = "locked"
    PROVE  /\ pc[t].mu \in Locks /\ pc[t].id = idOf[pc[t].mu] /\ pc[t].id \in Ids
           /\ At(t, pc[t].mu, {"locked"}) /\ owner[pc[t].mu] = t /\ pc[t].mu \notin Ignored
           /\ Len(held[t]) < MAX_LOCKS_PER_THREAD /\ ~Dying(pc[t].mu)
           /\ depth[pc[t].mu] \in 1 .. MaxDepth
<1> DEFINE l == pc[t].mu
<1>1. TypeInv /\ CallInv /\ pc \in [Threads -> {Idle} \cup Calls] /\ NoThread \notin Threads
  BY MonitorAssumption DEF TableInv, TypeInv
<1>2. l \in Locks /\ At(t, l, {"locked"}) /\ pc[t].id \in Ids \cup {NoId}
  BY <1>1, AtSome
<1>3. /\ At(t, l, {"lock", "locked", "try"})
      /\ At(t, l, {"lock", "locked", "try", "wait", "delete"}) /\ ~At(t, l, {"delete"})
  BY <1>2 DEF At
<1>4. pc[t].id # NoId
  BY <1>1, <1>2, <1>3 DEF CallInv, UnwatchedInv
<1>5. pc[t].id = idOf[l] /\ l \notin Ignored /\ Len(held[t]) < MAX_LOCKS_PER_THREAD
  BY <1>1, <1>2, <1>3, <1>4 DEF CallInv, WatchedInv
<1>6. owner[l] = t
  BY <1>1, <1>2 DEF CallInv, WaitInv
<1>7. ~Dying(l)
  <2>1. \A u \in Threads : At(u, l, {"delete"}) => u = t
    BY <1>1, <1>2, <1>3 DEF CallInv, DyingAlone
  <2> QED BY <1>1, <1>3, <2>1, DyingMeans
<1>8. depth[l] # 0 /\ depth[l] \in 0 .. MaxDepth
  BY <1>1, <1>2, <1>6 DEF CallInv, RealInv, TypeInv
<1>9. depth[l] \in 1 .. MaxDepth
  BY <1>8, MonitorAssumption
<1> QED BY <1>2, <1>4, <1>5, <1>6, <1>7, <1>9

(* in_lock on the tables: the lock counts one acquisition more.            *)
LEMMA InLockFacts ==
    ASSUME TableInv, NEW t \in Threads, NEW l \in Locks, l = pc[t].mu, InLock(t)
    PROVE  /\ held' \in [Threads -> Seq(Entry)] /\ Distinct(held'[t]) /\ held'[t] # <<>>
           /\ \A u \in Threads : u # t => held'[u] = held[u]
           /\ \A i \in DOMAIN held'[t] :
                 \/ held'[t][i].id = idOf[l] /\ held'[t][i].mu = l
                 \/ \E j \in DOMAIN held[t] : /\ held'[t][i].id = held[t][j].id
                                              /\ held'[t][i].mu = held[t][j].mu
           /\ \A k \in Locks : k # l => \A c : Has(held'[t], idOf[k], c) <=> Noted(t, k, c)
           /\ \A c \in Nat : Noted(t, l, c) => Has(held'[t], idOf[l], c + 1)
           /\ \A c \in Nat : Has(held'[t], idOf[l], c) => c = 1 \/ Noted(t, l, c - 1)
           /\ (\A c \in 1 .. MaxDepth : ~Noted(t, l, c)) => Has(held'[t], idOf[l], 1)
<1> DEFINE new == Acquired(held[t], l, idOf[l])
<1>1. /\ TypeInv /\ CurrentIds /\ OwnedIfNoted /\ held \in [Threads -> Seq(Entry)]
      /\ held[t] \in Seq(Entry) /\ Distinct(held[t]) /\ pc[t].at = "locked"
  BY DEF TableInv, TypeInv, IdsInv, EntriesDiffer, InLock
<1>2. /\ pc[t].id = idOf[l] /\ idOf[l] \in Ids /\ At(t, l, {"locked"}) /\ owner[l] = t
      /\ Len(held[t]) < MAX_LOCKS_PER_THREAD /\ depth[l] \in 1 .. MaxDepth
  BY <1>1, InLockCall
<1>3. held' = [held EXCEPT ![t] = new]
  BY <1>2 DEF InLock
<1>4. \A i \in DOMAIN held[t] : held[t][i].id = idOf[l] => held[t][i].count < MaxDepth
  <2> SUFFICES ASSUME NEW i \in DOMAIN held[t], held[t][i].id = idOf[l]
               PROVE  held[t][i].count < MaxDepth
    OBVIOUS
  <2>1. held[t][i].count \in 1 .. MaxDepth
    BY <1>1, TableFacts
  <2>2. Noted(t, l, held[t][i].count)
    BY DEF Noted, Has
  <2>3. ~At(t, l, {"wait"}) /\ Uncounted(t, l) = 1
    BY <1>2 DEF At, Uncounted
  <2>4. held[t][i].count + 1 <= depth[l]
    BY <1>1, <2>1, <2>2, <2>3 DEF OwnedIfNoted
  <2> QED BY <1>2, <2>1, <2>4, MonitorAssumption
<1>5. Len(held[t]) # MAX_LOCKS_PER_THREAD
  BY <1>1, <1>2, MonitorAssumption, TableFacts
<1>6. /\ new \in Seq(Entry) /\ Distinct(new) /\ new # <<>>
      /\ \A i \in DOMAIN new :
            \/ new[i].id = idOf[l] /\ new[i].mu = l
            \/ \E j \in DOMAIN held[t] : /\ new[i].id = held[t][j].id
                                         /\ new[i].mu = held[t][j].mu
      /\ \A x, c : x # idOf[l] => (Has(new, x, c) <=> Has(held[t], x, c))
      /\ \A c \in Nat : Has(held[t], idOf[l], c) => Has(new, idOf[l], c + 1)
      /\ \A c \in Nat : Has(new, idOf[l], c) => c = 1 \/ Has(held[t], idOf[l], c - 1)
      /\ (\A c \in 1 .. MaxDepth : ~Has(held[t], idOf[l], c)) => Has(new, idOf[l], 1)
  <2>1. /\ held[t] \in Seq(Entry) /\ Distinct(held[t]) /\ idOf[l] \in Ids
        /\ Len(held[t]) # MAX_LOCKS_PER_THREAD
    BY <1>1, <1>2, <1>5
  <2> QED BY <1>4, <2>1, AcquiredTable
<1> HIDE DEF new
<1>7. held' \in [Threads -> Seq(Entry)] /\ held'[t] = new
      /\ \A u \in Threads : u # t => held'[u] = held[u]
  BY <1>1, <1>3, <1>6
<1>8. \A k \in Locks : k # l => idOf[k] # idOf[l]
  BY <1>1, <1>2, OtherNode, IdFacts
<1> QED BY <1>6, <1>7, <1>8 DEF Noted

LEMMA InLockTables ==
    ASSUME TableInv, NEW t \in Threads, InLock(t)
    PROVE  TableInv'
<1> DEFINE l == pc[t].mu
<1>1. /\ TypeInv /\ IdsInv /\ CallInv /\ OwnedIfNoted /\ pc \in [Threads -> {Idle} \cup Calls]
      /\ pc[t].at = "locked" /\ Goto(t, Idle)
      /\ UNCHANGED <<owner, depth, start, ignore_lock, ignore_unlock, idOf, born, recorded, spare,
                     edges, potential, other, order, inverted>>
  BY DEF TableInv, TypeInv, InLock, real, ignores, nodes, results, history
<1>2. /\ l \in Locks /\ idOf[l] \in Ids /\ At(t, l, {"locked"}) /\ owner[l] = t /\ l \notin Ignored
      /\ ~Dying(l) /\ depth[l] \in 1 .. MaxDepth
  BY <1>1, InLockCall
<1>3. /\ held' \in [Threads -> Seq(Entry)] /\ Distinct(held'[t])
      /\ \A u \in Threads : u # t => held'[u] = held[u]
      /\ \A i \in DOMAIN held'[t] :
            \/ held'[t][i].id = idOf[l] /\ held'[t][i].mu = l
            \/ \E j \in DOMAIN held[t] : /\ held'[t][i].id = held[t][j].id
                                         /\ held'[t][i].mu = held[t][j].mu
      /\ \A k \in Locks : k # l => \A c : Has(held'[t], idOf[k], c) <=> Noted(t, k, c)
      /\ \A c \in Nat : Has(held'[t], idOf[l], c) => c = 1 \/ Noted(t, l, c - 1)
  BY <1>2, InLockFacts
<1>m. pc[t].mu = l
  OBVIOUS
<1> HIDE DEF l
<1>4. /\ pc' \in [Threads -> {Idle} \cup Calls] /\ pc'[t] = Idle
      /\ \A u \in Threads : u # t => pc'[u] = pc[u]
      /\ \A k, S : "idle" \notin S => ~At(t, k, S)'
      /\ \A u \in Threads : \A k, S : u # t => (At(u, k, S)' <=> At(u, k, S))
  <2>1. Idle.at = "idle"
    BY DEF Idle
  <2> QED BY <1>1, <2>1, Moved
<1>5. \A k \in Locks : Dying(k)' => Dying(k)
  BY <1>1, <1>4, DyingMeans, DyingMeansNext
<1>6. TypeInv'
  BY <1>1, <1>3, <1>4 DEF TypeInv
<1>7. IdsInv'
  <2>1. idOf[l][1] = l /\ idOf[l][2] = born[l] /\ born[l] \in Nat
    BY <1>1, <1>2, IdFacts DEF IdsInv, CurrentIds, TypeInv
  <2>2. EntryIds'
    <3> SUFFICES ASSUME NEW u \in Threads, NEW i \in DOMAIN held'[u]
                 PROVE  /\ held'[u][i].id[1] = held'[u][i].mu
                        /\ held'[u][i].id[2] <= born[held'[u][i].mu]
      BY <1>1 DEF EntryIds
    <3>1. CASE u = t
      BY <1>1, <1>3, <2>1, <3>1 DEF IdsInv, EntryIds
    <3>2. CASE u # t
      BY <1>1, <1>3, <3>2 DEF IdsInv, EntryIds
    <3> QED BY <3>1, <3>2
  <2>3. EntriesDiffer'
    BY <1>1, <1>3 DEF IdsInv, EntriesDiffer
  <2>4. CurrentIds' /\ EdgesLive' /\ PathNodesAreRecorded'
    BY <1>1 DEF IdsInv, CurrentIds, EdgesLive, IsLive, PathNodesAreRecorded
  <2> QED BY <2>2, <2>3, <2>4 DEF IdsInv
<1>8. CallInv'
  <2>1. RealInv'
    BY <1>1 DEF CallInv, RealInv
  <2>2. WatchedInv'
    <3> SUFFICES ASSUME NEW u \in Threads, NEW k \in Locks,
                        At(u, k, {"lock", "locked", "try"})', pc'[u].id # NoId
                 PROVE  /\ pc'[u].id = idOf[k] /\ k \notin Ignored
                        /\ Len(held'[u]) < MAX_LOCKS_PER_THREAD
      BY <1>1 DEF WatchedInv
    <3>1. u # t
      BY <1>4
    <3>2. At(u, k, {"lock", "locked", "try"}) /\ pc'[u] = pc[u] /\ held'[u] = held[u]
      BY <1>3, <1>4, <3>1
    <3> QED BY <1>1, <3>2 DEF CallInv, WatchedInv
  <2>3. UnwatchedInv'
    BY <1>1, <1>4 DEF CallInv, UnwatchedInv
  <2>4. WaitInv'
    BY <1>1, <1>4 DEF CallInv, WaitInv
  <2>5. DyingAlone'
    BY <1>1, <1>4 DEF CallInv, DyingAlone
  <2> QED BY <2>1, <2>2, <2>3, <2>4, <2>5 DEF CallInv
<1>9. OwnedIfNoted'
  <2> SUFFICES ASSUME NEW u \in Threads, NEW k \in Locks, NEW c \in 1 .. MaxDepth, Noted(u, k, c)'
               PROVE  /\ k \notin Ignored /\ ~Dying(k)'
                      /\ \/ owner[k] = u /\ c + Uncounted(u, k)' <= depth[k]
                         \/ At(u, k, {"wait"})' /\ c = 1
    BY <1>1 DEF OwnedIfNoted
  <2>1. Has(held'[u], idOf[k], c)
    BY <1>1 DEF Noted
  <2>2. c \in Nat /\ depth[k] \in Nat
    BY <1>1, MonitorAssumption DEF TypeInv
  <2>3. ASSUME NEW d \in 1 .. MaxDepth, Noted(u, k, d)
        PROVE  /\ k \notin Ignored /\ ~Dying(k)'
               /\ \/ owner[k] = u /\ d + Uncounted(u, k) <= depth[k]
                  \/ At(u, k, {"wait"}) /\ d = 1
    BY <1>1, <1>5, <2>3 DEF OwnedIfNoted
  <2>4. CASE u # t
    <3>1. Noted(u, k, c)
      BY <1>3, <2>1, <2>4 DEF Noted
    <3> QED BY <1>4, <2>3, <2>4, <3>1 DEF Uncounted
  <2>5. CASE u = t
    <3>1. Uncounted(t, k)' = 0
      BY <1>4 DEF Uncounted
    <3>2. CASE k # l
      <4>1. Noted(t, k, c)
        BY <1>3, <2>1, <2>5, <3>2
      <4>2. ~At(t, k, {"wait"}) /\ ~At(t, k, {"locked", "unlock"})
        BY <1>m, <3>2 DEF At
      <4> QED BY <2>2, <2>3, <2>5, <3>1, <4>1, <4>2 DEF Uncounted
    <3>3. CASE k = l
      <4>1. k \notin Ignored /\ ~Dying(k)' /\ owner[k] = u
        BY <1>2, <1>5, <2>5, <3>3
      <4>2. c <= depth[k]
        <5>1. CASE c = 1
          BY <1>2, <3>3, <5>1
        <5>2. CASE c # 1
          <6>1. Noted(t, k, c - 1) /\ c - 1 \in 1 .. MaxDepth
            BY <1>3, <2>1, <2>2, <2>5, <3>3, <5>2, MonitorAssumption
          <6>2. ~At(t, k, {"wait"}) /\ Uncounted(t, k) = 1
            BY <1>2, <3>3 DEF At, Uncounted
          <6>3. c - 1 + 1 <= depth[k]
            BY <2>3, <2>5, <6>1, <6>2
          <6> QED BY <2>2, <6>3
        <5> QED BY <5>1, <5>2
      <4> QED BY <2>2, <2>5, <3>1, <4>1, <4>2
    <3> QED BY <3>2, <3>3
  <2> QED BY <2>4, <2>5
<1> QED BY <1>6, <1>7, <1>8, <1>9 DEF TableInv

(* after_lock on the tables: one acquisition of the lock less, or a report *)
(* when the lock has no entry (and the table is left as it is).            *)
LEMMA AfterLockFacts ==
    ASSUME TableInv, NEW t \in Threads, NEW l \in Locks, AfterLock(t, l)
    PROVE  /\ held' \in [Threads -> Seq(Entry)] /\ Distinct(held'[t])
           /\ \A u \in Threads : u # t => held'[u] = held[u]
           /\ \A i \in DOMAIN held'[t] :
                 \E j \in DOMAIN held[t] : /\ held'[t][i].id = held[t][j].id
                                           /\ held'[t][i].mu = held[t][j].mu
           /\ \A u \in Threads, k \in Locks : u # t \/ k # l =>
                 \A c : Has(held'[u], idOf'[k], c) <=> Noted(u, k, c)
           /\ \A c \in Nat \ {0} : Has(held'[t], idOf'[l], c) => Noted(t, l, c + 1)
           /\ \/ other' /\ held' = held /\ \A c : ~Noted(t, l, c)
              \/ /\ other' = other /\ \E c \in 1 .. MaxDepth : Noted(t, l, c)
                 /\ \A c \in Nat \ {0} : Noted(t, l, c + 1) => Has(held'[t], idOf'[l], c)
<1> DEFINE id == IdFor(l)
           byId == {i \in DOMAIN held[t] : held[t][i].id = id}
<1>1. /\ TypeInv /\ CurrentIds /\ EntryIds /\ held \in [Threads -> Seq(Entry)]
      /\ held[t] \in Seq(Entry) /\ Distinct(held[t]) /\ GetId(l, FALSE)
  BY DEF TableInv, TypeInv, IdsInv, EntriesDiffer, AfterLock
<1>2. /\ CurrentIds'
      /\ \A u \in Threads, k \in Locks : \A c : Has(held[u], idOf'[k], c) <=> Noted(u, k, c)
  BY <1>1, GetIdKeeps
<1>3. id \in Ids /\ idOf'[l] = id /\ \A k \in Locks : k # l => idOf'[k] = idOf[k]
  <2>1. IdFor(l) \in Ids /\ idOf' = [idOf EXCEPT ![l] = IdFor(l)]
    BY <1>1, GetIdFacts
  <2> QED BY <1>1, <2>1 DEF TypeInv
<1>4. \A k \in Locks : k # l => idOf'[k] # id
  <2> SUFFICES ASSUME NEW k \in Locks, k # l PROVE idOf'[k] # id
    OBVIOUS
  <2>1. id[1] = l
    BY <1>1, GetIdFacts
  <2>2. CASE idOf[k] = NoId
    BY <1>3, <2>2, IdFacts
  <2>3. CASE idOf[k] # NoId
    BY <1>1, <1>3, <2>1, <2>3, LiveIds
  <2> QED BY <2>2, <2>3
<1>5. \/ /\ byId # {} /\ other' = other
         /\ \E i \in byId : held' = [held EXCEPT ![t] = Released(held[t], i)]
      \/ byId = {} /\ other' /\ held' = held
  BY DEF AfterLock
<1>6. CASE byId = {} /\ other' /\ held' = held
  <2>1. \A c : ~Has(held[t], id, c)
    BY <1>6 DEF Has
  <2> QED BY <1>1, <1>2, <1>3, <1>6, <2>1
<1>7. CASE other' = other /\ \E i \in byId : held' = [held EXCEPT ![t] = Released(held[t], i)]
  <2>1. PICK i \in DOMAIN held[t] : /\ held[t][i].id = id
                                    /\ held' = [held EXCEPT ![t] = Released(held[t], i)]
    BY <1>7
  <2> DEFINE new == Released(held[t], i)
  <2>2. /\ new \in Seq(Entry) /\ Distinct(new)
        /\ \A m \in DOMAIN new : \E j \in DOMAIN held[t] : /\ new[m].id = held[t][j].id
                                                           /\ new[m].mu = held[t][j].mu
        /\ \A x, c : x # held[t][i].id => (Has(new, x, c) <=> Has(held[t], x, c))
        /\ \A c \in Nat \ {0} : Has(new, held[t][i].id, c) <=> Has(held[t], held[t][i].id, c + 1)
    BY <1>1, ReleasedTable
  <2>3. held' = [held EXCEPT ![t] = new]
    BY <2>1
  <2> HIDE DEF new, id, byId
  <2>4. /\ held' \in [Threads -> Seq(Entry)] /\ held'[t] = new
        /\ \A u \in Threads : u # t => held'[u] = held[u]
    BY <1>1, <2>2, <2>3
  <2>5. \A c \in Nat \ {0} : Has(new, id, c) <=> Noted(t, l, c + 1)
    BY <1>2, <1>3, <2>1, <2>2
  <2>6. \A k \in Locks : k # l => \A c : Has(new, idOf'[k], c) <=> Noted(t, k, c)
    BY <1>2, <1>4, <2>1, <2>2
  <2>7. held[t][i].count \in 1 .. MaxDepth /\ Noted(t, l, held[t][i].count)
    <3>1. Has(held[t], id, held[t][i].count)
      BY <2>1 DEF Has
    <3> QED BY <1>1, <1>2, <1>3, <3>1, TableFacts
  <2>8. \A u \in Threads, k \in Locks : u # t \/ k # l =>
           \A c : Has(held'[u], idOf'[k], c) <=> Noted(u, k, c)
    BY <1>2, <2>4, <2>6
  <2> QED BY <1>3, <1>7, <2>2, <2>4, <2>5, <2>7, <2>8
<1> QED BY <1>5, <1>6, <1>7

LEMMA AfterLockTables ==
    ASSUME TableInv, NEW t \in Threads, NEW l \in Locks, pc[t] = Idle, AfterLock(t, l)
    PROVE  TableInv'
<1> DEFINE q == In("unlock", l, NoId)
<1>1. /\ TypeInv /\ IdsInv /\ CurrentIds /\ EntryIds /\ CallInv /\ OwnedIfNoted
      /\ pc \in [Threads -> {Idle} \cup Calls]
      /\ GetId(l, FALSE) /\ Goto(t, q)
      /\ UNCHANGED <<owner, depth, ignore_lock, ignore_unlock, edges, potential, order, inverted>>
  BY DEF TableInv, TypeInv, IdsInv, AfterLock, real, ignores, history
<1>2. /\ held' \in [Threads -> Seq(Entry)] /\ Distinct(held'[t])
      /\ \A u \in Threads : u # t => held'[u] = held[u]
      /\ \A i \in DOMAIN held'[t] :
            \E j \in DOMAIN held[t] : /\ held'[t][i].id = held[t][j].id
                                      /\ held'[t][i].mu = held[t][j].mu
      /\ \A u \in Threads, k \in Locks : u # t \/ k # l =>
            \A c : Has(held'[u], idOf'[k], c) <=> Noted(u, k, c)
      /\ \A c \in Nat \ {0} : Has(held'[t], idOf'[l], c) => Noted(t, l, c + 1)
  BY AfterLockFacts
<1>3. /\ idOf' \in [Locks -> Ids \cup {NoId}]
      /\ born' \in [Locks -> 0 .. MaxBorn] /\ spare' \in Nat /\ recorded' \subseteq Ids
      /\ recorded \subseteq recorded' /\ \A k \in Locks : born[k] <= born'[k]
  BY <1>1, GetIdFacts
<1>4. /\ CurrentIds'
      /\ \A x \in Ids : IsLive(x) => IsLive(x)'
      /\ \A k \in Locks : idOf[k] # NoId => idOf'[k] = idOf[k]
  BY <1>1, GetIdKeeps
<1>5. q \in Calls /\ q.at = "unlock" /\ q.mu = l
  BY InFacts
<1> HIDE DEF q
<1>6. /\ pc' \in [Threads -> {Idle} \cup Calls] /\ pc'[t] = q
      /\ \A u \in Threads : u # t => pc'[u] = pc[u]
      /\ \A k, S : At(t, k, S)' <=> "unlock" \in S /\ l = k
      /\ \A u \in Threads : \A k, S : u # t => (At(u, k, S)' <=> At(u, k, S))
  BY <1>1, <1>5, Moved
<1>7. \A k \in Locks : Dying(k)' => Dying(k)
  BY <1>1, <1>6, DyingMeans, DyingMeansNext
<1>8. start' \in [Threads -> {"zero", "running", "waiting"}]
  <2>1. start' = start \/ start' = [start EXCEPT ![t] = "zero"]
    BY DEF AfterLock
  <2> QED BY <1>1, <2>1 DEF TypeInv
<1>9. other' \in BOOLEAN
  BY <1>1 DEF AfterLock, TypeInv
<1>10. TypeInv'
  BY <1>1, <1>2, <1>3, <1>6, <1>8, <1>9 DEF TypeInv
<1>11. IdsInv'
  <2>1. EntryIds'
    <3> SUFFICES ASSUME NEW u \in Threads, NEW i \in DOMAIN held'[u]
                 PROVE  /\ held'[u][i].id[1] = held'[u][i].mu
                        /\ held'[u][i].id[2] <= born'[held'[u][i].mu]
      BY DEF EntryIds
    <3>1. PICK j \in DOMAIN held[u] : /\ held'[u][i].id = held[u][j].id
                                      /\ held'[u][i].mu = held[u][j].mu
      BY <1>2
    <3>2. held[u][j].mu \in Locks /\ held[u][j].id \in Ids /\ held[u][j].id[2] \in Nat
      BY <1>1, TableFacts, IdFacts DEF TypeInv
    <3>3. /\ held[u][j].id[1] = held[u][j].mu
          /\ held[u][j].id[2] <= born[held[u][j].mu]
          /\ born[held[u][j].mu] <= born'[held[u][j].mu]
          /\ born[held[u][j].mu] \in Nat /\ born'[held[u][j].mu] \in Nat
      BY <1>1, <1>3, <3>2 DEF EntryIds, TypeInv
    <3>4. held[u][j].id[2] <= born'[held[u][j].mu]
      BY <3>2, <3>3
    <3> QED BY <3>1, <3>3, <3>4
  <2>2. EntriesDiffer'
    BY <1>1, <1>2 DEF IdsInv, EntriesDiffer
  <2>3. EdgesLive'
    <3> SUFFICES ASSUME NEW e \in edges PROVE IsLive(e[1])' /\ IsLive(e[2])'
      BY <1>1 DEF EdgesLive
    <3>1. e[1] \in Ids /\ e[2] \in Ids /\ IsLive(e[1]) /\ IsLive(e[2])
      BY <1>1 DEF TypeInv, IdsInv, EdgesLive
    <3> QED BY <1>4, <3>1
  <2>4. PathNodesAreRecorded'
    BY <1>1, <1>3 DEF IdsInv, PathNodesAreRecorded
  <2> QED BY <1>4, <2>1, <2>2, <2>3, <2>4 DEF IdsInv
<1>12. CallInv'
  <2>1. RealInv'
    BY <1>1 DEF CallInv, RealInv
  <2>2. WatchedInv'
    <3> SUFFICES ASSUME NEW u \in Threads, NEW k \in Locks,
                        At(u, k, {"lock", "locked", "try"})', pc'[u].id # NoId
                 PROVE  /\ pc'[u].id = idOf'[k] /\ k \notin Ignored
                        /\ Len(held'[u]) < MAX_LOCKS_PER_THREAD
      BY DEF WatchedInv
    <3>1. u # t
      BY <1>6
    <3>2. At(u, k, {"lock", "locked", "try"}) /\ pc'[u] = pc[u] /\ held'[u] = held[u]
      BY <1>2, <1>6, <3>1
    <3>3. /\ pc[u].id = idOf[k] /\ k \notin Ignored /\ pc[u].id # NoId
          /\ Len(held[u]) < MAX_LOCKS_PER_THREAD
      BY <1>1, <3>2 DEF CallInv, WatchedInv
    <3> QED BY <1>4, <3>2, <3>3
  <2>3. UnwatchedInv'
    <3>1. other => other'
      BY DEF AfterLock
    <3> QED BY <1>1, <1>6, <3>1 DEF CallInv, UnwatchedInv
  <2>4. WaitInv'
    BY <1>1, <1>6 DEF CallInv, WaitInv
  <2>5. DyingAlone'
    BY <1>1, <1>6 DEF CallInv, DyingAlone
  <2> QED BY <2>1, <2>2, <2>3, <2>4, <2>5 DEF CallInv
<1>13. OwnedIfNoted'
  <2> SUFFICES ASSUME NEW u \in Threads, NEW k \in Locks, NEW c \in 1 .. MaxDepth, Noted(u, k, c)'
               PROVE  /\ k \notin Ignored /\ ~Dying(k)'
                      /\ \/ owner[k] = u /\ c + Uncounted(u, k)' <= depth[k]
                         \/ At(u, k, {"wait"})' /\ c = 1
    BY <1>1 DEF OwnedIfNoted
  <2>1. Has(held'[u], idOf'[k], c)
    BY DEF Noted
  <2>2. c \in Nat \ {0} /\ depth[k] \in Nat
    BY <1>1, MonitorAssumption DEF TypeInv
  <2>3. ASSUME NEW d \in 1 .. MaxDepth, Noted(u, k, d)
        PROVE  /\ k \notin Ignored /\ ~Dying(k)'
               /\ \/ owner[k] = u /\ d + Uncounted(u, k) <= depth[k]
                  \/ At(u, k, {"wait"}) /\ d = 1
    BY <1>1, <1>7, <2>3 DEF OwnedIfNoted
  <2>4. CASE u # t
    <3>1. Noted(u, k, c)
      BY <1>2, <2>1, <2>4
    <3> QED BY <1>6, <2>3, <2>4, <3>1 DEF Uncounted
  <2>5. CASE u = t
    <3>1. ~At(t, k, {"wait"}) /\ ~At(t, k, {"locked", "unlock"}) /\ Uncounted(t, k) = 0
      BY NowhereWhenIdle DEF Uncounted
    <3>2. CASE k # l
      <4>1. Noted(t, k, c)
        BY <1>2, <2>1, <2>5, <3>2
      <4>2. Uncounted(t, k)' = 0
        BY <1>6, <3>2 DEF Uncounted
      <4> QED BY <2>2, <2>3, <2>5, <3>1, <4>1, <4>2
    <3>3. CASE k = l
      <4>1. Noted(t, k, c + 1)
        BY <1>2, <2>1, <2>2, <2>5, <3>3
      <4>2. c + 1 \in 1 .. MaxDepth
        BY <1>1, <4>1, TableFacts DEF Noted, Has, TypeInv
      <4>3. k \notin Ignored /\ ~Dying(k)' /\ owner[k] = t /\ c + 1 + 0 <= depth[k]
        BY <2>3, <2>5, <3>1, <4>1, <4>2
      <4>4. Uncounted(t, k)' = 1
        BY <1>6, <3>3 DEF Uncounted
      <4> QED BY <2>2, <2>5, <4>3, <4>4
    <3> QED BY <3>2, <3>3
  <2> QED BY <2>4, <2>5
<1> QED BY <1>10, <1>11, <1>12, <1>13 DEF TableInv

(* delete_lock on the graph: the node goes, with its edges.                *)
LEMMA DeleteLockFacts ==
    ASSUME TypeInv, NEW t \in Threads, NEW l \in Locks, DeleteLock(t, l)
    PROVE  /\ idOf' \in [Locks -> Ids \cup {NoId}] /\ idOf'[l] = NoId
           /\ \A k \in Locks : k # l => idOf'[k] = idOf[k]
           /\ edges' = {e \in edges : idOf[l] \notin {e[1], e[2]}}
           /\ recorded \ {idOf[l]} \subseteq recorded' /\ recorded' \subseteq recorded
           /\ spare' \in Nat /\ born' = born
<1>1. /\ idOf \in [Locks -> Ids \cup {NoId}] /\ edges \subseteq Ids \X Ids /\ spare \in Nat
  BY DEF TypeInv
<1>2. CASE idOf[l] = NoId
  <2>1. UNCHANGED <<idOf, born, recorded, spare, edges>>
    BY <1>2 DEF DeleteLock, nodes
  <2>2. \A e \in edges : e[1] # NoId /\ e[2] # NoId
    BY <1>1, IdFacts
  <2>3. edges = {e \in edges : idOf[l] \notin {e[1], e[2]}}
    BY <1>2, <2>2
  <2> QED BY <1>1, <1>2, <2>1, <2>3
<1>3. CASE idOf[l] # NoId
  <2>1. /\ idOf' = [idOf EXCEPT ![l] = NoId]
        /\ edges' = {e \in edges : idOf[l] \notin {e[1], e[2]}}
        /\ recorded' = recorded \ {idOf[l]} /\ spare' = spare + 1 /\ born' = born
    BY <1>3 DEF DeleteLock
  <2> QED BY <1>1, <2>1
<1> QED BY <1>2, <1>3

LEMMA DeleteLockTables ==
    ASSUME TableInv, NEW t \in Threads, NEW l \in Locks, NotInUse(l), DeleteLock(t, l)
    PROVE  TableInv'
<1> DEFINE q == In("delete", l, NoId)
<1>1. /\ TypeInv /\ IdsInv /\ CallInv /\ OwnedIfNoted /\ pc[t] = Idle
      /\ pc \in [Threads -> {Idle} \cup Calls] /\ Goto(t, q)
      /\ UNCHANGED <<owner, depth, held, start, ignore_lock, ignore_unlock, potential, other,
                     inverted>>
      /\ order' \subseteq order
  BY DEF TableInv, TypeInv, DeleteLock, real, ignores
<1>2. /\ idOf' \in [Locks -> Ids \cup {NoId}] /\ idOf'[l] = NoId
      /\ \A k \in Locks : k # l => idOf'[k] = idOf[k]
      /\ edges' = {e \in edges : idOf[l] \notin {e[1], e[2]}}
      /\ recorded \ {idOf[l]} \subseteq recorded' /\ recorded' \subseteq recorded
      /\ spare' \in Nat /\ born' = born
  BY <1>1, DeleteLockFacts
<1>3. q \in Calls /\ q.at = "delete" /\ q.mu = l
  BY InFacts
<1> HIDE DEF q
<1>4. /\ pc' \in [Threads -> {Idle} \cup Calls] /\ pc'[t] = q
      /\ \A u \in Threads : u # t => pc'[u] = pc[u]
      /\ \A k, S : At(t, k, S)' <=> "delete" \in S /\ l = k
      /\ \A u \in Threads : \A k, S : u # t => (At(u, k, S)' <=> At(u, k, S))
  BY <1>1, <1>3, Moved
<1>5. \A u \in Threads : \A S : "idle" \notin S => ~At(u, l, S)
  BY DEF NotInUse, Busy, At, Idle
<1>6. \A k \in Locks : k # l => (Dying(k)' => Dying(k))
  BY <1>1, <1>4, DyingMeans, DyingMeansNext
<1>7. TypeInv'
  <2>1. edges' \subseteq edges
    BY <1>2
  <2> QED BY <1>1, <1>2, <1>4, <2>1 DEF TypeInv
<1>8. IdsInv'
  <2>1. CurrentIds'
    BY <1>1, <1>2 DEF IdsInv, CurrentIds
  <2>2. EntryIds' /\ EntriesDiffer'
    BY <1>1, <1>2 DEF IdsInv, EntryIds, EntriesDiffer
  <2>3. EdgesLive'
    <3> SUFFICES ASSUME NEW e \in edges' PROVE IsLive(e[1])' /\ IsLive(e[2])'
      BY DEF EdgesLive
    <3>1. /\ e[1] \in Ids /\ e[2] \in Ids /\ IsLive(e[1]) /\ IsLive(e[2])
          /\ e[1] # idOf[l] /\ e[2] # idOf[l]
      BY <1>1, <1>2 DEF TypeInv, IdsInv, EdgesLive
    <3> QED BY <1>2, <3>1, IdFacts DEF IsLive
  <2>4. PathNodesAreRecorded'
    BY <1>1, <1>2 DEF IdsInv, PathNodesAreRecorded
  <2> QED BY <2>1, <2>2, <2>3, <2>4 DEF IdsInv
<1>9. CallInv'
  <2>1. RealInv'
    BY <1>1 DEF CallInv, RealInv
  <2>2. WatchedInv'
    <3> SUFFICES ASSUME NEW u \in Threads, NEW k \in Locks,
                        At(u, k, {"lock", "locked", "try"})', pc'[u].id # NoId
                 PROVE  /\ pc'[u].id = idOf'[k] /\ k \notin Ignored
                        /\ Len(held[u]) < MAX_LOCKS_PER_THREAD
      BY <1>1 DEF WatchedInv
    <3>1. u # t
      BY <1>4
    <3>2. At(u, k, {"lock", "locked", "try"}) /\ pc'[u] = pc[u]
      BY <1>4, <3>1
    <3>3. k # l
      BY <1>5, <3>2
    <3> QED BY <1>1, <1>2, <3>2, <3>3 DEF CallInv, WatchedInv
  <2>3. UnwatchedInv'
    BY <1>1, <1>4 DEF CallInv, UnwatchedInv
  <2>4. WaitInv'
    BY <1>1, <1>4 DEF CallInv, WaitInv
  <2>5. DyingAlone'
    <3> SUFFICES ASSUME NEW v \in Threads, NEW u \in Threads, NEW k \in Locks,
                        At(v, k, {"delete"})',
                        At(u, k, {"lock", "locked", "try", "wait", "delete"})'
                 PROVE  v = u
      BY DEF DyingAlone
    <3>1. CASE k = l
      BY <1>4, <1>5, <3>1
    <3>2. CASE k # l
      BY <1>1, <1>4, <3>2 DEF CallInv, DyingAlone
    <3> QED BY <3>1, <3>2
  <2> QED BY <2>1, <2>2, <2>3, <2>4, <2>5 DEF CallInv
<1>10. OwnedIfNoted'
  <2> SUFFICES ASSUME NEW u \in Threads, NEW k \in Locks, NEW c \in 1 .. MaxDepth, Noted(u, k, c)'
               PROVE  /\ k \notin Ignored /\ ~Dying(k)'
                      /\ \/ owner[k] = u /\ c + Uncounted(u, k)' <= depth[k]
                         \/ At(u, k, {"wait"})' /\ c = 1
    BY <1>1 DEF OwnedIfNoted
  <2>1. Has(held[u], idOf'[k], c)
    BY <1>1 DEF Noted
  <2>2. k # l
    <3>1. \A i \in DOMAIN held[u] : held[u][i].id # NoId
      BY <1>1, TableFacts, IdFacts DEF TypeInv
    <3> QED BY <1>2, <2>1, <3>1 DEF Has
  <2>3. Noted(u, k, c)
    BY <1>2, <2>1, <2>2 DEF Noted
  <2>4. /\ k \notin Ignored /\ ~Dying(k)'
        /\ \/ owner[k] = u /\ c + Uncounted(u, k) <= depth[k]
           \/ At(u, k, {"wait"}) /\ c = 1
    BY <1>1, <1>6, <2>2, <2>3 DEF OwnedIfNoted
  <2>5. CASE u # t
    BY <1>4, <2>4, <2>5 DEF Uncounted
  <2>6. CASE u = t
    <3>1. ~At(t, k, {"wait"}) /\ ~At(t, k, {"locked", "unlock"})
      BY <1>1, NowhereWhenIdle
    <3>2. ~At(t, k, {"locked", "unlock"})'
      BY <1>4
    <3> QED BY <2>4, <2>6, <3>1, <3>2 DEF Uncounted
  <2> QED BY <2>5, <2>6
<1> QED BY <1>7, <1>8, <1>9, <1>10 DEF TableInv

(* Nothing the tables depend on changes.                                   *)
LEMMA TablesFrame ==
    ASSUME TableInv, ignore_lock' \in [Threads -> 0 .. MaxIgnore],
           ignore_unlock' \in [Threads -> 0 .. MaxIgnore],
           UNCHANGED <<owner, depth, pc, held, start, idOf, born, recorded, spare, edges,
                       potential, other, order, inverted>>
    PROVE  TableInv'
<1>1. TypeInv /\ IdsInv /\ CallInv /\ OwnedIfNoted
  BY DEF TableInv
<1>2. TypeInv'
  BY <1>1 DEF TypeInv
<1>3. IdsInv'
  BY <1>1, IdsFrame
<1>4. CallInv'
  <2>1. RealInv' /\ WatchedInv'
    BY <1>1 DEF CallInv, RealInv, WatchedInv, At
  <2>2. UnwatchedInv' /\ WaitInv' /\ DyingAlone'
    BY <1>1 DEF CallInv, UnwatchedInv, WaitInv, DyingAlone, At
  <2> QED BY <2>1, <2>2 DEF CallInv
<1>5. OwnedIfNoted'
  <2>1. \A k \in Locks : Dying(k)' <=> Dying(k)
    BY DEF Dying, Busy
  <2>2. \A u \in Threads, k \in Locks : /\ Uncounted(u, k)' = Uncounted(u, k)
                                        /\ At(u, k, {"wait"})' <=> At(u, k, {"wait"})
                                        /\ \A c : Noted(u, k, c)' <=> Noted(u, k, c)
    BY DEF Uncounted, At, Noted
  <2> QED BY <1>1, <2>1, <2>2 DEF OwnedIfNoted
<1> QED BY <1>2, <1>3, <1>4, <1>5 DEF TableInv

LEMMA AnnouncingTables ==
    ASSUME TableInv, NEW t \in Threads, Announcing(t)
    PROVE  TableInv'
<1>1. IgnoreNextUnlock(t) \/ IgnoreNextLock(t)
  BY DEF Announcing
<1>2. /\ ignore_lock \in [Threads -> 0 .. MaxIgnore] /\ ignore_unlock \in [Threads -> 0 .. MaxIgnore]
      /\ MaxIgnore \in Nat
  BY MonitorAssumption DEF TableInv, TypeInv
<1>3. CASE IgnoreNextLock(t)
  <2>1. /\ ignore_lock' = [ignore_lock EXCEPT ![t] = ignore_lock[t] + 1]
        /\ ignore_lock[t] < MaxIgnore
        /\ UNCHANGED <<owner, depth, pc, held, start, ignore_unlock, idOf, born, recorded, spare,
                       edges, potential, other, order, inverted>>
    BY <1>3 DEF IgnoreNextLock, real, nodes, results, history
  <2>2. ignore_lock[t] + 1 \in 0 .. MaxIgnore
    BY <1>2, <2>1
  <2>3. ignore_lock' \in [Threads -> 0 .. MaxIgnore]
    BY <1>2, <2>1, <2>2
  <2> QED BY <1>2, <2>1, <2>3, TablesFrame
<1>4. CASE IgnoreNextUnlock(t)
  <2>1. /\ ignore_unlock' = [ignore_unlock EXCEPT ![t] = ignore_unlock[t] + 1]
        /\ ignore_unlock[t] < MaxIgnore
        /\ UNCHANGED <<owner, depth, pc, held, start, ignore_lock, idOf, born, recorded, spare,
                       edges, potential, other, order, inverted>>
    BY <1>4 DEF IgnoreNextUnlock, real, nodes, results, history
  <2>2. ignore_unlock[t] + 1 \in 0 .. MaxIgnore
    BY <1>2, <2>1
  <2>3. ignore_unlock' \in [Threads -> 0 .. MaxIgnore]
    BY <1>2, <2>1, <2>2
  <2> QED BY <1>2, <2>1, <2>3, TablesFrame
<1> QED BY <1>1, <1>3, <1>4

-----------------------------------------------------------------------------
(* The steps of a thread, and the first results.                           *)

AnyStep(t) == \/ Blocking(t) \/ TryingInRoom(t) \/ Waiting(t)
              \/ Announcing(t) \/ Misusing(t)

(* The same, call by call, with what the program keeps to.                 *)
CallOf(t, l) ==
    \/ l \notin Ignored /\ ignore_lock[t] = 0 /\ BeforeLock(t, l)
    \/ l \notin Ignored /\ BeforeLockFull(t, l)
    \/ l \in Ignored /\ BeforeLockIgnored(t, l)
    \/ l \in Ignored /\ AfterLockIgnored(t, l)
    \/ l \notin Ignored /\ pc[t] = Idle /\ AfterLock(t, l)
    \/ l \notin Ignored /\ NotInUse(l) /\ DeleteLock(t, l)
    \/ l \notin Ignored /\ Len(held[t]) < MAX_LOCKS_PER_THREAD /\ BeforeTryLock(t, l)
    \/ l \notin Ignored /\ CndWait(t, l)
StepOf(t) == \/ RealLock(t) \/ InLock(t) \/ RealUnlock(t) \/ RealDelete(t)
             \/ RealTryLock(t) \/ CndWake(t) \/ Announcing(t)
             \/ \E l \in Locks : CallOf(t, l)

LEMMA StepByStep ==
    ASSUME TableInv, NEW t \in Threads, AnyStep(t)
    PROVE  StepOf(t)
<1>1. /\ ignore_lock[t] \in Nat /\ ignore_unlock[t] \in Nat /\ Ignored \subseteq Locks
  BY MonitorAssumption DEF TableInv, TypeInv
<1>2. CASE Blocking(t)
  <2>1. ASSUME NEW l \in Locks, Announced(l, ignore_lock[t]),
               BeforeLock(t, l) \/ BeforeLockFull(t, l) \/ BeforeLockIgnored(t, l)
        PROVE  CallOf(t, l)
    <3>1. CASE BeforeLock(t, l)
      <4>1. ignore_lock[t] = 0
        BY <3>1 DEF BeforeLock
      <4> QED BY <1>1, <2>1, <3>1, <4>1 DEF CallOf, Announced
    <3>2. CASE BeforeLockFull(t, l)
      <4>1. ignore_lock[t] = 0
        BY <3>2 DEF BeforeLockFull
      <4> QED BY <1>1, <2>1, <3>2, <4>1 DEF CallOf, Announced
    <3>3. CASE BeforeLockIgnored(t, l)
      <4>1. ignore_lock[t] > 0
        BY <3>3 DEF BeforeLockIgnored
      <4> QED BY <2>1, <3>3, <4>1 DEF CallOf, Announced
    <3> QED BY <2>1, <3>1, <3>2, <3>3
  <2>2. ASSUME NEW l \in Locks, Announced(l, ignore_unlock[t]), MayRelease(t, l),
               AfterLock(t, l) \/ AfterLockIgnored(t, l)
        PROVE  CallOf(t, l)
    <3>1. CASE AfterLock(t, l)
      <4>1. ignore_unlock[t] = 0 /\ pc[t] = Idle
        BY <2>2, <3>1 DEF AfterLock, MayRelease
      <4> QED BY <1>1, <2>2, <3>1, <4>1 DEF CallOf, Announced
    <3>2. CASE AfterLockIgnored(t, l)
      <4>1. ignore_unlock[t] > 0
        BY <3>2 DEF AfterLockIgnored
      <4> QED BY <2>2, <3>2, <4>1 DEF CallOf, Announced
    <3> QED BY <2>2, <3>1, <3>2
  <2>3. ASSUME NEW l \in Locks, l \notin Ignored, Unused(l), DeleteLock(t, l)
        PROVE  CallOf(t, l)
    BY <2>3 DEF CallOf, Unused
  <2> QED BY <1>2, <2>1, <2>2, <2>3 DEF Blocking, StepOf
<1>3. CASE TryingInRoom(t)
  <2>1. ASSUME NEW l \in Locks \ Ignored, BeforeTryLock(t, l)
        PROVE  CallOf(t, l)
    <3>1. Len(held[t]) < MAX_LOCKS_PER_THREAD
      BY <1>3, <2>1 DEF TryingInRoom, BeforeTryLock, MayAcquire
    <3> QED BY <2>1, <3>1 DEF CallOf
  <2> QED BY <1>3, <2>1 DEF TryingInRoom, Trying, StepOf
<1>4. CASE Waiting(t)
  BY <1>4 DEF Waiting, StepOf, CallOf
<1>5. CASE Announcing(t)
  BY <1>5 DEF StepOf
<1>6. CASE Misusing(t)
  BY <1>6 DEF Misusing, StepOf, CallOf
<1> QED BY <1>2, <1>3, <1>4, <1>5, <1>6 DEF AnyStep

LEMMA CallTables ==
    ASSUME TableInv, NEW t \in Threads, NEW l \in Locks, CallOf(t, l)
    PROVE  TableInv'
<1>1. CASE l \notin Ignored /\ BeforeLock(t, l)
  BY <1>1, BeforeLockTables
<1>2. CASE BeforeLockFull(t, l)
  BY <1>2, BeforeLockFullTables
<1>3. CASE l \in Ignored /\ BeforeLockIgnored(t, l)
  BY <1>3, BeforeLockIgnoredTables
<1>4. CASE l \in Ignored /\ AfterLockIgnored(t, l)
  BY <1>4, AfterLockIgnoredTables
<1>5. CASE pc[t] = Idle /\ AfterLock(t, l)
  BY <1>5, AfterLockTables
<1>6. CASE NotInUse(l) /\ DeleteLock(t, l)
  BY <1>6, DeleteLockTables
<1>7. CASE l \notin Ignored /\ Len(held[t]) < MAX_LOCKS_PER_THREAD /\ BeforeTryLock(t, l)
  BY <1>7, BeforeTryLockTables
<1>8. CASE CndWait(t, l)
  BY <1>8, CndWaitTables
<1> QED BY <1>1, <1>2, <1>3, <1>4, <1>5, <1>6, <1>7, <1>8 DEF CallOf

LEMMA StepTables ==
    ASSUME TableInv, NEW t \in Threads, AnyStep(t)
    PROVE  TableInv'
<1>1. StepOf(t)
  BY StepByStep
<1>2. CASE RealLock(t) \/ InLock(t) \/ RealUnlock(t) \/ RealDelete(t)
  BY <1>2, RealLockTables, InLockTables, RealUnlockTables, RealDeleteTables
<1>3. CASE RealTryLock(t) \/ CndWake(t) \/ Announcing(t)
  BY <1>3, RealTryLockTables, CndWakeTables, AnnouncingTables
<1>4. CASE \E l \in Locks : CallOf(t, l)
  BY <1>4, CallTables
<1> QED BY <1>1, <1>2, <1>3, <1>4 DEF StepOf

LEMMA StutterTables ==
    ASSUME TableInv, UNCHANGED vars
    PROVE  TableInv'
<1>1. /\ UNCHANGED <<owner, depth, pc, held, start, idOf, born, recorded, spare, edges,
                     potential, other, order, inverted, ignore_lock, ignore_unlock>>
  BY DEF vars, real, ignores, nodes, results, history
<1>2. ignore_lock' \in [Threads -> 0 .. MaxIgnore] /\ ignore_unlock' \in [Threads -> 0 .. MaxIgnore]
  BY <1>1 DEF TableInv, TypeInv
<1> QED BY <1>1, <1>2, TablesFrame

(* The tables of held locks, the ids in them and the real owners agree in  *)
(* every program SpecAll allows, the misused locks included.               *)
THEOREM TablesAgree == SpecAll => []TableInv
<1>1. TableInv /\ [NextAll]_vars => TableInv'
  BY StepTables, StutterTables DEF NextAll, AnyStep
<1> QED BY <1>1, InitTables, PTL DEF SpecAll

(* Each node a refused edge's report goes through has a recorded thread    *)
(* (assert in extra_infos).                                                *)
THEOREM PathNodesKnown == SpecAll => []PathNodesAreRecorded
<1>1. TableInv => PathNodesAreRecorded
  BY DEF TableInv, IdsInv
<1> QED BY <1>1, TablesAgree, PTL

(* No step but after_lock begins the release of a lock its thread does not *)
(* own, and then the lock has no entry.                                    *)
LEMMA ForeignRelease ==
    ASSUME TableInv, NEW t \in Threads, NEW l \in Locks, pc[t] = Idle, owner[l] # t,
           AfterLock(t, l)
    PROVE  other'
<1>1. ~At(t, l, {"wait"})
  BY NowhereWhenIdle
<1>2. \A c \in 1 .. MaxDepth : ~Noted(t, l, c)
  BY <1>1 DEF TableInv, OwnedIfNoted
<1> QED BY <1>2, AfterLockFacts

LEMMA ReleaseBegins ==
    ASSUME TableInv, NEW t \in Threads, NEW l \in Locks, NEW u \in Threads, AnyStep(u),
           pc[t] = Idle, owner[l] # t, pc'[t] = In("unlock", l, NoId)
    PROVE  other'
<1>1. pc \in [Threads -> {Idle} \cup Calls] /\ StepOf(u)
  BY StepByStep DEF TableInv, TypeInv
<1>2. pc'[t].at = "unlock" /\ pc'[t].mu = l
  BY DEF In
<1>3. Idle.at = "idle"
  BY DEF Idle
<1>4. ASSUME NEW q, Goto(u, q)
      PROVE  q.at = "unlock" /\ q.mu = l /\ u = t
  <2>1. pc' = [pc EXCEPT ![u] = q]
    BY <1>4 DEF Goto
  <2> QED BY <1>1, <1>2, <1>3, <2>1
<1>5. ASSUME NEW at, NEW k, NEW id, Goto(u, In(at, k, id))
      PROVE  at = "unlock" /\ k = l /\ u = t
  BY <1>4, <1>5 DEF In
<1>6. ~RealLock(u) /\ ~RealTryLock(u)
  BY <1>3, <1>4 DEF RealLock, RealTryLock
<1>7. ~InLock(u) /\ ~RealUnlock(u) /\ ~RealDelete(u) /\ ~CndWake(u)
  BY <1>3, <1>4 DEF InLock, RealUnlock, RealDelete, CndWake
<1>8. ~Announcing(u)
  BY <1>2, <1>3 DEF Announcing, IgnoreNextLock, IgnoreNextUnlock
<1>9. PICK k \in Locks : CallOf(u, k)
  BY <1>1, <1>6, <1>7, <1>8 DEF StepOf
<1>10. AfterLock(u, k) \/ AfterLockIgnored(u, k)
  <2>1. \A id : /\ ~Goto(u, In("lock", k, id)) /\ ~Goto(u, In("try", k, id))
               /\ ~Goto(u, In("delete", k, id)) /\ ~Goto(u, In("wait", k, id))
    BY <1>5
  <2>2. ~BeforeLock(u, k) /\ ~BeforeLockFull(u, k) /\ ~BeforeLockIgnored(u, k)
    BY <2>1 DEF BeforeLock, BeforeLockFull, BeforeLockIgnored
  <2>3. ~DeleteLock(u, k) /\ ~BeforeTryLock(u, k) /\ ~CndWait(u, k)
    BY <2>1 DEF DeleteLock, BeforeTryLock, CndWait
  <2> QED BY <1>9, <2>2, <2>3 DEF CallOf
<1>11. k = l /\ u = t
  BY <1>5, <1>10 DEF AfterLock, AfterLockIgnored
<1>12. ~AfterLockIgnored(u, k)
  BY <1>11 DEF AfterLockIgnored, MayRelease
<1> QED BY <1>10, <1>11, <1>12, ForeignRelease

(* after_lock reports every release by a thread that does not own the lock. *)
THEOREM ForeignReleases == SpecAll => ForeignReleaseIsReported
<1> DEFINE Reported == \A t \in Threads, l \in Locks :
               pc[t] = Idle /\ owner[l] # t /\ pc'[t] = In("unlock", l, NoId) => other'
<1>1. TableInv /\ [NextAll]_vars => [Reported]_vars
  BY ReleaseBegins DEF NextAll, AnyStep
<1> QED BY <1>1, TablesAgree, PTL DEF SpecAll, ForeignReleaseIsReported

-----------------------------------------------------------------------------
(* The tables miss nothing.                                                *)

PairNoted(t, l) ==
    /\ owner[l] = t /\ depth[l] > Uncounted(t, l) => Noted(t, l, depth[l] - Uncounted(t, l))
    /\ At(t, l, {"wait"}) => Noted(t, l, 1)

(* A step of t that concerns l: only the pair of the two needs a look.     *)
LEMMA NotedStep ==
    ASSUME TableInv, NotedIfOwned, pc' \in [Threads -> {Idle} \cup Calls],
           NEW t \in Threads, NEW l \in Locks,
           pc[t] = Idle \/ pc[t].mu = l, pc'[t] = Idle \/ pc'[t].mu = l,
           \A u \in Threads : u # t => pc'[u] = pc[u],
           other \in BOOLEAN, other => other',
           \A k \in Locks : k # l => owner'[k] = owner[k] /\ depth'[k] = depth[k],
           \A u \in Threads : u # t /\ owner'[l] = u => owner[l] = u /\ depth'[l] = depth[l],
           \A u \in Threads, k \in Locks : (u # t \/ k # l) /\ ~Dying(k)' =>
               \A c : Noted(u, k, c) => Noted(u, k, c)',
           pc[t].at = "delete" => \A u \in Threads : u # t => owner'[l] # u /\ ~At(u, l, {"wait"}),
           ~other' /\ l \notin Ignored /\ ~Dying(l)' => PairNoted(t, l)'
    PROVE  NotedIfOwned'
<1>1. pc \in [Threads -> {Idle} \cup Calls] /\ Idle.at = "idle"
  BY DEF TableInv, TypeInv, Idle
<1> SUFFICES ASSUME ~other', NEW u \in Threads, NEW k \in Locks, k \notin Ignored, ~Dying(k)'
             PROVE  PairNoted(u, k)'
  BY DEF NotedIfOwned, PairNoted
<1>2. CASE u = t /\ k = l
  BY <1>2
<1>3. CASE u # t \/ k # l
  <2>1. /\ At(u, k, {"wait"})' => At(u, k, {"wait"})
        /\ At(u, k, {"locked", "unlock"})' <=> At(u, k, {"locked", "unlock"})
    <3>1. CASE u # t
      BY <3>1 DEF At
    <3>2. CASE u = t /\ k # l
      BY <1>1, <3>2 DEF At
    <3> QED BY <1>3, <3>1, <3>2
  <2>2. Uncounted(u, k)' = Uncounted(u, k)
    BY <2>1 DEF Uncounted
  <2>3. \A c : Noted(u, k, c) => Noted(u, k, c)'
    BY <1>3
  <2>4. CASE ~Dying(k)
    <3>1. PairNoted(u, k)
      BY <2>4 DEF NotedIfOwned, PairNoted
    <3>2. owner'[k] = u => owner[k] = u /\ depth'[k] = depth[k]
      BY <1>3
    <3> QED BY <2>1, <2>2, <2>3, <3>1, <3>2 DEF PairNoted
  <2>5. CASE Dying(k)
    <3>1. PICK v \in Threads : At(v, k, {"delete"})
      BY <1>1, <2>5, DyingMeans
    <3>2. v = t
      <4>1. CASE v # t
        <5>1. At(v, k, {"delete"})'
          BY <3>1, <4>1 DEF At
        <5> QED BY <5>1, DyingMeansNext
      <4> QED BY <4>1
    <3>3. pc[t].at = "delete" /\ k = l /\ u # t
      BY <1>1, <1>3, <3>1, <3>2 DEF At
    <3> QED BY <2>1, <3>3 DEF PairNoted
  <2> QED BY <2>4, <2>5
<1> QED BY <1>2, <1>3

(* The frame of the steps that leave the real locks alone.                 *)
LEMMA NotedStepInside ==
    ASSUME TableInv, NotedIfOwned, NEW t \in Threads, NEW l \in Locks,
           NEW q \in {Idle} \cup Calls, Goto(t, q), q = Idle \/ q.mu = l,
           pc[t] = Idle \/ pc[t].mu = l, pc[t].at # "delete",
           UNCHANGED <<owner, depth>>, other => other',
           \A u \in Threads, k \in Locks : (u # t \/ k # l) /\ ~Dying(k)' =>
               \A c : Noted(u, k, c) => Noted(u, k, c)',
           ~other' /\ l \notin Ignored /\ ~Dying(l)' => PairNoted(t, l)'
    PROVE  NotedIfOwned'
<1>1. pc \in [Threads -> {Idle} \cup Calls] /\ other \in BOOLEAN
  BY DEF TableInv, TypeInv
<1>2. /\ pc' \in [Threads -> {Idle} \cup Calls] /\ pc'[t] = q
      /\ \A u \in Threads : u # t => pc'[u] = pc[u]
  BY <1>1, Moved
<1> QED BY <1>1, <1>2, NotedStep

(* A thread outside the calls that count on nothing has a full account.    *)
LEMMA CountedPair ==
    ASSUME NotedIfOwned, ~other, NEW t \in Threads, NEW l \in Locks, l \notin Ignored, ~Dying(l),
           owner[l] = t, ~At(t, l, {"locked", "unlock"}), depth[l] \in Nat \ {0}
    PROVE  Noted(t, l, depth[l])
<1>1. Uncounted(t, l) = 0
  BY DEF Uncounted
<1>2. depth[l] > Uncounted(t, l) /\ depth[l] - Uncounted(t, l) = depth[l]
  BY <1>1
<1> QED BY <1>2 DEF NotedIfOwned

LEMMA BeforeLockNoted ==
    ASSUME TableInv, NotedIfOwned, NEW t \in Threads, NEW l \in Locks,
           BeforeLock(t, l) \/ BeforeTryLock(t, l)
    PROVE  NotedIfOwned'
<1>1. /\ TypeInv /\ CurrentIds /\ EntryIds /\ pc[t] = Idle
      /\ UNCHANGED <<owner, depth, held, other>>
      /\ pc \in [Threads -> {Idle} \cup Calls]
  BY DEF TableInv, TypeInv, IdsInv, BeforeLock, BeforeTryLock, MayAcquire, real, results
<1>2. PICK traced \in BOOLEAN, at \in {"lock", "try"} :
         GetId(l, traced) /\ Goto(t, In(at, l, IdFor(l)))
  BY DEF BeforeLock, BeforeTryLock
<1>3. /\ IdFor(l) \in Ids
      /\ \A u \in Threads, k \in Locks : \A c : Noted(u, k, c)' <=> Noted(u, k, c)
  <2>1. IdFor(l) \in Ids
    BY <1>1, <1>2, GetIdFacts
  <2>2. \A u \in Threads, k \in Locks : \A c : Has(held[u], idOf'[k], c) <=> Noted(u, k, c)
    BY <1>1, <1>2, GetIdKeeps
  <2> QED BY <1>1, <2>1, <2>2 DEF Noted
<1> DEFINE q == In(at, l, IdFor(l))
<1>4. q \in {Idle} \cup Calls /\ q.mu = l /\ q.at = at
  BY <1>3, InFacts
<1>5. Goto(t, q)
  BY <1>2
<1> HIDE DEF q
<1>6. pc'[t] = q
  BY <1>1, <1>4, <1>5, Moved
<1>7. Idle.at = "idle"
  BY DEF Idle
<1>8. \A k \in Locks : Dying(k) => Dying(k)'
  BY <1>1, <1>4, <1>5, Moved, DyingMeans, DyingMeansNext, NowhereWhenIdle
<1>9. ~other' /\ l \notin Ignored /\ ~Dying(l)' => PairNoted(t, l)'
  <2> SUFFICES ASSUME ~other, l \notin Ignored, ~Dying(l) PROVE PairNoted(t, l)'
    BY <1>1, <1>8
  <2>1. PairNoted(t, l)
    BY DEF NotedIfOwned, PairNoted
  <2>2. ~At(t, l, {"locked", "unlock"})' /\ ~At(t, l, {"wait"})'
    BY <1>4, <1>6 DEF At
  <2>3. ~At(t, l, {"locked", "unlock"})
    BY <1>1, NowhereWhenIdle
  <2>4. Uncounted(t, l)' = Uncounted(t, l)
    BY <2>2, <2>3 DEF Uncounted
  <2> QED BY <1>1, <1>3, <2>1, <2>2, <2>4 DEF PairNoted
<1> QED BY <1>1, <1>3, <1>4, <1>5, <1>7, <1>9, NotedStepInside

(* A call the monitor was told to ignore is of a lock it does not look at. *)
LEMMA IgnoredNoted ==
    ASSUME TableInv, NotedIfOwned, NEW t \in Threads, NEW l \in Ignored,
           BeforeLockIgnored(t, l) \/ AfterLockIgnored(t, l)
    PROVE  NotedIfOwned'
<1>0. l \in Locks
  BY MonitorAssumption
<1>1. pc[t] = Idle /\ UNCHANGED <<owner, depth, held, idOf, other>>
  BY DEF BeforeLockIgnored, AfterLockIgnored, MayAcquire, MayRelease, real, nodes, results
<1>2. PICK at \in {"lock", "unlock"} : Goto(t, In(at, l, NoId))
  BY DEF BeforeLockIgnored, AfterLockIgnored
<1> DEFINE q == In(at, l, NoId)
<1>3. q \in {Idle} \cup Calls /\ q.mu = l
  BY <1>0, InFacts
<1>4. Goto(t, q)
  BY <1>2
<1> HIDE DEF q
<1>5. \A u \in Threads, k \in Locks : \A c : Noted(u, k, c)' <=> Noted(u, k, c)
  BY <1>1 DEF Noted
<1>6. Idle.at = "idle"
  BY DEF Idle
<1> QED BY <1>0, <1>1, <1>3, <1>4, <1>5, <1>6, NotedStepInside

LEMMA InLockNoted ==
    ASSUME TableInv, NotedIfOwned, NEW t \in Threads, NEW l \in Locks, l = pc[t].mu, InLock(t)
    PROVE  NotedIfOwned'
<1>1. /\ OwnedIfNoted /\ CurrentIds /\ pc[t].at = "locked" /\ Goto(t, Idle)
      /\ UNCHANGED <<owner, depth, idOf, other>> /\ pc \in [Threads -> {Idle} \cup Calls]
  BY DEF TableInv, TypeInv, IdsInv, InLock, real, nodes, results
<1>2. /\ l \in Locks /\ At(t, l, {"locked"}) /\ owner[l] = t /\ l \notin Ignored
      /\ ~Dying(l) /\ depth[l] \in 1 .. MaxDepth
  BY <1>1, InLockCall
<1>3. /\ \A u \in Threads : u # t => held'[u] = held[u]
      /\ \A k \in Locks : k # l => \A c : Has(held'[t], idOf[k], c) <=> Noted(t, k, c)
      /\ \A c \in Nat : Noted(t, l, c) => Has(held'[t], idOf[l], c + 1)
      /\ (\A c \in 1 .. MaxDepth : ~Noted(t, l, c)) => Has(held'[t], idOf[l], 1)
  BY <1>2, InLockFacts
<1>4. ~At(t, l, {"wait"}) /\ Uncounted(t, l) = 1
  BY <1>2 DEF At, Uncounted
<1>5. Idle.at = "idle"
  BY DEF Idle
<1>6. pc'[t] = Idle
  BY <1>1, Moved
<1>7. ~At(t, l, {"wait"})' /\ Uncounted(t, l)' = 0
  BY <1>5, <1>6 DEF At, Uncounted
<1>8. \A u \in Threads, k \in Locks : u # t \/ k # l => \A c : Noted(u, k, c) => Noted(u, k, c)'
  BY <1>1, <1>3 DEF Noted
<1>9. ~other => Noted(t, l, depth[l])'
  <2> SUFFICES ASSUME ~other PROVE Has(held'[t], idOf[l], depth[l])
    BY <1>1 DEF Noted
  <2>1. CASE depth[l] = 1
    <3>1. \A c \in 1 .. MaxDepth : ~Noted(t, l, c)
      <4> SUFFICES ASSUME NEW c \in 1 .. MaxDepth, Noted(t, l, c) PROVE FALSE
        OBVIOUS
      <4>1. c + 1 <= 1
        BY <1>1, <1>2, <1>4, <2>1 DEF OwnedIfNoted
      <4> QED BY <4>1
    <3> QED BY <1>3, <2>1, <3>1
  <2>2. CASE depth[l] # 1
    <3>1. depth[l] > 1 /\ depth[l] - 1 \in Nat /\ depth[l] - 1 + 1 = depth[l]
      BY <1>2, <2>2, MonitorAssumption
    <3>2. Noted(t, l, depth[l] - 1)
      BY <1>2, <1>4, <3>1 DEF NotedIfOwned
    <3>3. Has(held'[t], idOf[l], depth[l] - 1 + 1)
      BY <1>3, <3>1, <3>2
    <3> QED BY <3>1, <3>3
  <2> QED BY <2>1, <2>2
<1>10. depth[l] - 0 = depth[l]
  BY <1>2
<1>11. ~other' => PairNoted(t, l)'
  BY <1>1, <1>7, <1>9, <1>10 DEF PairNoted
<1> QED BY <1>1, <1>2, <1>8, <1>11, NotedStepInside

LEMMA AfterLockNoted ==
    ASSUME TableInv, NotedIfOwned, NEW t \in Threads, NEW l \in Locks, pc[t] = Idle,
           AfterLock(t, l)
    PROVE  NotedIfOwned'
<1> DEFINE q == In("unlock", l, NoId)
<1>1. OwnedIfNoted /\ UNCHANGED <<owner, depth>> /\ Goto(t, q)
      /\ pc \in [Threads -> {Idle} \cup Calls] /\ depth[l] \in Nat
  BY MonitorAssumption DEF TableInv, TypeInv, AfterLock, real
<1>2. /\ \A u \in Threads, k \in Locks : u # t \/ k # l =>
            \A c : Noted(u, k, c)' <=> Noted(u, k, c)
      /\ \/ other'
         \/ /\ other' = other /\ \E c \in 1 .. MaxDepth : Noted(t, l, c)
            /\ \A c \in Nat \ {0} : Noted(t, l, c + 1) => Noted(t, l, c)'
  BY AfterLockFacts DEF Noted
<1>3. q \in {Idle} \cup Calls /\ q.mu = l /\ q.at = "unlock"
  BY InFacts
<1> HIDE DEF q
<1>4. pc'[t] = q /\ Idle.at = "idle"
  BY <1>1, <1>3, Moved DEF Idle
<1>5. ~At(t, l, {"wait"}) /\ ~At(t, l, {"locked", "unlock"}) /\ Uncounted(t, l) = 0
  BY NowhereWhenIdle DEF Uncounted
<1>6. ~At(t, l, {"wait"})' /\ Uncounted(t, l)' = 1
  BY <1>3, <1>4 DEF At, Uncounted
<1>7. ~other' => PairNoted(t, l)'
  <2> SUFFICES ASSUME ~other', depth[l] > 1 PROVE Noted(t, l, depth[l] - 1)'
    BY <1>1, <1>6 DEF PairNoted
  <2>1. PICK c \in 1 .. MaxDepth : Noted(t, l, c)
    BY <1>2
  <2>2. l \notin Ignored /\ ~Dying(l) /\ owner[l] = t
    BY <1>1, <1>5, <2>1 DEF OwnedIfNoted
  <2>3. Noted(t, l, depth[l])
    BY <1>1, <1>2, <1>5, <2>2, CountedPair
  <2>4. PICK n \in Nat \ {0} : n = depth[l] - 1 /\ n + 1 = depth[l]
    BY <1>1
  <2>5. Noted(t, l, n)'
    BY <1>2, <2>3, <2>4
  <2> QED BY <1>1, <2>4, <2>5
<1>8. other => other'
  BY DEF AfterLock
<1> QED BY <1>1, <1>2, <1>3, <1>4, <1>7, <1>8, NotedStepInside

LEMMA DeleteLockNoted ==
    ASSUME TableInv, NotedIfOwned, NEW t \in Threads, NEW l \in Locks, DeleteLock(t, l)
    PROVE  NotedIfOwned'
<1> DEFINE q == In("delete", l, NoId)
<1>1. /\ TypeInv /\ pc[t] = Idle /\ UNCHANGED <<owner, depth, held, other>> /\ Goto(t, q)
      /\ pc \in [Threads -> {Idle} \cup Calls]
  BY DEF TableInv, TypeInv, DeleteLock, real
<1>2. idOf'[l] = NoId /\ \A k \in Locks : k # l => idOf'[k] = idOf[k]
  BY <1>1, DeleteLockFacts
<1>3. q \in {Idle} \cup Calls /\ q.mu = l /\ q.at = "delete" /\ Idle.at = "idle"
  BY InFacts DEF Idle
<1> HIDE DEF q
<1>4. pc' \in [Threads -> {Idle} \cup Calls] /\ pc'[t] = q
  BY <1>1, <1>3, Moved
<1>5. Dying(l)'
  BY <1>3, <1>4, DyingMeansNext DEF At
<1>6. \A u \in Threads, k \in Locks : (u # t \/ k # l) /\ ~Dying(k)' =>
         \A c : Noted(u, k, c) => Noted(u, k, c)'
  <2>1. \A u \in Threads, k \in Locks : k # l => \A c : Noted(u, k, c) => Noted(u, k, c)'
    BY <1>1, <1>2 DEF Noted
  <2> QED BY <1>5, <2>1
<1> QED BY <1>1, <1>3, <1>5, <1>6, NotedStepInside

LEMMA GrantedNoted ==
    ASSUME TableInv, NotedIfOwned, NEW t \in Threads, NEW l \in Locks, At(t, l, {"lock", "try"}),
           owner[l] \in {NoThread, t}, owner' = [owner EXCEPT ![l] = t],
           depth' = [depth EXCEPT ![l] = @ + 1], other' = other, UNCHANGED <<held, idOf>>,
           Goto(t, IF pc[t].id = NoId THEN Idle ELSE [pc[t] EXCEPT !.at = "locked"])
    PROVE  NotedIfOwned'
<1> DEFINE q == IF pc[t].id = NoId THEN Idle ELSE [pc[t] EXCEPT !.at = "locked"]
<1>1. /\ CallInv /\ pc \in [Threads -> {Idle} \cup Calls] /\ other \in BOOLEAN
      /\ owner \in [Locks -> Threads \cup {NoThread}] /\ depth \in [Locks -> Nat]
      /\ pc[t].mu = l /\ pc[t].at \in {"lock", "try"} /\ pc[t].at # "idle" /\ Idle.at = "idle"
      /\ NoThread \notin Threads
  BY MonitorAssumption DEF TableInv, TypeInv, At, Idle
<1>2. /\ q \in {Idle} \cup Calls
      /\ pc[t].id = NoId => q = Idle
      /\ pc[t].id # NoId => q = In("locked", l, pc[t].id) /\ pc[t].id \in Ids \cup {NoId}
  BY <1>1, PlaceFacts, InFacts
<1>3. Goto(t, q)
  OBVIOUS
<1> HIDE DEF q
<1>4. /\ pc' \in [Threads -> {Idle} \cup Calls] /\ pc'[t] = q
      /\ \A u \in Threads : u # t => pc'[u] = pc[u]
  BY <1>1, <1>2, <1>3, Moved
<1>5. q = Idle \/ q.mu = l
  <2>1. pc[t].id = NoId => q = Idle
    BY <1>2
  <2>2. pc[t].id # NoId => q.mu = l
    BY <1>2, InFacts
  <2> QED BY <2>1, <2>2
<1>6. /\ owner'[l] = t /\ depth'[l] = depth[l] + 1 /\ depth[l] \in Nat
      /\ \A k \in Locks : k # l => owner'[k] = owner[k] /\ depth'[k] = depth[k]
  BY <1>1
<1>7. \A u \in Threads, k \in Locks : \A c : Noted(u, k, c) => Noted(u, k, c)'
  BY DEF Noted
<1>8. ASSUME ~other', l \notin Ignored, ~Dying(l)'
      PROVE  PairNoted(t, l)'
  <2>1. pc[t].id # NoId
    <3>1. At(t, l, {"lock", "locked", "try"})
      BY DEF At
    <3> QED BY <1>1, <1>8, <3>1 DEF CallInv, UnwatchedInv
  <2>2. At(t, l, {"locked", "unlock"})' /\ ~At(t, l, {"wait"})'
    BY <1>2, <1>4, <2>1, InFacts DEF At
  <2>3. Uncounted(t, l)' = 1
    BY <2>2 DEF Uncounted
  <2>4. ~At(t, l, {"locked", "unlock"})
    BY <1>1 DEF At
  <2>5. depth[l] > 0 => Noted(t, l, depth[l])
    <3> SUFFICES ASSUME depth[l] > 0 PROVE Noted(t, l, depth[l])
      OBVIOUS
    <3>1. owner[l] = t /\ depth[l] \in Nat \ {0}
      BY <1>1, <1>6 DEF CallInv, RealInv
    <3>2. ~Dying(l)
      <4>1. \A v \in Threads : At(v, l, {"delete"}) => At(v, l, {"delete"})'
        BY <1>1, <1>4 DEF At
      <4> QED BY <1>1, <1>4, <1>8, <4>1, DyingMeans, DyingMeansNext
    <3> QED BY <1>8, <2>4, <3>1, <3>2, CountedPair
  <2>6. depth[l] + 1 - 1 = depth[l] /\ (depth[l] + 1 > 1 => depth[l] > 0)
    BY <1>6
  <2> QED BY <1>6, <1>7, <2>2, <2>3, <2>5, <2>6 DEF PairNoted
<1>9. \A u \in Threads : u # t /\ owner'[l] = u => owner[l] = u /\ depth'[l] = depth[l]
  BY <1>6
<1> QED BY <1>1, <1>4, <1>5, <1>6, <1>7, <1>8, <1>9, NotedStep

LEMMA RealLockNoted ==
    ASSUME TableInv, NotedIfOwned, NEW t \in Threads, NEW l \in Locks, l = pc[t].mu, RealLock(t)
    PROVE  NotedIfOwned'
<1>1. l \in Locks /\ At(t, l, {"lock", "try"})
  <2>1. pc[t].at \in {"lock", "try"}
    BY DEF RealLock
  <2> QED BY <2>1, AtSome DEF TableInv
<1>2. /\ owner[l] \in {NoThread, t} /\ owner' = [owner EXCEPT ![l] = t]
      /\ depth' = [depth EXCEPT ![l] = @ + 1] /\ other' = other /\ UNCHANGED <<held, idOf>>
      /\ Goto(t, IF pc[t].id = NoId THEN Idle ELSE [pc[t] EXCEPT !.at = "locked"])
  BY DEF RealLock, nodes, results
<1> QED BY <1>1, <1>2, GrantedNoted

LEMMA RealTryLockNoted ==
    ASSUME TableInv, NotedIfOwned, NEW t \in Threads, NEW l \in Locks, l = pc[t].mu, RealTryLock(t)
    PROVE  NotedIfOwned'
<1>1. TypeInv /\ CallInv /\ pc[t].at = "try" /\ UNCHANGED <<held, idOf, other>>
  BY DEF TableInv, RealTryLock, nodes, results
<1>2. l \in Locks /\ At(t, l, {"lock", "try"}) /\ At(t, l, {"lock", "locked", "try"})
  BY <1>1, AtSome DEF At
<1>3. pc[t].id # NoId
  BY <1>1, <1>2 DEF CallInv, UnwatchedInv
<1>4. CASE owner[l] \in {NoThread, t}
  <2>1. /\ owner' = [owner EXCEPT ![l] = t] /\ depth' = [depth EXCEPT ![l] = @ + 1]
        /\ Goto(t, IF pc[t].id = NoId THEN Idle ELSE [pc[t] EXCEPT !.at = "locked"])
    BY <1>3, <1>4 DEF RealTryLock
  <2> QED BY <1>1, <1>2, <1>4, <2>1, GrantedNoted
<1>5. CASE owner[l] \notin {NoThread, t}
  <2>1. UNCHANGED <<owner, depth>> /\ Goto(t, Idle)
    BY <1>5 DEF RealTryLock, real
  <2>2. \A u \in Threads, k \in Locks : \A c : Noted(u, k, c) => Noted(u, k, c)'
    BY <1>1 DEF Noted
  <2>3. pc'[t] = Idle /\ Idle.at = "idle"
    BY <1>1, <2>1, Moved DEF TypeInv, Idle
  <2>4. PairNoted(t, l)'
    BY <1>5, <2>1, <2>3 DEF PairNoted, At
  <2> QED BY <1>1, <1>2, <2>1, <2>2, <2>4, NotedStepInside
<1> QED BY <1>4, <1>5

LEMMA RealUnlockNoted ==
    ASSUME TableInv, NotedIfOwned, NEW t \in Threads, NEW l \in Locks, l = pc[t].mu, RealUnlock(t)
    PROVE  NotedIfOwned'
<1>1. /\ TypeInv /\ CallInv /\ pc[t].at = "unlock" /\ Goto(t, Idle)
      /\ UNCHANGED <<held, idOf, other>> /\ other \in BOOLEAN /\ Idle.at = "idle"
      /\ NoThread \notin Threads
  BY MonitorAssumption DEF TableInv, TypeInv, RealUnlock, nodes, results, Idle
<1>2. l \in Locks /\ At(t, l, {"unlock"}) /\ At(t, l, {"locked", "unlock"}) /\ Uncounted(t, l) = 1
  BY <1>1, AtSome DEF At, Uncounted
<1>3. /\ pc' \in [Threads -> {Idle} \cup Calls] /\ pc'[t] = Idle
      /\ \A u \in Threads : u # t => pc'[u] = pc[u]
  BY <1>1, Moved DEF TypeInv
<1>4. \A u \in Threads, k \in Locks : \A c : Noted(u, k, c) => Noted(u, k, c)'
  BY <1>1 DEF Noted
<1>5. /\ \A k \in Locks : k # l => owner'[k] = owner[k] /\ depth'[k] = depth[k]
      /\ \A u \in Threads : u # t /\ owner'[l] = u => owner[l] = u /\ depth'[l] = depth[l]
      /\ owner'[l] = t => owner[l] = t /\ depth'[l] = depth[l] - 1 /\ depth[l] # 1
  <2>1. CASE owner[l] = t
    <3>1. /\ depth' = [depth EXCEPT ![l] = depth[l] - 1]
          /\ owner' = [owner EXCEPT ![l] = IF depth[l] = 1 THEN NoThread ELSE t]
      BY <2>1 DEF RealUnlock
    <3> QED BY <1>1, <1>2, <2>1, <3>1 DEF TypeInv
  <2>2. CASE owner[l] # t
    <3>1. UNCHANGED <<owner, depth>>
      BY <2>2 DEF RealUnlock, real
    <3> QED BY <2>2, <3>1
  <2> QED BY <2>1, <2>2
<1>6. ASSUME ~other', l \notin Ignored, ~Dying(l)'
      PROVE  PairNoted(t, l)'
  <2>1. Uncounted(t, l)' = 0 /\ ~At(t, l, {"wait"})'
    BY <1>1, <1>3 DEF At, Uncounted
  <2>2. ~Dying(l)
    <3>1. \A v \in Threads : At(v, l, {"delete"}) => At(v, l, {"delete"})'
      BY <1>1, <1>3 DEF At
    <3> QED BY <1>1, <1>3, <1>6, <3>1, DyingMeans, DyingMeansNext DEF TypeInv
  <2> SUFFICES ASSUME owner'[l] = t, depth'[l] > 0 PROVE Noted(t, l, depth[l] - 1)
    BY <1>4, <1>5, <2>1, <1>1, <1>2 DEF PairNoted, TypeInv
  <2>3. owner[l] = t /\ depth[l] > 1
    BY <1>1, <1>2, <1>5, MonitorAssumption DEF TypeInv
  <2> QED BY <1>1, <1>2, <1>6, <2>2, <2>3 DEF NotedIfOwned
<1> QED BY <1>1, <1>2, <1>3, <1>4, <1>5, <1>6, NotedStep

LEMMA RealDeleteNoted ==
    ASSUME TableInv, NotedIfOwned, NEW t \in Threads, NEW l \in Locks, l = pc[t].mu,
           RealDelete(t)
    PROVE  NotedIfOwned'
<1>1. /\ TypeInv /\ CallInv /\ pc[t].at = "delete" /\ Goto(t, Idle)
      /\ owner' = [owner EXCEPT ![l] = NoThread] /\ depth' = [depth EXCEPT ![l] = 0]
      /\ UNCHANGED <<held, idOf, other>> /\ other \in BOOLEAN /\ Idle.at = "idle"
      /\ NoThread \notin Threads
  BY MonitorAssumption DEF TableInv, TypeInv, RealDelete, nodes, results, Idle
<1>2. At(t, l, {"delete"})
  BY <1>1 DEF At
<1>3. /\ pc' \in [Threads -> {Idle} \cup Calls] /\ pc'[t] = Idle
      /\ \A u \in Threads : u # t => pc'[u] = pc[u]
  BY <1>1, Moved DEF TypeInv
<1>4. \A u \in Threads, k \in Locks : \A c : Noted(u, k, c) => Noted(u, k, c)'
  BY <1>1 DEF Noted
<1>5. owner'[l] = NoThread /\ \A k \in Locks : k # l => owner'[k] = owner[k] /\ depth'[k] = depth[k]
  BY <1>1 DEF TypeInv
<1>6. ASSUME NEW u \in Threads, u # t PROVE owner'[l] # u /\ ~At(u, l, {"wait"})
  <2>1. At(u, l, {"wait"}) => At(u, l, {"lock", "locked", "try", "wait", "delete"})
    BY DEF At
  <2> QED BY <1>1, <1>2, <1>5, <1>6, <2>1 DEF CallInv, DyingAlone
<1>7. PairNoted(t, l)'
  BY <1>1, <1>3, <1>5 DEF PairNoted, At
<1> QED BY <1>1, <1>3, <1>4, <1>5, <1>6, <1>7, NotedStep

LEMMA CndWaitNoted ==
    ASSUME TableInv, NotedIfOwned, NEW t \in Threads, NEW l \in Locks, l \notin Ignored,
           CndWait(t, l)
    PROVE  NotedIfOwned'
<1> DEFINE q == In("wait", l, NoId)
<1>1. /\ TypeInv /\ pc[t] = Idle /\ Goto(t, q) /\ ~Dying(l) /\ owner[l] = t /\ depth[l] = 1
      /\ owner' = [owner EXCEPT ![l] = NoThread] /\ depth' = [depth EXCEPT ![l] = 0]
      /\ UNCHANGED <<held, idOf, other>> /\ other \in BOOLEAN /\ Idle.at = "idle"
      /\ NoThread \notin Threads
  BY MonitorAssumption DEF TableInv, TypeInv, CndWait, MayRelease, nodes, results, Idle
<1>2. q \in {Idle} \cup Calls /\ q.mu = l
  BY InFacts
<1> HIDE DEF q
<1>3. /\ pc' \in [Threads -> {Idle} \cup Calls] /\ pc'[t] = q
      /\ \A u \in Threads : u # t => pc'[u] = pc[u]
  BY <1>1, <1>2, Moved DEF TypeInv
<1>4. \A u \in Threads, k \in Locks : \A c : Noted(u, k, c) => Noted(u, k, c)'
  BY <1>1 DEF Noted
<1>5. owner'[l] = NoThread /\ \A k \in Locks : k # l => owner'[k] = owner[k] /\ depth'[k] = depth[k]
  BY <1>1 DEF TypeInv
<1>6. ~other => Noted(t, l, 1)
  <2>1. ~At(t, l, {"locked", "unlock"}) /\ 1 \in Nat \ {0}
    BY <1>1, NowhereWhenIdle
  <2> QED BY <1>1, <2>1, CountedPair
<1>7. ~other' => PairNoted(t, l)'
  BY <1>1, <1>4, <1>5, <1>6 DEF PairNoted
<1> QED BY <1>1, <1>2, <1>3, <1>4, <1>5, <1>7, NotedStep

LEMMA CndWakeNoted ==
    ASSUME TableInv, NotedIfOwned, NEW t \in Threads, NEW l \in Locks, l = pc[t].mu, CndWake(t)
    PROVE  NotedIfOwned'
<1>1. /\ TypeInv /\ CallInv /\ pc[t].at = "wait" /\ Goto(t, Idle) /\ owner[l] = NoThread
      /\ owner' = [owner EXCEPT ![l] = t] /\ depth' = [depth EXCEPT ![l] = 1]
      /\ UNCHANGED <<held, idOf, other>> /\ other \in BOOLEAN /\ Idle.at = "idle"
      /\ NoThread \notin Threads
  BY MonitorAssumption DEF TableInv, TypeInv, CndWake, nodes, results, Idle
<1>2. At(t, l, {"wait"})
  BY <1>1 DEF At
<1>3. /\ pc' \in [Threads -> {Idle} \cup Calls] /\ pc'[t] = Idle
      /\ \A u \in Threads : u # t => pc'[u] = pc[u]
  BY <1>1, Moved DEF TypeInv
<1>4. \A u \in Threads, k \in Locks : \A c : Noted(u, k, c) => Noted(u, k, c)'
  BY <1>1 DEF Noted
<1>5. /\ owner'[l] = t /\ depth'[l] = 1
      /\ \A k \in Locks : k # l => owner'[k] = owner[k] /\ depth'[k] = depth[k]
  BY <1>1 DEF TypeInv
<1>6. ASSUME ~other', l \notin Ignored, ~Dying(l)'
      PROVE  PairNoted(t, l)'
  <2>1. Uncounted(t, l)' = 0 /\ ~At(t, l, {"wait"})'
    BY <1>1, <1>3 DEF At, Uncounted
  <2>2. ~Dying(l)
    <3>1. \A v \in Threads : At(v, l, {"delete"}) => At(v, l, {"delete"})'
      BY <1>1, <1>3 DEF At
    <3> QED BY <1>1, <1>3, <1>6, <3>1, DyingMeans, DyingMeansNext DEF TypeInv
  <2>3. Noted(t, l, 1)
    BY <1>1, <1>2, <1>6, <2>2 DEF NotedIfOwned
  <2> QED BY <1>4, <1>5, <2>1, <2>3 DEF PairNoted
<1> QED BY <1>1, <1>3, <1>4, <1>5, <1>6, NotedStep

LEMMA NotedFrame ==
    ASSUME NotedIfOwned, UNCHANGED <<owner, depth, pc, held, idOf, other>>
    PROVE  NotedIfOwned'
<1>1. \A k \in Locks : Dying(k)' <=> Dying(k)
  BY DEF Dying, Busy
<1>2. \A u \in Threads, k \in Locks : /\ Uncounted(u, k)' = Uncounted(u, k)
                                      /\ At(u, k, {"wait"})' <=> At(u, k, {"wait"})
                                      /\ \A c : Noted(u, k, c)' <=> Noted(u, k, c)
  BY DEF Uncounted, At, Noted
<1> QED BY <1>1, <1>2 DEF NotedIfOwned

LEMMA CallNoted ==
    ASSUME TableInv, NotedIfOwned, NEW t \in Threads, NEW l \in Locks, CallOf(t, l)
    PROVE  NotedIfOwned'
<1>1. CASE BeforeLock(t, l) \/ BeforeTryLock(t, l)
  BY <1>1, BeforeLockNoted
<1>2. CASE BeforeLockFull(t, l)
  <2>1. other' = TRUE
    BY <1>2 DEF BeforeLockFull
  <2> QED BY <2>1 DEF NotedIfOwned
<1>3. CASE l \in Ignored /\ (BeforeLockIgnored(t, l) \/ AfterLockIgnored(t, l))
  BY <1>3, IgnoredNoted
<1>4. CASE pc[t] = Idle /\ AfterLock(t, l)
  BY <1>4, AfterLockNoted
<1>5. CASE DeleteLock(t, l)
  BY <1>5, DeleteLockNoted
<1>6. CASE l \notin Ignored /\ CndWait(t, l)
  BY <1>6, CndWaitNoted
<1> QED BY <1>1, <1>2, <1>3, <1>4, <1>5, <1>6 DEF CallOf

LEMMA StepNoted ==
    ASSUME TableInv, NotedIfOwned, NEW t \in Threads, AnyStep(t)
    PROVE  NotedIfOwned'
<1>1. StepOf(t) /\ TypeInv
  BY StepByStep DEF TableInv
<1>2. CASE \/ RealLock(t) \/ InLock(t) \/ RealUnlock(t) \/ RealDelete(t)
           \/ RealTryLock(t) \/ CndWake(t)
  <2>1. pc[t].at # "idle"
    BY <1>2 DEF RealLock, InLock, RealUnlock, RealDelete, RealTryLock, CndWake
  <2>2. pc[t].mu \in Locks
    BY <1>1, <2>1, PlaceFacts DEF TypeInv
  <2> QED BY <1>2, <2>2, RealLockNoted, InLockNoted, RealUnlockNoted, RealDeleteNoted,
             RealTryLockNoted, CndWakeNoted
<1>3. CASE Announcing(t)
  <2>1. UNCHANGED <<owner, depth, pc, held, idOf, other>>
    BY <1>3 DEF Announcing, IgnoreNextLock, IgnoreNextUnlock, real, nodes, results
  <2> QED BY <2>1, NotedFrame
<1>4. CASE \E l \in Locks : CallOf(t, l)
  BY <1>4, CallNoted
<1> QED BY <1>1, <1>2, <1>3, <1>4 DEF StepOf

(* ... and the tables miss nothing while no error was reported.            *)
THEOREM NothingMissed == SpecAll => []NotedIfOwned
<1>1. TableInv /\ NotedIfOwned /\ [NextAll]_vars => NotedIfOwned'
  <2> SUFFICES ASSUME TableInv, NotedIfOwned, [NextAll]_vars PROVE NotedIfOwned'
    OBVIOUS
  <2>1. CASE NextAll
    BY <2>1, StepNoted DEF NextAll, AnyStep
  <2>2. CASE UNCHANGED vars
    BY <2>2, NotedFrame DEF vars, real, nodes, results
  <2> QED BY <2>1, <2>2
<1> QED BY <1>1, TablesAgree, InitTables, PTL DEF SpecAll

(* Between calls a thread's table is what it owns.                         *)
THEOREM HistoryIsOwnership == SpecAll => []HistoryMatchesOwnership
<1>1. TableInv /\ NotedIfOwned => HistoryMatchesOwnership
  <2> SUFFICES ASSUME TableInv, NotedIfOwned, ~other, NEW t \in Threads, pc[t] = Idle,
                      NEW l \in Locks, ~Dying(l)
               PROVE  LET mine == {i \in DOMAIN held[t] : held[t][i].mu = l
                                                          /\ IsLive(held[t][i].id)}
                      IN IF owner[l] = t /\ l \notin Ignored
                         THEN \E i \in mine : mine = {i} /\ held[t][i].count = depth[l]
                         ELSE mine = {}
    BY DEF HistoryMatchesOwnership
  <2> DEFINE mine == {i \in DOMAIN held[t] : held[t][i].mu = l /\ IsLive(held[t][i].id)}
  <2>1. /\ TypeInv /\ CallInv /\ OwnedIfNoted /\ EntryIds /\ Distinct(held[t])
        /\ CurrentIds /\ held[t] \in Seq(Entry) /\ NoThread \notin Threads
    BY MonitorAssumption DEF TableInv, TypeInv, IdsInv, EntriesDiffer
  <2>2. \A i \in DOMAIN held[t] : held[t][i].id \in Ids /\ held[t][i].count \in 1 .. MaxDepth
    BY <2>1, TableFacts
  <2>3. \A i \in DOMAIN held[t] : held[t][i].id[1] = held[t][i].mu
    BY <2>1 DEF EntryIds
  <2>4. \A i \in DOMAIN held[t] : held[t][i].mu = l /\ IsLive(held[t][i].id)
                                  <=> held[t][i].id = idOf[l]
    <3>1. \A i \in DOMAIN held[t] : held[t][i].id = idOf[l] => held[t][i].mu = l
      <4> SUFFICES ASSUME NEW i \in DOMAIN held[t], held[t][i].id = idOf[l]
                   PROVE  held[t][i].mu = l
        OBVIOUS
      <4>1. idOf[l] # NoId
        BY <2>2, IdFacts
      <4> QED BY <2>1, <2>3, <4>1, LiveIds
    <3> QED BY <2>3, <3>1 DEF IsLive
  <2>5. \A i, j \in mine : i = j
    BY <2>1, <2>4 DEF Distinct
  <2>6. \A i \in mine : owner[l] = t /\ l \notin Ignored
    <3> SUFFICES ASSUME NEW i \in mine PROVE owner[l] = t /\ l \notin Ignored
      OBVIOUS
    <3>1. Noted(t, l, held[t][i].count)
      BY <2>4 DEF Noted, Has
    <3>2. ~At(t, l, {"wait"})
      BY NowhereWhenIdle
    <3> QED BY <2>1, <2>2, <3>1, <3>2 DEF OwnedIfNoted
  <2>7. ASSUME owner[l] = t, l \notin Ignored
        PROVE  \E i \in mine : mine = {i} /\ held[t][i].count = depth[l]
    <3>1. depth[l] \in Nat \ {0}
      BY <2>1, <2>7, MonitorAssumption DEF CallInv, RealInv, TypeInv
    <3>2. ~At(t, l, {"locked", "unlock"})
      BY NowhereWhenIdle
    <3>3. Noted(t, l, depth[l])
      BY <2>7, <3>1, <3>2, CountedPair
    <3>4. PICK i \in DOMAIN held[t] : held[t][i].id = idOf[l] /\ held[t][i].count = depth[l]
      BY <3>3 DEF Noted, Has
    <3>5. i \in mine
      BY <2>4, <3>4
    <3> HIDE DEF mine
    <3>6. mine = {i}
      BY <2>5, <3>5
    <3> QED BY <3>4, <3>5, <3>6
  <2> QED BY <2>6, <2>7
<1> QED BY <1>1, TablesAgree, NothingMissed, PTL

-----------------------------------------------------------------------------
(* Ways and cycles.                                                        *)

(* A map that takes pairs to pairs takes ways to ways.                     *)
LEMMA MappedWay ==
    ASSUME NEW O, NEW E, NEW V, NEW W, NEW f,
           \A e \in O : e[2] \in V /\ <<f[e[1]], f[e[2]]>> \in E,
           NEW a \in V, NEW b, Leads(O, V, a, b)
    PROVE  Leads(E, W, f[a], f[b])
<1> SUFFICES ASSUME NEW T \in SUBSET W, f[a] \in T, \A e \in E : e[1] \in T => e[2] \in T
             PROVE  f[b] \in T
  BY DEF Leads
<1> DEFINE S == {v \in V : f[v] \in T}
<1>1. S \in SUBSET V /\ a \in S
  OBVIOUS
<1>2. ASSUME NEW e \in O, e[1] \in S PROVE e[2] \in S
  <2>1. e[2] \in V /\ <<f[e[1]], f[e[2]]>> \in E /\ f[e[1]] \in T
    BY <1>2
  <2>2. f[e[2]] \in T
    BY <2>1
  <2> QED BY <2>1, <2>2
<1>3. b \in S
  <2> HIDE DEF S
  <2> QED BY <1>1, <1>2 DEF Leads
<1> QED BY <1>3

(* ... and so a map into a graph without cycles finds none.                *)
LEMMA MappedCycle ==
    ASSUME NEW O, NEW E, NEW V, NEW W, NEW f,
           \A e \in O : e[2] \in V /\ <<f[e[1]], f[e[2]]>> \in E, HasCycle(O, V)
    PROVE  HasCycle(E, W)
<1>1. PICK e \in O : Leads(O, V, e[2], e[1])
  BY DEF HasCycle
<1>2. Leads(E, W, f[e[2]], f[e[1]])
  <2> DEFINE a == e[2]
             b == e[1]
  <2>1. a \in V /\ Leads(O, V, a, b)
    BY <1>1
  <2> HIDE DEF a, b
  <2>2. Leads(E, W, f[a], f[b])
    BY <2>1, MappedWay
  <2> QED BY <2>2 DEF a, b
<1> DEFINE d == <<f[e[1]], f[e[2]]>>
<1>3. d \in E /\ d[1] = f[e[1]] /\ d[2] = f[e[2]]
  OBVIOUS
<1> HIDE DEF d
<1> QED BY <1>2, <1>3 DEF HasCycle

LEMMA FewerPairs ==
    ASSUME NEW E, NEW D \in SUBSET E, NEW V, ~HasCycle(E, V)
    PROVE  ~HasCycle(D, V)
<1> SUFFICES ASSUME NEW e \in D, Leads(D, V, e[2], e[1]) PROVE FALSE
  BY DEF HasCycle
<1>1. Leads(E, V, e[2], e[1])
  BY DEF Leads
<1> QED BY <1>1 DEF HasCycle

(* New pairs into y, from places y does not lead to, close no cycle.       *)
LEMMA PairsInto ==
    ASSUME NEW E, NEW V, ~HasCycle(E, V), \A e \in E : e[2] \in V, NEW y \in V,
           NEW D, E \subseteq D,
           \A e \in D : e \in E \/ (e[2] = y /\ ~Leads(E, V, y, e[1]))
    PROVE  ~HasCycle(D, V)
<1> DEFINE S == {b \in V : Leads(E, V, y, b)}
<1>1. S \in SUBSET V /\ y \in S
  BY DEF Leads
<1>2. \A e \in E : e[1] \in S => e[2] \in S
  <2> SUFFICES ASSUME NEW e \in E, Leads(E, V, y, e[1]) PROVE Leads(E, V, y, e[2])
    OBVIOUS
  <2> QED BY DEF Leads
<1>3. \A e \in D : e[1] \in S => e[2] \in S
  BY <1>1, <1>2
<1>4. \A b \in S : Leads(E, V, y, b)
  OBVIOUS
<1> HIDE DEF S
<1> SUFFICES ASSUME NEW e \in D, Leads(D, V, e[2], e[1]) PROVE FALSE
  BY DEF HasCycle
<1>5. CASE e \notin E
  <2>1. e[1] \in S
    BY <1>1, <1>3, <1>5 DEF Leads
  <2> QED BY <1>4, <1>5, <2>1
<1>6. CASE e \in E
  <2> SUFFICES ASSUME NEW T \in SUBSET V, e[2] \in T, \A d \in E : d[1] \in T => d[2] \in T
               PROVE  e[1] \in T
    BY <1>6 DEF HasCycle, Leads
  <2>1. CASE e[2] \in S
    <3>1. T \cap S \in SUBSET V /\ e[2] \in T \cap S
      BY <2>1
    <3>2. \A d \in D : d[1] \in T \cap S => d[2] \in T \cap S
      BY <1>3, <1>4
    <3>3. e[1] \in T \cap S
      BY <3>1, <3>2 DEF Leads
    <3> QED BY <3>3
  <2>2. CASE e[2] \notin S
    <3>1. T \cup S \in SUBSET V /\ e[2] \in T \cup S
      BY <1>1
    <3>2. \A d \in D : d[1] \in T \cup S => d[2] \in T \cup S
      BY <1>1, <1>3
    <3>3. e[1] \in T \cup S
      BY <3>1, <3>2 DEF Leads
    <3>4. e[1] \notin S
      BY <1>2, <1>6, <2>2
    <3> QED BY <3>3, <3>4
  <2> QED BY <2>1, <2>2
<1> QED BY <1>5, <1>6

-----------------------------------------------------------------------------
(* The graph and the acquisition orders.                                   *)

(* InsertEdge keeps the graph free of cycles; while nothing is reported,   *)
(* every order the program acquired in is an edge, so that two orders that *)
(* contradict each other would be a cycle of edges.                        *)
OrdersLinked == other \/ potential \/ \A e \in order : <<idOf[e[1]], idOf[e[2]]>> \in edges
LinkInv == /\ ~HasCycle(edges, Ids)
           /\ OrdersLinked
           /\ InversionIsReported

LEMMA InitLink == Init => LinkInv
  BY DEF Init, LinkInv, OrdersLinked, InversionIsReported, HasCycle

LEMMA LinkFrame ==
    ASSUME LinkInv, UNCHANGED <<idOf, edges, potential, order, inverted>>, other => other'
    PROVE  LinkInv'
  BY DEF LinkInv, OrdersLinked, InversionIsReported

(* GetId alone: the ids of the locks in the edges stay.                    *)
LEMMA GetIdLink ==
    ASSUME TableInv, LinkInv, NEW l \in Locks, NEW traced \in BOOLEAN, GetId(l, traced),
           UNCHANGED <<edges, potential, order, inverted>>, other => other'
    PROVE  LinkInv'
<1>1. /\ TypeInv /\ CurrentIds /\ EntryIds /\ edges \subseteq Ids \X Ids
      /\ order \subseteq Locks \X Locks
  BY DEF TableInv, TypeInv, IdsInv
<1>2. \A k \in Locks : idOf[k] # NoId => idOf'[k] = idOf[k]
  BY <1>1, GetIdKeeps
<1>3. ASSUME NEW e \in order, <<idOf[e[1]], idOf[e[2]]>> \in edges
      PROVE  <<idOf'[e[1]], idOf'[e[2]]>> \in edges
  <2>1. idOf[e[1]] \in Ids /\ idOf[e[2]] \in Ids /\ e[1] \in Locks /\ e[2] \in Locks
    BY <1>1, <1>3
  <2>2. idOf'[e[1]] = idOf[e[1]] /\ idOf'[e[2]] = idOf[e[2]]
    BY <1>2, <2>1, IdFacts
  <2> QED BY <1>3, <2>2
<1> QED BY <1>3 DEF LinkInv, OrdersLinked, InversionIsReported

LEMMA DeleteLockLink ==
    ASSUME TableInv, LinkInv, NEW t \in Threads, NEW l \in Locks, DeleteLock(t, l)
    PROVE  LinkInv'
<1>1. /\ TypeInv /\ CurrentIds /\ edges \subseteq Ids \X Ids /\ order \subseteq Locks \X Locks
      /\ UNCHANGED <<potential, other, inverted>>
      /\ order' = {e \in order : l \notin {e[1], e[2]}}
  BY DEF TableInv, TypeInv, IdsInv, DeleteLock
<1>2. /\ \A k \in Locks : k # l => idOf'[k] = idOf[k]
      /\ edges' = {e \in edges : idOf[l] \notin {e[1], e[2]}}
  BY <1>1, DeleteLockFacts
<1>3. ~HasCycle(edges', Ids)
  BY <1>2, FewerPairs DEF LinkInv
<1>4. ASSUME NEW e \in order', <<idOf[e[1]], idOf[e[2]]>> \in edges
      PROVE  <<idOf'[e[1]], idOf'[e[2]]>> \in edges'
  <2>1. /\ idOf[e[1]] \in Ids /\ idOf[e[2]] \in Ids /\ e[1] \in Locks /\ e[2] \in Locks
        /\ e[1] # l /\ e[2] # l
    BY <1>1, <1>4
  <2>2. idOf[l] # idOf[e[1]] /\ idOf[l] # idOf[e[2]]
    BY <1>1, <2>1, OtherNode, IdFacts
  <2>3. idOf'[e[1]] = idOf[e[1]] /\ idOf'[e[2]] = idOf[e[2]]
    BY <1>2, <2>1
  <2> QED BY <1>2, <1>4, <2>2, <2>3
<1> QED BY <1>1, <1>3, <1>4 DEF LinkInv, OrdersLinked, InversionIsReported

LEMMA BeforeLockLink ==
    ASSUME TableInv, NotedIfOwned, LinkInv, NEW t \in Threads, NEW l \in Locks, BeforeLock(t, l)
    PROVE  LinkInv'
<1>1. /\ TypeInv /\ CurrentIds /\ EntryIds /\ OwnedIfNoted /\ CallInv
      /\ edges \subseteq Ids \X Ids /\ order \subseteq Locks \X Locks
      /\ GetId(l, TRUE) /\ pc[t] = Idle /\ other' = other /\ Inverts(t, l)
      /\ held[t] \in Seq(Entry) /\ potential \in BOOLEAN
  BY DEF TableInv, TypeInv, IdsInv, BeforeLock, MayAcquire
<1>2. IdFor(l) \in Ids /\ idOf'[l] = IdFor(l) /\ \A k \in Locks : k # l => idOf'[k] = idOf[k]
  <2>1. IdFor(l) \in Ids /\ idOf' = [idOf EXCEPT ![l] = IdFor(l)]
    BY <1>1, GetIdFacts
  <2> QED BY <1>1, <2>1 DEF TypeInv
<1>3. /\ \A k \in Locks : idOf[k] # NoId => idOf'[k] = idOf[k]
      /\ \A u \in Threads, k \in Locks : \A c : Has(held[u], idOf'[k], c) <=> Noted(u, k, c)
  BY <1>1, GetIdKeeps
<1>4. potential' \in BOOLEAN /\ (potential => potential')
  BY <1>1, <1>2, BeforeLockEdges
<1>5. PICK N \in SUBSET DOMAIN held[t] :
         /\ \A i \in N : ~Leads(edges, Ids, IdFor(l), held[t][i].id)
         /\ edges' = edges \cup {<<held[t][i].id, IdFor(l)>> : i \in N}
         /\ \/ potential' \/ N = {i \in DOMAIN held[t] : IsLive(held[t][i].id)}
            \/ \E i \in DOMAIN held[t] : /\ IsLive(held[t][i].id) /\ held[t][i].id = IdFor(l)
  BY <1>1, <1>2, BeforeLockEdges
<1>6. ~HasCycle(edges', Ids)
  <2>1. \A e \in edges : e[2] \in Ids
    BY <1>1
  <2>2. edges \subseteq edges'
    BY <1>5
  <2>3. ASSUME NEW e \in edges', e \notin edges
        PROVE  e[2] = IdFor(l) /\ ~Leads(edges, Ids, IdFor(l), e[1])
    <3>1. PICK i \in N : e = <<held[t][i].id, IdFor(l)>>
      BY <1>5, <2>3
    <3>2. e[1] = held[t][i].id /\ e[2] = IdFor(l)
      BY <3>1
    <3> QED BY <1>5, <3>2
  <2>4. ~HasCycle(edges, Ids)
    BY DEF LinkInv
  <2>5. \A e \in edges' : e \in edges \/ (e[2] = IdFor(l) /\ ~Leads(edges, Ids, IdFor(l), e[1]))
    <3> TAKE e \in edges'
    <3>1. CASE e \in edges
      BY <3>1
    <3>2. CASE e \notin edges
      BY <2>3, <3>2
    <3> QED BY <3>1, <3>2
  <2> DEFINE y == IdFor(l)
             D == edges'
  <2>6. /\ y \in Ids /\ edges \subseteq D
        /\ \A e \in D : e \in edges \/ (e[2] = y /\ ~Leads(edges, Ids, y, e[1]))
    BY <1>2, <2>2, <2>5
  <2> HIDE DEF y, D
  <2>7. ~HasCycle(D, Ids)
    BY <2>1, <2>4, <2>6, PairsInto
  <2> QED BY <2>7 DEF D
<1>7. ASSUME ~other', ~potential', NEW e \in order'
      PROVE  <<idOf'[e[1]], idOf'[e[2]]>> \in edges'
  <2>1. CASE e \in order
    <3>1. <<idOf[e[1]], idOf[e[2]]>> \in edges
      BY <1>1, <1>4, <1>7, <2>1 DEF LinkInv, OrdersLinked
    <3>2. idOf[e[1]] \in Ids /\ idOf[e[2]] \in Ids /\ e[1] \in Locks /\ e[2] \in Locks
      BY <1>1, <2>1, <3>1
    <3>3. idOf'[e[1]] = idOf[e[1]] /\ idOf'[e[2]] = idOf[e[2]]
      BY <1>3, <3>2, IdFacts
    <3> QED BY <1>5, <3>1, <3>3
  <2>2. CASE e \notin order
    <3>1. PICK h \in Locks \ Ignored : owner[l] # t /\ owner[h] = t /\ ~Dying(h) /\ e = <<h, l>>
      BY <1>1, <1>7, <2>2 DEF Inverts
    <3>2. ~At(t, h, {"locked", "unlock"}) /\ ~At(t, l, {"wait"})
      BY <1>1, NowhereWhenIdle
    <3>3. depth[h] \in Nat \ {0}
      BY <1>1, <3>1, MonitorAssumption DEF CallInv, RealInv, TypeInv
    <3>4. Noted(t, h, depth[h])
      BY <1>1, <1>7, <3>1, <3>2, <3>3, CountedPair
    <3>5. PICK i \in DOMAIN held[t] : held[t][i].id = idOf[h]
      BY <3>4 DEF Noted, Has
    <3>6. IsLive(held[t][i].id)
      <4>1. idOf[h] # NoId
        BY <1>1, <3>5, TableFacts, IdFacts
      <4> QED BY <1>1, <3>5, <4>1, LiveIds
    <3>7. ~\E j \in DOMAIN held[t] : held[t][j].id = IdFor(l)
      <4> SUFFICES ASSUME NEW j \in DOMAIN held[t], held[t][j].id = IdFor(l) PROVE FALSE
        OBVIOUS
      <4>1. Noted(t, l, held[t][j].count)
        BY <1>2, <1>3 DEF Has
      <4>2. held[t][j].count \in 1 .. MaxDepth
        BY <1>1, TableFacts
      <4> QED BY <1>1, <3>1, <3>2, <4>1, <4>2 DEF OwnedIfNoted
    <3>8. i \in N
      BY <1>5, <1>7, <3>6, <3>7
    <3>9. e[1] = h /\ e[2] = l /\ idOf'[h] = idOf[h] /\ idOf'[l] = IdFor(l)
      BY <1>2, <3>1
    <3> QED BY <1>5, <3>5, <3>8, <3>9
  <2> QED BY <2>1, <2>2
<1>8. ASSUME ~other', ~potential' PROVE ~inverted'
  <2>1. order' \subseteq Locks \X Locks
    BY <1>1, InvertsTypes
  <2>2. \A e \in order' : e[2] \in Locks /\ <<idOf'[e[1]], idOf'[e[2]]>> \in edges'
    BY <1>7, <1>8, <2>1
  <2>3. ~HasCycle(order', Locks)
    BY <1>6, <2>2, MappedCycle
  <2>4. ~inverted
    BY <1>1, <1>4, <1>8 DEF LinkInv, InversionIsReported
  <2> QED BY <1>1, <2>3, <2>4 DEF Inverts
<1> QED BY <1>6, <1>7, <1>8 DEF LinkInv, OrdersLinked, InversionIsReported

LEMMA CallLink ==
    ASSUME TableInv, NotedIfOwned, LinkInv, NEW t \in Threads, NEW l \in Locks, CallOf(t, l)
    PROVE  LinkInv'
<1>1. CASE BeforeLock(t, l)
  BY <1>1, BeforeLockLink
<1>2. CASE BeforeLockFull(t, l)
  <2>1. other' = TRUE /\ edges' = edges
    BY <1>2 DEF BeforeLockFull
  <2> QED BY <2>1 DEF LinkInv, OrdersLinked, InversionIsReported
<1>3. CASE BeforeLockIgnored(t, l) \/ AfterLockIgnored(t, l) \/ CndWait(t, l)
  <2>1. UNCHANGED <<idOf, edges, potential, order, inverted, other>>
    BY <1>3 DEF BeforeLockIgnored, AfterLockIgnored, CndWait, nodes, results, history
  <2> QED BY <2>1, LinkFrame
<1>4. CASE AfterLock(t, l)
  <2>1. GetId(l, FALSE) /\ UNCHANGED <<edges, potential, order, inverted>>
    BY <1>4 DEF AfterLock, history
  <2>2. other => other'
    BY <1>4 DEF AfterLock
  <2> QED BY <2>1, <2>2, GetIdLink
<1>5. CASE BeforeTryLock(t, l)
  <2>1. GetId(l, FALSE) /\ UNCHANGED <<edges, potential, order, inverted, other>>
    BY <1>5 DEF BeforeTryLock, results, history
  <2> QED BY <2>1, GetIdLink
<1>6. CASE DeleteLock(t, l)
  BY <1>6, DeleteLockLink
<1> QED BY <1>1, <1>2, <1>3, <1>4, <1>5, <1>6 DEF CallOf

LEMMA StepLink ==
    ASSUME TableInv, NotedIfOwned, LinkInv, NEW t \in Threads, AnyStep(t)
    PROVE  LinkInv'
<1>1. StepOf(t)
  BY StepByStep
<1>2. CASE ~\E l \in Locks : CallOf(t, l)
  <2>1. CASE RealLock(t) \/ InLock(t) \/ RealUnlock(t) \/ RealDelete(t)
    <3>1. UNCHANGED <<idOf, edges, potential, order, inverted, other>>
      BY <2>1 DEF RealLock, InLock, RealUnlock, RealDelete, nodes, results, history
    <3> QED BY <3>1, LinkFrame
  <2>2. CASE RealTryLock(t) \/ CndWake(t) \/ Announcing(t)
    <3>1. UNCHANGED <<idOf, edges, potential, order, inverted, other>>
      BY <2>2 DEF RealTryLock, CndWake, Announcing, IgnoreNextLock, IgnoreNextUnlock,
                  nodes, results, history
    <3> QED BY <3>1, LinkFrame
  <2> QED BY <1>1, <1>2, <2>1, <2>2 DEF StepOf
<1>3. CASE \E l \in Locks : CallOf(t, l)
  BY <1>3, CallLink
<1> QED BY <1>2, <1>3

(* Without a report the graph has an edge for every order in which the     *)
(* program has acquired two locks, and never a cycle.                      *)
THEOREM OrdersAreLinked == SpecAll => []LinkInv
<1>1. TableInv /\ NotedIfOwned /\ LinkInv /\ [NextAll]_vars => LinkInv'
  <2> SUFFICES ASSUME TableInv, NotedIfOwned, LinkInv, [NextAll]_vars PROVE LinkInv'
    OBVIOUS
  <2>1. CASE NextAll
    BY <2>1, StepLink DEF NextAll, AnyStep
  <2>2. CASE UNCHANGED vars
    BY <2>2, LinkFrame DEF vars, nodes, results, history
  <2> QED BY <2>1, <2>2
<1> QED BY <1>1, TablesAgree, NothingMissed, InitLink, PTL DEF SpecAll

(* The monitor predicts: contradicting acquisition orders are reported.    *)
THEOREM InversionsReported == SpecAll => []InversionIsReported
<1>1. LinkInv => InversionIsReported
  BY DEF LinkInv
<1> QED BY <1>1, OrdersAreLinked, PTL

-----------------------------------------------------------------------------
(* Nothing else is reported, when locks are not taken twice.               *)

(* Each edge is an order the program acquired in.  A thread that takes a   *)
(* lock again acquires nothing, but its locks get edges to it: with nested *)
(* acquisitions the monitor reports more than inversions.                  *)
EdgesOrdered == \A e \in edges : <<e[1][1], e[2][1]>> \in order
ReportInv == EdgesOrdered /\ ReportIsInversion

LEMMA InitReport == Init => ReportInv
  BY DEF Init, ReportInv, EdgesOrdered, ReportIsInversion

LEMMA ReportFrame ==
    ASSUME ReportInv, UNCHANGED <<edges, potential>>, order \subseteq order', inverted => inverted'
    PROVE  ReportInv'
  BY DEF ReportInv, EdgesOrdered, ReportIsInversion

LEMMA DeleteLockReport ==
    ASSUME TableInv, ReportInv, NEW t \in Threads, NEW l \in Locks, DeleteLock(t, l)
    PROVE  ReportInv'
<1>1. /\ TypeInv /\ EdgesLive /\ UNCHANGED <<potential, inverted>>
      /\ order' = {e \in order : l \notin {e[1], e[2]}}
  BY DEF TableInv, IdsInv, DeleteLock
<1>2. edges' = {e \in edges : idOf[l] \notin {e[1], e[2]}}
  BY <1>1, DeleteLockFacts
<1>3. ASSUME NEW e \in edges' PROVE <<e[1][1], e[2][1]>> \in order'
  <2>1. e \in edges /\ e[1] # idOf[l] /\ e[2] # idOf[l]
    BY <1>2
  <2>2. idOf[e[1][1]] = e[1] /\ idOf[e[2][1]] = e[2]
    BY <1>1, <2>1 DEF EdgesLive, IsLive
  <2>3. e[1][1] # l /\ e[2][1] # l
    BY <2>1, <2>2
  <2>4. <<e[1][1], e[2][1]>> \in order
    BY <2>1 DEF ReportInv, EdgesOrdered
  <2> QED BY <1>1, <2>3, <2>4
<1> QED BY <1>1, <1>3 DEF ReportInv, EdgesOrdered, ReportIsInversion

(* What a live entry says of a thread that acquires another lock.          *)
LEMMA EntryOrdered ==
    ASSUME TableInv, MaxDepth = 1, NEW t \in Threads, NEW l \in Locks, MayAcquire(t, l),
           Inverts(t, l), NEW i \in DOMAIN held[t], IsLive(held[t][i].id)
    PROVE  /\ held[t][i].id \in Ids
           /\ <<held[t][i].id[1], l>> \in order'
<1>1. /\ TypeInv /\ OwnedIfNoted /\ CallInv /\ pc[t] = Idle /\ held[t] \in Seq(Entry)
  BY DEF TableInv, TypeInv, MayAcquire
<1>2. /\ held[t][i].id \in Ids /\ held[t][i].count \in 1 .. MaxDepth
      /\ held[t][i].id[1] \in Locks
  BY <1>1, TableFacts, IdFacts
<1>3. ~At(t, held[t][i].id[1], {"wait"})
  BY <1>1, NowhereWhenIdle
<1>4. Noted(t, held[t][i].id[1], held[t][i].count)
  BY DEF Noted, Has, IsLive
<1>5. PICK h \in Locks : h = held[t][i].id[1]
  BY <1>2
<1>6. h \notin Ignored /\ ~Dying(h) /\ owner[h] = t
  BY <1>1, <1>2, <1>3, <1>4, <1>5 DEF OwnedIfNoted
<1>7. owner[l] # t
  <2> SUFFICES ASSUME owner[l] = t PROVE FALSE
    OBVIOUS
  <2>1. depth[l] < 1 /\ depth[l] \in Nat
    <3>1. depth[l] < MaxDepth
      BY DEF MayAcquire
    <3>2. depth[l] \in 0 .. MaxDepth
      BY <1>1 DEF TypeInv
    <3> QED BY <3>1, <3>2
  <2>2. owner[l] = NoThread
    BY <1>1, <2>1 DEF CallInv, RealInv
  <2> QED BY <2>2, MonitorAssumption
<1>8. <<h, l>> \in order'
  BY <1>6, <1>7 DEF Inverts
<1> QED BY <1>2, <1>5, <1>8

LEMMA BeforeLockReport ==
    ASSUME TableInv, MaxDepth = 1, ReportInv, NEW t \in Threads, NEW l \in Locks,
           BeforeLock(t, l)
    PROVE  ReportInv'
<1>1. /\ TypeInv /\ CurrentIds /\ EntryIds /\ GetId(l, TRUE) /\ MayAcquire(t, l) /\ Inverts(t, l)
      /\ edges \subseteq Ids \X Ids /\ potential \in BOOLEAN
  BY DEF TableInv, TypeInv, IdsInv, BeforeLock
<1>2. IdFor(l) \in Ids /\ IdFor(l)[1] = l
  BY <1>1, GetIdFacts
<1>3. order \subseteq order' /\ inverted' = (inverted \/ HasCycle(order', Locks))
  BY <1>1 DEF Inverts
<1>4. /\ potential => potential'
      /\ potential' /\ ~potential =>
           \E i \in DOMAIN held[t] : /\ IsLive(held[t][i].id) /\ held[t][i].id # IdFor(l)
                                     /\ Leads(edges, Ids, IdFor(l), held[t][i].id)
  BY <1>1, <1>2, BeforeLockEdges
<1>5. PICK N \in SUBSET DOMAIN held[t] :
         /\ \A i \in N : IsLive(held[t][i].id)
         /\ edges' = edges \cup {<<held[t][i].id, IdFor(l)>> : i \in N}
  BY <1>1, <1>2, BeforeLockEdges
<1>6. ASSUME NEW e \in edges' PROVE <<e[1][1], e[2][1]>> \in order'
  <2>1. CASE e \in edges
    BY <1>3, <2>1 DEF ReportInv, EdgesOrdered
  <2>2. CASE e \notin edges
    <3>1. PICK i \in N : e = <<held[t][i].id, IdFor(l)>>
      BY <1>5, <2>2
    <3>2. <<held[t][i].id[1], l>> \in order'
      BY <1>1, <1>5, EntryOrdered
    <3>3. e[1] = held[t][i].id /\ e[2] = IdFor(l)
      BY <3>1
    <3> QED BY <1>2, <3>2, <3>3
  <2> QED BY <2>1, <2>2
<1>7. ASSUME NEW i \in DOMAIN held[t], IsLive(held[t][i].id),
             Leads(edges, Ids, IdFor(l), held[t][i].id)
      PROVE  HasCycle(order', Locks)
  <2> DEFINE f == [x \in Ids |-> x[1]]
             h == held[t][i].id[1]
             O == order'
  <2>1. held[t][i].id \in Ids /\ <<h, l>> \in O
    BY <1>1, <1>7, EntryOrdered
  <2>2. \A e \in edges : e[2] \in Ids /\ <<f[e[1]], f[e[2]]>> \in O
    BY <1>1, <1>3 DEF ReportInv, EdgesOrdered
  <2>3. f[IdFor(l)] = l /\ f[held[t][i].id] = h
    BY <1>2, <2>1
  <2>4. PICK x \in Ids, y \in Ids : x = IdFor(l) /\ y = held[t][i].id
    BY <1>2, <2>1
  <2>5. Leads(edges, Ids, x, y)
    BY <1>7, <2>4
  <2> HIDE DEF f, h, O
  <2>6. Leads(O, Locks, f[x], f[y])
    BY <2>2, <2>5, MappedWay
  <2>7. Leads(O, Locks, l, h)
    BY <2>3, <2>4, <2>6
  <2> DEFINE d == <<h, l>>
  <2>8. d \in O /\ d[1] = h /\ d[2] = l
    BY <2>1
  <2> HIDE DEF d
  <2>9. HasCycle(O, Locks)
    BY <2>7, <2>8 DEF HasCycle
  <2> QED BY <2>9 DEF O
<1>8. ReportIsInversion'
  BY <1>1, <1>3, <1>4, <1>7 DEF ReportInv, ReportIsInversion
<1> QED BY <1>6, <1>8 DEF ReportInv, EdgesOrdered

LEMMA CallReport ==
    ASSUME TableInv, MaxDepth = 1, ReportInv, NEW t \in Threads, NEW l \in Locks, CallOf(t, l)
    PROVE  ReportInv'
<1>1. CASE BeforeLock(t, l)
  BY <1>1, BeforeLockReport
<1>2. CASE BeforeLockFull(t, l)
  <2>1. Inverts(t, l) /\ UNCHANGED <<edges, potential>>
    BY <1>2 DEF BeforeLockFull
  <2>2. order \subseteq order' /\ (inverted => inverted')
    BY <2>1 DEF Inverts
  <2> QED BY <2>1, <2>2, ReportFrame
<1>3. CASE \/ BeforeLockIgnored(t, l) \/ AfterLockIgnored(t, l) \/ CndWait(t, l)
           \/ BeforeTryLock(t, l)
  <2>1. UNCHANGED <<edges, potential, order, inverted>>
    BY <1>3 DEF BeforeLockIgnored, AfterLockIgnored, CndWait, BeforeTryLock, results, history
  <2> QED BY <2>1, ReportFrame
<1>4. CASE AfterLock(t, l)
  <2>1. UNCHANGED <<edges, potential, order, inverted>>
    BY <1>4 DEF AfterLock, history
  <2> QED BY <2>1, ReportFrame
<1>5. CASE DeleteLock(t, l)
  BY <1>5, DeleteLockReport
<1> QED BY <1>1, <1>2, <1>3, <1>4, <1>5 DEF CallOf

LEMMA StepReport ==
    ASSUME TableInv, MaxDepth = 1, ReportInv, NEW t \in Threads, AnyStep(t)
    PROVE  ReportInv'
<1>1. StepOf(t)
  BY StepByStep
<1>2. CASE \/ RealLock(t) \/ InLock(t) \/ RealUnlock(t) \/ RealDelete(t)
           \/ RealTryLock(t) \/ CndWake(t) \/ Announcing(t)
  <2>1. UNCHANGED <<edges, potential, order, inverted>>
    BY <1>2 DEF RealLock, InLock, RealUnlock, RealDelete, RealTryLock, CndWake, Announcing,
                IgnoreNextLock, IgnoreNextUnlock, results, history
  <2> QED BY <2>1, ReportFrame
<1> QED BY <1>1, <1>2, CallReport DEF StepOf

(* While the program takes no lock a thread already owns, what the monitor *)
(* reports as a potential deadlock is a contradiction of two acquisition   *)
(* orders.  (The run FalseDeadlock shows that the condition is needed.)    *)
THEOREM ReportsAreInversions ==
    ASSUME MaxDepth = 1
    PROVE  SpecAll => []ReportIsInversion
<1>1. TableInv /\ ReportInv /\ [NextAll]_vars => ReportInv'
  <2> SUFFICES ASSUME TableInv, ReportInv, [NextAll]_vars PROVE ReportInv'
    OBVIOUS
  <2>1. CASE NextAll
    BY <2>1, StepReport DEF NextAll, AnyStep
  <2>2. CASE UNCHANGED vars
    BY <2>2, ReportFrame DEF vars, results, history
  <2> QED BY <2>1, <2>2
<1>2. ReportInv => ReportIsInversion
  BY DEF ReportInv
<1> QED BY <1>1, <1>2, TablesAgree, InitReport, PTL DEF SpecAll

-----------------------------------------------------------------------------
(* Programs that only block: the steps of SpecBlocking.                    *)

Legal(t, l) == \/ BeforeLock(t, l)
               \/ BeforeLockFull(t, l)
               \/ MayRelease(t, l) /\ AfterLock(t, l)
               \/ Unused(l) /\ DeleteLock(t, l)
LegalStep(t) == \/ RealLock(t) \/ InLock(t) \/ RealUnlock(t) \/ RealDelete(t)
                \/ \E l \in Locks \ Ignored : Legal(t, l)

(* Nothing is announced, so nothing announced is touched.                  *)
Quiet == \A t \in Threads : ignore_lock[t] = 0 /\ ignore_unlock[t] = 0

LEMMA BlockingStep ==
    ASSUME Quiet, NEW t \in Threads, Blocking(t)
    PROVE  LegalStep(t) /\ Quiet'
<1>1. ignore_lock[t] = 0 /\ ignore_unlock[t] = 0
  BY DEF Quiet
<1>2. ASSUME NEW l \in Locks, Announced(l, ignore_lock[t]),
             BeforeLock(t, l) \/ BeforeLockFull(t, l) \/ BeforeLockIgnored(t, l)
      PROVE  l \notin Ignored /\ Legal(t, l) /\ Quiet'
  <2>1. l \notin Ignored
    BY <1>1, <1>2 DEF Announced
  <2>2. ~BeforeLockIgnored(t, l)
    BY <1>1 DEF BeforeLockIgnored
  <2>3. UNCHANGED ignores
    BY <1>2, <2>2 DEF BeforeLock, BeforeLockFull
  <2> QED BY <1>2, <2>1, <2>2, <2>3 DEF Legal, Quiet, ignores
<1>3. ASSUME NEW l \in Locks, Announced(l, ignore_unlock[t]), MayRelease(t, l),
             AfterLock(t, l) \/ AfterLockIgnored(t, l)
      PROVE  l \notin Ignored /\ Legal(t, l) /\ Quiet'
  <2>1. l \notin Ignored
    BY <1>1, <1>3 DEF Announced
  <2>2. ~AfterLockIgnored(t, l)
    BY <1>1 DEF AfterLockIgnored
  <2>3. UNCHANGED ignores
    BY <1>3, <2>2 DEF AfterLock
  <2> QED BY <1>3, <2>1, <2>2, <2>3 DEF Legal, Quiet, ignores
<1>4. ASSUME NEW l \in Locks, l \notin Ignored, Unused(l), DeleteLock(t, l)
      PROVE  Legal(t, l) /\ Quiet'
  BY <1>4 DEF Legal, Quiet, DeleteLock, ignores
<1>5. CASE RealLock(t) \/ InLock(t) \/ RealUnlock(t) \/ RealDelete(t)
  <2>1. UNCHANGED ignores
    BY <1>5 DEF RealLock, InLock, RealUnlock, RealDelete
  <2> QED BY <1>5, <2>1 DEF LegalStep, Quiet, ignores
<1> QED BY <1>2, <1>3, <1>4, <1>5 DEF Blocking, LegalStep

(* SpecBlocking is one of the programs of SpecAll.                         *)
LEMMA BlockingIsAllowed == SpecBlocking => SpecAll
<1>1. [NextBlocking]_vars => [NextAll]_vars
  BY DEF NextBlocking, NextAll
<1> QED BY <1>1, PTL DEF SpecBlocking, SpecAll

(* Programs that only block leave the ignore counters at zero.             *)
THEOREM NothingAnnounced == SpecBlocking => []Quiet
<1>1. Init => Quiet
  BY DEF Init, Quiet
<1>2. Quiet /\ [NextBlocking]_vars => Quiet'
  <2> SUFFICES ASSUME Quiet, [NextBlocking]_vars PROVE Quiet'
    OBVIOUS
  <2>1. CASE NextBlocking
    BY <2>1, BlockingStep DEF NextBlocking
  <2>2. CASE UNCHANGED vars
    BY <2>2 DEF Quiet, vars, ignores
  <2> QED BY <2>1, <2>2
<1> QED BY <1>1, <1>2, PTL DEF SpecBlocking

-----------------------------------------------------------------------------
(* The start times.                                                        *)

(* Who has an entry, or is inside a watched acquisition, has a start time. *)
TimeInv ==
    \A t \in Threads :
        held[t] # <<>> \/ (pc[t].at \in {"lock", "locked", "try"} /\ pc[t].id # NoId)
        => start[t] # "zero"

(* A step of t: only t needs a look.                                       *)
LEMMA TimeOf ==
    ASSUME TimeInv, NEW t \in Threads,
           \A u \in Threads : u # t => /\ pc'[u] = pc[u] /\ held'[u] = held[u]
                                       /\ start'[u] = start[u],
           \/ start'[t] # "zero"
           \/ /\ held'[t] = <<>>
              /\ pc'[t].at \notin {"lock", "locked", "try"} \/ pc'[t].id = NoId
    PROVE  TimeInv'
  BY DEF TimeInv

LEMMA StepTimed ==
    ASSUME TableInv, TimeInv, NEW t \in Threads, AnyStep(t)
    PROVE  TimeInv'
<1>0. StepOf(t)
  BY StepByStep
<1>1. /\ TypeInv /\ CurrentIds /\ EntryIds /\ pc \in [Threads -> {Idle} \cup Calls]
      /\ held \in [Threads -> Seq(Entry)]
      /\ start \in [Threads -> {"zero", "running", "waiting"}]
  BY DEF TableInv, TypeInv, IdsInv
<1>2. Idle.at = "idle"
  BY DEF Idle
<1>3. ASSUME NEW q, Goto(t, q)
      PROVE  pc'[t] = q /\ \A u \in Threads : u # t => pc'[u] = pc[u]
  BY <1>1, <1>3 DEF Goto
<1>4. start[t] = "zero" =>
        /\ held[t] = <<>>
        /\ pc[t].at \notin {"lock", "locked", "try"} \/ pc[t].id = NoId
  BY DEF TimeInv
\* Neither the table nor the time changes, and no acquisition begins.
<1>5. ASSUME NEW q, Goto(t, q), UNCHANGED <<held, start>>,
             \/ q.at \notin {"lock", "locked", "try"} \/ q.id = NoId
             \/ pc[t].at \in {"lock", "locked", "try"} /\ pc[t].id # NoId
      PROVE  TimeInv'
  BY <1>3, <1>4, <1>5, TimeOf
<1>6. CASE RealLock(t)
  <2>1. UNCHANGED <<held, start>> /\ pc[t].at = "lock"
    BY <1>6 DEF RealLock
  <2>2. CASE pc[t].id = NoId
    BY <1>2, <1>5, <1>6, <2>1, <2>2 DEF RealLock
  <2>3. CASE pc[t].id # NoId
    BY <1>5, <1>6, <2>1, <2>3 DEF RealLock
  <2> QED BY <2>2, <2>3
<1>7. CASE RealTryLock(t)
  <2>1. /\ UNCHANGED <<held, start>> /\ pc[t].at = "try"
        /\ Goto(t, [pc[t] EXCEPT !.at = "locked"]) \/ Goto(t, Idle)
    BY <1>7 DEF RealTryLock
  <2>2. pc[t].id # NoId
    <3>1. pc[t].mu \in Locks /\ At(t, pc[t].mu, {"try"})
      BY <1>1, <2>1, AtSome
    <3>2. At(t, pc[t].mu, {"lock", "locked", "try"})
      BY <3>1 DEF At
    <3> QED BY <2>1, <3>1, <3>2 DEF TableInv, CallInv, UnwatchedInv
  <2>3. CASE Goto(t, [pc[t] EXCEPT !.at = "locked"])
    BY <1>5, <2>1, <2>2, <2>3
  <2>4. CASE Goto(t, Idle)
    BY <1>2, <1>5, <2>1, <2>4
  <2> QED BY <2>1, <2>3, <2>4
<1>8. CASE InLock(t)
  <2>1. pc[t].at = "locked" /\ UNCHANGED start /\ Goto(t, Idle)
    BY <1>8 DEF InLock
  <2>2. pc[t].mu \in Locks /\ pc[t].id # NoId
    <3>1. pc[t].mu \in Locks /\ pc[t].id \in Ids
      BY <2>1, InLockCall
    <3> QED BY <3>1, IdFacts
  <2>3. \A u \in Threads : u # t => held'[u] = held[u]
    BY <1>8, <2>2, InLockFacts
  <2>4. start'[t] # "zero"
    BY <1>4, <2>1, <2>2
  <2> QED BY <1>3, <2>1, <2>3, <2>4, TimeOf
<1>9. CASE RealUnlock(t) \/ RealDelete(t) \/ CndWake(t)
  <2>1. UNCHANGED <<held, start>> /\ Goto(t, Idle)
    BY <1>9 DEF RealUnlock, RealDelete, CndWake
  <2> QED BY <1>2, <1>5, <2>1
<1>10. CASE Announcing(t)
  <2>1. UNCHANGED <<pc, held, start>>
    BY <1>10 DEF Announcing, IgnoreNextLock, IgnoreNextUnlock
  <2> QED BY <2>1 DEF TimeInv
<1>11. ASSUME NEW l \in Locks, BeforeLock(t, l) \/ BeforeTryLock(t, l)
       PROVE  TimeInv'
  <2>1. /\ UNCHANGED held
        /\ start' = IF held[t] = <<>> THEN [start EXCEPT ![t] = "running"] ELSE start
        /\ \E q : Goto(t, q)
    BY <1>11 DEF BeforeLock, BeforeTryLock
  <2>2. \A u \in Threads : u # t => pc'[u] = pc[u] /\ start'[u] = start[u]
    BY <1>1, <1>3, <2>1
  <2>3. start'[t] # "zero"
    <3>1. CASE held[t] = <<>>
      BY <1>1, <2>1, <3>1
    <3>2. CASE held[t] # <<>>
      BY <1>4, <2>1, <3>2
    <3> QED BY <3>1, <3>2
  <2> QED BY <2>1, <2>2, <2>3, TimeOf
<1>12. ASSUME NEW l \in Locks, BeforeLockFull(t, l) \/ BeforeLockIgnored(t, l)
       PROVE  TimeInv'
  <2>1. Goto(t, In("lock", l, NoId)) /\ UNCHANGED <<held, start>>
    BY <1>12 DEF BeforeLockFull, BeforeLockIgnored
  <2>2. In("lock", l, NoId).id = NoId
    BY DEF In
  <2> QED BY <1>5, <2>1, <2>2
<1>13. ASSUME NEW l \in Locks, AfterLockIgnored(t, l) \/ DeleteLock(t, l)
       PROVE  TimeInv'
  <2>1. /\ UNCHANGED <<held, start>>
        /\ Goto(t, In("unlock", l, NoId)) \/ Goto(t, In("delete", l, NoId))
    BY <1>13 DEF AfterLockIgnored, DeleteLock
  <2>2. In("unlock", l, NoId).id = NoId /\ In("delete", l, NoId).id = NoId
    BY DEF In
  <2> QED BY <1>5, <2>1, <2>2
<1>14. ASSUME NEW l \in Locks, AfterLock(t, l)
       PROVE  TimeInv'
  <2>1. /\ Goto(t, In("unlock", l, NoId))
        /\ start' = IF held'[t] = <<>> THEN [start EXCEPT ![t] = "zero"] ELSE start
    BY <1>14 DEF AfterLock
  <2>2. /\ \A u \in Threads : u # t => held'[u] = held[u]
        /\ held[t] = <<>> => held'[t] = <<>>
    <3>1. /\ \A u \in Threads : u # t => held'[u] = held[u]
          /\ held' \in [Threads -> Seq(Entry)]
          /\ \A i \in DOMAIN held'[t] : \E j \in DOMAIN held[t] : TRUE
      BY <1>14, AfterLockFacts
    <3>2. held[t] = <<>> => DOMAIN held'[t] = {}
      BY <3>1
    <3>3. held'[t] \in Seq(Entry)
      BY <3>1
    <3>4. DOMAIN held'[t] = {} => held'[t] = <<>>
      <4>1. Len(held'[t]) \in Nat /\ DOMAIN held'[t] = 1 .. Len(held'[t])
        BY <3>3
      <4>2. DOMAIN held'[t] = {} => Len(held'[t]) = 0
        <5>1. Len(held'[t]) # 0 => 1 \in 1 .. Len(held'[t])
          BY <4>1
        <5> QED BY <4>1, <5>1
      <4> QED BY <3>3, <4>2
    <3> QED BY <3>1, <3>2, <3>4
  <2>3. In("unlock", l, NoId).at = "unlock"
    BY DEF In
  <2>4. \A u \in Threads : u # t => start'[u] = start[u]
    BY <1>1, <2>1
  <2>5. held'[t] # <<>> => start'[t] # "zero"
    BY <1>4, <2>1, <2>2
  <2>6. pc'[t].at = "unlock" /\ \A u \in Threads : u # t => pc'[u] = pc[u]
    BY <1>3, <2>1, <2>3
  <2> QED BY <2>2, <2>4, <2>5, <2>6, TimeOf
<1>15. ASSUME NEW l \in Locks, CndWait(t, l)
       PROVE  TimeInv'
  <2>1. /\ start' = [start EXCEPT ![t] = "waiting"] /\ UNCHANGED held
        /\ Goto(t, In("wait", l, NoId))
    BY <1>15 DEF CndWait
  <2>2. start'[t] # "zero" /\ \A u \in Threads : u # t => start'[u] = start[u]
    BY <1>1, <2>1
  <2> QED BY <1>3, <2>1, <2>2, TimeOf
<1> QED BY <1>0, <1>6, <1>7, <1>8, <1>9, <1>10, <1>11, <1>12, <1>13, <1>14, <1>15
        DEF StepOf, CallOf

(* Who owns a watched lock or is about to wait for one has a start time,   *)
(* in every program of SpecAll, until an error of the other kinds is found. *)
THEOREM HoldersTimed == SpecAll => []HoldersAreTimed
<1>1. Init => TimeInv
  BY DEF Init, TimeInv, Idle
<1>2. TableInv /\ TimeInv /\ [NextAll]_vars => TimeInv'
  <2> SUFFICES ASSUME TableInv, TimeInv, [NextAll]_vars PROVE TimeInv'
    OBVIOUS
  <2>1. CASE NextAll
    BY <2>1, StepTimed DEF NextAll, AnyStep
  <2>2. CASE UNCHANGED vars
    BY <2>2 DEF TimeInv, vars
  <2> QED BY <2>1, <2>2
<1>3. TableInv /\ NotedIfOwned /\ TimeInv => HoldersAreTimed
  <2> SUFFICES ASSUME TableInv, NotedIfOwned, TimeInv, ~other, NEW t \in Threads
               PROVE  \/ pc[t] = Idle /\ \E l \in Locks \ Ignored : owner[l] = t /\ ~Dying(l)
                      \/ pc[t].at \in {"lock", "try"} /\ pc[t].mu \notin Ignored
                      => start[t] # "zero"
    BY DEF HoldersAreTimed
  <2>0. TypeInv /\ pc \in [Threads -> {Idle} \cup Calls]
    BY DEF TableInv, TypeInv
  <2>1. ASSUME pc[t] = Idle, NEW l \in Locks \ Ignored, owner[l] = t, ~Dying(l)
        PROVE  start[t] # "zero"
    <3>1. Uncounted(t, l) = 0
      BY <2>1 DEF Uncounted, At, Idle
    <3>2. depth[l] # 0 /\ depth[l] \in 0 .. MaxDepth
      BY <2>0, <2>1, MonitorAssumption DEF TableInv, TypeInv, CallInv, RealInv
    <3>3. depth[l] > 0 /\ depth[l] - 0 = depth[l]
      BY <3>2, MonitorAssumption
    <3>4. Noted(t, l, depth[l])
      BY <2>1, <3>1, <3>3 DEF NotedIfOwned
    <3>5. held[t] # <<>>
      BY <3>4 DEF Noted, Has
    <3> QED BY <3>5 DEF TimeInv
  <2>2. ASSUME pc[t].at \in {"lock", "try"}, pc[t].mu \notin Ignored
        PROVE  start[t] # "zero"
    <3>1. pc[t].mu \in Locks /\ At(t, pc[t].mu, {"lock", "try"})
      BY <2>0, <2>2, AtSome
    <3>2. At(t, pc[t].mu, {"lock", "locked", "try"})
      BY <3>1 DEF At
    <3>3. pc[t].id # NoId
      BY <2>2, <3>1, <3>2 DEF TableInv, CallInv, UnwatchedInv
    <3> QED BY <2>2, <3>3 DEF TimeInv
  <2> QED BY <2>1, <2>2
<1> QED BY <1>1, <1>2, <1>3, TablesAgree, NothingMissed, PTL DEF SpecAll

-----------------------------------------------------------------------------
(* The entries of SpecBlocking are live: only unused locks are destroyed.  *)

LEMMA DeleteLockLive ==
    ASSUME TableInv, HeldLocksAreLive, NEW t \in Threads, NEW l \in Locks, Unused(l),
           DeleteLock(t, l)
    PROVE  HeldLocksAreLive'
<1>1. /\ TypeInv /\ OwnedIfNoted /\ EntryIds /\ held' = held
      /\ owner[l] = NoThread /\ NoThread \notin Threads
  BY MonitorAssumption DEF TableInv, IdsInv, DeleteLock, Unused
<1>2. \A k \in Locks : k # l => idOf'[k] = idOf[k]
  BY <1>1, DeleteLockFacts
<1>3. \A u \in Threads : ~At(u, l, {"wait"})
  <2> SUFFICES ASSUME NEW u \in Threads, At(u, l, {"wait"}) PROVE FALSE
    OBVIOUS
  <2>1. pc[u] # Idle /\ pc[u].mu = l
    BY DEF At, Idle
  <2> QED BY <2>1 DEF Unused, NotInUse, Busy
<1>4. \A u \in Threads, c \in 1 .. MaxDepth : ~Noted(u, l, c)
  BY <1>1, <1>3 DEF OwnedIfNoted
<1>5. ASSUME NEW u \in Threads, NEW i \in DOMAIN held[u]
      PROVE  idOf'[held[u][i].id[1]] = held[u][i].id
  <2>1. held[u] \in Seq(Entry)
    BY <1>1 DEF TypeInv
  <2>2. held[u][i].id[1] \in Locks /\ held[u][i].count \in 1 .. MaxDepth
    BY <2>1, TableFacts, IdFacts
  <2>3. idOf[held[u][i].id[1]] = held[u][i].id
    BY DEF HeldLocksAreLive, IsLive
  <2>4. held[u][i].id # idOf[l]
    <3> SUFFICES ASSUME held[u][i].id = idOf[l] PROVE FALSE
      OBVIOUS
    <3>1. Noted(u, l, held[u][i].count)
      BY DEF Noted, Has
    <3> QED BY <1>4, <2>2, <3>1
  <2>5. held[u][i].id[1] # l
    BY <2>3, <2>4
  <2> QED BY <1>2, <2>2, <2>3, <2>5
<1> QED BY <1>1, <1>5 DEF HeldLocksAreLive, IsLive

(* GetId keeps nodes alive; the ids in the tables were there before.       *)
LEMMA GetIdLive ==
    ASSUME TableInv, HeldLocksAreLive, NEW l \in Locks, NEW traced \in BOOLEAN, GetId(l, traced),
           \A u \in Threads : \A i \in DOMAIN held'[u] :
              \E j \in DOMAIN held[u] : held'[u][i].id = held[u][j].id
    PROVE  HeldLocksAreLive'
<1>1. TypeInv /\ CurrentIds /\ EntryIds
  BY DEF TableInv, IdsInv
<1>2. \A x \in Ids : IsLive(x) => IsLive(x)'
  BY <1>1, GetIdKeeps
<1>3. ASSUME NEW u \in Threads, NEW j \in DOMAIN held[u]
      PROVE  idOf'[held[u][j].id[1]] = held[u][j].id
  <2>1. held[u] \in Seq(Entry)
    BY <1>1 DEF TypeInv
  <2>2. held[u][j].id \in Ids /\ idOf[held[u][j].id[1]] = held[u][j].id
    BY <2>1, TableFacts DEF HeldLocksAreLive, IsLive
  <2> QED BY <1>2, <2>2 DEF IsLive
<1> QED BY <1>3 DEF HeldLocksAreLive, IsLive

LEMMA LegalLive ==
    ASSUME TableInv, HeldLocksAreLive, NEW t \in Threads, LegalStep(t)
    PROVE  HeldLocksAreLive'
<1>1. CASE RealLock(t) \/ RealUnlock(t) \/ RealDelete(t)
  <2>1. UNCHANGED <<held, idOf>>
    BY <1>1 DEF RealLock, RealUnlock, RealDelete, nodes
  <2> QED BY <2>1 DEF HeldLocksAreLive, IsLive
<1>2. CASE InLock(t)
  <2>1. PICK l \in Locks : l = pc[t].mu /\ IsLive(idOf[l])
    <3>1. /\ pc[t].mu \in Locks /\ pc[t].id \in Ids /\ pc[t].id = idOf[pc[t].mu]
          /\ TypeInv /\ CurrentIds
      BY <1>2, InLockCall DEF InLock, TableInv, IdsInv
    <3>2. IsLive(idOf[pc[t].mu])
      BY <3>1, LiveIds, IdFacts
    <3> QED BY <3>1, <3>2
  <2>2. /\ \A u \in Threads : u # t => held'[u] = held[u]
        /\ \A i \in DOMAIN held'[t] :
              \/ held'[t][i].id = idOf[l]
              \/ \E j \in DOMAIN held[t] : held'[t][i].id = held[t][j].id
    BY <1>2, <2>1, InLockFacts
  <2>3. idOf' = idOf
    BY <1>2 DEF InLock, nodes
  <2> QED BY <2>1, <2>2, <2>3 DEF HeldLocksAreLive, IsLive
<1>3. ASSUME NEW l \in Locks, BeforeLock(t, l)
      PROVE  HeldLocksAreLive'
  <2>1. GetId(l, TRUE) /\ held' = held
    BY <1>3 DEF BeforeLock
  <2> QED BY <2>1, GetIdLive
<1>4. ASSUME NEW l \in Locks, BeforeLockFull(t, l)
      PROVE  HeldLocksAreLive'
  <2>1. UNCHANGED <<held, idOf>>
    BY <1>4 DEF BeforeLockFull, nodes
  <2> QED BY <2>1 DEF HeldLocksAreLive, IsLive
<1>5. ASSUME NEW l \in Locks, AfterLock(t, l)
      PROVE  HeldLocksAreLive'
  <2>1. GetId(l, FALSE)
    BY <1>5 DEF AfterLock
  <2>2. /\ \A u \in Threads : u # t => held'[u] = held[u]
        /\ \A i \in DOMAIN held'[t] : \E j \in DOMAIN held[t] : held'[t][i].id = held[t][j].id
    BY <1>5, AfterLockFacts
  <2>3. \A u \in Threads : \A i \in DOMAIN held'[u] :
           \E j \in DOMAIN held[u] : held'[u][i].id = held[u][j].id
    BY <2>2
  <2> QED BY <2>1, <2>3, GetIdLive
<1>6. ASSUME NEW l \in Locks, Unused(l), DeleteLock(t, l)
      PROVE  HeldLocksAreLive'
  BY <1>6, DeleteLockLive
<1> QED BY <1>1, <1>2, <1>3, <1>4, <1>5, <1>6 DEF LegalStep, Legal

(* assert(false) in build_watchdog_callstack is out of reach: an entry of  *)
(* any thread names a node that is still in the graph.                     *)
THEOREM EntriesStayLive == SpecBlocking => []HeldLocksAreLive
<1>1. Init => HeldLocksAreLive
  BY EmptySeq DEF Init, HeldLocksAreLive
<1>2. TableInv /\ Quiet /\ HeldLocksAreLive /\ [NextBlocking]_vars => HeldLocksAreLive'
  <2> SUFFICES ASSUME TableInv, Quiet, HeldLocksAreLive, [NextBlocking]_vars
               PROVE  HeldLocksAreLive'
    OBVIOUS
  <2>1. CASE NextBlocking
    BY <2>1, BlockingStep, LegalLive DEF NextBlocking
  <2>2. CASE UNCHANGED vars
    BY <2>2 DEF HeldLocksAreLive, IsLive, vars, nodes
  <2> QED BY <2>1, <2>2
<1> QED BY <1>1, <1>2, BlockingIsAllowed, TablesAgree, NothingAnnounced, PTL DEF SpecBlocking

-----------------------------------------------------------------------------
(* A real deadlock is an inversion.                                        *)

CycleInverted == HasCycle(order, Locks) => inverted

LEMMA StepInverted ==
    ASSUME TableInv, CycleInverted, NEW t \in Threads, AnyStep(t)
    PROVE  CycleInverted'
<1>1. StepOf(t)
  BY StepByStep
<1>2. CASE \/ RealLock(t) \/ InLock(t) \/ RealUnlock(t) \/ RealDelete(t)
           \/ RealTryLock(t) \/ CndWake(t) \/ Announcing(t)
  <2>1. UNCHANGED <<order, inverted>>
    BY <1>2 DEF RealLock, InLock, RealUnlock, RealDelete, RealTryLock, CndWake, Announcing,
                IgnoreNextLock, IgnoreNextUnlock, history
  <2> QED BY <2>1 DEF CycleInverted
<1>3. ASSUME NEW l \in Locks, CallOf(t, l)
      PROVE  CycleInverted'
  <2>1. CASE BeforeLock(t, l) \/ BeforeLockFull(t, l)
    <3>1. Inverts(t, l)
      BY <2>1 DEF BeforeLock, BeforeLockFull
    <3> QED BY <3>1 DEF Inverts, CycleInverted
  <2>2. CASE \/ BeforeLockIgnored(t, l) \/ AfterLockIgnored(t, l) \/ CndWait(t, l)
             \/ BeforeTryLock(t, l) \/ AfterLock(t, l)
    <3>1. UNCHANGED <<order, inverted>>
      BY <2>2 DEF BeforeLockIgnored, AfterLockIgnored, CndWait, BeforeTryLock, AfterLock, history
    <3> QED BY <3>1 DEF CycleInverted
  <2>3. CASE DeleteLock(t, l)
    <3>1. order' \in SUBSET order /\ inverted' = inverted
      BY <2>3 DEF DeleteLock
    <3>2. ~HasCycle(order, Locks) => ~HasCycle(order', Locks)
      BY <3>1, FewerPairs
    <3> QED BY <3>1, <3>2 DEF CycleInverted
  <2> QED BY <1>3, <2>1, <2>2, <2>3 DEF CallOf
<1> QED BY <1>1, <1>2, <1>3 DEF StepOf

(* The history takes a cycle of any length for what it is: acquisition     *)
(* orders that contradict each other.                                      *)
THEOREM CyclesAreInversions == SpecAll => []CycleInverted
<1>1. Init => CycleInverted
  BY DEF Init, CycleInverted, HasCycle
<1>2. TableInv /\ CycleInverted /\ [NextAll]_vars => CycleInverted'
  <2> SUFFICES ASSUME TableInv, CycleInverted, [NextAll]_vars PROVE CycleInverted'
    OBVIOUS
  <2>1. CASE NextAll
    BY <2>1, StepInverted DEF NextAll, AnyStep
  <2>2. CASE UNCHANGED vars
    BY <2>2 DEF CycleInverted, vars, history
  <2> QED BY <2>1, <2>2
<1> QED BY <1>1, <1>2, TablesAgree, PTL DEF SpecAll

(* A program that only blocks waits for no announced lock, owns none and   *)
(* none that is being destroyed; and whoever waits for a lock has acquired *)
(* it after all the locks it owns.                                         *)
CallsWatched == \A t \in Threads, l \in Locks : At(t, l, {"lock", "locked"}) => l \notin Ignored
OwnedInUse   == \A l \in Locks : owner[l] # NoThread => l \notin Ignored /\ ~Dying(l)
WaitsOrdered == \A t \in Threads, l \in Locks :
                    At(t, l, {"lock"}) /\ owner[l] # t
                    => \A h \in Locks : owner[h] = t => <<h, l>> \in order
ProgramInv == CallsWatched /\ OwnedInUse /\ WaitsOrdered

(* A thread moves on inside its call; only locks of its own change hands.  *)
LEMMA ProgramStep ==
    ASSUME ProgramInv, TypeInv, NEW t \in Threads, pc'[t].at \in {"idle", "locked", "unlock"},
           pc'[t].at = "locked" => pc[t].at \in {"lock", "locked"} /\ pc'[t].mu = pc[t].mu,
           \A u \in Threads : u # t => pc'[u] = pc[u],
           order' = order,
           \A k \in Locks : \/ owner'[k] = owner[k]
                            \/ owner[k] \in {NoThread, t} /\ owner'[k] \in {NoThread, t},
           \A k \in Locks : owner'[k] # NoThread /\ owner[k] = NoThread
                            => k \notin Ignored /\ ~Dying(k)
    PROVE  ProgramInv'
<1>1. \A k : Dying(k)' => Dying(k)
  <2>1. \A k, u : (Busy(u, k) /\ pc[u].at = "delete")' =>
                   pc'[u].at = "delete" /\ pc'[u] # Idle /\ pc'[u].mu = k
    BY DEF Busy
  <2>2. "delete" \notin {"idle", "locked", "unlock"}
    OBVIOUS
  <2> QED BY <2>1, <2>2 DEF Dying, Busy
<1>2. CallsWatched'
  BY DEF ProgramInv, CallsWatched, At
<1>3. OwnedInUse'
  BY <1>1 DEF ProgramInv, OwnedInUse
<1>4. ASSUME NEW u \in Threads, NEW k \in Locks, At(u, k, {"lock"})', owner'[k] # u,
             NEW h \in Locks, owner'[h] = u
      PROVE  <<h, k>> \in order
  <2>1. u # t /\ u # NoThread
    BY <1>4, MonitorAssumption DEF At
  <2>2. At(u, k, {"lock"})
    BY <1>4, <2>1 DEF At
  <2>3. owner[k] # u /\ owner[h] = u
    BY <1>4, <2>1
  <2> QED BY <2>2, <2>3 DEF ProgramInv, WaitsOrdered
<1> QED BY <1>2, <1>3, <1>4 DEF ProgramInv, WaitsOrdered

(* before_lock: the new wait is ordered after all the thread owns.         *)
LEMMA BeforeLockProgram ==
    ASSUME ProgramInv, TypeInv, NEW t \in Threads, NEW l \in Locks \ Ignored, NEW id,
           Goto(t, In("lock", l, id)), Inverts(t, l), owner' = owner
    PROVE  ProgramInv'
<1>1. /\ pc'[t].at = "lock" /\ pc'[t].mu = l /\ pc'[t] # Idle
      /\ \A u \in Threads : u # t => pc'[u] = pc[u]
  <2>1. pc' = [pc EXCEPT ![t] = In("lock", l, id)] /\ pc \in [Threads -> {Idle} \cup Calls]
    BY DEF Goto, TypeInv
  <2>2. pc'[t] = In("lock", l, id)
    BY <2>1
  <2> QED BY <2>1, <2>2 DEF In, Idle
<1>2. order' = order \cup (IF owner[l] = t THEN {}
                           ELSE {<<h, l>> : h \in {k \in Locks \ Ignored : owner[k] = t /\ ~Dying(k)}})
  BY DEF Inverts
<1>3. \A k \in Locks : Dying(k)' => Dying(k)
  BY <1>1 DEF Dying, Busy
<1>4. CallsWatched'
  BY <1>1 DEF ProgramInv, CallsWatched, At
<1>5. OwnedInUse'
  BY <1>3 DEF ProgramInv, OwnedInUse
<1>6. ASSUME NEW u \in Threads, NEW k \in Locks, At(u, k, {"lock"})', owner[k] # u,
             NEW h \in Locks, owner[h] = u
      PROVE  <<h, k>> \in order'
  <2>1. CASE u = t
    <3>1. k = l /\ h \notin Ignored /\ ~Dying(h)
      BY <1>1, <1>6, <2>1, MonitorAssumption DEF At, ProgramInv, OwnedInUse
    <3> QED BY <1>2, <1>6, <2>1, <3>1
  <2>2. CASE u # t
    <3>1. At(u, k, {"lock"})
      BY <1>1, <1>6, <2>2 DEF At
    <3>2. <<h, k>> \in order
      BY <1>6, <3>1 DEF ProgramInv, WaitsOrdered
    <3> QED BY <1>2, <3>2
  <2> QED BY <2>1, <2>2
<1> QED BY <1>4, <1>5, <1>6 DEF ProgramInv, WaitsOrdered

(* delete_lock takes the lock out of the orders: nobody waits for it or    *)
(* owns it.                                                                *)
LEMMA DeleteLockProgram ==
    ASSUME ProgramInv, TypeInv, NEW t \in Threads, NEW l \in Locks \ Ignored, Unused(l),
           DeleteLock(t, l)
    PROVE  ProgramInv'
<1>1. /\ Goto(t, In("delete", l, NoId)) /\ owner' = owner /\ owner[l] = NoThread
      /\ order' = {e \in order : l \notin {e[1], e[2]}} /\ NoThread \notin Threads
  BY MonitorAssumption DEF DeleteLock, real, Unused
<1>2. /\ pc'[t].at = "delete" /\ pc'[t].mu = l
      /\ \A u \in Threads : u # t => pc'[u] = pc[u]
  <2>1. pc' = [pc EXCEPT ![t] = In("delete", l, NoId)] /\ pc \in [Threads -> {Idle} \cup Calls]
    BY <1>1 DEF Goto, TypeInv
  <2>2. pc'[t] = In("delete", l, NoId)
    BY <2>1
  <2> QED BY <2>1, <2>2 DEF In
<1>3. \A k \in Locks : k # l /\ Dying(k)' => Dying(k)
  BY <1>2 DEF Dying, Busy
<1>4. CallsWatched'
  BY <1>2 DEF ProgramInv, CallsWatched, At
<1>5. OwnedInUse'
  BY <1>1, <1>3 DEF ProgramInv, OwnedInUse
<1>6. ASSUME NEW u \in Threads, NEW k \in Locks, At(u, k, {"lock"})', owner[k] # u,
             NEW h \in Locks, owner[h] = u
      PROVE  <<h, k>> \in order'
  <2>1. At(u, k, {"lock"}) /\ pc[u] # Idle
    BY <1>2, <1>6 DEF At, Idle
  <2>2. k # l
    BY <2>1 DEF Unused, NotInUse, Busy, At
  <2>3. h # l
    BY <1>1, <1>6
  <2>4. <<h, k>> \in order
    BY <1>6, <2>1 DEF ProgramInv, WaitsOrdered
  <2> QED BY <1>1, <2>2, <2>3, <2>4
<1> QED BY <1>1, <1>4, <1>5, <1>6 DEF ProgramInv, WaitsOrdered

LEMMA LegalProgram ==
    ASSUME TableInv, ProgramInv, NEW t \in Threads, LegalStep(t)
    PROVE  ProgramInv'
<1>1. /\ TypeInv /\ CallInv /\ pc \in [Threads -> {Idle} \cup Calls]
      /\ owner \in [Locks -> Threads \cup {NoThread}] /\ NoThread \notin Threads
  BY MonitorAssumption DEF TableInv, TypeInv
<1>2. Idle.at = "idle"
  BY DEF Idle
<1>3. ASSUME NEW q, Goto(t, q)
      PROVE  pc'[t] = q /\ \A u \in Threads : u # t => pc'[u] = pc[u]
  BY <1>1, <1>3 DEF Goto
<1>4. CASE RealLock(t)
  <2>1. /\ pc[t].at = "lock" /\ order' = order /\ owner[pc[t].mu] \in {NoThread, t}
        /\ owner' = [owner EXCEPT ![pc[t].mu] = t]
        /\ Goto(t, IF pc[t].id = NoId THEN Idle ELSE [pc[t] EXCEPT !.at = "locked"])
    BY <1>4 DEF RealLock, history
  <2>2. PICK l \in Locks : l = pc[t].mu /\ At(t, l, {"lock", "locked"})
    <3>1. pc[t].at \in {"lock", "locked"}
      BY <2>1
    <3> QED BY <1>1, <3>1, AtSome
  <2>3. l \notin Ignored
    BY <2>2 DEF ProgramInv, CallsWatched
  <2>4. ~Dying(l)
    <3>1. At(t, l, {"lock", "locked", "try", "wait", "delete"}) /\ ~At(t, l, {"delete"})
      BY <2>1, <2>2 DEF At
    <3>2. \A u \in Threads : ~At(u, l, {"delete"})
      BY <1>1, <3>1 DEF CallInv, DyingAlone
    <3> QED BY <1>1, <3>2, DyingMeans
  <2>5. pc[t] \in Calls
    BY <1>1, <2>1, PlaceFacts
  <2>6. /\ pc'[t].at \in {"idle", "locked"} /\ (pc'[t].at = "locked" => pc'[t].mu = pc[t].mu)
        /\ \A u \in Threads : u # t => pc'[u] = pc[u]
    <3>1. [pc[t] EXCEPT !.at = "locked"].at = "locked" /\ [pc[t] EXCEPT !.at = "locked"].mu = pc[t].mu
      BY <2>5 DEF Calls
    <3>2. CASE pc[t].id = NoId
      <4>1. Goto(t, Idle)
        BY <2>1, <3>2
      <4> QED BY <1>2, <1>3, <4>1
    <3>3. CASE pc[t].id # NoId
      <4> DEFINE q == [pc[t] EXCEPT !.at = "locked"]
      <4>1. Goto(t, q) /\ q.at = "locked" /\ q.mu = pc[t].mu
        BY <2>1, <3>1, <3>3
      <4> HIDE DEF q
      <4> QED BY <1>3, <4>1
    <3> QED BY <3>2, <3>3
  <2>7. /\ owner'[l] = t /\ owner[l] \in {NoThread, t}
        /\ \A k \in Locks : k # l => owner'[k] = owner[k]
    BY <1>1, <2>1, <2>2
  <2> QED BY <1>1, <2>1, <2>3, <2>4, <2>6, <2>7, ProgramStep
<1>5. CASE InLock(t)
  <2>1. order' = order /\ owner' = owner /\ Goto(t, Idle)
    BY <1>5 DEF InLock, history, real
  <2>2. pc'[t].at = "idle" /\ \A u \in Threads : u # t => pc'[u] = pc[u]
    BY <1>2, <1>3, <2>1
  <2> QED BY <1>1, <2>1, <2>2, ProgramStep
<1>6. CASE RealUnlock(t)
  <2>1. pc[t].at = "unlock" /\ order' = order /\ Goto(t, Idle)
    BY <1>6 DEF RealUnlock, history
  <2>2. pc'[t].at = "idle" /\ \A u \in Threads : u # t => pc'[u] = pc[u]
    BY <1>2, <1>3, <2>1
  <2>3. \A k \in Locks : \/ owner'[k] = owner[k]
                         \/ owner[k] \in {NoThread, t} /\ owner'[k] \in {NoThread, t}
    <3>1. CASE owner[pc[t].mu] = t
      <4>1. owner' = [owner EXCEPT ![pc[t].mu] = IF depth[pc[t].mu] = 1 THEN NoThread ELSE t]
        BY <1>6, <3>1 DEF RealUnlock
      <4> QED BY <1>1, <3>1, <4>1
    <3>2. CASE owner[pc[t].mu] # t
      <4>1. owner' = owner
        BY <1>6, <3>2 DEF RealUnlock, real
      <4> QED BY <4>1
    <3> QED BY <3>1, <3>2
  <2>4. \A k \in Locks : owner[k] = NoThread => owner'[k] = NoThread
    <3>1. CASE owner[pc[t].mu] = t
      <4>1. owner' = [owner EXCEPT ![pc[t].mu] = IF depth[pc[t].mu] = 1 THEN NoThread ELSE t]
        BY <1>6, <3>1 DEF RealUnlock
      <4> QED BY <1>1, <3>1, <4>1
    <3>2. CASE owner[pc[t].mu] # t
      <4>1. owner' = owner
        BY <1>6, <3>2 DEF RealUnlock, real
      <4> QED BY <4>1
    <3> QED BY <3>1, <3>2
  <2> QED BY <1>1, <2>1, <2>2, <2>3, <2>4, ProgramStep
<1>7. CASE RealDelete(t)
  <2>1. /\ pc[t].at = "delete" /\ order' = order /\ Goto(t, Idle)
        /\ owner' = [owner EXCEPT ![pc[t].mu] = NoThread]
    BY <1>7 DEF RealDelete, history
  <2>2. pc'[t].at = "idle" /\ \A u \in Threads : u # t => pc'[u] = pc[u]
    BY <1>2, <1>3, <2>1
  <2>3. PICK l \in Locks : l = pc[t].mu /\ At(t, l, {"delete"})
    <3>1. pc[t].at \in {"delete"}
      BY <2>1
    <3> QED BY <1>1, <3>1, AtSome
  <2>4. owner[l] = NoThread
    <3>1. Dying(l)
      BY <1>1, <2>3, DyingMeans
    <3> QED BY <3>1 DEF ProgramInv, OwnedInUse
  <2>5. \A k \in Locks : owner'[k] = owner[k]
    BY <1>1, <2>1, <2>3, <2>4
  <2> QED BY <1>1, <2>1, <2>2, <2>5, ProgramStep
<1>8. ASSUME NEW l \in Locks \ Ignored, BeforeLock(t, l) \/ BeforeLockFull(t, l)
      PROVE  ProgramInv'
  <2>1. /\ Goto(t, In("lock", l, IdFor(l))) \/ Goto(t, In("lock", l, NoId))
        /\ Inverts(t, l) /\ owner' = owner
    BY <1>8 DEF BeforeLock, BeforeLockFull, real
  <2> QED BY <1>1, <2>1, BeforeLockProgram
<1>9. ASSUME NEW l \in Locks, AfterLock(t, l)
      PROVE  ProgramInv'
  <2>1. order' = order /\ owner' = owner /\ Goto(t, In("unlock", l, NoId))
    BY <1>9 DEF AfterLock, history, real
  <2>2. pc'[t].at = "unlock" /\ \A u \in Threads : u # t => pc'[u] = pc[u]
    BY <1>3, <2>1 DEF In
  <2> QED BY <1>1, <2>1, <2>2, ProgramStep
<1>10. ASSUME NEW l \in Locks \ Ignored, Unused(l), DeleteLock(t, l)
       PROVE  ProgramInv'
  BY <1>1, <1>10, DeleteLockProgram
<1> QED BY <1>4, <1>5, <1>6, <1>7, <1>8, <1>9, <1>10 DEF LegalStep, Legal

(* In programs that only block every lock taken is watched, and who waits  *)
(* for a lock has acquired all it holds before.                            *)
THEOREM ProgramsOnlyBlock == SpecBlocking => []ProgramInv
<1>1. Init => ProgramInv
  <2> SUFFICES ASSUME Init PROVE ProgramInv
    OBVIOUS
  <2>1. \A t \in Threads : pc[t] = Idle
    BY DEF Init
  <2>2. \A t \in Threads, l \in Locks : ~At(t, l, {"lock", "locked"}) /\ ~At(t, l, {"lock"})
    BY <2>1, NowhereWhenIdle
  <2> QED BY <2>2 DEF Init, ProgramInv, CallsWatched, OwnedInUse, WaitsOrdered
<1>2. TableInv /\ Quiet /\ ProgramInv /\ [NextBlocking]_vars => ProgramInv'
  <2> SUFFICES ASSUME TableInv, Quiet, ProgramInv, [NextBlocking]_vars PROVE ProgramInv'
    OBVIOUS
  <2>1. CASE NextBlocking
    BY <2>1, BlockingStep, LegalProgram DEF NextBlocking
  <2>2. CASE UNCHANGED vars
    BY <2>2 DEF ProgramInv, CallsWatched, OwnedInUse, WaitsOrdered, At, Dying, Busy,
                vars, real, history
  <2> QED BY <2>1, <2>2
<1> QED BY <1>1, <1>2, BlockingIsAllowed, TablesAgree, NothingAnnounced, PTL DEF SpecBlocking

(* In a finite set whose members are all followed by another along O there *)
(* is a cycle: take the member that leads to the fewest.                   *)
LEMMA CircleHasCycle ==
    ASSUME NEW D, IsFiniteSet(D), D # {}, NEW f, NEW O, NEW V,
           \A t \in D : \E u \in D : <<f[t], f[u]>> \in O
    PROVE  HasCycle(O, V)
<1> DEFINE R(t) == {u \in D : Leads(O, V, f[t], f[u])}
           T == {Cardinality(R(t)) : t \in D}
<1>1. \A t \in D : R(t) \in SUBSET D /\ t \in R(t)
  BY DEF Leads
<1>2. \A t \in D : IsFiniteSet(R(t)) /\ Cardinality(R(t)) \in Nat
  BY <1>1, FS_Subset, FS_CardinalityType
<1>3. T \in SUBSET Nat /\ T # {}
  BY <1>2
<1>4. PICK n \in T : \A m \in T : n <= m
  <2> HIDE DEF T
  <2> QED BY <1>3, FirstMember
<1>5. PICK t \in D : Cardinality(R(t)) = n
  BY DEF T
<1>6. PICK u \in D : <<f[t], f[u]>> \in O
  OBVIOUS
<1> DEFINE e == <<f[t], f[u]>>
<1>7. e \in O /\ e[1] = f[t] /\ e[2] = f[u]
  BY <1>6
<1>8. Leads(O, V, f[t], f[u])
  <2> HIDE DEF e
  <2> QED BY <1>7 DEF Leads
<1>9. R(u) \subseteq R(t)
  BY <1>8 DEF Leads
<1>10. R(u) = R(t)
  <2>1. Cardinality(R(u)) \in T /\ Cardinality(R(u)) \in Nat /\ n \in Nat /\ IsFiniteSet(R(t))
    BY <1>2, <1>3
  <2>2. n <= Cardinality(R(u))
    BY <1>4, <2>1
  <2> HIDE DEF R
  <2>3. /\ Cardinality(R(u)) <= Cardinality(R(t))
        /\ Cardinality(R(t)) = Cardinality(R(u)) => R(t) = R(u)
    BY <1>9, <2>1, FS_Subset
  <2> QED BY <1>5, <2>1, <2>2, <2>3
<1>11. Leads(O, V, f[u], f[t])
  BY <1>1, <1>10
<1> HIDE DEF e
<1> QED BY <1>7, <1>11 DEF HasCycle

(* What the monitor is for: when threads of a program that only blocks     *)
(* wait for one another in a circle, it has reported.  Every thread of the *)
(* circle waits for a lock that another owns, who has acquired the one it  *)
(* waits for after that: the orders have a cycle.                          *)
THEOREM DeadlocksAreReported ==
    ASSUME IsFiniteSet(Threads)
    PROVE  SpecBlocking => []DeadlockIsReported
<1>1. TypeInv /\ ProgramInv /\ CycleInverted /\ InversionIsReported => DeadlockIsReported
  <2> SUFFICES ASSUME TypeInv, ProgramInv, CycleInverted, InversionIsReported, Deadlocked
               PROVE  potential \/ other
    BY DEF DeadlockIsReported
  <2>1. PICK D \in SUBSET Threads : D # {} /\ Stuck(D)
    BY DEF Deadlocked
  <2> DEFINE f == [t \in Threads |-> pc[t].mu]
  <2>2. ASSUME NEW t \in D PROVE \E u \in D : <<f[t], f[u]>> \in order
    <3>1. PICK u \in D : owner[pc[t].mu] = u /\ u # t /\ pc[t].at = "lock"
      BY <2>1, <2>2 DEF Stuck
    <3>2. pc[u].at \in {"lock"} /\ pc[t].at \in {"lock"} /\ owner[pc[u].mu] # u
      BY <2>1, <3>1 DEF Stuck
    <3>3. /\ pc[u].mu \in Locks /\ At(u, pc[u].mu, {"lock"}) /\ pc[t].mu \in Locks
      BY <3>2, AtSome
    <3>4. <<pc[t].mu, pc[u].mu>> \in order
      BY <3>1, <3>2, <3>3 DEF ProgramInv, WaitsOrdered
    <3> QED BY <3>4
  <2>3. IsFiniteSet(D)
    BY FS_Subset
  <2>4. HasCycle(order, Locks)
    <3> HIDE DEF f
    <3> QED BY <2>1, <2>2, <2>3, CircleHasCycle
  <2> QED BY <2>4 DEF CycleInverted, InversionIsReported
<1>2. TableInv => TypeInv
  BY DEF TableInv
<1> QED BY <1>1, <1>2, BlockingIsAllowed, TablesAgree, ProgramsOnlyBlock, CyclesAreInversions,
           InversionsReported, PTL
=============================================================================
