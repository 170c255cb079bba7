--------------------------- MODULE WatchdogProofs ---------------------------
(***************************************************************************)
(* Proofs about ThreadWatchdog, for any threads, timers, limit and period: *)
(* the list of watched threads is exact, a timer is there while it is not  *)
(* empty, and a hold that was picked is not picked again.                  *)
(***************************************************************************)
EXTENDS ThreadWatchdog, TLAPS, SequenceTheorems, FiniteSetTheorems

Entry == [thread : Threads, logged : BOOLEAN]
Clock == {Off, [at |-> "restart"]} \cup [at : {"pending"}, left : 0 .. Period]
                                   \cup [at : {"report"}, thread : Threads]

(* No thread is listed twice. *)
ListedOnce == \A p, q \in Positions : m_threads[p].thread = m_threads[q].thread => p = q

(* The listed threads are those added and not removed. *)
ListComplete == \A t \in Threads : t \in Listed <=> \E p \in Positions : m_threads[p].thread = t

(* A thread that is not watched holds nothing the watchdog could see. *)
OthersIdle == \A t \in Threads : life[t] \in {"new", "gone"} => start[t] = "zero"

(* What keeps a picked hold from being picked again: its entry is marked,  *)
(* and as its age stays at the limit no scan takes the mark away.          *)
PickedIsMarked ==
    \A p \in Positions :
      found[m_threads[p].thread] /\ start[m_threads[p].thread] = "running"
        => m_threads[p].logged /\ age[m_threads[p].thread] = MaxDuration

WInv == /\ TypeOK /\ ListedOnce /\ ListComplete
        /\ OthersIdle /\ PickedIsMarked /\ WatchdogAwake

(* The number of places of a list that holds the members of a set once     *)
(* each is the size of the set.                                            *)
LEMMA PlacesCount ==
    ASSUME NEW S, NEW n \in Nat, NEW f \in [1 .. n -> S],
           \A p, q \in 1 .. n : f[p] = f[q] => p = q,
           \A x \in S : \E p \in 1 .. n : f[p] = x
    PROVE  Cardinality(S) = n
<1>1. f \in Bijection(1 .. n, S)
  BY DEF Bijection, Injection, Surjection, IsInjective
<1>2. ExistsBijection(1 .. n, S)
  BY <1>1 DEF ExistsBijection
<1> QED BY <1>2, FS_CountingElements

(* remove_thread on the list: every place but the last is kept, and the    *)
(* removed one takes the last one's entry.                                 *)
LEMMA RemovedEntry ==
    ASSUME NEW S, NEW s \in Seq(S), NEW p \in 1 .. Len(s)
    PROVE  LET r == SubSeq([s EXCEPT ![p] = s[Len(s)]], 1, Len(s) - 1)
           IN /\ r \in Seq(S) /\ Len(r) = Len(s) - 1
              /\ \A q \in 1 .. Len(s) - 1 : r[q] = IF q = p THEN s[Len(s)] ELSE s[q]
<1> DEFINE n == Len(s)
           e == [s EXCEPT ![p] = s[n]]
<1>1. n \in Nat /\ n >= 1
  BY LenProperties
<1>2. s[n] \in S
  BY <1>1, ElementOfSeq
<1>3. /\ e \in Seq(S) /\ Len(e) = n
      /\ \A q \in 1 .. n : e[q] = IF q = p THEN s[n] ELSE s[q]
  BY <1>2, ExceptSeq
<1>4. \A q \in 1 .. n - 1 : e[q] \in S
  BY <1>1, <1>3, ElementOfSeq
<1> HIDE DEF e
<1>5. /\ SubSeq(e, 1, n - 1) \in Seq(S)
      /\ Len(SubSeq(e, 1, n - 1)) = IF 1 <= n - 1 THEN n - 1 - 1 + 1 ELSE 0
      /\ \A q \in 1 .. n - 1 - 1 + 1 : SubSeq(e, 1, n - 1)[q] = e[1 + q - 1]
  BY <1>1, <1>4, SubSeqProperties
<1>6. Len(SubSeq(e, 1, n - 1)) = n - 1
  <2>1. CASE 1 <= n - 1
    <3>1. Len(SubSeq(e, 1, n - 1)) = n - 1 - 1 + 1
      BY <1>5, <2>1
    <3>2. n - 1 - 1 + 1 = n - 1
      BY <1>1
    <3> QED BY <3>1, <3>2
  <2>2. CASE ~(1 <= n - 1)
    <3>1. Len(SubSeq(e, 1, n - 1)) = 0
      BY <1>5, <2>2
    <3>2. n - 1 = 0
      BY <1>1, <2>2
    <3> QED BY <3>1, <3>2
  <2> QED BY <2>1, <2>2
<1>7. \A q \in 1 .. n - 1 : SubSeq(e, 1, n - 1)[q] = e[q]
  <2> TAKE q \in 1 .. n - 1
  <2>1. q \in 1 .. n - 1 - 1 + 1 /\ 1 + q - 1 = q
    BY <1>1
  <2> QED BY <1>5, <2>1
<1>8. \A q \in 1 .. n - 1 : SubSeq(e, 1, n - 1)[q] = IF q = p THEN s[n] ELSE s[q]
  BY <1>1, <1>3, <1>7
<1> QED BY <1>5, <1>6, <1>8 DEF e

(* add_thread on the list. *)
LEMMA AppendedEntry ==
    ASSUME NEW S, NEW s \in Seq(S), NEW x \in S
    PROVE  /\ Append(s, x) \in Seq(S) /\ Len(Append(s, x)) = Len(s) + 1
           /\ \A q \in 1 .. Len(s) + 1 :
                 Append(s, x)[q] = IF q = Len(s) + 1 THEN x ELSE s[q]
<1>1. Append(s, x) \in Seq(S) /\ Len(Append(s, x)) = Len(s) + 1
  BY AppendProperties
<1>2. Len(s) \in Nat
  BY LenProperties
<1> QED BY <1>1, <1>2, AppendProperties

LEMMA EntriesAreEntries ==
    ASSUME m_threads \in Seq(Entry)
    PROVE  /\ Len(m_threads) \in Nat
           /\ \A p \in Positions : m_threads[p] \in Entry /\ m_threads[p].thread \in Threads
<1>1. Len(m_threads) \in Nat /\ \A p \in Positions : m_threads[p] \in Entry
  BY LenProperties, ElementOfSeq DEF Positions
<1>2. \A e \in Entry : e.thread \in Threads
  BY DEF Entry
<1> QED BY <1>1, <1>2

(* A scan rewrites the marks and nothing else. *)
LEMMA ScannedEntries ==
    ASSUME m_threads \in Seq(Entry), NEW last
    PROVE  /\ Scanned(last) \in Seq(Entry) /\ Len(Scanned(last)) = Len(m_threads)
           /\ \A p \in Positions : Scanned(last)[p].thread = m_threads[p].thread
<1>1. Len(m_threads) \in Nat /\ \A p \in Positions : m_threads[p] \in Entry
  BY LenProperties, ElementOfSeq DEF Positions
<1>2. \A p \in Positions : /\ Scanned(last)[p] \in Entry
                           /\ Scanned(last)[p].thread = m_threads[p].thread
  BY <1>1 DEF Scanned, Entry
<1>3. Scanned(last) \in [1 .. Len(m_threads) -> Entry]
  BY <1>2 DEF Scanned, Positions
<1>4. Scanned(last) \in Seq(Entry)
  BY <1>1, <1>3, SeqDef
<1>5. Len(Scanned(last)) = Len(m_threads)
  <2>1. DOMAIN Scanned(last) = 1 .. Len(m_threads)
    BY <1>3
  <2> QED BY <1>1, <1>4, <2>1, LenProperties
<1> QED BY <1>2, <1>4, <1>5

(* What the facts about the list say of it as a property of the runs. *)
LEMMA ExactFromList ==
    ASSUME m_threads \in Seq(Entry), ListedOnce, ListComplete
    PROVE  ListIsExact
<1> DEFINE f == [p \in Positions |-> m_threads[p].thread]
<1>1. Len(m_threads) \in Nat /\ \A p \in Positions : m_threads[p] \in Entry
  BY LenProperties, ElementOfSeq DEF Positions
<1>2. \A p \in Positions : m_threads[p].thread \in Threads
  BY <1>1 DEF Entry
<1>3. Listed \subseteq Threads
  BY DEF Listed
<1>4. \A p \in Positions : m_threads[p].thread \in Listed
  BY <1>2 DEF ListComplete
<1>5. \A x \in Listed : \E p \in Positions : m_threads[p].thread = x
  BY <1>3 DEF ListComplete
<1>6. {m_threads[p].thread : p \in Positions} = Listed
  BY <1>4, <1>5
<1>7. f \in [1 .. Len(m_threads) -> Listed]
  BY <1>4 DEF Positions
<1>8. \A p, q \in 1 .. Len(m_threads) : f[p] = f[q] => p = q
  BY DEF ListedOnce, Positions
<1>9. \A x \in Listed : \E p \in 1 .. Len(m_threads) : f[p] = x
  BY <1>5 DEF Positions
<1>10. Len(m_threads) = Cardinality(Listed)
  <2> HIDE DEF f
  <2> QED BY <1>1, <1>7, <1>8, <1>9, PlacesCount
<1> QED BY <1>6, <1>10 DEF ListIsExact

(* The states of a timer and of the callback it runs. *)
LEMMA ClockStates ==
    /\ Off \in Clock /\ [at |-> "restart"] \in Clock /\ [at |-> "restart"] # Off
    /\ LET c == [at |-> "pending", left |-> Period]
       IN c \in Clock /\ c # Off
    /\ \A t \in Threads : LET c == [at |-> "report", thread |-> t]
                          IN c \in Clock /\ c # Off
    /\ \A c \in Clock : c.at = "report" => c.thread \in Threads
    /\ \A c \in Clock : c.at = "pending" /\ c.left > 0
         => [c EXCEPT !.left = @ - 1] \in Clock /\ [c EXCEPT !.left = @ - 1] # Off
<1>1. Off \in Clock /\ [at |-> "restart"] \in Clock /\ [at |-> "restart"] # Off
  <2>1. [at |-> "restart"].at = "restart" /\ Off.at = "off"
    BY DEF Off
  <2> QED BY <2>1 DEF Clock
<1>2. LET c == [at |-> "pending", left |-> Period]
      IN c \in Clock /\ c # Off
  <2>1. [at |-> "pending", left |-> Period].at = "pending" /\ Off.at = "off"
    BY DEF Off
  <2>2. Period \in 0 .. Period
    BY WatchdogAssumption
  <2> QED BY <2>1, <2>2 DEF Clock
<1>3. ASSUME NEW t \in Threads
      PROVE  LET c == [at |-> "report", thread |-> t] IN c \in Clock /\ c # Off
  <2>1. [at |-> "report", thread |-> t].at = "report" /\ Off.at = "off"
    BY DEF Off
  <2> QED BY <2>1 DEF Clock
<1>4. ASSUME NEW c \in Clock, c.at = "report"
      PROVE  c.thread \in Threads
  BY <1>4 DEF Clock, Off
<1>5. ASSUME NEW c \in Clock, c.at = "pending", c.left > 0
      PROVE  [c EXCEPT !.left = @ - 1] \in Clock /\ [c EXCEPT !.left = @ - 1] # Off
  <2>1. c \in [at : {"pending"}, left : 0 .. Period]
    BY <1>5 DEF Clock, Off
  <2>2. c.left - 1 \in 0 .. Period
    BY <1>5, <2>1, WatchdogAssumption
  <2>3. [c EXCEPT !.left = @ - 1] = [at |-> "pending", left |-> c.left - 1]
    BY <2>1
  <2>4. [at |-> "pending", left |-> c.left - 1].at = "pending" /\ Off.at = "off"
    BY DEF Off
  <2> QED BY <2>2, <2>3, <2>4 DEF Clock
<1> QED BY <1>1, <1>2, <1>3, <1>4, <1>5

(* A timer that is started is there. *)
LEMMA TimerStarted ==
    ASSUME NEW tm \in [Timers -> Clock], StartTimer(tm)
    PROVE  timer' \in [Timers -> Clock] /\ \E i \in Timers : timer'[i] # Off
<1>1. PICK i \in Timers : timer' = [tm EXCEPT ![i] = [at |-> "pending", left |-> Period]]
  BY DEF StartTimer
<1>2. timer'[i] = [at |-> "pending", left |-> Period]
  BY <1>1
<1> QED BY <1>1, <1>2, ClockStates

(* TypeOK in the words of this module. *)
LEMMA TypeInWords ==
    TypeOK <=> /\ life \in [Threads -> {"new", "watched", "gone", "late"}]
               /\ m_threads \in Seq(Entry)
               /\ start \in [Threads -> {"zero", "running", "waiting"}]
               /\ age \in [Threads -> 0 .. MaxDuration]
               /\ timer \in [Timers -> Clock]
               /\ found \in [Threads -> BOOLEAN]
               /\ reported \subseteq Threads
BY DEF TypeOK, Entry, Clock

(* The facts about the list, when a step leaves its threads as they are. *)
LEMMA SameThreads ==
    ASSUME WInv, m_threads' \in Seq(Entry), Len(m_threads') = Len(m_threads), life' = life,
           \A p \in Positions : m_threads'[p].thread = m_threads[p].thread
    PROVE  ListedOnce' /\ ListComplete' /\ Positions' = Positions
<1>1. Positions' = Positions
  BY DEF Positions
<1>2. Listed' = Listed
  BY DEF Listed
<1>3. ListedOnce'
  BY <1>1 DEF WInv, ListedOnce
<1>4. ListComplete'
  BY <1>1, <1>2 DEF WInv, ListComplete
<1> QED BY <1>1, <1>3, <1>4

(* A thread that comes, for the first time or too late: it is listed once, *)
(* holds nothing yet, and finds or starts a timer.                         *)
LEMMA AddPreserves ==
    ASSUME WInv, NEW t \in Threads, life[t] \in {"new", "gone"},
           NEW l \in {"watched", "late"},
           life' = [life EXCEPT ![t] = l],
           m_threads' = Append(m_threads, [thread |-> t, logged |-> FALSE]),
           IF Len(m_threads') = 1 THEN StartTimer(timer) ELSE UNCHANGED timer,
           UNCHANGED <<start, age, found, reported>>
    PROVE  WInv'
<1> DEFINE n == Len(m_threads)
           e == [thread |-> t, logged |-> FALSE]
<1>1. /\ life \in [Threads -> {"new", "watched", "gone", "late"}] /\ m_threads \in Seq(Entry)
      /\ timer \in [Timers -> Clock] /\ ListedOnce /\ ListComplete
      /\ OthersIdle /\ PickedIsMarked /\ WatchdogAwake
  BY TypeInWords DEF WInv
<1>2. n \in Nat /\ Positions = 1 .. n
  BY <1>1, LenProperties DEF Positions
<1>3. e \in Entry /\ e.thread = t
  BY DEF Entry
<1>4. /\ m_threads' \in Seq(Entry) /\ Len(m_threads') = n + 1
      /\ \A p \in 1 .. n + 1 : m_threads'[p] = IF p = n + 1 THEN e ELSE m_threads[p]
  <2> HIDE DEF e
  <2> QED BY <1>1, <1>3, AppendedEntry DEF e
<1>5. Positions' = 1 .. n + 1
  BY <1>4 DEF Positions
<1>6. t \notin Listed /\ Listed' = Listed \cup {t}
  BY <1>1 DEF Listed
<1>7. \A p \in Positions : m_threads[p].thread # t
  BY <1>1, <1>6 DEF ListComplete
<1>8. \A p \in Positions' : m_threads'[p].thread = IF p = n + 1 THEN t ELSE m_threads[p].thread
  BY <1>3, <1>4, <1>5
<1>9. \A p \in Positions' : p # n + 1 => p \in Positions
  BY <1>2, <1>5
<1>10. ListedOnce'
  BY <1>1, <1>7, <1>8, <1>9 DEF ListedOnce
<1>11. ListComplete'
  <2>1. n + 1 \in Positions' /\ \A p \in Positions : p \in Positions' /\ p # n + 1
    BY <1>2, <1>5
  <2>2. ASSUME NEW u \in Threads
        PROVE  u \in Listed' <=> \E p \in Positions' : m_threads'[p].thread = u
    <3>1. CASE u = t
      BY <1>6, <1>8, <2>1, <3>1
    <3>2. CASE u # t
      BY <1>1, <1>6, <1>8, <1>9, <2>1, <3>2 DEF ListComplete
    <3> QED BY <3>1, <3>2
  <2> QED BY <2>2 DEF ListComplete
<1>12. OthersIdle'
  BY <1>1 DEF OthersIdle
<1>13. PickedIsMarked'
  <2> SUFFICES ASSUME NEW p \in Positions',
                      found[m_threads'[p].thread], start[m_threads'[p].thread] = "running"
               PROVE  m_threads'[p].logged /\ age[m_threads'[p].thread] = MaxDuration
    BY DEF PickedIsMarked
  <2>1. p # n + 1
    BY <1>1, <1>8 DEF OthersIdle
  <2>2. p \in Positions /\ m_threads'[p] = m_threads[p]
    BY <1>4, <1>5, <1>9, <2>1
  <2> QED BY <1>1, <2>2 DEF PickedIsMarked
<1>14. timer' \in [Timers -> Clock] /\ WatchdogAwake'
  <2>1. CASE n = 0
    <3>1. StartTimer(timer)
      BY <1>4, <2>1
    <3> QED BY <1>1, <3>1, TimerStarted DEF WatchdogAwake
  <2>2. CASE n # 0
    <3>1. UNCHANGED timer /\ m_threads # <<>>
      BY <1>1, <1>2, <1>4, <2>2, EmptySeq
    <3> QED BY <1>1, <3>1 DEF WatchdogAwake
  <2> QED BY <2>1, <2>2
<1>15. TypeOK'
  <2>1. life' \in [Threads -> {"new", "watched", "gone", "late"}]
    BY <1>1
  <2>2. /\ start' \in [Threads -> {"zero", "running", "waiting"}]
        /\ age' \in [Threads -> 0 .. MaxDuration]
        /\ found' \in [Threads -> BOOLEAN]
        /\ reported' \subseteq Threads
    BY TypeInWords DEF WInv
  <2> QED BY <1>4, <1>14, <2>1, <2>2 DEF TypeOK, Entry, Clock
<1> QED BY <1>10, <1>11, <1>12, <1>13, <1>14, <1>15 DEF WInv

(* A thread that goes: the last entry takes its place, and nobody else's   *)
(* entry is lost.                                                          *)
LEMMA RemovePreserves ==
    ASSUME WInv, NEW t \in Threads, remove_thread(t)
    PROVE  WInv'
<1> DEFINE n == Len(m_threads)
<1>1. /\ life \in [Threads -> {"new", "watched", "gone", "late"}] /\ m_threads \in Seq(Entry)
      /\ start \in [Threads -> {"zero", "running", "waiting"}]
      /\ age \in [Threads -> 0 .. MaxDuration]
      /\ timer \in [Timers -> Clock] /\ ListedOnce /\ ListComplete
      /\ OthersIdle /\ PickedIsMarked /\ WatchdogAwake
  BY TypeInWords DEF WInv
<1>2. n \in Nat /\ Positions = 1 .. n
  BY <1>1, LenProperties DEF Positions
<1>3. PICK r \in Positions :
        /\ m_threads[r].thread = t
        /\ m_threads' = SubSeq([m_threads EXCEPT ![r] = m_threads[n]], 1, n - 1)
  BY DEF remove_thread
<1>4. /\ m_threads' \in Seq(Entry) /\ Len(m_threads') = n - 1
      /\ \A p \in 1 .. n - 1 : m_threads'[p] = IF p = r THEN m_threads[n] ELSE m_threads[p]
  BY <1>1, <1>2, <1>3, RemovedEntry
<1>5. Positions' = 1 .. n - 1
  BY <1>4 DEF Positions
<1>6. life' = [life EXCEPT ![t] = "gone"] /\ life[t] = "watched"
      /\ start' = [start EXCEPT ![t] = "zero"] /\ age' = [age EXCEPT ![t] = 0]
      /\ UNCHANGED <<timer, found, reported>>
  BY DEF remove_thread
<1>7. Listed' = Listed \ {t}
  BY <1>1, <1>6 DEF Listed
<1> DEFINE from(p) == IF p = r THEN n ELSE p
<1>8. \A p \in Positions' : from(p) \in Positions \ {r} /\ m_threads'[p] = m_threads[from(p)]
  BY <1>2, <1>3, <1>4, <1>5
<1>9. \A p, q \in Positions' : from(p) = from(q) => p = q
  BY <1>2, <1>5
<1>10. \A p \in Positions \ {r} : \E q \in Positions' : from(q) = p
  <2> SUFFICES ASSUME NEW p \in Positions \ {r}
               PROVE  \E q \in Positions' : from(q) = p
    OBVIOUS
  <2>1. CASE p = n
    <3>1. r \in Positions' /\ from(r) = p
      BY <1>2, <1>3, <1>5, <2>1
    <3> QED BY <3>1
  <2>2. CASE p # n
    <3>1. p \in Positions' /\ from(p) = p
      BY <1>2, <1>5, <2>2
    <3> QED BY <3>1
  <2> QED BY <2>1, <2>2
<1> HIDE DEF from
<1>11. ListedOnce'
  BY <1>1, <1>8, <1>9 DEF ListedOnce
<1>12. ListComplete'
  <2>1. ASSUME NEW u \in Threads
        PROVE  u \in Listed' <=> \E p \in Positions' : m_threads'[p].thread = u
    <3>1. ASSUME u \in Listed'
          PROVE  \E p \in Positions' : m_threads'[p].thread = u
      <4>1. PICK p \in Positions : m_threads[p].thread = u
        BY <1>1, <1>7, <3>1 DEF ListComplete
      <4>2. p # r
        BY <1>3, <1>7, <3>1, <4>1
      <4>3. PICK q \in Positions' : from(q) = p
        BY <1>10, <4>2
      <4> QED BY <1>8, <4>1, <4>3
    <3>2. ASSUME NEW p \in Positions', m_threads'[p].thread = u
          PROVE  u \in Listed'
      <4>1. from(p) \in Positions /\ from(p) # r /\ m_threads[from(p)].thread = u
        BY <1>8, <3>2
      <4>2. u # t
        BY <1>1, <1>3, <4>1 DEF ListedOnce
      <4> QED BY <1>1, <1>7, <4>1, <4>2 DEF ListComplete
    <3> QED BY <3>1, <3>2
  <2> QED BY <2>1 DEF ListComplete
<1>13. OthersIdle'
  BY <1>1, <1>6 DEF OthersIdle
<1>14. PickedIsMarked'
  <2> SUFFICES ASSUME NEW p \in Positions',
                      found[m_threads'[p].thread], start'[m_threads'[p].thread] = "running"
               PROVE  m_threads'[p].logged /\ age'[m_threads'[p].thread] = MaxDuration
    BY <1>6 DEF PickedIsMarked
  <2>1. from(p) \in Positions /\ from(p) # r /\ m_threads'[p] = m_threads[from(p)]
    BY <1>8
  <2>2. m_threads[from(p)].thread # t /\ m_threads[from(p)].thread \in Threads
    <3>1. m_threads[from(p)].thread # t
      BY <1>1, <1>3, <2>1 DEF ListedOnce
    <3>2. m_threads[from(p)] \in Entry
      BY <1>1, <1>2, <2>1, ElementOfSeq
    <3> QED BY <3>1, <3>2 DEF Entry
  <2> QED BY <1>1, <1>6, <2>1, <2>2 DEF PickedIsMarked
<1>15. WatchdogAwake'
  <2>1. m_threads # <<>>
    BY <1>2, <1>3
  <2> QED BY <1>1, <1>6, <2>1 DEF WatchdogAwake
<1>16. TypeOK'
  <2>1. /\ life' \in [Threads -> {"new", "watched", "gone", "late"}]
        /\ start' \in [Threads -> {"zero", "running", "waiting"}]
    BY <1>1, <1>6
  <2>2. age' \in [Threads -> 0 .. MaxDuration]
    BY <1>1, <1>6, WatchdogAssumption
  <2>3. /\ timer' \in [Timers -> Clock] /\ found' \in [Threads -> BOOLEAN]
        /\ reported' \subseteq Threads
    BY <1>6, TypeInWords DEF WInv
  <2> QED BY <1>4, <2>1, <2>2, <2>3 DEF TypeOK, Entry, Clock
<1> QED BY <1>11, <1>12, <1>13, <1>14, <1>15, <1>16 DEF WInv

(* Steps of the program's threads and of time, which leave the list alone: *)
(* they hold as long as no picked hold grows younger.                      *)
LEMMA HoldsPreserve ==
    ASSUME WInv, UNCHANGED <<life, m_threads, reported>>,
           start' \in [Threads -> {"zero", "running", "waiting"}],
           age' \in [Threads -> 0 .. MaxDuration],
           found' \in [Threads -> BOOLEAN],
           timer' \in [Timers -> Clock],
           \A i \in Timers : timer[i] # Off => timer'[i] # Off,
           \A t \in Threads : start'[t] # "zero" => start[t] # "zero" \/ life[t] \in {"watched", "late"},
           \A t \in Threads : found'[t] /\ start'[t] = "running"
             => found[t] /\ start[t] = "running" /\ (age[t] = MaxDuration => age'[t] = MaxDuration)
    PROVE  WInv'
<1>1. /\ life \in [Threads -> {"new", "watched", "gone", "late"}] /\ m_threads \in Seq(Entry)
      /\ start \in [Threads -> {"zero", "running", "waiting"}]
      /\ ListedOnce /\ ListComplete /\ OthersIdle /\ PickedIsMarked /\ WatchdogAwake
  BY TypeInWords DEF WInv
<1>2. ListedOnce' /\ ListComplete' /\ Positions' = Positions
  BY <1>1, SameThreads
<1>3. OthersIdle'
  BY <1>1 DEF OthersIdle
<1>4. PickedIsMarked'
  <2>1. \A p \in Positions : m_threads[p].thread \in Threads
    BY <1>1, EntriesAreEntries
  <2> QED BY <1>1, <1>2, <2>1 DEF PickedIsMarked
<1>5. WatchdogAwake'
  BY <1>1 DEF WatchdogAwake
<1>6. TypeOK'
  <2>1. reported' \subseteq Threads /\ life' = life /\ m_threads' = m_threads
    BY TypeInWords DEF WInv
  <2> QED BY <1>1, <2>1 DEF TypeOK, Entry, Clock
<1> QED BY <1>2, <1>3, <1>4, <1>5, <1>6 DEF WInv

LEMMA TickPreserves == WInv /\ Tick => WInv'
<1> SUFFICES ASSUME WInv, Tick PROVE WInv'
  OBVIOUS
<1>1. /\ start \in [Threads -> {"zero", "running", "waiting"}]
      /\ age \in [Threads -> 0 .. MaxDuration]
      /\ found \in [Threads -> BOOLEAN] /\ timer \in [Timers -> Clock]
  BY TypeInWords DEF WInv
<1>2. UNCHANGED <<life, start, m_threads, found, reported>>
  BY DEF Tick
<1>3. /\ age' \in [Threads -> 0 .. MaxDuration]
      /\ \A t \in Threads : age[t] = MaxDuration => age'[t] = MaxDuration
  BY <1>1, WatchdogAssumption DEF Tick
<1>4. /\ timer' \in [Timers -> Clock]
      /\ \A i \in Timers : timer[i] # Off => timer'[i] # Off
  <2>1. ASSUME NEW i \in Timers
        PROVE  timer'[i] \in Clock /\ (timer[i] # Off => timer'[i] # Off)
    <3>1. CASE timer[i].at = "pending" /\ timer[i].left > 0
      <4>1. timer'[i] = [timer[i] EXCEPT !.left = @ - 1]
        BY <3>1 DEF Tick
      <4> QED BY <1>1, <3>1, <4>1, ClockStates
    <3>2. CASE ~ (timer[i].at = "pending" /\ timer[i].left > 0)
      <4>1. timer'[i] = timer[i]
        BY <3>2 DEF Tick
      <4> QED BY <1>1, <4>1
    <3> QED BY <3>1, <3>2
  <2>2. timer' = [i \in Timers |-> timer'[i]]
    BY DEF Tick
  <2> HIDE DEF Tick
  <2> QED BY <2>1, <2>2
<1> QED BY <1>1, <1>2, <1>3, <1>4, HoldsPreserve

LEMMA HoldingPreserves ==
    ASSUME WInv, NEW t \in Threads, BeginHold(t) \/ EndHold(t) \/ CndWait(t)
    PROVE  WInv'
<1>1. /\ start \in [Threads -> {"zero", "running", "waiting"}]
      /\ age \in [Threads -> 0 .. MaxDuration]
      /\ found \in [Threads -> BOOLEAN] /\ timer \in [Timers -> Clock]
  BY TypeInWords DEF WInv
<1>2. 0 \in 0 .. MaxDuration
  BY WatchdogAssumption
<1>3. CASE BeginHold(t)
  <2>1. /\ life[t] \in {"watched", "late"} /\ start' = [start EXCEPT ![t] = "running"]
        /\ found' = [found EXCEPT ![t] = FALSE]
        /\ UNCHANGED <<life, age, m_threads, timer, reported>>
    BY <1>3 DEF BeginHold
  <2> QED BY <1>1, <2>1, HoldsPreserve
<1>4. CASE EndHold(t)
  <2>1. /\ start' = [start EXCEPT ![t] = "zero"] /\ age' = [age EXCEPT ![t] = 0]
        /\ UNCHANGED <<life, m_threads, timer, found, reported>>
    BY <1>4 DEF EndHold
  <2> QED BY <1>1, <1>2, <2>1, HoldsPreserve
<1>5. CASE CndWait(t)
  <2>1. /\ start[t] = "running" /\ start' = [start EXCEPT ![t] = "waiting"]
        /\ age' = [age EXCEPT ![t] = 0]
        /\ UNCHANGED <<life, m_threads, timer, found, reported>>
    BY <1>5 DEF CndWait
  <2> QED BY <1>1, <1>2, <2>1, HoldsPreserve
<1> QED BY <1>3, <1>4, <1>5

(* A scan: what it forgives was not picked, and what it picks it marks.    *)
LEMMA ScanPreserves ==
    ASSUME WInv, NEW i \in Timers, Scan(i)
    PROVE  WInv'
<1>1. /\ life \in [Threads -> {"new", "watched", "gone", "late"}] /\ m_threads \in Seq(Entry)
      /\ start \in [Threads -> {"zero", "running", "waiting"}]
      /\ age \in [Threads -> 0 .. MaxDuration] /\ found \in [Threads -> BOOLEAN]
      /\ timer \in [Timers -> Clock] /\ ListedOnce /\ ListComplete
      /\ OthersIdle /\ PickedIsMarked /\ WatchdogAwake
  BY TypeInWords DEF WInv
<1>2. UNCHANGED <<life, start, age, reported>>
  BY DEF Scan
<1>3. \A p \in Positions : m_threads[p] \in Entry /\ m_threads[p].thread \in Threads
  BY <1>1, EntriesAreEntries
<1>4. PICK last :
        /\ m_threads' = Scanned(last)
        /\ \/ /\ timer' = [timer EXCEPT ![i] = [at |-> "restart"]]
              /\ found' = found /\ last \notin Positions
           \/ /\ last \in Positions /\ TooLong(last)
              /\ timer' = [timer EXCEPT ![i] = [at |-> "report",
                                                thread |-> m_threads[last].thread]]
              /\ found' = [found EXCEPT ![m_threads[last].thread] = TRUE]
  <2>1. CASE /\ m_threads' = Scanned(Len(m_threads) + 1)
             /\ timer' = [timer EXCEPT ![i] = [at |-> "restart"]]
             /\ UNCHANGED found
    <3>1. Len(m_threads) + 1 \notin Positions
      BY <1>1, LenProperties DEF Positions
    <3> QED BY <2>1, <3>1
  <2>2. CASE \E p \in Positions :
               /\ TooLong(p) /\ m_threads' = Scanned(p)
               /\ timer' = [timer EXCEPT ![i] = [at |-> "report", thread |-> m_threads[p].thread]]
               /\ found' = [found EXCEPT ![m_threads[p].thread] = TRUE]
    BY <2>2
  <2> QED BY <2>1, <2>2 DEF Scan
<1>5. /\ m_threads' \in Seq(Entry) /\ Len(m_threads') = Len(m_threads)
      /\ \A p \in Positions : m_threads'[p].thread = m_threads[p].thread
  BY <1>1, <1>4, ScannedEntries
<1>6. ListedOnce' /\ ListComplete' /\ Positions' = Positions
  BY <1>2, <1>5, SameThreads
<1>7. OthersIdle'
  BY <1>1, <1>2 DEF OthersIdle
<1>8. ASSUME NEW p \in Positions, p = last
      PROVE  m_threads'[p].logged
  <2>1. m_threads[p] \in [thread : Threads, logged : BOOLEAN]
    BY <1>3 DEF Entry
  <2>2. m_threads'[p] = [m_threads[p] EXCEPT !.logged = TRUE]
    BY <1>4, <1>8 DEF Scanned
  <2> QED BY <2>1, <2>2
<1>9. ASSUME NEW p \in Positions, p # last, ~ Forgiven(p)
       PROVE  m_threads'[p] = m_threads[p]
  BY <1>4, <1>9 DEF Scanned
<1>10. PickedIsMarked'
  <2> SUFFICES ASSUME NEW p \in Positions,
                      found'[m_threads[p].thread], start[m_threads[p].thread] = "running"
               PROVE  m_threads'[p].logged /\ age[m_threads[p].thread] = MaxDuration
    BY <1>2, <1>5, <1>6 DEF PickedIsMarked
  <2>1. CASE p = last
    <3>1. TooLong(p)
      BY <1>4, <2>1
    <3>2. age[m_threads[p].thread] >= MaxDuration /\ age[m_threads[p].thread] \in 0 .. MaxDuration
      BY <1>1, <1>3, <3>1 DEF TooLong
    <3>3. age[m_threads[p].thread] = MaxDuration
      BY <3>2, WatchdogAssumption
    <3>4. m_threads'[p].logged
      BY <1>8, <2>1
    <3> QED BY <3>3, <3>4
  <2>2. CASE p # last
    <3>1. found[m_threads[p].thread]
      BY <1>1, <1>3, <1>4, <2>2 DEF ListedOnce
    <3>2. m_threads[p].logged /\ age[m_threads[p].thread] = MaxDuration
      BY <1>1, <3>1 DEF PickedIsMarked
    <3>3. ~ Forgiven(p)
      BY <3>2, WatchdogAssumption DEF Forgiven
    <3>4. m_threads'[p] = m_threads[p]
      BY <1>9, <2>2, <3>3
    <3> QED BY <3>2, <3>4
  <2> QED BY <2>1, <2>2
<1>11. timer' \in [Timers -> Clock] /\ timer'[i] # Off
  <2>1. PICK c \in Clock : timer' = [timer EXCEPT ![i] = c] /\ c # Off
    <3>1. CASE timer' = [timer EXCEPT ![i] = [at |-> "restart"]]
      BY <3>1, ClockStates
    <3>2. CASE /\ last \in Positions
               /\ timer' = [timer EXCEPT ![i] = [at |-> "report",
                                                 thread |-> m_threads[last].thread]]
      BY <1>3, <3>2, ClockStates
    <3> QED BY <1>4, <3>1, <3>2
  <2> QED BY <1>1, <2>1
<1>12. found' \in [Threads -> BOOLEAN]
  BY <1>1, <1>4
<1>13. WatchdogAwake'
  BY <1>11 DEF WatchdogAwake
<1>14. TypeOK'
  <2>1. reported' \subseteq Threads
    BY <1>2, TypeInWords DEF WInv
  <2> QED BY <1>1, <1>2, <1>5, <1>11, <1>12, <2>1 DEF TypeOK, Entry, Clock
<1> QED BY <1>6, <1>7, <1>10, <1>13, <1>14 DEF WInv

LEMMA ReportPreserves ==
    ASSUME WInv, NEW i \in Timers, Report(i)
    PROVE  WInv'
<1>1. timer \in [Timers -> Clock] /\ reported \subseteq Threads /\ PickedIsMarked
  BY TypeInWords DEF WInv
<1>2. /\ timer[i].at = "report" /\ reported' = reported \cup {timer[i].thread}
      /\ timer' = [timer EXCEPT ![i] = [at |-> "restart"]]
      /\ UNCHANGED <<life, start, age, found, m_threads>>
  BY DEF Report, threadVars
<1>3. timer[i].thread \in Threads
  BY <1>1, <1>2, ClockStates
<1>4. timer' \in [Timers -> Clock] /\ timer'[i] # Off
  BY <1>1, <1>2, ClockStates
<1>5. TypeOK'
  <2>1. /\ life' = life /\ start' = start /\ age' = age /\ found' = found /\ m_threads' = m_threads
        /\ reported' \subseteq Threads
    BY <1>1, <1>2, <1>3
  <2> QED BY <1>4, <2>1 DEF WInv, TypeOK, Entry, Clock
<1>6. ListedOnce' /\ ListComplete' /\ OthersIdle' /\ PickedIsMarked'
  BY <1>2 DEF WInv, ListedOnce, ListComplete, OthersIdle, PickedIsMarked, Positions, Listed
<1>7. WatchdogAwake'
  BY <1>4 DEF WatchdogAwake
<1> QED BY <1>5, <1>6, <1>7 DEF WInv

(* The restart: it reads the list and starts a timer in the same step that *)
(* lets this one go.                                                       *)
LEMMA RestartPreserves ==
    ASSUME WInv, NEW i \in Timers, Restart(i)
    PROVE  WInv'
<1> DEFINE tm == [timer EXCEPT ![i] = Off]
<1>1. timer \in [Timers -> Clock]
  BY TypeInWords DEF WInv
<1>2. tm \in [Timers -> Clock]
  BY <1>1, ClockStates
<1>3. /\ IF m_threads # <<>> THEN StartTimer(tm) ELSE timer' = tm
      /\ UNCHANGED <<life, start, age, found, m_threads, reported>>
  BY DEF Restart, threadVars
<1> HIDE DEF tm
<1>4. timer' \in [Timers -> Clock] /\ WatchdogAwake'
  <2>1. CASE m_threads # <<>>
    <3>1. StartTimer(tm)
      BY <1>3, <2>1
    <3> QED BY <1>2, <3>1, TimerStarted DEF WatchdogAwake
  <2>2. CASE m_threads = <<>>
    BY <1>2, <1>3, <2>2 DEF WatchdogAwake
  <2> QED BY <2>1, <2>2
<1>5. TypeOK'
  <2>1. /\ life' = life /\ start' = start /\ age' = age /\ found' = found /\ m_threads' = m_threads
        /\ reported' = reported
    BY <1>3
  <2> QED BY <1>4, <2>1 DEF WInv, TypeOK, Entry, Clock
<1>6. ListedOnce' /\ ListComplete' /\ OthersIdle' /\ PickedIsMarked'
  BY <1>3 DEF WInv, ListedOnce, ListComplete, OthersIdle, PickedIsMarked, Positions, Listed
<1> QED BY <1>4, <1>5, <1>6 DEF WInv

(* Adding a thread, in time or late, is one of the cases of AddPreserves.  *)
LEMMA AddingPreserves ==
    ASSUME WInv, NEW t \in Threads, add_thread(t) \/ add_threadLate(t)
    PROVE  WInv'
<1>1. CASE add_thread(t)
  <2>1. life[t] \in {"new", "gone"} /\ "watched" \in {"watched", "late"}
    BY <1>1 DEF add_thread
  <2> QED BY <1>1, <2>1, AddPreserves DEF add_thread
<1>2. CASE add_threadLate(t)
  <2>1. life[t] \in {"new", "gone"} /\ "late" \in {"watched", "late"}
    BY <1>2 DEF add_threadLate
  <2> QED BY <1>2, <2>1, AddPreserves DEF add_threadLate
<1> QED BY <1>1, <1>2

LEMMA WInvInit == Init => WInv
<1> SUFFICES ASSUME Init PROVE WInv
  OBVIOUS
<1>1. m_threads = <<>> /\ m_threads \in Seq(Entry) /\ Len(m_threads) = 0 /\ Positions = {}
  BY EmptySeq DEF Init, Positions
<1>2. TypeOK
  <2>1. 0 \in 0 .. MaxDuration
    BY WatchdogAssumption
  <2> QED BY <1>1, <2>1, ClockStates, TypeInWords DEF Init
<1>3. ListedOnce /\ ListComplete /\ OthersIdle /\ PickedIsMarked /\ WatchdogAwake
  BY <1>1 DEF Init, ListedOnce, ListComplete, Listed, OthersIdle, PickedIsMarked, WatchdogAwake
<1> QED BY <1>2, <1>3 DEF WInv

LEMMA WInvNext == WInv /\ [Next]_vars => WInv'
<1> SUFFICES ASSUME WInv, [Next]_vars PROVE WInv'
  OBVIOUS
<1>1. CASE Tick
  BY <1>1, TickPreserves
<1>2. ASSUME NEW i \in Timers, Callback(i)
      PROVE  WInv'
  BY <1>2, ScanPreserves, ReportPreserves, RestartPreserves DEF Callback
<1>3. ASSUME NEW t \in Threads, add_thread(t) \/ add_threadLate(t)
      PROVE  WInv'
  BY <1>3, AddingPreserves
<1>4. ASSUME NEW t \in Threads, remove_thread(t)
      PROVE  WInv'
  BY <1>4, RemovePreserves
<1>5. ASSUME NEW t \in Threads, BeginHold(t) \/ EndHold(t) \/ CndWait(t)
      PROVE  WInv'
  BY <1>5, HoldingPreserves
<1>6. CASE UNCHANGED vars
  BY <1>6 DEF vars, threadVars, WInv, TypeOK, ListedOnce, ListComplete, Listed, OthersIdle,
              PickedIsMarked, WatchdogAwake, Positions
<1> QED BY <1>1, <1>2, <1>3, <1>4, <1>5, <1>6 DEF Next

(* The inductive invariant of the watchdog.                                *)
THEOREM WatchdogInvariant == Spec => []WInv
BY WInvInit, WInvNext, PTL DEF Spec

(* The list, the threads and the timers have the values the code gives     *)
(* them; an age never passes the limit.                                    *)
THEOREM TypeCorrect == Spec => []TypeOK
<1>1. WInv => TypeOK
  BY DEF WInv
<1> QED BY <1>1, WatchdogInvariant, PTL

(* Every watched thread is in m_threads once, and nobody else.             *)
THEOREM ListExact == Spec => []ListIsExact
<1>1. WInv => ListIsExact
  BY ExactFromList, TypeInWords DEF WInv
<1> QED BY <1>1, WatchdogInvariant, PTL

(* The watchdog never sleeps while a thread is listed.                     *)
THEOREM NeverAsleep == Spec => []WatchdogAwake
<1>1. WInv => WatchdogAwake
  BY DEF WInv
<1> QED BY <1>1, WatchdogInvariant, PTL

(* No scan picks a hold a second time.                                     *)
THEOREM PickedOnce == Spec => NoSecondReport
<1> DEFINE P == \A i \in Timers : timer[i].at = "pending" /\ timer'[i].at = "report"
                                    => ~found[timer'[i].thread]
<1>1. WInv /\ [Next]_vars => [P]_vars
  <2> SUFFICES ASSUME WInv, Next, NEW i \in Timers,
                      timer[i].at = "pending", timer'[i].at = "report",
                      found[timer'[i].thread]
               PROVE  FALSE
    OBVIOUS
  <2>1. /\ timer \in [Timers -> Clock] /\ PickedIsMarked /\ m_threads \in Seq(Entry)
        /\ age \in [Threads -> 0 .. MaxDuration]
    BY TypeInWords DEF WInv
  <2>2. CASE Tick
    <3>1. timer'[i] = timer[i] \/ timer'[i] = [timer[i] EXCEPT !.left = @ - 1]
      BY <2>2 DEF Tick
    <3>2. timer[i] \in [at : {"pending"}, left : 0 .. Period]
      BY <2>1 DEF Clock, Off
    <3> QED BY <3>1, <3>2
  <2>3. ASSUME NEW j \in Timers, Scan(j)
        PROVE  FALSE
    <3>1. PICK p \in Positions :
            /\ TooLong(p)
            /\ timer' = [timer EXCEPT ![j] = [at |-> "report", thread |-> m_threads[p].thread]]
      <4>1. CASE timer' = [timer EXCEPT ![j] = [at |-> "restart"]]
        BY <2>1, <4>1
      <4> QED BY <2>3, <4>1 DEF Scan
    <3>2. timer'[i].thread = m_threads[p].thread
      BY <2>1, <3>1
    <3>3. found[m_threads[p].thread]
      BY <3>2
    <3> QED BY <2>1, <3>1, <3>3 DEF TooLong, PickedIsMarked
  <2>4. ASSUME NEW j \in Timers, Report(j)
        PROVE  FALSE
    <3>1. timer' = [timer EXCEPT ![j] = [at |-> "restart"]]
      BY <2>4 DEF Report
    <3> QED BY <2>1, <3>1
  <2>5. ASSUME NEW tm \in [Timers -> Clock], tm[i].at # "report", StartTimer(tm)
        PROVE  FALSE
    <3>1. PICK j \in Timers : timer' = [tm EXCEPT ![j] = [at |-> "pending", left |-> Period]]
      BY <2>5 DEF StartTimer
    <3> QED BY <2>5, <3>1
  <2>6. ASSUME NEW j \in Timers, Restart(j)
        PROVE  FALSE
    <3> DEFINE tm == [timer EXCEPT ![j] = Off]
    <3>1. StartTimer(tm) \/ timer' = tm
      BY <2>6 DEF Restart
    <3>2. tm \in [Timers -> Clock] /\ tm[i].at # "report"
      BY <2>1, ClockStates DEF Off
    <3> HIDE DEF tm
    <3> QED BY <2>5, <3>1, <3>2
  <2>7. ASSUME NEW t \in Threads, add_thread(t) \/ add_threadLate(t)
        PROVE  FALSE
    <3>1. StartTimer(timer) \/ timer' = timer
      BY <2>7 DEF add_thread, add_threadLate
    <3> QED BY <2>1, <2>5, <3>1
  <2>8. ASSUME NEW t \in Threads,
               remove_thread(t) \/ BeginHold(t) \/ EndHold(t) \/ CndWait(t)
        PROVE  FALSE
    <3>1. timer' = timer
      BY <2>8 DEF remove_thread, BeginHold, EndHold, CndWait
    <3> QED BY <3>1
  <2> QED BY <2>2, <2>3, <2>4, <2>6, <2>7, <2>8 DEF Next, Callback
<1> QED BY <1>1, WatchdogInvariant, PTL DEF Spec, NoSecondReport

=============================================================================
