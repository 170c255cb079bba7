---------------------------- MODULE LockMonitor ----------------------------
(***************************************************************************)
(* deadlock_monitor_t (deadlock_monitor.cpp) between the threads of the    *)
(* program under test and its locks.  A monitored call is a monitor step   *)
(* under m_deadlock_graph_mutex, then the real lock function, then (for an *)
(* acquisition) a second monitor step: the threads interleave between any  *)
(* two of them.  The real locks (CRITICAL_SECTION, std::recursive_mutex)   *)
(* are external.  The graph is used as LockOrder promises it.              *)
(***************************************************************************)
EXTENDS Naturals, Sequences, FiniteSets, Paths

CONSTANTS Threads,
          Locks,
          NoThread,
          NoId,                  \* InvalidGraphId()
          MAX_LOCKS_PER_THREAD,  \* 20 in CMakeLists.txt, small in the instances
          MaxDepth,              \* bound: nested acquisitions of one lock
          MaxBorn,               \* bound: graph ids one lock address may get
          MaxIgnore,             \* bound: pending lock++ / unlock++ of a thread
          Ignored                \* locks the program announces with the runtime API

ASSUME MonitorAssumption ==
    /\ NoThread \notin Threads
    /\ {MAX_LOCKS_PER_THREAD, MaxDepth, MaxBorn} \subseteq Nat \ {0}
    /\ MaxIgnore \in Nat
    /\ Ignored \subseteq Locks
    /\ NoId \notin Locks \X (1 .. MaxBorn)

VARIABLES owner, depth,     \* the real locks
          pc,               \* where each thread is inside a monitored call
          held,             \* SynchLocksHeld::locks[0..n-1] of each thread
          start,            \* m_lock_start_time_point: 0, a time, or UINT64_MAX
          ignore_lock,      \* g_ignore_counter_lock
          ignore_unlock,    \* g_ignore_counter_unlock
          idOf, born,       \* GraphCycles: the current id of a lock, ids so far
          edges,            \* GraphCycles: its edges
          recorded,         \* ids whose node has a thread_id
          spare,            \* GraphCycles: Len(free_nodes_)
          potential,        \* m_potential_deadlocks_found
          other,            \* m_other_errors_found
          logged,           \* the kinds of error handed to process_error
          order, inverted   \* history: see Inverts

real     == <<owner, depth>>
nodes    == <<idOf, born, recorded, spare>>
results  == <<potential, other, logged>>
ignores  == <<ignore_lock, ignore_unlock>>
history  == <<order, inverted>>
vars     == <<real, pc, held, start, ignores, nodes, edges, results, history>>

Ids == Locks \X (1 .. MaxBorn)
Idle == [at |-> "idle"]
In(at, l, id) == [at |-> at, mu |-> l, id |-> id]
Entry == [mu : Locks, count : 1 .. MaxDepth, id : Ids]

-----------------------------------------------------------------------------
(* GraphCycles calls.                                                      *)

IdFor(l) == IF idOf[l] # NoId THEN idOf[l] ELSE <<l, born[l] + 1>>
IsLive(id) == idOf[id[1]] = id                       \* Ptr(id) # nullptr

\* UpdateStackTrace gives the node the caller's thread_id.
UpdateStackTrace(ids, id) == ids \cup {id}

\* GetId: a node from the free list has no thread_id, a new one has the
\* caller's.  traced: UpdateStackTrace follows.
GetId(l, traced) ==
    LET new == idOf[l] = NoId IN
    /\ new => born[l] < MaxBorn
    /\ idOf' = [idOf EXCEPT ![l] = IdFor(l)]
    /\ born' = IF new THEN [born EXCEPT ![l] = @ + 1] ELSE born
    /\ spare' = IF new /\ spare > 0 THEN spare - 1 ELSE spare
    /\ LET ids == IF new /\ spare = 0 THEN recorded \cup {IdFor(l)} ELSE recorded
       IN recorded' = IF traced THEN UpdateStackTrace(ids, IdFor(l)) ELSE ids

\* Mutant: an edge is refused only for a direct edge the other way.
LinkHeldDirect(locks, id) ==
    LET back == {i \in DOMAIN locks : <<id, locks[i].id>> \in edges}
    IN /\ edges' = edges \cup {<<locks[i].id, id>> : i \in DOMAIN locks \ back}
       /\ potential' = (potential \/ back # {})
       /\ UNCHANGED logged

\* The loop over the held locks: ids of removed locks are skipped; it ends at
\* the lock itself (recursive) or at the first edge InsertEdge refuses.
LinkHeld(locks, id) ==
    LET live  == {i \in DOMAIN locks : IsLive(locks[i].id)}
        ids   == {locks[i].id : i \in live} \cup {id} \cup UNION {{e[1], e[2]} : e \in edges}
        stops == {i \in live : Leads(edges, ids, id, locks[i].id)}
        upTo(i) == \A j \in stops : i < j
    IN /\ edges' = edges \cup {<<locks[i].id, id>> : i \in {k \in live : upTo(k)}}
       /\ LET refused == \E i \in stops : /\ \A j \in stops : i <= j
                                          /\ locks[i].id # id
          IN /\ potential' = (potential \/ refused)
             /\ logged' = IF refused THEN logged \cup {"deadlock"} ELSE logged

Busy(t, l) == pc[t] # Idle /\ pc[t].mu = l
\* The lock's destruction has been handed to the monitor but is not over.
Dying(l) == \E t \in Threads : Busy(t, l) /\ pc[t].at = "delete"

\* History, not code: the program acquires l, which may block, while it owns
\* other locks.  inverted: some two acquisition orders have contradicted.
Inverts(t, l) ==
    LET now == IF owner[l] = t THEN {}
               ELSE {<<h, l>> : h \in {k \in Locks \ Ignored : owner[k] = t /\ ~Dying(k)}}
    IN /\ order' = order \cup now
       /\ inverted' = (inverted \/ HasCycle(order', Locks))

-----------------------------------------------------------------------------
Init == /\ owner = [l \in Locks |-> NoThread]
        /\ depth = [l \in Locks |-> 0]
        /\ pc = [t \in Threads |-> Idle]
        /\ held = [t \in Threads |-> <<>>]
        /\ start = [t \in Threads |-> "zero"]
        /\ ignore_lock = [t \in Threads |-> 0]
        /\ ignore_unlock = [t \in Threads |-> 0]
        /\ idOf = [l \in Locks |-> NoId]
        /\ born = [l \in Locks |-> 0]
        /\ edges = {} /\ recorded = {} /\ spare = 0
        /\ potential = FALSE /\ other = FALSE /\ logged = {}
        /\ order = {} /\ inverted = FALSE

Goto(t, p) == pc' = [pc EXCEPT ![t] = p]
MayAcquire(t, l) == /\ pc[t] = Idle
                    /\ ~Dying(l)
                    /\ owner[l] = t => depth[l] < MaxDepth

\* dlc_deadlock_check_before_lock, a call announced with lock++: not watched.
BeforeLockIgnored(t, l) ==
    /\ MayAcquire(t, l)
    /\ ignore_lock[t] > 0
    /\ ignore_lock' = [ignore_lock EXCEPT ![t] = @ - 1]
    /\ Goto(t, In("lock", l, NoId))
    /\ UNCHANGED <<real, held, start, ignore_unlock, nodes, edges, results, history>>

\* Mutant: the full table is not reported.
BeforeLockFullSilent(t, l) ==
    /\ MayAcquire(t, l)
    /\ ignore_lock[t] = 0
    /\ Len(held[t]) >= MAX_LOCKS_PER_THREAD
    /\ Goto(t, In("lock", l, NoId))
    /\ Inverts(t, l)
    /\ UNCHANGED <<real, held, start, ignores, nodes, edges, results>>

\* ... the thread's table is full: not watched either.
BeforeLockFull(t, l) ==
    /\ MayAcquire(t, l)
    /\ ignore_lock[t] = 0
    /\ Len(held[t]) >= MAX_LOCKS_PER_THREAD
    /\ other' = TRUE
    /\ logged' = logged \cup {"max_locks"}
    /\ Goto(t, In("lock", l, NoId))
    /\ Inverts(t, l)
    /\ UNCHANGED <<real, held, start, ignores, nodes, edges, potential>>

\* Mutant: UpdateStackTrace is not called.
BeforeLockNoTrace(t, l) ==
    /\ MayAcquire(t, l)
    /\ ignore_lock[t] = 0
    /\ Len(held[t]) < MAX_LOCKS_PER_THREAD
    /\ GetId(l, FALSE)
    /\ IF held[t] = <<>>
       THEN start' = [start EXCEPT ![t] = "running"] /\ UNCHANGED <<edges, potential, logged>>
       ELSE LinkHeld(held[t], IdFor(l)) /\ UNCHANGED start
    /\ Goto(t, In("lock", l, IdFor(l)))
    /\ Inverts(t, l)
    /\ UNCHANGED <<real, held, ignores, other>>

BeforeLock(t, l) ==
    /\ MayAcquire(t, l)
    /\ ignore_lock[t] = 0
    /\ Len(held[t]) < MAX_LOCKS_PER_THREAD
    /\ GetId(l, TRUE)
    /\ IF held[t] = <<>>
       THEN start' = [start EXCEPT ![t] = "running"] /\ UNCHANGED <<edges, potential, logged>>
       ELSE LinkHeld(held[t], IdFor(l)) /\ UNCHANGED start
    /\ Goto(t, In("lock", l, IdFor(l)))
    /\ Inverts(t, l)
    /\ UNCHANGED <<real, held, ignores, other>>

\* EnterCriticalSection / _Mtx_lock: waits for another owner.
RealLock(t) ==
    /\ pc[t].at = "lock"
    /\ LET l == pc[t].mu IN
       /\ owner[l] \in {NoThread, t}
       /\ owner' = [owner EXCEPT ![l] = t]
       /\ depth' = [depth EXCEPT ![l] = @ + 1]
       /\ Goto(t, IF pc[t].id = NoId THEN Idle ELSE [pc[t] EXCEPT !.at = "locked"])
    /\ UNCHANGED <<held, start, ignores, nodes, edges, results, history>>

\* update_lock_history_in_lock: the table after one more acquisition; a full
\* table is left as it is (assert(false)).
Acquired(locks, l, id) ==
    IF \E i \in DOMAIN locks : locks[i].id = id
    THEN [i \in DOMAIN locks |-> IF locks[i].id = id
                                 THEN [locks[i] EXCEPT !.count = @ + 1] ELSE locks[i]]
    ELSE IF Len(locks) = MAX_LOCKS_PER_THREAD THEN locks
    ELSE Append(locks, [mu |-> l, count |-> 1, id |-> id])

\* dlc_deadlock_check_in_lock
InLock(t) ==
    /\ pc[t].at = "locked"
    /\ held' = [held EXCEPT ![t] = Acquired(@, pc[t].mu, pc[t].id)]
    /\ Goto(t, Idle)
    /\ UNCHANGED <<real, start, ignores, nodes, edges, results, history>>

MayRelease(t, l) == pc[t] = Idle /\ owner[l] = t

AfterLockIgnored(t, l) ==
    /\ MayRelease(t, l)
    /\ ignore_unlock[t] > 0
    /\ ignore_unlock' = [ignore_unlock EXCEPT ![t] = @ - 1]
    /\ Goto(t, In("unlock", l, NoId))
    /\ UNCHANGED <<real, held, start, ignore_lock, nodes, edges, results, history>>

\* Mutant: the entry is never dropped.
ReleasedToZero(locks, i) == [locks EXCEPT ![i].count = @ - 1]
\* update_lock_history_after_lock, the entry found: the last entry takes the
\* place of one that is used up.
Released(locks, i) ==
    LET n == Len(locks)
    IN IF locks[i].count > 1 THEN [locks EXCEPT ![i].count = @ - 1]
       ELSE SubSeq([locks EXCEPT ![i] = locks[n]], 1, n - 1)

\* Mutants: every release clears the start time; the entry is looked up by address.
AfterLockClearsTime(t, l) ==
    /\ ignore_unlock[t] = 0
    /\ GetId(l, FALSE)
    /\ \E i \in DOMAIN held[t] : /\ held[t][i].id = IdFor(l)
                                 /\ held' = [held EXCEPT ![t] = Released(@, i)]
    /\ start' = [start EXCEPT ![t] = "zero"]
    /\ Goto(t, In("unlock", l, NoId))
    /\ UNCHANGED <<real, ignores, edges, results, history>>
AfterLockByAddress(t, l) ==
    /\ ignore_unlock[t] = 0
    /\ GetId(l, FALSE)
    /\ \E i \in DOMAIN held[t] : /\ held[t][i].mu = l
                                 /\ held' = [held EXCEPT ![t] = Released(@, i)]
    /\ Goto(t, In("unlock", l, NoId))
    /\ UNCHANGED <<real, start, ignores, edges, results, history>>

\* dlc_deadlock_check_after_lock
AfterLock(t, l) ==
    /\ ignore_unlock[t] = 0
    /\ GetId(l, FALSE)
    /\ LET locks == held[t]
           byId  == {i \in DOMAIN locks : locks[i].id = IdFor(l)}
           byMu  == {i \in DOMAIN locks : locks[i].mu = l}
       IN /\ \/ /\ byId # {}
                /\ \E i \in byId : held' = [held EXCEPT ![t] = Released(locks, i)]
                /\ UNCHANGED <<other, logged>>
             \/ /\ byId = {}       \* the table is left as it is
                /\ other' = TRUE
                /\ logged' = logged \cup {IF byMu = {} THEN "unheld" ELSE "deleted"}
                /\ UNCHANGED held
          /\ start' = IF held'[t] = <<>> THEN [start EXCEPT ![t] = "zero"] ELSE start
    /\ Goto(t, In("unlock", l, NoId))
    /\ UNCHANGED <<real, ignores, edges, potential, history>>

\* LeaveCriticalSection / _Mtx_unlock
RealUnlock(t) ==
    /\ pc[t].at = "unlock"
    /\ LET l == pc[t].mu IN
       IF owner[l] = t
       THEN /\ depth' = [depth EXCEPT ![l] = @ - 1]
            /\ owner' = [owner EXCEPT ![l] = IF depth[l] = 1 THEN NoThread ELSE t]
       ELSE UNCHANGED real           \* misuse, without effect here
    /\ Goto(t, Idle)
    /\ UNCHANGED <<held, start, ignores, nodes, edges, results, history>>

\* dlc_deadlock_check_before_try_lock: lock++ is used up, the call watched.
BeforeTryLock(t, l) ==
    /\ MayAcquire(t, l)
    /\ ignore_lock' = [ignore_lock EXCEPT ![t] = IF @ > 0 THEN @ - 1 ELSE 0]
    /\ GetId(l, FALSE)
    /\ start' = IF held[t] = <<>> THEN [start EXCEPT ![t] = "running"] ELSE start
    /\ Goto(t, In("try", l, IdFor(l)))
    /\ UNCHANGED <<real, held, ignore_unlock, edges, results, history>>

\* Mutant: a successful try is not entered in the table.
RealTryLockUnrecorded(t) ==
    /\ pc[t].at = "try"
    /\ owner[pc[t].mu] \in {NoThread, t}
    /\ owner' = [owner EXCEPT ![pc[t].mu] = t]
    /\ depth' = [depth EXCEPT ![pc[t].mu] = @ + 1]
    /\ Goto(t, Idle)
    /\ UNCHANGED <<held, start, ignores, nodes, edges, results, history>>

\* TryEnterCriticalSection / _Mtx_trylock; nothing is undone when it fails.
RealTryLock(t) ==
    /\ pc[t].at = "try"
    /\ LET l == pc[t].mu IN
       \/ /\ owner[l] \in {NoThread, t}
          /\ owner' = [owner EXCEPT ![l] = t]
          /\ depth' = [depth EXCEPT ![l] = @ + 1]
          /\ Goto(t, [pc[t] EXCEPT !.at = "locked"])
       \/ /\ owner[l] \notin {NoThread, t}
          /\ UNCHANGED real
          /\ Goto(t, Idle)
    /\ UNCHANGED <<held, start, ignores, nodes, edges, results, history>>

\* Mutant: the node stays in the graph.
DeleteLockKeepsNode(t, l) ==
    /\ pc[t] = Idle
    /\ ~Dying(l)
    /\ order' = {e \in order : l \notin {e[1], e[2]}}
    /\ Goto(t, In("delete", l, NoId))
    /\ UNCHANGED <<real, held, start, ignores, nodes, edges, results, inverted>>

\* dlc_deadlock_delete_lock
DeleteLock(t, l) ==
    /\ pc[t] = Idle
    /\ ~Dying(l)
    /\ IF idOf[l] = NoId THEN UNCHANGED <<nodes, edges>>
       ELSE /\ idOf' = [idOf EXCEPT ![l] = NoId]
            /\ edges' = {e \in edges : idOf[l] \notin {e[1], e[2]}}
            /\ recorded' = recorded \ {idOf[l]}
            /\ spare' = spare + 1
            /\ UNCHANGED born
    /\ logged' = IF \E i \in DOMAIN held[t] : held[t][i].mu = l
                 THEN logged \cup {"delete_held"} ELSE logged
    /\ order' = {e \in order : l \notin {e[1], e[2]}}
    /\ Goto(t, In("delete", l, NoId))
    /\ UNCHANGED <<real, held, start, ignores, potential, other, inverted>>

\* DeleteCriticalSection / _Mtx_destroy_in_situ; the address may be
\* initialised again at once, which the monitor does not look at.
RealDelete(t) ==
    /\ pc[t].at = "delete"
    /\ owner' = [owner EXCEPT ![pc[t].mu] = NoThread]
    /\ depth' = [depth EXCEPT ![pc[t].mu] = 0]
    /\ Goto(t, Idle)
    /\ UNCHANGED <<held, start, ignores, nodes, edges, results, history>>

\* buginsight_cnd_wait, then the wait itself, which releases the mutex and
\* takes it again behind the monitor's back.
CndWait(t, l) ==
    /\ MayRelease(t, l) /\ ~Dying(l)
    /\ depth[l] = 1
    /\ start' = [start EXCEPT ![t] = "waiting"]
    /\ owner' = [owner EXCEPT ![l] = NoThread]
    /\ depth' = [depth EXCEPT ![l] = 0]
    /\ Goto(t, In("wait", l, NoId))
    /\ UNCHANGED <<held, ignores, nodes, edges, results, history>>

CndWake(t) ==
    /\ pc[t].at = "wait"
    /\ owner[pc[t].mu] = NoThread
    /\ owner' = [owner EXCEPT ![pc[t].mu] = t]
    /\ depth' = [depth EXCEPT ![pc[t].mu] = 1]
    /\ Goto(t, Idle)
    /\ UNCHANGED <<held, start, ignores, nodes, edges, results, history>>

\* increase_ignore_counter, from the runtime API's lock++ and unlock++
IgnoreNextLock(t) ==
    /\ pc[t] = Idle
    /\ ignore_lock[t] < MaxIgnore
    /\ ignore_lock' = [ignore_lock EXCEPT ![t] = @ + 1]
    /\ UNCHANGED <<real, pc, held, start, ignore_unlock, nodes, edges, results, history>>

IgnoreNextUnlock(t) ==
    /\ pc[t] = Idle
    /\ ignore_unlock[t] < MaxIgnore
    /\ ignore_unlock' = [ignore_unlock EXCEPT ![t] = @ + 1]
    /\ UNCHANGED <<real, pc, held, start, ignore_lock, nodes, edges, results, history>>

-----------------------------------------------------------------------------
(* Programs of the tested kind: they release what they own and destroy     *)
(* only locks nobody uses.                                                 *)

NotInUse(l) == \A t \in Threads : ~Busy(t, l)
Unused(l) == owner[l] = NoThread /\ NotInUse(l)

\* Runtime_API.md: the program announces exactly the calls on Ignored locks.
Announced(l, count) == l \in Ignored <=> count > 0

Blocking(t) ==
    \/ RealLock(t) \/ InLock(t) \/ RealUnlock(t) \/ RealDelete(t)
    \/ \E l \in Locks :
         \/ /\ Announced(l, ignore_lock[t])
            /\ BeforeLock(t, l) \/ BeforeLockFull(t, l) \/ BeforeLockIgnored(t, l)
         \/ /\ Announced(l, ignore_unlock[t]) /\ MayRelease(t, l)
            /\ AfterLock(t, l) \/ AfterLockIgnored(t, l)
         \/ l \notin Ignored /\ Unused(l) /\ DeleteLock(t, l)
Trying(t)  == RealTryLock(t) \/ \E l \in Locks \ Ignored :
                                   ignore_lock[t] = 0 /\ BeforeTryLock(t, l)
\* A thread that tries only while its table has room.
TryingInRoom(t) == Trying(t) /\ (pc[t] = Idle => Len(held[t]) < MAX_LOCKS_PER_THREAD)
Waiting(t) == CndWake(t) \/ \E l \in Locks \ Ignored : CndWait(t, l)
Announcing(t) == \E l \in Ignored : IF owner[l] = t THEN IgnoreNextUnlock(t)
                                                    ELSE IgnoreNextLock(t)

\* Programs with the errors the monitor is there to find: a lock is released
\* by a thread that does not own it, or destroyed while somebody owns it.
Misusing(t) ==
    \E l \in Locks \ Ignored :
        \/ pc[t] = Idle /\ owner[l] # t /\ ~Dying(l) /\ AfterLock(t, l)
        \/ owner[l] # NoThread /\ NotInUse(l) /\ DeleteLock(t, l)

NextBlocking == \E t \in Threads : Blocking(t)
NextAll      == \E t \in Threads : \/ Blocking(t) \/ TryingInRoom(t)
                                  \/ Waiting(t)  \/ Announcing(t)
                                  \/ Misusing(t)

SpecBlocking == Init /\ [][NextBlocking]_vars
SpecAll      == Init /\ [][NextAll]_vars

-----------------------------------------------------------------------------
TypeOK ==
    /\ owner \in [Locks -> Threads \cup {NoThread}]
    /\ depth \in [Locks -> 0 .. MaxDepth]
    /\ pc \in [Threads -> {Idle} \cup
                 [at : {"lock", "locked", "unlock", "try", "delete", "wait"},
                  mu : Locks, id : Ids \cup {NoId}]]
    /\ held \in [Threads -> Seq(Entry)]
    /\ \A t \in Threads : Len(held[t]) <= MAX_LOCKS_PER_THREAD
    /\ start \in [Threads -> {"zero", "running", "waiting"}]
    /\ ignore_lock \in [Threads -> 0 .. MaxIgnore]
    /\ ignore_unlock \in [Threads -> 0 .. MaxIgnore]
    /\ idOf \in [Locks -> Ids \cup {NoId}]
    /\ born \in [Locks -> 0 .. MaxBorn]
    /\ edges \subseteq Ids \X Ids
    /\ recorded \subseteq Ids
    /\ spare \in 0 .. Cardinality(Locks)
    /\ {potential, other, inverted} \subseteq BOOLEAN
    /\ logged \subseteq {"deadlock", "max_locks", "unheld", "deleted", "delete_held"}
    /\ order \subseteq Locks \X Locks

\* Threads that wait for one another and will for ever.
Stuck(D) == \A t \in D : /\ pc[t].at = "lock"
                         /\ owner[pc[t].mu] \in D \ {t}
Deadlocked == \E D \in SUBSET Threads : D # {} /\ Stuck(D)

(* README: "a tool for finding ... potential deadlocks".  When threads of a *)
(* legal program really wait in a circle, the monitor has reported before   *)
(* the last of them began to wait.                                          *)
DeadlockIsReported == Deadlocked => potential \/ other

(* The monitor predicts: two acquisition orders that contradict each other  *)
(* are reported when the second one is tried, whoever took them, however    *)
(* long ago, and without a deadlock having happened.                        *)
InversionIsReported == inverted => potential \/ other

(* ... and nothing else is reported.                                        *)
ReportIsInversion == potential => inverted

(* Between calls the table of a thread is exactly what the thread owns: one *)
(* live entry for each owned lock with its nesting depth, and none for a    *)
(* lock whose calls it asked the monitor to ignore.  Entries of destroyed   *)
(* locks may remain when the program destroyed them in use.                 *)
HistoryMatchesOwnership ==
    other \/ \A t \in Threads : pc[t] = Idle =>
        \A l \in {k \in Locks : ~Dying(k)} :
            LET mine == {i \in DOMAIN held[t] : held[t][i].mu = l /\ IsLive(held[t][i].id)}
            IN IF owner[l] = t /\ l \notin Ignored
               THEN \E i \in mine : mine = {i} /\ held[t][i].count = depth[l]
               ELSE mine = {}

(* The watchdog passes over a thread without a start time.  So whoever owns *)
(* a watched lock between two calls, or is about to wait for one, has one,  *)
(* through recursion, failed tries, condition waits and releases in any     *)
(* order (the asserts on the time in after_lock and buginsight_cnd_wait).   *)
(* Not the other way round: a try that fails leaves the time it has set,    *)
(* which the assert at the next first lock is not written for.              *)
HoldersAreTimed ==
    other \/ \A t \in Threads :
        \/ pc[t] = Idle /\ \E l \in Locks \ Ignored : owner[l] = t /\ ~Dying(l)
        \/ pc[t].at \in {"lock", "try"} /\ pc[t].mu \notin Ignored
        => start[t] # "zero"

(* assert(n->thread_id != std::thread::id()) in extra_infos, called for the *)
(* nodes of the path to the refused edge: each of them was once waited for, *)
(* so it has a recorded thread even when its node was used before and its   *)
(* lock was first taken with a try.                                         *)
PathNodesAreRecorded == \A e \in edges : e[2] \in recorded

(* assert(false) in build_watchdog_callstack, which a timer thread calls at  *)
(* any moment for the first lock of a thread it has picked without the      *)
(* graph mutex: in a legal program every entry of a table names a lock that *)
(* is still in the graph, whichever thread removes and recreates locks.     *)
HeldLocksAreLive == \A t \in Threads : \A i \in DOMAIN held[t] : IsLive(held[t][i].id)

(* A thread that releases a lock it does not own is reported, whatever was  *)
(* destroyed, recreated or handed to another thread in between.             *)
ForeignReleaseIsReported ==
    [][\A t \in Threads, l \in Locks :
         pc[t] = Idle /\ owner[l] # t /\ pc'[t] = In("unlock", l, NoId) => other']_vars

=============================================================================
