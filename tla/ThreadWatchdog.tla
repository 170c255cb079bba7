--------------------------- MODULE ThreadWatchdog ---------------------------
(***************************************************************************)
(* thread_watchdog_t (thread_watchdog/thread_watchdog.cpp) over            *)
(* one_shot_timer_t: every monitored thread is in m_threads from its first *)
(* monitored acquisition to its exit, and a timer that starts itself again *)
(* while the list is not empty looks for threads that hold, or wait for, a *)
(* lock too long.  The list changes under m_thread_list_mutex; between the *)
(* scan, the report (under the graph mutex) and the restart the callback   *)
(* holds no mutex.  The threads are those of LockMonitor, reduced to the   *)
(* only thing the watchdog reads: m_lock_start_time_point.                 *)
(*                                                                         *)
(* Time is counted in ticks.  A start time is kept as its age, which stops *)
(* growing at the limit it is compared with.                               *)
(***************************************************************************)
EXTENDS Naturals, Sequences, FiniteSets

CONSTANTS Threads,
          MaxDuration,  \* m_thread_watchdog_max_duration_sec, in ticks
          Period,       \* the timer's 5 s or 1 s, in ticks
          Timers        \* bound: pending timers and running callbacks

ASSUME WatchdogAssumption == {MaxDuration, Period} \subseteq Nat \ {0}

VARIABLES life,      \* a thread: "new", "watched" (add_thread called), "gone", or
                     \* "late": it took a lock when its on_thread_delete_t was gone
          m_threads, \* thread_info_t: the thread and m_already_logged
          start,     \* m_lock_start_time_point: 0, a time, or UINT64_MAX
          age,       \* now minus that time
          timer,     \* timer-queue timers and the callbacks they run
          found,     \* history: the thread's present hold was picked by a scan
          reported   \* threads process_watchdog_error has reported

threadVars == <<life, start, age, found>>
vars == <<threadVars, m_threads, timer, reported>>

Off == [at |-> "off"]
Positions == 1 .. Len(m_threads)

Init == /\ life = [t \in Threads |-> "new"]
        /\ m_threads = <<>>
        /\ start = [t \in Threads |-> "zero"]
        /\ age = [t \in Threads |-> 0]
        /\ timer = [i \in Timers |-> Off]
        /\ found = [t \in Threads |-> FALSE]
        /\ reported = {}

\* one_shot_timer_t::start: one more timer in the timer queue.
StartTimer(tm) == \E i \in Timers : /\ tm[i] = Off
                                    /\ timer' = [tm EXCEPT ![i] = [at |-> "pending", left |-> Period]]

\* add_thread, from Synch_GetAllLocks(true) in a thread's first acquisition
add_thread(t) ==
    /\ life[t] = "new"
    /\ life' = [life EXCEPT ![t] = "watched"]
    /\ m_threads' = Append(m_threads, [thread |-> t, logged |-> FALSE])
    /\ IF Len(m_threads') = 1 THEN StartTimer(timer) ELSE UNCHANGED timer
    /\ UNCHANGED <<start, age, found, reported>>

\* add_thread, from the acquisition in a thread_local destructor that runs after
\* ~on_thread_delete_t: a new SynchLocksHeld, and nobody to remove it.
add_threadLate(t) ==
    /\ life[t] = "gone"
    /\ life' = [life EXCEPT ![t] = "late"]
    /\ m_threads' = Append(m_threads, [thread |-> t, logged |-> FALSE])
    /\ IF Len(m_threads') = 1 THEN StartTimer(timer) ELSE UNCHANGED timer
    /\ UNCHANGED <<start, age, found, reported>>

\* Mutant: the found place is overwritten, the last place is kept.
remove_threadKeepsLast(t) ==
    /\ life[t] = "watched"
    /\ life' = [life EXCEPT ![t] = "gone"]
    /\ start' = [start EXCEPT ![t] = "zero"]
    /\ age' = [age EXCEPT ![t] = 0]
    /\ \E p \in Positions : /\ m_threads[p].thread = t
                            /\ m_threads' = [m_threads EXCEPT ![p] = m_threads[Len(m_threads)]]
    /\ UNCHANGED <<timer, found, reported>>

\* remove_thread, from ~on_thread_delete_t at the thread's exit, whatever it
\* still holds: the last entry takes the place of the removed one.  The timer is
\* left alone.  g_sync_locks_held.reset() just before gives up the thread's own
\* reference only; the entry keeps the table until it is removed, so that what
\* a callback reads in between is what it read before.
remove_thread(t) ==
    /\ life[t] = "watched"
    /\ life' = [life EXCEPT ![t] = "gone"]
    /\ start' = [start EXCEPT ![t] = "zero"]
    /\ age' = [age EXCEPT ![t] = 0]
    /\ \E p \in Positions :
         /\ m_threads[p].thread = t
         /\ LET n == Len(m_threads)
            IN m_threads' = SubSeq([m_threads EXCEPT ![p] = m_threads[n]], 1, n - 1)
    /\ UNCHANGED <<timer, found, reported>>

\* before_lock and before_try_lock with nothing held
BeginHold(t) ==
    /\ life[t] \in {"watched", "late"} /\ start[t] = "zero"
    /\ start' = [start EXCEPT ![t] = "running"]
    /\ found' = [found EXCEPT ![t] = FALSE]
    /\ UNCHANGED <<life, age, m_threads, timer, reported>>

\* after_lock with nothing held any more
EndHold(t) ==
    /\ start[t] # "zero"
    /\ start' = [start EXCEPT ![t] = "zero"]
    /\ age' = [age EXCEPT ![t] = 0]
    /\ UNCHANGED <<life, m_threads, timer, found, reported>>

\* buginsight_cnd_wait
CndWait(t) ==
    /\ start[t] = "running"
    /\ start' = [start EXCEPT ![t] = "waiting"]
    /\ age' = [age EXCEPT ![t] = 0]
    /\ UNCHANGED <<life, m_threads, timer, found, reported>>

Tick ==
    /\ age' = [t \in Threads |-> IF start[t] = "running" /\ age[t] < MaxDuration
                                 THEN age[t] + 1 ELSE age[t]]
    /\ timer' = [i \in Timers |-> IF timer[i].at = "pending" /\ timer[i].left > 0
                                  THEN [timer[i] EXCEPT !.left = @ - 1] ELSE timer[i]]
    /\ UNCHANGED <<life, start, m_threads, found, reported>>

-----------------------------------------------------------------------------
(* one_shot_timer_callback                                                 *)

\* The scan of the list: a thread that holds nothing, waits for a condition or
\* began in this tick loses its mark; the first unmarked thread at the limit is
\* marked and ends the scan.
TooLong(p) == LET t == m_threads[p].thread
              IN start[t] = "running" /\ ~m_threads[p].logged /\ age[t] >= MaxDuration
Forgiven(p) == LET t == m_threads[p].thread
               IN start[t] # "running" \/ age[t] = 0
Scanned(last) ==
    [p \in Positions |->
       IF p = last THEN [m_threads[p] EXCEPT !.logged = TRUE]
       ELSE IF p < last /\ Forgiven(p) THEN [m_threads[p] EXCEPT !.logged = FALSE]
       ELSE m_threads[p]]

\* Mutants: the mark is not set; every thread at the limit gets one, though
\* only the first is reported.
ScanUnmarked(i) ==
    /\ timer[i].at = "pending" /\ timer[i].left = 0
    /\ \/ /\ \A p \in Positions : ~TooLong(p)
          /\ timer' = [timer EXCEPT ![i] = [at |-> "restart"]]
          /\ UNCHANGED found
       \/ \E p \in Positions :
            /\ TooLong(p) /\ \A q \in 1 .. p - 1 : ~TooLong(q)
            /\ timer' = [timer EXCEPT ![i] = [at |-> "report", thread |-> m_threads[p].thread]]
            /\ found' = [found EXCEPT ![m_threads[p].thread] = TRUE]
    /\ UNCHANGED <<life, start, age, m_threads, reported>>
ScanMarksAll(i) ==
    /\ timer[i].at = "pending" /\ timer[i].left = 0
    /\ \/ /\ \A p \in Positions : ~TooLong(p)
          /\ m_threads' = Scanned(Len(m_threads) + 1)
          /\ timer' = [timer EXCEPT ![i] = [at |-> "restart"]]
          /\ UNCHANGED found
       \/ \E p \in Positions :
            /\ TooLong(p) /\ \A q \in 1 .. p - 1 : ~TooLong(q)
            /\ m_threads' = [q \in Positions |->
                               [m_threads[q] EXCEPT !.logged = @ \/ TooLong(q)]]
            /\ timer' = [timer EXCEPT ![i] = [at |-> "report", thread |-> m_threads[p].thread]]
            /\ found' = [found EXCEPT ![m_threads[p].thread] = TRUE]
    /\ UNCHANGED <<life, start, age, reported>>

Scan(i) ==
    /\ timer[i].at = "pending" /\ timer[i].left = 0
    /\ \/ /\ \A p \in Positions : ~TooLong(p)
          /\ m_threads' = Scanned(Len(m_threads) + 1)
          /\ timer' = [timer EXCEPT ![i] = [at |-> "restart"]]
          /\ UNCHANGED found
       \/ \E p \in Positions :
            /\ TooLong(p) /\ \A q \in 1 .. p - 1 : ~TooLong(q)
            /\ m_threads' = Scanned(p)
            /\ timer' = [timer EXCEPT ![i] = [at |-> "report", thread |-> m_threads[p].thread]]
            /\ found' = [found EXCEPT ![m_threads[p].thread] = TRUE]
    /\ UNCHANGED <<life, start, age, reported>>

\* process_watchdog_error: m_other_errors_found, then the log text
Report(i) ==
    /\ timer[i].at = "report"
    /\ reported' = reported \cup {timer[i].thread}
    /\ timer' = [timer EXCEPT ![i] = [at |-> "restart"]]
    /\ UNCHANGED <<threadVars, m_threads>>

\* Mutant: the timer is only started again while several threads are listed.
RestartOnlySeveral(i) ==
    /\ timer[i].at = "restart"
    /\ LET tm == [timer EXCEPT ![i] = Off]
       IN IF Len(m_threads) > 1 THEN StartTimer(tm) ELSE timer' = tm
    /\ UNCHANGED <<threadVars, m_threads, reported>>

Restart(i) ==
    /\ timer[i].at = "restart"
    /\ LET tm == [timer EXCEPT ![i] = Off]
       IN IF m_threads # <<>> THEN StartTimer(tm) ELSE timer' = tm
    /\ UNCHANGED <<threadVars, m_threads, reported>>

Callback(i) == Scan(i) \/ Report(i) \/ Restart(i)

Next == \/ Tick
        \/ \E i \in Timers : Callback(i)
        \/ \E t \in Threads : \/ add_thread(t) \/ remove_thread(t) \/ add_threadLate(t)
                              \/ BeginHold(t)  \/ EndHold(t) \/ CndWait(t)

\* Time passes, and the timer queue's threads run the callbacks that are due.
\* Nothing is assumed of the threads of the program.
Fairness == WF_vars(Tick) /\ \A i \in Timers : WF_vars(Callback(i))

Spec == Init /\ [][Next]_vars /\ Fairness

-----------------------------------------------------------------------------
TypeOK ==
    /\ life \in [Threads -> {"new", "watched", "gone", "late"}]
    /\ m_threads \in Seq([thread : Threads, logged : BOOLEAN])
    /\ start \in [Threads -> {"zero", "running", "waiting"}]
    /\ age \in [Threads -> 0 .. MaxDuration]
    /\ timer \in [Timers -> {Off, [at |-> "restart"]}
                              \cup [at : {"pending"}, left : 0 .. Period]
                              \cup [at : {"report"}, thread : Threads]]
    /\ found \in [Threads -> BOOLEAN]
    /\ reported \subseteq Threads

(* The list holds every monitored thread exactly once: the copy of the last *)
(* entry over a removed one neither loses a thread nor keeps one twice, and *)
(* a late thread stays for good.                                            *)
Listed == {t \in Threads : life[t] \in {"watched", "late"}}
ListIsExact ==
    /\ {m_threads[p].thread : p \in Positions} = Listed
    /\ Len(m_threads) = Cardinality(Listed)

(* While a thread is listed some timer is pending or its callback runs, so  *)
(* the watchdog never goes to sleep over a thread, however additions and    *)
(* removals fall between the scan and the restart.                          *)
WatchdogAwake == m_threads # <<>> => \E i \in Timers : timer[i] # Off

(* A hold that lasts is reported once, not at every period: no scan, of     *)
(* whichever callback, picks a hold that was picked before.                 *)
NoSecondReport ==
    [][\A i \in Timers : timer[i].at = "pending" /\ timer'[i].at = "report"
                            => ~found[timer'[i].thread]]_vars

(* A thread that holds or waits for a lock for ever is reported at least    *)
(* once, also when other threads come, go, or hold too long before it in    *)
(* the list: each scan ends at its first find.  (A later hold of the same   *)
(* thread may be missed: only a scan that sees it idle clears its mark.)    *)
LongHoldersAreReported ==
    \A t \in Threads : start[t] = "running" ~> t \in reported \/ start[t] # "running"

=============================================================================
