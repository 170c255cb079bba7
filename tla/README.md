# BugInsight: a TLA+ model of the monitors

BugInsight starts a Windows program, loads a library into it before it runs and
patches its import tables.  From then on calls of lock functions and of
allocation functions pass through monitors that report potential deadlocks,
locks held or waited for too long, memory leaks and wrong frees, and that can
make the process end with an error code, which the launcher hands on.  This directory holds a model of those
monitors and of the launcher in TLA+, the model-checking runs (TLC) and proofs
(TLAPS) about it.

The monitors run inside arbitrary threads of a program they know nothing of, in
the middle of its own calls.  The questions worth a model are therefore: what do
the monitors' tables say when the steps of several threads interleave, when
objects are destroyed and come back at the same address, when tables and
counters are full, when a real call fails after it was recorded; and when does
what they report hold; and does an error reach whoever started the program.

## 1. The system

| component (source) | state | operations | interacts with |
|---|---|---|---|
| Lock-order graph (`graphcycles/`) | nodes with version, rank and two edge sets; hash table from addresses; free list | `GetId`, `RemoveNode`, `InsertEdge`, `RemoveEdge`, queries | called by the deadlock monitor under one mutex |
| Deadlock monitor (`deadlock_monitor.cpp`, `synch_locks_held.hpp`, `thread_history/`) | for each thread a table of held locks with their graph ids and counts, a start time, two ignore counters; flags for the exit status | `check_before_lock`, `check_in_lock`, `check_after_lock`, `check_before_try_lock`, `delete_lock`, `cnd_wait` | graph, watchdog, API monitors, exit status |
| Lock API monitors (`api_monitors/`) | none | monitor step - real call - monitor step for critical sections, `std::mutex`, conditions | the program, the deadlock monitor |
| Thread watchdog (`thread_watchdog/`, `one_shot_timer`) | list of watched threads, a one-shot timer | `add_thread`, `remove_thread`, the timer callback: scan, report, restart | reads the threads' tables |
| Leak repository (`leak_check/memory_leak_map*`, `memory_helper`) | concurrent map from address (and heap) to family, size, call stack | `add`, `erase`, `get_data`, reset, `group_leaks2` for the report | allocation monitors, exit status |
| Allocation monitors (`leak_check/*_monitor*`) | none that matters here | about sixty functions: look up, erase, real call, add in several orders | leak repository, the allocators |
| Runtime API (`getenvironmentvariable_monitor`) | none | `lock++`, `unlock++`, `get/enabled`, reset, bytes | ignore counters, leak repository |
| Loader, import tables (`loader.cpp`, `iat/`) | the patched modules; the two global monitors | start, patch each module as it is loaded, unpatch, shutdown, exit status | Windows loader, all monitors |
| Low-level allocator (`helper/low_level_alloc.cc`) | arenas with a skip list of free blocks | alloc, free, coalesce | memory of the graph |
| Launcher (`buginsight/`, `shared/`) | options, the shared memory they are left in, an event, the child process and the pipe of its output | parse the command line, start, copy the output until the program has ended, return its code | loader, through shared memory, event, pipe and exit code |

What is hard in it, one line each; `PROJECT.json` lists every hazard at its
source line with the properties that cover it.

* A lock acquisition is three steps (monitor, real lock, monitor), a
  reallocation up to four.  Other threads run in between.
* Graph ids are kept in the tables of threads after the lock is gone.  Versions
  have to make them harmless, and versions are bounded.
* The tables are bounded; what does not fit is not watched.
* The watchdog picks a thread under one lock and reports it under another, and
  the timer that wakes it is restarted in four places.
* The order of erase and free decides whether the leak map survives the reuse
  of an address.
* Errors end in two ways: a log entry, and a flag that makes the exit status.
  Nothing ties one to the other.
* Launcher and program share a pipe of bounded size, a block of shared memory, an
  event and the exit code; either may end, or be ended, at any point.
* The containers are hand-made: open addressing with deleted cells, chains through
  the nodes, vectors that move out of the object, a skip list in the free blocks.

## 2. Modules

| module | models | its variables |
|---|---|---|
| `Paths` | reachability over a relation | - |
| `LockOrder` | what the graph promises: an acyclic relation on live ids | `idOf`, `issued`, `edges`, `answer` |
| `GraphCycles` | `graphcycles.cc`: nodes, versions, free list, ranks, the two searches, reorder, undo | `rank`, `version`, `masked_ptr`, `in`, `out`, `visited`, `free_nodes`, `answer` |
| `LockMonitor` | several threads between monitor and real locks | the tables, owners, graph, flags, a pc for each thread |
| `ThreadWatchdog` | the list, the timers, scan / report / restart | `m_threads`, `start`, `age`, `timer`, `reported` |
| `LeakMonitor` | `leak_check/`: allocators, map, calls in progress | `block`, `given`, `pc`, `map`, `errors`, `asserted` |
| `ImportPatching` | `iat/`, `dll_main.cpp`, `loader.cpp`: the imports of every loaded module from start to shutdown | `base`, `state`, `slot`, `module_handle`, `orginal`, `phase` |
| `Vec` | the vector with inlined storage, as an operation on the arena's blocks | - |
| `SetOfNodes`, `NodeSet` | a set of nodes, and the hash table that implements it | `members`, `answer`; `table_`, `occupied_`, `set_blocks` |
| `PointerMap` | the chains, the free list and the versions behind `GetId` and `RemoveNode` | `nodes_`, `ptrmap_`, `free_nodes_`, `got` |
| `LeakReport` | `group_leaks2`: the places for call stacks of each function | `used_api_infos`, `visited` |
| `Options` | `command_line_parser.cpp`, `options_parser.cpp` as functions of the command line | - |
| `Launcher` | launcher and program from the command line to the exit code | `pc`, `app`, `shared`, `event`, `pipe`, `flags`, `code` |
| `ArenaMemory` | what the allocator of the graph promises | `owned`, `given`, `request` |
| `LowLevelAlloc` | `low_level_alloc.cc`: blocks, skip list, splitting and merging | `heap` (headers and list), `regions`, `request` |
| `GraphCyclesProofs`, `LockOrderProofs`, `LockMonitorProofs`, `WatchdogProofs`, `LeakMonitorProofs`, `StorageProofs`, `ImportPatchingProofs`, `LauncherProofs` | theorems | - |
| `MC*` | instances for TLC | - |

`GraphCycles` implements `LockOrder` (property `RefinesLockOrder`, a refinement
mapping that forgets ranks, the free list and the hash table).  `LockMonitor`
uses the *promise*: it keeps the order of the locks as an acyclic relation with
an `InsertEdge` that refuses, so its states do not carry ranks.  That is the
composition of the two components.  `LowLevelAlloc` implements `ArenaMemory` the
same way (`RefinesArenaMemory`), `NodeSet` implements `SetOfNodes` (`RefinesSet`)
with vectors (`Vec`) whose blocks come from the arena, and `PointerMap` implements
the part of `GraphCycles` that finds nodes and numbers them (`RefinesGraph`:
`GetId` and `RemoveNode`, with ranks and edges left alone).  `Launcher` stands on
`Options`.

### How state and actions correspond to the code

Every definition that models code has its file and lines in `PROJECT.json`
(`map`).  The conventions:

* **Atomicity.** One action is what happens under one lock of the code or
  between two shared accesses.  The graph and tables change under the global
  graph mutex: one action each.  The steps of a monitored call are separate
  actions with a `pc`.  `m_flat_map` is a concurrent map: one action for each of
  its operations, and one for each real call.
* **Ids** are pairs of node index and version (`MakeId`), versions are bounded by
  `MaxVersion`, which stands for 2^32-1: a node at the bound is retired exactly
  as in the code.
* **The searches** `ForwardDFS` and `BackwardDFS` are the sets they visit, cut at
  the rank they are cut at, without the nodes an earlier call left marked
  (`visited`); `Reorder` is the assignment of the sorted ranks to the backward set
  followed by the forward set.  An edge that closes a cycle is entered in both node
  sets and taken out of both, and the marks the search set are cleared, as in the code.
* **The hash tables** are a function and sets in `GraphCycles`; `PointerMap` and
  `NodeSet` show that they may be.
* **Time** in the watchdog is a clock of ticks with a limit of a few of them.
* **Allocators** are external: they hand out any free address.  All functions of
  one family that take the same steps in the same order are one call, and the
  handles of `HeapAlloc` are allocators of their own (`Pools`).  The size of a
  block is what was asked for or, where the function decides, what the monitor
  measures.  A wrong free of another allocator's memory has no effect.
* **Import tables**: an address is a place and a function, so a library that is
  loaded again elsewhere has other addresses.  `find_real_code`, which follows the
  jump at an address to the code behind it, has no jump to follow here.  The Windows loader lock makes each
  load, unload and init routine one step.
* **The arena** counts in units of `round_up` (32 bytes, the header is one unit);
  `IntLog2` halves bytes as the code does, since halving units rounds differently;
  the number of levels of a block is any the random generator can give.
* **Errors.** `on_error=fail` ends the process inside `process_error`, after which
  the monitors have nothing left to check; the monitor modules have the other
  settings, `Launcher` has all three.
* **Output** is counted in units.  `PipeSize = BufferSize = 2` stand for the 4096
  bytes of a default pipe and of `chBuf`; one read has to empty a full pipe
  (`LauncherAssumption`: `BufferSize >= PipeSize`).
* **Command lines** are functions from option names to texts; `lexical_cast<int>`
  is the function `Number`.  The serialisation through the shared memory is left
  out: what is read is what was written.
* **Type invariants** are stated in every module.  Runs check those of
  `GraphCycles` and `Launcher`; those of the graph, the watchdog, the leak report and
  the import tables are proved, those of the two monitors and of the containers
  within their invariants.

## 3. Runs

`tlc -workers 2 -config X.cfg M` in this directory.  Nine runs pass, three show a
disagreement between the code and what it says of itself.

### Graph (`MCGraphCycles`, 33 thousand states)
Three pointers, three nodes, versions up to 2: every node can be used, freed, used
by another pointer and retired at its last version, and edges can close cycles of
every length.  The ids passed to `InsertEdge` are those the monitor can still
hold.  `CheckInvariants` is the function of that name in the source, the marks left
on nodes included,
`IdsNeverReused` says that no call may give an id a second life,
`RefinesLockOrder` that the ranked graph with its two bounded searches refuses
exactly the edges that close a cycle.  Three nodes are the smallest number for
which a search has an inner node and `Reorder` moves more than the two ends.

### MonitorBlocking (`MCLockMonitor`, 285 thousand states)
Three threads, three locks, each lock destroyed and created again once at the same
address.  `DeadlockIsReported`: a ring of threads that wait for each other is
reported before its last member starts to wait.  `ReportIsInversion`: a report
comes only when two acquisition orders have contradicted each other; the history
variables `order` and `inverted` see the program, not the monitor.
`HeldLocksAreLive` relates the tables to the ids of the graph.  Three threads and locks make rings of
two and three.

### MonitorPrograms (`MCLockMonitor`, 2.6 million states)
Two threads and everything a program may do, right and wrong, with a table of two
entries, so that it overflows.  `HistoryMatchesOwnership` is the core: a thread's
table is what the thread owns.  `InversionIsReported` is the converse of
`ReportIsInversion`.  `ForeignReleaseIsReported`: the release of a lock of somebody
else is reported, also when the lock was destroyed and made anew.
`HoldersAreTimed`: whoever owns a watched lock, or is about to wait for one, has a
start time, or the watchdog would pass over it; the converse is false after a try that
fails (see below).  Explored until
the first report (`NoErrorYet`); one thread announces calls (`OneAnnounces`).
Threads try only with room in the table (`TryingInRoom`), since
`dlc_deadlock_check_before_try_lock` has no test of `MAX_LOCKS_PER_THREAD`: a
successful try with a full table meets `assert(false)` in
`thread_history_helper.cpp:91`, is not recorded, and its release is reported.

### Watchdog (`MCThreadWatchdog`, 483 thousand states)
Two threads, three timer objects (the Windows timer queue allows several to be
pending), a limit of two ticks.  Threads may end while they hold a lock, and take
one in a destructor that runs after they were taken off the list
(`add_threadLate`).  `ListIsExact`: each watched thread is listed once.
`WatchdogAwake`: whenever a thread is listed a timer or a callback is there for it.
`NoSecondReport`: a hold that was picked is not picked again, by any callback.
`LongHoldersAreReported` is liveness: who holds or waits for ever is reported, also
behind others in the list.  Fairness: `WF` of `Tick` (time goes on) and of each
timer's `Callback` (the timer queue runs what is due).  Nothing is assumed of the
threads of the program.  No symmetry here.

### LeaksCareful (`MCLeakMonitor`, 494 thousand states)
Three threads, four addresses, two families and two heaps, two sizes; frees with
the wrong function, of the wrong heap, and twice.  Nothing runs beside a realloc
that erases after the real call; everything else overlaps.  `LeaksAreExact`: at
every address outside a call in progress the map is what the program has not
freed, with family and size.  Explored up to the first wrong free (`NoMisuseYet`).

### LeaksRacing (`MCLeakMonitor`, 899 thousand states)
Two threads, no care, `LocalReAlloc` that fails, and `reset_all` at any time.  What the report names is then
still memory that was not freed; leaks may be missed.

### Patching (`MCImportPatching`, 15 thousand states)
Two libraries, three functions, four modules (the program, a plugin, one that the
options exclude, one of Microsoft), three places.  `ReadyModulesAreMonitored`: when
the init routine of a module runs its imports lead to the monitors, unless a
library it uses has come back at another place, which the code does not handle
(the original of a function is looked up once).  `NothingLeadsToDeletedMonitors`:
after the shutdown no import leads into deleted memory.

### Storage (`MCStorage`, 276 thousand states)
The containers, one in each behaviour with the others at rest.

* The arena: memory for three runs of pages of five units, requests of 2, 3 and 6
  units (one larger than a run), up to three levels.  Blocks are handed out and
  freed in every order with every random level, and runs of pages that touch
  merge.  `BlocksTileTheRegions`: no unit is lost or in two blocks.
  `SkipListIsExact`: the list is the free blocks on each of their levels.
  `WindowsIsAskedOnce`: the search looks only at the level the request has at
  least, and still finds a fit whenever there is one, so the loop around it ends.
* The node set: one inlined element instead of eight, so that it leaves the object
  and moves soon; tables of up to 16 cells and six elements that meet in the same
  cells.  `SearchesEnd`: a probe finds an empty cell before it has gone around,
  whatever deleted cells are left behind.  `RefinesSet`: it answers like a set.
  `BlocksAreOwned`: each block has one vector, through growth and moves.
* The tables of the nodes: three locks, two of them in one bucket, three nodes,
  versions up to 3.  `RefinesGraph`.
* The leak report: two functions with two places each (the code has ten), three
  call stacks of sizes up to 3, four leaks in every order.
  `LargestLeaksAreShown`: the call stacks shown are those of the largest leaks,
  each once, also if one was dropped and comes back larger.

### Launching (`MCLauncher`, 1.4 million states)
Five command lines that start a program (plain, detached, `fail`, `continue` with a log
file, one that logs warnings only) and eleven that are refused, each for another reason.
The start may fail at every step the code tests or catches: the checks before it,
`CreateProcess`, the shared memory and the event after it, `ResumeThread`; then in the
program the attaching library (a message, a box, and Windows refuses the library), the
options that are gone, the log file, the event.  `ReadFile`, `WriteFile` and
`GetExitCodeProcess` may fail, the console may be closed or send Ctrl-C at any time, the
program may crash.  What is left out of this is in section 5.

The program writes up to four units, so that the pipe fills twice, calls what is
monitored or does not, and one thread is inside a monitored call or reports an error
while another exits.  The exit ends it where it is, and the lock it is in stays taken:
the mutex of a log sink (a report may wait in there for room in the pipe), that of the
watchdog's list, a group of the leak map or, in a call that goes through all of it, the
whole map.  `Needed` are the locks `~loader_t` takes, `Stuck` is an exit that meets one
that was left.

`OutputIsComplete`: the launcher's order of wait, look and read loses nothing.
`OptionsAreFound`: the shared memory outlives the start; a program misses its options
only after the launcher has given up, and a library that fails otherwise is told apart
by its reason (`how`).  `ErrorsReachTheCaller`: a leak or a flagged error becomes the
exit code.  `ExitCompletes` is liveness: neither process waits for the other for ever,
with the exception of `Stuck`.  Fairness: `WF` of `Pump`, since each wait of the launcher
has a timeout and it never reads what is not there, and of `AtExit`, the steps of
`~loader_t`, which are enabled only while the pipe has room and no lock of `Needed` was
left behind; nothing else can hold them, as the exiting thread is the only one.  Nothing
is assumed of Windows ending a stuck exit, nor of the program.  No deadlock check: both
processes end, a suspended program is left, or the exit is stuck.

### Disagreements, as runs
* **FalseDeadlock** (`deadlock_monitor.cpp:141`): a recursive lock, released out of
  order and entered again, gives one thread a deadlock report.
* **ReallocRace** (`malloc_monitor.hpp:207`): the old address of a realloc is erased
  after another thread may have got it; the asserts of `add` and `erase` fail, a
  leak goes missing and a free is reported as unknown.
* **ErrorExit** (`deadlock_monitor.cpp:260`): the help says `fail_on_exit` finishes
  with the exit code; the deletion of a held lock and memory errors are logged
  without a flag, and the program finishes with its own code.  The repository's
  tests run with `--on_error=fail` and do not see it.

### Disagreements seen while modelling, outside the runs
* `deadlock_monitor.cpp:226`: a failed try leaves the start time set that the next
  acquisition asserts to be zero (`:122`, `:225`): both asserts fail for a program that
  tries in vain and then locks, and until then the watchdog counts the thread as one
  that waits.
* `malloc_monitor.hpp:628`: `_dupenv_s` of an unset variable enters `nullptr` as a
  leak.  `malloc_monitor.hpp:274`:
  `_recalloc(p, 0, n)` frees, and the entry stays.  `patched_functions.cpp:44`:
  `HeapDestroy` is not patched, its blocks stay in the map.  None of the three is
  among the calls of the model.
* `local_alloc_monitor.cpp:82`: `LocalReAlloc` forgets a block before the call; if it
  fails, the later free is reported as an unknown address (`LocalReallocFails`).
* `getenvironmentvariable_monitor.cpp:65`: the question `get/enabled` raises the
  unlock counter like `set/unlock++`, so the next unlock goes unseen
  (`Runtime_API.md:10` gives that effect to `set/unlock++` alone).
* `graphcycles.cc:491`: a node retired at its last version keeps it, so its old id
  still resolves, against the comment at `:264`.  2^32 removals are out of reach.
* `deadlock_monitor.cpp:211`: a try uses up a `lock++` and is watched all the same.
* `thread_watchdog.cpp:111`: `m_already_logged` is cleared by scans only; a lock
  released and taken again between two scans is not reported a second time.
* `thread_watchdog.cpp:56` and the assert at `one_shot_timer.cpp:81`: the list may
  run empty and fill again while the earlier timer is pending.
* In a program that destroys a lock another thread holds no error is logged; a
  watchdog report of that thread then finds no call stack to print, which
  `build_watchdog_callstack` asserts.
* `low_level_alloc.cc:236`: `UnhookedArena` constructs the global arena anew on every
  call.  The program asks once.  `DeleteArena` (never called) would give merged
  runs of pages back with one `VirtualFree`.
* `command_line_parser.cpp:106` declares `thread_watchdog` an int,
  `options_parser.cpp:142` takes `true` and `false` only: the option is refused
  whatever it is given.  An
  item `a.dll{x}` of `ignore_modules` with a letter nobody knows ignores nothing.
* `options_parser.cpp:174` accepts an `exit_code` of 0.  Its own error text (`:177`), the
  help (`command_line_parser.cpp:90`) and `CommandLineOptions.md:45` say 1..126.  With 0
  a program with errors ends like one without.  The invariant of the options
  (`Admitted`) is what the code lets pass.
* `loader.cpp:177`, `:188`, `:198`, `:205`, `:224`: `~loader_t` takes locks that a thread
  ended by `ExitProcess` may have held.  For the leak map's spinlocks the exit spins for
  ever and the launcher with it; in a lock of its own Windows may end the process, whose
  exit code is then not BugInsight's (`Stuck`, `EndedInExit`).
* `dll_main.cpp:60-68`, `log.cpp:91`, `loader.cpp:79`: a library that fails to start ends
  the program with a code of Windows or 1; `exit_code` does not apply.
* `application_under_test.cpp:125`: a detached start whose program never signals
  returns 0.  `:158`: when the console is broken the launcher leaves its loop and
  returns 259 (`STILL_ACTIVE`) while the program runs on.  When the shared memory, the
  event or `ResumeThread` fails the suspended program is left behind.
* `log_helper.cpp:292`: a report is logged before its flag is set (the watchdog's
  excepted); a program that exits in between finishes with its own code.
* `memory_leak_map_with_callstack.cpp:200`: a leak of zero bytes never gets a place,
  so the report counts it and shows no call stack.

### Deadlock checking, symmetry, constraints
`CHECK_DEADLOCK FALSE` stands in the lock-monitor runs, whose subject is programs
that deadlock, in Patching, where the process ends, and in the runs of the
launcher.  Symmetry is used in runs
of safety properties only.  Each `of`/`as` pair of `PROJECT.json` (`mutants`) is a
plausible bug of the code that the run finds.

## 4. Proofs

TLAPS checks them for every value of the constants.

* **`LockOrderProofs`**: `AlwaysAcyclic`, the promise of the graph is consistent: a
  relation that refuses the edges that close a cycle stays acyclic.
* **`GraphCyclesProofs`**: `IInv == TypeOK /\ CheckInvariants /\ EdgesMirrored /\
  FreshCells`.  `CheckInvariants` is not inductive alone: `RemoveNode` takes edges
  away by walking `in` and `out`, so they must mirror each other, and a new node
  must start empty.  The heart is `Reorder`: it permutes the ranks of the two
  visited sets, every backward node ends below every forward node, and edges to
  the outside keep their direction because the sets are closed within the region.
  `LiveInv` adds `EdgesJoinLiveNodes` for callers that pass usable ids only.
  `Invariance` and what follows from it hold for callers that keep any id.
  `PromiseIsKept` is the refinement: every step of the ranked graph is one of
  `LockOrder` or a stutter.  An edge is refused exactly when it closes a cycle,
  since ranks rise along every path: the forward search meets the upper end iff
  there is a path to it (`HitIsWay`, `NoWay`).  New ids are new since a free node
  carries a version it has not had (`FreeInv`).
* **`LockMonitorProofs`**, for any threads, locks, table size and nesting depth.
  * `TableInv` joins four things no property relates alone: the types, the ids (an
    entry has an id its lock has or had, each once), what a call in progress may rely
    on, and `OwnedIfNoted` (what a table has an entry for its thread owns, with at
    least that count).  It holds with every misuse of `SpecAll`, so
    `ForeignReleaseIsReported` and `PathNodesAreRecorded` follow for all programs.
  * `NotedIfOwned` is the converse and holds until an error is reported; both give
    `HistoryMatchesOwnership`.
  * `LinkInv`: without a report every acquisition order is an edge, and edges have no
    cycle, so `InversionIsReported`.
  * `ReportIsInversion` needs every edge to be an acquisition order or about to be one.
    That is false for recursive locks (run FalseDeadlock), so the theorem assumes
    `MaxDepth = 1`, as the run does: locks that no thread takes twice.
  * `HoldersAreTimed` needs `TimeInv`, which says of each step of a call when the time
    is set: a table that is not empty has one, and a call on its way to a lock has set
    it.  It holds for every program of `SpecAll`, failed tries included.
  * For programs that only block: `HeldLocksAreLive`, since the
    id of a lock in use is not removed; and `DeadlockIsReported`.  A thread that waits
    has acquired what it holds before what it waits for (`ProgramInv`), so a circle of
    waiting threads is a cycle of acquisition orders, which the history flag knows
    (`CycleInverted`) and `InversionIsReported` has reported.  The threads are finitely
    many: in an infinite chain everybody waits and nothing is circular.
* **`WatchdogProofs`**: `WInv` adds to the type three facts about the list (nobody is
  listed twice, the listed are those added and not removed, who is not listed holds
  nothing the watchdog sees) and `PickedIsMarked`: a hold that was picked keeps its
  mark, because its age stays at the limit and a scan forgives only the young and
  the idle.  `ListIsExact` follows by counting: the places map one to one onto the
  listed threads.  The removal that moves the last entry is a lemma on sequences.
* **`LeakMonitorProofs`**.  The properties are silent about addresses inside a call.
  `HandsInv` says who answers for each address, the program or exactly one call, at
  every step of every call.  `EntriesAreReal` says which entries may be wrong: those
  of a call that let the real function free or move the address and has not erased it.
  Both survive everything `SpecResetting` does (`RacingInv`), hence
  `ReportedLeaksAreReal` without any care.  `SoundInv` adds for `SpecCareful` that
  nothing is missing: a late erase finds its entry, and nobody else can have that
  address since it runs alone.  A wrong free of an address no call has is recognised
  by what the map holds (`WrongIsSeen`).  It follows that wrong frees and only those
  are reported, that the map is exact and that no assert fails.  Programs that only
  allocate and free (`SpecFreeing`) have no late erase and need no care.
* **`ImportPatchingProofs`**: `PatchInv` joins where imports stand with
  `ReadyModulesAreMonitored`: matching an import with a function needs its original
  to be the real one, and leading it back needs the import to be the monitor's.
* **`StorageProofs`**, for any sizes, elements, hash functions and requests.
  * The report: `RInv` holds the places of each function against its leaks; that a
    place is empty in both fields or in neither makes the hash say where a call
    stack is.  `LargestShown` follows for every order of the visit.
  * The node set: by `SetInv` an element is in one cell, no cell between its hash and
    that one is empty, and `occupied_` counts the cells that are not, so there is
    always an empty one (`SearchesTerminate`).  That growing keeps this needs the
    table in the middle of a rehash: `NodeSetIsASet`.
  * The pointer map: `MapInv` ranks each chain; a lock is once in the chain of its
    hash, and a free node in none.  `PointerMapIsTheGraphs` is the refinement.
  * Both own one block of the arena as soon as they have left the object
    (`BlocksAreGivenBack`); moving and growing overlap for two blocks, hence the
    assumption that the arena has that many.
  * The allocator: `Listed` says that on every level the head and each block lead to
    the next block that has the level.  Free blocks are at least two units apart, so
    the walk of a search meets all of them (`Walk`).  `Inserted` and `Deleted` keep
    the list for any number of levels.  `AllocInv` adds that the blocks tile the
    pages and that a block has no fewer levels than its size asks for.  Between
    `Insert` and the two calls of `Coalesce` only the block being freed can touch
    another, which is why merging once to each side is enough (`AddedToFreelist`).
    `FewestLevels` never falls with the size (`FewestLevelsGrow`, over the halving
    loop of `IntLog2`), so looking at one level misses no block that fits
    (`FitsAll`): `WindowsAskedOnce`.  `AllocatorKeepsItsPromise` is the refinement.
  * Probing, rehashing, the chains, the walk along a level and `IntLog2` are recursive
    functions.  That they exist, and what they compute, is proved from the smallest
    argument for which it would be false (`SmallestMember`).
* **`LauncherProofs`**: `LauncherInv` is `OutputInv` (each unit written is in the pipe,
  in the buffer or on the console; after a wait that found the program ended one
  read empties the pipe) and `OptionsInv` (while the program has not read its options
  they are in the shared memory, or the launcher has given up), with `ErrorsInv` for the
  flags.  The options need the output first: that a launcher which copied to the end
  had a program that ended is part of it.

Assumptions are the `ASSUME`s of the modules: distinct values, bounds at least one,
`BufferSize >= PipeSize`, numbers that are integers.  Two theorems have one of their
own, named above: `MaxDepth = 1` and finitely many threads.

Left to TLC: liveness (`LongHoldersAreReported`, `ExitCompletes`), which with
fairness and `ENABLED` is out of the prover's reach.  Every other property of a
passing run is proved.  The induction theorems of the library cannot be used, as
they take an operator; recursive functions are reasoned about as above instead, and
`RECURSIVE` operators are not used where something is proved.

## 5. Not modelled

* `FindPath` of `graphcycles.cc`, which only the report uses.
* `check_heap_periodic`; `LMEM_MODIFY` and `GMEM_MODIFY`; two threads that free the
  same address at once (`memory_helper.cpp:34`), of which neither the code nor its
  documents promise anything.
* `buginsight_internal_get_allocated_bytes`: a sum that changes nothing.
* `m_modules_static_runtime` and the loading of symbols, used by the report only;
  the monitor of `GetProcAddress`, which is not installed.
* `DeleteArena` and a second `NewArena`: the program calls neither.  Overflow of a size.
* Failures of `WaitForSingleObject` and `PeekNamedPipe` in the launcher's loop (the code
  logs the second and goes on), and a console that makes `WriteFile` wait.
* `get/enabled` of the runtime API: what it does to the unlock counter is among the
  disagreements above, and no program announces it.
* What `~loader_t` does under the loader lock beyond the locks named in `Needed`, and the
  lines `loader_t` logs at level `trace`.
* File names, wildcards and the regular expressions made of them; the options that
  are not public (`suppress_by_id`, `config_file`).
* Stack traces, symbols, formatting of logs, the thin wrappers of locks and of the
  loader lock: sequential, or they change no state of the monitors.

## 6. Plan

Built, in this order: graph, lock monitor, watchdog, leak monitor, import patching,
allocator; then vectors, node sets and pointer map, options and launcher, the leak
report, and the proofs about the watchdog, the report and the launcher.  What would
come next:

1. `LockMonitor` and `ThreadWatchdog` together: the start times of threads that hold
   several locks, conditions, thread exit; the report that reads another thread's
   table after the scan let go of the list.
2. The searches step by step against the sets they are here; `FindPath`.
3. `check_heap_periodic` beside the calls of other threads.
4. Proofs: the searches of `GraphCycles` as the recursion they are, and the types of
   `LowLevelAlloc` with the sizes of blocks that are gone.
