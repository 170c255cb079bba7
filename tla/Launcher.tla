------------------------------ MODULE Launcher ------------------------------
(***************************************************************************)
(* BugInsight.exe and the program it starts.  The launcher                 *)
(* (start_application_under_test) creates the program suspended, leaves    *)
(* the options in shared memory and resumes it; it then copies the         *)
(* program's output from a pipe to its console until the program has       *)
(* ended and returns the program's exit code, or, for a detached start,    *)
(* waits for the program's event.  In the program the library reads the    *)
(* options (loader_t's constructor), its monitors report errors            *)
(* (process_error), and at the exit ~loader_t decides the exit code.       *)
(* Windows ends the other threads before that, and a lock one of them      *)
(* holds stays taken.  Output is counted in units; PipeSize of them fit in *)
(* the pipe.                                                               *)
(***************************************************************************)
EXTENDS Options

CONSTANTS CommandLines,  \* The command lines BugInsight.exe is started with
          ExitCodes,     \* The codes the program itself exits with
          PipeSize,      \* What the pipe holds
          BufferSize,    \* What one ReadFile takes: chBuf
          MaxOutput,     \* Bound on the program's own output
          NoOptions      \* No shared memory, or nothing read from it

LauncherAssumption ==
    /\ PipeSize \in Nat \ {0} /\ BufferSize \in Nat /\ MaxOutput \in Nat
    /\ BufferSize >= PipeSize
    /\ \A line \in CommandLines : user_options(configuration_list(line)) # NoOptions
ASSUME LauncherAssumption

StillActive == 259            \* STILL_ACTIVE
Crashed == -1073741819        \* The code of a program that crashed
ControlExit == -1073741510    \* The code of a program ended from the console
InitFailed == -1073741502     \* ... of one whose library refused to load
Terminating == -1073741749    \* ... of one that waits in its exit for a thread that is gone

(* The errors the monitors report.  The first three also set a flag of     *)
(* deadlock_monitor_t; the watchdog's does so before it is logged.         *)
Flagged == {"deadlock", "other", "watchdog"}
Errors == Flagged \cup {"unflagged"}

\* What a thread may be holding when another one exits: the mutex of the log's
\* sinks, that of the watchdog's list, a group of the leak map, or all of it.
Locks == {"sink", "list", "group", "table"}

\* Those that are locks of Windows; the leak map's are spinlocks.
WindowsLocks == {"sink", "list"}

VARIABLES
    pc,           \* Where the launcher is
    code,         \* What it returned
    left,         \* Why it returned (history)
    options,      \* g_user_options of the launcher
    finished,     \* The wait found the program ended: ret # WAIT_TIMEOUT
    chunk,        \* chBuf: read and not yet written to the console
    shown,        \* Written to the console
    shared,       \* The options in the shared memory
    event,        \* g_detached_event
    app,          \* Where the program is
    app_code,     \* Its exit code
    app_options,  \* g_user_options of the library
    how,          \* How it ended (history)
    dead,         \* The locks held by the threads its exit ended
    console,      \* An event of the console waits for it
    pipe,         \* The output in the pipe
    written,      \* The output the program has written (history)
    flags,        \* The flags of deadlock_monitor_t that are set
    leaks,        \* leak_count() > 0
    called,       \* g_monitored_api_calls > 0
    worker,       \* The report a thread is in
    reported,     \* The reports completed (history)
    own           \* The code the program exited with (history)

launcher == <<pc, code, left, options, finished, chunk, shown>>
monitors == <<flags, leaks, called, worker, reported>>
program == <<app, app_code, app_options, own, how, dead>>
vars == <<launcher, shared, event, program, console, pipe, written, monitors>>

Idle == [at |-> "idle", error |-> "unflagged", holds |-> "none"]

Init ==
    /\ pc = "start" /\ code = 0 /\ left = "" /\ options = NoOptions
    /\ finished = FALSE /\ chunk = 0 /\ shown = 0
    /\ shared = NoOptions /\ event = "none"
    /\ app = "none" /\ app_code = StillActive /\ app_options = NoOptions
    /\ own = 0 /\ how = "" /\ dead = {} /\ console = FALSE
    /\ pipe = 0 /\ written = 0
    /\ flags = {} /\ leaks = FALSE /\ called = FALSE
    /\ worker = Idle /\ reported = {}

Detached == options.m_start_detached

(***************************************************************************)
(* The launcher.  When it ends, the shared memory goes with its last       *)
(* handle, and the reading end of the pipe with what is in it.             *)
(***************************************************************************)
Ended(c, why) ==
    /\ pc' = "ended" /\ code' = c /\ left' = why
    /\ shared' = NoOptions /\ pipe' = 0
    /\ UNCHANGED <<finished, chunk, shown, written, monitors>>

Returns(c, why) == Ended(c, why) /\ UNCHANGED <<event, console>>

Goes(to) ==
    /\ pc' = to
    /\ UNCHANGED <<code, left, console>>

\* wmain up to start_application_under_test.
wmain(line) ==
    /\ pc = "start"
    /\ LET list == configuration_list(line)
       IN  \/ ~ parse(line).ok /\ Returns(parse(line).exit_code, "refused")
              /\ UNCHANGED options
           \/ parse(line).ok /\ ~ parse_options(list) /\ Returns(1, "refused")
              /\ UNCHANGED options
           \/ /\ parse(line).ok /\ parse_options(list)
              /\ options' = user_options(list)
              /\ Goes("create")
              /\ UNCHANGED <<finished, chunk, shown, shared, event, pipe, written, monitors>>
    /\ UNCHANGED program

\* The library is missing (pre_checks), or no pipe or process can be made.
StartFails ==
    /\ pc \in {"start", "create"}
    /\ Returns(1, "failed")
    /\ UNCHANGED <<options, program>>

\* CreateProcessW, then the rest of detour_create_process_routinew.
CreateProcess ==
    /\ pc = "create"
    /\ app' = "suspended"
    /\ shared' = options
    /\ event' = IF Detached THEN "created" ELSE event
    /\ Goes("resume")
    /\ UNCHANGED <<options, finished, chunk, shown, app_code, app_options, own, how, dead,
                   pipe, written, monitors>>

\* The rest of it fails: the shared memory throws (wmain's catch), or the
\* event cannot be created.  The suspended program is left behind.
CreateProcessFails ==
    /\ pc = "create"
    /\ app' = "suspended"
    /\ Returns(1, "failed")
    /\ UNCHANGED <<options, app_code, app_options, own, how, dead>>

ResumeFails ==
    /\ pc = "resume"
    /\ Returns(1, "failed")
    /\ UNCHANGED <<options, program>>

ResumeThread ==
    /\ pc = "resume"
    /\ app' = "attaching"
    /\ Goes(IF Detached THEN "event" ELSE "wait")
    /\ UNCHANGED <<options, finished, chunk, shown, shared, event, app_code,
                   app_options, own, how, dead, pipe, written, monitors>>

\* The wait for g_detached_event; a timeout is logged and returns 0 as well.
EventIsSet ==
    /\ pc = "event" /\ event = "set"
    /\ Returns(0, "detached")
    /\ UNCHANGED <<options, program>>

EventTimeout ==
    /\ pc = "event"
    /\ Returns(0, "timeout")
    /\ UNCHANGED <<options, program>>

\* WaitForSingleObject(pi.hProcess, 100).  Mutant: waits without a timeout.
WaitWithoutTimeout ==
    /\ pc = "wait" /\ app = "ended"
    /\ finished' = TRUE
    /\ Goes("peek")
    /\ UNCHANGED <<options, chunk, shown, shared, event, program, pipe, written, monitors>>

Wait ==
    /\ pc = "wait"
    /\ finished' = (app = "ended")
    /\ Goes("peek")
    /\ UNCHANGED <<options, chunk, shown, shared, event, program, pipe, written, monitors>>

\* What PeekNamedPipe and ReadFile take.  Mutant: nothing after the end.
TakenWhileRunning == IF finished THEN 0 ELSE pipe

Taken == IF pipe < BufferSize THEN pipe ELSE BufferSize

AfterCopy == IF finished THEN "code" ELSE "wait"

\* The look into the pipe and, if there is something, the read.
Read ==
    /\ pc = "peek"
    /\ chunk' = Taken
    /\ pipe' = pipe - Taken
    /\ Goes(IF Taken > 0 THEN "copy" ELSE AfterCopy)
    /\ UNCHANGED <<options, finished, shown, shared, event, program, written, monitors>>

Copy ==
    /\ pc = "copy"
    /\ shown' = shown + chunk
    /\ chunk' = 0
    /\ Goes(AfterCopy)
    /\ UNCHANGED <<options, finished, shared, event, program, pipe, written, monitors>>

\* ReadFile fails, or WriteFile: the console, or the file it was sent to, is gone.
CopyFails ==
    /\ pc = "copy" \/ (pc = "peek" /\ pipe > 0)
    /\ Goes("broken")
    /\ UNCHANGED <<options, finished, chunk, shown, shared, event, program, pipe,
                   written, monitors>>

GetExitCode ==
    /\ pc \in {"code", "broken"}
    /\ Returns(app_code, IF pc = "code" THEN "finished" ELSE "broken")
    /\ UNCHANGED <<options, program>>

GetExitCodeFails ==
    /\ pc \in {"code", "broken"}
    /\ Returns(1, "broken")
    /\ UNCHANGED <<options, program>>

\* TRUE: Ctrl-C is left to the program.
CtrlHandler(e) == e = "ctrl_c"

\* A key or the close box of the console, which an attached program shares.
ConsoleEvent(e) ==
    /\ pc # "ended"
    /\ console' = (console \/ (app \notin {"none", "ended"} /\ ~ Detached))
    /\ IF CtrlHandler(e)
       THEN UNCHANGED <<pc, code, left, finished, chunk, shown, shared, pipe, written, monitors>>
       ELSE Ended(ControlExit, "closed")
    /\ UNCHANGED <<options, event, program>>

(***************************************************************************)
(* The program.                                                            *)
(***************************************************************************)
\* One unit to the standard output: nowhere in a detached program, refused
\* once the launcher is gone, and waiting while the pipe is full.
Writes ==
    IF Detached \/ pc = "ended"
    THEN UNCHANGED <<pipe, written>>
    ELSE /\ pipe < PipeSize
         /\ pipe' = pipe + 1
         /\ written' = written + 1

\* What the program and its library do leaves the launcher alone.
Runs == UNCHANGED <<launcher, shared, console>>

\* should_log: the level asked for is the given one or below it.
ShouldLog(level) ==
    app_options.m_log_level \in {"trace", "debug", "info"} \cup
        (CASE level = "info" -> {}
           [] level = "warn" -> {"warn"}
           [] level = "err" -> {"warn", "error"}
           [] level = "critical" -> {"warn", "error", "fatal"})

\* LOG(level, ...) goes through a sink, and so through its mutex.
InSink(level) ==
    /\ ShouldLog(level)
    /\ \/ app_options.m_log_to_stdout \/ app_options.m_log_to_file # {}
       \/ app_options.m_log_to_debug_out = "enabled"

Logs(level) ==
    IF ShouldLog(level) /\ app_options.m_log_to_stdout
    THEN Writes
    ELSE UNCHANGED <<pipe, written>>

Ends(c, why) == app' = "ended" /\ app_code' = c /\ how' = why

\* DllEntryPoint prints before anything is read.  Mutant: the event is set.
AttachSignals ==
    /\ app = "attaching"
    /\ Writes
    /\ app' \in {"reading", "catch"}
    /\ event' = IF Detached THEN "set" ELSE event
    /\ Runs /\ UNCHANGED <<app_code, app_options, own, how, dead, monitors>>

Attach ==
    /\ app = "attaching"
    /\ Writes
    /\ app' \in {"reading", "catch"}
    /\ Runs /\ UNCHANGED <<event, app_code, app_options, own, how, dead, monitors>>

\* dll_process_attach has thrown: the text is printed, and a message box
\* waits for the user; then the library refuses to load.
AttachFails ==
    /\ app = "catch"
    /\ Writes
    /\ app' = "message"
    /\ Runs /\ UNCHANGED <<event, app_code, app_options, own, how, dead, monitors>>

MessageBox ==
    /\ app = "message"
    /\ Ends(InitFailed, "start")
    /\ Runs /\ UNCHANGED <<event, app_options, own, dead, pipe, written, monitors>>

\* get_user_options_from_shared_memory; open_only throws out of the
\* constructor of a global when there is none.
get_user_options ==
    /\ app = "reading"
    /\ IF shared = NoOptions
       THEN Ends(Crashed, "unread") /\ UNCHANGED app_options
       ELSE /\ app_options' = shared
            /\ app' = "logger"
            /\ UNCHANGED <<app_code, how>>
    /\ Runs /\ UNCHANGED <<event, own, dead, pipe, written, monitors>>

init_logger ==
    /\ app = "logger"
    /\ app' = IF app_options.m_start_detached THEN "signalling" ELSE "loading"
    /\ Runs /\ UNCHANGED <<event, app_code, app_options, own, how, dead, pipe, written, monitors>>

\* The log file cannot be opened.
init_logger_fails ==
    /\ app = "logger" /\ app_options.m_log_to_file # {}
    /\ Writes
    /\ Ends(1, "start")
    /\ Runs /\ UNCHANGED <<event, app_options, own, dead, monitors>>

SetEvent ==
    /\ app = "signalling"
    /\ event' = "set"
    /\ app' = "loading"
    /\ Runs /\ UNCHANGED <<app_code, app_options, own, how, dead, pipe, written, monitors>>

\* The event can be neither created nor opened, or not set.
SetEventFails ==
    /\ app = "signalling"
    /\ Logs("critical")
    /\ Ends(1, "start")
    /\ Runs /\ UNCHANGED <<event, app_options, own, dead, monitors>>

\* The rest of the constructor: the monitors, the patching, the options logged.
Load ==
    /\ app = "loading"
    /\ Logs("info")
    /\ app' = "running"
    /\ Runs /\ UNCHANGED <<event, app_code, app_options, own, how, dead, monitors>>

Output ==
    /\ app = "running" /\ written < MaxOutput
    /\ Writes
    /\ Runs /\ UNCHANGED <<event, program, monitors>>

\* A monitored call, inside one of the locks its monitor takes ...
Call(lock) ==
    /\ app = "running" /\ worker = Idle
    /\ lock = "list" => app_options.m_thread_watchdog_enabled
    /\ worker' = [Idle EXCEPT !.at = "call", !.holds = lock]
    /\ called' = TRUE
    /\ Runs /\ UNCHANGED <<event, program, pipe, written, flags, leaks, reported>>

\* ... and its end, after which memory is, or is no longer, leaked.
Return(leaking) ==
    /\ app = "running" /\ worker.at = "call"
    /\ worker.holds = "list" => leaking = leaks
    /\ worker' = Idle
    /\ leaks' = leaking
    /\ Runs /\ UNCHANGED <<event, program, pipe, written, flags, called, reported>>

\* A monitor finds an error (bound: one report of each kind).
Report(e) ==
    /\ app = "running" /\ worker = Idle /\ e \notin reported
    /\ worker' = [Idle EXCEPT !.at = "log", !.error = e]
    /\ called' = TRUE
    /\ flags' = IF e = "watchdog" THEN flags \cup {"other"} ELSE flags
    /\ Runs /\ UNCHANGED <<event, program, pipe, written, leaks, reported>>

\* The level process_error logs at: the text, then that the process ends.
Level == IF worker.at = "log" THEN "info" ELSE "err"

LockSink ==
    /\ app = "running" /\ worker.at \in {"log", "terminate"} /\ worker.holds = "none"
    /\ InSink(Level)
    /\ worker' = [worker EXCEPT !.holds = "sink"]
    /\ Runs /\ UNCHANGED <<event, program, pipe, written, flags, leaks, called, reported>>

\* process_error: the text is logged; with on_error=fail the process ends.
LogError ==
    /\ app = "running" /\ worker.at = "log"
    /\ InSink(Level) => worker.holds = "sink"
    /\ Logs(Level)
    /\ worker' = [worker EXCEPT !.at = IF app_options.m_on_error = "fail"
                                       THEN "terminate" ELSE "flag",
                                !.holds = "none"]
    /\ Runs /\ UNCHANGED <<event, program, flags, leaks, called, reported>>

Terminate ==
    /\ app = "running" /\ worker.at = "terminate"
    /\ InSink(Level) => worker.holds = "sink"
    /\ Logs(Level)
    /\ Ends(app_options.m_exit_code, "error")
    /\ worker' = Idle
    /\ reported' = reported \cup {worker.error}
    /\ Runs /\ UNCHANGED <<event, app_options, own, dead, flags, leaks, called>>

\* The caller of process_error sets its flag, if it has one.
SetFlag ==
    /\ app = "running" /\ worker.at = "flag"
    /\ flags' = flags \cup (IF worker.error \in {"deadlock", "other"}
                            THEN {worker.error} ELSE {})
    /\ worker' = Idle
    /\ reported' = reported \cup {worker.error}
    /\ Runs /\ UNCHANGED <<event, program, pipe, written, leaks, called>>

\* ExitProcess ends the other threads where they are, in a report half made
\* or inside a lock.  The list's lock is of no consequence if the exiting
\* thread has no table (~on_thread_delete_t).
Exit(c) ==
    /\ app = "running"
    /\ c = ControlExit => console
    /\ app' = "exiting" /\ app_code' = c /\ own' = c
    /\ \/ dead' = {worker.holds} \cap Locks
       \/ dead' = {} /\ worker.holds = "list"
    /\ worker' = Idle
    /\ Runs /\ UNCHANGED <<event, app_options, how, pipe, written, flags, leaks, called, reported>>

Crash ==
    /\ app = "running"
    /\ Ends(Crashed, "crash")
    /\ worker' = Idle
    /\ Runs /\ UNCHANGED <<event, app_options, own, dead, pipe, written, flags, leaks,
                           called, reported>>

\* Mutant: the errors other than deadlocks are forgotten.
AbortsForDeadlocks == "deadlock" \in flags \/ leaks \/ ~ called

Aborts == flags # {} \/ leaks \/ ~ called

Abort == Aborts /\ app_options.m_on_error # "continue"

\* That there are leaks, but no call stacks of them, is a warning.
SummaryLevel == IF leaks /\ ~ app_options.m_collect_callstacks THEN "warn" ELSE "info"

\* The locks ~loader_t takes: leak_count goes through the whole map,
\* group_leaks2 through every group, and what is logged through the sinks.
Needed ==
    LET Sink(level) == IF InSink(level) THEN {"sink"} ELSE {}
    IN  IF app = "exiting"
        THEN {"list", "table"} \cup (IF leaks THEN {"group"} ELSE {}) \cup Sink(SummaryLevel)
        ELSE IF Abort THEN Sink("err") ELSE {}

\* ~loader_t: the summary, then the exit code.
Summary ==
    /\ app = "exiting" /\ Needed \cap dead = {}
    /\ Logs(SummaryLevel)
    /\ app' = "summarised"
    /\ Runs /\ UNCHANGED <<event, app_code, app_options, own, how, dead, monitors>>

Detach ==
    /\ app = "summarised" /\ Needed \cap dead = {}
    /\ IF Abort THEN Logs("err") ELSE UNCHANGED <<pipe, written>>
    /\ Ends(IF Abort THEN app_options.m_exit_code ELSE app_code, "exit")
    /\ Runs /\ UNCHANGED <<event, app_options, own, dead, monitors>>

\* The exit waits for a lock of a thread it ended.
Stuck == app \in {"exiting", "summarised"} /\ Needed \cap dead # {}

\* Windows may end a process that waits so, instead of leaving it waiting.
EndedInExit ==
    /\ Stuck /\ Needed \cap dead \cap WindowsLocks # {}
    /\ Ends(Terminating, "shutdown")
    /\ Runs /\ UNCHANGED <<event, app_options, own, dead, pipe, written, monitors>>

(***************************************************************************)
Pump == EventIsSet \/ EventTimeout \/ Wait \/ Read \/ Copy \/ GetExitCode

AtExit == Summary \/ Detach

Next ==
    \/ \E line \in CommandLines : wmain(line)
    \/ StartFails \/ CreateProcess \/ CreateProcessFails \/ ResumeFails \/ ResumeThread
    \/ Pump \/ CopyFails \/ GetExitCodeFails
    \/ \E e \in {"ctrl_c", "ctrl_close"} : ConsoleEvent(e)
    \/ Attach \/ AttachFails \/ MessageBox
    \/ get_user_options \/ init_logger \/ init_logger_fails \/ SetEvent \/ SetEventFails \/ Load
    \/ Output \/ Crash
    \/ \E lock \in {"list", "group", "table"} : Call(lock)
    \/ \E b \in BOOLEAN : Return(b)
    \/ \E e \in Errors : Report(e)
    \/ LockSink \/ LogError \/ Terminate \/ SetFlag
    \/ \E c \in ExitCodes \cup {ControlExit} : Exit(c)
    \/ AtExit \/ EndedInExit

\* The launcher's loop never waits for the program for ever: each wait has
\* a timeout and nothing is read that is not there.  ~loader_t runs on when
\* the pipe and the locks of Needed let it.
Spec == Init /\ [][Next]_vars /\ WF_vars(Pump) /\ WF_vars(AtExit)

-----------------------------------------------------------------------------
\* The launcher copied everything and returned the program's code.
Finished == pc = "ended" /\ left = "finished"

\* The variables have their types; a start is only made with options in the
\* ranges parse_options asks for, whatever the command line said.
TypeOK ==
    /\ pc \in {"start", "create", "resume", "event", "wait", "peek", "copy", "code",
              "broken", "ended"}
    /\ options = NoOptions \/ Admitted(options)
    /\ chunk \in 0 .. BufferSize /\ pipe \in 0 .. PipeSize
    /\ app \in {"none", "suspended", "attaching", "catch", "message", "reading", "logger",
               "signalling", "loading", "running", "exiting", "summarised", "ended"}
    /\ how \in {"", "unread", "start", "error", "crash", "exit", "shutdown"}
    /\ flags \subseteq {"deadlock", "other"} /\ reported \subseteq Errors /\ dead \subseteq Locks

\* No output is lost: when the launcher returns the code of a program that
\* has ended, all the program wrote is on the console.  The wait comes
\* before the look into the pipe, and one read takes a full pipe.
OutputIsComplete == Finished => shown = written /\ app = "ended"

\* What the library reads are the options the program was started with, and
\* it misses them only when the launcher had given up on the program before
\* (the event's timeout, a broken console, a closed one): the shared memory
\* lives until they are read.
OptionsAreFound ==
    /\ app_options # NoOptions => app_options = options
    /\ how = "unread" => pc = "ended" /\ left \in {"timeout", "broken", "closed"}

\* A leak, or an error whose report was completed with its flag, turns into
\* the exit code the launcher's caller sees (with on_error=fail any error
\* does), or is ignored if so asked: through ~loader_t and the launcher, for
\* a program that got to the end of its exit or was ended for an error.
ErrorsReachTheCaller ==
    Finished /\ how \in {"exit", "error"} =>
        IF app_options.m_on_error = "continue" THEN code = own
        ELSE reported \cap Flagged # {} \/ leaks \/ ~ called
             \/ (reported # {} /\ app_options.m_on_error = "fail")
                 => code = app_options.m_exit_code

\* CommandLineOptions.md: with fail_on_exit a program with errors finishes
\* with the exit code.  Memory errors and the deletion of a held lock are
\* reported without a flag, and the program finishes with its own code.
ReportedErrorsFailTheRun ==
    Finished /\ how = "exit" /\ options.m_on_error = "fail_on_exit" /\ reported # {}
        => code = options.m_exit_code

\* A program that exits gets to its end, though it may write when the pipe
\* is full, unless a thread it ended took a lock of ~loader_t with it; and
\* however a program ended the launcher then returns: neither waits for the
\* other (WaitForSingleObject with a timeout, PeekNamedPipe).
ExitCompletes ==
    (app \in {"exiting", "ended"} /\ pc # "ended") ~> ((app = "ended" /\ pc = "ended") \/ Stuck)
=============================================================================
