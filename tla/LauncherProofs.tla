--------------------------- MODULE LauncherProofs ---------------------------
(***************************************************************************)
(* Proofs about Launcher, for every size of the pipe and of the buffer     *)
(* that is no smaller, any command lines and any amount of output: nothing *)
(* the program writes is lost, a program the launcher did not give up on   *)
(* finds its options, and errors reach the caller.  The second needs the   *)
(* first: that a launcher which copied to the end had a program that ended *)
(* is part of it.                                                          *)
(***************************************************************************)
EXTENDS Launcher, TLAPS

Places == {"start", "create", "resume", "event", "wait", "peek", "copy", "code", "broken",
           "ended"}

\* The program before its library has its options, and with them.
Unready == {"attaching", "catch", "message", "reading"}
Ready == {"logger", "signalling", "loading", "running", "exiting", "summarised"}
AppPlaces == {"none", "suspended", "ended"} \cup Unready \cup Ready

\* Why a launcher leaves before the program has ended or has its options.
GivenUp == {"timeout", "broken", "closed"}

(* While the launcher runs, each unit written is in the pipe, in the       *)
(* buffer or on the console; once the wait has found the program ended,    *)
(* one read empties the pipe.                                              *)
OutputInv ==
    /\ pipe \in 0 .. PipeSize /\ chunk \in Nat /\ shown \in Nat /\ written \in Nat
    /\ pc # "ended" => written = shown + chunk + pipe
    /\ pc \notin {"copy", "broken", "ended"} => chunk = 0
    /\ finished => app = "ended"
    /\ pc \in {"copy", "code"} /\ finished => pipe = 0
    /\ pc = "code" => finished
    /\ Finished => shown = written /\ app = "ended"

(* The options are in the shared memory from before the program runs until *)
(* the launcher ends, and the event is set when they have been read.       *)
OptionsInv ==
    /\ pc \in Places /\ app \in AppPlaces
    /\ pc \notin {"start", "ended"} => options # NoOptions
    /\ pc \in {"start", "create"} => app = "none" /\ shared = NoOptions
    /\ pc = "resume" => app = "suspended"
    /\ shared \in {NoOptions, options}
    /\ pc \in {"resume", "event", "wait", "peek", "copy", "code", "broken"} => shared = options
    /\ app_options \in {NoOptions, options}
    /\ app \in {"none", "suspended"} \cup Unready => app_options = NoOptions
    /\ app \in Ready => app_options # NoOptions
    /\ event = "set" => app_options # NoOptions
    /\ how = "unread" => pc = "ended" /\ left \in GivenUp
    /\ app \in Unready /\ pc = "ended" => left \in GivenUp

LauncherInv == OutputInv /\ OptionsInv

(***************************************************************************)
(* Initially.                                                              *)
(***************************************************************************)
LEMMA InvInit ==
    ASSUME LauncherAssumption, Init
    PROVE  LauncherInv
<1>1. OutputInv
  <2>1. ~ finished  BY Zenon DEF Init
  <2>2. pc = "start" /\ pipe = 0 /\ chunk = 0 /\ shown = 0 /\ written = 0  BY DEF Init
  <2> QED  BY <2>1, <2>2 DEF LauncherAssumption, OutputInv, Finished
<1>2. OptionsInv  BY DEF Init, OptionsInv, Places, AppPlaces, Unready, Ready
<1> QED  BY <1>1, <1>2 DEF LauncherInv

(***************************************************************************)
(* The launcher's steps up to its loop.                                    *)
(***************************************************************************)
LEMMA InvStart ==
    ASSUME LauncherAssumption, LauncherInv,
           \/ \E line \in CommandLines : wmain(line)
           \/ StartFails \/ CreateProcess \/ CreateProcessFails \/ ResumeFails \/ ResumeThread
           \/ EventIsSet \/ EventTimeout
    PROVE  LauncherInv'
<1> USE DEF LauncherAssumption, LauncherInv, OutputInv, OptionsInv, Finished, Places, AppPlaces,
            Unready, Ready, GivenUp, launcher, monitors, program, Returns, Ended, Goes
<1>1. ASSUME NEW line \in CommandLines, wmain(line) PROVE LauncherInv'
  <2> DEFINE list == configuration_list(line)
  <2>1. CASE Returns(parse(line).exit_code, "refused") /\ UNCHANGED options
    BY <1>1, <2>1 DEF wmain
  <2>2. CASE Returns(1, "refused") /\ UNCHANGED options
    BY <1>1, <2>2 DEF wmain
  <2>3. CASE /\ options' = user_options(list)
             /\ Goes("create")
             /\ UNCHANGED <<finished, chunk, shown, shared, event, pipe, written, monitors>>
    <3>1. options' # NoOptions  BY <2>3
    <3> HIDE DEF list
    <3> QED  BY <1>1, <2>3, <3>1 DEF wmain
  <2> QED  BY <1>1, <2>1, <2>2, <2>3 DEF wmain
<1>2. CASE StartFails     BY <1>2 DEF StartFails
<1>3. CASE CreateProcess  BY <1>3 DEF CreateProcess
<1>4. CASE CreateProcessFails     BY <1>4 DEF CreateProcessFails
<1>5. CASE ResumeFails    BY <1>5 DEF ResumeFails
<1>6. CASE ResumeThread   BY <1>6 DEF ResumeThread
<1>7. CASE EventIsSet     BY <1>7 DEF EventIsSet
<1>8. CASE EventTimeout   BY <1>8 DEF EventTimeout
<1> QED  BY <1>1, <1>2, <1>3, <1>4, <1>5, <1>6, <1>7, <1>8

(***************************************************************************)
(* The loop.  A read takes all of the pipe, which holds no more than the   *)
(* buffer.                                                                 *)
(***************************************************************************)
LEMMA TakesAll ==
    ASSUME LauncherAssumption, pipe \in 0 .. PipeSize
    PROVE  Taken = pipe /\ pipe \in Nat
  BY DEF LauncherAssumption, Taken

LEMMA InvPump ==
    ASSUME LauncherAssumption, LauncherInv,
           Wait \/ Read \/ Copy \/ CopyFails \/ GetExitCode \/ GetExitCodeFails
    PROVE  LauncherInv'
<1> USE DEF LauncherInv, OutputInv, OptionsInv, Finished, Places, AppPlaces, Unready, Ready,
            GivenUp, launcher, monitors, program, Returns, Ended, Goes, AfterCopy
<1>1. Taken = pipe /\ pipe \in Nat  BY TakesAll
<1>2. CASE Wait         BY <1>2 DEF Wait
<1>3. CASE Read
  <2>1. chunk' = pipe /\ pipe' = 0  BY <1>1, <1>3 DEF Read
  <2> QED  BY <1>1, <1>3, <2>1 DEF Read, LauncherAssumption
<1>4. CASE Copy         BY <1>4 DEF Copy
<1>5. CASE CopyFails    BY <1>5 DEF CopyFails
<1>6. CASE GetExitCode  BY <1>6 DEF GetExitCode, LauncherAssumption
<1>7. CASE GetExitCodeFails  BY <1>7 DEF GetExitCodeFails, LauncherAssumption
<1> QED  BY <1>2, <1>3, <1>4, <1>5, <1>6, <1>7

(***************************************************************************)
(* The program's steps: only its writes concern the output, and only the   *)
(* reading of the options the other part.                                  *)
(***************************************************************************)
LEMMA WritesKeep ==
    ASSUME LauncherAssumption, OutputInv, Writes, UNCHANGED launcher
    PROVE  /\ pipe' \in 0 .. PipeSize /\ written' \in Nat
           /\ pc' # "ended" => written' = shown' + chunk' + pipe'
           /\ pc = "ended" => UNCHANGED <<pipe, written>>
  BY DEF LauncherAssumption, OutputInv, Writes, launcher

(* The program's steps, and the rest of its own once it has its options.   *)
Loading == SetEvent \/ SetEventFails \/ init_logger \/ init_logger_fails \/ Load

Working ==
    \/ Output \/ Crash
    \/ \E lock \in {"list", "group", "table"} : Call(lock)
    \/ \E b \in BOOLEAN : Return(b)
    \/ \E e \in Errors : Report(e)
    \/ LockSink \/ LogError \/ Terminate \/ SetFlag
    \/ \E c \in ExitCodes \cup {ControlExit} : Exit(c)
    \/ Summary \/ Detach \/ EndedInExit

LEMMA InvProgram ==
    ASSUME LauncherAssumption, LauncherInv,
           \/ \E e \in {"ctrl_c", "ctrl_close"} : ConsoleEvent(e)
           \/ Attach \/ AttachFails \/ MessageBox \/ get_user_options
           \/ Loading \/ Working
    PROVE  LauncherInv'
<1> DEFINE Writing == Writes \/ UNCHANGED <<pipe, written>>
<1>w. ASSUME Writing, UNCHANGED launcher, app # "ended"
      PROVE  OutputInv'
  <2>1. ~ finished /\ ~ (Finished)  BY <1>w DEF LauncherInv, OutputInv
  <2>2. CASE Writes
    BY WritesKeep, <1>w, <2>1, <2>2 DEF LauncherInv, OutputInv, Finished, launcher
  <2>3. CASE UNCHANGED <<pipe, written>>
    BY <1>w, <2>1, <2>3 DEF LauncherInv, OutputInv, Finished, launcher
  <2> QED  BY <1>w, <2>2, <2>3
<1>1. ASSUME NEW e \in {"ctrl_c", "ctrl_close"}, ConsoleEvent(e) PROVE LauncherInv'
  BY <1>1 DEF ConsoleEvent, Ended, LauncherInv, OutputInv, OptionsInv, Finished, Places, AppPlaces,
              GivenUp, LauncherAssumption, program, monitors
<1>2. CASE get_user_options
  <2>1. OutputInv'  BY <1>2, <1>w DEF get_user_options, Runs
  <2>2. OptionsInv'
    BY <1>2 DEF get_user_options, Runs, Ends, LauncherInv, OptionsInv, Places, AppPlaces, Unready,
                Ready, launcher
  <2> QED  BY <2>1, <2>2 DEF LauncherInv
<1>3. CASE Attach \/ AttachFails \/ MessageBox
  <2>1. /\ UNCHANGED <<launcher, shared, app_options, event>> /\ Writing
        /\ app \in Unready /\ app' \in Unready \cup {"ended"} /\ how' \in {how, "start"}
    BY <1>3 DEF Attach, AttachFails, MessageBox, Ends, Runs, Unready
  <2>2. OutputInv'  BY <2>1, <1>w DEF Unready
  <2>3. OptionsInv'
    BY <2>1 DEF LauncherInv, OptionsInv, launcher, Places, AppPlaces, Unready, Ready
  <2> QED  BY <2>2, <2>3 DEF LauncherInv
<1>4. ASSUME Loading \/ Working PROVE LauncherInv'
  <2>1. /\ UNCHANGED <<launcher, shared, app_options>>
        /\ app \in Ready /\ app' \in Ready \cup {"ended"}
        /\ how' \in {how, "start", "crash", "error", "exit", "shutdown"}
    BY <1>4 DEF Loading, Working, SetEvent, SetEventFails, init_logger, init_logger_fails, Load,
                Output, Crash, Call, Return, Report, LockSink, LogError, Terminate, SetFlag, Exit,
                Summary, Detach, EndedInExit, Stuck, Ends, Runs, Ready, program
  <2>2. Writing
    BY <1>4 DEF Loading, Working, SetEvent, SetEventFails, init_logger, init_logger_fails, Load,
                Output, Crash, Call, Return, Report, LockSink, LogError, Terminate, SetFlag, Exit,
                Summary, Detach, EndedInExit, Logs
  <2>3. app_options # NoOptions  BY <2>1 DEF LauncherInv, OptionsInv
  <2>4. OutputInv'  BY <1>w, <2>1, <2>2 DEF Ready
  <2>5. OptionsInv'
    BY <2>1, <2>3 DEF LauncherInv, OptionsInv, launcher, Places, AppPlaces, Unready, Ready
  <2> QED  BY <2>4, <2>5 DEF LauncherInv
<1> QED  BY <1>1, <1>2, <1>3, <1>4

(***************************************************************************)
(* LauncherInv is an invariant of the specification.                       *)
(***************************************************************************)
THEOREM LauncherInvariant == Spec => []LauncherInv
<1> USE LauncherAssumption
<1>1. Init => LauncherInv
  BY InvInit
<1>2. LauncherInv /\ [Next]_vars => LauncherInv'
  <2> SUFFICES ASSUME LauncherInv, [Next]_vars PROVE LauncherInv'  OBVIOUS
  <2>1. CASE Next
    BY <2>1, InvStart, InvPump, InvProgram DEF Next, Pump, AtExit, Loading, Working
  <2>2. CASE UNCHANGED vars
    BY <2>2 DEF vars, launcher, program, monitors, LauncherInv, OutputInv, OptionsInv, Finished
  <2> QED  BY <2>1, <2>2
<1> QED  BY <1>1, <1>2, PTL DEF Spec

(* No output is lost: when the launcher has returned the code of a program *)
(* that ended, all it wrote is on the console (start_application_under_    *)
(* test: the wait before the look into the pipe, a buffer as big as it).   *)
THEOREM OutputKept == Spec => []OutputIsComplete
<1>1. LauncherInv => OutputIsComplete
  BY DEF LauncherInv, OutputInv, OutputIsComplete
<1> QED  BY <1>1, LauncherInvariant, PTL

(* The library reads the options the program was started with, and misses  *)
(* them only when the launcher had given the program up                    *)
(* (save_user_options_to_shared_memory before the resume, and SetEvent     *)
(* after get_user_options_from_shared_memory).                             *)
THEOREM OptionsFound == Spec => []OptionsAreFound
<1>1. LauncherInv => OptionsAreFound
  BY DEF LauncherInv, OptionsInv, OptionsAreFound, GivenUp
<1> QED  BY <1>1, LauncherInvariant, PTL

(***************************************************************************)
(* The way of an error to the caller.                                      *)
(***************************************************************************)
OnError == app_options.m_on_error

Noticed ==
    reported \cap Flagged # {} \/ leaks \/ ~ called \/ (reported # {} /\ OnError = "fail")

Early == {"none", "suspended", "logger", "signalling", "loading"} \cup Unready

Due == {"exit", "error"}

(* A completed report, and the watchdog's before it is logged, has set a   *)
(* flag; with on_error=fail the first one completed has ended the program; *)
(* the exit code of a program that got to the end of its exit, or was      *)
(* ended for an error, is the one that is due.                             *)
ErrorsInv ==
    /\ app \in Early => worker.at = "idle" /\ reported = {}
    /\ reported \cap Flagged # {} /\ OnError # "fail" => flags # {}
    /\ worker.at # "idle" /\ worker.error = "watchdog" => flags # {}
    /\ worker.at \in {"idle", "call", "log", "terminate", "flag"}
    /\ worker.at = "terminate" => OnError = "fail"
    /\ worker.at = "flag" => OnError # "fail"
    /\ app # "ended" /\ app \notin Early /\ OnError = "fail" => reported = {}
    /\ app \in {"exiting", "summarised"} => app_code = own
    /\ app # "ended" => how \notin Due
    /\ app = "ended" /\ how \in Due =>
          IF OnError = "continue" THEN app_code = own
          ELSE Noticed => app_code = app_options.m_exit_code
    /\ Finished => code = app_code

LEMMA ErrorsInit == Init => ErrorsInv
<1> SUFFICES ASSUME Init PROVE ErrorsInv  OBVIOUS
<1>1. worker = Idle /\ reported = {} /\ app = "none" /\ pc = "start" /\ how = ""  BY DEF Init
<1> QED  BY <1>1 DEF ErrorsInv, Idle, Early, Due, Finished

(* What leaves the program and its monitors alone leaves ErrorsInv alone.  *)
LEMMA ErrorsElsewhere ==
    ASSUME ErrorsInv, UNCHANGED monitors, UNCHANGED <<app_code, app_options, own, how>>,
           app' = app \/ (app' \in Early /\ app \in Early),
           Finished' => code' = app_code'
    PROVE  ErrorsInv'
<1>1. OnError' = OnError  BY DEF OnError
<1>2. Noticed' = Noticed  BY <1>1 DEF Noticed, monitors
<1> QED  BY <1>1, <1>2 DEF ErrorsInv, monitors, Early, Unready, Due

(* While the library is loading nothing has been reported.                 *)
LEMMA ErrorsLoading ==
    ASSUME LauncherInv, ErrorsInv,
           Attach \/ AttachFails \/ MessageBox \/ get_user_options \/ Loading
    PROVE  ErrorsInv'
<1>1. /\ UNCHANGED monitors /\ UNCHANGED launcher
      /\ app \in Early /\ app' \in Early \cup {"running", "ended"}
      /\ how' \in {how, "start", "unread"}
  BY DEF Attach, AttachFails, MessageBox, get_user_options, Loading, SetEvent, SetEventFails,
         init_logger, init_logger_fails, Load, Ends, Runs, Early, Unready
<1>2. ~ (Finished')
  BY <1>1 DEF LauncherInv, OutputInv, Finished, launcher, Early, Unready
<1>3. how \notin Due /\ worker.at = "idle" /\ reported = {}
  BY <1>1 DEF ErrorsInv, Early, Unready
<1> QED  BY <1>1, <1>2, <1>3 DEF ErrorsInv, monitors, Early, Unready, Due

LEMMA ErrorsProgram ==
    ASSUME LauncherInv, ErrorsInv, Working
    PROVE  ErrorsInv'
<1> USE DEF ErrorsInv, Early, Unready, Due, Idle, Ends, Runs, OnError
<1>0. Finished => app = "ended"  BY DEF LauncherInv, OutputInv
<1>n. app # "ended" /\ UNCHANGED launcher => ~ Finished'  BY <1>0 DEF Finished, launcher
<1>1. CASE Output  BY <1>1, <1>n DEF Output, program, monitors, Noticed
<1>2. CASE Crash   BY <1>2, <1>n DEF Crash
<1>3. ASSUME NEW lock \in {"list", "group", "table"}, Call(lock) PROVE ErrorsInv'
  <2>1. worker'.at = "call" /\ worker'.error = "unflagged"  BY <1>3 DEF Call
  <2> QED  BY <1>3, <1>n, <2>1 DEF Call, program
<1>4. ASSUME NEW b \in BOOLEAN, Return(b) PROVE ErrorsInv'
  BY <1>4, <1>n DEF Return, program
<1>5. ASSUME NEW e \in Errors, Report(e) PROVE ErrorsInv'
  <2>1. worker'.at = "log" /\ worker'.error = e  BY <1>5 DEF Report
  <2> QED  BY <1>5, <1>n, <2>1 DEF Report, program
<1>6. CASE LockSink
  <2>1. worker'.at = worker.at /\ worker'.error = worker.error  BY <1>6 DEF LockSink
  <2> QED  BY <1>6, <1>n, <2>1 DEF LockSink, program
<1>7. CASE LogError
  <2>1. /\ worker'.at = (IF OnError = "fail" THEN "terminate" ELSE "flag")
        /\ worker'.error = worker.error
    BY <1>7 DEF LogError
  <2> QED  BY <1>7, <1>n, <2>1 DEF LogError, program
<1>8. CASE Terminate
  <2>1. /\ app' = "ended" /\ app_code' = app_options'.m_exit_code /\ worker'.at = "idle"
        /\ OnError = "fail" /\ app_options' = app_options /\ ~ Finished'
    BY <1>8, <1>n DEF Terminate
  <2> QED  BY <2>1
<1>9. CASE SetFlag
  <2>1. /\ app' = "running" /\ worker'.at = "idle" /\ OnError # "fail" /\ how' = how
        /\ app = "running" /\ app_options' = app_options /\ ~ Finished'
    BY <1>9, <1>n DEF SetFlag, program
  <2>2. reported' \cap Flagged # {} => flags' # {}
    <3>1. CASE worker.error \in {"deadlock", "other"}
      BY <1>9, <3>1 DEF SetFlag
    <3>2. CASE worker.error = "watchdog"
      BY <1>9, <3>2 DEF SetFlag
    <3>3. CASE worker.error \notin Flagged
      BY <1>9, <2>1, <3>3 DEF SetFlag
    <3> QED  BY <3>1, <3>2, <3>3 DEF Flagged
  <2> QED  BY <2>1, <2>2
<1>10. ASSUME NEW c \in ExitCodes \cup {ControlExit}, Exit(c) PROVE ErrorsInv'
  BY <1>10, <1>n DEF Exit
<1>11. CASE Summary   BY <1>11, <1>n DEF Summary, monitors
<1>12. CASE Detach
  <2>1. /\ app' = "ended" /\ app_options' = app_options /\ own' = own
        /\ app_code = own /\ ~ Finished' /\ UNCHANGED monitors
        /\ app_code' = IF Abort THEN app_options.m_exit_code ELSE app_code
    BY <1>12, <1>n DEF Detach
  <2>2. Noticed => Aborts
    BY <1>12 DEF Noticed, Aborts, Detach
  <2>3. Noticed' = Noticed  BY <2>1 DEF Noticed, monitors
  <2> QED  BY <2>1, <2>2, <2>3 DEF monitors, Abort
<1>13. CASE EndedInExit
  <2>1. app \in {"exiting", "summarised"}  BY <1>13 DEF EndedInExit, Stuck
  <2> QED  BY <1>13, <1>n, <2>1 DEF EndedInExit, monitors
<1> QED
  BY <1>1, <1>2, <1>3, <1>4, <1>5, <1>6, <1>7, <1>8, <1>9, <1>10, <1>11, <1>12, <1>13 DEF Working

LEMMA ErrorsLauncher ==
    ASSUME LauncherInv, ErrorsInv,
           \/ \E line \in CommandLines : wmain(line)
           \/ StartFails \/ CreateProcess \/ CreateProcessFails \/ ResumeFails \/ ResumeThread
           \/ EventIsSet \/ EventTimeout
           \/ Wait \/ Read \/ Copy \/ CopyFails \/ GetExitCode \/ GetExitCodeFails
           \/ \E e \in {"ctrl_c", "ctrl_close"} : ConsoleEvent(e)
    PROVE  ErrorsInv'
<1>1. UNCHANGED monitors /\ UNCHANGED <<app_code, app_options, own, how>>
  BY DEF wmain, StartFails, CreateProcess, CreateProcessFails, ResumeFails, ResumeThread,
         EventIsSet, EventTimeout, Wait, Read, Copy, CopyFails, GetExitCode, GetExitCodeFails,
         ConsoleEvent, Returns, Ended, Goes, program, monitors
<1>2. app' = app \/ (app' \in Early /\ app \in Early)
  BY DEF wmain, StartFails, CreateProcess, CreateProcessFails, ResumeFails, ResumeThread,
         EventIsSet, EventTimeout, Wait, Read, Copy, CopyFails, GetExitCode, GetExitCodeFails,
         ConsoleEvent, program, Early, Unready, LauncherInv, OptionsInv
<1>3. Finished' => code' = app_code'
  <2>1. CASE \E e \in {"ctrl_c", "ctrl_close"} : ConsoleEvent(e)
    BY <2>1 DEF ConsoleEvent, Ended, Finished
  <2>2. CASE EventIsSet \/ EventTimeout \/ GetExitCode \/ GetExitCodeFails
    BY <2>2 DEF EventIsSet, EventTimeout, GetExitCode, GetExitCodeFails, Returns, Ended, program,
                Finished
  <2>3. CASE StartFails \/ CreateProcess \/ CreateProcessFails \/ ResumeFails \/ ResumeThread
             \/ Wait \/ Read \/ Copy \/ CopyFails
    BY <2>3 DEF StartFails, CreateProcess, CreateProcessFails, ResumeFails, ResumeThread, Wait,
                Read, Copy, CopyFails, Returns, Ended, Goes, AfterCopy, Finished
  <2>4. ASSUME NEW line \in CommandLines, wmain(line) PROVE ~ Finished'
    BY <2>4 DEF wmain, Returns, Ended, Goes, Finished
  <2> QED  BY <2>1, <2>2, <2>3, <2>4
<1> QED  BY <1>1, <1>2, <1>3, ErrorsElsewhere

(* A leak, a completed report whose flag is set, or any with on_error=fail *)
(* becomes the exit code the caller of the launcher sees (~loader_t,       *)
(* process_error, GetExitCodeProcess), for a program that got to the end   *)
(* of its exit or was ended for an error.                                  *)
THEOREM ErrorsReported == Spec => []ErrorsReachTheCaller
<1>1. Init => ErrorsInv
  BY ErrorsInit
<1>2. LauncherInv /\ ErrorsInv /\ [Next]_vars => ErrorsInv'
  <2> SUFFICES ASSUME LauncherInv, ErrorsInv, [Next]_vars PROVE ErrorsInv'  OBVIOUS
  <2>1. CASE Next
    BY <2>1, ErrorsProgram, ErrorsLoading, ErrorsLauncher
       DEF Next, Pump, AtExit, Loading, Working
  <2>2. CASE UNCHANGED vars
    BY <2>2, ErrorsElsewhere DEF vars, launcher, program, monitors, ErrorsInv, Finished
  <2> QED  BY <2>1, <2>2
<1>3. LauncherInv /\ ErrorsInv => ErrorsReachTheCaller
  BY DEF LauncherInv, OutputInv, ErrorsInv, ErrorsReachTheCaller, Noticed, OnError, Due, Finished
<1> QED  BY <1>1, <1>2, <1>3, LauncherInvariant, PTL DEF Spec

(***************************************************************************)
(* The types.  That the options are in the ranges of parse_options is a    *)
(* fact about it and parse, for every command line.                        *)
(***************************************************************************)
LEMMA OptionsAreAdmitted ==
    ASSUME NEW line, parse(line).ok, parse_options(configuration_list(line))
    PROVE  Admitted(user_options(configuration_list(line)))
<1> DEFINE list == configuration_list(line)
           o == user_options(list)
           Flag(k, default) == IF k \in DOMAIN list THEN list[k] = "true" ELSE default
           Int_(k, default) == IF k \in DOMAIN list THEN Number[list[k]] ELSE default
<1>1. \A k \in DOMAIN list : Checks(k, list[k])
  BY DEF parse_options
<1>2. \A k \in IntKeys \cap DOMAIN list : Number[list[k]] \in Int
  <2>1. ~ Throws(line)  BY DEF parse
  <2>2. \A k \in IntKeys \cap DOMAIN line : line[k] \in DOMAIN Number  BY <2>1 DEF Throws
  <2>3. \A k \in IntKeys \cap DOMAIN list : k \in DOMAIN line /\ list[k] = line[k]
    BY DEF configuration_list, IntKeys, BoolKeys
  <2> QED  BY <2>2, <2>3, NumberAssumption DEF NumberAssumption
<1>3. /\ o.m_on_error = IF "on_error" \in DOMAIN list THEN list["on_error"] ELSE "fail_on_exit"
      /\ o.m_exit_code = Int_("exit_code", 66)
      /\ o.m_thread_watchdog_max_duration_sec = Int_("thread_watchdog_max_duration_sec", 30)
  BY DEF user_options
<1>4. /\ o.m_start_detached = Flag("start_detached", FALSE)
      /\ o.m_collect_callstacks = Flag("callstacks", TRUE)
      /\ o.m_thread_watchdog_enabled = Flag("thread_watchdog", TRUE)
  BY DEF user_options
<1>s. o.m_log_to_stdout \in BOOLEAN
  <2> DEFINE x == IF "log_to" \in DOMAIN list THEN "stdout" \in list["log_to"] ELSE TRUE
  <2>1. o.m_log_to_stdout = x  BY DEF user_options
  <2>2. x \in BOOLEAN
    <3>1. CASE "log_to" \in DOMAIN list
      <4>1. x <=> "stdout" \in list["log_to"]  BY <3>1, Zenon
      <4> QED  BY <3>1
    <3>2. CASE "log_to" \notin DOMAIN list  BY <3>2
    <3> QED  BY <3>1, <3>2
  <2> QED  BY <2>1, <2>2
<1> HIDE DEF list, o
<1>5. o.m_on_error \in {"continue", "fail", "fail_on_exit"}
  BY <1>1, <1>3 DEF Checks
<1>6. o.m_exit_code \in 0 .. 126
  BY <1>1, <1>2, <1>3 DEF Checks, ExitCode, InRange, IntKeys
<1>7. /\ o.m_thread_watchdog_max_duration_sec >= 2
      /\ o.m_thread_watchdog_max_duration_sec <= 24 * 60 * 60
  BY <1>1, <1>2, <1>3 DEF Checks, InRange, IntKeys
<1>8. /\ o.m_start_detached \in BOOLEAN /\ o.m_collect_callstacks \in BOOLEAN
      /\ o.m_log_to_stdout \in BOOLEAN /\ o.m_thread_watchdog_enabled \in BOOLEAN
  <2>1. o.m_start_detached \in BOOLEAN           BY <1>4
  <2>2. o.m_collect_callstacks \in BOOLEAN       BY <1>4
  <2>3. o.m_log_to_stdout \in BOOLEAN            BY <1>s
  <2>4. o.m_thread_watchdog_enabled \in BOOLEAN  BY <1>4
  <2> QED  BY <2>1, <2>2, <2>3, <2>4
<1>9. Admitted(o)  BY <1>5, <1>6, <1>7, <1>8 DEF Admitted
<1> QED  BY <1>9 DEF o, list

\* The parts of TypeOK that LauncherInv leaves open.
RestTyped ==
    /\ options = NoOptions \/ Admitted(options)
    /\ chunk \in 0 .. BufferSize
    /\ how \in {"", "unread", "start", "error", "crash", "exit", "shutdown"} /\ dead \subseteq Locks
    /\ flags \subseteq {"deadlock", "other"} /\ reported \subseteq Errors
    /\ worker.error \in Errors

LEMMA RestKept ==
    ASSUME LauncherAssumption, LauncherInv, RestTyped, Next
    PROVE  RestTyped'
<1> DEFINE Starting == StartFails \/ CreateProcess \/ CreateProcessFails \/ ResumeFails
                       \/ ResumeThread \/ (\E line \in CommandLines : wmain(line))
           Copying == EventIsSet \/ EventTimeout \/ Wait \/ Read \/ Copy \/ GetExitCode
                      \/ CopyFails \/ GetExitCodeFails
                      \/ (\E e \in {"ctrl_c", "ctrl_close"} : ConsoleEvent(e))
           Attaching == Attach \/ AttachFails \/ MessageBox \/ get_user_options \/ Loading
<1>0. Starting \/ Copying \/ Attaching \/ Working
  BY DEF Next, Pump, AtExit, Loading, Working
<1>1. CASE Starting
  <2>1. UNCHANGED <<chunk, how, dead, monitors>>
    BY <1>1 DEF StartFails, CreateProcess, CreateProcessFails, ResumeFails, ResumeThread, wmain,
                Returns, Ended, Goes, program
  <2>2. options' = options \/ Admitted(options')
    <3>1. ASSUME NEW line \in CommandLines, wmain(line)
          PROVE  options' = options \/ Admitted(options')
      BY <3>1, OptionsAreAdmitted DEF wmain
    <3>2. CASE ~ \E line \in CommandLines : wmain(line)
      BY <1>1, <3>2 DEF StartFails, CreateProcess, CreateProcessFails, ResumeFails, ResumeThread
    <3> QED  BY <3>1, <3>2
  <2> QED  BY <2>1, <2>2 DEF RestTyped, monitors
<1>2. CASE Copying
  <2>1. UNCHANGED <<options, how, dead, monitors>>
    BY <1>2 DEF EventIsSet, EventTimeout, Wait, Read, Copy, GetExitCode, CopyFails,
                GetExitCodeFails, ConsoleEvent, Returns, Ended, program, monitors
  <2>2. chunk' \in {chunk, Taken, 0}
    BY <1>2 DEF EventIsSet, EventTimeout, Wait, Read, Copy, GetExitCode, CopyFails,
                GetExitCodeFails, ConsoleEvent, Returns, Ended
  <2>3. Taken \in 0 .. BufferSize
    BY TakesAll DEF LauncherAssumption, LauncherInv, OutputInv
  <2>4. chunk' \in 0 .. BufferSize
    <3>1. BufferSize \in Nat  BY DEF LauncherAssumption
    <3>2. chunk \in 0 .. BufferSize  BY DEF RestTyped
    <3> QED  BY <2>2, <2>3, <3>1, <3>2
  <2> QED  BY <2>1, <2>4 DEF RestTyped, monitors
<1>3. CASE Attaching
  <2>1. UNCHANGED <<options, chunk, dead, monitors>> /\ how' \in {how, "unread", "start"}
    BY <1>3 DEF Attach, AttachFails, MessageBox, get_user_options, Loading, SetEvent,
                SetEventFails, init_logger, init_logger_fails, Load, Ends, Runs, launcher
  <2> QED  BY <2>1 DEF RestTyped, monitors
<1>4. CASE Working
  <2>1. UNCHANGED <<options, chunk>> /\ how' \in {how, "crash", "error", "exit", "shutdown"}
        /\ dead' \subseteq dead \cup Locks
    BY <1>4 DEF Working, Output, Crash, Call, Return, Report, LockSink, LogError, Terminate,
                SetFlag, Exit, Summary, Detach, EndedInExit, Ends, Runs, launcher, program
  <2>2. /\ flags' \subseteq flags \cup {"deadlock", "other"}
        /\ reported' \subseteq reported \cup {worker.error}
    BY <1>4 DEF Working, Output, Crash, Call, Return, Report, LockSink, LogError, Terminate,
                SetFlag, Exit, Summary, Detach, EndedInExit, monitors
  <2>3. worker'.error \in Errors
    <3>1. CASE worker' \in {worker, Idle}
      <4>1. Idle.error \in Errors  BY DEF Idle, Errors
      <4> QED  BY <3>1, <4>1 DEF RestTyped
    <3>2. ASSUME NEW lock, Call(lock) PROVE worker'.error \in Errors
      BY <3>2 DEF Call, Idle, Errors
    <3>3. ASSUME NEW e \in Errors, Report(e) PROVE worker'.error \in Errors
      BY <3>3 DEF Report, Idle
    <3>4. CASE LockSink \/ LogError
      <4>1. CASE LockSink
        <5>1. worker'.error = worker.error  BY <4>1 DEF LockSink
        <5> QED  BY <5>1 DEF RestTyped
      <4>2. CASE LogError
        <5>1. worker'.error = worker.error  BY <4>2 DEF LogError
        <5> QED  BY <5>1 DEF RestTyped
      <4> QED  BY <3>4, <4>1, <4>2
    <3> QED
      BY <1>4, <3>1, <3>2, <3>3, <3>4
      DEF Working, Output, Crash, Return, Terminate, SetFlag, Exit, Summary, Detach, EndedInExit,
          monitors
  <2> QED  BY <2>1, <2>2, <2>3 DEF RestTyped
<1> QED  BY <1>0, <1>1, <1>2, <1>3, <1>4

(* The variables have their types, and the program is only ever started    *)
(* with options in the ranges parse_options asks for.                      *)
THEOREM TypeCorrect == Spec => []TypeOK
<1> USE LauncherAssumption
<1>1. Init => RestTyped
  <2> SUFFICES ASSUME Init PROVE RestTyped  OBVIOUS
  <2>1. /\ options = NoOptions /\ chunk = 0 /\ flags = {} /\ reported = {}
        /\ how = "" /\ dead = {} /\ worker.error = "unflagged"
    BY DEF Init, Idle
  <2>2. 0 \in 0 .. BufferSize /\ worker.error \in Errors
    <3>1. BufferSize \in Nat  BY DEF LauncherAssumption
    <3>2. worker.error \in Errors  BY <2>1 DEF Errors
    <3> QED  BY <3>1, <3>2
  <2> QED  BY <2>1, <2>2 DEF RestTyped
<1>2. LauncherInv /\ RestTyped /\ [Next]_vars => RestTyped'
  <2> SUFFICES ASSUME LauncherInv, RestTyped, [Next]_vars PROVE RestTyped'  OBVIOUS
  <2>1. CASE Next  BY <2>1, RestKept
  <2>2. CASE UNCHANGED vars  BY <2>2 DEF vars, launcher, program, monitors, RestTyped
  <2> QED  BY <2>1, <2>2
<1>3. LauncherInv /\ RestTyped => TypeOK
  BY DEF LauncherInv, OutputInv, OptionsInv, RestTyped, TypeOK, Places, AppPlaces, Unready, Ready
<1> QED  BY <1>1, <1>2, <1>3, LauncherInvariant, PTL DEF Spec
=============================================================================
