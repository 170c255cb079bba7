------------------------------ MODULE Options ------------------------------
(***************************************************************************)
(* The command line of BugInsight.exe and what is made of it:              *)
(* command_line_parser::parse reads every option with its declared type    *)
(* and lists the given ones as texts, parse_options checks the texts and   *)
(* fills user_options_t.  A command line is a function from the options    *)
(* given to their values.  A value is a text; the comma-separated lists    *)
(* log_to and ignore_modules are sets, an item of the second a record of   *)
(* the module's name, its brackets and the letters inside them.            *)
(***************************************************************************)
EXTENDS Integers

CONSTANTS Number     \* The integers lexical_cast<int> reads, by their texts

NumberAssumption == \A text \in DOMAIN Number : Number[text] \in Int
ASSUME NumberAssumption

TrueTexts == {"true", "yes", "on", "1"}
FalseTexts == {"false", "no", "off", "0"}

BoolKeys == {"callstacks", "start_detached"}
IntKeys == {"thread_watchdog", "thread_watchdog_max_duration_sec", "exit_code"}
TextKeys == {"on_error", "ignore_modules", "log_to", "log_to_debug_out", "log_level"}

\* Informs and stops: --version, --help, or no application to start.
Informs(line) ==
    \/ DOMAIN line \cap {"version", "help"} # {}
    \/ "application_with_parameter" \notin DOMAIN line

\* An option that is not declared, or a value not of the declared type.
Throws(line) ==
    \/ ~ DOMAIN line \subseteq BoolKeys \cup IntKeys \cup TextKeys
                          \cup {"version", "help", "application_with_parameter"}
    \/ \E k \in DOMAIN line \cap BoolKeys : line[k] \notin TrueTexts \cup FalseTexts
    \/ \E k \in DOMAIN line \cap IntKeys : line[k] \notin DOMAIN Number

\* The configuration list: the options given, a bool written out as true or
\* false and an int as its number.
configuration_list(line) ==
    [k \in DOMAIN line \cap (BoolKeys \cup IntKeys \cup TextKeys) |->
        IF k \in BoolKeys THEN IF line[k] \in TrueTexts THEN "true" ELSE "false"
                          ELSE line[k]]

Letters(item) == IF item.bracket = "none" THEN {"l", "m"} ELSE item.letters

\* An item of ignore_modules: both brackets and something inside, or none.
parse_to_blacklist_info(item) == item.bracket \in {"none", "filled"}

InRange(text, low, high) == Number[text] >= low /\ Number[text] <= high

\* The help and the error text say 1 to 126.  Mutant: ends one too far.
ExitCodeUpTo127(text) == InRange(text, 0, 127)

ExitCode(text) == InRange(text, 0, 126)

\* The check of one option.
Checks(k, v) ==
    /\ k = "on_error" => v \in {"continue", "fail", "fail_on_exit"}
    /\ k = "log_to_debug_out" => v \in {"enabled", "disabled", "debugger"}
    /\ k = "log_level" =>
          v \in {"trace", "debug", "info", "warn", "error", "fatal", "off"}
    /\ k = "thread_watchdog_max_duration_sec" => InRange(v, 2, 24 * 60 * 60)
    /\ k = "exit_code" => ExitCode(v)
    /\ k \in {"thread_watchdog", "callstacks", "start_detached"} => v \in {"true", "false"}
    /\ k \in {"log_to", "ignore_modules"} => v # {}
    /\ k = "ignore_modules" => \A item \in v : parse_to_blacklist_info(item)

\* user_options_t after parse_options; what is not given keeps its default.
\* Of several files the last is the log file: m_log_to_file is who it may be.
user_options(list) ==
    LET Given(k, read(_), default) == IF k \in DOMAIN list THEN read(list[k]) ELSE default
        Is(v) == v = "true"
        Text(v) == v
        Ignoring(letter) == Given("ignore_modules",
                                  LAMBDA v : {i.name : i \in {j \in v : letter \in Letters(j)}}, {})
    IN  [ m_on_error |-> Given("on_error", Text, "fail_on_exit"),
          m_exit_code |-> Given("exit_code", LAMBDA v : Number[v], 66),
          m_start_detached |-> Given("start_detached", Is, FALSE),
          m_thread_watchdog_enabled |-> Given("thread_watchdog", Is, TRUE),
          m_thread_watchdog_max_duration_sec |->
              Given("thread_watchdog_max_duration_sec", LAMBDA v : Number[v], 30),
          m_collect_callstacks |-> Given("callstacks", Is, TRUE),
          m_log_to_stdout |-> Given("log_to", LAMBDA v : "stdout" \in v, TRUE),
          m_log_to_file |-> Given("log_to", LAMBDA v : v \ {"stdout"}, {}),
          m_log_level |-> Given("log_level", Text, "info"),
          m_log_to_debug_out |-> Given("log_to_debug_out", Text, "debugger"),
          m_blacklist_modules_deadlocks |-> Ignoring("l"),
          m_blacklist_modules_memory_leaks |-> Ignoring("m") ]

\* parse: whether to go on, and the exit code when not.
parse(line) ==
    [ok |-> ~ Throws(line) /\ ~ Informs(line), exit_code |-> IF Throws(line) THEN 1 ELSE 0]

parse_options(list) == \A k \in DOMAIN list : Checks(k, list[k])

\* What parse_options lets pass, and the defaults.
Admitted(o) ==
    /\ o.m_on_error \in {"continue", "fail", "fail_on_exit"}
    /\ o.m_exit_code \in 0 .. 126
    /\ o.m_thread_watchdog_max_duration_sec >= 2
    /\ o.m_thread_watchdog_max_duration_sec <= 24 * 60 * 60
    /\ o.m_start_detached \in BOOLEAN /\ o.m_collect_callstacks \in BOOLEAN
    /\ o.m_log_to_stdout \in BOOLEAN /\ o.m_thread_watchdog_enabled \in BOOLEAN
=============================================================================
