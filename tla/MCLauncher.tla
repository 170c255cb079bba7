----------------------------- MODULE MCLauncher -----------------------------
(* Instances of Launcher for TLC: command lines that differ in what the    *)
(* program does, and one for each way to be refused.                       *)
EXTENDS Launcher, TLC

Numbers == ("-1" :> -1) @@ ("0" :> 0) @@ ("1" :> 1) @@ ("2" :> 2) @@ ("3" :> 3)
           @@ ("126" :> 126) @@ ("127" :> 127) @@ ("86401" :> 86401)

Starts == "application_with_parameter" :> "app.exe"

Module(name, bracket, letters) == [name |-> name, bracket |-> bracket, letters |-> letters]

Accepted ==
    { Starts,
      Starts @@ ("start_detached" :> "yes") @@ ("exit_code" :> "126"),
      Starts @@ ("on_error" :> "fail") @@ ("exit_code" :> "3")
             @@ ("thread_watchdog_max_duration_sec" :> "2"),
      Starts @@ ("log_level" :> "warn") @@ ("exit_code" :> "0") @@ ("callstacks" :> "no"),
      Starts @@ ("on_error" :> "continue") @@ ("log_to" :> {"out.txt"})
             @@ ("ignore_modules" :> {Module("a.dll", "filled", {"m"}), Module("b.dll", "none", {})}) }

Refused ==
    { ("help" :> ""), Starts @@ ("verbose" :> "1"),
      Starts @@ ("thread_watchdog" :> "true"), Starts @@ ("thread_watchdog" :> "1"),
      Starts @@ ("exit_code" :> "127"), Starts @@ ("exit_code" :> "-1"),
      Starts @@ ("thread_watchdog_max_duration_sec" :> "1"),
      Starts @@ ("on_error" :> "stop"), Starts @@ ("log_level" :> "verbose"),
      Starts @@ ("ignore_modules" :> {}),
      Starts @@ ("ignore_modules" :> {Module("a.dll", "open", {"m"})}) }

AllLines == Accepted \cup Refused
=============================================================================
