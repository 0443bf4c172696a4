------------------------------- MODULE Launcher -------------------------------
(***************************************************************************)
(* The process of a service (services/utils/service_app_utils, binder.rs): *)
(* the main thread creates the enclave, spawns the thread that starts the  *)
(* service, registers the signal handlers and parks until a signal; then   *)
(* it finalizes and destroys the enclave.  The service thread raises       *)
(* SIGTERM when the service has ended.                                     *)
(*                                                                         *)
(* Signals also come from outside, at most MaxSignals of them.  Until its  *)
(* handler is registered a signal kills the process.  A handler runs on    *)
(* some thread of the process between any two of its steps; its two        *)
(* statements are two steps.                                               *)
(***************************************************************************)
EXTENDS Integers, Sequences, FiniteSets

CONSTANTS
  Services,     \* names of services, "execution" among them
  MaxSignals

VARIABLES
  service,      \* the service of this process
  main,         \* the main thread
  starter,      \* the thread of TeaclaveServiceLauncher::start
  enclave,      \* "none", "alive" or "destroyed"
  ran,          \* the commands the enclave has run, in order
  handlers,     \* the signals whose handler is registered
  handling,     \* handlers between their two statements
  term, token,  \* the AtomicBool, and the token of park and unpark
  process,      \* "running", "exited" or "killed"
  signals

vars == <<service, main, starter, enclave, ran, handlers, handling, term, token, process, signals>>

Signals == <<"SIGTERM", "SIGINT", "SIGHUP">>

Init ==
  /\ service \in Services
  /\ main = "new" /\ starter = "none" /\ enclave = "none" /\ ran = << >>
  /\ handlers = {} /\ handling = 0 /\ term = FALSE /\ token = FALSE
  /\ process = "running" /\ signals = 0

(* An ecall whose command the enclave runs; a destroyed one cannot be      *)
(* entered.                                                                *)
invoke(cmd) == ran' = IF enclave = "alive" THEN Append(ran, cmd) ELSE ran

(* Leaving main ends the process and its other threads; an error returned  *)
(* by main is an exit as well.                                             *)
ExitProcess(how) ==
  /\ process' = how
  /\ UNCHANGED <<handlers, handling, term, token, signals>>

-----------------------------------------------------------------------------
(* TeaclaveServiceLauncher::new: TeeBinder::new creates the enclave and    *)
(* calls InitEnclave.  An error that the command returns is dropped; when  *)
(* the call itself fails, before the enclave ran it or after, the binder   *)
(* is dropped, which finalizes.                                            *)
New ==
  /\ main = "new"
  /\ \/ /\ enclave' = "alive" /\ main' = "init"
        /\ UNCHANGED process
     \/ /\ main' = "done" /\ process' = "exited"     \* no config, no enclave
        /\ UNCHANGED enclave
  /\ UNCHANGED <<starter, ran, handlers, handling, term, token, signals>>

InitEnclave ==
  /\ main = "init"
  /\ \/ invoke("InitEnclave") /\ main' \in {"spawn", "drop"}
     \/ UNCHANGED ran /\ main' = "drop"              \* IpcError
  /\ UNCHANGED <<starter, enclave, handlers, handling, term, token, process, signals>>

(* thread::spawn.                                                          *)
Spawn ==
  /\ main = "spawn"
  /\ starter' = "start" /\ main' = "register"
  /\ UNCHANGED <<enclave, ran, handlers, handling, term, token, process, signals>>

(* register_signals, one signal after the other.  After an error           *)
(* launch_teaclave_service returns, whatever its thread is doing.          *)
register_signals ==
  /\ main = "register"
  /\ \/ /\ handlers' = handlers \cup {Signals[Cardinality(handlers) + 1]}
        /\ main' = IF Cardinality(handlers') = Len(Signals) THEN "loop" ELSE "register"
     \/ UNCHANGED handlers /\ main' = "drop"
  /\ UNCHANGED <<starter, enclave, ran, handling, term, token, process, signals>>

(* while !term.load() { park() }.                                          *)
Loop ==
  /\ main = "loop"
  /\ main' = IF term THEN "finalize" ELSE "park"
  /\ UNCHANGED <<starter, enclave, ran, handlers, handling, term, token, process, signals>>

Park ==
  /\ main = "park" /\ token
  /\ token' = FALSE /\ main' = "loop"
  /\ UNCHANGED <<starter, enclave, ran, handlers, handling, term, process, signals>>

Finalize ==
  /\ main = "finalize"
  /\ invoke("FinalizeEnclave")
  /\ main' = "destroy"
  /\ UNCHANGED <<starter, enclave, handlers, handling, term, token, process, signals>>

Destroy ==
  /\ main = "destroy"
  /\ enclave' = "destroyed" /\ main' = "drop"
  /\ UNCHANGED <<starter, ran, handlers, handling, term, token, process, signals>>

(* A reference to the launcher is dropped; with the last one TeeBinder is, *)
(* which finalizes.                                                        *)
DropLauncher(last) ==
  IF last THEN invoke("FinalizeEnclave") ELSE UNCHANGED ran

(* The end of launch_teaclave_service, and then of main.                   *)
Drop ==
  /\ main = "drop"
  /\ DropLauncher(starter \in {"none", "done"})
  /\ main' = "return"
  /\ UNCHANGED <<starter, enclave, handlers, handling, term, token, process, signals>>

Return ==
  /\ main = "return"
  /\ main' = "done"
  /\ ExitProcess("exited")
  /\ UNCHANGED <<starter, enclave, ran>>

-----------------------------------------------------------------------------
(* start: the StartService call enters the enclave.                        *)
Start ==
  /\ starter = "start"
  /\ invoke("StartService")
  /\ starter' = "serving"
  /\ UNCHANGED <<main, enclave, handlers, handling, term, token, process, signals>>

(* The service ends.  The execution service ends with                      *)
(* EnclaveForceTermination, on which start exits the process.              *)
Ended ==
  /\ starter = "serving"
  /\ starter' = IF service = "execution" THEN "exit" ELSE "raise"
  /\ UNCHANGED <<main, enclave, ran, handlers, handling, term, token, process, signals>>

ForceExit ==
  /\ starter = "exit"
  /\ starter' = "done"
  /\ ExitProcess("exited")
  /\ UNCHANGED <<main, enclave, ran>>

(* A signal: the registered handler starts, or the process is killed.      *)
Deliver(sig) ==
  IF sig \in handlers
    THEN handling' = handling + 1 /\ UNCHANGED process
    ELSE process' = "killed" /\ UNCHANGED handling

(* libc::raise(SIGTERM), and the end of the thread's closure.              *)
Raise ==
  /\ starter = "raise"
  /\ Deliver("SIGTERM")
  /\ starter' = "end"
  /\ UNCHANGED <<main, enclave, ran, handlers, term, token, signals>>

End ==
  /\ starter = "end"
  /\ DropLauncher(main = "return")
  /\ starter' = "done"
  /\ UNCHANGED <<main, enclave, handlers, handling, term, token, process, signals>>

Signal(sig) ==
  /\ signals < MaxSignals
  /\ signals' = signals + 1
  /\ Deliver(sig)
  /\ UNCHANGED <<main, starter, enclave, ran, handlers, term, token>>

(* The handler: term.store(true), then thread.unpark().  When its first    *)
(* statement has run and it waits for the second, term is set.             *)
Handler_NoUnpark ==
  /\ handling > 0
  /\ handling' = handling - 1
  /\ term' = TRUE /\ UNCHANGED token
  /\ UNCHANGED <<main, starter, enclave, ran, handlers, process, signals>>

Handler ==
  /\ handling > 0
  /\ \/ /\ ~ term
        /\ term' = TRUE
        /\ UNCHANGED <<handling, token>>
     \/ /\ term
        /\ handling' = handling - 1 /\ token' = TRUE
        /\ UNCHANGED term
  /\ UNCHANGED <<main, starter, enclave, ran, handlers, process, signals>>

MainStep ==
  process = "running" /\ (New \/ InitEnclave \/ Spawn \/ register_signals \/ Loop \/ Park
                          \/ Finalize \/ Destroy \/ Drop \/ Return)
StarterStep == process = "running" /\ (Start \/ ForceExit \/ Raise \/ End)
HandlerStep == process = "running" /\ Handler

Next ==
  /\ \/ MainStep \/ StarterStep \/ HandlerStep
     \/ process = "running" /\ Ended
     \/ process = "running" /\ \E i \in DOMAIN Signals : Signal(Signals[i])
  /\ UNCHANGED service

Spec == Init /\ [][Next]_vars
-----------------------------------------------------------------------------
Ran(cmd) == {i \in DOMAIN ran : ran[i] = cmd}

(* TeeBinder, launch_teaclave_service: InitEnclave is the first command    *)
(* that the enclave runs (whether it succeeded is not looked at,           *)
(* binder.rs:49); only when that call has failed is there another first    *)
(* one, FinalizeEnclave, and then no other at all.  It is finalized at     *)
(* most once, although launch_teaclave_service, its error paths and the    *)
(* drop of the binder, on whichever thread it happens, all ask for it.     *)
EnclaveLifeCycle ==
  /\ ran # << >> => ran[1] = "InitEnclave" \/ ran = <<"FinalizeEnclave">>
  /\ Cardinality(Ran("FinalizeEnclave")) <= 1

\* The service has ended, or a signal has come.
ToEnd == starter \in {"raise", "exit", "end", "done"} \/ handling > 0 \/ term
Gone == process # "running"
=============================================================================
