-------------------------- MODULE FunctionContext ---------------------------
(***************************************************************************)
(* What a function of the MesaPy and the WAMR executor uses files with:    *)
(* the context of the thread it runs on.  Files are numbered by handles,   *)
(* those to write to have a bit of their own; the function may pass any    *)
(* number as a handle.  Python code is told by a status and a result, Wasm *)
(* code by one number.  An output is the sequence of what was written.     *)
(***************************************************************************)
EXTENDS Integers, Sequences, FiniteSets, TLC

CONSTANTS
  InputFiles, OutputFiles,  \* names of the task's files; others are unknown
  Unknown,                  \* names that a function may use besides
  InputLength,              \* chunks in every input
  MaxSequence,              \* 1024 in the code: the end of the numbers
  MaxRuns, MaxWrites        \* bounds

VARIABLES
  run,      \* "idle", "mesapy", "wamr", "refused" by set_thread_context, "panicked"
  context,  \* None, or [seq, read, write]: read: handle -> [file, at], write: handle -> file
  output,   \* output file -> sequence of chunks, or Absent
  reply,    \* what the last call of the function was and gave
  told,     \* what the function makes of the numbers it got: a success, a handle
  mine,     \* history: what the function knows: handle -> file, while it is open
  wrote,    \* history: what the function wrote to a file since it created it
  opened, runs

vars == <<run, context, output, reply, told, mine, wrote, opened, runs>>

None == <<>>
Absent == <<"absent">>
EmptyMap == <<>>

\* A call and its result.
Reply(op, file, ok, result) == reply' = [op |-> op, file |-> file, ok |-> ok, result |-> result]
NoReply == [op |-> "none", file |-> "none", ok |-> TRUE, result |-> 0]
Failed == 0
Running == run \in {"mesapy", "wamr"}

Init ==
    /\ run = "idle" /\ context = None
    /\ output = [f \in OutputFiles |-> Absent] /\ wrote = output
    /\ reply = NoReply /\ told = [ok |-> TRUE, result |-> 0]
    /\ mine = EmptyMap /\ opened = 0 /\ runs = 0

Without(map, h) == [x \in DOMAIN map \ {h} |-> map[x]]

\* HandleEncoding.
into_write_handle_Same(n) == n
into_write_handle(n) == 2^30 + n
is_write_handle(h) == (h \div 2^30) % 2 = 1

NewContext == [seq |-> 1, read |-> EmptyMap, write |-> EmptyMap]

-----------------------------------------------------------------------------
\* The thread of a task begins; its context is the thread's.
set_thread_context(kind) ==
    /\ run = "idle" /\ runs < MaxRuns
    /\ runs' = runs + 1
    /\ IF context = None THEN context' = NewContext /\ run' = kind
                         ELSE run' = "refused" /\ UNCHANGED context
    /\ output' = [f \in OutputFiles |-> Absent] /\ wrote' = output'
    /\ mine' = EmptyMap /\ opened' = 0
    /\ reply' = NoReply /\ told' = [ok |-> TRUE, result |-> 0]

\* Open files are closed with the context.
reset_thread_context ==
    context' = None

MesaPy_execute == set_thread_context("mesapy")

\* mesapy_exec has returned, with a result or an error: both are results.
MesaPy_returns ==
    /\ run = "mesapy" /\ run' = "idle"
    /\ reset_thread_context
    /\ UNCHANGED <<output, reply, told, mine, wrote, opened, runs>>

\* A module that cannot be loaded, or has no entry point, ends the thread.
WAMicroRuntime_execute == set_thread_context("wamr")
WAMicroRuntime_asserts ==
    /\ run = "wamr" /\ reply.op = "none" /\ run' = "panicked"
    /\ UNCHANGED <<context, output, reply, told, mine, wrote, opened, runs>>
WAMicroRuntime_returns ==
    /\ run = "wamr" /\ run' = "idle"
    /\ reset_thread_context
    /\ UNCHANGED <<output, reply, told, mine, wrote, opened, runs>>

-----------------------------------------------------------------------------
HasNext == context.seq < MaxSequence

\* HandleRegistry::add: a handle that is in use stays what it was.
add(map, h, obj) == IF h \in DOMAIN map THEN map ELSE (h :> obj) @@ map

\* The reply to a call that took the number h for a file.
Added(op, f, map, h) ==
    IF h \in DOMAIN map THEN Reply(op, f, FALSE, Failed) /\ UNCHANGED opened
    ELSE Reply(op, f, TRUE, h) /\ opened' = opened + 1

rtc_open_input(f) ==
    LET h == context.seq
    IN  /\ IF f \in InputFiles /\ HasNext
           THEN /\ context' = [context EXCEPT !.seq = h + 1, !.read = add(@, h, [file |-> f, at |-> 0])]
                /\ Added("open", f, context.read, h)
           ELSE Reply("open", f, FALSE, Failed) /\ UNCHANGED <<context, opened>>
        /\ UNCHANGED <<run, output, wrote, runs>>

\* Protected files are opened by one writer at a time.
create_writable_io(f) == f \in OutputFiles /\ f \notin {context.write[h] : h \in DOMAIN context.write}

\* The file is emptied before a number is taken for it.
rtc_create_output(f) ==
    LET h == into_write_handle(context.seq)
    IN  /\ IF create_writable_io(f)
           THEN /\ output' = [output EXCEPT ![f] = <<>>]
                /\ wrote' = [wrote EXCEPT ![f] = <<>>]
                /\ IF HasNext
                   THEN /\ context' = [context EXCEPT !.seq = @ + 1, !.write = add(@, h, f)]
                        /\ Added("create", f, context.write, h)
                   ELSE Reply("create", f, FALSE, Failed) /\ UNCHANGED <<context, opened>>
           ELSE Reply("create", f, FALSE, Failed) /\ UNCHANGED <<context, output, wrote, opened>>
        /\ UNCHANGED <<run, runs>>

\* What a handle is for, to the function.
Mine(h) == IF h \in DOMAIN mine THEN mine[h] ELSE "none"

\* A read gives a chunk, or none at the end of the file.
rtc_read_handle(h) ==
    /\ IF h \in DOMAIN context.read
       THEN LET more == context.read[h].at < InputLength
                n == IF more THEN 1 ELSE 0
            IN  /\ context' = [context EXCEPT !.read[h].at = @ + n]
                /\ Reply("read", context.read[h].file, TRUE, n)
       ELSE Reply("read", "none", FALSE, Failed) /\ UNCHANGED context
    /\ UNCHANGED <<run, output, wrote, opened, runs>>

rtc_write_handle(h, chunk) ==
    /\ IF h \in DOMAIN context.write
       THEN LET f == context.write[h]
            IN  /\ Len(output[f]) < MaxWrites
                /\ output' = [output EXCEPT ![f] = Append(@, chunk)]
                /\ Reply("write", f, TRUE, 1)
       ELSE Reply("write", "none", FALSE, Failed) /\ UNCHANGED output
    /\ wrote' = IF reply'.ok /\ Mine(h) \in OutputFiles
                THEN [wrote EXCEPT ![Mine(h)] = Append(@, chunk)] ELSE wrote
    /\ UNCHANGED <<run, context, opened, runs>>

rtc_close_handle(h) ==
    /\ IF ~is_write_handle(h)
       THEN /\ context' = [context EXCEPT !.read = Without(@, h)]
            /\ Reply("close", Mine(h), h \in DOMAIN context.read, 0)
       ELSE /\ context' = [context EXCEPT !.write = Without(@, h)]
            /\ Reply("close", Mine(h), h \in DOMAIN context.write, 0)
    /\ UNCHANGED <<run, output, wrote, opened, runs>>

-----------------------------------------------------------------------------
\* Python is told by FFI_OK or FFI_FILE_ERROR, and a result next to it; Wasm
\* by the result or FFI_FILE_ERROR_WASM.
FFI == IF run = "mesapy" THEN [ok |-> reply'.ok, result |-> reply'.result]
       ELSE LET code == IF reply'.ok THEN reply'.result ELSE -1
            IN  [ok |-> code >= 0, result |-> code]

Opens(f) == /\ told' = FFI
            /\ mine' = IF told'.ok THEN (told'.result :> f) @@ mine ELSE mine
Keeps == told' = FFI /\ UNCHANGED mine
Closes(h) == told' = FFI /\ mine' = IF told'.ok THEN Without(mine, h) ELSE mine

c_open_input(f) == run = "mesapy" /\ rtc_open_input(f) /\ Opens(f)
wasm_open_input(f) == run = "wamr" /\ rtc_open_input(f) /\ Opens(f)
c_create_output(f) == run = "mesapy" /\ rtc_create_output(f) /\ Opens(f)
wasm_create_output(f) == run = "wamr" /\ rtc_create_output(f) /\ Opens(f)
c_read_file(h) == run = "mesapy" /\ rtc_read_handle(h) /\ Keeps
wasm_read_file(h) == run = "wamr" /\ rtc_read_handle(h) /\ Keeps
c_write_file(h, chunk) == run = "mesapy" /\ rtc_write_handle(h, chunk) /\ Keeps
wasm_write_file(h, chunk) == run = "wamr" /\ rtc_write_handle(h, chunk) /\ Keeps
c_close_file(h) == run = "mesapy" /\ rtc_close_handle(h) /\ Closes(h)
wasm_close_file(h) == run = "wamr" /\ rtc_close_handle(h) /\ Closes(h)

\* Handles that a function passes: those it was given, old ones, the error.
Handles == {-1} \cup 0 .. MaxSequence \cup {into_write_handle(n) : n \in 0 .. MaxSequence}

Next ==
    \/ MesaPy_execute \/ MesaPy_returns
    \/ WAMicroRuntime_execute \/ WAMicroRuntime_asserts \/ WAMicroRuntime_returns
    \/ \E f \in InputFiles \cup OutputFiles \cup Unknown :
         c_open_input(f) \/ wasm_open_input(f) \/ c_create_output(f) \/ wasm_create_output(f)
    \/ \E h \in Handles :
         c_read_file(h) \/ wasm_read_file(h) \/ c_close_file(h) \/ wasm_close_file(h)
    \/ \E h \in Handles, chunk \in 1 .. MaxWrites : c_write_file(h, chunk) \/ wasm_write_file(h, chunk)

Spec == Init /\ [][Next]_vars

-----------------------------------------------------------------------------
\* The files that the function has open, as it was told, are those of the
\* context, an output is what the function wrote with the handles for it, and
\* only those close: HandleRegistry, HandleEncoding and Sequence never mix up
\* two files, nor a handle and an error.
HandlesAreTold ==
    /\ output = wrote
    /\ Running => /\ DOMAIN mine = DOMAIN context.read \cup DOMAIN context.write
                  /\ told.ok <=> reply.ok
    /\ reply.op = "close" => (reply.ok <=> reply.file # "none")

\* set_thread_context never finds a context of an earlier task, and a file of
\* the task is refused only to a function that had all the numbers or has the
\* file open already.
EveryRunStartsAfresh ==
    /\ run # "refused"
    /\ Running /\ ~reply.ok /\ reply.op = "open" /\ reply.file \in InputFiles =>
          opened = MaxSequence - 1
    /\ Running /\ ~reply.ok /\ reply.op = "create" /\ reply.file \in OutputFiles =>
          opened = MaxSequence - 1 \/ \E h \in DOMAIN mine : mine[h] = reply.file
=============================================================================
