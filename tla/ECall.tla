-------------------------------- MODULE ECall --------------------------------
(***************************************************************************)
(* The channel from an application to its enclave (binder/src): a command  *)
(* and its input go in, the reply comes back through a buffer of the       *)
(* application, and a reply that does not fit is asked for once more with  *)
(* a larger buffer.  The handler runs again for the second attempt, so its *)
(* reply may be another one.                                               *)
(*                                                                         *)
(* A reply is its length and the number of the run that made it.           *)
(***************************************************************************)
EXTENDS Integers, Sequences

CONSTANTS
  None,
  FirstSize,    \* 256, the first size of the buffer
  Lengths,      \* lengths of serialized replies
  MaxCalls      \* calls made by the application

VARIABLES
  call,      \* the call in progress: its command, buffer size and retried
  runs,      \* the commands its handler ran, and the length of each reply
  result,    \* what invoke returned last
  calls

vars == <<call, runs, result, calls>>

Commands == {"StartService", "InitEnclave", "FinalizeEnclave", "RunTest", "Raw",
             "Unimplemented"}

(* proto.rs: the commands as numbers.                                      *)
u32_from(c) ==
  CASE c = "StartService"    -> 4096
    [] c = "InitEnclave"     -> 4097
    [] c = "FinalizeEnclave" -> 4098
    [] c = "RunTest"         -> 4099
    [] c = "Raw"             -> 4100
    [] OTHER                 -> -1      \* 0xffff_ffff

ECallCommand_from(n) ==
  CASE n = 4096 -> "StartService"
    [] n = 4097 -> "InitEnclave"
    [] n = 4098 -> "FinalizeEnclave"
    [] n = 4099 -> "RunTest"
    [] n = 4100 -> "Raw"
    [] OTHER    -> "Unimplemented"

(* What each service registers with register_ecall_handler!.               *)
Registered == {"StartService", "InitEnclave", "FinalizeEnclave"}

Ok == "Ok"
Failed(why) == [status |-> why, reply |-> None]

Init ==
  /\ call = None /\ runs = << >> /\ result = None /\ calls = 0

(* TeeBinder::invoke: a channel of its own for every call.                 *)
invoke(c) ==
  /\ call = None /\ calls < MaxCalls
  /\ call' = [cmd |-> c, out_max |-> FirstSize, retried |-> FALSE]
  /\ runs' = << >> /\ result' = None
  /\ calls' = calls + 1

Return(res) ==
  /\ call' = None
  /\ result' = res
  /\ UNCHANGED calls

(* The enclave cannot be entered, or the handler panics in it.             *)
SgxError ==
  /\ call # None
  /\ Return(Failed("SgxError"))
  /\ UNCHANGED runs

(* ecall_ipc_lib_dispatcher, when the command has no handler or its input  *)
(* does not deserialize.                                                   *)
DispatchError ==
  /\ call # None
  /\ Return(Failed("ES_ERR_GENERAL"))
  /\ UNCHANGED runs

(* ecall_ipc_entry_point has run the handler, and ecall_ipc_app_to_tee     *)
(* looks at the status it came back with.                                  *)
ecall_ipc_entry_point(len) ==
  runs' = Append(runs, [cmd |-> ECallCommand_from(u32_from(call.cmd)), len |-> len])

Replied(len) == [status |-> Ok, reply |-> <<Len(runs) + 1, len>>]

ecall_ipc_app_to_tee_Keeps(len) ==
  IF len > call.out_max
    THEN IF call.retried
           THEN Return(Failed("ES_ERR_FFI_INSUFFICIENT_OUTBUF_SIZE"))
           ELSE /\ call' = [call EXCEPT !.retried = TRUE]
                /\ UNCHANGED <<result, calls>>
    ELSE Return(Replied(len))

ecall_ipc_app_to_tee(len) ==
  IF len > call.out_max
    THEN IF call.retried
           THEN Return(Failed("ES_ERR_FFI_INSUFFICIENT_OUTBUF_SIZE"))
           ELSE /\ call' = [call EXCEPT !.out_max = len, !.retried = TRUE]
                /\ UNCHANGED <<result, calls>>
    ELSE Return(Replied(len))

Handle ==
  /\ call # None
  /\ ECallCommand_from(u32_from(call.cmd)) \in Registered
  /\ \E len \in Lengths :
       /\ ecall_ipc_entry_point(len)
       /\ ecall_ipc_app_to_tee(len)

Next == (\E c \in Commands : invoke(c)) \/ SgxError \/ DispatchError \/ Handle

Spec == Init /\ [][Next]_vars
-----------------------------------------------------------------------------
(* ecall_ipc_app_to_tee: a call that succeeds returns the whole reply of   *)
(* the handler's last run, and one that fails for want of room has run it  *)
(* twice, with a second reply longer than the first.                       *)
ReplyIsWhole ==
  result # None =>
    CASE result.status = Ok ->
           result.reply = <<Len(runs), runs[Len(runs)].len>>
      [] result.status = "ES_ERR_FFI_INSUFFICIENT_OUTBUF_SIZE" ->
           Len(runs) = 2 /\ runs[2].len > runs[1].len
      [] OTHER -> Len(runs) <= 1

\* A reply that fits comes from the only run of the handler.
RunsOnce ==
  \A r \in {runs'[i] : i \in DOMAIN runs'} :
    (call # None /\ runs = << >> /\ r.len <= FirstSize) =>
      call' = None /\ result'.status = Ok /\ r.cmd = call.cmd
=============================================================================
