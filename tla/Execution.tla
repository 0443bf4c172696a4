------------------------------ MODULE Execution ------------------------------
(***************************************************************************)
(* The execution service (services/execution/enclave/src/service.rs): an   *)
(* executor loops over a heartbeat, possibly a pull of a task and its      *)
(* start on a worker thread, and a look at the channel for the result.     *)
(* Each RPC of the loop is taken together with the effect of the scheduler *)
(* handler that serves it; a handler that awaits storage keeps the mutex   *)
(* and its caller waits for it.                                            *)
(***************************************************************************)
EXTENDS Scheduler

(* The Option of an executor's task is None or a staged task. *)
ASSUME CurrentTaskAssumption == None \notin StagedTasks

VARIABLES
  exec,       \* [Executors -> ExecutorStates]
  started     \* history: how often the function of a task was started

execVars == <<exec, started>>

(* pc: the RPC or step of the loop that comes next.  worker: the worker    *)
(* thread is absent, busy, or its result is in the channel.  An executor   *)
(* has a task from the pull until the scheduler has accepted the result.   *)
IdleExecutors ==
  [pc : {"heartbeat", "pull", "recv", "exited"}, status : {"Idle"},
   current_task : {None}, worker : {"none"}]

BusyExecutors ==
  [pc : {"status"}, status : {"Executing"}, current_task : StagedTasks,
   worker : {"none"}]
    \cup [pc : {"heartbeat", "recv"}, status : {"Executing"},
          current_task : StagedTasks, worker : {"none", "busy", "Ok", "Err"}]
    \cup [pc : {"result"}, status : {"Executing"}, current_task : StagedTasks,
          worker : {"Ok", "Err"}]

ExecutorStates == IdleExecutors \cup BusyExecutors

ExecTypeOK ==
  /\ exec \in [Executors -> ExecutorStates]
  /\ started \in [Tasks -> Nat]

NewExecutor ==
  [pc |-> "heartbeat", status |-> "Idle", current_task |-> None, worker |-> "none"]

ExecInit ==
  /\ exec = [e \in Executors |-> NewExecutor]
  /\ started = [t \in Tasks |-> 0]

ExecAt(e, where) == exec' = [exec EXCEPT ![e].pc = where]

(* start returns an error: the process ends, its worker thread with it. *)
Exit(e) == exec' = [exec EXCEPT ![e] = [NewExecutor EXCEPT !.pc = "exited"]]

(* Mutant: the executor reports Idle and keeps the task. *)
ResultDropped_Idle(e) ==
  exec' = [exec EXCEPT ![e].pc = "heartbeat", ![e].worker = "none",
                       ![e].status = "Idle"]

(* update_task_result failed: "continue" keeps the status Executing and    *)
(* the task, but the result was taken from the channel.                    *)
ResultDropped(e) ==
  exec' = [exec EXCEPT ![e].pc = "heartbeat", ![e].worker = "none"]

(* The caller of the handler inside the mutex. *)
Serves(e) == handler # None /\ handler.by = e

-----------------------------------------------------------------------------
heartbeat(e) ==
  /\ exec[e].pc = "heartbeat"
  /\ \/ /\ sched_heartbeat(e, exec[e].status)
        /\ ExecAt(e, IF exec[e].status = "Idle" /\ task_queue # << >>
                       THEN "pull" ELSE "recv")
     \/ /\ sched_heartbeat_stop(e, exec[e].status, TRUE)
        /\ UNCHANGED exec
     \/ /\ sched_heartbeat_stop(e, exec[e].status, FALSE)
        /\ Exit(e)
  /\ UNCHANGED started

(* The reply of a heartbeat that canceled the task is Stop. *)
heartbeat_stop(e) ==
  /\ exec[e].pc = "heartbeat" /\ Serves(e)
  /\ sched_put("cancel")
  /\ Exit(e)
  /\ UNCHANGED started

pull_task(e) ==
  /\ exec[e].pc = "pull"
  /\ \/ /\ sched_pull_task(e)
        /\ exec' = [exec EXCEPT ![e].pc = "status", ![e].status = "Executing",
                                ![e].current_task = Head(task_queue)]
     \/ /\ sched_pull_canceled(e, TRUE)
        /\ UNCHANGED exec
     \/ /\ sched_pull_canceled(e, FALSE)
        /\ ExecAt(e, "recv")
     \/ /\ Unlocked /\ task_queue = << >>
        /\ ExecAt(e, "recv")
        /\ UNCHANGED <<storeVars, schedVars>>
  /\ UNCHANGED started

(* The reply of a pull that met a canceled task is an error. *)
pull_task_canceled(e) ==
  /\ exec[e].pc = "pull" /\ Serves(e)
  /\ sched_put("cancel")
  /\ ExecAt(e, "recv")
  /\ UNCHANGED started

update_task_status(e) ==
  /\ exec[e].pc = "status"
  /\ \/ /\ sched_status_get(e, exec[e].current_task.task_id, TRUE)
        /\ UNCHANGED exec
     \/ /\ sched_status_get(e, exec[e].current_task.task_id, FALSE)
        /\ Exit(e)
  /\ UNCHANGED started

(* The status is stored and the worker thread is spawned. *)
update_task_status_done(e) ==
  /\ exec[e].pc = "status" /\ Serves(e)
  /\ sched_put("status")
  /\ exec' = [exec EXCEPT ![e].pc = "recv", ![e].worker = "busy"]
  /\ started' = [started EXCEPT ![handler.task] = @ + 1]

(* The worker thread: invoke_task returns and its result is sent. *)
invoke_task_done(e, result) ==
  /\ exec[e].worker = "busy"
  /\ exec' = [exec EXCEPT ![e].worker = result]
  /\ UNCHANGED <<storeVars, schedVars, started>>

try_recv(e) ==
  /\ exec[e].pc = "recv"
  /\ ExecAt(e, IF exec[e].worker \in {"Ok", "Err"} THEN "result" ELSE "heartbeat")
  /\ UNCHANGED <<storeVars, schedVars, started>>

update_task_result(e) ==
  LET task == exec[e].current_task
      get(ok) == sched_result_get(e, task.task_id, exec[e].worker,
                                  DOMAIN task.output_data, ok)
  IN /\ exec[e].pc = "result"
     /\ \/ get(TRUE) /\ UNCHANGED exec
        \/ get(FALSE) /\ ResultDropped(e)
     /\ UNCHANGED started

update_task_result_output(e, n) ==
  /\ exec[e].pc = "result" /\ Serves(e)
  /\ \/ sched_result_put_output(n, TRUE) /\ UNCHANGED exec
     \/ sched_result_put_output(n, FALSE) /\ ResultDropped(e)
  /\ UNCHANGED started

(* Mutant: the status is not set back to Idle. *)
update_task_result_done_Busy(e) ==
  /\ exec[e].pc = "result" /\ Serves(e)
  /\ sched_put("result")
  /\ ResultDropped(e)
  /\ UNCHANGED started

update_task_result_done(e) ==
  /\ exec[e].pc = "result" /\ Serves(e)
  /\ sched_put("result")
  /\ exec' = [exec EXCEPT ![e] = NewExecutor]
  /\ UNCHANGED started

ExecutorStep(e) ==
  \/ heartbeat(e)
  \/ heartbeat_stop(e)
  \/ pull_task(e)
  \/ pull_task_canceled(e)
  \/ update_task_status(e)
  \/ update_task_status_done(e)
  \/ try_recv(e)
  \/ update_task_result(e)
  \/ \E n \in OutputNames : update_task_result_output(e, n)
  \/ update_task_result_done(e)

-----------------------------------------------------------------------------
(* Faults. *)

(* What an executor does when the RPC it is in returns an error. *)
OnRpcError(e) ==
  \/ exec[e].pc \in {"heartbeat", "status"} /\ Exit(e)
  \/ exec[e].pc = "pull" /\ ExecAt(e, "recv")
  \/ exec[e].pc = "result" /\ ResultDropped(e)

(* A storage request of the handler that serves e fails. *)
handler_storage_error(e) ==
  /\ Serves(e)
  /\ sched_storage_error
  /\ OnRpcError(e)
  /\ UNCHANGED started

(* The request of an RPC, or a reply, is lost.  A reply that is lost after *)
(* the handler wrote the record is told apart from a lost request only by  *)
(* what was written.                                                       *)
rpc_lost(e) ==
  /\ \/ handler = None /\ UNCHANGED <<storeVars, schedVars>> /\ OnRpcError(e)
     \/ exec[e].pc = "pull" /\ sched_pull_task(e) /\ OnRpcError(e)
     \/ Serves(e) /\ sched_put(handler.op) /\ OnRpcError(e)
  /\ UNCHANGED started

(* The process of an executor is killed. *)
crash(e) ==
  /\ exec[e].pc # "exited"
  /\ ~ Serves(e)
  /\ Exit(e)
  /\ UNCHANGED <<storeVars, schedVars, started>>

(* It is killed during an RPC: the server drops the handler that serves it *)
(* where it stands.                                                        *)
crash_in_rpc(e) ==
  /\ Serves(e)
  /\ sched_storage_error
  /\ Exit(e)
  /\ UNCHANGED started

(* The scheduler restarts: the RPC it was serving returns an error. *)
scheduler_restart ==
  /\ sched_restart
  /\ IF handler = None THEN UNCHANGED exec ELSE OnRpcError(handler.by)
  /\ UNCHANGED started

(* The worker thread panics or never returns: no result will be sent. *)
worker_lost(e) ==
  /\ exec[e].worker = "busy"
  /\ exec' = [exec EXCEPT ![e].worker = "none"]
  /\ UNCHANGED <<storeVars, schedVars, started>>
=============================================================================
