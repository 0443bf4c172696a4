------------------------------ MODULE Scheduler ------------------------------
(***************************************************************************)
(* The scheduler service (services/scheduler/enclave/src/service.rs): the  *)
(* resources shared by its RPC handlers and its daemon thread, the daemon, *)
(* and what each handler does to the resources and to the store.           *)
(*                                                                         *)
(* The resources are guarded by one async mutex that a handler, or one     *)
(* iteration of the daemon, holds from its first to its last access.  It   *)
(* does not keep the management service from the database: every storage   *)
(* request made under the mutex is a step of its own.                      *)
(***************************************************************************)
EXTENDS TaskStore

CONSTANT Executors     \* executor identifiers (fresh UUIDs)

ASSUME ExecutorsAssumption == None \notin Executors

VARIABLES
  task_queue,        \* VecDeque<StagedTask>
  executors_tasks,   \* executor -> the task it pulled, or None
  executors_status,  \* executor -> status of its last heartbeat, or None
  tasks_to_cancel,   \* HashSet of task identifiers
  handler,           \* the RPC handler inside the mutex that awaits storage
  daemon             \* the daemon thread

schedVars == <<task_queue, executors_tasks, executors_status, tasks_to_cancel,
               handler, daemon>>

ExecutorStatus == {"Idle", "Executing"}

(* executors_last_heartbeat has an entry for the same executors as         *)
(* executors_status: both are inserted by heartbeat and removed by the     *)
(* daemon.                                                                 *)
Known(e) == executors_status[e] # None

(* A handler that has read a task and still has to write: the caller, the  *)
(* RPC, its task, its copy of the record (already converted to what will   *)
(* be stored) and the outputs whose tags are still to be stored.           *)
SchedHandlers ==
  [by : Executors, op : {"cancel", "status", "result"}, task : Tasks,
   ts : TaskStates, todo : SUBSET OutputNames]

(* The daemon sleeps, drains the two queues, then handles lost executors;  *)
(* in "fail" it has read the record of the task of a lost executor.  When  *)
(* an error ends its loop it is "dead": lib.rs ignores the error.          *)
DaemonStates ==
  [pc : {"sleep", "cancel", "staged", "expire", "dead"}, task : {None}, ts : {None}]
    \cup [pc : {"lost"}, task : Tasks, ts : {None}]
    \cup [pc : {"fail"}, task : Tasks, ts : TaskStates]

SchedTypeOK ==
  /\ task_queue \in Seq(StagedTasks)
  /\ executors_tasks \in [Executors -> Tasks \cup {None}]
  /\ executors_status \in [Executors -> ExecutorStatus \cup {None}]
  /\ tasks_to_cancel \subseteq Tasks
  /\ handler \in SchedHandlers \cup {None}
  /\ daemon \in DaemonStates

SchedInit ==
  /\ task_queue = << >>
  /\ executors_tasks = [e \in Executors |-> None]
  /\ executors_status = [e \in Executors |-> None]
  /\ tasks_to_cancel = {}
  /\ handler = None
  /\ daemon = [pc |-> "sleep", task |-> None, ts |-> None]

(* The process of the scheduler is started anew, with empty resources and  *)
(* a new daemon: what was dequeued from the database is forgotten, and the *)
(* handler inside the mutex is gone.                                       *)
sched_restart ==
  /\ task_queue' = << >>
  /\ executors_tasks' = [e \in Executors |-> None]
  /\ executors_status' = [e \in Executors |-> None]
  /\ tasks_to_cancel' = {}
  /\ handler' = None
  /\ daemon' = [pc |-> "sleep", task |-> None, ts |-> None]
  /\ UNCHANGED storeVars

(* The mutex is free. *)
Unlocked == handler = None /\ daemon.pc \in {"sleep", "dead"}

DaemonAt(where) == daemon' = [pc |-> where, task |-> None, ts |-> None]

-----------------------------------------------------------------------------
(* One iteration of TeaclaveSchedulerDeamon::run. *)

daemon_lock ==
  /\ Unlocked /\ daemon.pc = "sleep"
  /\ DaemonAt("cancel")
  /\ UNCHANGED <<storeVars, task_queue, executors_tasks, executors_status,
                 tasks_to_cancel, handler>>

(* Mutant: a canceled task is dequeued and not remembered. *)
pull_cancel_queue_Forget ==
  /\ daemon.pc = "cancel"
  /\ \/ cancel_queue # << >> /\ cancel_queue' = Tail(cancel_queue) /\ UNCHANGED daemon
     \/ cancel_queue = << >> /\ UNCHANGED cancel_queue /\ DaemonAt("staged")
  /\ UNCHANGED <<task_states, output_cmac, use_numbers, staged_queue, task_queue,
                 executors_tasks, executors_status, tasks_to_cancel, handler>>

(* pull_cancel_queue, one dequeue: the loop ends with the first error,     *)
(* which an empty queue is too.                                            *)
pull_cancel_queue ==
  /\ daemon.pc = "cancel"
  /\ \/ /\ cancel_queue # << >>
        /\ tasks_to_cancel' = tasks_to_cancel \cup {Head(cancel_queue)}
        /\ cancel_queue' = Tail(cancel_queue)
        /\ UNCHANGED daemon
     \/ /\ cancel_queue = << >>
        /\ DaemonAt("staged")
        /\ UNCHANGED <<tasks_to_cancel, cancel_queue>>
  /\ UNCHANGED <<task_states, output_cmac, use_numbers, staged_queue, task_queue,
                 executors_tasks, executors_status, handler>>

(* Mutant: only the first task of a round is kept. *)
pull_staged_task_First ==
  /\ daemon.pc = "staged"
  /\ \/ /\ staged_queue # << >>
        /\ task_queue' = IF task_queue = << >> THEN <<Head(staged_queue)>> ELSE task_queue
        /\ staged_queue' = Tail(staged_queue)
        /\ UNCHANGED daemon
     \/ /\ staged_queue = << >>
        /\ DaemonAt("expire")
        /\ UNCHANGED <<task_queue, staged_queue>>
  /\ UNCHANGED <<task_states, output_cmac, use_numbers, cancel_queue,
                 executors_tasks, executors_status, tasks_to_cancel, handler>>

pull_staged_task ==
  /\ daemon.pc = "staged"
  /\ \/ /\ staged_queue # << >>
        /\ task_queue' = Append(task_queue, Head(staged_queue))
        /\ staged_queue' = Tail(staged_queue)
        /\ UNCHANGED daemon
     \/ /\ staged_queue = << >>
        /\ DaemonAt("expire")
        /\ UNCHANGED <<task_queue, staged_queue>>
  /\ UNCHANGED <<task_states, output_cmac, use_numbers, cancel_queue,
                 executors_tasks, executors_status, tasks_to_cancel, handler>>

(* Mutant: the task of a lost executor is not failed. *)
daemon_expire_Silent(e) ==
  /\ daemon.pc = "expire"
  /\ Known(e)
  /\ executors_status' = [executors_status EXCEPT ![e] = None]
  /\ executors_tasks' = [executors_tasks EXCEPT ![e] = None]
  /\ UNCHANGED <<storeVars, task_queue, tasks_to_cancel, handler, daemon>>

(* The executor e is found lost: it is forgotten, and so is its task.      *)
daemon_expire(e) ==
  /\ daemon.pc = "expire"
  /\ Known(e)
  /\ executors_status' = [executors_status EXCEPT ![e] = None]
  /\ executors_tasks' = [executors_tasks EXCEPT ![e] = None]
  /\ IF executors_tasks[e] = None
       THEN UNCHANGED daemon
       ELSE daemon' = [daemon EXCEPT !.pc = "lost", !.task = executors_tasks[e]]
  /\ UNCHANGED <<storeVars, task_queue, tasks_to_cancel, handler>>

(* get_task_state for the task of a lost executor: an ended task is left   *)
(* alone, a staged or running one will fail, and for any other status the  *)
(* conversion into Task<Fail> is an error that ends the daemon.            *)
daemon_get ==
  LET ts == task_states[daemon.task]
  IN /\ daemon.pc = "lost"
     /\ \/ is_ended(ts) /\ DaemonAt("expire")
        \/ ToFail(ts) /\ daemon' = [daemon EXCEPT !.pc = "fail", !.ts = FromFail(ts)]
        \/ ~ is_ended(ts) /\ ~ ToFail(ts) /\ DaemonAt("dead")
     /\ UNCHANGED <<storeVars, task_queue, executors_tasks, executors_status,
                    tasks_to_cancel, handler>>

daemon_put ==
  /\ daemon.pc = "fail"
  /\ PutTask(daemon.task, daemon.ts)
  /\ DaemonAt("expire")
  /\ UNCHANGED <<output_cmac, use_numbers, staged_queue, cancel_queue, task_queue,
                 executors_tasks, executors_status, tasks_to_cancel, handler>>

daemon_sleep ==
  /\ daemon.pc = "expire"
  /\ DaemonAt("sleep")
  /\ UNCHANGED <<storeVars, task_queue, executors_tasks, executors_status,
                 tasks_to_cancel, handler>>

(* Faults of the storage requests of the daemon.  An element that was      *)
(* dequeued is lost when the reply is; the drain loop takes any error for  *)
(* the end of the queue.  A get or put that fails ends the daemon, also    *)
(* when the put took effect and only its reply is lost.                    *)
daemon_storage_error ==
  \/ /\ daemon.pc = "cancel"
     /\ \/ UNCHANGED cancel_queue
        \/ cancel_queue # << >> /\ cancel_queue' = Tail(cancel_queue)
     /\ DaemonAt("staged")
     /\ UNCHANGED <<task_states, output_cmac, use_numbers, staged_queue,
                    task_queue, executors_tasks, executors_status,
                    tasks_to_cancel, handler>>
  \/ /\ daemon.pc = "staged"
     /\ \/ UNCHANGED staged_queue
        \/ staged_queue # << >> /\ staged_queue' = Tail(staged_queue)
     /\ DaemonAt("expire")
     /\ UNCHANGED <<task_states, output_cmac, use_numbers, cancel_queue,
                    task_queue, executors_tasks, executors_status,
                    tasks_to_cancel, handler>>
  \/ /\ daemon.pc \in {"lost", "fail"}
     /\ \/ UNCHANGED task_states
        \/ daemon.pc = "fail" /\ PutTask(daemon.task, daemon.ts)
     /\ DaemonAt("dead")
     /\ UNCHANGED <<output_cmac, use_numbers, staged_queue, cancel_queue,
                    task_queue, executors_tasks, executors_status,
                    tasks_to_cancel, handler>>

DaemonStep ==
  \/ daemon_lock
  \/ pull_cancel_queue
  \/ pull_staged_task
  \/ daemon_get
  \/ daemon_put
  \/ daemon_sleep

-----------------------------------------------------------------------------
(* The handlers, up to their first storage request; the caller's reaction  *)
(* to the reply is in module Execution.                                    *)

(* A read record is converted, and when that succeeds (ok) the handler     *)
(* goes on to write it; otherwise, and for a missing record, which no      *)
(* conversion accepts, it returns an error.                                *)
cancel_task_get(e, t, ok) ==
  /\ ok = ToCancel(task_states[t])
  /\ IF ok THEN handler' = [by |-> e, op |-> "cancel", task |-> t,
                            ts |-> FromCancel(task_states[t]), todo |-> {}]
           ELSE UNCHANGED handler

(* Mutant: any pending cancellation stops the executor. *)
StopRequested_Any(e, status) ==
  /\ status = "Executing"
  /\ executors_tasks[e] # None
  /\ tasks_to_cancel # {}

(* The task of executor e, which reports to be executing, is to be         *)
(* canceled.                                                               *)
StopRequested(e, status) ==
  /\ status = "Executing"
  /\ executors_tasks[e] # None
  /\ executors_tasks[e] \in tasks_to_cancel

(* Mutant: every heartbeat forgets the task of its executor. *)
sched_heartbeat_Forget(e, status) ==
  /\ Unlocked
  /\ ~ StopRequested(e, status)
  /\ executors_status' = [executors_status EXCEPT ![e] = status]
  /\ executors_tasks' = [executors_tasks EXCEPT ![e] = None]
  /\ UNCHANGED <<storeVars, task_queue, tasks_to_cancel, handler, daemon>>

(* heartbeat without a cancellation. *)
sched_heartbeat(e, status) ==
  /\ Unlocked
  /\ ~ StopRequested(e, status)
  /\ executors_status' = [executors_status EXCEPT ![e] = status]
  /\ executors_tasks' = IF status = "Idle"
                          THEN [executors_tasks EXCEPT ![e] = None]
                          ELSE executors_tasks
  /\ UNCHANGED <<storeVars, task_queue, tasks_to_cancel, handler, daemon>>

(* heartbeat of an executor whose task is to be canceled, up to the read   *)
(* in cancel_task.                                                         *)
sched_heartbeat_stop(e, status, ok) ==
  LET t == executors_tasks[e]
  IN /\ Unlocked
     /\ StopRequested(e, status)
     /\ executors_status' = [executors_status EXCEPT ![e] = status]
     /\ tasks_to_cancel' = tasks_to_cancel \ {t}
     /\ cancel_task_get(e, t, ok)
     /\ UNCHANGED <<storeVars, task_queue, executors_tasks, daemon>>

(* pull_task that hands out the first staged task. *)
sched_pull_task(e) ==
  /\ Unlocked
  /\ task_queue # << >>
  /\ Head(task_queue).task_id \notin tasks_to_cancel
  /\ task_queue' = Tail(task_queue)
  /\ executors_tasks' = [executors_tasks EXCEPT ![e] = Head(task_queue).task_id]
  /\ UNCHANGED <<storeVars, executors_status, tasks_to_cancel, handler, daemon>>

(* pull_task that finds the first staged task canceled. *)
sched_pull_canceled(e, ok) ==
  LET t == Head(task_queue).task_id
  IN /\ Unlocked
     /\ task_queue # << >>
     /\ t \in tasks_to_cancel
     /\ task_queue' = Tail(task_queue)
     /\ tasks_to_cancel' = tasks_to_cancel \ {t}
     /\ cancel_task_get(e, t, ok)
     /\ UNCHANGED <<storeVars, executors_tasks, executors_status, daemon>>

(* update_task_status up to the read; the executor asks for Running. *)
sched_status_get(e, t, ok) ==
  /\ Unlocked
  /\ ok = ToRun(task_states[t])
  /\ IF ok THEN handler' = [by |-> e, op |-> "status", task |-> t,
                            ts |-> FromRun(task_states[t]), todo |-> {}]
           ELSE UNCHANGED handler
  /\ UNCHANGED <<storeVars, task_queue, executors_tasks, executors_status,
                 tasks_to_cancel, daemon>>

(* Mutant: the tags of the outputs are not stored. *)
sched_result_get_NoTags(e, t, result, tags, ok) ==
  /\ Unlocked
  /\ ok = ToFinish(task_states[t])
  /\ IF ok THEN handler' = [by |-> e, op |-> "result", task |-> t,
                            ts |-> FromFinish(task_states[t], result), todo |-> {}]
           ELSE UNCHANGED handler
  /\ UNCHANGED <<storeVars, task_queue, executors_tasks, executors_status,
                 tasks_to_cancel, daemon>>

(* update_task_result up to the read.  A successful result has a tag for   *)
(* every output of the staged task (upload_outputs).                       *)
sched_result_get(e, t, result, tags, ok) ==
  /\ Unlocked
  /\ ok = ToFinish(task_states[t])
  /\ IF ok THEN handler' = [by |-> e, op |-> "result", task |-> t,
                            ts |-> FromFinish(task_states[t], result),
                            todo |-> IF result = "Ok" THEN tags ELSE {}]
           ELSE UNCHANGED handler
  /\ UNCHANGED <<storeVars, task_queue, executors_tasks, executors_status,
                 tasks_to_cancel, daemon>>

(* update_output_cmac and put_into_db for one output of the result.  The   *)
(* loop follows the order of a HashMap.  A copy that already has a tag is  *)
(* not overwritten: the handler returns the error.                         *)
sched_result_put_output(n, ok) ==
  /\ handler # None /\ n \in handler.todo
  /\ ok = TagFree(handler.ts, n)
  /\ IF ok
       THEN /\ output_cmac' = [output_cmac EXCEPT
                                ![handler.ts.assigned_outputs[n].id] = handler.task]
            /\ handler' = [handler EXCEPT
                 !.todo = handler.todo \ {n},
                 !.ts = update_output_cmac(handler.ts, n, handler.task)]
       ELSE /\ handler' = None
            /\ UNCHANGED output_cmac
  /\ UNCHANGED <<task_states, use_numbers, staged_queue, cancel_queue, task_queue,
                 executors_tasks, executors_status, tasks_to_cancel, daemon>>

(* put_into_db of the record, the last request of every handler. *)
sched_put(op) ==
  /\ handler # None /\ handler.op = op /\ handler.todo = {}
  /\ PutTask(handler.task, handler.ts)
  /\ handler' = None
  /\ UNCHANGED <<output_cmac, use_numbers, staged_queue, cancel_queue, task_queue,
                 executors_tasks, executors_status, tasks_to_cancel, daemon>>

(* The handler ends early: a storage request fails. *)
sched_storage_error ==
  /\ handler # None
  /\ handler' = None
  /\ UNCHANGED <<storeVars, task_queue, executors_tasks, executors_status,
                 tasks_to_cancel, daemon>>
=============================================================================
