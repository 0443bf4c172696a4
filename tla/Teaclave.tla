------------------------------ MODULE Teaclave ------------------------------
(***************************************************************************)
(* The task flow of Teaclave: management service, storage, scheduler and   *)
(* executors together, with the faults each of them may meet.              *)
(***************************************************************************)
EXTENDS Management, Execution

CONSTANTS
  InitialTasks,  \* [Tasks -> TaskStates \cup {NoTask}], the tasks prepared so far
  FaultKinds,    \* the kinds of faults that may happen
  MaxFaults,     \* bound: how many of them
  TimelyCalls    \* whether a handler of the management service outruns the
                 \* 30 seconds after which an executor is taken for lost

(* Task records as create_task, assign_data and approve_task leave them.   *)
Prepared(ts) ==
  /\ ts \in TaskStates
  /\ ts.status \in {"Created", "DataAssigned", "Approved"}
  /\ ts.result = "NotReady"
  /\ ts.creator \in ts.participants
  /\ ts.approved_users \subseteq ts.participants
  /\ ts.status = "Created" => ts.approved_users = {}
  /\ ts.status # "Created" => all_data_assigned(ts)
  /\ ts.status = "Approved" => everyone_approved(ts)
  /\ \A n \in DOMAIN ts.assigned_outputs : ts.assigned_outputs[n].cmac = None

ASSUME InitialAssumption ==
  /\ DOMAIN InitialTasks = Tasks
  /\ InitialTasks = [t \in Tasks |-> InitialTasks[t]]
  /\ \A t \in Tasks : InitialTasks[t] = NoTask \/ Prepared(InitialTasks[t])

ASSUME FaultAssumption ==
  /\ FaultKinds \subseteq
       {"abandon", "crash", "drop", "timeout", "storage", "rpc", "worker", "restart"}
  /\ MaxFaults \in Nat
  /\ TimelyCalls \in BOOLEAN

VARIABLE faults        \* number of faults so far

vars == <<storeVars, mgmtVars, schedVars, execVars, faults>>

TypeOK ==
  /\ StoreTypeOK
  /\ MgmtTypeOK
  /\ SchedTypeOK
  /\ ExecTypeOK
  /\ faults \in 0..MaxFaults

Init ==
  /\ task_states = InitialTasks
  /\ output_cmac = [f \in OutputFiles |-> None]
  /\ use_numbers = [f \in Functions |-> 0]
  /\ staged_queue = << >>
  /\ cancel_queue = << >>
  /\ call = [h \in Handlers |-> NoCall]
  /\ consents = UNION {{Consent(u, t, InitialTasks[t]) :
                          u \in InitialTasks[t].approved_users} :
                       t \in {t \in Tasks : InitialTasks[t] # NoTask}}
  /\ staged_count = [t \in Tasks |-> 0]
  /\ cancel_count = [t \in Tasks |-> 0]
  /\ SchedInit
  /\ ExecInit
  /\ faults = 0

-----------------------------------------------------------------------------
Fault(kind) ==
  /\ kind \in FaultKinds
  /\ faults < MaxFaults
  /\ faults' = faults + 1

(* An executor whose process has ended is found lost after 30 seconds.     *)
ExpireExited(e) ==
  /\ exec[e].pc = "exited"
  /\ TimelyCalls => ~ \E h \in Handlers :
                       call[h].pc = "staged" /\ call[h].task = executors_tasks[e]
  /\ daemon_expire(e)

(* A live one is found lost when its heartbeats are late or the clock of   *)
(* the scheduler steps back.                                               *)
ExpireLive(e) == exec[e].pc # "exited" /\ daemon_expire(e)

ManagementNext(h) ==
  /\ Request(h) \/ HandlerStep(h)
  /\ UNCHANGED <<schedVars, execVars, faults>>

DaemonNext ==
  /\ DaemonStep \/ \E e \in Executors : ExpireExited(e)
  /\ UNCHANGED <<mgmtVars, execVars, faults>>

ExecutorNext(e) ==
  /\ ExecutorStep(e) \/ \E r \in {"Ok", "Err"} : invoke_task_done(e, r)
  /\ UNCHANGED <<mgmtVars, faults>>

FaultNext ==
  \/ \E h \in Handlers :
       Abandon(h) /\ Fault("abandon") /\ UNCHANGED <<schedVars, execVars>>
  \/ \E e \in Executors :
       \/ crash(e) /\ Fault("crash") /\ UNCHANGED mgmtVars
       \/ crash_in_rpc(e) /\ Fault("drop") /\ UNCHANGED mgmtVars
       \/ rpc_lost(e) /\ Fault("rpc") /\ UNCHANGED mgmtVars
       \/ worker_lost(e) /\ Fault("worker") /\ UNCHANGED mgmtVars
       \/ handler_storage_error(e) /\ Fault("storage") /\ UNCHANGED mgmtVars
       \/ ExpireLive(e) /\ Fault("timeout") /\ UNCHANGED <<mgmtVars, execVars>>
  \/ daemon_storage_error /\ Fault("storage") /\ UNCHANGED <<mgmtVars, execVars>>
  \/ scheduler_restart /\ Fault("restart") /\ UNCHANGED mgmtVars

Next ==
  \/ \E h \in Handlers : ManagementNext(h)
  \/ DaemonNext
  \/ \E e \in Executors : ExecutorNext(e)
  \/ FaultNext

Spec == Init /\ [][Next]_vars

(* A handler that was started is run to its end; the daemon and every      *)
(* executor keep looping, and the mutex between them is a FIFO lock, so    *)
(* that each of them gets it in turn (hence strong fairness); time passes, *)
(* so that an executor that has exited is found lost in the end.           *)
Fairness ==
  /\ \A h \in Handlers :
       WF_vars(HandlerStep(h) /\ UNCHANGED <<schedVars, execVars, faults>>)
  /\ SF_vars(DaemonStep /\ UNCHANGED <<mgmtVars, execVars, faults>>)
  /\ \A e \in Executors :
       /\ SF_vars(ExpireExited(e) /\ UNCHANGED <<mgmtVars, execVars, faults>>)
       /\ SF_vars(ExecutorStep(e) /\ UNCHANGED <<mgmtVars, faults>>)

(* The functions return. *)
WorkerFairness ==
  \A e \in Executors :
    WF_vars((\E r \in {"Ok", "Err"} : invoke_task_done(e, r))
              /\ UNCHANGED <<mgmtVars, faults>>)

-----------------------------------------------------------------------------
(* The inductive strengthening of the properties below that hold when one  *)
(* handler of the management service runs at a time.  A task belongs to    *)
(* the management service until it is staged and to the scheduler after:   *)
(* the copy a handler is about to write is of a task that is still in its  *)
(* service's hands, and is a legal successor of what is stored.            *)
St(t) == task_states[t].status

PreStaged == {"Created", "DataAssigned", "Approved"}
Active == {"Staged", "Running"}
HandedOver == Active \cup EndedStatus

PrepareStep(s, s2) ==
  \/ s \in PreStaged /\ s2 \in {s, "Canceled"}
  \/ s = "Created" /\ s2 \in {"DataAssigned", "Approved"}
  \/ s = "DataAssigned" /\ s2 = "Approved"

CallInv ==
  \A h \in Handlers :
    LET c == call[h]
    IN /\ c.pc = "assign" => St(c.task) = "Created"
       /\ c.pc = "write" => PrepareStep(St(c.task), c.ts.status)
       /\ c.pc = "usage" /\ c.ts.status \in PreStaged => St(c.task) \in PreStaged
       /\ c.pc \in {"stage", "staged"} => St(c.task) \in PreStaged
       /\ c.pc = "cancel" => St(c.task) \in HandedOver

CancelInv ==
  /\ \A i \in DOMAIN cancel_queue : St(cancel_queue[i]) \in HandedOver
  /\ \A t \in tasks_to_cancel : St(t) \in HandedOver

MutexInv ==
  /\ handler # None => daemon.pc \in {"sleep", "dead"}
  /\ handler # None =>
       \/ /\ handler.op = "cancel" /\ St(handler.task) \in Active
          /\ handler.ts.status = "Canceled"
       \/ /\ handler.op = "status" /\ St(handler.task) = "Staged"
          /\ handler.ts.status = "Running"
       \/ /\ handler.op = "result" /\ St(handler.task) = "Running"
          /\ handler.ts.status = "Finished"
  /\ daemon.pc = "fail" =>
       St(daemon.task) \in Active /\ daemon.ts.status = "Failed"

StartedInv ==
  \A t \in Tasks :
    started[t] = 0 \/ (started[t] = 1 /\ St(t) \in {"Running"} \cup EndedStatus)

OwnershipInv == CallInv /\ CancelInv /\ MutexInv /\ StartedInv

(* A function is started at most once per task, whatever is lost, retried  *)
(* or timed out: an executor starts the worker only after                  *)
(* update_task_status stored Running, which only a Staged record allows.   *)
RunsAtMostOnce == \A t \in Tasks : started[t] <= 1

(* The status of a task, as get_task reports it, moves only along the      *)
(* typestate machine of types/src/task_state.rs although it is kept by     *)
(* two services that each read, convert and write back a whole record.     *)
Lifecycle ==
  INSTANCE TaskLifecycle
    WITH Task <- Tasks, runs <- started,
         status <- [t \in Tasks |-> task_states[t].status]

LifecycleSpec == Lifecycle!LSpec

(* The record of an ended task is never written again: result, outputs and *)
(* status that a client has seen stay.                                     *)
EndedIsFinal ==
  [][\A t \in Tasks : is_ended(task_states[t]) => task_states'[t] = task_states[t]]_vars

(* A successful task has the tag of every output in its record and in the  *)
(* record of the output file, so that register_input_from_output accepts   *)
(* it: update_task_result stores the files before the task.                *)
FinishedHasOutputs ==
  \A t \in Tasks :
    task_states[t].status = "Finished" /\ task_states[t].result = "Ok" =>
      \A n \in DOMAIN task_states[t].assigned_outputs :
        /\ task_states[t].assigned_outputs[n].cmac = t
        /\ output_cmac[task_states[t].assigned_outputs[n].id] # None

(* Whoever looks at the result of a task by its status finds it: an ended  *)
(* task has a result, another one has none.                                *)
ResultMatchesStatus ==
  \A t \in Tasks : Exists(t) =>
    /\ is_ended(task_states[t]) <=> task_states[t].result # "NotReady"
    /\ task_states[t].result = "Ok" => task_states[t].status = "Finished"

(* The outcome of a task is recorded as a whole.                           *)
OutcomeIsRecorded == FinishedHasOutputs /\ ResultMatchesStatus

(* The staged tasks on their way to, or at, an executor. *)
InFlight ==
  {staged_queue[i] : i \in DOMAIN staged_queue}
    \cup {task_queue[i] : i \in DOMAIN task_queue}
    \cup {exec[e].current_task : e \in {x \in Executors : exec[x].current_task # None}}

(* Everyone whose file the staged task s carries is among participants,    *)
(* and each participant has given consent to exactly these files, or is    *)
(* alone.                                                                  *)
Permitted(s, participants, given) ==
  /\ \A n \in DOMAIN s.input_data : InputOwner[s.input_data[n]] \subseteq participants
  /\ \A n \in DOMAIN s.output_data : OutputOwner[s.output_data[n]] \subseteq participants
  /\ \/ \E u \in Users : participants = {u}
     \/ \A u \in participants :
          [user |-> u, task |-> s.task_id, input_data |-> s.input_data,
           output_data |-> s.output_data] \in given

(* No data is processed without the consent of everyone concerned: each    *)
(* participant of the task, hence each owner of an assigned file and the   *)
(* owner of a private function, approved exactly the files that the staged *)
(* task carries, or is the only participant.  This is so however the       *)
(* handlers that assign, approve and invoke overwrite each other's writes. *)
StagedWithConsent ==
  \A s \in InFlight : Permitted(s, task_states[s.task_id].participants, consents)

(* A copy ts of the record of task t, whose record is stored: it names the *)
(* participants the task was created with, among them the owners of its    *)
(* files; its approvals are for the very files it carries; and none is     *)
(* given while files may still be assigned.                                *)
OwnersTakePart(ts) ==
  /\ \A n \in DOMAIN ts.inputs_ownership : ts.inputs_ownership[n] \subseteq ts.participants
  /\ \A n \in DOMAIN ts.outputs_ownership : ts.outputs_ownership[n] \subseteq ts.participants
  /\ \A n \in DOMAIN ts.assigned_inputs :
       InputOwner[ts.assigned_inputs[n]] \subseteq ts.participants
  /\ \A n \in DOMAIN ts.assigned_outputs :
       OutputOwner[ts.assigned_outputs[n].id] \subseteq ts.participants

CopyOf(t, ts, stored, given) ==
  /\ stored # NoTask /\ ts.participants = stored.participants
  /\ OwnersTakePart(ts)
  /\ \A u \in ts.approved_users : Consent(u, t, ts) \in given
  /\ ts.status = "Created" => ts.approved_users = {}
  /\ ts.status = "Approved" => everyone_approved(ts)

CallCopy(c, states, given) ==
  c.pc # "idle" =>
    /\ CopyOf(c.task, c.ts, states[c.task], given)
    /\ c.pc = "assign" => c.ts.status = "Created"
    /\ c.pc = "stage" => everyone_approved(c.ts)

(* The inductive strengthening of StagedWithConsent, for any number of     *)
(* handlers: whatever a handler or the daemon will write is such a copy.   *)
ConsentInv ==
  /\ \A t \in Tasks : Exists(t) => CopyOf(t, task_states[t], task_states[t], consents)
  /\ \A h \in Handlers : CallCopy(call[h], task_states, consents)
  /\ handler # None =>
       CopyOf(handler.task, handler.ts, task_states[handler.task], consents)
  /\ daemon.pc = "fail" =>
       CopyOf(daemon.task, daemon.ts, task_states[daemon.task], consents)
  /\ \A s \in InFlight : Exists(s.task_id)
  /\ StagedWithConsent

(* A cancellation ends the task it names and no other: a staged or running *)
(* task is canceled, at a pull or by stopping its executor, only if its    *)
(* own cancellation was put into the cancel queue.                         *)
CanceledOnRequest ==
  [][\A t \in Tasks :
       St(t) \in Active /\ St(t)' = "Canceled" => cancel_count[t] > 0]_vars

(* The tag of an output file is set once: assign_cmac refuses to overwrite *)
(* it.                                                                     *)
OutputTagWrittenOnce ==
  [][\A o \in OutputFiles :
       output_cmac[o] # None => output_cmac'[o] = output_cmac[o]]_vars

(* A worker thread that runs the function of a task is known to the        *)
(* scheduler, so that a lost executor or a cancellation ends the task,     *)
(* unless the task has ended or the daemon has.                            *)
ExecutingIsTracked ==
  \A e \in Executors :
    exec[e].worker # "none" =>
      LET t == exec[e].current_task.task_id
      IN \/ executors_tasks[e] = t
         \/ is_ended(task_states[t])
         \/ daemon.task = t
         \/ daemon.pc = "dead"

-----------------------------------------------------------------------------
(* A cancellation that was accepted for a staged or running task ends it,  *)
(* even if its function never returns: the scheduler cancels it at the     *)
(* pull, stops its executor at the next heartbeat, or fails it when the    *)
(* executor is lost.                                                       *)
CancelEnds ==
  \A t \in Tasks :
    (cancel_count[t] > 0) ~> is_ended(task_states[t])

(* A task that was invoked ends, and is not forgotten between the queues,  *)
(* the executors and the executors that are lost.                          *)
StagedEnds ==
  \A t \in Tasks : (task_states[t].status = "Staged") ~> is_ended(task_states[t])

(* An executor that takes no more tasks: it has exited, or the result it   *)
(* had was lost and it reports Executing for ever.                         *)
Spent(e) ==
  \/ exec[e].pc = "exited"
  \/ /\ exec[e].status = "Executing" /\ exec[e].worker = "none"
     /\ exec[e].pc \in {"heartbeat", "recv"}

(* A restart of the scheduler loses only what it had dequeued: when there  *)
(* are no more faults, a staged task that is in the queue in the database  *)
(* is dequeued, run and ended by the executors that knew the old scheduler *)
(* although another task was lost with it, as long as one of them is left: *)
(* update_task_status or update_task_result that is cut off by the restart *)
(* ends or spends its caller.                                              *)
QueuedEnds ==
  \A t \in Tasks :
    (/\ faults = MaxFaults
     /\ St(t) = "Staged"
     /\ \E i \in DOMAIN staged_queue : staged_queue[i].task_id = t)
      ~> (is_ended(task_states[t]) \/ \A e \in Executors : Spent(e))

(* An executor that took a task becomes available again, or exits. *)
ExecutorReturns ==
  \A e \in Executors : (exec[e].status = "Executing") ~> (exec[e].status = "Idle")
=============================================================================
