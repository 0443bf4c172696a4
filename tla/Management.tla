----------------------------- MODULE Management -----------------------------
(***************************************************************************)
(* The task handlers of the management service                             *)
(* (services/management/enclave/src/service.rs).                           *)
(*                                                                         *)
(* A handler is an async function that holds no lock: it reads the task,   *)
(* computes on its own copy and writes the whole record back, each storage *)
(* request being a separate step.  call[h] is the handler running in slot  *)
(* h: where it is, the task it works on and its copy ts of the record.     *)
(* One frontend forwards one request at a time (it holds its management    *)
(* client for the whole call), so one slot is one frontend; two slots are  *)
(* a deployment with two frontends.                                        *)
(*                                                                         *)
(* A request that a check of the code rejects before any write changes     *)
(* nothing and is not a step of its own.                                   *)
(***************************************************************************)
EXTENDS TaskStore

CONSTANTS
  Handlers,      \* slots for concurrently running handlers
  Requests,      \* the kinds of requests that clients send in this instance
  MaxStaged,     \* bound: how often a client tries to stage one task
  MaxCancels     \* bound: how often the cancellation of one task is queued

ASSUME RequestsAssumption ==
  /\ Requests \subseteq {"create", "assign", "approve", "invoke", "cancel"}
  /\ MaxStaged \in Nat /\ MaxCancels \in Nat

VARIABLES
  call,          \* [Handlers -> Calls]
  consents,      \* history: what each approval that was accepted was about
  staged_count,  \* history: how often a task was put into the staged queue
  cancel_count   \* history: how often a task was put into the cancel queue

histVars == <<consents, staged_count, cancel_count>>
mgmtVars == <<call, histVars>>

CallPc == {"assign", "write", "usage", "stage", "staged", "count", "cancel"}

NoCall == [pc |-> "idle", task |-> None, ts |-> None, user |-> None,
           inputs |-> EmptyMap, outputs |-> EmptyMap, uses |-> 0]

ActiveCalls ==
  [pc : CallPc, task : Tasks, ts : TaskStates, user : Users \cup {None},
   inputs : Map(InputNames, InputFiles), outputs : Map(OutputNames, OutputFiles),
   uses : Nat]

Calls == ActiveCalls \cup {NoCall}

(* The files an assignment binds to the slots of a task. *)
Consents ==
  [user : Users, task : Tasks,
   input_data : Map(InputNames, InputFiles),
   output_data : Map(OutputNames, OutputFiles)]

Consent(u, t, ts) ==
  [user |-> u, task |-> t,
   input_data |-> StagedTask(t, ts).input_data,
   output_data |-> StagedTask(t, ts).output_data]

MgmtTypeOK ==
  /\ call \in [Handlers -> Calls]
  /\ consents \subseteq Consents
  /\ staged_count \in [Tasks -> Nat]
  /\ cancel_count \in [Tasks -> Nat]

Return(h) == call' = [call EXCEPT ![h] = NoCall]

(* Continue at pc with the copy ts of the record of task t. *)
Goto(h, where, t, ts) ==
  call' = [call EXCEPT ![h] =
             [NoCall EXCEPT !.pc = where, !.task = t, !.ts = ts]]

-----------------------------------------------------------------------------
(* create_task: the requester's role must admit them to the function, the  *)
(* request must match it, and the new record is written under a fresh id.  *)
create_task(h, t, u, f, inputs, outputs) ==
  /\ "create" \in Requests
  /\ call[h].pc = "idle"
  /\ ~ Exists(t)
  /\ u \in FunctionOf[f].allowed
  /\ RequestMatches(FunctionOf[f], inputs, outputs)
  /\ PutTask(t, NewTask(u, f, FunctionOf[f], inputs, outputs))
  /\ UNCHANGED <<output_cmac, use_numbers, staged_queue, cancel_queue, mgmtVars>>

(* assign_data up to the read of the task. *)
assign_data(h, t, u, inputs, outputs) ==
  /\ "assign" \in Requests
  /\ call[h].pc = "idle"
  /\ Exists(t)
  /\ u \in task_states[t].participants
  /\ ToAssign(task_states[t])
  /\ call' = [call EXCEPT ![h] =
                [NoCall EXCEPT !.pc = "assign", !.task = t, !.ts = task_states[t],
                               !.user = u, !.inputs = inputs, !.outputs = outputs]]
  /\ UNCHANGED <<storeVars, histVars>>

AssignOk(c) ==
  /\ \A n \in DOMAIN c.inputs :
       CanAssign(c.user, c.ts.inputs_ownership, c.ts.assigned_inputs, n,
                 InputOwner[c.inputs[n]])
  /\ \A n \in DOMAIN c.outputs :
       CanAssign(c.user, c.ts.outputs_ownership, c.ts.assigned_outputs, n,
                 OutputOwner[c.outputs[n]])

(* assign_input and assign_output of every file of the request: a file     *)
(* record is copied into the task as it is read, its tag included.         *)
Assigned(c) ==
  [c.ts EXCEPT
     !.assigned_inputs =
        [n \in DOMAIN @ \cup DOMAIN c.inputs |->
           IF n \in DOMAIN c.inputs THEN c.inputs[n] ELSE @[n]],
     !.assigned_outputs =
        [n \in DOMAIN @ \cup DOMAIN c.outputs |->
           IF n \in DOMAIN c.outputs
             THEN [id |-> c.outputs[n], cmac |-> output_cmac[c.outputs[n]]]
             ELSE @[n]]]

(* assign_data, the reads of the files.  Input records never change; the   *)
(* output records are read here, after the task.                           *)
assign_data_files(h) ==
  /\ call[h].pc = "assign"
  /\ \/ /\ AssignOk(call[h])
        /\ Goto(h, "write", call[h].task, FromAssign(Assigned(call[h])))
     \/ /\ ~ AssignOk(call[h])
        /\ Return(h)
  /\ UNCHANGED <<storeVars, histVars>>

(* approve_task up to its write. *)
approve_task(h, t, u) ==
  /\ "approve" \in Requests
  /\ call[h].pc = "idle"
  /\ Exists(t)
  /\ ToApprove(task_states[t])
  /\ u \in task_states[t].participants
  /\ Goto(h, "write", t, FromApprove(approve(task_states[t], u)))
  /\ consents' = consents \cup {Consent(u, t, task_states[t])}
  /\ UNCHANGED <<storeVars, staged_count, cancel_count>>

(* write_to_db of the record: the end of assign_data, approve_task and the *)
(* early cancellation.                                                     *)
write_to_db(h) ==
  /\ call[h].pc = "write"
  /\ PutTask(call[h].task, call[h].ts)
  /\ Return(h)
  /\ UNCHANGED <<output_cmac, use_numbers, staged_queue, cancel_queue,
                 histVars>>

-----------------------------------------------------------------------------
(* invoke_task by the creator, up to the read of the task. *)
invoke_task(h, t) ==
  /\ "invoke" \in Requests
  /\ staged_count[t] < MaxStaged
  /\ call[h].pc = "idle"
  /\ Exists(t)
  /\ Goto(h, "usage", t, task_states[t])
  /\ UNCHANGED <<storeVars, histVars>>

(* Mutant: the last use is granted once more. *)
QuotaLeft_OffByOne(f, uses) ==
  FunctionOf[f].usage_quota # None => FunctionOf[f].usage_quota >= uses

QuotaLeft(f, uses) ==
  FunctionOf[f].usage_quota # None => FunctionOf[f].usage_quota > uses

(* invoke_task, the read of the usage record, the quota check and the      *)
(* conversion of the copy of the task into Task<Stage>.                    *)
invoke_task_usage(h) ==
  LET c == call[h]
      uses == use_numbers[c.ts.function_id]
  IN /\ c.pc = "usage"
     /\ \/ /\ QuotaLeft(c.ts.function_id, uses) /\ ToStage(c.ts)
           /\ call' = [call EXCEPT ![h] = [c EXCEPT !.pc = "stage", !.uses = uses]]
        \/ /\ ~ (QuotaLeft(c.ts.function_id, uses) /\ ToStage(c.ts))
           /\ Return(h)
     /\ UNCHANGED <<storeVars, histVars>>

(* invoke_task, enqueue_to_db of the staged task. *)
invoke_task_enqueue(h) ==
  LET c == call[h]
  IN /\ c.pc = "stage"
     /\ staged_queue' = Append(staged_queue, StagedTask(c.task, c.ts))
     /\ call' = [call EXCEPT ![h] = [c EXCEPT !.pc = "staged"]]
     /\ staged_count' = [staged_count EXCEPT ![c.task] = @ + 1]
     /\ UNCHANGED <<task_states, output_cmac, use_numbers, cancel_queue,
                    consents, cancel_count>>

(* invoke_task, write_to_db of the task. *)
invoke_task_write(h) ==
  LET c == call[h]
  IN /\ c.pc = "staged"
     /\ PutTask(c.task, FromStage(c.ts))
     /\ call' = [call EXCEPT ![h] = [c EXCEPT !.pc = "count"]]
     /\ UNCHANGED <<output_cmac, use_numbers, staged_queue, cancel_queue,
                    histVars>>

(* invoke_task, write_to_db of the usage record. *)
invoke_task_count(h) ==
  LET c == call[h]
  IN /\ c.pc = "count"
     /\ use_numbers' = [use_numbers EXCEPT ![c.ts.function_id] = c.uses + 1]
     /\ Return(h)
     /\ UNCHANGED <<task_states, output_cmac, staged_queue, cancel_queue,
                    histVars>>

-----------------------------------------------------------------------------
(* Mutant: cancel_task cancels a staged task itself. *)
cancel_task_Early(h, t) ==
  /\ "cancel" \in Requests
  /\ cancel_count[t] < MaxCancels
  /\ call[h].pc = "idle"
  /\ Exists(t)
  /\ ToCancel(task_states[t])
  /\ Goto(h, "write", t, FromCancel(task_states[t]))
  /\ UNCHANGED <<storeVars, histVars>>

(* cancel_task by the creator or an administrator, up to its first write:  *)
(* a task that was handed to the scheduler is left to it, another one is   *)
(* canceled here.                                                          *)
cancel_task(h, t) ==
  /\ "cancel" \in Requests
  /\ cancel_count[t] < MaxCancels
  /\ call[h].pc = "idle"
  /\ Exists(t)
  /\ \/ /\ task_states[t].status \in {"Staged", "Running"}
        /\ Goto(h, "cancel", t, task_states[t])
     \/ /\ task_states[t].status \notin {"Staged", "Running"}
        /\ ToCancel(task_states[t])
        /\ Goto(h, "write", t, FromCancel(task_states[t]))
  /\ UNCHANGED <<storeVars, histVars>>

(* cancel_task, enqueue_to_db into the cancel queue. *)
cancel_task_enqueue(h) ==
  /\ call[h].pc = "cancel"
  /\ cancel_queue' = Append(cancel_queue, call[h].task)
  /\ Return(h)
  /\ cancel_count' = [cancel_count EXCEPT ![call[h].task] = @ + 1]
  /\ UNCHANGED <<task_states, output_cmac, use_numbers, staged_queue,
                 consents, staged_count>>

-----------------------------------------------------------------------------
(* A handler that ends early: a storage request fails and "?" returns the  *)
(* error, or the client disconnects and the server drops the future.  What *)
(* it has written stays written.                                           *)
Abandon(h) ==
  /\ call[h].pc # "idle"
  /\ Return(h)
  /\ UNCHANGED <<storeVars, histVars>>

(* The steps of the handler in slot h once it has read the task. *)
HandlerStep(h) ==
  \/ assign_data_files(h)
  \/ write_to_db(h)
  \/ invoke_task_usage(h)
  \/ invoke_task_enqueue(h)
  \/ invoke_task_write(h)
  \/ invoke_task_count(h)
  \/ cancel_task_enqueue(h)

(* The requests a client may send. *)
Request(h) ==
  \E t \in Tasks :
    \/ \E u \in Users, f \in Functions,
          inputs \in Map(InputNames, SUBSET Users),
          outputs \in Map(OutputNames, SUBSET Users) :
            create_task(h, t, u, f, inputs, outputs)
    \/ \E u \in Users, inputs \in Map(InputNames, InputFiles),
          outputs \in Map(OutputNames, OutputFiles) :
            assign_data(h, t, u, inputs, outputs)
    \/ \E u \in Users : approve_task(h, t, u)
    \/ invoke_task(h, t)
    \/ cancel_task(h, t)
=============================================================================
