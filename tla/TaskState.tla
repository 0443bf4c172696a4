------------------------------ MODULE TaskState ------------------------------
(***************************************************************************)
(* The persistent state of a task and its typestate machine                *)
(* (types/src/task_state.rs, types/src/task.rs).                           *)
(*                                                                         *)
(* In the code a record TaskState is read from the database, converted     *)
(* with TryFrom into a Task<Tag> (which fails unless the stored status     *)
(* allows that tag), modified, and converted back with From, which         *)
(* computes the status that is stored.  Here a conversion into Task<Tag>   *)
(* is a predicate ToTag(ts), a conversion back an operator FromTag(ts).    *)
(* Names, keys, URLs and payloads are model values.                        *)
(***************************************************************************)
EXTENDS Naturals, FiniteSets

CONSTANTS
  Users,         \* user identifiers
  Tasks,         \* task identifiers (fresh UUIDs)
  Functions,     \* function identifiers
  InputNames,    \* names of the input slots of the functions
  OutputNames,   \* names of the output slots of the functions
  InputFiles,    \* identifiers of registered input files
  OutputFiles,   \* identifiers of registered output files
  None           \* absence of a value (Option::None, a missing key)

ASSUME NoneAssumption ==
  None \notin Users \cup Tasks \cup InputFiles \cup OutputFiles

TaskStatus ==
  {"Created", "DataAssigned", "Approved", "Staged", "Running",
   "Finished", "Canceled", "Failed"}

EndedStatus == {"Finished", "Failed", "Canceled"}

TaskResult == {"NotReady", "Ok", "Err"}

(* A HashMap from keys in S to values in T. *)
Map(S, T) == UNION {[D -> T] : D \in SUBSET S}

EmptyMap == [x \in {} |-> None]

(* The copy of an output file that a task record carries: the file and the *)
(* authentication tag it had when it was copied.  A tag is represented by  *)
(* the task whose run produced it.                                         *)
AssignedOutput == [id : OutputFiles, cmac : Tasks \cup {None}]

TaskStates ==
  [creator : Users,
   function_id : Functions,
   participants : SUBSET Users,
   approved_users : SUBSET Users,
   inputs_ownership : Map(InputNames, SUBSET Users),
   outputs_ownership : Map(OutputNames, SUBSET Users),
   assigned_inputs : Map(InputNames, InputFiles),
   assigned_outputs : Map(OutputNames, AssignedOutput),
   result : TaskResult,
   status : TaskStatus]

(* The value a read of a missing task key stands for. *)
NoTask == [status |-> "Absent"]

-----------------------------------------------------------------------------
(* Predicates of TaskState. *)

(* Mutant: one approval is taken for all of them. *)
everyone_approved_Any(ts) ==
  (\E u \in ts.participants : ts.participants = {u}) \/ ts.approved_users # {}

everyone_approved(ts) ==
  \/ \E u \in ts.participants : ts.participants = {u}
  \/ ts.participants = ts.approved_users

all_data_assigned(ts) ==
  /\ DOMAIN ts.inputs_ownership = DOMAIN ts.assigned_inputs
  /\ DOMAIN ts.outputs_ownership = DOMAIN ts.assigned_outputs

is_ended(ts) == ts.status \in EndedStatus

-----------------------------------------------------------------------------
(* Conversions of a stored TaskState into a Task<Tag>. *)

ToAssign(ts) == ts.status = "Created"

ToApprove(ts) ==
  \/ ToAssign(ts) /\ all_data_assigned(ts)
  \/ ts.status = "DataAssigned"

ToStage(ts) ==
  \/ ToApprove(ts) /\ everyone_approved(ts)
  \/ ts.status = "Approved"

(* Mutants: a task is run again, run before it is staged, or failed after  *)
(* its end.                                                                *)
ToRun_Again(ts) == ts.status \in {"Staged", "Running"}
ToRun_Early(ts) == ts.status \in {"Approved", "Staged"}
ToRun(ts) == ts.status = "Staged"

ToFinish(ts) == ts.status = "Running"

ToFail(ts) == ts.status \in {"Running", "Staged"}

ToCancel(ts) ==
  ts.status \in {"Running", "Staged", "Approved", "Created", "DataAssigned"}

(* Conversions of a Task<Tag> back into the TaskState that is stored: the  *)
(* status is that of the next tag when the task is ready for it.           *)

WithStatus(ts, s) == [ts EXCEPT !.status = s]

FromAssign(ts) ==
  WithStatus(ts, IF all_data_assigned(ts) THEN "DataAssigned" ELSE "Created")

FromApprove(ts) ==
  WithStatus(ts, IF everyone_approved(ts) THEN "Approved" ELSE "DataAssigned")

FromStage(ts) == WithStatus(ts, "Staged")

FromRun(ts) == WithStatus(ts, "Running")

FromFinish(ts, result) == [ts EXCEPT !.status = "Finished", !.result = result]

FromFail(ts) == [ts EXCEPT !.status = "Failed", !.result = "Err"]

FromCancel(ts) == [ts EXCEPT !.status = "Canceled", !.result = "Err"]

-----------------------------------------------------------------------------
(* Task<Create>::new.  A function is a record of the fields the task code  *)
(* reads; "allowed" are the users whose role and attribute create_task     *)
(* accepts for it.                                                         *)

FunctionSpecs ==
  [owner : Users, public : BOOLEAN, allowed : SUBSET Users,
   inputs : SUBSET InputNames, optional_inputs : SUBSET InputNames,
   outputs : SUBSET OutputNames, optional_outputs : SUBSET OutputNames,
   usage_quota : Nat \cup {None}]

all_owners(ownership) == UNION {ownership[k] : k \in DOMAIN ownership}

(* The request names every slot of the function, the optional ones aside,  *)
(* and no other.                                                           *)
RequestMatches(function, inputs, outputs) ==
  /\ DOMAIN inputs \cup function.optional_inputs = function.inputs
  /\ DOMAIN outputs \cup function.optional_outputs = function.outputs

NewTask(requester, f, function, inputs, outputs) ==
  [creator |-> requester,
   function_id |-> f,
   participants |-> all_owners(inputs) \cup all_owners(outputs)
                    \cup {requester}
                    \cup (IF function.public THEN {} ELSE {function.owner}),
   approved_users |-> {},
   inputs_ownership |-> inputs,
   outputs_ownership |-> outputs,
   assigned_inputs |-> EmptyMap,
   assigned_outputs |-> EmptyMap,
   result |-> "NotReady",
   status |-> "Created"]

(* One file may fill one slot: the requester owns it, its owners are those *)
(* the task was created with, and the slot is free.                        *)
CanAssign(requester, ownership, assigned, slot, owners) ==
  /\ requester \in owners
  /\ slot \in DOMAIN ownership /\ ownership[slot] = owners
  /\ slot \notin DOMAIN assigned

approve(ts, requester) ==
  [ts EXCEPT !.approved_users = @ \cup {requester}]

(* A successful run sets the tag of an output, which must not have one.    *)
TagFree(ts, n) ==
  n \in DOMAIN ts.assigned_outputs /\ ts.assigned_outputs[n].cmac = None

update_output_cmac(ts, n, t) ==
  [ts EXCEPT !.assigned_outputs =
     [@ EXCEPT ![n] = [id |-> ts.assigned_outputs[n].id, cmac |-> t]]]

(* StagedTask: what stage_for_running puts into the queue. *)
StagedTask(t, ts) ==
  [task_id |-> t,
   input_data |-> ts.assigned_inputs,
   output_data |-> [n \in DOMAIN ts.assigned_outputs |->
                      ts.assigned_outputs[n].id]]

StagedTasks ==
  [task_id : Tasks,
   input_data : Map(InputNames, InputFiles),
   output_data : Map(OutputNames, OutputFiles)]
=============================================================================
