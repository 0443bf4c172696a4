------------------------------ MODULE TaskStore ------------------------------
(***************************************************************************)
(* The part of the storage service that the task flow uses: the database   *)
(* entries of tasks, output files and function usage, and the two queues   *)
(* in the database through which the management service hands tasks and    *)
(* cancellations to the scheduler.  The storage service executes requests  *)
(* one at a time on one thread (ProxyService/TeaclaveStorageService::      *)
(* start), so each request is one atomic step here; a handler that issues  *)
(* several requests takes several steps.                                   *)
(***************************************************************************)
EXTENDS TaskState, Sequences

CONSTANTS
  FunctionOf,    \* [Functions -> FunctionSpecs], the registered functions
  InputOwner,    \* [InputFiles -> SUBSET Users], owners of an input file
  OutputOwner    \* [OutputFiles -> SUBSET Users], owners of an output file

ASSUME FunctionAssumption == FunctionOf \in [Functions -> FunctionSpecs]
ASSUME OwnerAssumption ==
  /\ InputOwner \in [InputFiles -> SUBSET Users]
  /\ OutputOwner \in [OutputFiles -> SUBSET Users]

VARIABLES
  task_states,   \* task key -> stored TaskState, or NoTask
  output_cmac,   \* output file key -> its authentication tag, or None
  use_numbers,   \* function key -> FunctionUsage.use_numbers
  staged_queue,  \* the queue "staged-task" (StagedTask::get_queue_key)
  cancel_queue   \* the queue CANCEL_QUEUE_KEY, as task identifiers

storeVars == <<task_states, output_cmac, use_numbers, staged_queue, cancel_queue>>

StoreTypeOK ==
  /\ task_states \in [Tasks -> TaskStates \cup {NoTask}]
  /\ output_cmac \in [OutputFiles -> Tasks \cup {None}]
  /\ use_numbers \in [Functions -> Nat]
  /\ staged_queue \in Seq(StagedTasks)
  /\ cancel_queue \in Seq(Tasks)

(* put of a TaskState: the whole record is replaced. *)
PutTask(t, ts) == task_states' = [task_states EXCEPT ![t] = ts]

Exists(t) == task_states[t] # NoTask
=============================================================================
