---------------------------- MODULE TaskLifecycle ----------------------------
(***************************************************************************)
(* What the services together promise about the life of a task, seen from  *)
(* a client that polls get_task: only the stored status, and the number of *)
(* times the function of the task was started.  A task is prepared, staged *)
(* at most once, run at most once, and reaches one of three final states   *)
(* that it never leaves.                                                   *)
(***************************************************************************)
EXTENDS Naturals

CONSTANT Task

VARIABLES
  status,   \* [Task -> status, or "Absent" before create_task]
  runs      \* [Task -> Nat]

Preparing == {"Created", "DataAssigned", "Approved"}
Final == {"Finished", "Failed", "Canceled"}

Move(t, from, to) ==
  /\ status[t] \in from
  /\ status' = [status EXCEPT ![t] = to]

LInit ==
  /\ status \in [Task -> {"Absent"} \cup Preparing]
  /\ runs = [t \in Task |-> 0]

Create(t) == Move(t, {"Absent"}, "Created") /\ UNCHANGED runs

(* assign_data and approve_task. *)
Prepare(t) ==
  /\ \/ Move(t, {"Created"}, "DataAssigned")
     \/ Move(t, {"Created", "DataAssigned"}, "Approved")
  /\ UNCHANGED runs

(* invoke_task; a task of one participant needs no approval. *)
Stage(t) == Move(t, Preparing, "Staged") /\ UNCHANGED runs

(* An executor reports that it starts the function. *)
Run(t) ==
  /\ Move(t, {"Staged"}, "Running")
  /\ \/ runs' = [runs EXCEPT ![t] = @ + 1]
     \/ UNCHANGED runs   \* the executor is lost before it does

Finish(t) == Move(t, {"Running"}, "Finished") /\ UNCHANGED runs

Fail(t) == Move(t, {"Staged", "Running"}, "Failed") /\ UNCHANGED runs

Cancel(t) == Move(t, Preparing \cup {"Staged", "Running"}, "Canceled") /\ UNCHANGED runs

LNext ==
  \E t \in Task :
    Create(t) \/ Prepare(t) \/ Stage(t) \/ Run(t) \/ Finish(t) \/ Fail(t) \/ Cancel(t)

LSpec == LInit /\ [][LNext]_<<status, runs>>
=============================================================================
