----------------------------- MODULE MCTaskFlow -----------------------------
(***************************************************************************)
(* Instances of Teaclave: a function, tasks that are still to be prepared  *)
(* or ready to be invoked, and the symmetries of a run.  Several scenarios *)
(* share a run: they differ in the function, the tasks and the faults, and *)
(* the scenario of a behaviour is fixed in its first state.                *)
(***************************************************************************)
EXTENDS Teaclave, TLC

Fun == INSTANCE Functions

CONSTANTS alice, bob, f, t1, t2, o1, o2, Scenarios

VARIABLE scenario

(* A private function of bob that alice may use. *)
FunctionWithQuota(quota) ==
  [x \in {f} |-> [owner |-> bob, public |-> FALSE, allowed |-> {alice},
                  inputs |-> {}, optional_inputs |-> {},
                  outputs |-> {"out"}, optional_outputs |-> {},
                  usage_quota |-> quota]]
NoQuota == FunctionWithQuota(None)

(* The same with an input, and with an output that may be left out. *)
FunctionWithInput ==
  [NoQuota EXCEPT ![f].inputs = {"in"}, ![f].optional_outputs = {"out"}]

OwnedByAlice == [o \in OutputFiles |-> {alice}]
OwnedByBob == [o \in OutputFiles |-> {bob}]
InputsOfAlice == [i \in InputFiles |-> {alice}]

(* A task that alice created and everyone approved. *)
ApprovedTask(o) ==
  [creator |-> alice, function_id |-> f, participants |-> {alice, bob},
   approved_users |-> {alice, bob},
   inputs_ownership |-> EmptyMap, outputs_ownership |-> [n \in {"out"} |-> {alice}],
   assigned_inputs |-> EmptyMap,
   assigned_outputs |-> [n \in {"out"} |-> [id |-> o, cmac |-> None]],
   result |-> "NotReady", status |-> "Approved"]

NoTasks == [t \in Tasks |-> NoTask]
OneTask == [t \in Tasks |-> IF t = t1 THEN ApprovedTask(o1) ELSE NoTask]
TwoTasks == t1 :> ApprovedTask(o1) @@ t2 :> ApprovedTask(o2)
SharedOutput == t1 :> ApprovedTask(o1) @@ t2 :> ApprovedTask(o1)

ExecutorsAlike == Permutations(Executors)
HandlersAlike == Permutations(Handlers)

(* "plain" is the instance that the configuration describes; the others    *)
(* change it: the scheduler may be restarted, too; two tasks share a quota *)
(* of one and their invocations are abandoned anywhere; two tasks are      *)
(* invoked and canceled without faults.                                    *)
QuotaOfOne == FunctionWithQuota(1)
R == INSTANCE Teaclave WITH FaultKinds <- {"abandon", "crash", "drop", "rpc", "restart"}
Q == INSTANCE Teaclave WITH InitialTasks <- TwoTasks, FaultKinds <- {"abandon"},
                            FunctionOf <- QuotaOfOne, Requests <- {"invoke"}, MaxFaults <- 1
P == INSTANCE Teaclave WITH InitialTasks <- TwoTasks, FaultKinds <- {}, MaxStaged <- 1

all == <<vars, scenario>>
ScenarioInit ==
    /\ scenario \in Scenarios
    /\ IF scenario \in {"quota", "pair"} THEN P!Init ELSE Init
ScenarioNext ==
    /\ \/ scenario = "plain" /\ Next
       \/ scenario = "restart" /\ R!Next
       \/ scenario = "quota" /\ Q!Next
       \/ scenario = "pair" /\ P!Next
    /\ UNCHANGED scenario
ScenarioSpec == ScenarioInit /\ [][ScenarioNext]_all
FairScenarioSpec == ScenarioSpec /\ Fairness

\* As long as the scheduler is not restarted, a worker thread that runs the
\* function of a task is known to it, so that a lost executor or a
\* cancellation ends the task, unless the task or the daemon has ended.
WorkersAreTracked == scenario # "restart" => ExecutingIsTracked

\* invoke_task compares the stored count with the quota, stages, and counts
\* last, so that an invocation which is abandoned after it has staged is not
\* counted.  One frontend forwards the requests here: each abandoned handler
\* lets the function be staged at most once more than its quota of one, and
\* nothing else does, not the order in which the tasks are invoked again nor
\* what the scheduler and the executors write to their records meanwhile.
QuotaRespected ==
  scenario = "quota" => Fun!SumFunctionOnSet(staged_count, Tasks) <= 1 + faults

(* A task that was invoked ends if functions return, and is not forgotten  *)
(* between the queues, the executors and the executors that are lost.      *)
StagedTasksEnd == WorkerFairness => StagedEnds

(* An executor that took a task becomes available again, or exits, if      *)
(* functions return.                                                       *)
ExecutorsReturn == WorkerFairness => ExecutorReturns

(* A staged task that a restart of the scheduler finds in the queue of the *)
(* database ends if functions return, although another task was lost with  *)
(* the scheduler, as long as an executor is left.                          *)
QueuedTasksEnd == WorkerFairness => QueuedEnds
=============================================================================
