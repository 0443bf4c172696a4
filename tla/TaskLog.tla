------------------------------ MODULE TaskLog -------------------------------
(***************************************************************************)
(* The log of a task.  The logger of the executor's process writes to the  *)
(* buffer of the task that asked for its log (save_log), and otherwise to  *)
(* the secondary logger; the thread of the task and the main loop of the   *)
(* executor both log.  A thread that panics inside the logger's lock       *)
(* leaves it poisoned, and from then on whoever logs panics.               *)
(***************************************************************************)
EXTENDS Naturals, Sequences, FiniteSets

CONSTANTS
  Tasks, SaveLog,   \* the tasks, those with the argument save_log
  MayFail,          \* tasks whose invoke_task can return an error
  MaxRecords        \* bound on the records of a thread per task

VARIABLES
  task_logger,  \* "none" or the task whose buffer it holds
  poisoned,     \* the lock of the logger
  buffer,       \* task -> sequence of records
  secondary,    \* number of records given to the secondary logger
  main,         \* "idle", "executing" or "dead": the loop of the executor
  worker,       \* [task, pc]: pc is "none", "begin", "run", "Ok", "Err" or "dead"
  left,         \* tasks to come
  logged,       \* history: the records of the current task while it ran
  outcome       \* task -> "none", "Err" or the log in its TaskOutputs

vars == <<task_logger, poisoned, buffer, secondary, main, worker, left, logged, outcome>>

NoTask == [task |-> "none", pc |-> "none"]

Init ==
    /\ task_logger = "none" /\ poisoned = FALSE
    /\ buffer = [t \in Tasks |-> <<>>] /\ secondary = 0
    /\ main = "idle" /\ worker = NoTask /\ left = Tasks
    /\ logged = <<>> /\ outcome = [t \in Tasks |-> <<"none">>]

\* The loop pulls a task and spawns a thread for it.
Spawn(t) ==
    /\ main = "idle" /\ t \in left
    /\ main' = "executing" /\ left' = left \ {t}
    /\ worker' = [task |-> t, pc |-> "begin"] /\ logged' = <<>>
    /\ UNCHANGED <<task_logger, poisoned, buffer, secondary, outcome>>

\* The thread of the task asks for its records: log with the address of the
\* buffer.
log_task ==
    /\ worker.pc = "begin"
    /\ LET t == worker.task
           ok == ~poisoned /\ task_logger = "none"
       IN  IF t \in SaveLog
           THEN /\ task_logger' = IF ok THEN t ELSE task_logger
                /\ poisoned' = ~ok
                /\ worker' = [worker EXCEPT !.pc = IF ok THEN "run" ELSE "dead"]
           ELSE /\ worker' = [worker EXCEPT !.pc = "run"]
                /\ UNCHANGED <<task_logger, poisoned>>
    /\ UNCHANGED <<buffer, secondary, main, left, logged, outcome>>

\* TeaclaveLogger::log of a record, as long as the lock is not poisoned.
Log(record) ==
    IF task_logger # "none"
    THEN buffer' = [buffer EXCEPT ![task_logger] = Append(@, record)] /\ UNCHANGED secondary
    ELSE secondary' = secondary + 1 /\ UNCHANGED buffer

\* A thread logs; both have a bound per task.
Records(who) == Cardinality({i \in DOMAIN logged : logged[i] = who})

worker_log ==
    /\ worker.pc = "run" /\ Records("worker") < MaxRecords
    /\ IF poisoned
       THEN worker' = [worker EXCEPT !.pc = "dead"] /\ UNCHANGED <<buffer, secondary, logged>>
       ELSE Log("worker") /\ logged' = Append(logged, "worker") /\ UNCHANGED worker
    /\ UNCHANGED <<task_logger, poisoned, main, left, outcome>>

main_log ==
    /\ main # "dead"
    /\ IF worker.pc = "run" THEN Records("main") < MaxRecords
       ELSE /\ secondary < MaxRecords
            /\ task_logger # "none" => Len(buffer[task_logger]) < MaxRecords
    /\ IF poisoned
       THEN main' = "dead" /\ UNCHANGED <<buffer, secondary, logged>>
       ELSE Log("main") /\ UNCHANGED main
            /\ logged' = IF worker.pc = "run" THEN Append(logged, "main") ELSE logged
    /\ UNCHANGED <<task_logger, poisoned, worker, left, outcome>>

\* invoke_task returns an error from the files, the worker or the function.
invoke_task_Err ==
    /\ worker.pc = "run" /\ worker.task \in MayFail
    /\ worker' = [worker EXCEPT !.pc = "Err"]
    /\ UNCHANGED <<task_logger, poisoned, buffer, secondary, main, left, logged, outcome>>

\* invoke_task ends the logging of the task and returns its outputs.
invoke_task_Ok ==
    /\ worker.pc = "run"
    /\ IF worker.task \in SaveLog /\ (poisoned \/ task_logger = "none")
       THEN /\ worker' = [worker EXCEPT !.pc = "dead"] /\ poisoned' = TRUE
            /\ UNCHANGED <<task_logger, outcome>>
       ELSE /\ task_logger' = IF worker.task \in SaveLog THEN "none" ELSE task_logger
            /\ worker' = [worker EXCEPT !.pc = "Ok"]
            /\ outcome' = [outcome EXCEPT ![worker.task] = buffer[worker.task]]
            /\ UNCHANGED poisoned
    /\ UNCHANGED <<buffer, secondary, main, left, logged>>

\* The loop has the result and sends it to the scheduler.
Result ==
    /\ main = "executing" /\ worker.pc \in {"Ok", "Err"}
    /\ main' = "idle" /\ worker' = NoTask
    /\ outcome' = IF worker.pc = "Err" THEN [outcome EXCEPT ![worker.task] = <<"Err">>] ELSE outcome
    /\ UNCHANGED <<task_logger, poisoned, buffer, secondary, left, logged>>

Next ==
    \/ \E t \in Tasks : Spawn(t)
    \/ log_task \/ worker_log \/ main_log \/ invoke_task_Err \/ invoke_task_Ok \/ Result

Spec == Init /\ [][Next]_vars

-----------------------------------------------------------------------------
\* A task with save_log that ends with an error: invoke_task returns before the
\* logging is ended, and the logger keeps the buffer of the task.
KeptItsLogger(t) == t \in SaveLog /\ outcome[t] = <<"Err">>

\* log_task: "only one task is allowed to be logged", end_logging_task: "task
\* should be logged before being ended": no assertion fails, no thread finds the
\* lock poisoned and the logger is that of the running task, until a task with
\* save_log has ended with an error.
OneTaskIsLogged ==
    \/ \E t \in Tasks : KeptItsLogger(t)
    \/ /\ ~poisoned /\ main # "dead" /\ worker.pc # "dead"
       /\ task_logger \in {"none", worker.task}

\* The log that comes with the outputs of a task with save_log is what the
\* process logged while the task ran, all of it and nothing else, whatever
\* tasks have failed before.
LogIsOfItsTask ==
    worker.pc = "Ok" => outcome[worker.task] = IF worker.task \in SaveLog THEN logged ELSE <<>>
=============================================================================
