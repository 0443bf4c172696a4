--------------------------- MODULE TeaclaveProofs ---------------------------
(* Type correctness of the composed task flow, and what holds when one     *)
(* handler of the management service runs at a time, whatever the          *)
(* scheduler, the executors and the faults do: the task flow implements    *)
(* TaskLifecycle.  What the conversions of TaskState do to the type and    *)
(* the status of a record is stated first and once, so that the proofs     *)
(* about the services need not open the record.                            *)
EXTENDS Teaclave, Sequences, TLAPS

(* A function on part of S with values in T is a map from S to T.          *)
LEMMA MapIntro ==
  ASSUME NEW S, NEW T, NEW D \in SUBSET S, NEW g \in [D -> T]
  PROVE  g \in Map(S, T)
BY Zenon DEF Map

(* A map is a function from its domain, which is part of S, to T.          *)
LEMMA MapElim ==
  ASSUME NEW S, NEW T, NEW g \in Map(S, T)
  PROVE  DOMAIN g \in SUBSET S /\ g \in [DOMAIN g -> T]
BY Zenon DEF Map

(* The empty HashMap is a map. *)
LEMMA EmptyMapType ==
  ASSUME NEW S, NEW T
  PROVE  EmptyMap \in Map(S, T)
<1>1. EmptyMap \in [{} -> T]
  BY Zenon DEF EmptyMap
<1> QED BY Zenon, <1>1, MapIntro

(* The conversions keep a record a record and store the status of the tag  *)
(* that follows.                                                           *)
LEMMA WithStatusType ==
  ASSUME NEW ts \in TaskStates, NEW s \in TaskStatus
  PROVE  WithStatus(ts, s) \in TaskStates /\ WithStatus(ts, s).status = s
BY Zenon DEF WithStatus, TaskStates

LEMMA FromAssignType ==
  ASSUME NEW ts \in TaskStates
  PROVE  /\ FromAssign(ts) \in TaskStates
         /\ FromAssign(ts).status \in {"Created", "DataAssigned"}
BY Zenon, WithStatusType DEF FromAssign, TaskStatus

LEMMA FromApproveType ==
  ASSUME NEW ts \in TaskStates
  PROVE  /\ FromApprove(ts) \in TaskStates
         /\ FromApprove(ts).status \in {"DataAssigned", "Approved"}
BY Zenon, WithStatusType DEF FromApprove, TaskStatus

LEMMA FromStageType ==
  ASSUME NEW ts \in TaskStates
  PROVE  FromStage(ts) \in TaskStates /\ FromStage(ts).status = "Staged"
BY Zenon, WithStatusType DEF FromStage, TaskStatus

LEMMA FromRunType ==
  ASSUME NEW ts \in TaskStates
  PROVE  FromRun(ts) \in TaskStates /\ FromRun(ts).status = "Running"
BY Zenon, WithStatusType DEF FromRun, TaskStatus

LEMMA FromFinishType ==
  ASSUME NEW ts \in TaskStates, NEW r \in TaskResult
  PROVE  /\ FromFinish(ts, r) \in TaskStates
         /\ FromFinish(ts, r).status = "Finished"
BY Zenon DEF FromFinish, TaskStates, TaskStatus

LEMMA FromFailType ==
  ASSUME NEW ts \in TaskStates
  PROVE  FromFail(ts) \in TaskStates /\ FromFail(ts).status = "Failed"
BY Zenon DEF FromFail, TaskStates, TaskStatus, TaskResult

LEMMA FromCancelType ==
  ASSUME NEW ts \in TaskStates
  PROVE  FromCancel(ts) \in TaskStates /\ FromCancel(ts).status = "Canceled"
BY Zenon DEF FromCancel, TaskStates, TaskStatus, TaskResult

LEMMA ApproveType ==
  ASSUME NEW ts \in TaskStates, NEW u \in Users
  PROVE  approve(ts, u) \in TaskStates
BY Zenon DEF approve, TaskStates

(* A new task record is well-formed. *)
LEMMA NewTaskType ==
  ASSUME NEW u \in Users, NEW f \in Functions, NEW function \in FunctionSpecs,
         NEW inputs \in Map(InputNames, SUBSET Users),
         NEW outputs \in Map(OutputNames, SUBSET Users)
  PROVE  /\ NewTask(u, f, function, inputs, outputs) \in TaskStates
         /\ NewTask(u, f, function, inputs, outputs).status = "Created"
<1>1. all_owners(inputs) \subseteq Users /\ all_owners(outputs) \subseteq Users
  <2>1. inputs \in [DOMAIN inputs -> SUBSET Users]
    BY Zenon, MapElim
  <2>2. outputs \in [DOMAIN outputs -> SUBSET Users]
    BY Zenon, MapElim
  <2> QED BY Zenon, <2>1, <2>2 DEF all_owners
<1>2. function.owner \in Users
  BY Zenon DEF FunctionSpecs
<1>3. /\ EmptyMap \in Map(InputNames, InputFiles)
      /\ EmptyMap \in Map(OutputNames, AssignedOutput)
  BY Zenon, EmptyMapType
<1> QED BY Zenon, <1>1, <1>2, <1>3 DEF NewTask, TaskStates, TaskResult, TaskStatus

(* What stage_for_running puts into the queue is a staged task. *)
LEMMA StagedTaskType ==
  ASSUME NEW t \in Tasks, NEW ts \in TaskStates
  PROVE  StagedTask(t, ts) \in StagedTasks /\ StagedTask(t, ts).task_id = t
<1>1. /\ ts.assigned_inputs \in Map(InputNames, InputFiles)
      /\ ts.assigned_outputs \in Map(OutputNames, AssignedOutput)
  BY Zenon DEF TaskStates
<1> DEFINE D == DOMAIN ts.assigned_outputs
           ids == [n \in D |-> ts.assigned_outputs[n].id]
<1>2. D \in SUBSET OutputNames /\ ts.assigned_outputs \in [D -> AssignedOutput]
  BY Zenon, <1>1, MapElim
<1>3. ids \in [D -> OutputFiles]
  BY Zenon, <1>2 DEF AssignedOutput
<1>4. ids \in Map(OutputNames, OutputFiles)
  BY Zenon, <1>2, <1>3, MapIntro
<1> QED BY Zenon, <1>1, <1>4 DEF StagedTask, StagedTasks

(* Setting the tag of an output changes neither type nor status. *)
LEMMA UpdateCmacType ==
  ASSUME NEW ts \in TaskStates, NEW n, TagFree(ts, n), NEW t \in Tasks
  PROVE  /\ ts.assigned_outputs[n].id \in OutputFiles
         /\ update_output_cmac(ts, n, t) \in TaskStates
         /\ update_output_cmac(ts, n, t).status = ts.status
<1> DEFINE ao == ts.assigned_outputs
           a == [id |-> ao[n].id, cmac |-> t]
           g == [ao EXCEPT ![n] = a]
<1>1. ao \in Map(OutputNames, AssignedOutput)
  BY Zenon DEF TaskStates
<1>2. DOMAIN ao \in SUBSET OutputNames /\ ao \in [DOMAIN ao -> AssignedOutput]
  BY Zenon, <1>1, MapElim
<1>3. ao[n].id \in OutputFiles /\ a \in AssignedOutput
  BY Zenon, <1>2 DEF AssignedOutput, TagFree
<1>4. g \in [DOMAIN ao -> AssignedOutput]
  BY Zenon, <1>2, <1>3
<1>5. g \in Map(OutputNames, AssignedOutput)
  BY Zenon, <1>2, <1>4, MapIntro
<1>6. update_output_cmac(ts, n, t) = [ts EXCEPT !.assigned_outputs = g]
  BY Zenon DEF update_output_cmac
<1> HIDE DEF g
<1> QED BY Zenon, <1>3, <1>5, <1>6 DEF TaskStates

(* Queues keep their type. *)
LEMMA AppendType ==
  ASSUME NEW S, NEW q \in Seq(S), NEW x \in S
  PROVE  Append(q, x) \in Seq(S)
OBVIOUS

LEMMA HeadTailType ==
  ASSUME NEW S, NEW q \in Seq(S), q # << >>
  PROVE  Head(q) \in S /\ Tail(q) \in Seq(S)
OBVIOUS
(* The task and the output slots of a staged task. *)
LEMMA StagedTaskElim ==
  ASSUME NEW s \in StagedTasks
  PROVE  s.task_id \in Tasks /\ DOMAIN s.output_data \in SUBSET OutputNames
<1>1. s.task_id \in Tasks /\ s.output_data \in Map(OutputNames, OutputFiles)
  BY Zenon DEF StagedTasks
<1> QED BY Zenon, <1>1, MapElim
-----------------------------------------------------------------------------

LEMMA QueueElements ==
  ASSUME NEW S, NEW q \in Seq(S)
  PROVE  /\ \A x \in S : \A i \in DOMAIN Append(q, x) :
              Append(q, x)[i] = x \/ (i \in DOMAIN q /\ Append(q, x)[i] = q[i])
         /\ q # << >> => /\ 1 \in DOMAIN q /\ Head(q) = q[1]
                         /\ \A i \in DOMAIN Tail(q) :
                              i + 1 \in DOMAIN q /\ Tail(q)[i] = q[i + 1]
OBVIOUS

LEMMA FlightType == TypeOK' => InFlight' \subseteq StagedTasks
<1> SUFFICES ASSUME TypeOK' PROVE InFlight' \subseteq StagedTasks
  BY Zenon
<1>1. /\ \A i \in DOMAIN staged_queue' : staged_queue'[i] \in StagedTasks
      /\ \A i \in DOMAIN task_queue' : task_queue'[i] \in StagedTasks
  BY DEF TypeOK, StoreTypeOK, SchedTypeOK
<1>2. \A e \in Executors : exec'[e].current_task \in StagedTasks \cup {None}
  <2> SUFFICES ASSUME NEW e \in Executors
               PROVE  exec'[e].current_task \in StagedTasks \cup {None}
    BY Zenon
  <2>1. exec'[e] \in ExecutorStates
    BY Zenon DEF TypeOK, ExecTypeOK
  <2> QED BY Zenon, <2>1 DEF ExecutorStates, IdleExecutors, BusyExecutors
<1> QED BY Zenon, <1>1, <1>2 DEF InFlight

(* The scheduler and the executors pass on what was staged. *)
LEMMA FlightShrinks ==
  ASSUME TypeOK,
         \/ UNCHANGED staged_queue
         \/ staged_queue # << >> /\ staged_queue' = Tail(staged_queue),
         \/ UNCHANGED task_queue
         \/ task_queue' = << >>
         \/ task_queue # << >> /\ task_queue' = Tail(task_queue)
         \/ staged_queue # << >> /\ task_queue' = Append(task_queue, Head(staged_queue)),
         \A e \in Executors :
           \/ exec'[e].current_task \in {None, exec[e].current_task}
           \/ task_queue # << >> /\ exec'[e].current_task = Head(task_queue)
  PROVE  InFlight' \subseteq InFlight
<1>1. /\ staged_queue \in Seq(StagedTasks)
      /\ task_queue \in Seq(StagedTasks)
  BY Zenon DEF TypeOK, StoreTypeOK, SchedTypeOK
<1>2. /\ \A i \in DOMAIN staged_queue : staged_queue[i] \in InFlight
      /\ \A i \in DOMAIN task_queue : task_queue[i] \in InFlight
      /\ \A e \in Executors : exec[e].current_task \in InFlight \cup {None}
  BY Zenon DEF InFlight
<1>3. /\ staged_queue # << >> => Head(staged_queue) \in InFlight \cap StagedTasks
      /\ task_queue # << >> => Head(task_queue) \in InFlight
  BY SMTT(60), <1>1, <1>2, QueueElements
<1>4. \A i \in DOMAIN staged_queue' : staged_queue'[i] \in InFlight
  BY SMTT(90), <1>1, <1>2, QueueElements
<1>5. \A i \in DOMAIN task_queue' : task_queue'[i] \in InFlight
  <2>1. CASE UNCHANGED task_queue \/ task_queue' = << >>
    BY <1>2, <2>1
  <2>2. CASE task_queue # << >> /\ task_queue' = Tail(task_queue)
    BY Zenon, <1>1, <1>2, <2>2, QueueElements
  <2>3. CASE staged_queue # << >> /\ task_queue' = Append(task_queue, Head(staged_queue))
    BY <1>1, <1>2, <1>3, <2>3, QueueElements
  <2> QED BY Zenon, <2>1, <2>2, <2>3
<1>6. \A e \in Executors : exec'[e].current_task \in InFlight \cup {None}
  BY Zenon, <1>2, <1>3
<1> QED BY ZenonT(60), <1>4, <1>5, <1>6 DEF InFlight

(* An executor keeps its task or gives it up, except in a pull. *)
ExecMove(e) ==
  \/ UNCHANGED exec \/ Exit(e) \/ ResultDropped(e) \/ OnRpcError(e)
  \/ \E where : ExecAt(e, where)
  \/ \E r : exec' = [exec EXCEPT ![e].worker = r]
  \/ \E where, r : exec' = [exec EXCEPT ![e].pc = where, ![e].worker = r]
  \/ exec' = [exec EXCEPT ![e] = NewExecutor]

LEMMA ExecMoveKeeps ==
  ASSUME TypeOK, NEW e \in Executors, ExecMove(e)
  PROVE  \A x \in Executors : exec'[x].current_task \in {None, exec[x].current_task}
<1>1. DOMAIN exec = Executors /\ exec[e] \in ExecutorStates
  BY Zenon DEF TypeOK, ExecTypeOK
<1>2. /\ "current_task" \in DOMAIN exec[e] /\ "pc" \in DOMAIN exec[e]
      /\ "worker" \in DOMAIN exec[e]
  BY Zenon, <1>1 DEF ExecutorStates, IdleExecutors, BusyExecutors
<1>3. CASE UNCHANGED exec
  BY Zenon, <1>3
<1>4. CASE Exit(e) \/ exec' = [exec EXCEPT ![e] = NewExecutor]
  BY <1>1, <1>4 DEF Exit, NewExecutor
<1>5. ASSUME NEW where, ExecAt(e, where)
      PROVE  \A x \in Executors : exec'[x].current_task \in {None, exec[x].current_task}
  BY Zenon, <1>1, <1>2, <1>5 DEF ExecAt
<1>6. ASSUME NEW r, exec' = [exec EXCEPT ![e].worker = r]
      PROVE  \A x \in Executors : exec'[x].current_task \in {None, exec[x].current_task}
  BY Zenon, <1>1, <1>2, <1>6
<1>7. ASSUME NEW where, NEW r,
             exec' = [exec EXCEPT ![e].pc = where, ![e].worker = r]
      PROVE  \A x \in Executors : exec'[x].current_task \in {None, exec[x].current_task}
  BY Zenon, <1>1, <1>2, <1>7
<1>8. CASE ResultDropped(e)
  BY Zenon, <1>7, <1>8 DEF ResultDropped
<1> QED BY Zenon, <1>3, <1>4, <1>5, <1>6, <1>7, <1>8 DEF ExecMove, OnRpcError

(* The task an executor has is one of the store. *)
LEMMA CurrentTask ==
  ASSUME TypeOK, NEW e \in Executors, exec[e].pc \in {"status", "result"}
  PROVE  /\ exec[e].current_task.task_id \in Tasks
         /\ exec[e].pc = "result" => exec[e].worker \in TaskResult
<1>1. exec[e] \in BusyExecutors
  BY Zenon DEF TypeOK, ExecTypeOK, ExecutorStates, IdleExecutors
<1>2. exec[e].current_task \in StagedTasks
  BY Zenon, <1>1 DEF BusyExecutors
<1>3. exec[e].pc = "result" => exec[e].worker \in TaskResult
  BY Zenon, <1>1 DEF BusyExecutors, TaskResult
<1> QED BY Zenon, <1>2, <1>3 DEF StagedTasks

USE DEF TypeOK, StoreTypeOK, MgmtTypeOK, SchedTypeOK, ExecTypeOK,
        storeVars, mgmtVars, histVars, schedVars, execVars

(* A record that exists is a task record. *)
LEMMA ExistsType ==
  ASSUME TypeOK, NEW t \in Tasks, Exists(t)
  PROVE  task_states[t] \in TaskStates
BY Zenon DEF Exists

(* A call that is not idle works on a task. *)
LEMMA ActiveCallType ==
  ASSUME TypeOK, NEW h \in Handlers, call[h].pc # "idle"
  PROVE  call[h] \in ActiveCalls
BY DEF Calls, NoCall

(* The call that Goto starts. *)
LEMMA GotoType ==
  ASSUME TypeOK, NEW h \in Handlers, NEW pc \in CallPc, NEW t \in Tasks,
         NEW ts \in TaskStates, Goto(h, pc, t, ts)
  PROVE  call' \in [Handlers -> Calls]
<1>1. /\ EmptyMap \in Map(InputNames, InputFiles)
      /\ EmptyMap \in Map(OutputNames, OutputFiles)
  BY Zenon, EmptyMapType
<1>2. [NoCall EXCEPT !.pc = pc, !.task = t, !.ts = ts] \in ActiveCalls
  BY Zenon, <1>1 DEF NoCall, ActiveCalls
<1> QED BY Zenon, <1>2 DEF Goto, Calls

LEMMA ReturnType ==
  ASSUME TypeOK, NEW h \in Handlers, Return(h)
  PROVE  call' \in [Handlers -> Calls]
BY Zenon DEF Return, Calls

LEMMA ConsentType ==
  ASSUME NEW u \in Users, NEW t \in Tasks, NEW ts \in TaskStates
  PROVE  Consent(u, t, ts) \in Consents
BY Zenon, StagedTaskType DEF Consent, Consents, StagedTasks

LEMMA AssignedType ==
  ASSUME TypeOK, NEW c \in ActiveCalls
  PROVE  Assigned(c) \in TaskStates
<1> DEFINE ai == c.ts.assigned_inputs
           ao == c.ts.assigned_outputs
           gi == [n \in DOMAIN ai \cup DOMAIN c.inputs |->
                    IF n \in DOMAIN c.inputs THEN c.inputs[n] ELSE ai[n]]
           go == [n \in DOMAIN ao \cup DOMAIN c.outputs |->
                    IF n \in DOMAIN c.outputs
                      THEN [id |-> c.outputs[n], cmac |-> output_cmac[c.outputs[n]]]
                      ELSE ao[n]]
<1>1. /\ ai \in Map(InputNames, InputFiles)
      /\ ao \in Map(OutputNames, AssignedOutput)
      /\ c.inputs \in Map(InputNames, InputFiles)
      /\ c.outputs \in Map(OutputNames, OutputFiles)
  BY Zenon DEF TaskStates, ActiveCalls
<1>2. gi \in Map(InputNames, InputFiles)
  <2>1. /\ DOMAIN ai \in SUBSET InputNames /\ ai \in [DOMAIN ai -> InputFiles]
        /\ DOMAIN c.inputs \in SUBSET InputNames
        /\ c.inputs \in [DOMAIN c.inputs -> InputFiles]
    BY <1>1, MapElim
  <2>2. gi \in [DOMAIN ai \cup DOMAIN c.inputs -> InputFiles]
    BY Zenon, <2>1
  <2>3. DOMAIN ai \cup DOMAIN c.inputs \in SUBSET InputNames
    BY Zenon, <2>1
  <2> HIDE DEF gi
  <2> QED BY Zenon, <2>2, <2>3, MapIntro
<1>3. go \in Map(OutputNames, AssignedOutput)
  <2>1. /\ DOMAIN ao \in SUBSET OutputNames /\ ao \in [DOMAIN ao -> AssignedOutput]
        /\ DOMAIN c.outputs \in SUBSET OutputNames
        /\ c.outputs \in [DOMAIN c.outputs -> OutputFiles]
    BY <1>1, MapElim
  <2>2. go \in [DOMAIN ao \cup DOMAIN c.outputs -> AssignedOutput]
    BY Zenon, <2>1 DEF AssignedOutput
  <2>3. DOMAIN ao \cup DOMAIN c.outputs \in SUBSET OutputNames
    BY Zenon, <2>1
  <2> HIDE DEF go
  <2> QED BY Zenon, <2>2, <2>3, MapIntro
<1>4. Assigned(c) = [c.ts EXCEPT !.assigned_inputs = gi, !.assigned_outputs = go]
  BY Zenon DEF Assigned
<1>5. c.ts \in TaskStates
  BY Zenon DEF ActiveCalls
<1> HIDE DEF gi, go
<1> QED BY ZenonT(60), <1>2, <1>3, <1>4, <1>5 DEF TaskStates

-----------------------------------------------------------------------------
(* Each step of a management handler preserves the types. *)
LEMMA RequestTypes ==
  ASSUME TypeOK, NEW h \in Handlers, Request(h),
         UNCHANGED <<schedVars, execVars, faults>>
  PROVE  TypeOK'
<1>1. PICK t \in Tasks :
        \/ \E u \in Users, f \in Functions,
              inputs \in Map(InputNames, SUBSET Users),
              outputs \in Map(OutputNames, SUBSET Users) :
                create_task(h, t, u, f, inputs, outputs)
        \/ \E u \in Users, inputs \in Map(InputNames, InputFiles),
              outputs \in Map(OutputNames, OutputFiles) :
                assign_data(h, t, u, inputs, outputs)
        \/ \E u \in Users : approve_task(h, t, u)
        \/ invoke_task(h, t)
        \/ cancel_task(h, t)
  BY Zenon DEF Request
<1>2. ASSUME NEW u \in Users, NEW f \in Functions,
             NEW inputs \in Map(InputNames, SUBSET Users),
             NEW outputs \in Map(OutputNames, SUBSET Users),
             create_task(h, t, u, f, inputs, outputs)
      PROVE  TypeOK'
  <2>1. NewTask(u, f, FunctionOf[f], inputs, outputs) \in TaskStates
    BY Zenon, NewTaskType, FunctionAssumption
  <2> QED BY Zenon, <1>2, <2>1 DEF create_task, PutTask
<1>3. ASSUME NEW u \in Users, NEW inputs \in Map(InputNames, InputFiles),
             NEW outputs \in Map(OutputNames, OutputFiles),
             assign_data(h, t, u, inputs, outputs)
      PROVE  TypeOK'
  <2>1. task_states[t] \in TaskStates
    BY Zenon, <1>3, ExistsType DEF assign_data
  <2>2. [NoCall EXCEPT !.pc = "assign", !.task = t, !.ts = task_states[t],
                       !.user = u, !.inputs = inputs, !.outputs = outputs]
          \in ActiveCalls
    BY Zenon, <2>1 DEF NoCall, ActiveCalls, CallPc
  <2> QED BY Zenon, <1>3, <2>2 DEF assign_data, Calls
<1>4. ASSUME NEW u \in Users, approve_task(h, t, u)
      PROVE  TypeOK'
  <2>1. task_states[t] \in TaskStates
    BY Zenon, <1>4, ExistsType DEF approve_task
  <2>2. FromApprove(approve(task_states[t], u)) \in TaskStates
    BY Zenon, <2>1, ApproveType, FromApproveType
  <2>3. call' \in [Handlers -> Calls]
    BY Zenon, <1>4, <2>2, GotoType DEF approve_task, CallPc
  <2>4. Consent(u, t, task_states[t]) \in Consents
    BY Zenon, <2>1, ConsentType
  <2> QED BY Zenon, <1>4, <2>3, <2>4 DEF approve_task
<1>5. CASE invoke_task(h, t)
  <2>1. task_states[t] \in TaskStates
    BY Zenon, <1>5, ExistsType DEF invoke_task
  <2>2. call' \in [Handlers -> Calls]
    BY Zenon, <1>5, <2>1, GotoType DEF invoke_task, CallPc
  <2> QED BY Zenon, <1>5, <2>2 DEF invoke_task
<1>6. CASE cancel_task(h, t)
  <2>1. task_states[t] \in TaskStates /\ FromCancel(task_states[t]) \in TaskStates
    BY Zenon, <1>6, ExistsType, FromCancelType DEF cancel_task
  <2>2. call' \in [Handlers -> Calls]
    BY Zenon, <1>6, <2>1, GotoType DEF cancel_task, CallPc
  <2> QED BY Zenon, <1>6, <2>2 DEF cancel_task
<1> QED BY Zenon, <1>1, <1>2, <1>3, <1>4, <1>5, <1>6

LEMMA HandlerTypes ==
  ASSUME TypeOK, NEW h \in Handlers, HandlerStep(h) \/ Abandon(h),
         UNCHANGED <<schedVars, execVars>>, faults' \in 0..MaxFaults
  PROVE  TypeOK'
<1> DEFINE c == call[h]
<1>1. c \in ActiveCalls
  BY Zenon, ActiveCallType DEF HandlerStep, Abandon, assign_data_files, write_to_db,
     invoke_task_usage, invoke_task_enqueue, invoke_task_write,
     invoke_task_count, cancel_task_enqueue
<1>2. /\ c.task \in Tasks /\ c.ts \in TaskStates /\ c.uses \in Nat
      /\ c.ts.function_id \in Functions
  BY Zenon, <1>1 DEF ActiveCalls, TaskStates
<1>3. CASE assign_data_files(h)
  <2>1. FromAssign(Assigned(c)) \in TaskStates
    BY Zenon, <1>1, AssignedType, FromAssignType
  <2>2. call' \in [Handlers -> Calls]
    BY Zenon, <1>2, <1>3, <2>1, GotoType, ReturnType DEF assign_data_files, CallPc
  <2> QED BY Zenon, <1>3, <2>2 DEF assign_data_files
<1>4. CASE write_to_db(h)
  BY Zenon, <1>2, <1>4, ReturnType DEF write_to_db, PutTask
<1>5. CASE invoke_task_usage(h)
  <2>1. [c EXCEPT !.pc = "stage", !.uses = use_numbers[c.ts.function_id]]
          \in ActiveCalls
    BY Zenon, <1>1, <1>2 DEF ActiveCalls, CallPc
  <2>2. call' \in [Handlers -> Calls]
    BY Zenon, <1>5, <2>1, ReturnType DEF invoke_task_usage, Calls
  <2> QED BY Zenon, <1>5, <2>2 DEF invoke_task_usage
<1>6. CASE invoke_task_enqueue(h)
  <2>1. [c EXCEPT !.pc = "staged"] \in ActiveCalls
    BY Zenon, <1>1 DEF ActiveCalls, CallPc
  <2>2. StagedTask(c.task, c.ts) \in StagedTasks
    BY Zenon, <1>2, StagedTaskType
  <2>3. staged_queue' \in Seq(StagedTasks)
    BY Zenon, <1>6, <2>2, AppendType DEF invoke_task_enqueue
  <2>4. call' \in [Handlers -> Calls]
    BY Zenon, <1>6, <2>1 DEF invoke_task_enqueue, Calls
  <2>5. staged_count' \in [Tasks -> Nat]
    BY SMTT(60), <1>2, <1>6 DEF invoke_task_enqueue
  <2> QED BY Zenon, <1>6, <2>3, <2>4, <2>5 DEF invoke_task_enqueue
<1>7. CASE invoke_task_write(h)
  <2>1. [c EXCEPT !.pc = "count"] \in ActiveCalls
    BY Zenon, <1>1 DEF ActiveCalls, CallPc
  <2>2. FromStage(c.ts) \in TaskStates
    BY Zenon, <1>2, FromStageType
  <2> QED BY Zenon, <1>2, <1>7, <2>1, <2>2 DEF invoke_task_write, Calls, PutTask
<1>8. CASE invoke_task_count(h)
  <2>1. use_numbers' \in [Functions -> Nat]
    BY SMTT(60), <1>2, <1>8 DEF invoke_task_count
  <2>2. call' \in [Handlers -> Calls]
    BY Zenon, <1>8, ReturnType DEF invoke_task_count
  <2> QED BY Zenon, <1>8, <2>1, <2>2 DEF invoke_task_count
<1>9. CASE cancel_task_enqueue(h)
  <2>1. cancel_queue' \in Seq(Tasks)
    BY Zenon, <1>2, <1>9, AppendType DEF cancel_task_enqueue
  <2>2. call' \in [Handlers -> Calls]
    BY Zenon, <1>9, ReturnType DEF cancel_task_enqueue
  <2>3. cancel_count' \in [Tasks -> Nat]
    BY SMTT(60), <1>2, <1>9 DEF cancel_task_enqueue
  <2> QED BY Zenon, <1>9, <2>1, <2>2, <2>3 DEF cancel_task_enqueue
<1>10. CASE Abandon(h)
  BY Zenon, <1>10, ReturnType DEF Abandon
<1> QED BY Zenon, <1>3, <1>4, <1>5, <1>6, <1>7, <1>8, <1>9, <1>10 DEF HandlerStep

-----------------------------------------------------------------------------
(* Each step of the daemon preserves the types. *)
LEMMA DaemonAtType ==
  ASSUME NEW w \in {"sleep", "cancel", "staged", "expire", "dead"}, DaemonAt(w)
  PROVE  daemon' \in DaemonStates
BY Zenon DEF DaemonAt, DaemonStates

LEMMA DaemonTypes ==
  ASSUME TypeOK, DaemonStep, UNCHANGED <<mgmtVars, execVars, faults>>
  PROVE  TypeOK'
<1>1. CASE daemon_lock
  BY Zenon, <1>1, DaemonAtType DEF daemon_lock
<1>2. CASE pull_cancel_queue
  <2>1. cancel_queue # << >> =>
          Head(cancel_queue) \in Tasks /\ Tail(cancel_queue) \in Seq(Tasks)
    BY Zenon, HeadTailType
  <2> QED BY Zenon, <1>2, <2>1, DaemonAtType DEF pull_cancel_queue
<1>3. CASE pull_staged_task
  <2>1. staged_queue # << >> =>
          /\ Tail(staged_queue) \in Seq(StagedTasks)
          /\ Append(task_queue, Head(staged_queue)) \in Seq(StagedTasks)
    BY Zenon, HeadTailType, AppendType
  <2> QED BY Zenon, <1>3, <2>1, DaemonAtType DEF pull_staged_task
<1>4. CASE daemon_get
  <2>1. daemon.task \in Tasks
    BY Zenon, <1>4 DEF daemon_get, DaemonStates
  <2> DEFINE ts == task_states[daemon.task]
  <2>2. ASSUME ToFail(ts) PROVE FromFail(ts) \in TaskStates
    BY <2>1, <2>2, FromFailType DEF ToFail, NoTask
  <2>3. ASSUME FromFail(ts) \in TaskStates
        PROVE  [daemon EXCEPT !.pc = "fail", !.ts = FromFail(ts)] \in DaemonStates
    BY Zenon, <1>4, <2>1, <2>3 DEF daemon_get, DaemonStates
  <2>4. daemon' \in DaemonStates
    BY Zenon, <1>4, <2>2, <2>3, DaemonAtType DEF daemon_get
  <2> QED BY Zenon, <1>4, <2>4 DEF daemon_get
<1>5. CASE daemon_put
  <2>1. daemon.task \in Tasks /\ daemon.ts \in TaskStates
    BY Zenon, <1>5 DEF daemon_put, DaemonStates
  <2> QED BY Zenon, <1>5, <2>1, DaemonAtType DEF daemon_put, PutTask
<1>6. CASE daemon_sleep
  BY Zenon, <1>6, DaemonAtType DEF daemon_sleep
<1> QED BY Zenon, <1>1, <1>2, <1>3, <1>4, <1>5, <1>6 DEF DaemonStep

LEMMA ExpireTypes ==
  ASSUME TypeOK, NEW e \in Executors, daemon_expire(e),
         UNCHANGED <<mgmtVars, execVars>>, faults' \in 0..MaxFaults
  PROVE  TypeOK'
<1>1. executors_tasks[e] \in Tasks \cup {None}
  BY Zenon
<1>2. executors_tasks[e] # None =>
        [daemon EXCEPT !.pc = "lost", !.task = executors_tasks[e]] \in DaemonStates
  BY Zenon, <1>1 DEF daemon_expire, DaemonStates
<1>3. daemon' \in DaemonStates
  BY Zenon, <1>2 DEF daemon_expire
<1> QED BY Zenon, <1>3 DEF daemon_expire

LEMMA DaemonErrorTypes ==
  ASSUME TypeOK, daemon_storage_error,
         UNCHANGED <<mgmtVars, execVars>>, faults' \in 0..MaxFaults
  PROVE  TypeOK'
<1>1. /\ cancel_queue # << >> => Tail(cancel_queue) \in Seq(Tasks)
      /\ staged_queue # << >> => Tail(staged_queue) \in Seq(StagedTasks)
  BY Zenon, HeadTailType
<1>2. daemon.pc = "fail" => daemon.task \in Tasks /\ daemon.ts \in TaskStates
  BY Zenon DEF DaemonStates
<1>3. task_states' \in [Tasks -> TaskStates \cup {NoTask}]
  BY Zenon, <1>2 DEF daemon_storage_error, PutTask
<1>4. cancel_queue' \in Seq(Tasks) /\ staged_queue' \in Seq(StagedTasks)
  BY Zenon, <1>1 DEF daemon_storage_error
<1>5. daemon' \in DaemonStates
  BY Zenon, DaemonAtType DEF daemon_storage_error
<1>6. UNCHANGED <<output_cmac, use_numbers, task_queue, executors_tasks,
                  executors_status, tasks_to_cancel, handler>>
  BY Zenon DEF daemon_storage_error
<1> QED BY Zenon, <1>3, <1>4, <1>5, <1>6

-----------------------------------------------------------------------------
(* The moves of an executor keep its state well-formed. *)
LEMMA ExecMoves ==
  ASSUME TypeOK, NEW e \in Executors
  PROVE  /\ Exit(e) => exec' \in [Executors -> ExecutorStates]
         /\ exec[e].pc \in {"heartbeat", "pull"} /\ ExecAt(e, "recv") =>
              exec' \in [Executors -> ExecutorStates]
         /\ exec[e].pc = "heartbeat" /\ exec[e].status = "Idle" /\ ExecAt(e, "pull")
              => exec' \in [Executors -> ExecutorStates]
         /\ exec[e].pc = "result" /\ ResultDropped(e) =>
              exec' \in [Executors -> ExecutorStates]
         /\ OnRpcError(e) => exec' \in [Executors -> ExecutorStates]
<1>1. exec[e] \in ExecutorStates
  BY Zenon
<1>2. [NewExecutor EXCEPT !.pc = "exited"] \in ExecutorStates
  BY Zenon DEF NewExecutor, ExecutorStates, IdleExecutors
<1>3. Exit(e) => exec' \in [Executors -> ExecutorStates]
  BY Zenon, <1>2 DEF Exit
<1>4. exec[e].pc \in {"heartbeat", "pull"} =>
        [exec[e] EXCEPT !.pc = "recv"] \in ExecutorStates
  BY Zenon, <1>1 DEF ExecutorStates, IdleExecutors, BusyExecutors
<1>5. exec[e].pc = "heartbeat" /\ exec[e].status = "Idle" =>
        [exec[e] EXCEPT !.pc = "pull"] \in ExecutorStates
  BY Zenon, <1>1 DEF ExecutorStates, IdleExecutors, BusyExecutors
<1>6. exec[e].pc = "result" =>
        [exec[e] EXCEPT !.pc = "heartbeat", !.worker = "none"] \in ExecutorStates
  BY Zenon, <1>1 DEF ExecutorStates, IdleExecutors, BusyExecutors
<1>7. ResultDropped(e) =>
        exec' = [exec EXCEPT ![e] = [exec[e] EXCEPT !.pc = "heartbeat",
                                                    !.worker = "none"]]
  BY Zenon DEF ResultDropped
<1>8. /\ ExecAt(e, "recv") =>
             exec' = [exec EXCEPT ![e] = [exec[e] EXCEPT !.pc = "recv"]]
      /\ ExecAt(e, "pull") =>
             exec' = [exec EXCEPT ![e] = [exec[e] EXCEPT !.pc = "pull"]]
  BY Zenon DEF ExecAt
<1>9. exec[e].pc \in {"heartbeat", "pull"} /\ ExecAt(e, "recv") =>
        exec' \in [Executors -> ExecutorStates]
  BY Zenon, <1>4, <1>8
<1>10. exec[e].pc = "heartbeat" /\ exec[e].status = "Idle" /\ ExecAt(e, "pull") =>
         exec' \in [Executors -> ExecutorStates]
  BY Zenon, <1>5, <1>8
<1>11. exec[e].pc = "result" /\ ResultDropped(e) =>
         exec' \in [Executors -> ExecutorStates]
  BY Zenon, <1>6, <1>7
<1> QED BY Zenon, <1>3, <1>9, <1>10, <1>11 DEF OnRpcError

(* A handler inside the mutex writes a task record. *)
LEMMA HandlerType ==
  ASSUME TypeOK, handler # None
  PROVE  handler \in SchedHandlers /\ handler.task \in Tasks /\ handler.ts \in TaskStates
BY Zenon DEF SchedHandlers

(* A record that a conversion accepts is not a missing one. *)
LEMMA ConvertibleType ==
  ASSUME TypeOK, NEW t \in Tasks,
         \/ ToCancel(task_states[t]) \/ ToRun(task_states[t])
         \/ ToFinish(task_states[t]) \/ ToFail(task_states[t])
  PROVE  task_states[t] \in TaskStates
BY DEF ToCancel, ToRun, ToFinish, ToFail, NoTask

(* What the scheduler does in the RPCs of an executor. *)
SchedTypes ==
  StoreTypeOK' /\ SchedTypeOK'

LEMMA SchedCancelTypes ==
  ASSUME TypeOK, NEW e \in Executors, NEW t \in Tasks, NEW ok \in BOOLEAN,
         cancel_task_get(e, t, ok)
  PROVE  handler' \in SchedHandlers \cup {None}
<1>1. CASE ok
  <2>1. task_states[t] \in TaskStates
    BY Zenon, <1>1, ConvertibleType DEF cancel_task_get
  <2>2. FromCancel(task_states[t]) \in TaskStates
    BY Zenon, <2>1, FromCancelType
  <2> DEFINE ts == FromCancel(task_states[t])
  <2>3. handler' = [by |-> e, op |-> "cancel", task |-> t, ts |-> ts, todo |-> {}]
    BY Zenon, <1>1 DEF cancel_task_get
  <2>4. ts \in TaskStates
    BY Zenon, <2>2
  <2> HIDE DEF ts, TypeOK
  <2> QED BY Zenon, <2>3, <2>4 DEF SchedHandlers
<1>2. CASE ~ ok
  BY Zenon, <1>2 DEF cancel_task_get
<1> QED BY Zenon, <1>1, <1>2

LEMMA SchedHeartbeatTypes ==
  ASSUME TypeOK, NEW e \in Executors, NEW status \in ExecutorStatus,
         NEW ok \in BOOLEAN,
         sched_heartbeat(e, status) \/ sched_heartbeat_stop(e, status, ok)
  PROVE  SchedTypes
<1>1. CASE sched_heartbeat(e, status)
  BY Zenon, <1>1 DEF sched_heartbeat, SchedTypes
<1>2. CASE sched_heartbeat_stop(e, status, ok)
  <2>1. executors_tasks[e] \in Tasks
    BY Zenon, <1>2 DEF sched_heartbeat_stop, StopRequested
  <2>2. handler' \in SchedHandlers \cup {None}
    <3>1. cancel_task_get(e, executors_tasks[e], ok)
      BY Zenon, <1>2 DEF sched_heartbeat_stop
    <3> HIDE DEF TypeOK
    <3> QED BY Zenon, <2>1, <3>1, SchedCancelTypes
  <2> QED BY Zenon, <1>2, <2>2 DEF sched_heartbeat_stop, SchedTypes
<1> QED BY Zenon, <1>1, <1>2

LEMMA SchedPullTypes ==
  ASSUME TypeOK, NEW e \in Executors, NEW ok \in BOOLEAN,
         sched_pull_task(e) \/ sched_pull_canceled(e, ok)
  PROVE  SchedTypes /\ Head(task_queue) \in StagedTasks
<1>1. task_queue # << >>
  BY Zenon DEF sched_pull_task, sched_pull_canceled
<1>2. Head(task_queue) \in StagedTasks /\ Tail(task_queue) \in Seq(StagedTasks)
  BY Zenon, <1>1, HeadTailType
<1>3. Head(task_queue).task_id \in Tasks
  BY Zenon, <1>2 DEF StagedTasks
<1>4. CASE sched_pull_task(e)
  BY Zenon, <1>2, <1>3, <1>4 DEF sched_pull_task, SchedTypes
<1>5. CASE sched_pull_canceled(e, ok)
  <2>1. handler' \in SchedHandlers \cup {None}
    <3>1. cancel_task_get(e, Head(task_queue).task_id, ok)
      BY Zenon, <1>5 DEF sched_pull_canceled
    <3> HIDE DEF TypeOK
    <3> QED BY Zenon, <1>3, <3>1, SchedCancelTypes
  <2> QED BY Zenon, <1>2, <1>5, <2>1 DEF sched_pull_canceled, SchedTypes
<1> QED BY Zenon, <1>2, <1>4, <1>5

LEMMA SchedStatusTypes ==
  ASSUME TypeOK, NEW e \in Executors, NEW t \in Tasks, NEW ok \in BOOLEAN,
         sched_status_get(e, t, ok)
  PROVE  SchedTypes
<1>1. ok => task_states[t] \in TaskStates /\ FromRun(task_states[t]) \in TaskStates
  BY Zenon, ConvertibleType, FromRunType DEF sched_status_get
<1>2. handler' \in SchedHandlers \cup {None}
  <2>1. CASE ok
    <3> DEFINE ts == FromRun(task_states[t])
    <3>1. ts \in TaskStates
      BY Zenon, <1>1, <2>1
    <3>2. handler' = [by |-> e, op |-> "status", task |-> t, ts |-> ts, todo |-> {}]
      BY Zenon, <2>1 DEF sched_status_get
    <3> HIDE DEF ts, TypeOK
    <3> QED BY Zenon, <3>1, <3>2 DEF SchedHandlers
  <2>2. CASE ~ ok
    BY Zenon, <2>2 DEF sched_status_get
  <2> QED BY Zenon, <2>1, <2>2
<1> QED BY Zenon, <1>2 DEF sched_status_get, SchedTypes

LEMMA SchedResultTypes ==
  ASSUME TypeOK, NEW e \in Executors, NEW t \in Tasks, NEW ok \in BOOLEAN,
         NEW result \in {"Ok", "Err"}, NEW tags \in SUBSET OutputNames,
         sched_result_get(e, t, result, tags, ok)
  PROVE  SchedTypes
<1>1. ok => /\ task_states[t] \in TaskStates
            /\ FromFinish(task_states[t], result) \in TaskStates
  BY Zenon, ConvertibleType, FromFinishType DEF sched_result_get, TaskResult
<1>2. handler' \in SchedHandlers \cup {None}
  <2>1. CASE ok
    <3> DEFINE todo == IF result = "Ok" THEN tags ELSE {}
               ts == FromFinish(task_states[t], result)
    <3>1. todo \in SUBSET OutputNames /\ ts \in TaskStates
      BY Zenon, <1>1, <2>1
    <3>2. handler' = [by |-> e, op |-> "result", task |-> t, ts |-> ts, todo |-> todo]
      BY Zenon, <2>1 DEF sched_result_get
    <3> HIDE DEF todo, ts
    <3> QED BY Zenon, <3>1, <3>2 DEF SchedHandlers
  <2>2. CASE ~ ok
    BY Zenon, <2>2 DEF sched_result_get
  <2> QED BY Zenon, <2>1, <2>2
<1> QED BY Zenon, <1>2 DEF sched_result_get, SchedTypes

LEMMA SchedOutputTypes ==
  ASSUME TypeOK, NEW n \in OutputNames, NEW ok \in BOOLEAN,
         sched_result_put_output(n, ok)
  PROVE  SchedTypes
<1>1. CASE ok
  <2> DEFINE ts2 == update_output_cmac(handler.ts, n, handler.task)
             h2 == [handler EXCEPT !.todo = handler.todo \ {n}, !.ts = ts2]
  <2>1. /\ handler \in SchedHandlers /\ handler.task \in Tasks
        /\ handler.ts \in TaskStates
    BY Zenon, HandlerType DEF sched_result_put_output
  <2>2. TagFree(handler.ts, n)
    BY Zenon, <1>1 DEF sched_result_put_output
  <2>3. ts2 \in TaskStates /\ handler.ts.assigned_outputs[n].id \in OutputFiles
    BY Zenon, <2>1, <2>2, UpdateCmacType
  <2>4. h2 \in SchedHandlers
    <3> HIDE DEF ts2
    <3> QED BY Zenon, <2>1, <2>3 DEF SchedHandlers
  <2>5. /\ handler' = h2
        /\ output_cmac' = [output_cmac EXCEPT
                             ![handler.ts.assigned_outputs[n].id] = handler.task]
    BY Zenon, <1>1 DEF sched_result_put_output
  <2> HIDE DEF h2
  <2> QED BY Zenon, <2>1, <2>3, <2>4, <2>5 DEF sched_result_put_output, SchedTypes
<1>2. CASE ~ ok
  BY Zenon, <1>2 DEF sched_result_put_output, SchedTypes
<1> QED BY Zenon, <1>1, <1>2

LEMMA SchedPutTypes ==
  ASSUME TypeOK, NEW op, sched_put(op)
  PROVE  SchedTypes
BY Zenon, HandlerType DEF sched_put, PutTask, SchedTypes

LEMMA SchedErrorTypes ==
  ASSUME TypeOK, sched_storage_error
  PROVE  SchedTypes
BY Zenon DEF sched_storage_error, SchedTypes

-----------------------------------------------------------------------------
(* Each step of an executor preserves the types. *)
LEMMA ExecutorTypes ==
  ASSUME TypeOK, NEW e \in Executors, ExecutorStep(e),
         UNCHANGED <<mgmtVars, faults>>
  PROVE  TypeOK'
<1> USE ExecMoves
<1>0. exec[e] \in ExecutorStates /\ exec[e].status \in ExecutorStatus
  BY Zenon DEF ExecutorStates, IdleExecutors, BusyExecutors, ExecutorStatus
<1>a. exec[e].pc \in {"status", "result"} =>
        /\ exec[e].current_task \in StagedTasks
        /\ exec[e].current_task.task_id \in Tasks
        /\ DOMAIN exec[e].current_task.output_data \in SUBSET OutputNames
  <2>1. exec[e].pc \in {"status", "result"} => exec[e].current_task \in StagedTasks
    BY Zenon, <1>0 DEF ExecutorStates, IdleExecutors, BusyExecutors
  <2> HIDE ExecMoves
  <2> HIDE DEF TypeOK
  <2> QED BY Zenon, <2>1, StagedTaskElim
<1>1. CASE heartbeat(e)
  <2>1. SchedTypes
    BY Zenon, <1>0, <1>1, SchedHeartbeatTypes DEF heartbeat
  <2>2. exec' \in [Executors -> ExecutorStates]
    BY Zenon, <1>1 DEF heartbeat
  <2> QED BY Zenon, <1>1, <2>1, <2>2 DEF heartbeat, SchedTypes
<1>2. CASE heartbeat_stop(e)
  BY Zenon, <1>2, SchedPutTypes DEF heartbeat_stop, SchedTypes
<1>3. CASE pull_task(e)
  <2>1. SchedTypes
    BY Zenon, <1>3, SchedPullTypes DEF pull_task, SchedTypes
  <2>2. CASE sched_pull_task(e) /\
             exec' = [exec EXCEPT ![e].pc = "status", ![e].status = "Executing",
                                  ![e].current_task = Head(task_queue)]
    <3>1. Head(task_queue) \in StagedTasks
      BY Zenon, <2>2, SchedPullTypes
    <3>2. [exec[e] EXCEPT !.pc = "status", !.status = "Executing",
                          !.current_task = Head(task_queue)] \in ExecutorStates
      BY Zenon, <1>0, <1>3, <3>1
      DEF pull_task, ExecutorStates, IdleExecutors, BusyExecutors
    <3>3. exec' \in [Executors -> ExecutorStates]
      BY Zenon, <2>2, <3>2
    <3> QED BY Zenon, <1>3, <2>1, <3>3 DEF pull_task, SchedTypes
  <2>3. CASE ExecAt(e, "recv") \/ UNCHANGED exec
    <3>1. exec' \in [Executors -> ExecutorStates]
      BY Zenon, <1>3, <2>3 DEF pull_task
    <3> QED BY Zenon, <1>3, <2>1, <3>1 DEF pull_task, SchedTypes
  <2> QED BY Zenon, <1>3, <2>2, <2>3 DEF pull_task
<1>4. CASE pull_task_canceled(e)
  BY Zenon, <1>4, SchedPutTypes DEF pull_task_canceled, SchedTypes
<1>5. CASE update_task_status(e)
  <2>1. SchedTypes
    BY Zenon, <1>a, <1>5, SchedStatusTypes DEF update_task_status
  <2>2. exec' \in [Executors -> ExecutorStates]
    BY Zenon, <1>5 DEF update_task_status
  <2> QED BY Zenon, <1>5, <2>1, <2>2 DEF update_task_status, SchedTypes
<1>6. CASE update_task_status_done(e)
  <2>1. SchedTypes /\ handler.task \in Tasks
    BY Zenon, <1>6, SchedPutTypes, HandlerType DEF update_task_status_done, Serves
  <2>2. [exec[e] EXCEPT !.pc = "recv", !.worker = "busy"] \in ExecutorStates
    BY Zenon, <1>0, <1>6
    DEF update_task_status_done, ExecutorStates, IdleExecutors, BusyExecutors
  <2>3. exec' \in [Executors -> ExecutorStates]
    BY Zenon, <1>6, <2>2 DEF update_task_status_done
  <2>4. started' \in [Tasks -> Nat]
    <3>1. started' = [started EXCEPT ![handler.task] = @ + 1]
      BY ONLY Zenon, <1>6 DEF update_task_status_done
    <3>2. started \in [Tasks -> Nat]
      BY Zenon
    <3> QED BY ONLY <2>1, <3>1, <3>2
  <2> QED BY Zenon, <1>6, <2>1, <2>3, <2>4 DEF update_task_status_done, SchedTypes
<1>7. CASE try_recv(e)
  <2>1. /\ exec[e].worker \in {"Ok", "Err"} =>
             [exec[e] EXCEPT !.pc = "result"] \in ExecutorStates
        /\ [exec[e] EXCEPT !.pc = "heartbeat"] \in ExecutorStates
    BY Zenon, <1>0, <1>7 DEF try_recv, ExecutorStates, IdleExecutors, BusyExecutors
  <2>2. exec' \in [Executors -> ExecutorStates]
    BY Zenon, <1>7, <2>1 DEF try_recv, ExecAt
  <2> QED BY Zenon, <1>7, <2>2 DEF try_recv
<1>8. CASE update_task_result(e)
  <2>1. exec[e].worker \in {"Ok", "Err"}
    BY Zenon, <1>0, <1>8 DEF update_task_result, ExecutorStates, IdleExecutors, BusyExecutors
  <2>2. SchedTypes
    BY ZenonT(60), <1>a, <1>8, <2>1, SchedResultTypes DEF update_task_result
  <2>3. exec' \in [Executors -> ExecutorStates]
    BY Zenon, <1>8 DEF update_task_result
  <2> QED BY Zenon, <1>8, <2>2, <2>3 DEF update_task_result, SchedTypes
<1>9. ASSUME NEW n \in OutputNames, update_task_result_output(e, n)
      PROVE  TypeOK'
  <2>1. SchedTypes
    BY Zenon, <1>9, SchedOutputTypes DEF update_task_result_output
  <2>2. exec' \in [Executors -> ExecutorStates]
    BY Zenon, <1>9 DEF update_task_result_output
  <2> QED BY Zenon, <1>9, <2>1, <2>2 DEF update_task_result_output, SchedTypes
<1>10. CASE update_task_result_done(e)
  <2>1. NewExecutor \in ExecutorStates
    BY Zenon DEF NewExecutor, ExecutorStates, IdleExecutors
  <2> QED BY Zenon, <1>10, <2>1, SchedPutTypes DEF update_task_result_done, SchedTypes
<1> QED BY Zenon, <1>1, <1>2, <1>3, <1>4, <1>5, <1>6, <1>7, <1>8, <1>9, <1>10
        DEF ExecutorStep

LEMMA WorkerTypes ==
  ASSUME TypeOK, NEW e \in Executors, UNCHANGED mgmtVars, faults' \in 0..MaxFaults,
         worker_lost(e) \/ \E r \in {"Ok", "Err"} : invoke_task_done(e, r)
  PROVE  TypeOK'
<1>1. PICK r \in {"none", "Ok", "Err"} :
        /\ exec[e].worker = "busy"
        /\ exec' = [exec EXCEPT ![e] = [exec[e] EXCEPT !.worker = r]]
        /\ UNCHANGED <<storeVars, schedVars, started>>
  BY Zenon DEF worker_lost, invoke_task_done
<1>2. exec[e] \in ExecutorStates
  BY Zenon
<1>3. [exec[e] EXCEPT !.worker = r] \in ExecutorStates
  BY Zenon, <1>1, <1>2 DEF ExecutorStates, IdleExecutors, BusyExecutors
<1> QED BY Zenon, <1>1, <1>3

LEMMA ExecutorFaultTypes ==
  ASSUME TypeOK, NEW e \in Executors, UNCHANGED mgmtVars, faults' \in 0..MaxFaults,
         crash(e) \/ crash_in_rpc(e) \/ rpc_lost(e) \/ handler_storage_error(e)
  PROVE  TypeOK'
<1> USE ExecMoves
<1>1. CASE crash(e)
  BY Zenon, <1>1 DEF crash
<1>2. CASE crash_in_rpc(e)
  BY Zenon, <1>2, SchedErrorTypes DEF crash_in_rpc, SchedTypes
<1>3. CASE rpc_lost(e)
  <2>1. exec' \in [Executors -> ExecutorStates]
    BY Zenon, <1>3 DEF rpc_lost
  <2>2. SchedTypes
    BY Zenon, <1>3, SchedPullTypes, SchedPutTypes DEF rpc_lost, SchedTypes
  <2> QED BY Zenon, <1>3, <2>1, <2>2 DEF rpc_lost, SchedTypes
<1>4. CASE handler_storage_error(e)
  BY Zenon, <1>4, SchedErrorTypes DEF handler_storage_error, SchedTypes
<1> QED BY Zenon, <1>1, <1>2, <1>3, <1>4

LEMMA RestartTypes ==
  ASSUME TypeOK, UNCHANGED mgmtVars, faults' \in 0..MaxFaults, scheduler_restart
  PROVE  TypeOK'
<1>1. SchedTypeOK'
  <2>1. << >> \in Seq(StagedTasks)
    OBVIOUS
  <2>2. daemon' \in DaemonStates
    BY Zenon DEF scheduler_restart, sched_restart, DaemonStates
  <2> QED BY Zenon, <2>1, <2>2 DEF scheduler_restart, sched_restart
<1>2. exec' \in [Executors -> ExecutorStates]
  <2>1. handler # None => handler.by \in Executors
    BY Zenon DEF SchedHandlers
  <2> QED BY Zenon, <2>1, ExecMoves DEF scheduler_restart
<1> QED BY Zenon, <1>1, <1>2 DEF scheduler_restart, sched_restart

-----------------------------------------------------------------------------
LEMMA InitTypes == Init => TypeOK
<1> SUFFICES ASSUME Init PROVE TypeOK
  BY Zenon
<1>1. task_states \in [Tasks -> TaskStates \cup {NoTask}]
  BY Zenon, InitialAssumption DEF Init, Prepared
<1>2. consents \subseteq Consents
  <2>1. ASSUME NEW t \in Tasks, InitialTasks[t] # NoTask,
               NEW u \in InitialTasks[t].approved_users
        PROVE  Consent(u, t, InitialTasks[t]) \in Consents
    <3>1. InitialTasks[t] \in TaskStates
      BY Zenon, <2>1, InitialAssumption DEF Prepared
    <3>2. u \in Users
      BY Zenon, <3>1 DEF TaskStates
    <3> QED BY Zenon, <3>1, <3>2, ConsentType
  <2> QED BY <2>1 DEF Init
<1>3. SchedTypeOK
  <2>1. << >> \in Seq(StagedTasks)
    OBVIOUS
  <2>2. daemon \in DaemonStates
    BY Zenon DEF Init, SchedInit, DaemonStates
  <2> QED BY Zenon, <2>1, <2>2 DEF Init, SchedInit
<1>4. ExecTypeOK
  BY Zenon DEF Init, ExecInit, NewExecutor, ExecutorStates, IdleExecutors
<1>5. StoreTypeOK
  <2>1. << >> \in Seq(StagedTasks) /\ << >> \in Seq(Tasks)
    OBVIOUS
  <2> QED BY Zenon, <1>1, <2>1 DEF Init
<1>6. MgmtTypeOK
  BY Zenon, <1>2 DEF Init, Calls
<1>7. faults \in 0..MaxFaults
  BY FaultAssumption DEF Init
<1> HIDE DEF StoreTypeOK, MgmtTypeOK, SchedTypeOK, ExecTypeOK
<1> QED BY Zenon, <1>3, <1>4, <1>5, <1>6, <1>7

LEMMA NextTypes == TypeOK /\ [Next]_vars => TypeOK'
<1> SUFFICES ASSUME TypeOK, [Next]_vars PROVE TypeOK'
  BY Zenon
<1>0. ASSUME NEW kind, Fault(kind) PROVE faults' \in 0..MaxFaults
  BY <1>0, FaultAssumption DEF Fault
<1>1. ASSUME NEW h \in Handlers, ManagementNext(h) PROVE TypeOK'
  BY Zenon, <1>1, RequestTypes, HandlerTypes DEF ManagementNext
<1>2. CASE DaemonNext
  BY Zenon, <1>2, DaemonTypes, ExpireTypes DEF DaemonNext, ExpireExited
<1>3. ASSUME NEW e \in Executors, ExecutorNext(e) PROVE TypeOK'
  BY Zenon, <1>3, ExecutorTypes, WorkerTypes DEF ExecutorNext
<1>4. CASE FaultNext
  BY Zenon, <1>0, <1>4, HandlerTypes, ExecutorFaultTypes, WorkerTypes, ExpireTypes,
     DaemonErrorTypes, RestartTypes DEF FaultNext, ExpireLive
<1>5. CASE UNCHANGED vars
  BY Zenon, <1>5 DEF vars
<1> QED BY Zenon, <1>1, <1>2, <1>3, <1>4, <1>5 DEF Next

(* Every variable keeps its type in every reachable state; in particular   *)
(* an active handler of the management service always has a task and a     *)
(* well-formed copy of its record, the daemon has one exactly while it     *)
(* handles a lost executor, and an executor has a task exactly while it    *)
(* reports Executing.                                                      *)
THEOREM TypeCorrect == Spec => []TypeOK
<1> QED BY InitTypes, NextTypes, PTL DEF Spec

HIDE DEF TypeOK, StoreTypeOK, MgmtTypeOK, SchedTypeOK, ExecTypeOK

-----------------------------------------------------------------------------
SingleHandler == \A g, h \in Handlers : g = h

(* A step changes at most one record, along the typestate machine, and     *)
(* starts a function only when the record moves from Staged to Running.    *)
LegalMove(s, s2) ==
  \/ s = "Absent" /\ s2 = "Created"
  \/ PrepareStep(s, s2)
  \/ s \in PreStaged /\ s2 = "Staged"
  \/ s = "Staged" /\ s2 = "Running"
  \/ s = "Running" /\ s2 = "Finished"
  \/ s \in Active /\ s2 \in {"Failed", "Canceled"}

StatusStep ==
  \/ UNCHANGED <<task_states, started>>
  \/ \E t \in Tasks, ts \in TaskStates :
       /\ PutTask(t, ts)
       /\ LegalMove(St(t), ts.status)
       /\ \/ UNCHANGED started
          \/ /\ St(t) = "Staged" /\ ts.status = "Running"
             /\ started' = [started EXCEPT ![t] = @ + 1]

(* Statuses after a put. *)
LEMMA PutStatus ==
  ASSUME TypeOK, NEW t \in Tasks, NEW ts \in TaskStates, PutTask(t, ts)
  PROVE  /\ St(t)' = ts.status
         /\ \A x \in Tasks : x # t => St(x)' = St(x)
BY Zenon DEF PutTask, St, TypeOK, StoreTypeOK

(* A write of the management service: the task was not handed over. *)
LEMMA MgmtWrite ==
  ASSUME TypeOK, CancelInv, MutexInv, StartedInv,
         NEW t \in Tasks, NEW ts \in TaskStates, PutTask(t, ts),
         St(t) \in PreStaged \cup {"Absent"},
         UNCHANGED <<cancel_queue, schedVars, execVars>>
  PROVE  CancelInv' /\ MutexInv' /\ StartedInv'
<1>1. /\ St(t)' = ts.status
      /\ \A x \in Tasks : x # t => St(x)' = St(x)
  BY Zenon, PutStatus
<1>2. \A x \in Tasks : St(x) \in HandedOver => St(x)' = St(x)
  BY Zenon, <1>1 DEF PreStaged, HandedOver, Active, EndedStatus
<1>3. CancelInv'
  <2>1. \A i \in DOMAIN cancel_queue : cancel_queue[i] \in Tasks
    BY DEF TypeOK, StoreTypeOK
  <2>2. UNCHANGED <<cancel_queue, tasks_to_cancel>>
    BY Zenon
  <2> QED BY Zenon, <1>2, <2>1, <2>2 DEF CancelInv, TypeOK, SchedTypeOK
<1>4. MutexInv'
  <2>1. handler # None => handler.task \in Tasks
    BY Zenon, HandlerType
  <2>2. daemon.pc = "fail" => daemon.task \in Tasks
    BY Zenon DEF DaemonStates, TypeOK, SchedTypeOK
  <2>3. UNCHANGED <<handler, daemon>>
    BY Zenon
  <2> QED BY Zenon, <1>2, <2>1, <2>2, <2>3 DEF MutexInv, HandedOver, Active
<1>5. StartedInv'
  <2>1. UNCHANGED started
    BY Zenon
  <2>2. started[t] = 0
    BY Zenon DEF StartedInv, PreStaged, EndedStatus
  <2> QED BY Zenon, <1>1, <2>1, <2>2 DEF StartedInv
<1> QED BY Zenon, <1>3, <1>4, <1>5

(* A write of the scheduler: the task was handed over and stays so. *)
LEMMA SchedWrite ==
  ASSUME TypeOK, CallInv, CancelInv,
         NEW t \in Tasks, NEW ts \in TaskStates, PutTask(t, ts),
         St(t) \in Active, ts.status \in HandedOver,
         UNCHANGED <<call, cancel_queue, tasks_to_cancel>>
  PROVE  CallInv' /\ CancelInv'
<1>1. /\ St(t)' = ts.status
      /\ \A x \in Tasks : x # t => St(x)' = St(x)
  BY Zenon, PutStatus
<1>2. \A x \in Tasks : /\ St(x) \in PreStaged => St(x)' = St(x)
                       /\ St(x) \in HandedOver => St(x)' \in HandedOver
  BY Zenon, <1>1 DEF PreStaged, Active
<1>3. CancelInv'
  <2>1. \A i \in DOMAIN cancel_queue : cancel_queue[i] \in Tasks
    BY DEF TypeOK, StoreTypeOK
  <2> QED BY Zenon, <1>2, <2>1 DEF CancelInv, TypeOK, SchedTypeOK
<1>4. CallInv'
  <2> SUFFICES ASSUME NEW h \in Handlers
      PROVE LET c == call[h]
            IN /\ c.pc = "assign" => St(c.task)' = "Created"
               /\ c.pc = "write" => PrepareStep(St(c.task)', c.ts.status)
               /\ c.pc = "usage" /\ c.ts.status \in PreStaged =>
                    St(c.task)' \in PreStaged
               /\ c.pc \in {"stage", "staged"} => St(c.task)' \in PreStaged
               /\ c.pc = "cancel" => St(c.task)' \in HandedOver
    BY Zenon DEF CallInv, PrepareStep, St
  <2>1. call[h].pc # "idle" => call[h].task \in Tasks
    BY Zenon, ActiveCallType DEF ActiveCalls
  <2>2. call[h].pc \in {"assign", "write", "stage", "staged"} =>
          St(call[h].task) \in PreStaged
    BY Zenon DEF CallInv, PrepareStep, PreStaged
  <2>3. call[h].pc \in {"assign", "write", "stage", "staged"} =>
          St(call[h].task)' = St(call[h].task)
    BY Zenon, <1>2, <2>1, <2>2
  <2> QED BY Zenon, <1>2, <2>1, <2>3 DEF CallInv
<1> QED BY Zenon, <1>3, <1>4

-----------------------------------------------------------------------------
(* What a request leaves for the handler to do. *)
LEMMA RequestOwnership ==
  ASSUME TypeOK, OwnershipInv, SingleHandler, NEW h \in Handlers, Request(h),
         UNCHANGED <<schedVars, execVars, faults>>
  PROVE  OwnershipInv' /\ StatusStep
<1> USE DEF OwnershipInv
<1>1. PICK t \in Tasks :
        \/ \E u \in Users, f \in Functions,
              inputs \in Map(InputNames, SUBSET Users),
              outputs \in Map(OutputNames, SUBSET Users) :
                create_task(h, t, u, f, inputs, outputs)
        \/ \E u \in Users, inputs \in Map(InputNames, InputFiles),
              outputs \in Map(OutputNames, OutputFiles) :
                assign_data(h, t, u, inputs, outputs)
        \/ \E u \in Users : approve_task(h, t, u)
        \/ invoke_task(h, t)
        \/ cancel_task(h, t)
  BY Zenon DEF Request
<1>2. ASSUME UNCHANGED <<task_states, cancel_queue>>
      PROVE  CancelInv' /\ MutexInv' /\ StartedInv' /\ StatusStep
  BY Zenon, <1>2 DEF CancelInv, MutexInv, StartedInv, StatusStep, St
<1>3. \A g \in Handlers : g = h
  BY Zenon DEF SingleHandler
<1>4. ASSUME NEW u \in Users, NEW f \in Functions,
             NEW inputs \in Map(InputNames, SUBSET Users),
             NEW outputs \in Map(OutputNames, SUBSET Users),
             create_task(h, t, u, f, inputs, outputs)
      PROVE  OwnershipInv' /\ StatusStep
  <2> DEFINE ts == NewTask(u, f, FunctionOf[f], inputs, outputs)
  <2>1. ts \in TaskStates /\ ts.status = "Created"
    BY Zenon, NewTaskType, FunctionAssumption
  <2>2. PutTask(t, ts) /\ St(t) = "Absent"
    BY <1>4 DEF create_task, Exists, NoTask, St
  <2> HIDE DEF ts
  <2>3. CancelInv' /\ MutexInv' /\ StartedInv'
    BY Zenon, <1>4, <2>1, <2>2, MgmtWrite DEF create_task
  <2>4. call[h].pc = "idle" /\ call' = call
    BY Zenon, <1>4 DEF create_task
  <2>5. CallInv'
    BY Zenon, <1>3, <2>4 DEF CallInv
  <2>6. StatusStep
    BY Zenon, <2>1, <2>2 DEF StatusStep, LegalMove
  <2> QED BY Zenon, <2>3, <2>5, <2>6
<1>5. ASSUME NEW u \in Users, NEW inputs \in Map(InputNames, InputFiles),
             NEW outputs \in Map(OutputNames, OutputFiles),
             assign_data(h, t, u, inputs, outputs)
      PROVE  OwnershipInv' /\ StatusStep
  <2>1. UNCHANGED <<task_states, cancel_queue>> /\ St(t) = "Created"
    BY Zenon, <1>5 DEF assign_data, ToAssign, St
  <2>2. call'[h].pc = "assign" /\ call'[h].task = t
    BY Zenon, <1>5 DEF assign_data, NoCall, TypeOK, MgmtTypeOK
  <2>3. CallInv'
    BY Zenon, <1>3, <2>1, <2>2 DEF CallInv, St
  <2> QED BY Zenon, <1>2, <2>1, <2>3
<1>6. ASSUME NEW u \in Users, approve_task(h, t, u)
      PROVE  OwnershipInv' /\ StatusStep
  <2> DEFINE ts == FromApprove(approve(task_states[t], u))
  <2>1. UNCHANGED <<task_states, cancel_queue>>
    BY Zenon, <1>6 DEF approve_task
  <2>2. ts.status \in {"DataAssigned", "Approved"}
    BY Zenon, <1>6, ExistsType, ApproveType, FromApproveType DEF approve_task
  <2>3. St(t) \in {"Created", "DataAssigned"}
    BY Zenon, <1>6 DEF approve_task, ToApprove, ToAssign, St
  <2>4. call'[h].pc = "write" /\ call'[h].task = t /\ call'[h].ts = ts
    <3>1. Goto(h, "write", t, ts)
      BY Zenon, <1>6 DEF approve_task
    <3> HIDE DEF ts
    <3> QED BY Zenon, <3>1 DEF Goto, NoCall, TypeOK, MgmtTypeOK
  <2>5. PrepareStep(St(t), ts.status)
    BY Zenon, <2>2, <2>3 DEF PrepareStep, PreStaged
  <2>6. CallInv'
    <3> HIDE DEF ts
    <3> QED BY Zenon, <1>3, <2>1, <2>4, <2>5 DEF CallInv, St
  <2> QED BY Zenon, <1>2, <2>1, <2>6
<1>7. CASE invoke_task(h, t)
  <2>1. UNCHANGED <<task_states, cancel_queue>>
    BY Zenon, <1>7 DEF invoke_task
  <2>2. call'[h].pc = "usage" /\ call'[h].task = t /\ call'[h].ts = task_states[t]
    BY Zenon, <1>7 DEF invoke_task, Goto, NoCall, TypeOK, MgmtTypeOK
  <2>3. CallInv'
    BY Zenon, <1>3, <2>1, <2>2 DEF CallInv, St
  <2> QED BY Zenon, <1>2, <2>1, <2>3
<1>8. CASE cancel_task(h, t)
  <2>1. UNCHANGED <<task_states, cancel_queue>>
    BY Zenon, <1>8 DEF cancel_task
  <2>2. CASE St(t) \in {"Staged", "Running"}
    <3>1. call'[h].pc = "cancel" /\ call'[h].task = t
      BY ZenonT(60), <1>8, <2>2 DEF cancel_task, Goto, NoCall, St, TypeOK, MgmtTypeOK
    <3>2. CallInv'
      BY Zenon, <1>3, <2>1, <2>2, <3>1 DEF CallInv, St, HandedOver, Active
    <3> QED BY Zenon, <1>2, <2>1, <3>2
  <2>3. CASE St(t) \notin {"Staged", "Running"}
    <3> DEFINE ts == FromCancel(task_states[t])
    <3>1. ts.status = "Canceled" /\ St(t) \in PreStaged
      BY Zenon, <1>8, <2>3, ExistsType, FromCancelType
      DEF cancel_task, ToCancel, St, PreStaged
    <3>2. call'[h].pc = "write" /\ call'[h].task = t /\ call'[h].ts = ts
      <4>1. Goto(h, "write", t, ts)
        BY Zenon, <1>8, <2>3 DEF cancel_task, St
      <4> HIDE DEF ts
      <4> QED BY Zenon, <4>1 DEF Goto, NoCall, TypeOK, MgmtTypeOK
    <3>3. PrepareStep(St(t), ts.status)
      BY Zenon, <3>1 DEF PrepareStep
    <3>4. CallInv'
      <4> HIDE DEF ts
      <4> QED BY Zenon, <1>3, <2>1, <3>2, <3>3 DEF CallInv, St
    <3> QED BY Zenon, <1>2, <2>1, <3>4
  <2> QED BY Zenon, <2>2, <2>3
<1> QED BY Zenon, <1>1, <1>4, <1>5, <1>6, <1>7, <1>8

(* The steps of the handler up to its end. *)
LEMMA HandlerOwnership ==
  ASSUME TypeOK, OwnershipInv, SingleHandler, NEW h \in Handlers,
         HandlerStep(h) \/ Abandon(h), UNCHANGED <<schedVars, execVars>>
  PROVE  OwnershipInv' /\ StatusStep
<1> USE DEF OwnershipInv
<1> DEFINE c == call[h]
<1>1. c \in ActiveCalls
  BY Zenon, ActiveCallType DEF HandlerStep, Abandon, assign_data_files, write_to_db,
     invoke_task_usage, invoke_task_enqueue, invoke_task_write,
     invoke_task_count, cancel_task_enqueue
<1>2. c.task \in Tasks /\ c.ts \in TaskStates
  BY Zenon, <1>1 DEF ActiveCalls
<1>3. \A g \in Handlers : g = h
  BY Zenon DEF SingleHandler
<1>4. ASSUME UNCHANGED <<task_states, cancel_queue>>
      PROVE  CancelInv' /\ MutexInv' /\ StartedInv' /\ StatusStep
  BY Zenon, <1>4 DEF CancelInv, MutexInv, StartedInv, StatusStep, St
<1>5. Return(h) => CallInv'
  <2>1. Return(h) => call'[h].pc = "idle"
    BY DEF Return, NoCall, TypeOK, MgmtTypeOK
  <2> QED BY Zenon, <1>3, <2>1 DEF CallInv
<1>6. CASE assign_data_files(h)
  <2> DEFINE ts == FromAssign(Assigned(c))
  <2>1. UNCHANGED <<task_states, cancel_queue>> /\ St(c.task) = "Created"
    BY Zenon, <1>6 DEF assign_data_files, CallInv
  <2>2. ts.status \in {"Created", "DataAssigned"}
    BY Zenon, <1>1, AssignedType, FromAssignType
  <2>3. CASE Goto(h, "write", c.task, ts)
    <3>1. call'[h].pc = "write" /\ call'[h].task = c.task /\ call'[h].ts = ts
      <4> HIDE DEF ts
      <4> QED BY Zenon, <2>3 DEF Goto, NoCall, TypeOK, MgmtTypeOK
    <3>2. PrepareStep(St(c.task), ts.status)
      BY Zenon, <2>1, <2>2 DEF PrepareStep, PreStaged
    <3>3. CallInv'
      <4> HIDE DEF ts
      <4> QED BY Zenon, <1>3, <2>1, <3>1, <3>2 DEF CallInv, St
    <3> QED BY Zenon, <1>4, <2>1, <3>3
  <2>4. CASE Return(h)
    BY Zenon, <1>4, <1>5, <2>1, <2>4
  <2> QED BY Zenon, <1>6, <2>3, <2>4 DEF assign_data_files
<1>7. CASE write_to_db(h)
  <2>1. PutTask(c.task, c.ts) /\ PrepareStep(St(c.task), c.ts.status)
    BY Zenon, <1>7 DEF write_to_db, CallInv
  <2>2. St(c.task) \in PreStaged
    BY Zenon, <2>1 DEF PrepareStep, PreStaged
  <2>3. CancelInv' /\ MutexInv' /\ StartedInv'
    BY Zenon, <1>2, <1>7, <2>1, <2>2, MgmtWrite DEF write_to_db
  <2>4. StatusStep
    BY Zenon, <1>2, <2>1 DEF StatusStep, LegalMove
  <2> QED BY Zenon, <1>5, <1>7, <2>3, <2>4 DEF write_to_db
<1>8. CASE invoke_task_usage(h)
  <2>1. UNCHANGED <<task_states, cancel_queue>> /\ c.pc = "usage"
    BY Zenon, <1>8 DEF invoke_task_usage
  <2>2. CASE ToStage(c.ts) /\ \E n : call' = [call EXCEPT ![h] =
                                        [c EXCEPT !.pc = "stage", !.uses = n]]
    <3>1. c.ts.status \in PreStaged
      BY Zenon, <2>2 DEF ToStage, ToApprove, ToAssign, PreStaged
    <3>2. St(c.task) \in PreStaged
      BY Zenon, <2>1, <3>1 DEF CallInv
    <3>3. call'[h].pc = "stage" /\ call'[h].task = c.task
      BY Zenon, <1>1, <2>2 DEF ActiveCalls, TypeOK, MgmtTypeOK
    <3>4. CallInv'
      BY Zenon, <1>3, <2>1, <3>2, <3>3 DEF CallInv, St
    <3> QED BY Zenon, <1>4, <2>1, <3>4
  <2>3. CASE Return(h)
    BY Zenon, <1>4, <1>5, <2>1, <2>3
  <2> QED BY Zenon, <1>8, <2>2, <2>3 DEF invoke_task_usage
<1>9. CASE invoke_task_enqueue(h)
  <2>1. UNCHANGED <<task_states, cancel_queue>> /\ c.pc = "stage"
    BY Zenon, <1>9 DEF invoke_task_enqueue
  <2>2. call'[h].pc = "staged" /\ call'[h].task = c.task
    BY Zenon, <1>1, <1>9 DEF invoke_task_enqueue, ActiveCalls, TypeOK, MgmtTypeOK
  <2>3. CallInv'
    BY Zenon, <1>3, <2>1, <2>2 DEF CallInv, St
  <2> QED BY Zenon, <1>4, <2>1, <2>3
<1>10. CASE invoke_task_write(h)
  <2>1. FromStage(c.ts) \in TaskStates /\ FromStage(c.ts).status = "Staged"
    BY Zenon, <1>2, FromStageType
  <2>2. PutTask(c.task, FromStage(c.ts)) /\ St(c.task) \in PreStaged
    BY Zenon, <1>10 DEF invoke_task_write, CallInv
  <2>3. CancelInv' /\ MutexInv' /\ StartedInv'
    BY Zenon, <1>2, <1>10, <2>1, <2>2, MgmtWrite DEF invoke_task_write
  <2>4. call'[h].pc = "count"
    BY Zenon, <1>1, <1>10 DEF invoke_task_write, ActiveCalls, TypeOK, MgmtTypeOK
  <2>5. CallInv'
    BY Zenon, <1>3, <2>4 DEF CallInv
  <2>6. StatusStep
    BY Zenon, <1>2, <2>1, <2>2 DEF StatusStep, LegalMove
  <2> QED BY Zenon, <2>3, <2>5, <2>6
<1>11. CASE invoke_task_count(h)
  BY Zenon, <1>4, <1>5, <1>11 DEF invoke_task_count
<1>12. CASE cancel_task_enqueue(h)
  <2>1. UNCHANGED <<task_states, tasks_to_cancel, handler, daemon, started>>
    BY Zenon, <1>12 DEF cancel_task_enqueue
  <2>2. St(c.task) \in HandedOver /\ cancel_queue' = Append(cancel_queue, c.task)
    BY Zenon, <1>12 DEF cancel_task_enqueue, CallInv
  <2>3. CancelInv'
    <3>1. \A i \in DOMAIN cancel_queue' : \/ cancel_queue'[i] = c.task
                                         \/ /\ i \in DOMAIN cancel_queue
                                            /\ cancel_queue'[i] = cancel_queue[i]
      <4>1. PICK x \in Tasks, q \in Seq(Tasks) : x = c.task /\ q = cancel_queue
        BY Zenon, <1>2 DEF TypeOK, StoreTypeOK
      <4> HIDE DEF c, OwnershipInv
      <4>2. PICK r : r = cancel_queue' /\ r = Append(q, x)
        BY Zenon, <2>2, <4>1
      <4>3. \A i \in DOMAIN r : r[i] = x \/ (i \in DOMAIN q /\ r[i] = q[i])
        BY ONLY <4>2, q \in Seq(Tasks), x \in Tasks
      <4> QED BY Zenon, <4>1, <4>2, <4>3
    <3>2. \A i \in DOMAIN cancel_queue' : St(cancel_queue'[i]) \in HandedOver
      BY Zenon, <2>2, <3>1 DEF CancelInv
    <3> QED BY Zenon, <2>1, <3>2 DEF CancelInv, St
  <2>4. MutexInv' /\ StartedInv' /\ StatusStep
    BY Zenon, <2>1 DEF MutexInv, StartedInv, StatusStep, St
  <2> QED BY Zenon, <1>5, <1>12, <2>3, <2>4 DEF cancel_task_enqueue
<1>13. CASE Abandon(h)
  BY Zenon, <1>4, <1>5, <1>13 DEF Abandon
<1> QED BY Zenon, <1>6, <1>7, <1>8, <1>9, <1>10, <1>11, <1>12, <1>13 DEF HandlerStep

-----------------------------------------------------------------------------
(* The daemon. *)
(* The daemon stores the failure of the task of a lost executor. *)
LEMMA DaemonWrite ==
  ASSUME TypeOK, OwnershipInv, daemon.pc = "fail",
         PutTask(daemon.task, daemon.ts), daemon'.pc \in {"expire", "dead"},
         UNCHANGED <<cancel_queue, tasks_to_cancel, handler, mgmtVars, execVars>>
  PROVE  OwnershipInv' /\ StatusStep
<1> USE DEF OwnershipInv
<1>1. /\ St(daemon.task) \in Active
      /\ daemon.task \in Tasks /\ daemon.ts \in TaskStates
      /\ daemon.ts.status = "Failed" /\ handler = None
  BY Zenon DEF MutexInv, DaemonStates, TypeOK, SchedTypeOK
<1>2. CallInv' /\ CancelInv'
  BY Zenon, <1>1, SchedWrite DEF HandedOver, EndedStatus
<1>3. MutexInv'
  BY Zenon, <1>1 DEF MutexInv
<1>4. StartedInv'
  BY ZenonT(60), <1>1, PutStatus DEF StartedInv, EndedStatus
<1>5. StatusStep
  BY Zenon, <1>1 DEF StatusStep, LegalMove
<1> QED BY Zenon, <1>2, <1>3, <1>4, <1>5

LEMMA DaemonOwnership ==
  ASSUME TypeOK, OwnershipInv, DaemonStep, UNCHANGED <<mgmtVars, execVars>>
  PROVE  OwnershipInv' /\ StatusStep
<1> USE DEF OwnershipInv
<1>1. ASSUME UNCHANGED task_states
      PROVE  CallInv' /\ StartedInv' /\ StatusStep
  BY Zenon, <1>1 DEF CallInv, StartedInv, StatusStep, St
<1>2. CASE daemon_lock
  <2>1. MutexInv' /\ CancelInv'
    BY Zenon, <1>2 DEF daemon_lock, Unlocked, DaemonAt, MutexInv, CancelInv, St
  <2> QED BY Zenon, <1>1, <1>2, <2>1 DEF daemon_lock
<1>3. CASE pull_cancel_queue
  <2>1. UNCHANGED <<task_states, handler>> /\ daemon'.pc \in {"cancel", "staged"}
        /\ handler = None
    <3>1. /\ UNCHANGED <<task_states, handler>> /\ daemon.pc = "cancel"
          /\ UNCHANGED daemon \/ DaemonAt("staged")
      BY Zenon, <1>3 DEF pull_cancel_queue
    <3>2. handler = None
      BY Zenon, <3>1 DEF MutexInv
    <3> QED BY <3>1, <3>2 DEF DaemonAt
  <2>2. MutexInv'
    BY Zenon, <2>1 DEF MutexInv
  <2>3. CASE cancel_queue = << >>
    BY Zenon, <1>1, <1>3, <2>1, <2>2, <2>3 DEF pull_cancel_queue, CancelInv, St
  <2>4. CASE cancel_queue # << >>
    <3>1. /\ tasks_to_cancel' = tasks_to_cancel \cup {Head(cancel_queue)}
          /\ cancel_queue' = Tail(cancel_queue)
      BY Zenon, <1>3, <2>4 DEF pull_cancel_queue
    <3>a. cancel_queue \in Seq(Tasks) /\ CancelInv
      BY Zenon DEF TypeOK, StoreTypeOK
    <3> HIDE DEF OwnershipInv
    <3>b. /\ 1 \in DOMAIN cancel_queue /\ Head(cancel_queue) = cancel_queue[1]
          /\ \A i \in DOMAIN Tail(cancel_queue) :
               /\ i + 1 \in DOMAIN cancel_queue
               /\ Tail(cancel_queue)[i] = cancel_queue[i + 1]
      BY Zenon, <2>4, <3>a, QueueElements
    <3>2. \A i \in DOMAIN cancel_queue' : St(cancel_queue'[i]) \in HandedOver
      BY Zenon, <3>1, <3>a, <3>b DEF CancelInv
    <3>3. \A t \in tasks_to_cancel' : St(t) \in HandedOver
      BY Zenon, <3>1, <3>a, <3>b DEF CancelInv
    <3>4. CancelInv'
      BY Zenon, <2>1, <3>2, <3>3 DEF CancelInv, St
    <3> QED BY Zenon, <1>1, <2>1, <2>2, <3>4 DEF OwnershipInv
  <2> QED BY Zenon, <2>3, <2>4
<1>4. CASE pull_staged_task
  <2>1. /\ UNCHANGED <<task_states, handler, cancel_queue, tasks_to_cancel>>
        /\ daemon'.pc \in {"staged", "expire"}
        /\ handler = None
    <3>1. /\ UNCHANGED <<task_states, handler, cancel_queue, tasks_to_cancel>>
          /\ daemon.pc = "staged" /\ (UNCHANGED daemon \/ DaemonAt("expire"))
      BY Zenon, <1>4 DEF pull_staged_task
    <3>2. handler = None
      BY Zenon, <3>1 DEF MutexInv
    <3> QED BY <3>1, <3>2 DEF DaemonAt
  <2>2. MutexInv' /\ CancelInv'
    BY Zenon, <2>1 DEF MutexInv, CancelInv, St
  <2> QED BY Zenon, <1>1, <2>1, <2>2
<1>5. CASE daemon_get
  <2> DEFINE ts == task_states[daemon.task]
  <2>1. /\ UNCHANGED <<task_states, handler, cancel_queue, tasks_to_cancel>>
        /\ handler = None /\ daemon.task \in Tasks
    <3>1. /\ UNCHANGED <<task_states, handler, cancel_queue, tasks_to_cancel>>
          /\ daemon.pc = "lost"
      BY Zenon, <1>5 DEF daemon_get
    <3>2. daemon.task \in Tasks
      BY Zenon, <3>1 DEF DaemonStates, TypeOK, SchedTypeOK
    <3>3. handler = None
      BY Zenon, <3>1 DEF MutexInv
    <3> QED BY Zenon, <3>1, <3>2, <3>3
  <2>2. CASE DaemonAt("expire") \/ DaemonAt("dead")
    <3>1. daemon'.pc \in {"expire", "dead"}
      BY <2>2 DEF DaemonAt
    <3>2. MutexInv'
      BY Zenon, <2>1, <3>1 DEF MutexInv
    <3>3. CancelInv'
      BY Zenon, <2>1 DEF CancelInv, St
    <3> QED BY Zenon, <1>1, <2>1, <3>2, <3>3
  <2>3. CASE ToFail(ts) /\ daemon' = [daemon EXCEPT !.pc = "fail", !.ts = FromFail(ts)]
    <3>1. FromFail(ts).status = "Failed" /\ St(daemon.task) \in Active
      BY Zenon, <2>1, <2>3, ConvertibleType, FromFailType DEF ToFail, St, Active
    <3>2. /\ daemon'.pc = "fail" /\ daemon'.task = daemon.task
          /\ daemon'.ts = FromFail(ts)
      BY <1>5, <2>3 DEF daemon_get, DaemonStates
    <3>3. MutexInv'
      BY Zenon, <2>1, <3>1, <3>2 DEF MutexInv, St
    <3>4. CancelInv'
      BY Zenon, <2>1 DEF CancelInv, St
    <3> QED BY Zenon, <1>1, <2>1, <3>3, <3>4
  <2> QED BY Zenon, <1>5, <2>2, <2>3 DEF daemon_get
<1>6. CASE daemon_put
  BY Zenon, <1>6, DaemonWrite DEF daemon_put, DaemonAt
<1>7. CASE daemon_sleep
  <2>1. MutexInv' /\ CancelInv'
    BY Zenon, <1>7 DEF daemon_sleep, DaemonAt, MutexInv, CancelInv, St
  <2> QED BY Zenon, <1>1, <1>7, <2>1 DEF daemon_sleep
<1> QED BY Zenon, <1>2, <1>3, <1>4, <1>5, <1>6, <1>7 DEF DaemonStep

LEMMA ExpireOwnership ==
  ASSUME TypeOK, OwnershipInv, NEW e \in Executors, daemon_expire(e),
         UNCHANGED <<mgmtVars, execVars>>
  PROVE  OwnershipInv' /\ StatusStep
<1> USE DEF OwnershipInv
<1>1. /\ UNCHANGED <<task_states, handler, cancel_queue, tasks_to_cancel>>
      /\ handler = None /\ daemon'.pc \in {"expire", "lost"}
  BY Zenon
        DEF daemon_expire, MutexInv, DaemonStates, TypeOK, StoreTypeOK, MgmtTypeOK,
            SchedTypeOK, ExecTypeOK
<1> QED BY Zenon, <1>1 DEF CallInv, MutexInv, CancelInv, StartedInv, StatusStep, St

LEMMA DaemonErrorOwnership ==
  ASSUME TypeOK, OwnershipInv, daemon_storage_error,
         UNCHANGED <<mgmtVars, execVars>>
  PROVE  OwnershipInv' /\ StatusStep
<1> USE DEF OwnershipInv
<1>a. CASE ~ UNCHANGED task_states
  <2>1. /\ daemon.pc = "fail" /\ PutTask(daemon.task, daemon.ts)
        /\ DaemonAt("dead")
        /\ UNCHANGED <<cancel_queue, tasks_to_cancel, handler>>
    BY Zenon, <1>a DEF daemon_storage_error
  <2> QED BY Zenon, <2>1, DaemonWrite DEF DaemonAt
<1>0. SUFFICES ASSUME UNCHANGED task_states PROVE OwnershipInv' /\ StatusStep
  BY Zenon, <1>a
<1>1. /\ UNCHANGED <<task_states, handler, tasks_to_cancel>>
      /\ handler = None /\ daemon'.pc \in {"staged", "expire", "dead"}
  <2>1. daemon.pc \in {"cancel", "staged", "lost", "fail"} /\ UNCHANGED handler
        /\ UNCHANGED tasks_to_cancel
    BY Zenon DEF daemon_storage_error
  <2>2. DaemonAt("staged") \/ DaemonAt("expire") \/ DaemonAt("dead")
    BY Zenon DEF daemon_storage_error
  <2>3. daemon'.pc \in {"staged", "expire", "dead"}
    BY <2>2 DEF DaemonAt
  <2>4. handler = None
    BY Zenon, <2>1 DEF MutexInv
  <2> QED BY Zenon, <1>0, <2>1, <2>3, <2>4
<1>2. CallInv' /\ MutexInv' /\ StartedInv' /\ StatusStep
  BY Zenon, <1>1 DEF CallInv, MutexInv, StartedInv, StatusStep, St
<1>3. \/ UNCHANGED cancel_queue
      \/ cancel_queue # << >> /\ cancel_queue' = Tail(cancel_queue)
  BY Zenon DEF daemon_storage_error
<1>4. \A i \in DOMAIN cancel_queue' : \E j \in DOMAIN cancel_queue :
        cancel_queue'[i] = cancel_queue[j]
  <2>1. CASE UNCHANGED cancel_queue
    BY Zenon, <2>1
  <2>2. CASE cancel_queue # << >> /\ cancel_queue' = Tail(cancel_queue)
    <3> SUFFICES ASSUME NEW i \in DOMAIN cancel_queue'
        PROVE \E j \in DOMAIN cancel_queue : cancel_queue'[i] = cancel_queue[j]
      BY Zenon
    <3>1. i + 1 \in DOMAIN cancel_queue /\ cancel_queue'[i] = cancel_queue[i + 1]
      BY Zenon, <2>2, QueueElements DEF TypeOK, StoreTypeOK
    <3> QED BY Zenon, <3>1
  <2> QED BY Zenon, <1>3, <2>1, <2>2
<1>5. \A i \in DOMAIN cancel_queue' : St(cancel_queue'[i]) \in HandedOver
  BY Zenon, <1>4 DEF CancelInv
<1> QED BY Zenon, <1>1, <1>2, <1>5 DEF CancelInv, St

-----------------------------------------------------------------------------
(* The handlers of the scheduler. *)

(* What the handler inside the mutex is about to write continues what is   *)
(* stored.                                                                 *)
WriterOK ==
  handler # None =>
    /\ daemon.pc \in {"sleep", "dead"}
    /\ \/ /\ handler.op = "cancel" /\ St(handler.task) \in Active
          /\ handler.ts.status = "Canceled"
       \/ /\ handler.op = "status" /\ St(handler.task) = "Staged"
          /\ handler.ts.status = "Running"
       \/ /\ handler.op = "result" /\ St(handler.task) = "Running"
          /\ handler.ts.status = "Finished"

(* A step that writes no task record. *)
LEMMA ReadOwnership ==
  ASSUME TypeOK, OwnershipInv,
         UNCHANGED <<task_states, started, call, cancel_queue, daemon>>,
         tasks_to_cancel' \subseteq tasks_to_cancel,
         handler' \in {None, handler} \/ WriterOK'
  PROVE  OwnershipInv' /\ StatusStep
<1>1. CallInv' /\ CancelInv' /\ StartedInv' /\ StatusStep
  BY Zenon DEF OwnershipInv, CallInv, CancelInv, StartedInv, StatusStep, St
<1>2. MutexInv'
  <2>1. CASE handler' \in {None, handler}
    BY Zenon, <2>1 DEF OwnershipInv, MutexInv, St
  <2>2. CASE WriterOK'
    BY Zenon, <2>2 DEF OwnershipInv, MutexInv, WriterOK, St
  <2> QED BY Zenon, <2>1, <2>2
<1> QED BY Zenon, <1>1, <1>2 DEF OwnershipInv

(* The reads of the handlers leave a writer that is in order. *)
LEMMA CancelWriter ==
  ASSUME TypeOK, OwnershipInv, NEW e, NEW t \in Tasks, NEW ok \in BOOLEAN,
         cancel_task_get(e, t, ok), t \in tasks_to_cancel, Unlocked,
         UNCHANGED <<task_states, daemon>>
  PROVE  handler' \in {None, handler} \/ WriterOK'
<1>1. CASE ~ ok
  BY Zenon, <1>1 DEF cancel_task_get
<1>2. CASE ok
  <2> DEFINE ts == FromCancel(task_states[t])
  <2>1. ToCancel(task_states[t]) /\ task_states[t] \in TaskStates
    BY Zenon, <1>2, ConvertibleType DEF cancel_task_get
  <2>2. ts.status = "Canceled"
    BY Zenon, <2>1, FromCancelType
  <2>3. St(t) \in Active
    BY Zenon, <2>1 DEF OwnershipInv, CancelInv, HandedOver, EndedStatus, ToCancel, St
  <2>4. handler' = [by |-> e, op |-> "cancel", task |-> t, ts |-> ts, todo |-> {}]
    BY Zenon, <1>2 DEF cancel_task_get
  <2> HIDE DEF ts
  <2>5. handler'.op = "cancel" /\ handler'.task = t /\ handler'.ts = ts
    BY Zenon, <2>4
  <2> QED BY Zenon, <2>2, <2>3, <2>5 DEF WriterOK, Unlocked, St
<1> QED BY Zenon, <1>1, <1>2

LEMMA StatusWriter ==
  ASSUME TypeOK, OwnershipInv, NEW e, NEW t \in Tasks, NEW ok \in BOOLEAN,
         sched_status_get(e, t, ok)
  PROVE  handler' \in {None, handler} \/ WriterOK'
<1>1. CASE ~ ok
  BY Zenon, <1>1 DEF sched_status_get
<1>2. CASE ok
  <2> DEFINE ts == FromRun(task_states[t])
  <2>1. ToRun(task_states[t]) /\ task_states[t] \in TaskStates
    BY Zenon, <1>2, ConvertibleType DEF sched_status_get
  <2>2. ts.status = "Running" /\ St(t) = "Staged"
    BY Zenon, <2>1, FromRunType DEF ToRun, St
  <2>3. /\ handler' = [by |-> e, op |-> "status", task |-> t, ts |-> ts, todo |-> {}]
        /\ Unlocked /\ UNCHANGED <<task_states, daemon>>
    BY Zenon, <1>2 DEF sched_status_get
  <2> HIDE DEF ts
  <2>4. handler'.op = "status" /\ handler'.task = t /\ handler'.ts = ts
    BY Zenon, <2>3
  <2> QED BY Zenon, <2>2, <2>3, <2>4 DEF WriterOK, Unlocked, St
<1> QED BY Zenon, <1>1, <1>2

LEMMA ResultWriter ==
  ASSUME TypeOK, OwnershipInv, NEW e, NEW t \in Tasks, NEW ok \in BOOLEAN,
         NEW result \in {"Ok", "Err"}, NEW tags,
         sched_result_get(e, t, result, tags, ok)
  PROVE  handler' \in {None, handler} \/ WriterOK'
<1>1. CASE ~ ok
  BY Zenon, <1>1 DEF sched_result_get
<1>2. CASE ok
  <2> DEFINE ts == FromFinish(task_states[t], result)
             todo == IF result = "Ok" THEN tags ELSE {}
  <2>1. ToFinish(task_states[t]) /\ task_states[t] \in TaskStates
    BY Zenon, <1>2, ConvertibleType DEF sched_result_get
  <2>2. ts.status = "Finished" /\ St(t) = "Running"
    BY Zenon, <2>1, FromFinishType DEF ToFinish, TaskResult, St
  <2>3. /\ handler' = [by |-> e, op |-> "result", task |-> t, ts |-> ts, todo |-> todo]
        /\ Unlocked /\ UNCHANGED <<task_states, daemon>>
    BY Zenon, <1>2 DEF sched_result_get
  <2> HIDE DEF ts, todo
  <2>4. handler'.op = "result" /\ handler'.task = t /\ handler'.ts = ts
    BY Zenon, <2>3
  <2> QED BY Zenon, <2>2, <2>3, <2>4 DEF WriterOK, Unlocked, St
<1> QED BY Zenon, <1>1, <1>2

LEMMA OutputWriter ==
  ASSUME TypeOK, OwnershipInv, NEW n \in OutputNames, NEW ok \in BOOLEAN,
         sched_result_put_output(n, ok)
  PROVE  handler' \in {None, handler} \/ WriterOK'
<1>1. CASE ~ ok
  BY Zenon, <1>1 DEF sched_result_put_output
<1>2. CASE ok
  <2> DEFINE ts == update_output_cmac(handler.ts, n, handler.task)
             todo == handler.todo \ {n}
  <2>1. handler # None /\ handler \in SchedHandlers
    BY Zenon, HandlerType DEF sched_result_put_output
  <2>2. ts.status = handler.ts.status
    BY Zenon, <2>1 DEF update_output_cmac, SchedHandlers, TaskStates
  <2>3. /\ handler' = [handler EXCEPT !.todo = todo, !.ts = ts]
        /\ UNCHANGED <<task_states, daemon>>
    BY Zenon, <1>2 DEF sched_result_put_output
  <2> HIDE DEF ts, todo
  <2>4. handler'.op = handler.op /\ handler'.task = handler.task /\ handler'.ts = ts
    BY Zenon, <2>1, <2>3 DEF SchedHandlers
  <2> QED BY Zenon, <2>1, <2>2, <2>3, <2>4 DEF WriterOK, OwnershipInv, MutexInv, St
<1> QED BY Zenon, <1>1, <1>2

(* The write that ends a handler, with the start of the worker thread that *)
(* follows update_task_status.                                             *)
LEMMA PutOwnership ==
  ASSUME TypeOK, OwnershipInv, NEW op, sched_put(op), UNCHANGED call,
         \/ UNCHANGED started
         \/ op = "status" /\ started' = [started EXCEPT ![handler.task] = @ + 1]
  PROVE  OwnershipInv' /\ StatusStep
<1>1. PICK t \in Tasks, ts \in TaskStates : t = handler.task /\ ts = handler.ts
  BY Zenon, HandlerType DEF sched_put, SchedHandlers
<1>2. PutTask(t, ts) /\ handler.op = op /\ handler' = None
      /\ UNCHANGED <<cancel_queue, tasks_to_cancel, daemon>>
  BY Zenon, <1>1 DEF sched_put
<1>3. /\ daemon.pc \in {"sleep", "dead"}
      /\ \/ St(t) \in Active /\ ts.status = "Canceled" /\ op = "cancel"
         \/ St(t) = "Staged" /\ ts.status = "Running" /\ op = "status"
         \/ St(t) = "Running" /\ ts.status = "Finished" /\ op = "result"
  BY Zenon, <1>1 DEF sched_put, OwnershipInv, MutexInv
<1>4. CallInv' /\ CancelInv'
  BY Zenon, <1>1, <1>2, <1>3, SchedWrite
        DEF OwnershipInv, HandedOver, Active, EndedStatus
<1>5. MutexInv'
  BY Zenon, <1>2, <1>3 DEF MutexInv
<1>6. St(t)' = ts.status /\ \A x \in Tasks : x # t => St(x)' = St(x)
  BY Zenon, <1>1, <1>2, PutStatus
<1>7. StartedInv'
  <2>1. CASE UNCHANGED started
    BY ZenonT(60), <1>1, <1>3, <1>6, <2>1 DEF StartedInv, OwnershipInv, Active, EndedStatus
  <2>2. CASE op = "status" /\ started' = [started EXCEPT ![t] = @ + 1]
    <3>1. started[t] = 0
      BY Zenon, <1>1, <1>3, <2>2 DEF StartedInv, OwnershipInv, EndedStatus
    <3>2. started \in [Tasks -> Nat] /\ StartedInv
      BY Zenon DEF OwnershipInv, TypeOK, ExecTypeOK
    <3>3. /\ started'[t] = 1 /\ St(t)' = "Running"
          /\ \A x \in Tasks : x # t => started'[x] = started[x]
      BY <1>1, <1>3, <1>6, <2>2, <3>1, <3>2
    <3> QED BY Zenon, <1>6, <3>2, <3>3 DEF StartedInv
  <2> QED BY Zenon, <1>1, <2>1, <2>2
<1>8. StatusStep
  BY Zenon, <1>1, <1>2, <1>3 DEF StatusStep, LegalMove
<1> QED BY Zenon, <1>4, <1>5, <1>7, <1>8 DEF OwnershipInv

-----------------------------------------------------------------------------
(* The executors and their faults. *)
LEMMA ExecutorOwnership ==
  ASSUME TypeOK, OwnershipInv, NEW e \in Executors, ExecutorStep(e),
         UNCHANGED mgmtVars
  PROVE  OwnershipInv' /\ StatusStep
<1>0. exec[e] \in ExecutorStates
  BY Zenon DEF TypeOK, ExecTypeOK
<1>a. exec[e].pc \in {"status", "result"} =>
        exec[e].current_task.task_id \in Tasks
  BY Zenon, <1>0 DEF ExecutorStates, IdleExecutors, BusyExecutors, StagedTasks
<1>1. CASE heartbeat(e)
  <2>1. CASE sched_heartbeat(e, exec[e].status)
    BY Zenon, <1>1, <2>1, ReadOwnership DEF heartbeat, sched_heartbeat
  <2>2. ASSUME NEW ok \in BOOLEAN, sched_heartbeat_stop(e, exec[e].status, ok)
        PROVE  OwnershipInv' /\ StatusStep
    <3>1. executors_tasks[e] \in Tasks /\ executors_tasks[e] \in tasks_to_cancel
      BY Zenon, <2>2 DEF sched_heartbeat_stop, StopRequested, TypeOK, SchedTypeOK
    <3>2. handler' \in {None, handler} \/ WriterOK'
      <4>1. /\ Unlocked /\ cancel_task_get(e, executors_tasks[e], ok)
            /\ UNCHANGED <<task_states, daemon>>
        BY Zenon, <2>2 DEF sched_heartbeat_stop
      <4> QED BY Zenon, <2>2, <3>1, <4>1, CancelWriter
    <3> QED BY Zenon, <1>1, <2>2, <3>2, ReadOwnership DEF heartbeat, sched_heartbeat_stop
  <2> QED BY Zenon, <1>1, <2>1, <2>2 DEF heartbeat
<1>2. CASE heartbeat_stop(e)
  BY Zenon, <1>2, PutOwnership DEF heartbeat_stop
<1>3. CASE pull_task(e)
  <2>1. CASE sched_pull_task(e)
    BY Zenon, <1>3, <2>1, ReadOwnership DEF pull_task, sched_pull_task
  <2>2. ASSUME NEW ok \in BOOLEAN, sched_pull_canceled(e, ok)
        PROVE  OwnershipInv' /\ StatusStep
    <3>1. PICK t \in Tasks : t = Head(task_queue).task_id
      BY Zenon, <2>2, SchedPullTypes DEF StagedTasks
    <3>2. handler' \in {None, handler} \/ WriterOK'
      <4>1. /\ Unlocked /\ cancel_task_get(e, t, ok) /\ t \in tasks_to_cancel
            /\ UNCHANGED <<task_states, daemon>>
        BY Zenon, <2>2, <3>1 DEF sched_pull_canceled
      <4> QED BY Zenon, <2>2, <4>1, CancelWriter
    <3> QED BY Zenon, <1>3, <2>2, <3>2, ReadOwnership DEF pull_task, sched_pull_canceled
  <2>3. CASE UNCHANGED <<storeVars, schedVars>>
    BY Zenon, <1>3, <2>3, ReadOwnership DEF pull_task
  <2> QED BY Zenon, <1>3, <2>1, <2>2, <2>3 DEF pull_task
<1>4. CASE pull_task_canceled(e)
  BY Zenon, <1>4, PutOwnership DEF pull_task_canceled
<1>5. CASE update_task_status(e)
  <2>1. PICK ok \in BOOLEAN : sched_status_get(e, exec[e].current_task.task_id, ok)
    BY Zenon, <1>5 DEF update_task_status
  <2>2. handler' \in {None, handler} \/ WriterOK'
    BY Zenon, <1>a, <1>5, <2>1, StatusWriter DEF update_task_status
  <2> QED BY Zenon, <1>5, <2>1, <2>2, ReadOwnership DEF update_task_status, sched_status_get
<1>6. CASE update_task_status_done(e)
  BY Zenon, <1>6, PutOwnership DEF update_task_status_done
<1>7. CASE try_recv(e)
  BY Zenon, <1>7, ReadOwnership DEF try_recv
<1>8. CASE update_task_result(e)
  <2>1. exec[e].worker \in {"Ok", "Err"}
    BY Zenon, <1>0, <1>8
          DEF update_task_result, ExecutorStates, IdleExecutors, BusyExecutors
  <2>2. PICK ok \in BOOLEAN :
          sched_result_get(e, exec[e].current_task.task_id, exec[e].worker,
                           DOMAIN exec[e].current_task.output_data, ok)
    BY Zenon, <1>8 DEF update_task_result
  <2>3. handler' \in {None, handler} \/ WriterOK'
    BY ZenonT(60), <1>a, <1>8, <2>1, <2>2, ResultWriter DEF update_task_result
  <2> QED BY Zenon, <1>8, <2>2, <2>3, ReadOwnership DEF update_task_result, sched_result_get
<1>9. ASSUME NEW n \in OutputNames, update_task_result_output(e, n)
      PROVE  OwnershipInv' /\ StatusStep
  <2>1. PICK ok \in BOOLEAN : sched_result_put_output(n, ok)
    BY Zenon, <1>9 DEF update_task_result_output
  <2>2. handler' \in {None, handler} \/ WriterOK'
    BY Zenon, <2>1, OutputWriter
  <2> QED BY Zenon, <1>9, <2>1, <2>2, ReadOwnership
          DEF update_task_result_output, sched_result_put_output
<1>10. CASE update_task_result_done(e)
  BY Zenon, <1>10, PutOwnership DEF update_task_result_done
<1> QED BY Zenon, <1>1, <1>2, <1>3, <1>4, <1>5, <1>6, <1>7, <1>8, <1>9, <1>10
        DEF ExecutorStep

LEMMA ExecutorFaultOwnership ==
  ASSUME TypeOK, OwnershipInv, NEW e \in Executors, UNCHANGED mgmtVars,
         \/ crash(e) \/ crash_in_rpc(e) \/ rpc_lost(e) \/ handler_storage_error(e)
         \/ worker_lost(e) \/ \E r \in {"Ok", "Err"} : invoke_task_done(e, r)
  PROVE  OwnershipInv' /\ StatusStep
<1>1. CASE UNCHANGED <<storeVars, schedVars, started>>
  BY Zenon, <1>1, ReadOwnership
<1>2. CASE sched_storage_error /\ UNCHANGED started
  BY Zenon, <1>2, ReadOwnership DEF sched_storage_error
<1>3. CASE sched_pull_task(e) /\ UNCHANGED started
  BY Zenon, <1>3, ReadOwnership DEF sched_pull_task
<1>4. CASE sched_put(handler.op) /\ UNCHANGED started
  BY Zenon, <1>4, PutOwnership
<1> QED BY Zenon, <1>1, <1>2, <1>3, <1>4
        DEF crash, crash_in_rpc, rpc_lost, handler_storage_error, worker_lost,
            invoke_task_done

(* A restart drops the pending writes of the scheduler and its marks. *)
LEMMA RestartOwnership ==
  ASSUME TypeOK, OwnershipInv, scheduler_restart, UNCHANGED mgmtVars
  PROVE  OwnershipInv' /\ StatusStep
<1> USE DEF OwnershipInv
<1>1. /\ UNCHANGED <<task_states, cancel_queue, started>>
      /\ handler' = None /\ daemon'.pc = "sleep" /\ tasks_to_cancel' = {}
  BY Zenon DEF scheduler_restart, sched_restart
<1> QED BY Zenon, <1>1 DEF CallInv, MutexInv, CancelInv, StartedInv, StatusStep, St

-----------------------------------------------------------------------------
LEMMA InitOwnership == Init => OwnershipInv
<1> SUFFICES ASSUME Init PROVE OwnershipInv
  BY Zenon
<1>1. CallInv
  BY Zenon DEF Init, CallInv, NoCall
<1>2. CancelInv
  <2>1. cancel_queue = << >> /\ tasks_to_cancel = {}
    BY Zenon DEF Init, SchedInit
  <2>2. DOMAIN << >> = {}
    OBVIOUS
  <2> QED BY Zenon, <2>1, <2>2 DEF CancelInv
<1>3. MutexInv
  BY Zenon DEF Init, SchedInit, MutexInv
<1>4. StartedInv
  BY Zenon DEF Init, ExecInit, StartedInv
<1> QED BY Zenon, <1>1, <1>2, <1>3, <1>4 DEF OwnershipInv

LEMMA NextOwnership ==
  ASSUME SingleHandler, TypeOK, OwnershipInv, [Next]_vars
  PROVE  OwnershipInv' /\ StatusStep
<1>1. ASSUME NEW h \in Handlers, ManagementNext(h)
      PROVE  OwnershipInv' /\ StatusStep
  BY Zenon, <1>1, RequestOwnership, HandlerOwnership DEF ManagementNext
<1>2. CASE DaemonNext
  BY Zenon, <1>2, DaemonOwnership, ExpireOwnership DEF DaemonNext, ExpireExited
<1>3. ASSUME NEW e \in Executors, ExecutorNext(e)
      PROVE  OwnershipInv' /\ StatusStep
  BY Zenon, <1>3, ExecutorOwnership, ExecutorFaultOwnership DEF ExecutorNext
<1>4. CASE FaultNext
  <2>1. ASSUME NEW h \in Handlers, Abandon(h), UNCHANGED <<schedVars, execVars>>
        PROVE  OwnershipInv' /\ StatusStep
    BY Zenon, <2>1, HandlerOwnership
  <2>2. ASSUME NEW e \in Executors, UNCHANGED mgmtVars,
               \/ crash(e) \/ crash_in_rpc(e) \/ rpc_lost(e) \/ worker_lost(e)
               \/ handler_storage_error(e)
        PROVE  OwnershipInv' /\ StatusStep
    BY Zenon, <2>2, ExecutorFaultOwnership
  <2>3. ASSUME NEW e \in Executors, ExpireLive(e), UNCHANGED <<mgmtVars, execVars>>
        PROVE  OwnershipInv' /\ StatusStep
    BY Zenon, <2>3, ExpireOwnership DEF ExpireLive
  <2>4. CASE daemon_storage_error /\ UNCHANGED <<mgmtVars, execVars>>
    BY Zenon, <2>4, DaemonErrorOwnership
  <2>5. CASE scheduler_restart /\ UNCHANGED mgmtVars
    BY Zenon, <2>5, RestartOwnership
  <2> QED BY Zenon, <1>4, <2>1, <2>2, <2>3, <2>4, <2>5 DEF FaultNext
<1>5. CASE UNCHANGED vars
  BY Zenon, <1>5, ReadOwnership DEF vars
<1> QED BY Zenon, <1>1, <1>2, <1>3, <1>4, <1>5 DEF Next

(* With one handler of the management service at a time a task belongs to  *)
(* that service until it is staged and to the scheduler from then on: what *)
(* a handler or the daemon is about to write back always continues what    *)
(* is stored, whatever is canceled, lost or timed out in between.          *)
THEOREM Ownership == SingleHandler => (Spec => []OwnershipInv)
<1> SUFFICES ASSUME SingleHandler PROVE Spec => []OwnershipInv
  BY Zenon
<1>1. TypeOK /\ OwnershipInv /\ [Next]_vars => OwnershipInv'
  BY Zenon, NextOwnership
<1> QED BY <1>1, InitOwnership, TypeCorrect, PTL DEF Spec

(* Then the function of a task is started at most once. *)
THEOREM AtMostOneRun == SingleHandler => (Spec => []RunsAtMostOnce)
<1> SUFFICES ASSUME SingleHandler PROVE Spec => []RunsAtMostOnce
  BY Zenon
<1>1. OwnershipInv => RunsAtMostOnce
  <2> SUFFICES ASSUME OwnershipInv, NEW t \in Tasks PROVE started[t] <= 1
    BY Zenon DEF RunsAtMostOnce
  <2>1. started[t] = 0 \/ started[t] = 1
    BY Zenon DEF OwnershipInv, StartedInv
  <2> QED BY <2>1
<1> QED BY <1>1, Ownership, PTL

(* A write that moves a task along its machine leaves ended tasks alone. *)
LEMMA EndedStays ==
  ASSUME TypeOK, StatusStep
  PROVE  \A t \in Tasks : is_ended(task_states[t]) => task_states'[t] = task_states[t]
<1> DEFINE A == \A t \in Tasks :
                  is_ended(task_states[t]) => task_states'[t] = task_states[t]
<1>1. CASE UNCHANGED task_states
  BY Zenon, <1>1
<1>2. ASSUME NEW t \in Tasks, NEW ts \in TaskStates, PutTask(t, ts),
             LegalMove(St(t), ts.status)
      PROVE  A
  <2>1. ~ is_ended(task_states[t])
    BY Zenon, <1>2 DEF LegalMove, PrepareStep, PreStaged, Active, is_ended, EndedStatus, St
  <2> QED BY Zenon, <1>2, <2>1 DEF PutTask, TypeOK, StoreTypeOK
<1> QED BY Zenon, <1>1, <1>2 DEF StatusStep

(* And the record of an ended task is never written again. *)
THEOREM EndedForever == SingleHandler => (Spec => EndedIsFinal)
<1> SUFFICES ASSUME SingleHandler PROVE Spec => EndedIsFinal
  BY Zenon
<1> DEFINE A == \A t \in Tasks :
                  is_ended(task_states[t]) => task_states'[t] = task_states[t]
<1>1. TypeOK /\ OwnershipInv /\ [Next]_vars => [A]_vars
  BY Zenon, EndedStays, NextOwnership
<1> QED BY <1>1, Ownership, TypeCorrect, PTL DEF Spec, EndedIsFinal

-----------------------------------------------------------------------------
(* The four services implement TaskLifecycle. *)
LEMMA LifecycleInit == Init => Lifecycle!LInit
<1> SUFFICES ASSUME Init PROVE Lifecycle!LInit
  BY Zenon
<1>1. ASSUME NEW t \in Tasks
      PROVE  task_states[t].status \in {"Absent"} \cup Lifecycle!Preparing
  <2>1. task_states[t] = NoTask \/ Prepared(task_states[t])
    BY Zenon, <1>1, InitialAssumption DEF Init
  <2>2. Prepared(task_states[t]) =>
          task_states[t].status \in {"Created", "DataAssigned", "Approved"}
    BY Zenon DEF Prepared
  <2>3. NoTask.status = "Absent"
    BY Zenon DEF NoTask
  <2>4. CASE task_states[t] = NoTask
    BY ONLY Zenon, <2>3, <2>4
  <2>5. CASE Prepared(task_states[t])
    BY ONLY Zenon, <2>2, <2>5 DEF Lifecycle!Preparing
  <2> QED BY ONLY Zenon, <2>1, <2>4, <2>5
<1> QED BY Zenon, <1>1 DEF Init, ExecInit, Lifecycle!LInit

LEMMA LifecycleStep ==
  ASSUME TypeOK, StatusStep
  PROVE  [Lifecycle!LNext]_<<[t \in Tasks |-> task_states[t].status], started>>
<1> DEFINE status == [t \in Tasks |-> task_states[t].status]
<1>1. CASE UNCHANGED <<task_states, started>>
  BY Zenon, <1>1
<1>2. ASSUME NEW t \in Tasks, NEW ts \in TaskStates, PutTask(t, ts),
             LegalMove(St(t), ts.status),
             \/ UNCHANGED started
             \/ /\ St(t) = "Staged" /\ ts.status = "Running"
                /\ started' = [started EXCEPT ![t] = @ + 1]
      PROVE  [Lifecycle!LNext]_<<status, started>>
  <2>1. status[t] = St(t) /\ status' = [status EXCEPT ![t] = ts.status]
    BY Zenon, <1>2 DEF PutTask, St, TypeOK, StoreTypeOK
  <2>2. CASE ts.status = St(t) /\ UNCHANGED started
    <3>1. status' = status
      BY Zenon, <2>1, <2>2
    <3> QED BY Zenon, <2>2, <3>1
  <2>3. CASE ts.status # St(t) \/ ~ UNCHANGED started
    <3> HIDE DEF status
    <3> USE DEF Lifecycle!Move, Lifecycle!Preparing
    <3>1. CASE St(t) = "Absent" /\ ts.status = "Created"
      BY Zenon, <1>2, <2>1, <3>1 DEF Lifecycle!LNext, Lifecycle!Create, status
    <3>2. CASE PrepareStep(St(t), ts.status)
      BY Zenon, <1>2, <2>1, <2>3, <3>2 DEF PrepareStep, PreStaged, Lifecycle!LNext,
         Lifecycle!Prepare, Lifecycle!Cancel, status
    <3>3. CASE St(t) \in PreStaged /\ ts.status = "Staged"
      BY Zenon, <1>2, <2>1, <3>3 DEF PreStaged, Lifecycle!LNext, Lifecycle!Stage, status
    <3>4. CASE St(t) = "Staged" /\ ts.status = "Running"
      BY Zenon, <1>2, <2>1, <3>4 DEF Lifecycle!LNext, Lifecycle!Run, status
    <3>5. CASE St(t) = "Running" /\ ts.status = "Finished"
      BY Zenon, <1>2, <2>1, <3>5 DEF Lifecycle!LNext, Lifecycle!Finish, status
    <3>6. CASE St(t) \in Active /\ ts.status \in {"Failed", "Canceled"}
      BY Zenon, <1>2, <2>1, <3>6 DEF Active, Lifecycle!LNext, Lifecycle!Fail,
         Lifecycle!Cancel, status
    <3> QED BY Zenon, <1>2, <3>1, <3>2, <3>3, <3>4, <3>5, <3>6 DEF LegalMove
  <2> QED BY Zenon, <1>2, <2>2, <2>3
<1> QED BY Zenon, <1>1, <1>2 DEF StatusStep

(* Every behaviour of the services, seen by polling the status of tasks,   *)
(* is one of TaskLifecycle: staged once, run once, one final state.        *)
THEOREM ImplementsLifecycle == SingleHandler => (Spec => LifecycleSpec)
<1> SUFFICES ASSUME SingleHandler PROVE Spec => LifecycleSpec
  BY Zenon
<1>1. TypeOK /\ OwnershipInv /\ [Next]_vars =>
        [Lifecycle!LNext]_<<[t \in Tasks |-> task_states[t].status], started>>
  BY Zenon, NextOwnership, LifecycleStep
<1> QED BY <1>1, LifecycleInit, Ownership, TypeCorrect, PTL
        DEF Spec, LifecycleSpec, Lifecycle!LSpec

=============================================================================
