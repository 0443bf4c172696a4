--------------------------- MODULE OutcomeProofs ----------------------------
(***************************************************************************)
(* The outcome of a task is recorded as a whole, for any number of        *)
(* handlers of the management service that overwrite each other's writes.  *)
(* With one handler at a time, a task is canceled only on request, and the *)
(* executor that runs it is known to the scheduler.                        *)
(***************************************************************************)
EXTENDS TeaclaveProofs

(* A record of these statuses has every output of the task assigned. *)
FullStatus == {"DataAssigned", "Approved", "Staged", "Running", "Finished"}

OutputsAssigned(ts) == DOMAIN ts.outputs_ownership = DOMAIN ts.assigned_outputs

(* A copy ts of the record of task t, whose record is stored: it names the *)
(* outputs the task was created with, its result is there when it has      *)
(* ended, and the tags of the outputs of a successful run are in the copy  *)
(* and in the records of the files, but for those still to be stored.      *)
OutcomeOf(t, ts, todo, stored, tags) ==
  /\ stored # NoTask /\ ts.outputs_ownership = stored.outputs_ownership
  /\ ts.status \in EndedStatus <=> ts.result # "NotReady"
  /\ ts.result = "Ok" => ts.status = "Finished"
  /\ ts.status \in FullStatus => OutputsAssigned(ts)
  /\ ts.result = "Ok" =>
       \A n \in DOMAIN ts.assigned_outputs \ todo :
         /\ ts.assigned_outputs[n].cmac = t
         /\ tags[ts.assigned_outputs[n].id] # None

CallOutcome(c, states, tags) ==
  c.pc # "idle" =>
    /\ OutcomeOf(c.task, c.ts, {}, states[c.task], tags)
    /\ c.pc = "assign" => c.ts.status = "Created"
    /\ c.pc \in {"stage", "staged"} => c.ts.status \in PreStaged /\ OutputsAssigned(c.ts)

(* A staged task carries every output of its task. *)
SlotsOf(s, stored) ==
  stored # NoTask /\ DOMAIN s.output_data = DOMAIN stored.outputs_ownership

(* The inductive strengthening of OutcomeIsRecorded.                       *)
OutcomeInv ==
  /\ \A t \in Tasks : Exists(t) =>
       OutcomeOf(t, task_states[t], {}, task_states[t], output_cmac)
  /\ \A h \in Handlers : CallOutcome(call[h], task_states, output_cmac)
  /\ handler # None =>
       OutcomeOf(handler.task, handler.ts, handler.todo, task_states[handler.task],
                 output_cmac)
  /\ daemon.pc = "fail" =>
       OutcomeOf(daemon.task, daemon.ts, {}, task_states[daemon.task], output_cmac)
  /\ \A s \in InFlight : SlotsOf(s, task_states[s.task_id])

-----------------------------------------------------------------------------
(* The copies. *)
LEMMA OutputIds ==
  ASSUME NEW ts \in TaskStates
  PROVE  \A n \in DOMAIN ts.assigned_outputs :
           ts.assigned_outputs[n].id \in OutputFiles
<1>1. ts.assigned_outputs \in Map(OutputNames, AssignedOutput)
  BY Zenon DEF TaskStates
<1>2. ts.assigned_outputs \in [DOMAIN ts.assigned_outputs -> AssignedOutput]
  BY Zenon, <1>1, MapElim
<1> QED BY Zenon, <1>2 DEF AssignedOutput

(* Copies stay good while the outputs of the task stay and no tag is       *)
(* removed.                                                                *)
LEMMA OutcomeKept ==
  ASSUME NEW t, NEW ts \in TaskStates, NEW todo, NEW stored, NEW stored2,
         NEW tags, NEW tags2, OutcomeOf(t, ts, todo, stored, tags),
         \A o \in OutputFiles : tags[o] # None => tags2[o] # None,
         stored2 # NoTask, stored2.outputs_ownership = stored.outputs_ownership
  PROVE  OutcomeOf(t, ts, todo, stored2, tags2)
BY Zenon, OutputIds DEF OutcomeOf

(* What the conversions do to status, result and outputs. *)
LEMMA ConvertedOutcome ==
  ASSUME NEW t, NEW ts \in TaskStates, NEW stored, NEW tags,
         OutcomeOf(t, ts, {}, stored, tags)
  PROVE  /\ ts.status \in PreStaged /\ OutputsAssigned(ts) =>
              OutcomeOf(t, FromStage(ts), {}, stored, tags)
         /\ ToRun(ts) => OutcomeOf(t, FromRun(ts), {}, stored, tags)
         /\ OutcomeOf(t, FromFail(ts), {}, stored, tags)
         /\ OutcomeOf(t, FromCancel(ts), {}, stored, tags)
<1>1. /\ FromStage(ts).outputs_ownership = ts.outputs_ownership
      /\ FromStage(ts).assigned_outputs = ts.assigned_outputs
      /\ FromStage(ts).result = ts.result /\ FromStage(ts).status = "Staged"
      /\ FromRun(ts).outputs_ownership = ts.outputs_ownership
      /\ FromRun(ts).assigned_outputs = ts.assigned_outputs
      /\ FromRun(ts).result = ts.result /\ FromRun(ts).status = "Running"
  BY Zenon DEF FromStage, FromRun, WithStatus, TaskStates
<1>2. /\ FromFail(ts).outputs_ownership = ts.outputs_ownership
      /\ FromFail(ts).result = "Err" /\ FromFail(ts).status = "Failed"
      /\ FromCancel(ts).outputs_ownership = ts.outputs_ownership
      /\ FromCancel(ts).result = "Err" /\ FromCancel(ts).status = "Canceled"
  BY Zenon DEF FromFail, FromCancel, TaskStates
<1>3. ts.status \in PreStaged /\ OutputsAssigned(ts) =>
        OutcomeOf(t, FromStage(ts), {}, stored, tags)
  BY Zenon, <1>1 DEF OutcomeOf, OutputsAssigned, PreStaged, EndedStatus, FullStatus
<1>4. ToRun(ts) => OutcomeOf(t, FromRun(ts), {}, stored, tags)
  BY Zenon, <1>1 DEF OutcomeOf, OutputsAssigned, ToRun, EndedStatus, FullStatus
<1>5. OutcomeOf(t, FromFail(ts), {}, stored, tags)
  BY Zenon, <1>2 DEF OutcomeOf, EndedStatus, FullStatus
<1>6. OutcomeOf(t, FromCancel(ts), {}, stored, tags)
  BY Zenon, <1>2 DEF OutcomeOf, EndedStatus, FullStatus
<1> QED BY Zenon, <1>3, <1>4, <1>5, <1>6

(* A successful run ends with the tags of all outputs still to be stored. *)
LEMMA FinishedOutcome ==
  ASSUME NEW t, NEW ts \in TaskStates, NEW stored, NEW tags, ToFinish(ts),
         OutcomeOf(t, ts, {}, stored, tags), NEW r \in {"Ok", "Err"}, NEW todo,
         r = "Ok" => todo = DOMAIN ts.outputs_ownership
  PROVE  OutcomeOf(t, FromFinish(ts, r), todo, stored, tags)
<1>1. /\ FromFinish(ts, r).outputs_ownership = ts.outputs_ownership
      /\ FromFinish(ts, r).assigned_outputs = ts.assigned_outputs
      /\ FromFinish(ts, r).result = r /\ FromFinish(ts, r).status = "Finished"
  BY Zenon DEF FromFinish, TaskStates
<1>2. OutputsAssigned(ts)
  BY Zenon DEF OutcomeOf, ToFinish, FullStatus
<1> QED BY Zenon, <1>1, <1>2 DEF OutcomeOf, OutputsAssigned, EndedStatus, FullStatus

(* The tag of one output is stored in the copy and in its file. *)
LEMMA TaggedOutcome ==
  ASSUME NEW t \in Tasks, NEW ts \in TaskStates, NEW stored, NEW todo, NEW n,
         TagFree(ts, n), OutcomeOf(t, ts, todo, stored, output_cmac),
         output_cmac \in [OutputFiles -> Tasks \cup {None}],
         output_cmac' = [output_cmac EXCEPT ![ts.assigned_outputs[n].id] = t]
  PROVE  OutcomeOf(t, update_output_cmac(ts, n, t), todo \ {n}, stored, output_cmac')
<1> DEFINE ao == ts.assigned_outputs
           g == [ao EXCEPT ![n] = [id |-> ao[n].id, cmac |-> t]]
           ts2 == update_output_cmac(ts, n, t)
<1>1. ao \in [DOMAIN ao -> AssignedOutput] /\ n \in DOMAIN ao
  BY Zenon, MapElim DEF TaskStates, TagFree
<1>2. /\ DOMAIN g = DOMAIN ao
      /\ g[n].id = ao[n].id /\ g[n].cmac = t
      /\ \A m \in DOMAIN ao : m # n => g[m] = ao[m]
  BY Zenon, <1>1
<1>3. ts2 = [ts EXCEPT !.assigned_outputs = g]
  BY Zenon DEF update_output_cmac
<1>a. \A m \in DOMAIN ao : ao[m].id \in OutputFiles
  BY Zenon, OutputIds
<1>4. /\ output_cmac'[ao[n].id] # None
      /\ \A o \in OutputFiles : output_cmac[o] # None => output_cmac'[o] # None
  BY Zenon, <1>1, <1>a, NoneAssumption
<1> HIDE DEF g
<1>5. /\ ts2.outputs_ownership = ts.outputs_ownership /\ ts2.assigned_outputs = g
      /\ ts2.result = ts.result /\ ts2.status = ts.status
  BY Zenon, <1>3 DEF TaskStates
<1> HIDE DEF ts2
<1>6. ts2.result = "Ok" =>
        \A m \in DOMAIN g \ (todo \ {n}) : g[m].cmac = t /\ output_cmac'[g[m].id] # None
  BY <1>2, <1>4, <1>5, <1>a DEF OutcomeOf
<1>7. OutcomeOf(t, ts2, todo \ {n}, stored, output_cmac')
  BY Zenon, <1>2, <1>5, <1>6 DEF OutcomeOf, OutputsAssigned
<1> QED BY Zenon, <1>7 DEF ts2

(* What the management service makes of a copy. *)
LEMMA NewOutcome ==
  ASSUME NEW t \in Tasks, NEW u \in Users, NEW f \in Functions,
         NEW inputs \in Map(InputNames, SUBSET Users),
         NEW outputs \in Map(OutputNames, SUBSET Users), NEW tags
  PROVE  LET ts == NewTask(u, f, FunctionOf[f], inputs, outputs)
         IN  OutcomeOf(t, ts, {}, ts, tags)
<1> DEFINE ts == NewTask(u, f, FunctionOf[f], inputs, outputs)
<1>1. ts.status = "Created" /\ ts.result = "NotReady"
  BY Zenon DEF NewTask
<1>2. ts # NoTask
  BY <1>1 DEF NoTask
<1> HIDE DEF ts
<1>3. OutcomeOf(t, ts, {}, ts, tags)
  BY Zenon, <1>1, <1>2 DEF OutcomeOf, EndedStatus, FullStatus
<1> QED BY Zenon, <1>3 DEF ts

LEMMA AssignedOutcome ==
  ASSUME TypeOK, NEW c \in ActiveCalls, c.ts.status = "Created",
         NEW stored, NEW tags, OutcomeOf(c.task, c.ts, {}, stored, tags)
  PROVE  OutcomeOf(c.task, FromAssign(Assigned(c)), {}, stored, tags)
<1> DEFINE ts1 == Assigned(c)
           ts2 == FromAssign(ts1)
<1>1. c.ts \in TaskStates /\ ts1 \in TaskStates
  BY Zenon, AssignedType DEF ActiveCalls
<1>2. ts1.outputs_ownership = c.ts.outputs_ownership /\ ts1.result = c.ts.result
  BY Zenon, <1>1 DEF Assigned, TaskStates
<1> HIDE DEF ts1
<1>3. /\ ts2.outputs_ownership = ts1.outputs_ownership
      /\ ts2.assigned_outputs = ts1.assigned_outputs
      /\ ts2.result = ts1.result /\ ts2.status \in {"Created", "DataAssigned"}
      /\ ts2.status = "DataAssigned" => all_data_assigned(ts1)
  BY Zenon, <1>1 DEF FromAssign, WithStatus, TaskStates
<1> HIDE DEF ts2
<1>4. ts2.status = "DataAssigned" => OutputsAssigned(ts2)
  BY Zenon, <1>3 DEF all_data_assigned, OutputsAssigned
<1>5. OutcomeOf(c.task, ts2, {}, stored, tags)
  BY Zenon, <1>2, <1>3, <1>4 DEF OutcomeOf, EndedStatus, FullStatus
<1> QED BY Zenon, <1>5 DEF ts1, ts2

LEMMA ApprovedOutcome ==
  ASSUME NEW t, NEW ts \in TaskStates, NEW u \in Users, ToApprove(ts),
         NEW stored, NEW tags, OutcomeOf(t, ts, {}, stored, tags)
  PROVE  OutcomeOf(t, FromApprove(approve(ts, u)), {}, stored, tags)
<1> DEFINE ts1 == approve(ts, u)
           ts2 == FromApprove(ts1)
<1>1. ts1 \in TaskStates
  BY Zenon, ApproveType
<1>2. /\ ts2.outputs_ownership = ts.outputs_ownership
      /\ ts2.assigned_outputs = ts.assigned_outputs
      /\ ts2.result = ts.result /\ ts2.status \in {"DataAssigned", "Approved"}
  BY Zenon, <1>1 DEF approve, FromApprove, WithStatus, TaskStates
<1>3. OutputsAssigned(ts) /\ ts.result = "NotReady"
  BY Zenon DEF ToApprove, ToAssign, all_data_assigned, OutputsAssigned, OutcomeOf,
         EndedStatus, FullStatus
<1> HIDE DEF ts1, ts2
<1>4. OutcomeOf(t, ts2, {}, stored, tags)
  BY Zenon, <1>2, <1>3 DEF OutcomeOf, OutputsAssigned, EndedStatus, FullStatus
<1> QED BY Zenon, <1>4 DEF ts1, ts2

-----------------------------------------------------------------------------
(* What a step may do to such copies: replace a record by a copy of it or  *)
(* create one, go on with copies, add tags, and put tasks in flight that   *)
(* carry all outputs.                                                      *)
RecordStored ==
  \/ UNCHANGED task_states
  \/ \E t \in Tasks, ts \in TaskStates :
       /\ PutTask(t, ts)
       /\ \/ Exists(t) /\ OutcomeOf(t, ts, {}, task_states[t], output_cmac)
          \/ ~ Exists(t) /\ OutcomeOf(t, ts, {}, ts, output_cmac)

TagsStay == \A o \in OutputFiles : output_cmac[o] # None => output_cmac'[o] # None

CallsGoOn ==
  \A h \in Handlers : call'[h] = call[h] \/ CallOutcome(call'[h], task_states, output_cmac)

SchedGoesOn ==
  /\ \/ handler' \in {handler, None}
     \/ OutcomeOf(handler'.task, handler'.ts, handler'.todo,
                  task_states[handler'.task], output_cmac')
  /\ \/ daemon' = daemon \/ daemon'.pc # "fail"
     \/ OutcomeOf(daemon'.task, daemon'.ts, {}, task_states[daemon'.task], output_cmac)

FlightGoesOn ==
  \A s \in InFlight' : s \in InFlight \/ SlotsOf(s, task_states[s.task_id])

GoesOn == RecordStored /\ TagsStay /\ CallsGoOn /\ SchedGoesOn /\ FlightGoesOn

LEMMA OutputsStay ==
  ASSUME TypeOK, RecordStored
  PROVE  \A t \in Tasks : Exists(t) =>
           /\ task_states'[t] # NoTask
           /\ task_states'[t].outputs_ownership = task_states[t].outputs_ownership
<1>1. CASE UNCHANGED task_states
  BY Zenon, <1>1 DEF Exists
<1>2. ASSUME NEW t \in Tasks, NEW ts \in TaskStates, PutTask(t, ts),
             \/ Exists(t) /\ OutcomeOf(t, ts, {}, task_states[t], output_cmac)
             \/ ~ Exists(t) /\ OutcomeOf(t, ts, {}, ts, output_cmac)
      PROVE  \A x \in Tasks : Exists(x) =>
               /\ task_states'[x] # NoTask
               /\ task_states'[x].outputs_ownership = task_states[x].outputs_ownership
  <2>1. ts # NoTask
    BY DEF TaskStates, TaskStatus, NoTask
  <2>2. Exists(t) => ts.outputs_ownership = task_states[t].outputs_ownership
    BY Zenon, <1>2 DEF OutcomeOf
  <2>3. task_states' = [task_states EXCEPT ![t] = ts]
    BY Zenon, <1>2 DEF PutTask
  <2> QED BY <2>1, <2>2, <2>3 DEF Exists
<1> QED BY Zenon, <1>1, <1>2 DEF RecordStored

LEMMA OutcomeStep ==
  ASSUME TypeOK, TypeOK', OutcomeInv, GoesOn
  PROVE  OutcomeInv'
<1> USE DEF GoesOn
<1>0. \A t \in Tasks : Exists(t) =>
        /\ task_states'[t] # NoTask
        /\ task_states'[t].outputs_ownership = task_states[t].outputs_ownership
  BY Zenon, OutputsStay
<1>a. \A t \in Tasks, ts \in TaskStates : \A todo :
        OutcomeOf(t, ts, todo, task_states[t], output_cmac')
          => OutcomeOf(t, ts, todo, task_states'[t], output_cmac')
  <2> SUFFICES ASSUME NEW t \in Tasks, NEW ts \in TaskStates, NEW todo,
                      OutcomeOf(t, ts, todo, task_states[t], output_cmac')
               PROVE  OutcomeOf(t, ts, todo, task_states'[t], output_cmac')
    BY Zenon
  <2>1. Exists(t)
    BY Zenon DEF OutcomeOf, Exists
  <2> QED BY Zenon, <1>0, <2>1 DEF OutcomeOf
<1>b. \A t \in Tasks, ts \in TaskStates : \A todo :
        OutcomeOf(t, ts, todo, task_states[t], output_cmac)
          => OutcomeOf(t, ts, todo, task_states'[t], output_cmac')
  <2> SUFFICES ASSUME NEW t \in Tasks, NEW ts \in TaskStates, NEW todo,
                      OutcomeOf(t, ts, todo, task_states[t], output_cmac)
               PROVE  OutcomeOf(t, ts, todo, task_states'[t], output_cmac')
    BY Zenon
  <2>1. Exists(t)
    BY Zenon DEF OutcomeOf, Exists
  <2> QED BY Zenon, <1>0, <2>1, OutcomeKept DEF TagsStay
<1>1. ASSUME NEW t \in Tasks, Exists(t)'
      PROVE  OutcomeOf(t, task_states'[t], {}, task_states'[t], output_cmac')
  <2>0. task_states'[t] \in TaskStates
    BY Zenon, <1>1 DEF TypeOK, StoreTypeOK, Exists
  <2>1. CASE task_states'[t] = task_states[t]
    <3>1. OutcomeOf(t, task_states[t], {}, task_states[t], output_cmac)
      BY Zenon, <1>1, <2>1 DEF OutcomeInv, Exists
    <3> QED BY Zenon, <1>b, <2>0, <2>1, <3>1
  <2>2. ASSUME NEW ts \in TaskStates, PutTask(t, ts),
               Exists(t), OutcomeOf(t, ts, {}, task_states[t], output_cmac)
        PROVE  OutcomeOf(t, task_states'[t], {}, task_states'[t], output_cmac')
    <3>1. task_states'[t] = ts
      BY Zenon, <2>2 DEF PutTask, TypeOK, StoreTypeOK
    <3> QED BY Zenon, <1>b, <2>2, <3>1
  <2>3. ASSUME NEW ts \in TaskStates, PutTask(t, ts),
               OutcomeOf(t, ts, {}, ts, output_cmac)
        PROVE  OutcomeOf(t, task_states'[t], {}, task_states'[t], output_cmac')
    <3>1. task_states'[t] = ts
      BY Zenon, <2>3 DEF PutTask, TypeOK, StoreTypeOK
    <3>2. ts # NoTask
      BY Zenon, <2>3 DEF OutcomeOf
    <3> QED BY Zenon, <2>3, <3>1, <3>2, OutcomeKept DEF TagsStay
  <2>4. ASSUME NEW x \in Tasks, NEW ts, PutTask(x, ts), x # t
        PROVE  task_states'[t] = task_states[t]
    BY <2>4 DEF PutTask
  <2> QED BY Zenon, <2>1, <2>2, <2>3, <2>4 DEF RecordStored
<1>2. ASSUME NEW h \in Handlers
      PROVE  CallOutcome(call'[h], task_states', output_cmac')
  <2> SUFFICES ASSUME call'[h].pc # "idle"
               PROVE  CallOutcome(call'[h], task_states', output_cmac')
    BY Zenon DEF CallOutcome
  <2>1. call'[h].task \in Tasks /\ call'[h].ts \in TaskStates
    BY DEF TypeOK, MgmtTypeOK, Calls, NoCall, ActiveCalls
  <2>2. CallOutcome(call'[h], task_states, output_cmac)
    BY Zenon DEF CallsGoOn, OutcomeInv
  <2> QED BY Zenon, <1>b, <2>1, <2>2 DEF CallOutcome
<1>3. ASSUME handler' # None
      PROVE  OutcomeOf(handler'.task, handler'.ts, handler'.todo,
                       task_states'[handler'.task], output_cmac')
  <2>1. handler'.task \in Tasks /\ handler'.ts \in TaskStates
    BY Zenon, <1>3 DEF TypeOK, SchedTypeOK, SchedHandlers
  <2>2. \/ OutcomeOf(handler'.task, handler'.ts, handler'.todo,
                     task_states[handler'.task], output_cmac)
        \/ OutcomeOf(handler'.task, handler'.ts, handler'.todo,
                     task_states[handler'.task], output_cmac')
    BY Zenon, <1>3 DEF SchedGoesOn, OutcomeInv
  <2> QED BY Zenon, <1>a, <1>b, <2>1, <2>2
<1>4. ASSUME daemon'.pc = "fail"
      PROVE  OutcomeOf(daemon'.task, daemon'.ts, {}, task_states'[daemon'.task],
                       output_cmac')
  <2>1. daemon'.task \in Tasks /\ daemon'.ts \in TaskStates
    BY Zenon, <1>4 DEF TypeOK, SchedTypeOK, DaemonStates
  <2>2. OutcomeOf(daemon'.task, daemon'.ts, {}, task_states[daemon'.task], output_cmac)
    BY Zenon, <1>4 DEF SchedGoesOn, OutcomeInv
  <2> QED BY Zenon, <1>b, <2>1, <2>2
<1>5. ASSUME NEW s \in InFlight'
      PROVE  SlotsOf(s, task_states'[s.task_id])
  <2>1. s.task_id \in Tasks
    <3>1. s \in StagedTasks
      BY Zenon, FlightType
    <3> QED BY Zenon, <3>1 DEF StagedTasks
  <2>2. SlotsOf(s, task_states[s.task_id])
    BY Zenon DEF FlightGoesOn, OutcomeInv
  <2> QED BY Zenon, <1>0, <2>1, <2>2 DEF SlotsOf, Exists
<1> QED BY Zenon, <1>1, <1>2, <1>3, <1>4, <1>5 DEF OutcomeInv, Exists

-----------------------------------------------------------------------------
(* The management service. *)
LEMMA QuietFlight ==
  ASSUME UNCHANGED <<staged_queue, task_queue, exec>>
  PROVE  FlightGoesOn
BY Zenon DEF InFlight, FlightGoesOn

LEMMA QuietTags ==
  ASSUME UNCHANGED output_cmac
  PROVE  TagsStay
BY Zenon DEF TagsStay

LEMMA ReturnGoesOn ==
  ASSUME TypeOK, NEW h \in Handlers, Return(h)
  PROVE  CallsGoOn
<1>1. \A g \in Handlers : call'[g] = IF g = h THEN NoCall ELSE call[g]
  BY Zenon DEF Return, TypeOK, MgmtTypeOK
<1> QED BY <1>1 DEF CallsGoOn, CallOutcome, NoCall

LEMMA GotoGoesOn ==
  ASSUME TypeOK, NEW h \in Handlers, NEW where, where \notin {"assign", "stage", "staged"},
         NEW t, NEW ts, Goto(h, where, t, ts),
         OutcomeOf(t, ts, {}, task_states[t], output_cmac)
  PROVE  CallsGoOn
<1> DEFINE c == [NoCall EXCEPT !.pc = where, !.task = t, !.ts = ts]
<1>1. \A g \in Handlers : call'[g] = IF g = h THEN c ELSE call[g]
  BY Zenon DEF Goto, TypeOK, MgmtTypeOK
<1>2. c.pc = where /\ c.task = t /\ c.ts = ts
  BY Zenon DEF NoCall
<1> HIDE DEF c
<1>3. CallOutcome(c, task_states, output_cmac)
  BY Zenon, <1>2 DEF CallOutcome
<1> QED BY Zenon, <1>1, <1>3 DEF CallsGoOn

LEMMA RequestGoesOn ==
  ASSUME TypeOK, OutcomeInv, NEW h \in Handlers, Request(h),
         UNCHANGED <<schedVars, execVars>>
  PROVE  GoesOn
<1> USE DEF storeVars, histVars
<1>0. SchedGoesOn /\ UNCHANGED <<task_queue, exec>>
  BY Zenon DEF SchedGoesOn, schedVars, execVars
<1>a. \A t \in Tasks : Exists(t) =>
        OutcomeOf(t, task_states[t], {}, task_states[t], output_cmac)
  BY Zenon DEF OutcomeInv
<1>1. ASSUME NEW t \in Tasks, NEW u \in Users, NEW f \in Functions,
             NEW inputs \in Map(InputNames, SUBSET Users),
             NEW outputs \in Map(OutputNames, SUBSET Users),
             create_task(h, t, u, f, inputs, outputs)
      PROVE  GoesOn
  <2> DEFINE ts == NewTask(u, f, FunctionOf[f], inputs, outputs)
  <2>1. ts \in TaskStates
    BY Zenon, NewTaskType, FunctionAssumption
  <2>2. OutcomeOf(t, ts, {}, ts, output_cmac)
    BY Zenon, NewOutcome
  <2>3. PutTask(t, ts) /\ ~ Exists(t)
    BY Zenon, <1>1 DEF create_task
  <2> HIDE DEF ts
  <2>4. RecordStored
    BY Zenon, <2>1, <2>2, <2>3 DEF RecordStored
  <2>5. UNCHANGED <<call, output_cmac, staged_queue>>
    BY Zenon, <1>1 DEF create_task, mgmtVars
  <2> QED BY Zenon, <1>0, <2>4, <2>5, QuietFlight, QuietTags DEF GoesOn, CallsGoOn
<1>2. ASSUME UNCHANGED storeVars, CallsGoOn
      PROVE  GoesOn
  <2>1. UNCHANGED <<task_states, output_cmac, staged_queue>>
    BY Zenon, <1>2
  <2> QED BY Zenon, <1>0, <1>2, <2>1, QuietFlight, QuietTags DEF GoesOn, RecordStored
<1>3. ASSUME NEW t \in Tasks, NEW u, NEW inputs, NEW outputs,
             assign_data(h, t, u, inputs, outputs)
      PROVE  GoesOn
  <2> DEFINE c == [NoCall EXCEPT !.pc = "assign", !.task = t, !.ts = task_states[t],
                                 !.user = u, !.inputs = inputs, !.outputs = outputs]
  <2>1. \A g \in Handlers : call'[g] = IF g = h THEN c ELSE call[g]
    BY Zenon, <1>3 DEF assign_data, TypeOK, MgmtTypeOK
  <2>2. c.pc = "assign" /\ c.task = t /\ c.ts = task_states[t]
    BY Zenon DEF NoCall
  <2>3. OutcomeOf(t, task_states[t], {}, task_states[t], output_cmac)
    BY Zenon, <1>a, <1>3 DEF assign_data
  <2>4. task_states[t].status = "Created"
    BY Zenon, <1>3 DEF assign_data, ToAssign
  <2> HIDE DEF c
  <2>5. CallsGoOn
    BY Zenon, <2>1, <2>2, <2>3, <2>4 DEF CallsGoOn, CallOutcome
  <2>6. UNCHANGED storeVars
    BY Zenon, <1>3 DEF assign_data
  <2> QED BY Zenon, <1>2, <2>5, <2>6
<1>4. ASSUME NEW t \in Tasks, NEW u \in Users, approve_task(h, t, u)
      PROVE  GoesOn
  <2>1. task_states[t] \in TaskStates /\ ToApprove(task_states[t])
    BY Zenon, <1>4, ExistsType DEF approve_task
  <2>2. OutcomeOf(t, task_states[t], {}, task_states[t], output_cmac)
    BY Zenon, <1>a, <1>4 DEF approve_task
  <2>3. OutcomeOf(t, FromApprove(approve(task_states[t], u)), {}, task_states[t],
                  output_cmac)
    BY Zenon, <2>1, <2>2, ApprovedOutcome
  <2>4. CallsGoOn
    BY Zenon, <1>4, <2>3, GotoGoesOn DEF approve_task
  <2>5. UNCHANGED storeVars
    BY Zenon, <1>4 DEF approve_task
  <2> QED BY Zenon, <1>2, <2>4, <2>5
<1>5. ASSUME NEW t \in Tasks, invoke_task(h, t) \/ cancel_task(h, t)
      PROVE  GoesOn
  <2>1. UNCHANGED storeVars
    BY Zenon, <1>5 DEF invoke_task, cancel_task
  <2>2. task_states[t] \in TaskStates
    BY Zenon, <1>5, ExistsType DEF invoke_task, cancel_task
  <2>3. OutcomeOf(t, task_states[t], {}, task_states[t], output_cmac)
    BY Zenon, <1>a, <1>5 DEF invoke_task, cancel_task
  <2>4. OutcomeOf(t, FromCancel(task_states[t]), {}, task_states[t], output_cmac)
    BY Zenon, <2>2, <2>3, ConvertedOutcome
  <2>5. CallsGoOn
    <3>1. CASE Goto(h, "usage", t, task_states[t]) \/ Goto(h, "cancel", t, task_states[t])
      BY Zenon, <2>3, <3>1, GotoGoesOn
    <3>2. CASE Goto(h, "write", t, FromCancel(task_states[t]))
      BY Zenon, <2>4, <3>2, GotoGoesOn
    <3> QED BY Zenon, <1>5, <3>1, <3>2 DEF invoke_task, cancel_task
  <2> QED BY Zenon, <1>2, <2>1, <2>5
<1> QED BY Zenon, <1>1, <1>3, <1>4, <1>5 DEF Request

LEMMA HandlerGoesOn ==
  ASSUME TypeOK, OutcomeInv, NEW h \in Handlers, HandlerStep(h) \/ Abandon(h),
         UNCHANGED <<schedVars, execVars>>
  PROVE  GoesOn
<1> DEFINE c == call[h]
<1> USE DEF storeVars, histVars
<1>1. c.pc # "idle"
  BY Zenon DEF HandlerStep, Abandon, assign_data_files, write_to_db, invoke_task_usage,
         invoke_task_enqueue, invoke_task_write, invoke_task_count, cancel_task_enqueue
<1>2. c \in ActiveCalls /\ c.task \in Tasks /\ c.ts \in TaskStates
  BY Zenon, <1>1, ActiveCallType DEF ActiveCalls
<1>3. CallOutcome(c, task_states, output_cmac)
  BY Zenon DEF OutcomeInv
<1>4. OutcomeOf(c.task, c.ts, {}, task_states[c.task], output_cmac) /\ Exists(c.task)
  BY Zenon, <1>1, <1>3 DEF CallOutcome, OutcomeOf, Exists
<1>5. SchedGoesOn /\ UNCHANGED <<task_queue, exec>>
  BY Zenon DEF SchedGoesOn, schedVars, execVars
<1>6. TagsStay
  <2>1. UNCHANGED output_cmac
    BY Zenon DEF HandlerStep, Abandon, assign_data_files, write_to_db, invoke_task_usage,
           invoke_task_enqueue, invoke_task_write, invoke_task_count,
           cancel_task_enqueue
  <2> QED BY Zenon, <2>1, QuietTags
<1>7. CASE assign_data_files(h)
  <2>1. UNCHANGED <<task_states, staged_queue>>
    BY Zenon, <1>7 DEF assign_data_files
  <2>2. c.ts.status = "Created"
    BY Zenon, <1>1, <1>3, <1>7 DEF assign_data_files, CallOutcome
  <2>3. OutcomeOf(c.task, FromAssign(Assigned(c)), {}, task_states[c.task], output_cmac)
    BY Zenon, <1>2, <1>4, <2>2, AssignedOutcome
  <2>4. CallsGoOn
    BY Zenon, <1>7, <2>3, GotoGoesOn, ReturnGoesOn DEF assign_data_files
  <2> QED BY Zenon, <1>5, <1>6, <2>1, <2>4, QuietFlight DEF GoesOn, RecordStored
<1>8. CASE write_to_db(h)
  <2>1. RecordStored
    BY Zenon, <1>2, <1>4, <1>8 DEF write_to_db, RecordStored
  <2>2. Return(h) /\ UNCHANGED staged_queue
    BY Zenon, <1>8 DEF write_to_db
  <2> QED BY Zenon, <1>5, <1>6, <2>1, <2>2, ReturnGoesOn, QuietFlight DEF GoesOn
<1>9. CASE invoke_task_usage(h)
  <2>1. UNCHANGED <<task_states, staged_queue>>
    BY Zenon, <1>9 DEF invoke_task_usage
  <2>2. ASSUME NEW uses, ToStage(c.ts),
               call' = [call EXCEPT ![h] = [c EXCEPT !.pc = "stage", !.uses = uses]]
        PROVE  CallsGoOn
    <3> DEFINE c2 == [c EXCEPT !.pc = "stage", !.uses = uses]
    <3>1. \A g \in Handlers : call'[g] = IF g = h THEN c2 ELSE call[g]
      BY Zenon, <2>2 DEF TypeOK, MgmtTypeOK
    <3>2. c2.pc = "stage" /\ c2.task = c.task /\ c2.ts = c.ts
      BY Zenon, <1>2 DEF ActiveCalls
    <3>3. c.ts.status \in PreStaged /\ OutputsAssigned(c.ts)
      BY Zenon, <1>4, <2>2 DEF ToStage, ToApprove, ToAssign, all_data_assigned, OutcomeOf,
                        OutputsAssigned, PreStaged, FullStatus
    <3> HIDE DEF c2
    <3>4. CallOutcome(c2, task_states, output_cmac)
      BY Zenon, <1>4, <3>2, <3>3 DEF CallOutcome
    <3> QED BY Zenon, <3>1, <3>4 DEF CallsGoOn
  <2>3. CallsGoOn
    BY Zenon, <1>9, <2>2, ReturnGoesOn DEF invoke_task_usage
  <2> QED BY Zenon, <1>5, <1>6, <2>1, <2>3, QuietFlight DEF GoesOn, RecordStored
<1>10. ASSUME NEW where \in {"staged", "count"}, c.pc \in {"stage", "staged"},
              call' = [call EXCEPT ![h] = [c EXCEPT !.pc = where]]
       PROVE  CallsGoOn
  <2> DEFINE c2 == [c EXCEPT !.pc = where]
  <2>1. \A g \in Handlers : call'[g] = IF g = h THEN c2 ELSE call[g]
    BY Zenon, <1>10 DEF TypeOK, MgmtTypeOK
  <2>2. c2.pc = where /\ c2.task = c.task /\ c2.ts = c.ts
    BY Zenon, <1>2 DEF ActiveCalls
  <2> HIDE DEF c2
  <2>3. CallOutcome(c2, task_states, output_cmac)
    BY Zenon, <1>1, <1>3, <1>4, <1>10, <2>2 DEF CallOutcome
  <2> QED BY Zenon, <2>1, <2>3 DEF CallsGoOn
<1>11. CASE invoke_task_enqueue(h)
  <2> DEFINE s == StagedTask(c.task, c.ts)
  <2>1. c.pc = "stage" /\ staged_queue' = Append(staged_queue, s)
    BY Zenon, <1>11 DEF invoke_task_enqueue
  <2>2. s \in StagedTasks /\ s.task_id = c.task
    BY Zenon, <1>2, StagedTaskType DEF StagedTask
  <2>3. SlotsOf(s, task_states[s.task_id])
    <3>1. DOMAIN s.output_data = DOMAIN c.ts.assigned_outputs
      BY Zenon DEF StagedTask
    <3> QED BY Zenon, <1>1, <1>3, <1>4, <2>1, <2>2, <3>1
          DEF CallOutcome, OutcomeOf, OutputsAssigned, SlotsOf
  <2> HIDE DEF s
  <2>4. \A i \in DOMAIN staged_queue' :
          staged_queue'[i] = s
            \/ \E j \in DOMAIN staged_queue : staged_queue'[i] = staged_queue[j]
    BY <2>1, <2>2, QueueElements DEF TypeOK, StoreTypeOK
  <2>5. InFlight' \subseteq InFlight \cup {s}
    BY Zenon, <1>5, <2>4 DEF InFlight
  <2>6. FlightGoesOn
    BY Zenon, <2>3, <2>5 DEF FlightGoesOn
  <2>7. CallsGoOn
    <3>1. call' = [call EXCEPT ![h] = [c EXCEPT !.pc = "staged"]]
      BY Zenon, <1>11 DEF invoke_task_enqueue
    <3> QED BY Zenon, <1>10, <2>1, <3>1
  <2>8. UNCHANGED task_states
    BY Zenon, <1>11 DEF invoke_task_enqueue
  <2> QED BY Zenon, <1>5, <1>6, <2>6, <2>7, <2>8 DEF GoesOn, RecordStored
<1>12. CASE invoke_task_write(h)
  <2>0. c.pc = "staged"
    BY Zenon, <1>12 DEF invoke_task_write
  <2>1. FromStage(c.ts) \in TaskStates
    BY Zenon, <1>2, FromStageType
  <2>2. OutcomeOf(c.task, FromStage(c.ts), {}, task_states[c.task], output_cmac)
    BY Zenon, <1>1, <1>2, <1>3, <1>4, <2>0, ConvertedOutcome DEF CallOutcome
  <2>3. RecordStored
    BY Zenon, <1>2, <1>4, <1>12, <2>1, <2>2 DEF invoke_task_write, RecordStored
  <2>4. CallsGoOn /\ UNCHANGED staged_queue
    <3>1. /\ call' = [call EXCEPT ![h] = [c EXCEPT !.pc = "count"]]
          /\ UNCHANGED staged_queue
      BY Zenon, <1>12 DEF invoke_task_write
    <3> QED BY Zenon, <1>10, <2>0, <3>1
  <2> QED BY Zenon, <1>5, <1>6, <2>3, <2>4, QuietFlight DEF GoesOn
<1>13. CASE invoke_task_count(h) \/ cancel_task_enqueue(h) \/ Abandon(h)
  <2>1. Return(h) /\ UNCHANGED <<task_states, staged_queue>>
    BY Zenon, <1>13 DEF invoke_task_count, cancel_task_enqueue, Abandon
  <2> QED BY Zenon, <1>5, <1>6, <2>1, ReturnGoesOn, QuietFlight DEF GoesOn, RecordStored
<1> QED BY Zenon, <1>7, <1>8, <1>9, <1>11, <1>12, <1>13 DEF HandlerStep

-----------------------------------------------------------------------------
(* The daemon. *)

(* A record that the scheduler reads and converts. *)
LEMMA ReadOutcome ==
  ASSUME TypeOK, OutcomeInv, NEW t \in Tasks,
         \/ ToCancel(task_states[t]) \/ ToRun(task_states[t])
         \/ ToFinish(task_states[t]) \/ ToFail(task_states[t])
  PROVE  /\ task_states[t] \in TaskStates
         /\ OutcomeOf(t, task_states[t], {}, task_states[t], output_cmac)
         /\ OutcomeOf(t, FromCancel(task_states[t]), {}, task_states[t], output_cmac)
         /\ OutcomeOf(t, FromFail(task_states[t]), {}, task_states[t], output_cmac)
<1>1. task_states[t] \in TaskStates
  BY Zenon, ConvertibleType
<1>2. Exists(t)
  BY <1>1 DEF Exists, TaskStates, TaskStatus, NoTask
<1>3. OutcomeOf(t, task_states[t], {}, task_states[t], output_cmac)
  BY Zenon, <1>2 DEF OutcomeInv
<1> QED BY Zenon, <1>1, <1>3, ConvertedOutcome

LEMMA DaemonGoesOn ==
  ASSUME TypeOK, OutcomeInv, UNCHANGED <<mgmtVars, execVars>>,
         \/ DaemonStep \/ daemon_storage_error
         \/ \E e \in Executors : daemon_expire(e)
  PROVE  GoesOn
<1> USE DEF storeVars
<1>0. UNCHANGED <<handler, exec, call, output_cmac>>
  BY Zenon DEF execVars, mgmtVars, DaemonStep, daemon_storage_error, daemon_expire,
         daemon_lock, pull_cancel_queue, pull_staged_task, daemon_get, daemon_put,
         daemon_sleep
<1>1. \/ UNCHANGED staged_queue
      \/ staged_queue # << >> /\ staged_queue' = Tail(staged_queue)
  BY Zenon DEF DaemonStep, daemon_storage_error, daemon_expire, daemon_lock,
         pull_cancel_queue, pull_staged_task, daemon_get, daemon_put, daemon_sleep
<1>2. \/ UNCHANGED task_queue
      \/ staged_queue # << >> /\ task_queue' = Append(task_queue, Head(staged_queue))
  BY Zenon DEF DaemonStep, daemon_storage_error, daemon_expire, daemon_lock,
         pull_cancel_queue, pull_staged_task, daemon_get, daemon_put, daemon_sleep
<1>3. FlightGoesOn
  BY Zenon, <1>0, <1>1, <1>2, FlightShrinks DEF FlightGoesOn
<1>4. RecordStored
  <2>1. CASE UNCHANGED task_states
    BY Zenon, <2>1 DEF RecordStored
  <2>2. CASE daemon.pc = "fail" /\ PutTask(daemon.task, daemon.ts)
    <3>1. daemon.task \in Tasks /\ daemon.ts \in TaskStates
      BY Zenon, <2>2 DEF TypeOK, SchedTypeOK, DaemonStates
    <3>2. OutcomeOf(daemon.task, daemon.ts, {}, task_states[daemon.task], output_cmac)
      BY Zenon, <2>2 DEF OutcomeInv
    <3> QED BY Zenon, <2>2, <3>1, <3>2 DEF RecordStored, OutcomeOf, Exists
  <2> QED BY Zenon, <2>1, <2>2
        DEF DaemonStep, daemon_storage_error, daemon_expire, daemon_lock,
            pull_cancel_queue, pull_staged_task, daemon_get, daemon_put, daemon_sleep
<1>5. \/ daemon' = daemon \/ daemon'.pc # "fail"
      \/ OutcomeOf(daemon'.task, daemon'.ts, {}, task_states[daemon'.task], output_cmac)
  <2>1. CASE daemon_get
    <3>1. daemon.task \in Tasks /\ daemon \in [pc : {"lost"}, task : Tasks, ts : {None}]
      BY Zenon, <2>1 DEF daemon_get, TypeOK, SchedTypeOK, DaemonStates
    <3>2. CASE /\ ToFail(task_states[daemon.task])
               /\ daemon' = [daemon EXCEPT !.pc = "fail",
                                           !.ts = FromFail(task_states[daemon.task])]
      <4>1. /\ daemon'.task = daemon.task
            /\ daemon'.ts = FromFail(task_states[daemon.task])
        BY Zenon, <3>1, <3>2
      <4> QED BY Zenon, <3>1, <3>2, <4>1, ReadOutcome
    <3>3. CASE DaemonAt("expire") \/ DaemonAt("dead")
      BY <3>3 DEF DaemonAt
    <3> QED BY Zenon, <2>1, <3>2, <3>3 DEF daemon_get
  <2>2. ASSUME NEW e \in Executors, daemon_expire(e)
        PROVE  daemon' = daemon \/ daemon'.pc # "fail"
    <3>1. daemon \in [pc : {"expire"}, task : {None}, ts : {None}]
      BY Zenon, <2>2 DEF daemon_expire, TypeOK, SchedTypeOK, DaemonStates
    <3> QED BY Zenon, <2>2, <3>1 DEF daemon_expire
  <2>3. CASE daemon_storage_error \/ (DaemonStep /\ ~ daemon_get)
    <3>1. \/ UNCHANGED daemon
          \/ \E where \in {"cancel", "staged", "expire", "sleep", "dead"} : DaemonAt(where)
      BY Zenon, <2>3 DEF DaemonStep, daemon_storage_error, daemon_lock,
           pull_cancel_queue, pull_staged_task, daemon_put, daemon_sleep
    <3> QED BY <3>1 DEF DaemonAt
  <2> QED BY Zenon, <2>1, <2>2, <2>3
<1>6. SchedGoesOn /\ CallsGoOn /\ TagsStay
  BY Zenon, <1>0, <1>5, QuietTags DEF SchedGoesOn, CallsGoOn
<1> QED BY Zenon, <1>3, <1>4, <1>6 DEF GoesOn

-----------------------------------------------------------------------------
(* The RPCs of the executors. *)
RpcGoesOn ==
  /\ RecordStored /\ SchedGoesOn /\ TagsStay /\ UNCHANGED staged_queue
  /\ \/ UNCHANGED task_queue
     \/ task_queue # << >> /\ task_queue' = Tail(task_queue)

LEMMA QuietRpcGoesOn ==
  ASSUME UNCHANGED <<task_states, output_cmac, staged_queue, task_queue, handler, daemon>>
  PROVE  RpcGoesOn
BY Zenon DEF RpcGoesOn, RecordStored, SchedGoesOn, TagsStay

LEMMA CancelGoesOn ==
  ASSUME TypeOK, OutcomeInv, NEW e, NEW t \in Tasks, NEW ok, cancel_task_get(e, t, ok),
         UNCHANGED <<daemon, output_cmac>>
  PROVE  SchedGoesOn
<1>1. ToCancel(task_states[t]) =>
        OutcomeOf(t, FromCancel(task_states[t]), {}, task_states[t], output_cmac)
  BY Zenon, ReadOutcome
<1> QED BY SMTT(60), <1>1 DEF cancel_task_get, SchedGoesOn

LEMMA HeartbeatGoesOn ==
  ASSUME TypeOK, OutcomeInv, NEW e \in Executors, NEW status, NEW ok,
         sched_heartbeat(e, status) \/ sched_heartbeat_stop(e, status, ok)
  PROVE  RpcGoesOn
<1>1. CASE sched_heartbeat(e, status)
  BY Zenon, <1>1, QuietRpcGoesOn DEF sched_heartbeat, storeVars
<1>2. CASE sched_heartbeat_stop(e, status, ok)
  <2>1. executors_tasks[e] \in Tasks
    BY Zenon, <1>2 DEF sched_heartbeat_stop, StopRequested, TypeOK, SchedTypeOK
  <2>2. /\ UNCHANGED <<task_states, output_cmac, staged_queue, task_queue, daemon>>
        /\ cancel_task_get(e, executors_tasks[e], ok)
    BY Zenon, <1>2 DEF sched_heartbeat_stop, storeVars
  <2>3. SchedGoesOn
    BY Zenon, <2>1, <2>2, CancelGoesOn
  <2> QED BY Zenon, <2>2, <2>3, QuietTags DEF RpcGoesOn, RecordStored
<1> QED BY Zenon, <1>1, <1>2

LEMMA PullGoesOn ==
  ASSUME TypeOK, OutcomeInv, NEW e \in Executors, NEW ok,
         sched_pull_task(e) \/ sched_pull_canceled(e, ok)
  PROVE  RpcGoesOn
<1>1. CASE sched_pull_task(e)
  BY Zenon, <1>1, QuietTags DEF sched_pull_task, RpcGoesOn, RecordStored, SchedGoesOn, storeVars
<1>2. CASE sched_pull_canceled(e, ok)
  <2>1. Head(task_queue).task_id \in Tasks
    BY Zenon, <1>2, HeadTailType
       DEF sched_pull_canceled, TypeOK, SchedTypeOK, StagedTasks
  <2>2. /\ UNCHANGED <<task_states, output_cmac, staged_queue, daemon>>
        /\ cancel_task_get(e, Head(task_queue).task_id, ok)
        /\ task_queue # << >> /\ task_queue' = Tail(task_queue)
    BY Zenon, <1>2 DEF sched_pull_canceled, storeVars
  <2>3. SchedGoesOn
    BY Zenon, <2>1, <2>2, CancelGoesOn
  <2> QED BY Zenon, <2>2, <2>3, QuietTags DEF RpcGoesOn, RecordStored
<1> QED BY Zenon, <1>1, <1>2

LEMMA StatusGoesOn ==
  ASSUME TypeOK, OutcomeInv, NEW e, NEW t \in Tasks, NEW ok, sched_status_get(e, t, ok)
  PROVE  RpcGoesOn
<1>1. ToRun(task_states[t]) =>
        OutcomeOf(t, FromRun(task_states[t]), {}, task_states[t], output_cmac)
  BY Zenon, ReadOutcome, ConvertedOutcome
<1>2. UNCHANGED <<task_states, output_cmac, staged_queue, task_queue, daemon>>
  BY Zenon DEF sched_status_get, storeVars
<1>3. SchedGoesOn
  BY <1>1, <1>2 DEF sched_status_get, SchedGoesOn
<1> QED BY Zenon, <1>2, <1>3, QuietTags DEF RpcGoesOn, RecordStored

(* update_task_result is about all outputs of the task. *)
LEMMA ResultGoesOn ==
  ASSUME TypeOK, OutcomeInv, NEW e, NEW t \in Tasks, NEW ok, NEW r \in {"Ok", "Err"},
         NEW tags, tags = DOMAIN task_states[t].outputs_ownership,
         sched_result_get(e, t, r, tags, ok)
  PROVE  RpcGoesOn
<1> DEFINE todo == IF r = "Ok" THEN tags ELSE {}
<1>1. ToFinish(task_states[t]) =>
        OutcomeOf(t, FromFinish(task_states[t], r), todo, task_states[t], output_cmac)
  BY Zenon, ReadOutcome, FinishedOutcome
<1>2. UNCHANGED <<task_states, output_cmac, staged_queue, task_queue, daemon>>
  BY Zenon DEF sched_result_get, storeVars
<1>3. \/ UNCHANGED handler
      \/ /\ ToFinish(task_states[t])
         /\ handler' = [by |-> e, op |-> "result", task |-> t,
                        ts |-> FromFinish(task_states[t], r), todo |-> todo]
  BY Zenon DEF sched_result_get
<1> HIDE DEF todo
<1>4. SchedGoesOn
  BY SMTT(60), <1>1, <1>2, <1>3 DEF SchedGoesOn
<1> QED BY Zenon, <1>2, <1>4, QuietTags DEF RpcGoesOn, RecordStored

LEMMA OutputGoesOn ==
  ASSUME TypeOK, OutcomeInv, NEW n, NEW ok, sched_result_put_output(n, ok)
  PROVE  RpcGoesOn
<1> DEFINE ts == handler.ts
           ts2 == update_output_cmac(handler.ts, n, handler.task)
           o == ts.assigned_outputs[n].id
<1>1. handler # None
  BY Zenon DEF sched_result_put_output
<1>2. handler \in SchedHandlers /\ handler.task \in Tasks /\ ts \in TaskStates
  BY Zenon, <1>1, HandlerType
<1>3. OutcomeOf(handler.task, ts, handler.todo, task_states[handler.task], output_cmac)
  BY Zenon, <1>1 DEF OutcomeInv
<1>4. output_cmac \in [OutputFiles -> Tasks \cup {None}]
  BY Zenon DEF TypeOK, StoreTypeOK
<1>5. /\ UNCHANGED <<task_states, staged_queue, task_queue, daemon>>
      /\ \/ handler' = None /\ UNCHANGED output_cmac
         \/ /\ TagFree(ts, n)
            /\ handler' = [handler EXCEPT !.todo = handler.todo \ {n}, !.ts = ts2]
            /\ output_cmac' = [output_cmac EXCEPT ![o] = handler.task]
  BY Zenon DEF sched_result_put_output
<1>6. CASE handler' = None /\ UNCHANGED output_cmac
  BY Zenon, <1>5, <1>6, QuietTags DEF RpcGoesOn, RecordStored, SchedGoesOn
<1>7. CASE /\ TagFree(ts, n)
           /\ handler' = [handler EXCEPT !.todo = handler.todo \ {n}, !.ts = ts2]
           /\ output_cmac' = [output_cmac EXCEPT ![o] = handler.task]
  <2>1. OutcomeOf(handler.task, ts2, handler.todo \ {n}, task_states[handler.task],
                  output_cmac')
    BY Zenon, <1>2, <1>3, <1>4, <1>7, TaggedOutcome
  <2>2. /\ handler'.task = handler.task /\ handler'.ts = ts2
        /\ handler'.todo = handler.todo \ {n}
    BY Zenon, <1>2, <1>7 DEF SchedHandlers
  <2>3. TagsStay
    BY Zenon, <1>2, <1>4, <1>7, NoneAssumption DEF TagsStay
  <2> HIDE DEF ts, ts2, o
  <2>4. SchedGoesOn
    BY Zenon, <1>5, <2>1, <2>2 DEF SchedGoesOn
  <2> QED BY Zenon, <1>5, <2>3, <2>4 DEF RpcGoesOn, RecordStored
<1> QED BY Zenon, <1>5, <1>6, <1>7

LEMMA PutGoesOn ==
  ASSUME TypeOK, OutcomeInv, NEW op, sched_put(op)
  PROVE  RpcGoesOn
<1>1. handler # None /\ handler.todo = {}
  BY Zenon DEF sched_put
<1>2. handler.task \in Tasks /\ handler.ts \in TaskStates
  BY Zenon, <1>1, HandlerType
<1>3. OutcomeOf(handler.task, handler.ts, {}, task_states[handler.task], output_cmac)
  BY Zenon, <1>1 DEF OutcomeInv
<1>4. RecordStored
  BY Zenon, <1>2, <1>3 DEF sched_put, RecordStored, OutcomeOf, Exists
<1> QED BY Zenon, <1>4, QuietTags DEF sched_put, RpcGoesOn, SchedGoesOn

LEMMA RpcStepGoesOn ==
  ASSUME TypeOK, NEW e \in Executors, ExecMove(e), RpcGoesOn, UNCHANGED mgmtVars
  PROVE  GoesOn
<1>1. FlightGoesOn
  BY Zenon, ExecMoveKeeps, FlightShrinks DEF RpcGoesOn, FlightGoesOn
<1>2. CallsGoOn
  BY Zenon DEF mgmtVars, CallsGoOn
<1> QED BY Zenon, <1>1, <1>2 DEF GoesOn, RpcGoesOn

LEMMA ExecutorGoesOn ==
  ASSUME TypeOK, OutcomeInv, NEW e \in Executors, UNCHANGED mgmtVars,
         ExecutorStep(e) \/ \E r \in {"Ok", "Err"} : invoke_task_done(e, r)
  PROVE  GoesOn
<1>1. CASE heartbeat(e)
  <2>1. ExecMove(e)
    BY Zenon, <1>1 DEF heartbeat, ExecMove
  <2>2. RpcGoesOn
    BY Zenon, <1>1, HeartbeatGoesOn DEF heartbeat
  <2> QED BY Zenon, <2>1, <2>2, RpcStepGoesOn
<1>2. CASE heartbeat_stop(e) \/ pull_task_canceled(e) \/ update_task_status_done(e)
             \/ update_task_result_done(e)
  <2>1. ExecMove(e)
    BY Zenon, <1>2 DEF heartbeat_stop, pull_task_canceled, update_task_status_done,
                update_task_result_done, ExecMove
  <2>2. RpcGoesOn
    BY Zenon, <1>2, PutGoesOn DEF heartbeat_stop, pull_task_canceled, update_task_status_done,
                           update_task_result_done
  <2> QED BY Zenon, <2>1, <2>2, RpcStepGoesOn
<1>3. CASE pull_task(e)
  <2>1. CASE /\ sched_pull_task(e)
             /\ exec' = [exec EXCEPT ![e].pc = "status", ![e].status = "Executing",
                                     ![e].current_task = Head(task_queue)]
    <3>1. RpcGoesOn /\ task_queue # << >>
      BY Zenon, <2>1, PullGoesOn DEF sched_pull_task
    <3>2. exec[e] \in ExecutorStates /\ DOMAIN exec = Executors
      BY Zenon DEF TypeOK, ExecTypeOK
    <3>3. "current_task" \in DOMAIN exec[e]
      BY Zenon, <3>2 DEF ExecutorStates, IdleExecutors, BusyExecutors
    <3>4. \A x \in Executors : exec'[x].current_task =
            IF x = e THEN Head(task_queue) ELSE exec[x].current_task
      BY Zenon, <2>1, <3>2, <3>3
    <3>5. FlightGoesOn
      BY Zenon, <3>1, <3>4, FlightShrinks DEF RpcGoesOn, FlightGoesOn
    <3>6. CallsGoOn
      BY Zenon DEF mgmtVars, CallsGoOn
    <3> QED BY Zenon, <3>1, <3>5, <3>6 DEF GoesOn, RpcGoesOn
  <2>2. CASE \/ sched_pull_canceled(e, TRUE) /\ UNCHANGED exec
             \/ sched_pull_canceled(e, FALSE) /\ ExecAt(e, "recv")
    <3>1. ExecMove(e)
      BY Zenon, <2>2 DEF ExecMove
    <3> QED BY Zenon, <2>2, <3>1, PullGoesOn, RpcStepGoesOn
  <2>3. CASE ExecAt(e, "recv") /\ UNCHANGED <<storeVars, schedVars>>
    <3>1. ExecMove(e)
      BY Zenon, <2>3 DEF ExecMove
    <3>2. RpcGoesOn
      BY Zenon, <2>3, QuietRpcGoesOn DEF storeVars, schedVars
    <3> QED BY Zenon, <3>1, <3>2, RpcStepGoesOn
  <2> QED BY Zenon, <1>3, <2>1, <2>2, <2>3 DEF pull_task
<1>4. CASE update_task_status(e)
  <2>1. ExecMove(e)
    BY Zenon, <1>4 DEF update_task_status, ExecMove
  <2>2. exec[e].current_task.task_id \in Tasks
    BY Zenon, <1>4, CurrentTask DEF update_task_status
  <2>3. RpcGoesOn
    BY Zenon, <1>4, <2>2, StatusGoesOn DEF update_task_status
  <2> QED BY Zenon, <2>1, <2>3, RpcStepGoesOn
<1>5. CASE update_task_result(e)
  <2> DEFINE s == exec[e].current_task
  <2>1. ExecMove(e)
    BY Zenon, <1>5 DEF update_task_result, ExecMove
  <2>2. exec[e] \in BusyExecutors /\ exec[e].pc = "result"
    BY Zenon, <1>5 DEF update_task_result, TypeOK, ExecTypeOK, ExecutorStates, IdleExecutors
  <2>3. exec[e].worker \in {"Ok", "Err"} /\ s \in StagedTasks /\ s.task_id \in Tasks
    BY Zenon, <2>2 DEF BusyExecutors, StagedTasks
  <2>4. s # None
    BY Zenon, <2>3, CurrentTaskAssumption
  <2>5. s \in InFlight
    BY Zenon, <2>4 DEF InFlight
  <2>6. DOMAIN s.output_data = DOMAIN task_states[s.task_id].outputs_ownership
    BY Zenon, <2>5 DEF OutcomeInv, SlotsOf
  <2>7. PICK ok \in BOOLEAN : sched_result_get(e, s.task_id, exec[e].worker,
                                               DOMAIN s.output_data, ok)
    BY Zenon, <1>5 DEF update_task_result
  <2> HIDE DEF s
  <2>8. RpcGoesOn
    BY Zenon, <2>3, <2>6, <2>7, ResultGoesOn
  <2> QED BY Zenon, <2>1, <2>8, RpcStepGoesOn
<1>6. ASSUME NEW n \in OutputNames, update_task_result_output(e, n)
      PROVE  GoesOn
  <2>1. ExecMove(e)
    BY Zenon, <1>6 DEF update_task_result_output, ExecMove
  <2>2. RpcGoesOn
    BY Zenon, <1>6, OutputGoesOn DEF update_task_result_output
  <2> QED BY Zenon, <2>1, <2>2, RpcStepGoesOn
<1>7. ASSUME NEW r, try_recv(e) \/ invoke_task_done(e, r)
      PROVE  GoesOn
  <2>1. ExecMove(e)
    BY Zenon, <1>7 DEF try_recv, invoke_task_done, ExecMove
  <2>2. RpcGoesOn
    BY Zenon, <1>7, QuietRpcGoesOn DEF try_recv, invoke_task_done, storeVars, schedVars
  <2> QED BY Zenon, <2>1, <2>2, RpcStepGoesOn
<1> QED BY Zenon, <1>1, <1>2, <1>3, <1>4, <1>5, <1>6, <1>7 DEF ExecutorStep

LEMMA ExecutorFaultGoesOn ==
  ASSUME TypeOK, OutcomeInv, NEW e \in Executors, UNCHANGED mgmtVars,
         \/ crash(e) \/ crash_in_rpc(e) \/ rpc_lost(e) \/ worker_lost(e)
         \/ handler_storage_error(e)
  PROVE  GoesOn
<1>1. ExecMove(e)
  BY Zenon DEF crash, crash_in_rpc, rpc_lost, worker_lost, handler_storage_error, ExecMove
<1>2. RpcGoesOn
  <2>1. CASE UNCHANGED <<storeVars, schedVars>>
    BY Zenon, <2>1, QuietRpcGoesOn DEF storeVars, schedVars
  <2>2. CASE sched_storage_error
    BY Zenon, <2>2, QuietTags
       DEF sched_storage_error, RpcGoesOn, RecordStored, SchedGoesOn, storeVars
  <2>3. CASE rpc_lost(e)
    BY Zenon, <2>1, <2>3, PullGoesOn, PutGoesOn DEF rpc_lost
  <2> QED BY Zenon, <2>1, <2>2, <2>3 DEF crash, crash_in_rpc, worker_lost, handler_storage_error
<1> QED BY Zenon, <1>1, <1>2, RpcStepGoesOn

LEMMA RestartGoesOn ==
  ASSUME TypeOK, OutcomeInv, UNCHANGED mgmtVars, scheduler_restart
  PROVE  GoesOn
<1>1. \A x \in Executors : exec'[x].current_task \in {None, exec[x].current_task}
  <2>1. CASE handler = None
    BY Zenon, <2>1 DEF scheduler_restart
  <2>2. CASE handler # None
    <3>1. handler.by \in Executors
      BY Zenon, <2>2, HandlerType DEF SchedHandlers
    <3>2. ExecMove(handler.by)
      BY Zenon, <2>2 DEF scheduler_restart, ExecMove
    <3> QED BY Zenon, <3>1, <3>2, ExecMoveKeeps
  <2> QED BY Zenon, <2>1, <2>2
<1>2. UNCHANGED <<task_states, output_cmac, staged_queue>> /\ task_queue' = << >>
  BY Zenon DEF scheduler_restart, sched_restart, storeVars
<1>3. FlightGoesOn
  BY Zenon, <1>1, <1>2, FlightShrinks DEF FlightGoesOn
<1>4. SchedGoesOn
  BY Zenon DEF scheduler_restart, sched_restart, SchedGoesOn
<1>5. CallsGoOn
  BY Zenon DEF mgmtVars, CallsGoOn
<1> QED BY Zenon, <1>2, <1>3, <1>4, <1>5, QuietTags DEF GoesOn, RecordStored

-----------------------------------------------------------------------------
LEMMA InitOutcome == Init => OutcomeInv
<1> SUFFICES ASSUME Init PROVE OutcomeInv
  BY Zenon
<1>1. ASSUME NEW t \in Tasks, Exists(t)
      PROVE  OutcomeOf(t, task_states[t], {}, task_states[t], output_cmac)
  <2> DEFINE ts == InitialTasks[t]
  <2>1. task_states[t] = ts /\ ts # NoTask
    BY Zenon, <1>1 DEF Init, Exists
  <2>2. Prepared(ts)
    BY Zenon, <2>1, InitialAssumption
  <2> HIDE DEF ts
  <2>3. ts.status # "Created" => OutputsAssigned(ts)
    BY Zenon, <2>2 DEF Prepared, all_data_assigned, OutputsAssigned
  <2> QED BY Zenon, <2>1, <2>2, <2>3 DEF OutcomeOf, Prepared, EndedStatus, FullStatus
<1>2. \A h \in Handlers : call[h].pc = "idle"
  BY Zenon DEF Init, NoCall
<1>3. handler = None /\ daemon.pc # "fail"
  BY Zenon DEF Init, SchedInit
<1>4. InFlight = {}
  BY SMTT(60) DEF Init, SchedInit, ExecInit, NewExecutor, InFlight
<1> QED BY Zenon, <1>1, <1>2, <1>3, <1>4 DEF OutcomeInv, CallOutcome

LEMMA NextOutcome == TypeOK /\ OutcomeInv /\ [Next]_vars => OutcomeInv'
<1> SUFFICES ASSUME TypeOK, OutcomeInv, [Next]_vars PROVE OutcomeInv'
  BY Zenon
<1>1. ASSUME NEW h \in Handlers, ManagementNext(h) PROVE GoesOn
  BY Zenon, <1>1, RequestGoesOn, HandlerGoesOn DEF ManagementNext
<1>2. ASSUME DaemonNext PROVE GoesOn
  BY Zenon, <1>2, DaemonGoesOn DEF DaemonNext, ExpireExited
<1>3. ASSUME NEW e \in Executors, ExecutorNext(e) PROVE GoesOn
  BY Zenon, <1>3, ExecutorGoesOn DEF ExecutorNext
<1>4. ASSUME FaultNext PROVE GoesOn
  BY Zenon, <1>4, HandlerGoesOn, ExecutorFaultGoesOn, DaemonGoesOn, RestartGoesOn
     DEF FaultNext, ExpireLive
<1>5. ASSUME UNCHANGED vars PROVE GoesOn
  <2>1. UNCHANGED <<task_states, output_cmac, staged_queue, task_queue, exec, handler,
                    daemon, call>>
    BY Zenon, <1>5 DEF vars, storeVars, schedVars, execVars, mgmtVars
  <2>2. RpcGoesOn /\ FlightGoesOn /\ CallsGoOn
    BY Zenon, <2>1, QuietRpcGoesOn, QuietFlight DEF CallsGoOn
  <2> QED BY Zenon, <2>2 DEF GoesOn, RpcGoesOn
<1>6. GoesOn
  BY Zenon, <1>1, <1>2, <1>3, <1>4, <1>5 DEF Next
<1>7. TypeOK'
  BY Zenon, NextTypes
<1> QED BY Zenon, <1>6, <1>7, OutcomeStep

(* The outcome of a task is recorded as a whole, with any number of        *)
(* handlers of the management service that overwrite each other and        *)
(* whatever is lost: an ended task has a result and another one has none,  *)
(* and a successful one has the tag of every output in its record and in   *)
(* the record of the file (update_task_result of the scheduler stores the  *)
(* files before the task).                                                 *)
THEOREM OutcomeAsAWhole == Spec => []OutcomeIsRecorded
<1>1. TypeOK /\ OutcomeInv => OutcomeIsRecorded
  <2> SUFFICES ASSUME TypeOK, OutcomeInv PROVE OutcomeIsRecorded
    BY Zenon
  <2>1. \A t \in Tasks : Exists(t) =>
          OutcomeOf(t, task_states[t], {}, task_states[t], output_cmac)
    BY Zenon DEF OutcomeInv
  <2>2. ResultMatchesStatus
    BY Zenon, <2>1 DEF ResultMatchesStatus, OutcomeOf, is_ended
  <2>3. FinishedHasOutputs
    <3>1. \A t \in Tasks : task_states[t].status = "Finished" => Exists(t)
      BY DEF Exists, NoTask
    <3> QED BY Zenon, <2>1, <3>1 DEF FinishedHasOutputs, OutcomeOf
  <2> QED BY Zenon, <2>2, <2>3 DEF OutcomeIsRecorded
<1> QED BY <1>1, InitOutcome, NextOutcome, TypeCorrect, PTL DEF Spec

-----------------------------------------------------------------------------
(* Cancellations.  Every task that is to be canceled, in the queue, in the *)
(* set of the scheduler or by the handler inside the mutex, was named by a *)
(* request.                                                                *)
CountedInv ==
  /\ \A i \in DOMAIN cancel_queue : cancel_count[cancel_queue[i]] > 0
  /\ \A t \in tasks_to_cancel : cancel_count[t] > 0
  /\ handler # None /\ handler.op = "cancel" => cancel_count[handler.task] > 0

Cancels(t) == handler # None /\ handler.op = "cancel" /\ handler.task = t

(* What a step does to cancellations and to tasks that are handed over.    *)
QueueStep ==
  \A i \in DOMAIN cancel_queue' :
    \/ \E j \in DOMAIN cancel_queue : cancel_queue'[i] = cancel_queue[j]
    \/ cancel_queue'[i] \in Tasks /\ cancel_count'[cancel_queue'[i]] > 0

CountStep == \A t \in Tasks : cancel_count[t] > 0 => cancel_count'[t] > 0

MarkStep ==
  /\ \A t \in tasks_to_cancel' :
       t \in tasks_to_cancel \/ \E j \in DOMAIN cancel_queue : t = cancel_queue[j]
  /\ \/ handler' = None \/ handler'.op # "cancel"
     \/ handler'.task \in tasks_to_cancel
     \/ Cancels(handler'.task)

CancelStep ==
  \/ UNCHANGED task_states
  \/ \E t \in Tasks, ts \in TaskStates :
       /\ PutTask(t, ts)
       /\ St(t) \notin Active \/ ts.status # "Canceled" \/ Cancels(t)

LEMMA CountedStep ==
  ASSUME TypeOK, TypeOK', CountedInv, QueueStep, CountStep, MarkStep
  PROVE  CountedInv'
<1>1. \A j \in DOMAIN cancel_queue : cancel_queue[j] \in Tasks
  BY DEF TypeOK, StoreTypeOK
<1>2. \A i \in DOMAIN cancel_queue' : cancel_count'[cancel_queue'[i]] > 0
  BY Zenon, <1>1 DEF CountedInv, QueueStep, CountStep
<1>3. tasks_to_cancel \subseteq Tasks /\ tasks_to_cancel' \subseteq Tasks
  BY Zenon DEF TypeOK, SchedTypeOK
<1>4. \A t \in tasks_to_cancel' : cancel_count'[t] > 0
  BY Zenon, <1>1, <1>3 DEF CountedInv, MarkStep, CountStep
<1>5. handler' # None => handler'.task \in Tasks
  BY Zenon DEF TypeOK, SchedTypeOK, SchedHandlers
<1>6. handler' # None /\ handler'.op = "cancel" => cancel_count'[handler'.task] > 0
  BY Zenon, <1>3, <1>5 DEF CountedInv, MarkStep, CountStep, Cancels
<1> QED BY Zenon, <1>2, <1>4, <1>6 DEF CountedInv

(* A step of management or of the daemon that leaves the cancellations. *)
LEMMA QuietMarks ==
  ASSUME UNCHANGED <<cancel_queue, cancel_count, tasks_to_cancel, handler>>
  PROVE  QueueStep /\ CountStep /\ MarkStep
BY Zenon DEF QueueStep, CountStep, MarkStep, Cancels

LEMMA ManagementCancels ==
  ASSUME TypeOK, OwnershipInv, NEW h \in Handlers,
         Request(h) \/ HandlerStep(h) \/ Abandon(h), UNCHANGED schedVars
  PROVE  QueueStep /\ CountStep /\ MarkStep /\ CancelStep
<1> USE DEF storeVars, histVars, mgmtVars, schedVars
<1>0. UNCHANGED <<tasks_to_cancel, handler>>
  BY Zenon
<1>1. CASE cancel_task_enqueue(h)
  <2>1. call[h] \in ActiveCalls
    BY Zenon, <1>1, ActiveCallType DEF cancel_task_enqueue
  <2> DEFINE t == call[h].task
  <2>2. t \in Tasks
    BY Zenon, <2>1 DEF ActiveCalls
  <2>3. /\ cancel_queue' = Append(cancel_queue, t) /\ UNCHANGED task_states
        /\ cancel_count' = [cancel_count EXCEPT ![t] = @ + 1]
    BY Zenon, <1>1 DEF cancel_task_enqueue
  <2>4. cancel_count \in [Tasks -> Nat] /\ cancel_queue \in Seq(Tasks)
    BY Zenon DEF TypeOK, MgmtTypeOK, StoreTypeOK
  <2> HIDE DEF t
  <2>5. CountStep /\ cancel_count'[t] > 0
    BY <2>2, <2>3, <2>4 DEF CountStep
  <2>6. QueueStep
    BY SMTT(60), <2>2, <2>3, <2>4, <2>5, QueueElements DEF QueueStep
  <2>7. MarkStep
    BY Zenon, <1>0 DEF MarkStep, Cancels
  <2> QED BY Zenon, <2>3, <2>5, <2>6, <2>7 DEF CancelStep
<1>2. CASE UNCHANGED <<task_states, cancel_queue, cancel_count>>
  BY Zenon, <1>0, <1>2, QuietMarks DEF CancelStep
<1>3. ASSUME NEW t \in Tasks, NEW u \in Users, NEW f \in Functions,
             NEW inputs \in Map(InputNames, SUBSET Users),
             NEW outputs \in Map(OutputNames, SUBSET Users),
             create_task(h, t, u, f, inputs, outputs)
      PROVE  QueueStep /\ CountStep /\ MarkStep /\ CancelStep
  <2> DEFINE ts == NewTask(u, f, FunctionOf[f], inputs, outputs)
  <2>1. ts \in TaskStates
    BY Zenon, NewTaskType, FunctionAssumption
  <2>2. /\ PutTask(t, ts) /\ St(t) \notin Active
        /\ UNCHANGED <<cancel_queue, cancel_count>>
    BY SMTT(60), <1>3 DEF create_task, Exists, NoTask, St, Active
  <2> HIDE DEF ts
  <2> QED BY Zenon, <1>0, <2>1, <2>2, QuietMarks DEF CancelStep
<1>4. CASE write_to_db(h) \/ invoke_task_write(h)
  <2>1. call[h] \in ActiveCalls
    BY Zenon, <1>4, ActiveCallType DEF write_to_db, invoke_task_write
  <2>2. /\ call[h].task \in Tasks /\ call[h].ts \in TaskStates
        /\ FromStage(call[h].ts) \in TaskStates
    BY Zenon, <2>1, FromStageType DEF ActiveCalls
  <2>3. St(call[h].task) \notin Active
    BY Zenon, <1>4 DEF write_to_db, invoke_task_write, OwnershipInv, CallInv, PrepareStep,
                PreStaged, Active
  <2>4. /\ \/ PutTask(call[h].task, call[h].ts)
           \/ PutTask(call[h].task, FromStage(call[h].ts))
        /\ UNCHANGED <<cancel_queue, cancel_count>>
    BY Zenon, <1>4 DEF write_to_db, invoke_task_write
  <2> QED BY Zenon, <1>0, <2>2, <2>3, <2>4, QuietMarks DEF CancelStep
<1>5. CASE \E t \in Tasks :
             \/ \E u \in Users, inputs \in Map(InputNames, InputFiles),
                   outputs \in Map(OutputNames, OutputFiles) :
                     assign_data(h, t, u, inputs, outputs)
             \/ \E u \in Users : approve_task(h, t, u)
             \/ invoke_task(h, t)
             \/ cancel_task(h, t)
  BY ZenonT(60), <1>2, <1>5 DEF assign_data, approve_task, invoke_task, cancel_task
<1>6. CASE \/ assign_data_files(h) \/ invoke_task_usage(h) \/ invoke_task_enqueue(h)
           \/ invoke_task_count(h) \/ Abandon(h)
  BY Zenon, <1>2, <1>6 DEF assign_data_files, invoke_task_usage, invoke_task_enqueue,
                    invoke_task_count, Abandon
<1> QED BY Zenon, <1>1, <1>3, <1>4, <1>5, <1>6 DEF Request, HandlerStep

LEMMA DaemonCancels ==
  ASSUME TypeOK, OwnershipInv, UNCHANGED mgmtVars,
         \/ DaemonStep \/ daemon_storage_error
         \/ \E e \in Executors : daemon_expire(e)
  PROVE  QueueStep /\ CountStep /\ MarkStep /\ CancelStep
<1> USE DEF storeVars, histVars, mgmtVars
<1>0. UNCHANGED <<handler, cancel_count>>
  BY Zenon DEF DaemonStep, daemon_storage_error, daemon_expire, daemon_lock,
         pull_cancel_queue, pull_staged_task, daemon_get, daemon_put, daemon_sleep
<1>a. cancel_queue \in Seq(Tasks)
  BY Zenon DEF TypeOK, StoreTypeOK
<1>1. QueueStep
  <2>1. \/ UNCHANGED cancel_queue
        \/ cancel_queue # << >> /\ cancel_queue' = Tail(cancel_queue)
    BY Zenon DEF DaemonStep, daemon_storage_error, daemon_expire, daemon_lock,
           pull_cancel_queue, pull_staged_task, daemon_get, daemon_put, daemon_sleep
  <2> QED BY <1>a, <2>1, QueueElements DEF QueueStep
<1>2. MarkStep
  <2>1. \/ UNCHANGED tasks_to_cancel
        \/ /\ cancel_queue # << >>
           /\ tasks_to_cancel' = tasks_to_cancel \cup {Head(cancel_queue)}
    BY Zenon DEF DaemonStep, daemon_storage_error, daemon_expire, daemon_lock,
           pull_cancel_queue, pull_staged_task, daemon_get, daemon_put, daemon_sleep
  <2>2. cancel_queue # << >> => 1 \in DOMAIN cancel_queue
                                /\ Head(cancel_queue) = cancel_queue[1]
    BY Zenon, <1>a, QueueElements
  <2> QED BY Zenon, <1>0, <2>1, <2>2 DEF MarkStep, Cancels
<1>3. CancelStep
  <2>1. CASE UNCHANGED task_states
    BY Zenon, <2>1 DEF CancelStep
  <2>2. CASE daemon.pc = "fail" /\ PutTask(daemon.task, daemon.ts)
    <3>1. daemon.task \in Tasks /\ daemon.ts \in TaskStates
      BY Zenon, <2>2 DEF TypeOK, SchedTypeOK, DaemonStates
    <3>2. daemon.ts.status # "Canceled"
      BY Zenon, <2>2 DEF OwnershipInv, MutexInv
    <3> QED BY Zenon, <2>2, <3>1, <3>2 DEF CancelStep
  <2> QED BY Zenon, <2>1, <2>2
        DEF DaemonStep, daemon_storage_error, daemon_expire, daemon_lock,
            pull_cancel_queue, pull_staged_task, daemon_get, daemon_put, daemon_sleep
<1> QED BY Zenon, <1>0, <1>1, <1>2, <1>3 DEF CountStep

(* An RPC of an executor that writes no task. *)
RpcReads ==
  /\ UNCHANGED <<task_states, cancel_queue>>
  /\ tasks_to_cancel' \subseteq tasks_to_cancel
  /\ \/ handler' \in {None, handler}
     \/ handler'.op # "cancel"
     \/ handler'.task \in tasks_to_cancel
     \/ Cancels(handler'.task)

LEMMA RpcReadCancels ==
  ASSUME RpcReads, UNCHANGED mgmtVars
  PROVE  QueueStep /\ CountStep /\ MarkStep /\ CancelStep
BY Zenon DEF RpcReads, QueueStep, CountStep, MarkStep, CancelStep, Cancels, mgmtVars, histVars

LEMMA SchedReads ==
  ASSUME TypeOK, NEW e \in Executors,
         \/ \E status, ok : sched_heartbeat_stop(e, status, ok)
         \/ \E status : sched_heartbeat(e, status)
         \/ sched_pull_task(e)
         \/ \E ok : sched_pull_canceled(e, ok)
         \/ \E t, ok : sched_status_get(e, t, ok)
         \/ \E t, r, tags, ok : sched_result_get(e, t, r, tags, ok)
         \/ \E n, ok : sched_result_put_output(n, ok)
         \/ sched_storage_error
         \/ UNCHANGED <<storeVars, schedVars>>
  PROVE  RpcReads
<1> USE DEF storeVars, schedVars
<1>1. ASSUME NEW status, NEW ok, sched_heartbeat_stop(e, status, ok) PROVE RpcReads
  BY SMTT(60), <1>1 DEF sched_heartbeat_stop, StopRequested, cancel_task_get, RpcReads
<1>2. ASSUME NEW ok, sched_pull_canceled(e, ok) PROVE RpcReads
  <2>1. PICK t : /\ t \in tasks_to_cancel /\ tasks_to_cancel' = tasks_to_cancel \ {t}
                 /\ cancel_task_get(e, t, ok)
                 /\ UNCHANGED <<task_states, cancel_queue>>
    BY Zenon, <1>2 DEF sched_pull_canceled
  <2>2. handler' = handler \/ handler'.task = t
    BY SMTT(60), <2>1 DEF cancel_task_get
  <2> QED BY Zenon, <2>1, <2>2 DEF RpcReads
<1>3. ASSUME NEW n, NEW ok, sched_result_put_output(n, ok) PROVE RpcReads
  <2>1. handler # None /\ handler \in SchedHandlers
    BY Zenon, <1>3, HandlerType DEF sched_result_put_output
  <2>2. \/ handler' = None
        \/ handler'.op = handler.op /\ handler'.task = handler.task
    BY Zenon, <1>3, <2>1 DEF sched_result_put_output, SchedHandlers
  <2> QED BY Zenon, <1>3, <2>1, <2>2 DEF sched_result_put_output, RpcReads, Cancels
<1>4. ASSUME NEW t, NEW ok, sched_status_get(e, t, ok) PROVE RpcReads
  BY SMTT(60), <1>4 DEF sched_status_get, RpcReads
<1>5. ASSUME NEW t, NEW r, NEW tags, NEW ok, sched_result_get(e, t, r, tags, ok)
      PROVE  RpcReads
  BY SMTT(60), <1>5 DEF sched_result_get, RpcReads
<1>6. ASSUME NEW status, sched_heartbeat(e, status) PROVE RpcReads
  BY Zenon, <1>6 DEF sched_heartbeat, RpcReads
<1>7. ASSUME sched_pull_task(e) \/ sched_storage_error
             \/ UNCHANGED <<storeVars, schedVars>>
      PROVE  RpcReads
  BY Zenon, <1>7 DEF sched_pull_task, sched_storage_error, RpcReads
<1> QED BY Zenon, <1>1, <1>2, <1>3, <1>4, <1>5, <1>6, <1>7

LEMMA PutCancels ==
  ASSUME TypeOK, OwnershipInv, NEW op, sched_put(op), UNCHANGED mgmtVars
  PROVE  QueueStep /\ CountStep /\ MarkStep /\ CancelStep
<1>1. /\ handler # None /\ handler.op = op /\ PutTask(handler.task, handler.ts)
      /\ UNCHANGED <<cancel_queue, tasks_to_cancel>> /\ handler' = None
  BY Zenon DEF sched_put
<1>2. handler.task \in Tasks /\ handler.ts \in TaskStates
  BY Zenon, <1>1, HandlerType
<1>3. handler.op = "cancel" \/ handler.ts.status # "Canceled"
  BY Zenon, <1>1 DEF OwnershipInv, MutexInv
<1>4. CancelStep
  BY Zenon, <1>1, <1>2, <1>3 DEF CancelStep, Cancels
<1> QED BY Zenon, <1>1, <1>4 DEF QueueStep, CountStep, MarkStep, mgmtVars, histVars

LEMMA NextCancels ==
  ASSUME TypeOK, OwnershipInv, [Next]_vars
  PROVE  QueueStep /\ CountStep /\ MarkStep /\ CancelStep
<1> DEFINE G == QueueStep /\ CountStep /\ MarkStep /\ CancelStep
<1>1. ASSUME NEW h \in Handlers, ManagementNext(h) PROVE G
  BY Zenon, <1>1, ManagementCancels DEF ManagementNext
<1>2. ASSUME DaemonNext PROVE G
  BY Zenon, <1>2, DaemonCancels DEF DaemonNext, ExpireExited
<1>3. ASSUME NEW e \in Executors, ExecutorNext(e) PROVE G
  <2>1. UNCHANGED mgmtVars
    BY Zenon, <1>3 DEF ExecutorNext
  <2>2. CASE \E op : sched_put(op)
    BY Zenon, <2>1, <2>2, PutCancels
  <2>3. CASE RpcReads
    BY Zenon, <2>1, <2>3, RpcReadCancels
  <2>4. (\E op : sched_put(op)) \/ RpcReads
    BY Zenon, <1>3, SchedReads
       DEF ExecutorNext, ExecutorStep, heartbeat, heartbeat_stop, pull_task,
           pull_task_canceled, update_task_status, update_task_status_done,
           try_recv, update_task_result, update_task_result_output,
           update_task_result_done, invoke_task_done
  <2> QED BY Zenon, <2>2, <2>3, <2>4
<1>4. ASSUME FaultNext PROVE G
  <2>1. ASSUME NEW h \in Handlers, Abandon(h), UNCHANGED schedVars PROVE G
    BY Zenon, <2>1, ManagementCancels
  <2>2. ASSUME NEW e \in Executors, UNCHANGED mgmtVars,
               \/ crash(e) \/ crash_in_rpc(e) \/ rpc_lost(e) \/ worker_lost(e)
               \/ handler_storage_error(e)
        PROVE  G
    <3>1. (\E op : sched_put(op)) \/ RpcReads
      BY Zenon, <2>2, SchedReads
         DEF crash, crash_in_rpc, rpc_lost, worker_lost, handler_storage_error
    <3> QED BY Zenon, <2>2, <3>1, PutCancels, RpcReadCancels
  <2>3. ASSUME NEW e \in Executors, ExpireLive(e), UNCHANGED mgmtVars PROVE G
    BY Zenon, <2>3, DaemonCancels DEF ExpireLive
  <2>4. ASSUME daemon_storage_error, UNCHANGED mgmtVars PROVE G
    BY Zenon, <2>4, DaemonCancels
  <2>5. ASSUME scheduler_restart, UNCHANGED mgmtVars PROVE G
    BY Zenon, <2>5, RpcReadCancels DEF scheduler_restart, sched_restart, RpcReads, storeVars
  <2> QED BY Zenon, <1>4, <2>1, <2>2, <2>3, <2>4, <2>5 DEF FaultNext
<1>5. ASSUME UNCHANGED vars PROVE G
  BY Zenon, <1>5, QuietMarks DEF vars, storeVars, mgmtVars, histVars, schedVars, CancelStep
<1> QED BY Zenon, <1>1, <1>2, <1>3, <1>4, <1>5 DEF Next

(* A staged or running task is canceled only if its own cancellation was   *)
(* put into the cancel queue, whatever is stale in the set of tasks to     *)
(* cancel that the scheduler keeps for all executors.                      *)
THEOREM CanceledIsRequested == SingleHandler => (Spec => CanceledOnRequest)
<1> SUFFICES ASSUME SingleHandler PROVE Spec => CanceledOnRequest
  BY Zenon
<1> DEFINE A == \A t \in Tasks :
                  St(t) \in Active /\ St(t)' = "Canceled" => cancel_count[t] > 0
<1>1. Init => CountedInv
  <2> SUFFICES ASSUME Init PROVE CountedInv
    BY Zenon
  <2>1. cancel_queue = << >> /\ tasks_to_cancel = {} /\ handler = None
    BY Zenon DEF Init, SchedInit
  <2>2. DOMAIN << >> = {}
    OBVIOUS
  <2> QED BY Zenon, <2>1, <2>2 DEF CountedInv
<1>2. TypeOK /\ OwnershipInv /\ CountedInv /\ [Next]_vars => CountedInv'
  BY Zenon, NextTypes, NextCancels, CountedStep
<1>3. TypeOK /\ OwnershipInv /\ CountedInv /\ [Next]_vars => [A]_vars
  <2> SUFFICES ASSUME TypeOK, CountedInv, CancelStep, NEW t \in Tasks,
                      St(t) \in Active, St(t)' = "Canceled"
               PROVE  cancel_count[t] > 0
    BY Zenon, NextCancels
  <2>1. CASE UNCHANGED task_states
    BY Zenon, <2>1 DEF St, Active
  <2>2. ASSUME NEW x \in Tasks, NEW ts \in TaskStates, PutTask(x, ts),
               St(x) \notin Active \/ ts.status # "Canceled" \/ Cancels(x)
        PROVE  cancel_count[t] > 0
    <3>1. St(x)' = ts.status /\ \A y \in Tasks : y # x => St(y)' = St(y)
      BY Zenon, <2>2, PutStatus
    <3>2. x = t
      BY Zenon, <3>1 DEF Active
    <3> QED BY Zenon, <2>2, <3>1, <3>2 DEF CountedInv, Cancels
  <2> QED BY Zenon, <2>1, <2>2 DEF CancelStep
<1> QED BY <1>1, <1>2, <1>3, Ownership, TypeCorrect, PTL DEF Spec, CanceledOnRequest

-----------------------------------------------------------------------------
(* Tracking.  An executor holds a task from the pull that returns it, when *)
(* it has not started the worker yet, to the end of the worker's result.   *)
Holding(x) == exec[x].pc = "status" \/ exec[x].worker # "none"

Tracked(x, t) ==
  \/ executors_tasks[x] = t
  \/ is_ended(task_states[t])
  \/ daemon.task = t
  \/ daemon.pc = "dead"

TrackedInv ==
  \A x \in Executors : Holding(x) => Tracked(x, exec[x].current_task.task_id)

(* What a step does to the tasks that executors hold, and to what the      *)
(* scheduler knows of them.                                                *)
HoldStep ==
  \A x \in Executors : Holding(x)' =>
    \/ Holding(x) /\ exec'[x].current_task = exec[x].current_task
    \/ executors_tasks'[x] = exec'[x].current_task.task_id

TrackStep ==
  /\ \A x \in Executors, t \in Tasks :
       Holding(x) /\ executors_tasks[x] = t =>
         executors_tasks'[x] = t \/ daemon'.task = t \/ ~ Holding(x)'
  /\ \A t \in Tasks :
       daemon.task = t =>
         daemon'.task = t \/ is_ended(task_states'[t]) \/ daemon'.pc = "dead"
  /\ daemon.pc = "dead" => daemon'.pc = "dead"

LEMMA HeldTask ==
  ASSUME TypeOK, NEW x \in Executors, Holding(x)
  PROVE  exec[x].current_task.task_id \in Tasks
<1>1. exec[x] \in ExecutorStates
  BY Zenon DEF TypeOK, ExecTypeOK
<1>2. exec[x].current_task \in StagedTasks
  BY Zenon, <1>1 DEF Holding, ExecutorStates, IdleExecutors, BusyExecutors
<1> QED BY Zenon, <1>2, StagedTaskElim

LEMMA TrackedStep ==
  ASSUME TypeOK, TrackedInv, HoldStep, TrackStep,
         \A t \in Tasks : is_ended(task_states[t]) => task_states'[t] = task_states[t]
  PROVE  TrackedInv'
<1> SUFFICES ASSUME NEW x \in Executors, Holding(x)'
             PROVE  Tracked(x, exec[x].current_task.task_id)'
  BY Zenon DEF TrackedInv
<1>1. CASE Holding(x) /\ exec'[x].current_task = exec[x].current_task
  <2>1. PICK t \in Tasks : t = exec[x].current_task.task_id
    BY Zenon, <1>1, HeldTask
  <2>2. t = exec'[x].current_task.task_id /\ Tracked(x, t)
    BY Zenon, <1>1, <2>1 DEF TrackedInv
  <2>3. is_ended(task_states[t]) => is_ended(task_states'[t])
    BY Zenon
  <2>4. /\ executors_tasks[x] = t => executors_tasks'[x] = t \/ daemon'.task = t
        /\ daemon.task = t =>
             daemon'.task = t \/ is_ended(task_states'[t]) \/ daemon'.pc = "dead"
        /\ daemon.pc = "dead" => daemon'.pc = "dead"
    BY Zenon, <1>1 DEF TrackStep
  <2> QED BY Zenon, <2>2, <2>3, <2>4 DEF Tracked
<1>2. CASE executors_tasks'[x] = exec'[x].current_task.task_id
  BY Zenon, <1>2 DEF Tracked
<1> QED BY Zenon, <1>1, <1>2 DEF HoldStep

LEMMA QuietTracks ==
  ASSUME UNCHANGED <<schedVars, execVars>>
  PROVE  HoldStep /\ TrackStep
BY Zenon DEF HoldStep, TrackStep, Holding, schedVars, execVars

LEMMA DaemonTracks ==
  ASSUME TypeOK, OwnershipInv, UNCHANGED execVars,
         \/ DaemonStep \/ daemon_storage_error
         \/ \E e \in Executors : daemon_expire(e)
  PROVE  HoldStep /\ TrackStep
<1>1. HoldStep
  BY Zenon DEF HoldStep, Holding, execVars
<1>2. daemon \in DaemonStates /\ executors_tasks \in [Executors -> Tasks \cup {None}]
  BY Zenon DEF TypeOK, SchedTypeOK
<1>3. None \notin Tasks
  BY Zenon, NoneAssumption
<1>4. ASSUME daemon.pc \notin {"lost", "fail"} PROVE daemon.task \notin Tasks
  BY Zenon, <1>2, <1>3, <1>4 DEF DaemonStates
<1>5. ASSUME NEW e \in Executors, daemon_expire(e) PROVE TrackStep
  <2>1. daemon.task \notin Tasks /\ daemon.pc = "expire"
    BY Zenon, <1>4, <1>5 DEF daemon_expire
  <2>2. executors_tasks' = [executors_tasks EXCEPT ![e] = None]
    BY Zenon, <1>5 DEF daemon_expire
  <2>3. executors_tasks[e] # None => daemon'.task = executors_tasks[e]
    BY Zenon, <1>2, <1>5 DEF daemon_expire, DaemonStates
  <2> QED BY Zenon, <1>2, <1>3, <2>1, <2>2, <2>3 DEF TrackStep
<1>6. ASSUME UNCHANGED executors_tasks, daemon.pc \notin {"lost", "fail", "dead"}
      PROVE  TrackStep
  BY Zenon, <1>4, <1>6 DEF TrackStep
<1>7. CASE daemon_lock \/ pull_cancel_queue \/ pull_staged_task \/ daemon_sleep
  BY Zenon, <1>1, <1>6, <1>7 DEF daemon_lock, pull_cancel_queue, pull_staged_task, daemon_sleep
<1>8. CASE daemon_get
  <2>1. /\ UNCHANGED <<executors_tasks, task_states>> /\ daemon.pc = "lost"
        /\ \/ is_ended(task_states[daemon.task])
           \/ daemon'.task = daemon.task
           \/ daemon'.pc = "dead"
    <3>1. DOMAIN daemon = {"pc", "task", "ts"}
      BY Zenon, <1>2 DEF DaemonStates
    <3>2. ASSUME NEW ts, daemon' = [daemon EXCEPT !.pc = "fail", !.ts = ts]
          PROVE  daemon'.task = daemon.task
      BY Zenon, <3>1, <3>2
    <3>3. CASE DaemonAt("dead")
      BY Zenon, <1>8, <3>3 DEF daemon_get, DaemonAt, storeVars
    <3> QED BY Zenon, <1>8, <3>2, <3>3 DEF daemon_get, storeVars
  <2> QED BY Zenon, <1>1, <2>1 DEF TrackStep
<1>9. CASE daemon_put
  <2>1. /\ UNCHANGED executors_tasks /\ daemon.pc = "fail"
        /\ PutTask(daemon.task, daemon.ts)
    BY Zenon, <1>9 DEF daemon_put
  <2>2. daemon.task \in Tasks /\ daemon.ts \in TaskStates
    BY Zenon, <1>2, <2>1 DEF DaemonStates
  <2>3. task_states'[daemon.task] = daemon.ts
    BY Zenon, <2>1, <2>2 DEF PutTask, TypeOK, StoreTypeOK
  <2>4. daemon.ts.status = "Failed"
    BY Zenon, <2>1 DEF OwnershipInv, MutexInv
  <2> QED BY Zenon, <1>1, <2>1, <2>3, <2>4 DEF TrackStep, is_ended, EndedStatus
<1>10. CASE daemon_storage_error
  <2>1. /\ UNCHANGED executors_tasks
        /\ \/ daemon.pc \in {"cancel", "staged"}
           \/ daemon'.pc = "dead"
    BY SMTT(60), <1>10 DEF daemon_storage_error, DaemonAt
  <2> QED BY Zenon, <1>1, <1>6, <2>1 DEF TrackStep
<1> QED BY Zenon, <1>1, <1>5, <1>7, <1>8, <1>9, <1>10 DEF DaemonStep

(* An executor that ends up with no task, keeps its task, or gets one.     *)
LEMMA ExecutorTracks ==
  ASSUME TypeOK, NEW e \in Executors, UNCHANGED daemon,
         \A x \in Executors : x # e =>
           exec'[x] = exec[x] /\ executors_tasks'[x] = executors_tasks[x],
         \/ ~ Holding(e)'
         \/ /\ Holding(e) /\ exec'[e].current_task = exec[e].current_task
            /\ executors_tasks'[e] = executors_tasks[e]
         \/ /\ ~ Holding(e)
            /\ executors_tasks'[e] = exec'[e].current_task.task_id
  PROVE  HoldStep /\ TrackStep
<1>1. \A x \in Executors : x # e => (Holding(x)' <=> Holding(x))
  BY Zenon DEF Holding
<1>2. HoldStep
  BY Zenon, <1>1 DEF HoldStep
<1>3. TrackStep
  BY Zenon DEF TrackStep
<1> QED BY Zenon, <1>2, <1>3

(* The moves of executor e, as far as its task is concerned. *)
LEMMA ExecutorMoves ==
  ASSUME TypeOK, NEW e \in Executors
  PROVE  /\ Exit(e) \/ ResultDropped(e) \/ ExecAt(e, "recv") \/ ExecAt(e, "pull")
            \/ ExecAt(e, "heartbeat") \/ ExecAt(e, "result") =>
              \A x \in Executors : x # e => exec'[x] = exec[x]
         /\ Exit(e) => ~ Holding(e)'
         /\ exec[e].pc \in {"heartbeat", "recv"} =>
              \A p \in {"heartbeat", "pull", "recv", "result"} : ExecAt(e, p) =>
                (Holding(e)' <=> Holding(e)) /\ exec'[e].current_task = exec[e].current_task
         /\ exec[e].pc = "pull" => ~ Holding(e) /\ (ExecAt(e, "recv") => ~ Holding(e)')
         /\ exec[e].pc = "heartbeat" /\ exec[e].status = "Idle" => ~ Holding(e)
         /\ ResultDropped(e) => ~ Holding(e)'
<1>1. exec \in [Executors -> ExecutorStates] /\ exec[e] \in ExecutorStates
  BY Zenon DEF TypeOK, ExecTypeOK
<1>2. /\ exec[e].pc = "pull" => exec[e].worker = "none"
      /\ exec[e].status = "Idle" => exec[e].worker = "none"
  BY Zenon, <1>1 DEF ExecutorStates, IdleExecutors, BusyExecutors
<1>3. \A p : ExecAt(e, p) =>
        /\ \A x \in Executors : x # e => exec'[x] = exec[x]
        /\ exec'[e].pc = p /\ exec'[e].worker = exec[e].worker
        /\ exec'[e].current_task = exec[e].current_task
  BY Zenon, <1>1 DEF ExecAt, ExecutorStates, IdleExecutors, BusyExecutors
<1>4. Exit(e) =>
        /\ \A x \in Executors : x # e => exec'[x] = exec[x]
        /\ exec'[e].pc = "exited" /\ exec'[e].worker = "none"
  BY Zenon, <1>1 DEF Exit, NewExecutor
<1>5. ResultDropped(e) =>
        /\ \A x \in Executors : x # e => exec'[x] = exec[x]
        /\ exec'[e].pc = "heartbeat" /\ exec'[e].worker = "none"
  BY ZenonT(60), <1>1 DEF ResultDropped, ExecutorStates, IdleExecutors, BusyExecutors
<1> QED BY SMTT(60), <1>2, <1>3, <1>4, <1>5 DEF Holding

LEMMA StepTracks ==
  ASSUME TypeOK, NEW e \in Executors,
         ExecutorStep(e) \/ \E r \in {"Ok", "Err"} : invoke_task_done(e, r)
  PROVE  HoldStep /\ TrackStep
<1> DEFINE G == HoldStep /\ TrackStep
<1> USE DEF storeVars, schedVars, execVars
<1>0. /\ exec \in [Executors -> ExecutorStates] /\ exec[e] \in ExecutorStates
      /\ executors_tasks \in [Executors -> Tasks \cup {None}]
  BY Zenon DEF TypeOK, ExecTypeOK, SchedTypeOK
<1>1. CASE heartbeat(e)
  <2>1. CASE /\ sched_heartbeat(e, exec[e].status)
             /\ ExecAt(e, IF exec[e].status = "Idle" /\ task_queue # << >>
                            THEN "pull" ELSE "recv")
    <3>1. PICK p \in {"pull", "recv"} : ExecAt(e, p)
      BY Zenon, <2>1
    <3>2. /\ \A x \in Executors : x # e => exec'[x] = exec[x]
          /\ (Holding(e)' <=> Holding(e)) /\ exec'[e].current_task = exec[e].current_task
          /\ exec[e].status = "Idle" => ~ Holding(e)
      BY Zenon, <1>1, <3>1, ExecutorMoves DEF heartbeat
    <3>3. UNCHANGED daemon /\ \A x \in Executors :
            x # e \/ exec[e].status # "Idle" => executors_tasks'[x] = executors_tasks[x]
      BY Zenon, <1>0, <2>1 DEF sched_heartbeat
    <3> QED BY Zenon, <3>2, <3>3, ExecutorTracks
  <2>2. CASE sched_heartbeat_stop(e, exec[e].status, TRUE) /\ UNCHANGED exec
    BY Zenon, <2>2 DEF sched_heartbeat_stop, HoldStep, TrackStep, Holding
  <2>3. CASE sched_heartbeat_stop(e, exec[e].status, FALSE) /\ Exit(e)
    BY Zenon, <2>3, ExecutorMoves, ExecutorTracks DEF sched_heartbeat_stop
  <2> QED BY Zenon, <1>1, <2>1, <2>2, <2>3 DEF heartbeat
<1>2. CASE heartbeat_stop(e)
  BY Zenon, <1>2, ExecutorMoves, ExecutorTracks DEF heartbeat_stop, sched_put
<1>3. CASE pull_task(e)
  <2>1. CASE /\ sched_pull_task(e)
             /\ exec' = [exec EXCEPT ![e].pc = "status", ![e].status = "Executing",
                                     ![e].current_task = Head(task_queue)]
    <3>1. ~ Holding(e)
      BY Zenon, <1>3, ExecutorMoves DEF pull_task
    <3>2. /\ \A x \in Executors : x # e => exec'[x] = exec[x]
          /\ exec'[e].current_task = Head(task_queue)
      BY Zenon, <1>0, <2>1 DEF ExecutorStates, IdleExecutors, BusyExecutors
    <3>3. /\ UNCHANGED daemon
          /\ executors_tasks' = [executors_tasks EXCEPT ![e] = Head(task_queue).task_id]
      BY Zenon, <2>1 DEF sched_pull_task
    <3> QED BY Zenon, <1>0, <3>1, <3>2, <3>3, ExecutorTracks
  <2>2. CASE sched_pull_canceled(e, TRUE) /\ UNCHANGED exec
    BY Zenon, <2>2 DEF sched_pull_canceled, HoldStep, TrackStep, Holding
  <2>3. CASE sched_pull_canceled(e, FALSE) /\ ExecAt(e, "recv")
    BY Zenon, <1>3, <2>3, ExecutorMoves, ExecutorTracks DEF sched_pull_canceled, pull_task
  <2>4. CASE ExecAt(e, "recv") /\ UNCHANGED <<storeVars, schedVars>>
    BY Zenon, <1>3, <2>4, ExecutorMoves, ExecutorTracks DEF pull_task
  <2> QED BY Zenon, <1>3, <2>1, <2>2, <2>3, <2>4 DEF pull_task
<1>4. CASE pull_task_canceled(e)
  BY Zenon, <1>4, ExecutorMoves, ExecutorTracks DEF pull_task_canceled, sched_put
<1>5. CASE update_task_status(e)
  <2>1. UNCHANGED <<executors_tasks, daemon>> /\ (UNCHANGED exec \/ Exit(e))
    BY Zenon, <1>5 DEF update_task_status, sched_status_get
  <2>2. CASE UNCHANGED exec
    BY Zenon, <2>1, <2>2 DEF HoldStep, TrackStep, Holding
  <2> QED BY Zenon, <2>1, <2>2, ExecutorMoves, ExecutorTracks
<1>6. CASE update_task_status_done(e)
  <2>1. /\ \A x \in Executors : x # e => exec'[x] = exec[x]
        /\ exec'[e].current_task = exec[e].current_task
    BY Zenon, <1>0, <1>6 DEF update_task_status_done, ExecutorStates, IdleExecutors, BusyExecutors
  <2>2. UNCHANGED <<executors_tasks, daemon>> /\ Holding(e)
    BY Zenon, <1>6 DEF update_task_status_done, sched_put, Holding
  <2> QED BY Zenon, <2>1, <2>2, ExecutorTracks
<1>7. CASE try_recv(e)
  <2>1. PICK p \in {"result", "heartbeat"} : ExecAt(e, p)
    BY Zenon, <1>7 DEF try_recv
  <2>2. UNCHANGED <<executors_tasks, daemon>> /\ exec[e].pc = "recv"
    BY Zenon, <1>7 DEF try_recv
  <2> QED BY Zenon, <2>1, <2>2, ExecutorMoves, ExecutorTracks
<1>8. CASE update_task_result(e) \/ \E n \in OutputNames : update_task_result_output(e, n)
  <2>1. UNCHANGED <<executors_tasks, daemon>> /\ (UNCHANGED exec \/ ResultDropped(e))
    BY Zenon, <1>8 DEF update_task_result, update_task_result_output, sched_result_get,
                sched_result_put_output
  <2>2. CASE UNCHANGED exec
    BY Zenon, <2>1, <2>2 DEF HoldStep, TrackStep, Holding
  <2> QED BY Zenon, <2>1, <2>2, ExecutorMoves, ExecutorTracks
<1>9. CASE update_task_result_done(e)
  <2>1. /\ \A x \in Executors : x # e => exec'[x] = exec[x]
        /\ exec'[e].pc = "heartbeat" /\ exec'[e].worker = "none"
    BY Zenon, <1>0, <1>9 DEF update_task_result_done, NewExecutor
  <2>2. UNCHANGED <<executors_tasks, daemon>>
    BY Zenon, <1>9 DEF update_task_result_done, sched_put
  <2> QED BY Zenon, <2>1, <2>2, ExecutorTracks DEF Holding
<1>10. ASSUME NEW r, invoke_task_done(e, r) PROVE G
  <2>1. /\ \A x \in Executors : x # e => exec'[x] = exec[x]
        /\ exec'[e].current_task = exec[e].current_task
    BY Zenon, <1>0, <1>10 DEF invoke_task_done, ExecutorStates, IdleExecutors, BusyExecutors
  <2>2. UNCHANGED <<executors_tasks, daemon>> /\ Holding(e)
    BY Zenon, <1>10 DEF invoke_task_done, Holding
  <2> QED BY Zenon, <2>1, <2>2, ExecutorTracks
<1> QED BY Zenon, <1>1, <1>2, <1>3, <1>4, <1>5, <1>6, <1>7, <1>8, <1>9, <1>10 DEF ExecutorStep

LEMMA ExecutorFaultTracks ==
  ASSUME TypeOK, NEW e \in Executors,
         \/ crash(e) \/ crash_in_rpc(e) \/ rpc_lost(e) \/ worker_lost(e)
         \/ handler_storage_error(e)
  PROVE  HoldStep /\ TrackStep
<1> USE DEF storeVars, schedVars, execVars
<1>0. /\ exec \in [Executors -> ExecutorStates] /\ exec[e] \in ExecutorStates
      /\ executors_tasks \in [Executors -> Tasks \cup {None}]
  BY Zenon DEF TypeOK, ExecTypeOK, SchedTypeOK
<1>1. OnRpcError(e) =>
        ~ Holding(e)' /\ \A x \in Executors : x # e => exec'[x] = exec[x]
  BY Zenon, ExecutorMoves DEF OnRpcError
<1>2. CASE crash(e) \/ crash_in_rpc(e)
  BY Zenon, <1>2, ExecutorMoves, ExecutorTracks DEF crash, crash_in_rpc, sched_storage_error
<1>3. CASE handler_storage_error(e)
  BY Zenon, <1>1, <1>3, ExecutorTracks DEF handler_storage_error, sched_storage_error
<1>4. CASE rpc_lost(e)
  <2>1. OnRpcError(e) /\ UNCHANGED daemon
    BY Zenon, <1>4 DEF rpc_lost, sched_pull_task, sched_put
  <2>2. \A x \in Executors : x # e => executors_tasks'[x] = executors_tasks[x]
    BY Zenon, <1>0, <1>4 DEF rpc_lost, sched_pull_task, sched_put
  <2> QED BY Zenon, <1>1, <2>1, <2>2, ExecutorTracks
<1>5. CASE worker_lost(e)
  <2>1. /\ \A x \in Executors : x # e => exec'[x] = exec[x]
        /\ exec'[e].current_task = exec[e].current_task
    BY Zenon, <1>0, <1>5 DEF worker_lost, ExecutorStates, IdleExecutors, BusyExecutors
  <2>2. UNCHANGED <<executors_tasks, daemon>> /\ Holding(e)
    BY Zenon, <1>5 DEF worker_lost, Holding
  <2> QED BY Zenon, <2>1, <2>2, ExecutorTracks
<1> QED BY Zenon, <1>2, <1>3, <1>4, <1>5

LEMMA NextTracks ==
  ASSUME "restart" \notin FaultKinds, TypeOK, OwnershipInv, [Next]_vars
  PROVE  HoldStep /\ TrackStep
<1> DEFINE G == HoldStep /\ TrackStep
<1>1. ASSUME NEW h \in Handlers, ManagementNext(h) PROVE G
  BY Zenon, <1>1, QuietTracks DEF ManagementNext
<1>2. ASSUME DaemonNext PROVE G
  BY Zenon, <1>2, DaemonTracks DEF DaemonNext, ExpireExited
<1>3. ASSUME NEW e \in Executors, ExecutorNext(e) PROVE G
  BY Zenon, <1>3, StepTracks DEF ExecutorNext
<1>4. ASSUME FaultNext PROVE G
  <2>1. ASSUME NEW e \in Executors, ExpireLive(e), UNCHANGED execVars PROVE G
    BY Zenon, <2>1, DaemonTracks DEF ExpireLive
  <2>2. ASSUME daemon_storage_error, UNCHANGED execVars PROVE G
    BY Zenon, <2>2, DaemonTracks
  <2> QED BY Zenon, <1>4, <2>1, <2>2, QuietTracks, ExecutorFaultTracks DEF FaultNext, Fault
<1>5. ASSUME UNCHANGED vars PROVE G
  BY Zenon, <1>5, QuietTracks DEF vars
<1> QED BY Zenon, <1>1, <1>2, <1>3, <1>4, <1>5 DEF Next

(* As long as the scheduler is not restarted, a worker that runs the       *)
(* function of a task is known to it: what executors_tasks says of the     *)
(* executor is lost only with the task's end or with the daemon's.         *)
THEOREM WorkersAreKnown ==
  SingleHandler /\ "restart" \notin FaultKinds => (Spec => []ExecutingIsTracked)
<1> SUFFICES ASSUME SingleHandler, "restart" \notin FaultKinds
             PROVE  Spec => []ExecutingIsTracked
  BY Zenon
<1>1. Init => TrackedInv
  <2> SUFFICES ASSUME Init, NEW x \in Executors PROVE ~ Holding(x)
    BY Zenon DEF TrackedInv
  <2>1. exec[x] = NewExecutor
    BY Zenon DEF Init, ExecInit
  <2> QED BY SMTT(60), <2>1 DEF NewExecutor, Holding
<1>2. TypeOK /\ OwnershipInv /\ TrackedInv /\ [Next]_vars => TrackedInv'
  BY Zenon, NextTracks, NextOwnership, EndedStays, TrackedStep
<1>3. TrackedInv => ExecutingIsTracked
  BY Zenon DEF TrackedInv, Holding, Tracked, ExecutingIsTracked
<1> QED BY <1>1, <1>2, <1>3, Ownership, TypeCorrect, PTL DEF Spec
=============================================================================
