--------------------------- MODULE ConsentProofs ----------------------------
(***************************************************************************)
(* What is staged was approved by every participant with exactly the files *)
(* it carries, for any number of handlers of the management service that   *)
(* overwrite each other's writes, and whatever the scheduler, the          *)
(* executors and the faults do.                                            *)
(***************************************************************************)
EXTENDS TeaclaveProofs

(* The initial records are as create_task and assign_data leave them. *)
InitialOwners ==
  \A t \in Tasks : InitialTasks[t] # NoTask => OwnersTakePart(InitialTasks[t])

(* Two copies that differ at most in status, result and tags. *)
SameFiles(ts, ts2) ==
  /\ ts2.participants = ts.participants
  /\ ts2.approved_users = ts.approved_users
  /\ ts2.inputs_ownership = ts.inputs_ownership
  /\ ts2.outputs_ownership = ts.outputs_ownership
  /\ ts2.assigned_inputs = ts.assigned_inputs
  /\ DOMAIN ts2.assigned_outputs = DOMAIN ts.assigned_outputs
  /\ \A n \in DOMAIN ts.assigned_outputs :
       ts2.assigned_outputs[n].id = ts.assigned_outputs[n].id

LEMMA SameConsent ==
  ASSUME NEW ts, NEW ts2, SameFiles(ts, ts2), NEW t, NEW u
  PROVE  Consent(u, t, ts2) = Consent(u, t, ts)
<1>1. StagedTask(t, ts2) = StagedTask(t, ts)
  <2>1. [n \in DOMAIN ts2.assigned_outputs |-> ts2.assigned_outputs[n].id]
          = [n \in DOMAIN ts.assigned_outputs |-> ts.assigned_outputs[n].id]
    BY Zenon DEF SameFiles
  <2> QED BY Zenon, <2>1 DEF SameFiles, StagedTask
<1> QED BY Zenon, <1>1 DEF Consent

(* A conversion to a tag behind Approve keeps a copy a copy. *)
LEMMA Converted ==
  ASSUME NEW t, NEW ts, NEW ts2, NEW stored, NEW given,
         CopyOf(t, ts, stored, given), SameFiles(ts, ts2),
         ts2.status \notin {"Created", "Approved"}
  PROVE  CopyOf(t, ts2, stored, given)
<1>1. \A u \in ts2.approved_users : Consent(u, t, ts2) \in given
  BY SameConsent DEF CopyOf, SameFiles
<1>2. OwnersTakePart(ts2)
  BY Zenon DEF CopyOf, OwnersTakePart, SameFiles
<1> QED BY Zenon, <1>1, <1>2 DEF CopyOf, SameFiles

(* The conversions of scheduler and management are of this kind. *)
LEMMA Conversions ==
  ASSUME NEW ts \in TaskStates, NEW r \in TaskResult
  PROVE  /\ SameFiles(ts, FromStage(ts)) /\ FromStage(ts).status = "Staged"
         /\ SameFiles(ts, FromRun(ts)) /\ FromRun(ts).status = "Running"
         /\ SameFiles(ts, FromFinish(ts, r)) /\ FromFinish(ts, r).status = "Finished"
         /\ SameFiles(ts, FromFail(ts)) /\ FromFail(ts).status = "Failed"
         /\ SameFiles(ts, FromCancel(ts)) /\ FromCancel(ts).status = "Canceled"
BY Zenon DEF SameFiles, FromStage, FromRun, FromFinish, FromFail, FromCancel, WithStatus,
       TaskStates

LEMMA TagSet ==
  ASSUME NEW ts \in TaskStates, NEW n, TagFree(ts, n), NEW t
  PROVE  /\ SameFiles(ts, update_output_cmac(ts, n, t))
         /\ update_output_cmac(ts, n, t).status = ts.status
<1> DEFINE ao == ts.assigned_outputs
           g == [ao EXCEPT ![n] = [id |-> ao[n].id, cmac |-> t]]
<1>1. ao \in [DOMAIN ao -> AssignedOutput]
  BY Zenon, MapElim DEF TaskStates
<1>2. DOMAIN g = DOMAIN ao /\ \A m \in DOMAIN ao : g[m].id = ao[m].id
  BY Zenon, <1>1
<1>3. update_output_cmac(ts, n, t) = [ts EXCEPT !.assigned_outputs = g]
  BY Zenon DEF update_output_cmac
<1> HIDE DEF g
<1> QED BY Zenon, <1>2, <1>3 DEF SameFiles, TaskStates

(* Copies and staged tasks stay good while the participants stay and       *)
(* consents are only added.                                                *)
LEMMA CopyKept ==
  ASSUME NEW t, NEW ts, NEW stored, NEW stored2, NEW given, NEW given2,
         CopyOf(t, ts, stored, given), given \subseteq given2,
         stored2 # NoTask, stored2.participants = stored.participants
  PROVE  CopyOf(t, ts, stored2, given2)
BY Zenon DEF CopyOf

LEMMA PermittedKept ==
  ASSUME NEW s, NEW participants, NEW given, NEW given2,
         Permitted(s, participants, given), given \subseteq given2
  PROVE  Permitted(s, participants, given2)
BY Zenon DEF Permitted

-----------------------------------------------------------------------------
(* What the management service makes of a copy. *)
LEMMA NewCopy ==
  ASSUME NEW t \in Tasks, NEW u \in Users, NEW f \in Functions,
         NEW inputs \in Map(InputNames, SUBSET Users),
         NEW outputs \in Map(OutputNames, SUBSET Users), NEW given
  PROVE  LET ts == NewTask(u, f, FunctionOf[f], inputs, outputs)
         IN  CopyOf(t, ts, ts, given)
<1> DEFINE ts == NewTask(u, f, FunctionOf[f], inputs, outputs)
<1>1. ts \in TaskStates /\ ts.status = "Created"
  BY Zenon, NewTaskType, FunctionAssumption
<1>2. /\ ts.inputs_ownership = inputs /\ ts.outputs_ownership = outputs
      /\ ts.assigned_inputs = EmptyMap /\ ts.assigned_outputs = EmptyMap
      /\ ts.approved_users = {}
      /\ all_owners(inputs) \subseteq ts.participants
      /\ all_owners(outputs) \subseteq ts.participants
  BY Zenon DEF NewTask
<1>3. DOMAIN EmptyMap = {}
  BY Zenon DEF EmptyMap
<1>4. ts # NoTask
  BY <1>1 DEF NoTask
<1> HIDE DEF ts
<1>5. OwnersTakePart(ts)
  BY Zenon, <1>2, <1>3 DEF OwnersTakePart, all_owners
<1>6. CopyOf(t, ts, ts, given)
  BY Zenon, <1>1, <1>2, <1>4, <1>5 DEF CopyOf
<1> QED BY Zenon, <1>6 DEF ts

LEMMA AssignedCopy ==
  ASSUME TypeOK, NEW c \in ActiveCalls, c.ts.status = "Created", AssignOk(c),
         NEW stored, NEW given, CopyOf(c.task, c.ts, stored, given)
  PROVE  CopyOf(c.task, FromAssign(Assigned(c)), stored, given)
<1> DEFINE ts == c.ts
           ai == c.ts.assigned_inputs
           ao == c.ts.assigned_outputs
           gi == [n \in DOMAIN ai \cup DOMAIN c.inputs |->
                    IF n \in DOMAIN c.inputs THEN c.inputs[n] ELSE ai[n]]
           go == [n \in DOMAIN ao \cup DOMAIN c.outputs |->
                    IF n \in DOMAIN c.outputs
                      THEN [id |-> c.outputs[n], cmac |-> output_cmac[c.outputs[n]]]
                      ELSE ao[n]]
           ts2 == FromAssign(Assigned(c))
<1>1. ts \in TaskStates
  BY Zenon DEF ActiveCalls
<1>2. Assigned(c) = [ts EXCEPT !.assigned_inputs = gi, !.assigned_outputs = go]
  BY Zenon DEF Assigned
<1>3. Assigned(c) \in TaskStates
  BY Zenon, AssignedType
<1>4. /\ \A n \in DOMAIN gi : InputOwner[gi[n]] \subseteq ts.participants
      /\ \A n \in DOMAIN go : OutputOwner[go[n].id] \subseteq ts.participants
  BY ZenonT(60) DEF AssignOk, CanAssign, CopyOf, OwnersTakePart
<1> HIDE DEF gi, go
<1>5. /\ ts2.participants = ts.participants /\ ts2.approved_users = ts.approved_users
      /\ ts2.inputs_ownership = ts.inputs_ownership
      /\ ts2.outputs_ownership = ts.outputs_ownership
      /\ ts2.assigned_inputs = gi /\ ts2.assigned_outputs = go
  BY Zenon, <1>1, <1>2 DEF FromAssign, WithStatus, TaskStates
<1>6. ts2.status \in {"Created", "DataAssigned"}
  BY Zenon, <1>3, FromAssignType
<1>7. ts.approved_users = {} /\ stored # NoTask /\ ts.participants = stored.participants
  BY Zenon DEF CopyOf
<1> HIDE DEF ts2
<1>8. OwnersTakePart(ts2)
  BY Zenon, <1>4, <1>5 DEF OwnersTakePart, CopyOf
<1>9. CopyOf(c.task, ts2, stored, given)
  BY Zenon, <1>5, <1>6, <1>7, <1>8 DEF CopyOf
<1> QED BY Zenon, <1>9 DEF ts2

(* An approval is one for the files of the copy. *)
LEMMA ApprovedCopy ==
  ASSUME NEW t \in Tasks, NEW ts \in TaskStates, NEW u \in Users,
         NEW stored, NEW given, CopyOf(t, ts, stored, given)
  PROVE  CopyOf(t, FromApprove(approve(ts, u)), stored,
                given \cup {Consent(u, t, ts)})
<1> DEFINE ts1 == approve(ts, u)
           ts2 == FromApprove(ts1)
<1>1. ts1 \in TaskStates
  BY Zenon, ApproveType
<1>2. /\ ts2.participants = ts.participants
      /\ ts2.approved_users = ts.approved_users \cup {u}
      /\ ts2.inputs_ownership = ts.inputs_ownership
      /\ ts2.outputs_ownership = ts.outputs_ownership
      /\ ts2.assigned_inputs = ts.assigned_inputs
      /\ ts2.assigned_outputs = ts.assigned_outputs
      /\ ts2.status \in {"DataAssigned", "Approved"}
      /\ ts2.status = "Approved" => everyone_approved(ts1)
  BY Zenon, <1>1 DEF approve, FromApprove, WithStatus, TaskStates
<1>3. ts1.participants = ts2.participants /\ ts1.approved_users = ts2.approved_users
  BY Zenon, <1>1 DEF FromApprove, WithStatus, TaskStates
<1> HIDE DEF ts1, ts2
<1>4. ts2.status = "Approved" => everyone_approved(ts2)
  BY Zenon, <1>2, <1>3 DEF everyone_approved
<1>5. \A v : Consent(v, t, ts2) = Consent(v, t, ts)
  BY Zenon, <1>2 DEF Consent, StagedTask
<1>6. OwnersTakePart(ts2)
  BY Zenon, <1>2 DEF OwnersTakePart, CopyOf
<1>7. CopyOf(t, ts2, stored, given \cup {Consent(u, t, ts)})
  BY Zenon, <1>2, <1>4, <1>5, <1>6 DEF CopyOf
<1> QED BY Zenon, <1>7 DEF ts1, ts2

(* What is staged from an approved copy is permitted. *)
LEMMA StagedCopy ==
  ASSUME NEW t \in Tasks, NEW ts \in TaskStates, NEW stored, NEW given,
         CopyOf(t, ts, stored, given), everyone_approved(ts)
  PROVE  Permitted(StagedTask(t, ts), stored.participants, given)
<1> DEFINE s == StagedTask(t, ts)
<1>1. /\ s.task_id = t /\ s.input_data = ts.assigned_inputs
      /\ DOMAIN s.output_data = DOMAIN ts.assigned_outputs
      /\ \A n \in DOMAIN ts.assigned_outputs :
           s.output_data[n] = ts.assigned_outputs[n].id
  BY Zenon DEF StagedTask
<1>2. \A u : Consent(u, t, ts) = [user |-> u, task |-> s.task_id,
                                  input_data |-> s.input_data,
                                  output_data |-> s.output_data]
  BY Zenon, <1>1 DEF Consent
<1>3. ts.participants \subseteq Users /\ ts.participants = stored.participants
  BY Zenon DEF TaskStates, CopyOf
<1> HIDE DEF s
<1>4. \/ \E u \in Users : stored.participants = {u}
      \/ \A u \in stored.participants : Consent(u, t, ts) \in given
  BY Zenon, <1>3 DEF everyone_approved, CopyOf
<1>5. Permitted(s, stored.participants, given)
  BY Zenon, <1>1, <1>2, <1>3, <1>4 DEF Permitted, CopyOf, OwnersTakePart
<1> QED BY Zenon, <1>5 DEF s

-----------------------------------------------------------------------------
(* What a step may do to a store of copies: replace a record by a copy of  *)
(* it or create one, go on with copies, and put permitted tasks in flight. *)
CopyStored ==
  \/ UNCHANGED task_states
  \/ \E t \in Tasks, ts \in TaskStates :
       /\ PutTask(t, ts)
       /\ \/ Exists(t) /\ CopyOf(t, ts, task_states[t], consents)
          \/ ~ Exists(t) /\ CopyOf(t, ts, ts, consents)

CallsKept ==
  \A h \in Handlers : call'[h] = call[h] \/ CallCopy(call'[h], task_states, consents')

SchedKept ==
  /\ \/ handler' \in {handler, None}
     \/ CopyOf(handler'.task, handler'.ts, task_states[handler'.task], consents)
  /\ \/ daemon' = daemon \/ daemon'.pc # "fail"
     \/ CopyOf(daemon'.task, daemon'.ts, task_states[daemon'.task], consents)

FlightKept ==
  \A s \in InFlight' :
    s \in InFlight \/ (/\ Exists(s.task_id)
                       /\ Permitted(s, task_states[s.task_id].participants, consents))

LEMMA ParticipantsStay ==
  ASSUME TypeOK, ConsentInv, CopyStored
  PROVE  \A t \in Tasks : Exists(t) =>
           /\ task_states'[t] # NoTask
           /\ task_states'[t].participants = task_states[t].participants
<1>1. CASE UNCHANGED task_states
  BY Zenon, <1>1 DEF Exists
<1>2. ASSUME NEW t \in Tasks, NEW ts \in TaskStates, PutTask(t, ts),
             \/ Exists(t) /\ CopyOf(t, ts, task_states[t], consents)
             \/ ~ Exists(t) /\ CopyOf(t, ts, ts, consents)
      PROVE  \A x \in Tasks : Exists(x) =>
               /\ task_states'[x] # NoTask
               /\ task_states'[x].participants = task_states[x].participants
  <2>1. ts # NoTask
    BY DEF TaskStates, TaskStatus, NoTask
  <2>2. Exists(t) => ts.participants = task_states[t].participants
    BY Zenon, <1>2 DEF CopyOf
  <2>3. task_states' = [task_states EXCEPT ![t] = ts]
    BY Zenon, <1>2 DEF PutTask
  <2> QED BY <2>1, <2>2, <2>3 DEF Exists
<1> QED BY Zenon, <1>1, <1>2 DEF CopyStored

LEMMA StepKeeps ==
  ASSUME TypeOK, TypeOK', ConsentInv, consents \subseteq consents',
         CopyStored, CallsKept, SchedKept, FlightKept
  PROVE  ConsentInv'
<1>0. \A t \in Tasks : Exists(t) =>
        /\ task_states'[t] # NoTask
        /\ task_states'[t].participants = task_states[t].participants
  BY Zenon, ParticipantsStay
<1>a. \A t \in Tasks : \A ts :
        CopyOf(t, ts, task_states[t], consents')
          => CopyOf(t, ts, task_states'[t], consents')
  <2> SUFFICES ASSUME NEW t \in Tasks, NEW ts, CopyOf(t, ts, task_states[t], consents')
               PROVE  CopyOf(t, ts, task_states'[t], consents')
    BY Zenon
  <2>1. Exists(t)
    BY Zenon DEF CopyOf, Exists
  <2> QED BY Zenon, <1>0, <2>1, CopyKept
<1>b. \A t \in Tasks : \A ts :
        CopyOf(t, ts, task_states[t], consents)
          => CopyOf(t, ts, task_states'[t], consents')
  <2> SUFFICES ASSUME NEW t \in Tasks, NEW ts, CopyOf(t, ts, task_states[t], consents)
               PROVE  CopyOf(t, ts, task_states'[t], consents')
    BY Zenon
  <2>1. CopyOf(t, ts, task_states[t], consents')
    BY Zenon, CopyKept DEF CopyOf
  <2> QED BY Zenon, <2>1, <1>a
<1>1. ASSUME NEW t \in Tasks, Exists(t)'
      PROVE  CopyOf(t, task_states'[t], task_states'[t], consents')
  <2>1. CASE task_states'[t] = task_states[t]
    <3>1. CopyOf(t, task_states[t], task_states[t], consents)
      BY Zenon, <1>1, <2>1 DEF ConsentInv, Exists
    <3> QED BY Zenon, <1>b, <2>1, <3>1
  <2>2. ASSUME NEW ts \in TaskStates, PutTask(t, ts),
               Exists(t), CopyOf(t, ts, task_states[t], consents)
        PROVE  CopyOf(t, task_states'[t], task_states'[t], consents')
    <3>1. task_states'[t] = ts
      BY Zenon, <2>2 DEF PutTask, TypeOK, StoreTypeOK
    <3> QED BY Zenon, <1>b, <2>2, <3>1
  <2>3. ASSUME NEW ts \in TaskStates, PutTask(t, ts), CopyOf(t, ts, ts, consents)
        PROVE  CopyOf(t, task_states'[t], task_states'[t], consents')
    <3>1. task_states'[t] = ts
      BY Zenon, <2>3 DEF PutTask, TypeOK, StoreTypeOK
    <3>2. CopyOf(t, ts, ts, consents')
      BY Zenon, <2>3, CopyKept DEF CopyOf
    <3> QED BY Zenon, <3>1, <3>2
  <2>4. ASSUME NEW x \in Tasks, NEW ts, PutTask(x, ts), x # t
        PROVE  task_states'[t] = task_states[t]
    BY <2>4 DEF PutTask
  <2> QED BY Zenon, <2>1, <2>2, <2>3, <2>4 DEF CopyStored
<1>2. ASSUME NEW h \in Handlers
      PROVE  CallCopy(call'[h], task_states', consents')
  <2> SUFFICES ASSUME call'[h].pc # "idle"
               PROVE  CallCopy(call'[h], task_states', consents')
    BY Zenon DEF CallCopy
  <2>1. call'[h].task \in Tasks
    BY SMTT(60) DEF TypeOK, MgmtTypeOK, Calls, NoCall, ActiveCalls
  <2>2. CASE CallCopy(call'[h], task_states, consents')
    BY Zenon, <1>a, <2>1, <2>2 DEF CallCopy
  <2>3. CASE CallCopy(call'[h], task_states, consents)
    BY Zenon, <1>b, <2>1, <2>3 DEF CallCopy
  <2>4. CallCopy(call[h], task_states, consents)
    BY Zenon DEF ConsentInv
  <2> QED BY Zenon, <2>2, <2>3, <2>4 DEF CallsKept
<1>3. ASSUME handler' # None
      PROVE  CopyOf(handler'.task, handler'.ts, task_states'[handler'.task], consents')
  <2>1. handler'.task \in Tasks
    BY Zenon, <1>3 DEF TypeOK, SchedTypeOK, SchedHandlers
  <2>2. CopyOf(handler'.task, handler'.ts, task_states[handler'.task], consents)
    BY Zenon, <1>3 DEF SchedKept, ConsentInv
  <2> QED BY Zenon, <1>b, <2>1, <2>2
<1>4. ASSUME daemon'.pc = "fail"
      PROVE  CopyOf(daemon'.task, daemon'.ts, task_states'[daemon'.task], consents')
  <2>1. daemon'.task \in Tasks
    BY Zenon, <1>4 DEF TypeOK, SchedTypeOK, DaemonStates
  <2>2. CopyOf(daemon'.task, daemon'.ts, task_states[daemon'.task], consents)
    BY Zenon, <1>4 DEF SchedKept, ConsentInv
  <2> QED BY Zenon, <1>b, <2>1, <2>2
<1>5. ASSUME NEW s \in InFlight'
      PROVE  /\ task_states'[s.task_id] # NoTask
             /\ Permitted(s, task_states'[s.task_id].participants, consents')
  <2>1. s.task_id \in Tasks
    <3>1. s \in StagedTasks
      BY Zenon, FlightType
    <3> QED BY Zenon, <3>1 DEF StagedTasks
  <2>2. /\ Exists(s.task_id)
        /\ Permitted(s, task_states[s.task_id].participants, consents)
    BY Zenon DEF FlightKept, ConsentInv, StagedWithConsent
  <2>3. task_states'[s.task_id].participants = task_states[s.task_id].participants
    BY Zenon, <1>0, <2>1, <2>2
  <2> QED BY Zenon, <1>0, <2>1, <2>2, <2>3, PermittedKept
<1> QED BY Zenon, <1>1, <1>2, <1>3, <1>4, <1>5 DEF ConsentInv, StagedWithConsent, Exists

-----------------------------------------------------------------------------
Kept ==
  consents \subseteq consents' /\ CopyStored /\ CallsKept /\ SchedKept /\ FlightKept

LEMMA SameFlight ==
  ASSUME UNCHANGED <<staged_queue, task_queue, exec>>
  PROVE  FlightKept
BY Zenon DEF InFlight, FlightKept

(* The record that is stored is a copy of itself. *)
LEMMA StoredCopy ==
  ASSUME ConsentInv, NEW t \in Tasks, Exists(t)
  PROVE  CopyOf(t, task_states[t], task_states[t], consents)
BY Zenon DEF ConsentInv

LEMMA ReturnKeeps ==
  ASSUME TypeOK, NEW h \in Handlers, Return(h)
  PROVE  CallsKept
<1>1. \A g \in Handlers : call'[g] = IF g = h THEN NoCall ELSE call[g]
  BY Zenon DEF Return, TypeOK, MgmtTypeOK
<1> QED BY <1>1 DEF CallsKept, CallCopy, NoCall

LEMMA GotoKeeps ==
  ASSUME TypeOK, NEW h \in Handlers, NEW where, where \notin {"assign", "stage"},
         NEW t, NEW ts, Goto(h, where, t, ts),
         CopyOf(t, ts, task_states[t], consents')
  PROVE  CallsKept
<1> DEFINE c == [NoCall EXCEPT !.pc = where, !.task = t, !.ts = ts]
<1>1. \A g \in Handlers : call'[g] = IF g = h THEN c ELSE call[g]
  BY Zenon DEF Goto, TypeOK, MgmtTypeOK
<1>2. c.pc = where /\ c.task = t /\ c.ts = ts
  BY Zenon DEF NoCall
<1> HIDE DEF c
<1>3. CallCopy(c, task_states, consents')
  BY Zenon, <1>2 DEF CallCopy
<1> QED BY Zenon, <1>1, <1>3 DEF CallsKept

LEMMA RequestKeeps ==
  ASSUME TypeOK, ConsentInv, NEW h \in Handlers, Request(h),
         UNCHANGED <<schedVars, execVars>>
  PROVE  Kept
<1>0. SchedKept
  BY Zenon DEF SchedKept, schedVars
<1>1. ASSUME NEW t \in Tasks, NEW u \in Users, NEW f \in Functions,
             NEW inputs \in Map(InputNames, SUBSET Users),
             NEW outputs \in Map(OutputNames, SUBSET Users),
             create_task(h, t, u, f, inputs, outputs)
      PROVE  Kept
  <2> DEFINE ts == NewTask(u, f, FunctionOf[f], inputs, outputs)
  <2>1. ts \in TaskStates
    BY Zenon, NewTaskType, FunctionAssumption
  <2>2. CopyOf(t, ts, ts, consents)
    BY Zenon, NewCopy
  <2>3. PutTask(t, ts) /\ ~ Exists(t)
    BY Zenon, <1>1 DEF create_task
  <2> HIDE DEF ts
  <2>4. CopyStored
    BY Zenon, <2>1, <2>2, <2>3 DEF CopyStored
  <2>5. UNCHANGED <<call, consents, staged_queue, task_queue, exec>>
    BY Zenon, <1>1 DEF create_task, mgmtVars, histVars, schedVars, execVars
  <2> QED BY Zenon, <1>0, <2>4, <2>5, SameFlight DEF Kept, CallsKept
<1> USE DEF storeVars, histVars
<1>2. ASSUME NEW t \in Tasks, NEW u, NEW inputs, NEW outputs,
             assign_data(h, t, u, inputs, outputs)
      PROVE  Kept
  <2> DEFINE c == [NoCall EXCEPT !.pc = "assign", !.task = t, !.ts = task_states[t],
                                 !.user = u, !.inputs = inputs, !.outputs = outputs]
  <2>1. \A g \in Handlers : call'[g] = IF g = h THEN c ELSE call[g]
    BY Zenon, <1>2 DEF assign_data, TypeOK, MgmtTypeOK
  <2>2. c.pc = "assign" /\ c.task = t /\ c.ts = task_states[t]
    BY Zenon DEF NoCall
  <2>3. CopyOf(t, task_states[t], task_states[t], consents)
    BY Zenon, <1>2, StoredCopy DEF assign_data
  <2>4. task_states[t].status = "Created"
    BY Zenon, <1>2 DEF assign_data, ToAssign
  <2>5. UNCHANGED <<task_states, consents, staged_queue, task_queue, exec>>
    BY Zenon, <1>2 DEF assign_data, schedVars, execVars
  <2> HIDE DEF c
  <2>6. CallsKept
    BY Zenon, <2>1, <2>2, <2>3, <2>4, <2>5 DEF CallsKept, CallCopy
  <2> QED BY Zenon, <1>0, <2>5, <2>6, SameFlight DEF Kept, CopyStored
<1>3. ASSUME NEW t \in Tasks, NEW u \in Users, approve_task(h, t, u)
      PROVE  Kept
  <2>1. task_states[t] \in TaskStates
    BY Zenon, <1>3, ExistsType DEF approve_task
  <2>2. CopyOf(t, task_states[t], task_states[t], consents)
    BY Zenon, <1>3, StoredCopy DEF approve_task
  <2>3. CopyOf(t, FromApprove(approve(task_states[t], u)), task_states[t], consents')
    BY Zenon, <1>3, <2>1, <2>2, ApprovedCopy DEF approve_task
  <2>4. CallsKept
    BY Zenon, <1>3, <2>3, GotoKeeps DEF approve_task
  <2>5. UNCHANGED <<task_states, staged_queue, task_queue, exec>>
    BY Zenon, <1>3 DEF approve_task, schedVars, execVars
  <2>6. consents \subseteq consents'
    BY Zenon, <1>3 DEF approve_task
  <2> QED BY Zenon, <1>0, <2>4, <2>5, <2>6, SameFlight DEF Kept, CopyStored
<1>4. ASSUME NEW t \in Tasks, invoke_task(h, t) \/ cancel_task(h, t)
      PROVE  Kept
  <2>1. UNCHANGED <<task_states, consents, staged_queue, task_queue, exec>>
    BY Zenon, <1>4 DEF invoke_task, cancel_task, schedVars, execVars
  <2>2. Exists(t)
    BY Zenon, <1>4 DEF invoke_task, cancel_task
  <2>3. CopyOf(t, task_states[t], task_states[t], consents)
    BY Zenon, <2>2, StoredCopy
  <2>4. CopyOf(t, FromCancel(task_states[t]), task_states[t], consents)
    <3>1. task_states[t] \in TaskStates
      BY Zenon, <2>2, ExistsType
    <3>2. "Ok" \in TaskResult
      BY Zenon DEF TaskResult
    <3> QED BY Zenon, <2>3, <3>1, <3>2, Conversions, Converted
  <2>5. CallsKept
    <3>1. CASE Goto(h, "usage", t, task_states[t]) \/ Goto(h, "cancel", t, task_states[t])
      BY Zenon, <2>1, <2>3, <3>1, GotoKeeps
    <3>2. CASE Goto(h, "write", t, FromCancel(task_states[t]))
      BY Zenon, <2>1, <2>4, <3>2, GotoKeeps
    <3> QED BY Zenon, <1>4, <3>1, <3>2 DEF invoke_task, cancel_task
  <2> QED BY Zenon, <1>0, <2>1, <2>5, SameFlight DEF Kept, CopyStored
<1> QED BY Zenon, <1>1, <1>2, <1>3, <1>4 DEF Request

(* The steps of a handler write its copy, or stage it once it is approved. *)
LEMMA HandlerKeeps ==
  ASSUME TypeOK, ConsentInv, NEW h \in Handlers, HandlerStep(h) \/ Abandon(h),
         UNCHANGED <<schedVars, execVars>>
  PROVE  Kept
<1> DEFINE c == call[h]
<1> USE DEF storeVars, histVars
<1>1. c.pc # "idle"
  BY Zenon DEF HandlerStep, Abandon, assign_data_files, write_to_db, invoke_task_usage,
         invoke_task_enqueue, invoke_task_write, invoke_task_count, cancel_task_enqueue
<1>2. c \in ActiveCalls /\ c.task \in Tasks /\ c.ts \in TaskStates
  BY Zenon, <1>1, ActiveCallType DEF ActiveCalls
<1>3. CallCopy(c, task_states, consents)
  BY Zenon DEF ConsentInv
<1>4. CopyOf(c.task, c.ts, task_states[c.task], consents) /\ Exists(c.task)
  BY Zenon, <1>1, <1>3 DEF CallCopy, CopyOf, Exists
<1>5. /\ SchedKept
      /\ UNCHANGED <<task_queue, exec>>
  BY Zenon DEF SchedKept, schedVars, execVars
<1>6. UNCHANGED consents
  BY Zenon DEF HandlerStep, Abandon, assign_data_files, write_to_db, invoke_task_usage,
         invoke_task_enqueue, invoke_task_write, invoke_task_count, cancel_task_enqueue
<1>7. CASE assign_data_files(h)
  <2>1. UNCHANGED <<task_states, staged_queue>>
    BY Zenon, <1>7 DEF assign_data_files
  <2>2. c.ts.status = "Created"
    BY Zenon, <1>1, <1>3, <1>7 DEF assign_data_files, CallCopy
  <2>3. CASE AssignOk(c) /\ Goto(h, "write", c.task, FromAssign(Assigned(c)))
    <3>1. CopyOf(c.task, FromAssign(Assigned(c)), task_states[c.task], consents')
      BY Zenon, <1>2, <1>4, <1>6, <2>2, <2>3, AssignedCopy
    <3>2. CallsKept
      BY Zenon, <2>3, <3>1, GotoKeeps
    <3> QED BY Zenon, <1>5, <1>6, <2>1, <3>2, SameFlight DEF Kept, CopyStored
  <2>4. CASE Return(h)
    BY Zenon, <1>5, <1>6, <2>1, <2>4, ReturnKeeps, SameFlight DEF Kept, CopyStored
  <2> QED BY Zenon, <1>7, <2>3, <2>4 DEF assign_data_files
<1>8. CASE write_to_db(h)
  <2>1. CopyStored
    BY Zenon, <1>2, <1>4, <1>8 DEF write_to_db, CopyStored
  <2>2. Return(h) /\ UNCHANGED staged_queue
    BY Zenon, <1>8 DEF write_to_db
  <2> QED BY Zenon, <1>5, <1>6, <2>1, <2>2, ReturnKeeps, SameFlight DEF Kept
<1>9. CASE invoke_task_usage(h)
  <2>1. UNCHANGED <<task_states, staged_queue>>
    BY Zenon, <1>9 DEF invoke_task_usage
  <2>2. ASSUME NEW uses, ToStage(c.ts),
               call' = [call EXCEPT ![h] = [c EXCEPT !.pc = "stage", !.uses = uses]]
        PROVE  CallsKept
    <3> DEFINE c2 == [c EXCEPT !.pc = "stage", !.uses = uses]
    <3>1. \A g \in Handlers : call'[g] = IF g = h THEN c2 ELSE call[g]
      BY Zenon, <2>2 DEF TypeOK, MgmtTypeOK
    <3>2. c2.pc = "stage" /\ c2.task = c.task /\ c2.ts = c.ts
      BY Zenon, <1>2 DEF ActiveCalls
    <3>3. everyone_approved(c.ts)
      BY Zenon, <1>4, <2>2 DEF ToStage, CopyOf
    <3> HIDE DEF c2
    <3>4. CallCopy(c2, task_states, consents')
      BY Zenon, <1>4, <1>6, <3>2, <3>3 DEF CallCopy
    <3> QED BY Zenon, <3>1, <3>4 DEF CallsKept
  <2>3. CallsKept
    BY Zenon, <1>9, <2>2, ReturnKeeps DEF invoke_task_usage
  <2> QED BY Zenon, <1>5, <1>6, <2>1, <2>3, SameFlight DEF Kept, CopyStored
<1>10. ASSUME NEW where \in {"staged", "count"},
              call' = [call EXCEPT ![h] = [c EXCEPT !.pc = where]]
       PROVE  CallsKept
  <2> DEFINE c2 == [c EXCEPT !.pc = where]
  <2>1. \A g \in Handlers : call'[g] = IF g = h THEN c2 ELSE call[g]
    BY Zenon, <1>10 DEF TypeOK, MgmtTypeOK
  <2>2. c2.pc = where /\ c2.task = c.task /\ c2.ts = c.ts
    BY Zenon, <1>2 DEF ActiveCalls
  <2> HIDE DEF c2
  <2>3. CallCopy(c2, task_states, consents')
    BY Zenon, <1>4, <1>6, <1>10, <2>2 DEF CallCopy
  <2> QED BY Zenon, <2>1, <2>3 DEF CallsKept
<1>11. CASE invoke_task_enqueue(h)
  <2> DEFINE s == StagedTask(c.task, c.ts)
  <2>1. c.pc = "stage" /\ staged_queue' = Append(staged_queue, s)
    BY Zenon, <1>11 DEF invoke_task_enqueue
  <2>2. Permitted(s, task_states[c.task].participants, consents)
    BY Zenon, <1>1, <1>2, <1>3, <1>4, <2>1, StagedCopy DEF CallCopy
  <2>3. s \in StagedTasks /\ s.task_id = c.task
    BY Zenon, <1>2, StagedTaskType DEF StagedTask
  <2> HIDE DEF s
  <2>4. \A i \in DOMAIN staged_queue' :
          staged_queue'[i] = s
            \/ \E j \in DOMAIN staged_queue : staged_queue'[i] = staged_queue[j]
    BY SMTT(60), <2>1, <2>3, QueueElements DEF TypeOK, StoreTypeOK
  <2>5. InFlight' \subseteq InFlight \cup {s}
    BY Zenon, <1>5, <2>4 DEF InFlight
  <2>6. FlightKept
    BY Zenon, <1>4, <2>2, <2>3, <2>5 DEF FlightKept
  <2>7. CallsKept
    <3>1. call' = [call EXCEPT ![h] = [c EXCEPT !.pc = "staged"]]
      BY Zenon, <1>11 DEF invoke_task_enqueue
    <3> QED BY Zenon, <1>10, <3>1
  <2>8. UNCHANGED task_states
    BY Zenon, <1>11 DEF invoke_task_enqueue
  <2> QED BY Zenon, <1>5, <1>6, <2>6, <2>7, <2>8 DEF Kept, CopyStored
<1>12. CASE invoke_task_write(h)
  <2>1. FromStage(c.ts) \in TaskStates
    BY Zenon, <1>2, FromStageType
  <2>2. CopyOf(c.task, FromStage(c.ts), task_states[c.task], consents)
    <3>1. "Ok" \in TaskResult
      BY Zenon DEF TaskResult
    <3> QED BY Zenon, <1>2, <1>4, <3>1, Conversions, Converted
  <2>3. CopyStored
    BY Zenon, <1>2, <1>4, <1>12, <2>1, <2>2 DEF invoke_task_write, CopyStored
  <2>4. CallsKept /\ UNCHANGED staged_queue
    <3>1. /\ call' = [call EXCEPT ![h] = [c EXCEPT !.pc = "count"]]
          /\ UNCHANGED staged_queue
      BY Zenon, <1>12 DEF invoke_task_write
    <3> QED BY Zenon, <1>10, <3>1
  <2> QED BY Zenon, <1>5, <1>6, <2>3, <2>4, SameFlight DEF Kept
<1>13. CASE invoke_task_count(h) \/ cancel_task_enqueue(h) \/ Abandon(h)
  <2>1. Return(h) /\ UNCHANGED <<task_states, staged_queue>>
    BY Zenon, <1>13 DEF invoke_task_count, cancel_task_enqueue, Abandon
  <2> QED BY Zenon, <1>5, <1>6, <2>1, ReturnKeeps, SameFlight DEF Kept, CopyStored
<1> QED BY Zenon, <1>7, <1>8, <1>9, <1>11, <1>12, <1>13 DEF HandlerStep

-----------------------------------------------------------------------------
LEMMA FlightMoves ==
  ASSUME TypeOK,
         \/ UNCHANGED staged_queue
         \/ staged_queue # << >> /\ staged_queue' = Tail(staged_queue),
         \/ UNCHANGED task_queue
         \/ task_queue' = << >>
         \/ task_queue # << >> /\ task_queue' = Tail(task_queue)
         \/ staged_queue # << >> /\ task_queue' = Append(task_queue, Head(staged_queue)),
         \A e \in Executors :
           \/ exec'[e].current_task \in {None, exec[e].current_task}
           \/ task_queue # << >> /\ exec'[e].current_task = Head(task_queue)
  PROVE  FlightKept
BY Zenon, FlightShrinks DEF FlightKept

LEMMA QuietCalls ==
  ASSUME UNCHANGED mgmtVars
  PROVE  CallsKept /\ consents \subseteq consents'
BY Zenon DEF mgmtVars, histVars, CallsKept

(* A record that the scheduler reads and converts is a copy of it. *)
LEMMA ReadCopy ==
  ASSUME TypeOK, ConsentInv, NEW t \in Tasks, NEW r \in TaskResult
  PROVE  /\ ToCancel(task_states[t]) =>
              CopyOf(t, FromCancel(task_states[t]), task_states[t], consents)
         /\ ToRun(task_states[t]) =>
              CopyOf(t, FromRun(task_states[t]), task_states[t], consents)
         /\ ToFinish(task_states[t]) =>
              CopyOf(t, FromFinish(task_states[t], r), task_states[t], consents)
         /\ ToFail(task_states[t]) =>
              CopyOf(t, FromFail(task_states[t]), task_states[t], consents)
<1> SUFFICES ASSUME \/ ToCancel(task_states[t]) \/ ToRun(task_states[t])
                    \/ ToFinish(task_states[t]) \/ ToFail(task_states[t])
             PROVE  /\ CopyOf(t, FromCancel(task_states[t]), task_states[t], consents)
                    /\ CopyOf(t, FromRun(task_states[t]), task_states[t], consents)
                    /\ CopyOf(t, FromFinish(task_states[t], r), task_states[t], consents)
                    /\ CopyOf(t, FromFail(task_states[t]), task_states[t], consents)
  BY Zenon
<1>1. task_states[t] \in TaskStates
  BY Zenon, ConvertibleType
<1>2. Exists(t)
  BY <1>1 DEF Exists, TaskStates, TaskStatus, NoTask
<1>3. CopyOf(t, task_states[t], task_states[t], consents)
  BY Zenon, <1>2, StoredCopy
<1> QED BY Zenon, <1>1, <1>3, Conversions, Converted

(* The daemon stores its copy of the task of a lost executor. *)
LEMMA DaemonPutKeeps ==
  ASSUME TypeOK, ConsentInv, daemon.pc = "fail", PutTask(daemon.task, daemon.ts)
  PROVE  CopyStored
<1>1. daemon.task \in Tasks /\ daemon.ts \in TaskStates
  BY Zenon DEF TypeOK, SchedTypeOK, DaemonStates
<1>2. CopyOf(daemon.task, daemon.ts, task_states[daemon.task], consents)
  BY Zenon DEF ConsentInv
<1> QED BY Zenon, <1>1, <1>2 DEF CopyStored, CopyOf, Exists

LEMMA DaemonKeeps ==
  ASSUME TypeOK, ConsentInv, UNCHANGED <<mgmtVars, execVars>>,
         \/ DaemonStep \/ daemon_storage_error
         \/ \E e \in Executors : daemon_expire(e)
  PROVE  Kept
<1> USE DEF storeVars
<1>0. UNCHANGED <<handler, exec>>
  BY Zenon DEF execVars, DaemonStep, daemon_storage_error, daemon_expire, daemon_lock,
         pull_cancel_queue, pull_staged_task, daemon_get, daemon_put, daemon_sleep
<1>1. \/ UNCHANGED staged_queue
      \/ staged_queue # << >> /\ staged_queue' = Tail(staged_queue)
  BY Zenon DEF DaemonStep, daemon_storage_error, daemon_expire, daemon_lock,
         pull_cancel_queue, pull_staged_task, daemon_get, daemon_put, daemon_sleep
<1>2. \/ UNCHANGED task_queue
      \/ staged_queue # << >> /\ task_queue' = Append(task_queue, Head(staged_queue))
  BY Zenon DEF DaemonStep, daemon_storage_error, daemon_expire, daemon_lock,
         pull_cancel_queue, pull_staged_task, daemon_get, daemon_put, daemon_sleep
<1>3. FlightKept
  BY Zenon, <1>0, <1>1, <1>2, FlightMoves
<1>4. CopyStored
  <2>1. CASE UNCHANGED task_states
    BY Zenon, <2>1 DEF CopyStored
  <2>2. CASE daemon.pc = "fail" /\ PutTask(daemon.task, daemon.ts)
    BY Zenon, <2>2, DaemonPutKeeps
  <2> QED BY Zenon, <2>1, <2>2
        DEF DaemonStep, daemon_storage_error, daemon_expire, daemon_lock,
            pull_cancel_queue, pull_staged_task, daemon_get, daemon_put, daemon_sleep
<1>5. \/ daemon' = daemon \/ daemon'.pc # "fail"
      \/ CopyOf(daemon'.task, daemon'.ts, task_states[daemon'.task], consents)
  <2>1. CASE daemon_get
    <3>1. daemon.task \in Tasks /\ daemon \in [pc : {"lost"}, task : Tasks, ts : {None}]
      BY Zenon, <2>1 DEF daemon_get, TypeOK, SchedTypeOK, DaemonStates
    <3>2. CASE /\ ToFail(task_states[daemon.task])
               /\ daemon' = [daemon EXCEPT !.pc = "fail",
                                           !.ts = FromFail(task_states[daemon.task])]
      <4>1. /\ daemon'.task = daemon.task
            /\ daemon'.ts = FromFail(task_states[daemon.task])
        BY Zenon, <3>1, <3>2
      <4>2. "Ok" \in TaskResult
        BY Zenon DEF TaskResult
      <4> QED BY Zenon, <3>1, <3>2, <4>1, <4>2, ReadCopy
    <3>3. CASE DaemonAt("expire") \/ DaemonAt("dead")
      BY <3>3 DEF DaemonAt
    <3> QED BY Zenon, <2>1, <3>2, <3>3 DEF daemon_get
  <2>2. ASSUME NEW e \in Executors, daemon_expire(e)
        PROVE  daemon' = daemon \/ daemon'.pc # "fail"
    <3>1. daemon \in [pc : {"expire"}, task : {None}, ts : {None}]
      BY Zenon, <2>2 DEF daemon_expire, TypeOK, SchedTypeOK, DaemonStates
    <3> QED BY Zenon, <2>2, <3>1 DEF daemon_expire
  <2>3. CASE daemon_storage_error \/ (DaemonStep /\ ~ daemon_get)
    <3>1. \/ UNCHANGED daemon
          \/ \E where \in {"cancel", "staged", "expire", "sleep", "dead"} : DaemonAt(where)
      BY Zenon, <2>3 DEF DaemonStep, daemon_storage_error, daemon_lock,
           pull_cancel_queue, pull_staged_task, daemon_put, daemon_sleep
    <3> QED BY <3>1 DEF DaemonAt
  <2> QED BY Zenon, <2>1, <2>2, <2>3
<1>6. SchedKept
  BY Zenon, <1>0, <1>5 DEF SchedKept
<1> QED BY Zenon, <1>3, <1>4, <1>6, QuietCalls DEF Kept

-----------------------------------------------------------------------------
(* What an RPC of an executor does to the scheduler and to the store. *)
RpcKept ==
  /\ CopyStored /\ SchedKept /\ UNCHANGED staged_queue
  /\ \/ UNCHANGED task_queue
     \/ task_queue # << >> /\ task_queue' = Tail(task_queue)

LEMMA QuietRpc ==
  ASSUME UNCHANGED <<task_states, staged_queue, task_queue, handler, daemon>>
  PROVE  RpcKept
BY Zenon DEF RpcKept, CopyStored, SchedKept

LEMMA CancelReadKeeps ==
  ASSUME TypeOK, ConsentInv, NEW e, NEW t \in Tasks, NEW ok, cancel_task_get(e, t, ok),
         UNCHANGED daemon
  PROVE  SchedKept
<1>1. "Ok" \in TaskResult
  BY Zenon DEF TaskResult
<1>2. ToCancel(task_states[t]) =>
        CopyOf(t, FromCancel(task_states[t]), task_states[t], consents)
  BY Zenon, <1>1, ReadCopy
<1> QED BY SMTT(60), <1>2 DEF cancel_task_get, SchedKept

LEMMA HeartbeatKeeps ==
  ASSUME TypeOK, ConsentInv, NEW e \in Executors, NEW status, NEW ok,
         sched_heartbeat(e, status) \/ sched_heartbeat_stop(e, status, ok)
  PROVE  RpcKept
<1>1. CASE sched_heartbeat(e, status)
  BY Zenon, <1>1, QuietRpc DEF sched_heartbeat, storeVars
<1>2. CASE sched_heartbeat_stop(e, status, ok)
  <2>1. executors_tasks[e] \in Tasks
    BY Zenon, <1>2 DEF sched_heartbeat_stop, StopRequested, TypeOK, SchedTypeOK
  <2>2. SchedKept
    BY Zenon, <1>2, <2>1, CancelReadKeeps DEF sched_heartbeat_stop
  <2> QED BY Zenon, <1>2, <2>2 DEF sched_heartbeat_stop, RpcKept, CopyStored, storeVars
<1> QED BY Zenon, <1>1, <1>2

LEMMA PullKeeps ==
  ASSUME TypeOK, ConsentInv, NEW e \in Executors, NEW ok,
         sched_pull_task(e) \/ sched_pull_canceled(e, ok)
  PROVE  RpcKept
<1>1. CASE sched_pull_task(e)
  BY Zenon, <1>1 DEF sched_pull_task, RpcKept, CopyStored, SchedKept, storeVars
<1>2. CASE sched_pull_canceled(e, ok)
  <2>1. Head(task_queue).task_id \in Tasks
    BY Zenon, <1>2, HeadTailType
       DEF sched_pull_canceled, TypeOK, SchedTypeOK, StagedTasks
  <2>2. SchedKept
    BY Zenon, <1>2, <2>1, CancelReadKeeps DEF sched_pull_canceled
  <2> QED BY Zenon, <1>2, <2>2 DEF sched_pull_canceled, RpcKept, CopyStored, storeVars
<1> QED BY Zenon, <1>1, <1>2

LEMMA UpdateKeeps ==
  ASSUME TypeOK, ConsentInv, NEW e \in Executors, NEW t \in Tasks, NEW ok,
         NEW r \in TaskResult, NEW tags,
         sched_status_get(e, t, ok) \/ sched_result_get(e, t, r, tags, ok)
  PROVE  RpcKept
<1>1. /\ ToRun(task_states[t]) =>
           CopyOf(t, FromRun(task_states[t]), task_states[t], consents)
      /\ ToFinish(task_states[t]) =>
           CopyOf(t, FromFinish(task_states[t], r), task_states[t], consents)
  BY Zenon, ReadCopy
<1>2. SchedKept
  BY SMTT(60), <1>1 DEF sched_status_get, sched_result_get, SchedKept
<1> QED BY Zenon, <1>2
      DEF sched_status_get, sched_result_get, RpcKept, CopyStored, storeVars

(* A tag is set in the copy of the handler. *)
LEMMA OutputKeeps ==
  ASSUME TypeOK, ConsentInv, NEW n, NEW ok, sched_result_put_output(n, ok)
  PROVE  RpcKept
<1> DEFINE ts == handler.ts
           ts2 == update_output_cmac(handler.ts, n, handler.task)
<1>1. handler # None
  BY Zenon DEF sched_result_put_output
<1>2. handler \in SchedHandlers /\ handler.task \in Tasks /\ ts \in TaskStates
  BY Zenon, <1>1, HandlerType
<1>3. CopyOf(handler.task, ts, task_states[handler.task], consents)
  BY Zenon, <1>1 DEF ConsentInv
<1>4. TagFree(ts, n) => SameFiles(ts, ts2) /\ ts2.status = ts.status
  BY Zenon, <1>2, TagSet
<1>5. TagFree(ts, n) => CopyOf(handler.task, ts2, task_states[handler.task], consents)
  <2> SUFFICES ASSUME TagFree(ts, n)
               PROVE  CopyOf(handler.task, ts2, task_states[handler.task], consents)
    BY Zenon
  <2> HIDE DEF ts, ts2
  <2>0. \A u : Consent(u, handler.task, ts2) = Consent(u, handler.task, ts)
    BY <1>4, SameConsent
  <2>1. \A u \in ts2.approved_users : Consent(u, handler.task, ts2) \in consents
    BY Zenon, <1>3, <1>4, <2>0 DEF CopyOf, SameFiles
  <2>2. OwnersTakePart(ts2)
    BY Zenon, <1>3, <1>4 DEF CopyOf, OwnersTakePart, SameFiles
  <2>3. everyone_approved(ts) => everyone_approved(ts2)
    BY Zenon, <1>4 DEF everyone_approved, SameFiles
  <2> QED BY Zenon, <1>3, <1>4, <2>1, <2>2, <2>3 DEF CopyOf, SameFiles
<1>6. \/ handler' = None
      \/ /\ TagFree(ts, n)
         /\ handler' = [handler EXCEPT !.todo = handler.todo \ {n}, !.ts = ts2]
  BY Zenon DEF sched_result_put_output
<1>7. \/ handler' = None
      \/ handler'.task = handler.task /\ handler'.ts = ts2 /\ TagFree(ts, n)
  BY Zenon, <1>2, <1>6 DEF SchedHandlers
<1> HIDE DEF ts, ts2
<1>8. SchedKept
  BY Zenon, <1>5, <1>7 DEF SchedKept, sched_result_put_output
<1> QED BY Zenon, <1>8 DEF sched_result_put_output, RpcKept, CopyStored

LEMMA PutKeeps ==
  ASSUME TypeOK, ConsentInv, NEW op, sched_put(op)
  PROVE  RpcKept
<1>1. handler # None
  BY Zenon DEF sched_put
<1>2. handler.task \in Tasks /\ handler.ts \in TaskStates
  BY Zenon, <1>1, HandlerType
<1>3. CopyOf(handler.task, handler.ts, task_states[handler.task], consents)
  BY Zenon, <1>1 DEF ConsentInv
<1>4. CopyStored
  BY Zenon, <1>2, <1>3 DEF sched_put, CopyStored, CopyOf, Exists
<1> QED BY Zenon, <1>4 DEF sched_put, RpcKept, SchedKept

LEMMA RpcStep ==
  ASSUME TypeOK, NEW e \in Executors, ExecMove(e), RpcKept, UNCHANGED mgmtVars
  PROVE  Kept
<1>1. FlightKept
  BY Zenon, ExecMoveKeeps, FlightMoves DEF RpcKept
<1> QED BY Zenon, <1>1, QuietCalls DEF Kept, RpcKept

LEMMA ExecutorKeeps ==
  ASSUME TypeOK, ConsentInv, NEW e \in Executors, UNCHANGED mgmtVars,
         ExecutorStep(e) \/ \E r \in {"Ok", "Err"} : invoke_task_done(e, r)
  PROVE  Kept
<1>1. CASE heartbeat(e)
  <2>1. ExecMove(e)
    BY Zenon, <1>1 DEF heartbeat, ExecMove
  <2>2. RpcKept
    BY Zenon, <1>1, HeartbeatKeeps DEF heartbeat
  <2> QED BY Zenon, <2>1, <2>2, RpcStep
<1>2. CASE heartbeat_stop(e) \/ pull_task_canceled(e) \/ update_task_status_done(e)
             \/ update_task_result_done(e)
  <2>1. ExecMove(e)
    BY Zenon, <1>2 DEF heartbeat_stop, pull_task_canceled, update_task_status_done,
                update_task_result_done, ExecMove
  <2>2. RpcKept
    BY Zenon, <1>2, PutKeeps DEF heartbeat_stop, pull_task_canceled, update_task_status_done,
                          update_task_result_done
  <2> QED BY Zenon, <2>1, <2>2, RpcStep
<1>3. CASE pull_task(e)
  <2>1. CASE /\ sched_pull_task(e)
             /\ exec' = [exec EXCEPT ![e].pc = "status", ![e].status = "Executing",
                                     ![e].current_task = Head(task_queue)]
    <3>1. RpcKept /\ task_queue # << >>
      BY Zenon, <2>1, PullKeeps DEF sched_pull_task
    <3>2. exec[e] \in ExecutorStates /\ DOMAIN exec = Executors
      BY Zenon DEF TypeOK, ExecTypeOK
    <3>3. "current_task" \in DOMAIN exec[e]
      BY Zenon, <3>2 DEF ExecutorStates, IdleExecutors, BusyExecutors
    <3>4. \A x \in Executors : exec'[x].current_task =
            IF x = e THEN Head(task_queue) ELSE exec[x].current_task
      BY Zenon, <2>1, <3>2, <3>3
    <3>5. FlightKept
      BY Zenon, <3>1, <3>4, FlightMoves DEF RpcKept
    <3> QED BY Zenon, <3>1, <3>5, QuietCalls DEF Kept, RpcKept
  <2>2. CASE \/ sched_pull_canceled(e, TRUE) /\ UNCHANGED exec
             \/ sched_pull_canceled(e, FALSE) /\ ExecAt(e, "recv")
    <3>1. ExecMove(e)
      BY Zenon, <2>2 DEF ExecMove
    <3> QED BY Zenon, <2>2, <3>1, PullKeeps, RpcStep
  <2>3. CASE ExecAt(e, "recv") /\ UNCHANGED <<storeVars, schedVars>>
    <3>1. ExecMove(e)
      BY Zenon, <2>3 DEF ExecMove
    <3>2. RpcKept
      BY Zenon, <2>3, QuietRpc DEF storeVars, schedVars
    <3> QED BY Zenon, <3>1, <3>2, RpcStep
  <2> QED BY Zenon, <1>3, <2>1, <2>2, <2>3 DEF pull_task
<1>4. CASE update_task_status(e)
  <2>1. ExecMove(e)
    BY Zenon, <1>4 DEF update_task_status, ExecMove
  <2>2. RpcKept
    <3>1. exec[e].current_task.task_id \in Tasks /\ "Ok" \in TaskResult
      BY Zenon, <1>4, CurrentTask DEF update_task_status, TaskResult
    <3> QED BY Zenon, <1>4, <3>1, UpdateKeeps DEF update_task_status
  <2> QED BY Zenon, <2>1, <2>2, RpcStep
<1>5. CASE update_task_result(e)
  <2>1. ExecMove(e)
    BY Zenon, <1>5 DEF update_task_result, ExecMove
  <2>2. RpcKept
    <3>1. exec[e].current_task.task_id \in Tasks /\ exec[e].worker \in TaskResult
      BY Zenon, <1>5, CurrentTask DEF update_task_result
    <3> QED BY Zenon, <1>5, <3>1, UpdateKeeps DEF update_task_result
  <2> QED BY Zenon, <2>1, <2>2, RpcStep
<1>6. ASSUME NEW n \in OutputNames, update_task_result_output(e, n)
      PROVE  Kept
  <2>1. ExecMove(e)
    BY Zenon, <1>6 DEF update_task_result_output, ExecMove
  <2>2. RpcKept
    BY Zenon, <1>6, OutputKeeps DEF update_task_result_output
  <2> QED BY Zenon, <2>1, <2>2, RpcStep
<1>7. ASSUME NEW r, try_recv(e) \/ invoke_task_done(e, r)
      PROVE  Kept
  <2>1. ExecMove(e)
    BY Zenon, <1>7 DEF try_recv, invoke_task_done, ExecMove
  <2>2. RpcKept
    BY Zenon, <1>7, QuietRpc DEF try_recv, invoke_task_done, storeVars, schedVars
  <2> QED BY Zenon, <2>1, <2>2, RpcStep
<1> QED BY Zenon, <1>1, <1>2, <1>3, <1>4, <1>5, <1>6, <1>7 DEF ExecutorStep

LEMMA ExecutorFaultKeeps ==
  ASSUME TypeOK, ConsentInv, NEW e \in Executors, UNCHANGED mgmtVars,
         \/ crash(e) \/ crash_in_rpc(e) \/ rpc_lost(e) \/ worker_lost(e)
         \/ handler_storage_error(e)
  PROVE  Kept
<1>1. ExecMove(e)
  BY Zenon DEF crash, crash_in_rpc, rpc_lost, worker_lost, handler_storage_error, ExecMove
<1>2. RpcKept
  <2>1. CASE UNCHANGED <<storeVars, schedVars>>
    BY Zenon, <2>1, QuietRpc DEF storeVars, schedVars
  <2>2. CASE sched_storage_error
    BY Zenon, <2>2 DEF sched_storage_error, RpcKept, CopyStored, SchedKept, storeVars
  <2>3. CASE rpc_lost(e)
    BY Zenon, <2>1, <2>3, PullKeeps, PutKeeps DEF rpc_lost
  <2> QED BY Zenon, <2>1, <2>2, <2>3 DEF crash, crash_in_rpc, worker_lost, handler_storage_error
<1> QED BY Zenon, <1>1, <1>2, RpcStep

LEMMA RestartKeeps ==
  ASSUME TypeOK, ConsentInv, UNCHANGED mgmtVars, scheduler_restart
  PROVE  Kept
<1>1. \A x \in Executors : exec'[x].current_task \in {None, exec[x].current_task}
  <2>1. CASE handler = None
    BY Zenon, <2>1 DEF scheduler_restart
  <2>2. CASE handler # None
    <3>1. handler.by \in Executors
      BY Zenon, <2>2, HandlerType DEF SchedHandlers
    <3>2. ExecMove(handler.by)
      BY Zenon, <2>2 DEF scheduler_restart, ExecMove
    <3> QED BY Zenon, <3>1, <3>2, ExecMoveKeeps
  <2> QED BY Zenon, <2>1, <2>2
<1>2. FlightKept
  BY Zenon, <1>1, FlightMoves DEF scheduler_restart, sched_restart, storeVars
<1>3. SchedKept
  BY Zenon DEF scheduler_restart, sched_restart, SchedKept
<1>4. CopyStored
  BY Zenon DEF scheduler_restart, sched_restart, CopyStored, storeVars
<1> QED BY Zenon, <1>2, <1>3, <1>4, QuietCalls DEF Kept

-----------------------------------------------------------------------------
LEMMA InitConsent == InitialOwners /\ Init => ConsentInv
<1> SUFFICES ASSUME InitialOwners, Init PROVE ConsentInv
  BY Zenon
<1>1. ASSUME NEW t \in Tasks, Exists(t)
      PROVE  CopyOf(t, task_states[t], task_states[t], consents)
  <2> DEFINE ts == InitialTasks[t]
  <2>1. task_states[t] = ts /\ ts # NoTask
    BY Zenon, <1>1 DEF Init, Exists
  <2>2. Prepared(ts) /\ OwnersTakePart(ts)
    BY Zenon, <2>1, InitialAssumption DEF InitialOwners
  <2>3. \A u \in ts.approved_users : Consent(u, t, ts) \in consents
    BY <2>1 DEF Init
  <2> HIDE DEF ts
  <2> QED BY Zenon, <2>1, <2>2, <2>3 DEF CopyOf, Prepared
<1>2. \A h \in Handlers : call[h].pc = "idle"
  BY Zenon DEF Init, NoCall
<1>3. handler = None /\ daemon.pc # "fail"
  BY Zenon DEF Init, SchedInit
<1>4. InFlight = {}
  BY SMTT(60) DEF Init, SchedInit, ExecInit, NewExecutor, InFlight
<1> QED BY Zenon, <1>1, <1>2, <1>3, <1>4 DEF ConsentInv, CallCopy, StagedWithConsent

LEMMA NextKeeps == TypeOK /\ ConsentInv /\ [Next]_vars => ConsentInv'
<1> SUFFICES ASSUME TypeOK, ConsentInv, [Next]_vars PROVE ConsentInv'
  BY Zenon
<1>1. ASSUME NEW h \in Handlers, ManagementNext(h) PROVE Kept
  BY Zenon, <1>1, RequestKeeps, HandlerKeeps DEF ManagementNext
<1>2. ASSUME DaemonNext PROVE Kept
  BY Zenon, <1>2, DaemonKeeps DEF DaemonNext, ExpireExited
<1>3. ASSUME NEW e \in Executors, ExecutorNext(e) PROVE Kept
  BY Zenon, <1>3, ExecutorKeeps DEF ExecutorNext
<1>4. ASSUME FaultNext PROVE Kept
  BY Zenon, <1>4, HandlerKeeps, ExecutorFaultKeeps, DaemonKeeps, RestartKeeps
     DEF FaultNext, ExpireLive
<1>5. ASSUME UNCHANGED vars PROVE Kept
  <2>1. UNCHANGED <<task_states, staged_queue, task_queue, exec, handler, daemon>>
    BY Zenon, <1>5 DEF vars, storeVars, schedVars, execVars
  <2>2. UNCHANGED mgmtVars
    BY Zenon, <1>5 DEF vars
  <2>3. RpcKept /\ FlightKept
    BY Zenon, <2>1, QuietRpc, SameFlight
  <2> QED BY Zenon, <2>2, <2>3, QuietCalls DEF Kept, RpcKept
<1>6. Kept
  BY Zenon, <1>1, <1>2, <1>3, <1>4, <1>5 DEF Next
<1>7. TypeOK'
  BY Zenon, NextTypes
<1> QED BY Zenon, <1>6, <1>7, StepKeeps DEF Kept

(* Whatever a handler of the management service or the scheduler is about  *)
(* to write back names the participants of the stored record and approvals *)
(* of its own files only, with any number of handlers that overwrite each  *)
(* other (management service.rs holds no lock between its read and its     *)
(* write).                                                                 *)
THEOREM CopiesKeepConsent == InitialOwners => (Spec => []ConsentInv)
<1> SUFFICES ASSUME InitialOwners PROVE Spec => []ConsentInv
  BY Zenon
<1>1. Init => ConsentInv
  BY Zenon, InitConsent
<1> QED BY <1>1, NextKeeps, TypeCorrect, PTL DEF Spec

(* A task reaches the queues and the executors only with the files that    *)
(* every participant approved, among them all owners of these files:       *)
(* approve_task and invoke_task check a copy that no assign_data changes.  *)
THEOREM ConsentOfAll == InitialOwners => (Spec => []StagedWithConsent)
<1>1. ConsentInv => StagedWithConsent
  BY Zenon DEF ConsentInv
<1> QED BY <1>1, CopiesKeepConsent, PTL
=============================================================================
