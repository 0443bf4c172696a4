-------------------------------- MODULE Client --------------------------------
(***************************************************************************)
(* The client SDKs: sdk/python/teaclave.py, sdk/rust/src/lib.rs and the C  *)
(* functions of sdk/rust/src/bindings.rs, which call the Rust client.  A   *)
(* client object talks to one service.  It checks the certificate of the   *)
(* peer, sends requests with the credential of its user and, to get the    *)
(* result of a task, asks for the task again and again.                    *)
(*                                                                         *)
(* The other side is what the clients can see of it: which enclave listens *)
(* at an address, which tokens are valid, and one task, which TaskState    *)
(* moves.  A returned value stands for its length.                         *)
(***************************************************************************)
EXTENDS TaskState, Integers, Sequences

CONSTANTS
  Clients,
  Kind,         \* client -> "python", "rust" or "c"
  Service,      \* client -> "authentication" or "frontend"
  Ops,          \* the calls that are made
  Release,      \* the release whose enclave_info.toml the clients have
  Listeners,    \* what may listen at an address: [service, release]
  MaxStarts, MaxTokens, MaxValue    \* bounds

VARIABLES
  at,       \* service -> what listens at its address
  starts,   \* number of starts, for the bound
  valid,    \* the valid tokens
  issued,   \* the number of tokens issued, the last one's name
  task,     \* the task: status, result, and the value it returned
  asked,    \* whether its cancellation was asked for
  link,     \* client -> the state of its channel
  cred,     \* client -> the token it sends, 0 if none
  call,     \* client -> the polling call it is in, "" if none
  ret,      \* client -> how its last call ended
  buf       \* client -> the buffer of the caller of a C function, and its length

service_vars == <<at, starts, valid, issued, task, asked>>
vars == <<service_vars, link, cred, call, ret, buf>>

A == INSTANCE Attestation WITH NumAuditors <- 0

Down == [service |-> "", release |-> 0]
NoData == -1
NoReturn == [op |-> "", out |-> "", value |-> NoData, by |-> Down]

-----------------------------------------------------------------------------
(* The channel. *)

\* The certificate of a listener, fresh and endorsed.
CertOf(l) ==
  A!create_cert_with_extension(1,
    [quote |-> A!create_sgx_isv_enclave_report(1, A!EnclaveMeasurement(l.service, l.release)),
     certs |-> 1, trusted |-> TRUE, version |-> 4, status |-> "OK",
     format |-> [version |-> 2, kind |-> 1, len |-> 432]])

enclave_info(service) == A!EnclaveMeasurement(service, Release)

\* The chain and the signature, the key in the report data, the measurement.
_verify_report(cert, name) ==
  /\ cert.ext.trusted
  /\ cert.key = cert.ext.quote.report_data
  /\ cert.ext.quote.measure.mr_enclave = enclave_info(name).mr_enclave
  /\ cert.ext.quote.measure.mr_signer = enclave_info(name).mr_signer

Peer(c) == at[Service[c]]

\* Whether a client accepts a listener, in a table.
Accepts ==
  [c \in Clients, l \in Listeners |->
     IF Kind[c] = "python" THEN _verify_report(CertOf(l), Service[c])
     ELSE A!verify_cert({enclave_info(Service[c])}, CertOf(l), 0)]

Verified(c) == Accepts[c, Peer(c)]

\* __connect__ of TeaclaveChannel: it checks the report for every request.
\* A failed connection marks the channel; a refused report does not.
python_connect(c) == IF Peer(c) = Down THEN "broken" ELSE "open"

\* The channel of tonic, which connects again when the connection is lost.
rust_connect(c) == IF Peer(c) # Down /\ Verified(c) THEN "open" ELSE "lost"

connect(c) == IF Kind[c] = "python" THEN python_connect(c) ELSE rust_connect(c)

Reaches(c) == Peer(c) # Down /\ Verified(c)

\* AuthenticationService::connect and FrontendService::connect.  What fails
\* here panics, and there is no client.
Connect(c) ==
  /\ Kind[c] # "python" /\ link[c] = "none"
  /\ link' = [link EXCEPT ![c] = IF Reaches(c) THEN "open" ELSE "gone"]
  /\ UNCHANGED <<service_vars, cred, call, ret, buf>>

-----------------------------------------------------------------------------
(* The requests: the method, the method its message is made for ("" if the *)
(* constructor of the message raises), and whether it has the credential.  *)

Request(method, message, metadata) ==
  [method |-> method, message |-> message, metadata |-> metadata]

AuthRequest(op) ==
  CASE op = "UserUpdate" -> Request(op, op, FALSE)   \* metadata is not passed on
    [] OTHER -> Request(op, op, TRUE)

FrontendRequest(op) ==
  CASE op = "UpdateFunction" -> Request(op, "", TRUE)     \* positional arguments
    [] op = "QueryAuditLogs" -> Request(op, "", TRUE)     \* QueryAuditLogsReqeust
    [] op = "DeleteFunction" -> Request("ListFunctions", op, TRUE)
    [] OTHER -> Request(op, op, TRUE)

\* In Rust the interceptor of the client adds the credential to every request.
RequestOf(c, op) ==
  CASE Kind[c] # "python" -> Request(op, op, TRUE)
    [] Service[c] = "authentication" -> AuthRequest(op)
    [] OTHER -> FrontendRequest(op)

ServiceOf(op) ==
  IF op \in {"UserRegister", "UserUpdate", "UserLogin", "UserChangePassword",
             "ResetUserPassword", "DeleteUser", "ListUsers"}
  THEN "authentication" ELSE "frontend"

\* check_metadata and check_channel, at the start of the methods.
check_metadata(c) == cred[c] # 0
check_channel(c) == link[c] # "broken"

Ready(c, op) ==
  IF Kind[c] # "python" THEN link[c] \in {"open", "lost"}
  ELSE /\ op # "RegisterFusionOutput" => check_channel(c)
       /\ op \notin {"UserLogin", "RegisterFusionOutput"} => check_metadata(c)

\* The request is one the service can read, and its credential is valid.
Accepted(c, op) ==
  /\ RequestOf(c, op).message = RequestOf(c, op).method
  /\ op # "UserLogin" => RequestOf(c, op).metadata /\ cred[c] \in valid

Return(c, op, out, value) ==
  ret' = [ret EXCEPT ![c] =
            [op |-> op, out |-> out, value |-> value,
             by |-> IF out = "raised" THEN Down ELSE Peer(c)]]

(* What the service does for a request that it accepts.                    *)
user_login(c) ==
  /\ issued < MaxTokens
  /\ issued' = issued + 1
  /\ valid' = valid \cup {issued'}
  /\ cred' = IF Kind[c] = "python" THEN [cred EXCEPT ![c] = issued'] ELSE cred
  /\ UNCHANGED <<at, starts, task, asked>>

invoke_task ==
  /\ ToStage(task)
  /\ task' = FromStage(task)
  /\ UNCHANGED <<at, starts, valid, issued, asked, cred>>

cancel_task ==
  /\ ToCancel(task)
  /\ asked' = TRUE
  /\ UNCHANGED <<at, starts, valid, issued, task, cred>>

Handle(c, op) ==
  CASE op = "UserLogin" -> user_login(c)
    [] op = "InvokeTask" -> invoke_task
    [] op = "CancelTask" -> cancel_task
    [] OTHER -> UNCHANGED <<service_vars, cred>>

\* A call that does not poll.  The answer may be lost after the service did
\* what was asked; the service may also refuse.
call_method(c, op) ==
  /\ call[c] = "" /\ ServiceOf(op) = Service[c] /\ Ready(c, op)
  /\ RequestOf(c, op).message # ""
  /\ link' = [link EXCEPT ![c] = connect(c)]
  /\ \/ /\ Reaches(c) /\ Accepted(c, op)
        /\ Handle(c, op)
        /\ \E out \in {"returned", "lost"} : Return(c, op, out, NoData)
     \/ /\ ~ (Reaches(c) /\ Accepted(c, op))
        /\ Return(c, op, "raised", NoData)
        /\ UNCHANGED <<service_vars, cred>>
  /\ UNCHANGED <<call, buf>>

\* A call that raises before anything is sent.
raise(c, op) ==
  /\ call[c] = "" /\ ServiceOf(op) = Service[c] /\ Kind[c] = "python"
  /\ ~ Ready(c, op) \/ RequestOf(c, op).message = ""
  /\ Return(c, op, "raised", NoData)
  /\ UNCHANGED <<service_vars, link, cred, call, buf>>

\* The methods of AuthenticationService and of FrontendService in Python, but
\* for the ones that poll.
authentication_call(c, op) ==
  /\ Kind[c] = "python" /\ Service[c] = "authentication"
  /\ call_method(c, op) \/ raise(c, op)

frontend_call(c, op) ==
  /\ Kind[c] = "python" /\ Service[c] = "frontend"
  /\ call_method(c, op) \/ raise(c, op)

\* Those of AuthenticationClient and FrontendClient in Rust.
AuthenticationClient_call(c, op) ==
  Kind[c] # "python" /\ Service[c] = "authentication" /\ call_method(c, op)

FrontendClient_call(c, op) ==
  Kind[c] # "python" /\ Service[c] = "frontend" /\ call_method(c, op)

\* set_credential, and the assignment to metadata of the examples.
set_credential(c) ==
  /\ issued > 0 /\ call[c] = ""
  /\ cred' = [cred EXCEPT ![c] = issued]
  /\ UNCHANGED <<service_vars, link, call, ret, buf>>

-----------------------------------------------------------------------------
(* The calls that poll. *)

Polls(c) ==
  IF Kind[c] = "python" THEN {"get_task_result", "get_output_cmac_by_tag"}
  ELSE {"get_task_result"}

StartPoll(c, op) ==
  /\ call[c] = "" /\ Service[c] = "frontend" /\ Ready(c, "GetTask")
  /\ call' = [call EXCEPT ![c] = op]
  /\ UNCHANGED <<service_vars, link, cred, ret, buf>>

End(c, out, value) ==
  /\ call' = [call EXCEPT ![c] = ""]
  /\ Return(c, call[c], out, value)

Again(c) == UNCHANGED <<call, ret, buf>>

\* Only the status Finished ends the loop.
python_get_task_result_FinishedOnly(c) ==
  \/ task.status = "Finished" /\ End(c, "value", task.value) /\ UNCHANGED buf
  \/ task.status # "Finished" /\ Again(c)

\* The status decides.  The result of a task that finished with an error has
\* no Ok, and the return value of an absent Ok is empty.
python_get_task_result(c) ==
  \/ /\ task.status = "Finished"
     /\ End(c, "value", IF task.result = "Ok" THEN task.value ELSE 0)
     /\ UNCHANGED buf
  \/ /\ task.status \in {"Canceled", "Failed"}
     /\ End(c, "raised", NoData) /\ UNCHANGED buf
  \/ ~ is_ended(task) /\ Again(c)

get_output_cmac_by_tag(c) ==
  \/ /\ task.status = "Finished"
     /\ End(c, IF task.result = "Ok" THEN "tag" ELSE "raised", NoData) /\ UNCHANGED buf
  \/ task.status # "Finished" /\ Again(c)

\* The result decides.
rust_get_task_result(c) ==
  \/ task.result = "Ok" /\ End(c, "value", task.value) /\ UNCHANGED buf
  \/ task.result = "Err" /\ End(c, "raised", NoData) /\ UNCHANGED buf
  \/ task.result = "NotReady" /\ Again(c)

\* The length says how much fits, and then how much was copied.
teaclave_get_task_result(c) ==
  \/ /\ task.result = "Ok" /\ buf[c].len < task.value
     /\ End(c, "raised", NoData) /\ UNCHANGED buf
  \/ /\ task.result = "Ok" /\ buf[c].len >= task.value
     /\ buf' = [buf EXCEPT ![c] = [len |-> task.value, data |-> task.value]]
     /\ End(c, "value", task.value)
  \/ task.result = "Err" /\ End(c, "raised", NoData) /\ UNCHANGED buf
  \/ task.result = "NotReady" /\ Again(c)

\* One turn of the loop: a GetTask request, and a look at the answer.
Poll(c) ==
  /\ call[c] # ""
  /\ link' = [link EXCEPT ![c] = connect(c)]
  /\ \/ /\ Reaches(c) /\ Accepted(c, "GetTask")
        /\ CASE call[c] = "get_output_cmac_by_tag" -> get_output_cmac_by_tag(c)
             [] Kind[c] = "python" -> python_get_task_result(c)
             [] Kind[c] = "rust" -> rust_get_task_result(c)
             [] OTHER -> teaclave_get_task_result(c)
     \/ /\ ~ (Reaches(c) /\ Accepted(c, "GetTask"))
        /\ End(c, "raised", NoData) /\ UNCHANGED buf
  /\ UNCHANGED <<service_vars, cred>>

\* The caller of a C function comes with another buffer.
NewBuffer(c) ==
  /\ Kind[c] = "c" /\ call[c] = ""
  /\ \E n \in 0 .. MaxValue : buf' = [buf EXCEPT ![c] = [len |-> n, data |-> NoData]]
  /\ UNCHANGED <<service_vars, link, cred, call, ret>>

-----------------------------------------------------------------------------
(* The other side. *)

client_vars == <<link, cred, call, ret, buf>>

\* The service stops, which closes its connections.
Stop(s) ==
  /\ at[s] # Down
  /\ at' = [at EXCEPT ![s] = Down]
  /\ link' = [c \in Clients |->
                IF Service[c] = s /\ link[c] = "open"
                THEN IF Kind[c] = "python" THEN "none" ELSE "lost" ELSE link[c]]
  /\ UNCHANGED <<starts, valid, issued, task, asked, cred, call, ret, buf>>

Start(s) ==
  /\ at[s] = Down /\ starts < MaxStarts
  /\ starts' = starts + 1
  /\ \E l \in Listeners : at' = [at EXCEPT ![s] = l]
  /\ UNCHANGED <<valid, issued, task, asked, client_vars>>

\* A token expires, or the secret it was made with is gone.
Expire ==
  /\ \E t \in valid : valid' = valid \ {t}
  /\ UNCHANGED <<at, starts, issued, task, asked, client_vars>>

\* What the scheduler does with the task, each a few steps of Scheduler.
TaskBecomes(t) ==
  task' = t /\ UNCHANGED <<at, starts, valid, issued, asked, client_vars>>

update_task_status == ToRun(task) /\ TaskBecomes(FromRun(task))

update_task_result ==
  /\ ToFinish(task)
  /\ \/ \E v \in 0 .. MaxValue : TaskBecomes([FromFinish(task, "Ok") EXCEPT !.value = v])
     \/ TaskBecomes(FromFinish(task, "Err"))

\* The executor is gone.
daemon_fails == ToFail(task) /\ TaskBecomes(FromFail(task))

scheduler_cancel_task == asked /\ ToCancel(task) /\ TaskBecomes(FromCancel(task))

Init ==
  /\ at = [s \in {"authentication", "frontend"} |-> [service |-> s, release |-> Release]]
  /\ starts = 0 /\ valid = {} /\ issued = 0
  /\ task = [status |-> "Approved", result |-> "NotReady", value |-> 0]
  /\ asked = FALSE
  /\ link = [c \in Clients |-> "none"]
  /\ cred = [c \in Clients |-> 0]
  /\ call = [c \in Clients |-> ""]
  /\ ret = [c \in Clients |-> NoReturn]
  /\ buf = [c \in Clients |-> [len |-> MaxValue, data |-> NoData]]

Next ==
  \/ \E c \in Clients :
       \/ Connect(c) \/ set_credential(c) \/ Poll(c) \/ NewBuffer(c)
       \/ \E op \in Ops :
            \/ authentication_call(c, op) \/ frontend_call(c, op)
            \/ AuthenticationClient_call(c, op) \/ FrontendClient_call(c, op)
       \/ \E op \in Polls(c) : StartPoll(c, op)
  \/ \E s \in {"authentication", "frontend"} : Stop(s) \/ Start(s)
  \/ Expire
  \/ update_task_status \/ update_task_result \/ daemon_fails \/ scheduler_cancel_task

Spec == Init /\ [][Next]_vars

-----------------------------------------------------------------------------
(* Every call that a service carried out was carried out by the enclave    *)
(* that the enclave info names for the client's service, also after the    *)
(* service was replaced by another while the client was running            *)
(* (teaclave.py __connect__, lib.rs connect).                              *)
ServedByItsService ==
  \A c \in Clients : ret[c].out \in {"returned", "lost", "value", "tag"} =>
    ret[c].by = [service |-> Service[c], release |-> Release]

(* get_task_result returns only for a task that has finished: a canceled   *)
(* or failed task has no value.  "this is expected, since the task is      *)
(* cancelled" (examples/python/mesapy_deadloop_cancel.py:86, on the        *)
(* exception).  The Rust and C clients return only the value of a task     *)
(* whose result is Ok.  The Python client looks at the status alone: for a *)
(* task that finished with an error it returns the empty value, as if it   *)
(* had succeeded (teaclave.py:1071, 1084), and nothing else.               *)
ValueIsFinal ==
  \A c \in Clients : ret[c].out = "value" =>
    /\ task.status = "Finished"
    /\ \/ task.result = "Ok" /\ ret[c].value = task.value
       \/ task.result = "Err" /\ Kind[c] = "python" /\ ret[c].value = 0

(* The buffer of a C caller holds nothing or the whole value of the task,  *)
(* and then the length is the length of the value                          *)
(* (bindings.rs teaclave_get_task_result).                                 *)
BufferIsWhole ==
  \A c \in Clients : buf[c].data # NoData =>
    task.result = "Ok" /\ buf[c] = [len |-> task.value, data |-> task.value]

\* A polling call of a task that has come to its end.
WaitsForEnded(c) ==
  \/ call[c] = "get_task_result" /\ is_ended(task)
  \/ call[c] = "get_output_cmac_by_tag" /\ task.status = "Finished"
Returned(c) == call[c] = ""
=============================================================================
