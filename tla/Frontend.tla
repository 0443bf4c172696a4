------------------------------ MODULE Frontend ------------------------------
(***************************************************************************)
(* The frontend service between its callers, the authentication service,   *)
(* access control and management, and the agent that hands the audit log   *)
(* to management.  Eight threads run the handlers and the agent.  All of   *)
(* them share one client of the management service under a mutex, which a  *)
(* handler keeps until it has logged its call.  A caller that goes away    *)
(* ends its handler wherever that waits.                                   *)
(***************************************************************************)
EXTENDS Authentication

CONSTANTS
  Calls,        \* calls of the frontend
  Apis,         \* functions that are called
  MaxGone,      \* bound: callers that go away
  SavesFail     \* whether save_logs and other calls of management may fail

VARIABLES
  handler,      \* call -> [pc, id, token, api, claims, result]
  client,       \* holder of the mutex of the management client
  buffer,       \* audit_log_buffer
  buffer_lock,  \* its mutex
  agent,        \* the audit agent: [pc, logs]
  gone,
  executed,     \* calls that management executed, with the role it was given
  saved         \* entries that management has

frontVars == <<handler, client, buffer, buffer_lock, agent, gone, executed, saved>>
vars == <<authVars, frontVars>>

-----------------------------------------------------------------------------
(* The access control service: which role may call which function of the   *)
(* frontend, from the policy file and the matcher of the casbin model.     *)

\* The general policies (lines "p") and the groups (lines "g").
FunctionOwnerApis == {"register_function", "update_function", "delete_function",
                      "disable_function", "get_function", "list_functions",
                      "get_function_usage_stats"}
DataOwnerApis == {"register_input_file", "register_output_file", "update_input_file",
                  "update_output_file", "register_fusion_output",
                  "register_input_from_output", "get_output_file", "get_input_file",
                  "create_task", "get_task", "assign_data", "approve_task",
                  "invoke_task", "cancel_task", "get_function", "list_functions",
                  "get_function_usage_stats"}

Policies == {<<"rule_function_owner", api>> : api \in FunctionOwnerApis}
              \cup {<<"rule_data_owner", api>> : api \in DataOwnerApis}
Groups == {<<"FunctionOwner", "rule_function_owner">>,
           <<"DataOwnerManager", "rule_data_owner">>,
           <<"DataOwner", "rule_data_owner">>}

\* Everyone who has a role is let through.
enforce_AnyGroup(role, api) ==
    \/ \E p \in Policies, g \in Groups : g[1] = role /\ p[2] = api
    \/ role = "PlatformAdmin"

\* The matcher: m = g(r.sub, p.sub) && r.act == p.act || r.sub == "PlatformAdmin".
enforce(role, api) ==
    \/ \E p \in Policies : <<role, p[1]>> \in Groups /\ p[2] = api
    \/ role = "PlatformAdmin"

-----------------------------------------------------------------------------
Free == "free"
Idle == [pc |-> "idle"]

FrontInit ==
    /\ Init
    /\ handler = [c \in Calls |-> Idle]
    /\ client = Free /\ buffer = <<>> /\ buffer_lock = Free
    /\ agent = [pc |-> "awake", logs |-> <<>>]
    /\ gone = 0 /\ executed = {} /\ saved = <<>>

Set(c, h) == handler' = [handler EXCEPT ![c] = h]
Goto(c, pc) == Set(c, [handler[c] EXCEPT !.pc = pc])

Receive(c, u, t, api) ==
    /\ handler[c] = Idle
    /\ Set(c, [pc |-> "authenticate", id |-> u, token |-> t, api |-> api,
               claims |-> <<>>, result |-> FALSE])
    /\ UNCHANGED <<authVars, client, buffer, buffer_lock, agent, gone, executed, saved>>

\* authenticate: the claims of a valid token.
Authenticate(c) ==
    LET h == handler[c]
    IN  /\ h.pc = "authenticate"
        /\ IF Authenticated(h.id, h.token)
           THEN Set(c, [h EXCEPT !.pc = "privilege", !.claims = h.token.role])
           ELSE Goto(c, "refused")
        /\ UNCHANGED <<authVars, client, buffer, buffer_lock, agent, gone, executed, saved>>

\* check_api_privilege: the name of the role without its attribute; an error
\* of the access control service is a refusal.
CheckPrivilege(c) ==
    LET h == handler[c]
    IN  /\ h.pc = "privilege"
        /\ \/ /\ enforce(to_string(from_str(h.claims))[1], h.api)
              /\ Goto(c, "lock")
           \/ /\ ~ enforce(to_string(from_str(h.claims))[1], h.api) \/ SavesFail
              /\ Goto(c, "refused")
        /\ UNCHANGED <<authVars, client, buffer, buffer_lock, agent, gone, executed, saved>>

LockClient(c) ==
    /\ handler[c].pc = "lock" /\ client = Free
    /\ client' = c
    /\ Goto(c, "forward")
    /\ UNCHANGED <<authVars, buffer, buffer_lock, agent, gone, executed, saved>>

\* The call of management, with the role of the claims in its metadata.  An
\* error may come after the call was executed.
Forward(c) ==
    LET h == handler[c]
        Executed == executed \cup {[call |-> c, api |-> h.api, role |-> from_str(h.claims)]}
    IN  /\ h.pc = "forward"
        /\ \/ executed' = Executed /\ Set(c, [h EXCEPT !.pc = "log", !.result = TRUE])
           \/ SavesFail /\ executed' \in {executed, Executed} /\ Goto(c, "log")
        /\ UNCHANGED <<authVars, client, buffer, buffer_lock, agent, gone, saved>>

\* push_log, and the end of the handler, which lets go of the client.
PushLog(c) ==
    LET h == handler[c]
    IN  /\ h.pc \in {"log", "refused"} /\ buffer_lock = Free
        /\ buffer' = Append(buffer, [call |-> c, result |-> h.result])
        /\ client' = IF client = c THEN Free ELSE client
        /\ Goto(c, "done")
        /\ UNCHANGED <<authVars, buffer_lock, agent, gone, executed, saved>>

\* The caller goes away and its handler is dropped; a call that is under way
\* in management may be executed.
Gone(c) ==
    LET h == handler[c]
    IN  /\ gone < MaxGone /\ h.pc \notin {"idle", "done"}
        /\ gone' = gone + 1
        /\ executed' \in {executed} \cup
              (IF h.pc # "forward" THEN {} ELSE
                 {executed \cup {[call |-> c, api |-> h.api, role |-> from_str(h.claims)]}})
        /\ client' = IF client = c THEN Free ELSE client
        /\ Goto(c, "done")
        /\ UNCHANGED <<authVars, buffer, buffer_lock, agent, saved>>

-----------------------------------------------------------------------------
\* AuditAgent::run, one turn of its loop.
LockBuffer ==
    /\ agent.pc = "awake" /\ buffer_lock = Free
    /\ buffer_lock' = "agent"
    /\ agent' = [agent EXCEPT !.pc = "drain"]
    /\ UNCHANGED <<authVars, handler, client, buffer, gone, executed, saved>>

\* The lock of the buffer is kept while the entries are sent.
Drain_Locked ==
    /\ agent.pc = "drain"
    /\ agent' = [pc |-> IF buffer = <<>> THEN "awake" ELSE "lock", logs |-> buffer]
    /\ buffer' = <<>>
    /\ buffer_lock' = IF buffer = <<>> THEN Free ELSE buffer_lock
    /\ UNCHANGED <<authVars, handler, client, gone, executed, saved>>

Drain ==
    /\ agent.pc = "drain"
    /\ agent' = [pc |-> IF buffer = <<>> THEN "awake" ELSE "lock", logs |-> buffer]
    /\ buffer' = <<>>
    /\ buffer_lock' = Free
    /\ UNCHANGED <<authVars, handler, client, gone, executed, saved>>

AgentLock ==
    /\ agent.pc = "lock" /\ client = Free
    /\ client' = "agent"
    /\ agent' = [agent EXCEPT !.pc = "send"]
    /\ UNCHANGED <<authVars, handler, buffer, buffer_lock, gone, executed, saved>>

\* save_logs, whose result is not looked at; the guards of this turn are
\* dropped at its end.
Send ==
    /\ agent.pc = "send"
    /\ \/ saved' = saved \o agent.logs
       \/ SavesFail /\ saved' = saved
    /\ client' = Free
    /\ buffer_lock' = Free
    /\ agent' = [pc |-> "awake", logs |-> <<>>]
    /\ UNCHANGED <<authVars, handler, buffer, gone, executed>>

Handle(c) == Authenticate(c) \/ CheckPrivilege(c) \/ LockClient(c) \/ Forward(c) \/ PushLog(c)
AgentStep == LockBuffer \/ Drain \/ AgentLock \/ Send

FrontNext ==
    \/ Next /\ UNCHANGED frontVars
    \/ AgentStep
    \/ \E c \in Calls :
          \/ Handle(c)
          \/ Gone(c)
          \/ \E u \in Ids, t \in tokens, api \in Apis : Receive(c, u, t, api)

FrontSpec == FrontInit /\ [][FrontNext]_vars

\* The steps that a thread takes on its own, and those that wait for a mutex.
AgentRuns == LockBuffer \/ Drain \/ Send
HandlerRuns(c) == Authenticate(c) \/ CheckPrivilege(c) \/ Forward(c)
HandlerLocks(c) == LockClient(c) \/ PushLog(c)

-----------------------------------------------------------------------------
Entries == saved \o agent.logs \o buffer

\* What the roles are for: administrators may do everything, owners of
\* functions manage functions, owners of data manage files and tasks and look
\* functions up.
Permitted(role, api) ==
    \/ role = PlatformAdmin
    \/ role = FunctionOwner /\ api \in FunctionOwnerApis
    \/ role.role \in {"DataOwner", "DataOwnerManager"} /\ api \in DataOwnerApis

\* Management executes a call only for a role that permits it and that the
\* account of the caller was once given.
ExecutedWasPermitted ==
    \A e \in executed :
        /\ Permitted(e.role, e.api)
        /\ \E g \in grants : g.id = handler[e.call].id /\ g.role = e.role

\* A call has one entry in the audit log, on its way or saved, and an entry
\* that says success is about a call that was executed.
OneTrueEntry ==
    /\ \A i, j \in 1 .. Len(Entries) : Entries[i].call = Entries[j].call => i = j
    /\ \A i \in 1 .. Len(Entries) :
          Entries[i].result => \E e \in executed : e.call = Entries[i].call

Received(c) == handler[c].pc # "idle"
Answered(c) == handler[c].pc = "done"
Buffered(c) == \E i \in 1 .. Len(buffer) : buffer[i].call = c
Saved(c) == \E i \in 1 .. Len(saved) : saved[i].call = c
=============================================================================
