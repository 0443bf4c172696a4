-------------------------- MODULE FunctionRegistry --------------------------
(***************************************************************************)
(* The functions that management keeps in the storage service: the         *)
(* functions themselves, the use count of each, and for each user the      *)
(* lists of functions registered by and allowed to them.  A handler is a   *)
(* sequence of storage requests; other handlers run between two of them    *)
(* when several frontends, or a call given up by its client, are at work.  *)
(***************************************************************************)
EXTENDS Naturals, Sequences, FiniteSets

CONSTANTS
  Users,
  Ids,          \* function ids, each drawn once by Uuid::new_v4
  Callers,      \* [user, role, attr]: what the metadata of a request says
  Settings,     \* [public, allow]: what is asked for
  Apis,         \* the handlers that are called: register, update, delete, disable
  Slots,        \* handlers that run at the same time
  MaxFail       \* bound: handlers that end in the middle, reads that fail

VARIABLES
  functions,    \* id -> Absent or the function
  users,        \* user -> Absent or [registered, allowed]
  usage,        \* ids that have a FunctionUsage
  handler,      \* slot -> the handler's local state
  failed,       \* number of handlers and of reads that failed
  drawn,        \* ids drawn so far
  acked,        \* functions whose registration was acknowledged, as registered
  ever,         \* functions that a handler has begun to disable
  deleted,
  astray        \* history: handlers that had read a function when it was deleted, and
                \* users whose lists were replaced by a handler that had not read them

vars == <<functions, users, usage, handler, failed, drawn, acked, ever, deleted, astray>>

Absent == <<>>
Idle == [pc |-> "idle"]
Elems(s) == {s[i] : i \in DOMAIN s}
NoLists == [registered |-> <<>>, allowed |-> <<>>]

Init ==
    /\ functions = [f \in Ids |-> Absent]
    /\ users = [u \in Users |-> Absent]
    /\ usage = {}
    /\ handler = [h \in Slots |-> Idle]
    /\ failed = 0 /\ drawn = {} /\ acked = {} /\ ever = {} /\ deleted = {}
    /\ astray = [late |-> {}, replaced |-> {}]

Set(h, s) == handler' = [handler EXCEPT ![h] = s]
Fails == failed < MaxFail /\ failed' = failed + 1

Begins(h) == astray' = [astray EXCEPT !.late = @ \ {h}]
Replaces(u, us) == astray' = IF us = users[u] THEN astray
                             ELSE [astray EXCEPT !.replaced = @ \cup {u}]

\* One entry of the lists that a handler still has to change.
Entry(u, list) == [user |-> u, list |-> list]
AllowEntries(a) == [i \in DOMAIN a |-> Entry(a[i], "allowed")]

-----------------------------------------------------------------------------
\* register_function: the function first, then the lists, then the use count.
register_function(h, c, f, set) ==
    /\ "register" \in Apis
    /\ handler[h] = Idle /\ f \notin drawn
    /\ drawn' = drawn \cup {f}
    /\ functions' = [functions EXCEPT ![f] =
                       [owner |-> c.user, public |-> set.public, allow |-> set.allow]]
    /\ Set(h, [pc |-> "get", api |-> "register", f |-> f, caller |-> c, us |-> Absent,
               fn |-> functions'[f],
               todo |-> <<Entry(c.user, "registered")>> \o AllowEntries(set.allow)])
    /\ Begins(h)
    /\ UNCHANGED <<users, usage, failed, acked, ever, deleted>>

\* read_from_db::<User>
GetUser(h) ==
    LET s == handler[h]
        u == Head(s.todo).user
    IN  /\ s.pc = "get" /\ s.todo # <<>>
        /\ \/ Set(h, [s EXCEPT !.pc = "put", !.us = users[u]]) /\ UNCHANGED failed
           \/ Set(h, [s EXCEPT !.pc = "put", !.us = Absent]) /\ Fails
        /\ UNCHANGED <<functions, users, usage, drawn, acked, ever, deleted, astray>>

Without(list, f) == SelectSeq(list, LAMBDA g : g # f)

\* The user as read, or a new one, with the function on the list.
PutRegistered(h) ==
    LET s == handler[h]
        e == Head(s.todo)
        us == IF s.us = Absent THEN NoLists ELSE s.us
    IN  /\ s.pc = "put" /\ s.api = "register"
        /\ users' = [users EXCEPT ![e.user] = [us EXCEPT ![e.list] = Append(@, s.f)]]
        /\ Set(h, [s EXCEPT !.pc = "get", !.todo = Tail(@), !.us = Absent])
        /\ Replaces(e.user, s.us)
        /\ UNCHANGED <<functions, usage, failed, drawn, acked, ever, deleted>>

PutUsage(h) ==
    LET s == handler[h]
    IN  /\ s.pc = "get" /\ s.todo = <<>> /\ s.api = "register"
        /\ usage' = usage \cup {s.f}
        /\ acked' = acked \cup {[f |-> s.f, owner |-> s.caller.user, allow |-> Elems(s.fn.allow)]}
        /\ Set(h, Idle)
        /\ UNCHANGED <<functions, users, failed, drawn, ever, deleted, astray>>

-----------------------------------------------------------------------------
\* The function that the other handlers read first; without it, or without
\* the right to go on, they end here.
Read(h, c, f, api, permitted) ==
    /\ api \in Apis /\ handler[h] = Idle
    /\ functions[f] # Absent /\ permitted
    /\ Set(h, [pc |-> api, api |-> api, f |-> f, caller |-> c, us |-> Absent,
               fn |-> functions[f], todo |-> <<>>])
    /\ Begins(h)
    /\ UNCHANGED <<functions, users, usage, failed, drawn, acked, ever, deleted>>

\* The function is not read: it may be gone.
update_function_Blind(h, c, f) ==
    /\ handler[h] = Idle /\ \E a \in acked : a.f = f /\ a.owner = c.user
    /\ Set(h, [pc |-> "update", api |-> "update", f |-> f, caller |-> c, us |-> Absent,
               fn |-> Absent, todo |-> <<>>])
    /\ Begins(h)
    /\ UNCHANGED <<functions, users, usage, failed, drawn, acked, ever, deleted>>

update_function(h, c, f) ==
    Read(h, c, f, "update", functions[f] # Absent /\ functions[f].owner = c.user)

update_function_write(h, set) ==
    LET s == handler[h]
    IN  /\ s.pc = "update"
        /\ functions' = [functions EXCEPT ![s.f] =
                           [owner |-> s.caller.user, public |-> set.public, allow |-> set.allow]]
        /\ Set(h, Idle)
        /\ UNCHANGED <<users, usage, failed, drawn, acked, ever, deleted, astray>>

delete_function(h, c, f) ==
    Read(h, c, f, "delete", functions[f] # Absent /\ functions[f].owner = c.user)

delete_function_delete(h) ==
    LET s == handler[h]
    IN  /\ s.pc = "delete"
        /\ functions' = [functions EXCEPT ![s.f] = Absent]
        /\ deleted' = deleted \cup {s.f}
        /\ astray' = [astray EXCEPT !.late = @ \cup {g \in Slots : handler[g] # Idle /\ handler[g].f = s.f}]
        /\ Set(h, Idle)
        /\ UNCHANGED <<users, usage, failed, drawn, acked, ever>>

disable_function(h, c, f) ==
    Read(h, c, f, "disable",
         functions[f] # Absent /\ (c.role = "PlatformAdmin" \/ functions[f].owner = c.user))

\* The lists of the owner, then of the users that the function as read allows.
disable_function_lists(h) ==
    LET s == handler[h]
    IN  /\ s.pc = "disable"
        /\ Set(h, [s EXCEPT !.pc = "get",
                     !.todo = <<Entry(s.fn.owner, "registered")>> \o AllowEntries(s.fn.allow)])
        /\ ever' = ever \cup {s.f}
        /\ UNCHANGED <<functions, users, usage, failed, drawn, acked, deleted, astray>>

\* Both lists of the user lose the function; a user that cannot be read is
\* passed over.
PutRetained(h) ==
    LET s == handler[h]
        e == Head(s.todo)
    IN  /\ s.pc = "put" /\ s.api = "disable"
        /\ users' = IF s.us = Absent THEN users
                    ELSE [users EXCEPT ![e.user] =
                            [registered |-> Without(s.us.registered, s.f),
                             allowed |-> Without(s.us.allowed, s.f)]]
        /\ Set(h, [s EXCEPT !.pc = "get", !.todo = Tail(@), !.us = Absent])
        /\ IF s.us = Absent THEN UNCHANGED astray ELSE Replaces(e.user, s.us)
        /\ UNCHANGED <<functions, usage, failed, drawn, acked, ever, deleted>>

disable_function_write(h) ==
    LET s == handler[h]
    IN  /\ s.pc = "get" /\ s.todo = <<>> /\ s.api = "disable"
        /\ functions' = [functions EXCEPT ![s.f] = [s.fn EXCEPT !.allow = <<>>]]
        /\ Set(h, Idle)
        /\ UNCHANGED <<users, usage, failed, drawn, acked, ever, deleted, astray>>

\* A storage request fails, or the client goes away: the handler ends.
Abandon(h) ==
    /\ handler[h] # Idle
    /\ Fails
    /\ Set(h, Idle)
    /\ UNCHANGED <<functions, users, usage, drawn, acked, ever, deleted, astray>>

-----------------------------------------------------------------------------
(* What the handlers that only read answer.                                *)

\* create_task goes on with the function.
CreateAllowed(c, f) ==
    /\ functions[f] # Absent
    /\ CASE c.role \in {"DataOwner", "DataOwnerManager"} ->
              functions[f].public \/ c.attr \in Elems(functions[f].allow)
         [] c.role = "PlatformAdmin" -> TRUE
         [] OTHER -> FALSE

\* get_function: the whole function, the function without its payload and its
\* allow list, or an error.
get_function(c, f) ==
    CASE functions[f] = Absent -> "InvalidFunctionId"
      [] functions[f] # Absent /\ (functions[f].public \/ c.role = "PlatformAdmin"
                                   \/ functions[f].owner = c.user) -> "whole"
      [] functions[f] # Absent /\ c.user \in Elems(functions[f].allow) -> "part"
      [] OTHER -> "PermissionDenied"

get_function_usage_stats(c, f) ==
    CASE functions[f] = Absent -> "InvalidFunctionId"
      [] ~ (functions[f].public \/ c.role = "PlatformAdmin"
            \/ c.user \in Elems(functions[f].allow)) -> "PermissionDenied"
      [] OTHER -> IF f \in usage THEN "stats" ELSE "InvalidFunctionId"

\* list_functions of user u: an administrator gets all the functions as
\* allowed ones, if the user exists.
list_functions(c, u) ==
    IF (c.role # "PlatformAdmin" /\ c.user # u) \/ users[u] = Absent
    THEN [registered |-> <<>>, allowed |-> {}]
    ELSE [registered |-> users[u].registered,
          allowed |-> IF c.role = "PlatformAdmin"
                      THEN {f \in Ids : functions[f] # Absent}
                      ELSE Elems(users[u].allowed)]

-----------------------------------------------------------------------------
HandlerStep(h) ==
    \/ GetUser(h) \/ PutRegistered(h) \/ PutUsage(h)
    \/ \E set \in Settings : update_function_write(h, set)
    \/ delete_function_delete(h)
    \/ disable_function_lists(h) \/ PutRetained(h) \/ disable_function_write(h)

Next == \E h \in Slots :
    \/ \E c \in Callers, f \in Ids :
         \/ \E set \in Settings : register_function(h, c, f, set)
         \/ update_function(h, c, f) \/ delete_function(h, c, f) \/ disable_function(h, c, f)
    \/ HandlerStep(h)
    \/ Abandon(h)

Spec == Init /\ [][Next]_vars

-----------------------------------------------------------------------------
AsThemselves(u) == [user |-> u, role |-> "DataOwner", attr |-> u]

\* A function whose registration register_function acknowledged is complete
\* until somebody disables it: it has a use count, and list_functions shows it
\* to its owner and to the users it was registered for ("Update allowed
\* function list for users"), unless a handler has replaced the lists of that
\* user since by others than it had read: the lists are read and written back
\* with no lock, and a read that fails is taken for a user without lists.
AckedIsComplete ==
    \A a \in acked : a.f \notin ever =>
        /\ a.f \in usage
        /\ \/ a.owner \in astray.replaced
           \/ a.f \in Elems(list_functions(AsThemselves(a.owner), a.owner).registered)
        /\ \A u \in a.allow \ astray.replaced : a.f \in list_functions(AsThemselves(u), u).allowed

\* Whoever create_task lets use a function can look at it with get_function,
\* and at its use count once the registration was acknowledged, unless their
\* role carries another id than theirs: create_task goes by the attribute of
\* the role, the other two by the id of the user, and then it is the user with
\* that id who can look at it.
Sees(c, f) ==
    /\ get_function(c, f) \in {"whole", "part"}
    /\ (\E a \in acked : a.f = f) => get_function_usage_stats(c, f) = "stats"
UsableIsVisible ==
    \A f \in Ids : \A c \in [user : Users, attr : Users,
                             role : {"DataOwner", "DataOwnerManager", "FunctionOwner", "PlatformAdmin"}] :
        CreateAllowed(c, f) =>
            Sees(c, f) \/ (c.attr # c.user /\ Sees([c EXCEPT !.user = c.attr], f))

\* A step stores a deleted function again only in update_function or
\* disable_function of a handler that had read it before it was deleted.
KeepsDeleted ==
    \A f \in deleted : functions[f] = Absent /\ functions'[f] # Absent =>
        \E h \in astray.late : /\ handler[h] # Idle /\ handler'[h] = Idle
                              /\ handler[h].f = f /\ handler[h].api \in {"update", "disable"}

\* A function changes in update_function of its owner, or its allow list
\* becomes empty in disable_function, which stores the rest of the function as
\* it was when it was read.
ChangedByOwner ==
    \A f \in Ids : functions[f] # Absent /\ functions'[f] \notin {Absent, functions[f]} =>
        \E h \in Slots :
           /\ handler[h] # Idle /\ handler[h].f = f
           /\ \/ handler[h].api = "update" /\ handler[h].caller.user = functions[f].owner
              \/ /\ handler[h].api = "disable"
                 /\ functions'[f] = [handler[h].fn EXCEPT !.allow = <<>>]
=============================================================================
