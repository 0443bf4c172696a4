------------------------------ MODULE Storage ------------------------------
(***************************************************************************)
(* The storage service: its RPC handlers (ProxyService) put requests into  *)
(* a channel, and one thread takes them out, executes them on the database *)
(* and answers.  A caller may go away while its request is in the channel; *)
(* the request is executed all the same.  A panic of the database ends the *)
(* thread, and with it every call.  Keys are numbers in the order of the   *)
(* database; the keys that share the prefix of a listing are an interval.  *)
(***************************************************************************)
EXTENDS Naturals, Sequences, SequencesExt, FiniteSets, FiniteSetsExt

CONSTANTS
  Clients,
  DBKeys,       \* the keys of the database, numbers
  Prefix,       \* the interval of keys that have the prefix of a listing
  MaxCalls,     \* bound: calls of one client
  MaxGivenUp,   \* bound: calls that their callers do not wait for
  MayPanic,
  MayRestart

None == <<>>

VARIABLES
  database,   \* key -> the call that wrote it, or None
  channel,    \* the requests that wait for the thread
  call,       \* client -> number of its latest call
  answer,     \* client -> the answer, "waiting", or None between calls
  alive,      \* the thread runs
  given_up,
  written,    \* history: client, key -> its latest acknowledged put or delete
  accepted,   \* history: the database that the requests accepted so far leave
  due         \* history: client -> what they make of its latest request

history == <<written, accepted, due>>
vars == <<database, channel, call, answer, alive, given_up, history>>

Requests == [op : {"get", "put", "delete"}, key : DBKeys] \cup [op : {"list"}, key : {0}]

Stored == {k \in DBKeys : database[k] # None}
InOrder(keys) == SetToSortSeq(keys, <)

\* The listing ends before the last key.
get_keys_by_prefix_Short ==
    LET found == {k \in Stored : k >= Min(Prefix)}
    IN  IF found = {} THEN <<>>
        ELSE InOrder({Min(found)} \cup {k \in found : k < Max(Prefix)})

\* get_keys_by_prefix: a seek to the first key that may have the prefix.  The
\* entry found there is not compared with the end of the prefix, the ones
\* after it are.
get_keys_by_prefix ==
    LET found == {k \in Stored : k >= Min(Prefix)}
    IN  IF found = {} THEN <<>>
        ELSE InOrder({Min(found)} \cup {k \in found : k =< Max(Prefix)})

Init ==
    /\ database = [k \in DBKeys |-> None]
    /\ channel = <<>>
    /\ call = [c \in Clients |-> 0]
    /\ answer = [c \in Clients |-> None]
    /\ alive = TRUE
    /\ given_up = 0
    /\ written = [c \in Clients, k \in DBKeys |-> 0]
    /\ accepted = [k \in DBKeys |-> None]
    /\ due = [c \in Clients |-> None]

\* The database after a put or a delete, the call n of client c.
After(d, c, n, r) ==
    CASE r.op = "put" -> [d EXCEPT ![r.key] = <<c, n>>]
      [] r.op = "delete" -> [d EXCEPT ![r.key] = None]
      [] OTHER -> d

\* What a read of the database d is about: a value, or the keys of the prefix.
ReadOf(d, r) ==
    CASE r.op = "get" -> d[r.key]
      [] r.op = "list" -> {k \in Prefix : d[k] # None}
      [] OTHER -> None

\* send_request!: the request goes into the channel unless the thread is gone.
Send(c, r) ==
    /\ answer[c] = None /\ call[c] < MaxCalls
    /\ call' = [call EXCEPT ![c] = @ + 1]
    /\ \/ /\ alive
          /\ channel' = Append(channel, [client |-> c, id |-> call[c] + 1, request |-> r])
          /\ answer' = [answer EXCEPT ![c] = <<"waiting">>]
          /\ accepted' = After(accepted, c, call[c] + 1, r)
          /\ due' = [due EXCEPT ![c] = ReadOf(accepted, r)]
       \/ /\ ~ alive
          /\ answer' = [answer EXCEPT ![c] = <<"error">>]
          /\ UNCHANGED <<channel, accepted, due>>
    /\ UNCHANGED <<database, alive, given_up, written>>

\* get of a missing key is an error; put and delete answer after a flush.
Reply(r) ==
    CASE r.op = "get" -> IF database[r.key] = None THEN <<"error">>
                         ELSE <<"value", database[r.key]>>
      [] r.op = "list" -> <<"keys", get_keys_by_prefix>>
      [] OTHER -> <<"done">>

Execute(m) == database' = After(database, m.client, m.id, m.request)

\* The answer reaches the caller if that still waits for this call.
Deliver(m) ==
    LET waits == call[m.client] = m.id /\ answer[m.client] = <<"waiting">>
    IN  /\ answer' = IF waits THEN [answer EXCEPT ![m.client] = Reply(m.request)]
                     ELSE answer
        /\ written' = IF waits /\ m.request.op \in {"put", "delete"}
                      THEN [written EXCEPT ![<<m.client, m.request.key>>] = m.id]
                      ELSE written

\* The newest request is taken first.
Dispatch_Newest ==
    LET m == channel[Len(channel)]
    IN  /\ alive /\ channel # <<>>
        /\ channel' = SubSeq(channel, 1, Len(channel) - 1)
        /\ Execute(m)
        /\ Deliver(m)
        /\ UNCHANGED <<call, alive, given_up, accepted, due>>

\* start and dispatch: the oldest request is executed and answered.
Dispatch ==
    LET m == Head(channel)
    IN  /\ alive /\ channel # <<>>
        /\ channel' = Tail(channel)
        /\ Execute(m)
        /\ Deliver(m)
        /\ UNCHANGED <<call, alive, given_up, accepted, due>>

\* The thread dies without closing the channel.
Panic_Silent ==
    /\ alive /\ MayPanic
    /\ alive' = FALSE
    /\ channel' = <<>>
    /\ UNCHANGED <<database, call, answer, given_up, history>>

\* A panic drops the channel with the senders in it: every caller that waits
\* gets an error.
Panic ==
    /\ alive /\ MayPanic
    /\ alive' = FALSE
    /\ channel' = <<>>
    /\ answer' = [c \in Clients |-> IF answer[c] = <<"waiting">> THEN <<"error">> ELSE answer[c]]
    /\ UNCHANGED <<database, call, given_up, history>>

\* The service is started again: create_teaclave_db opens a database in memory.
Restart ==
    /\ MayRestart
    /\ database' = [k \in DBKeys |-> None]
    /\ channel' = <<>>
    /\ alive' = TRUE
    /\ answer' = [c \in Clients |-> IF answer[c] = <<"waiting">> THEN <<"error">> ELSE answer[c]]
    /\ accepted' = [k \in DBKeys |-> None]
    /\ UNCHANGED <<call, given_up, written, due>>

\* The caller takes the answer.
Return(c) ==
    /\ answer[c] \notin {None, <<"waiting">>}
    /\ answer' = [answer EXCEPT ![c] = None]
    /\ UNCHANGED <<database, channel, call, alive, given_up, history>>

\* The caller, or its connection, goes away.
GiveUp(c) ==
    /\ answer[c] = <<"waiting">> /\ given_up < MaxGivenUp
    /\ given_up' = given_up + 1
    /\ answer' = [answer EXCEPT ![c] = None]
    /\ UNCHANGED <<database, channel, call, alive, history>>

Next ==
    \/ Dispatch
    \/ Panic
    \/ Restart
    \/ \E c \in Clients :
          \/ Return(c)
          \/ GiveUp(c)
          \/ \E r \in Requests : Send(c, r)

Spec == Init /\ [][Next]_vars

-----------------------------------------------------------------------------
\* A put that its caller gave up does not overwrite what the same caller put
\* later and saw acknowledged: the channel keeps the order of the calls.
NoLateWrite ==
    \A c \in Clients, k \in DBKeys : \A n \in 1 .. MaxCalls :
        database[k] = <<c, n>> => n >= written[<<c, k>>]

Waiting(c) == answer[c] = <<"waiting">>

\* A get or a listing is answered from exactly the requests that were accepted
\* before it, those included whose callers gave up.  A listing has a key
\* without the prefix only if nothing with the prefix is stored.
RepliesInOrder ==
    \A c \in Clients :
        /\ answer[c] # None /\ answer[c][1] = "value" => answer[c][2] = due[c]
        /\ answer[c] # None /\ answer[c][1] = "keys" =>
              LET listed == ToSet(answer[c][2])
              IN  /\ listed \cap Prefix = due[c]
                  /\ ~ listed \subseteq Prefix => due[c] = {}
=============================================================================
