--------------------------------- MODULE Wire ---------------------------------
(***************************************************************************)
(* What the values of teaclave_types become in the messages of             *)
(* services/proto and what is read back from them.  A value is put in a    *)
(* message by its sender, read by the service that keeps it, and, for the  *)
(* kinds a user can ask for again, put in the answer and read by the       *)
(* client.  A sender is native when it uses the Rust conversions; other    *)
(* senders fill the messages themselves.  A HashMap or HashSet is written  *)
(* in any order.  A byte string is its length and what it holds; an id is  *)
(* the sequence of its parts between dashes, the uuid being one part.      *)
(***************************************************************************)
EXTENDS Integers, Sequences, FiniteSets, SequencesExt, TLC

CONSTANTS
  Uuids,         \* parts that parse as a uuid
  Natives,       \* the values native senders hold
  Foreign        \* the messages other senders write

VARIABLES
  origin,   \* the value or the message it all starts with
  native,   \* whether the sender is native
  wire,     \* the message on its way
  kept,     \* the value the service keeps
  seen,     \* the value the client reads in the answer
  at        \* "sender", "service", "kept", "answer", "seen" or "refused"

vars == <<origin, native, wire, kept, seen, at>>

None == [kind |-> "none"]
Refused == [kind |-> "refused"]
NoBytes == [len |-> 0, of |-> "empty"]

-----------------------------------------------------------------------------
(* FileCrypto *)

\* FileCrypto::schema.
schema ==
  "AesGcm128" :> "aes-gcm-128" @@ "AesGcm256" :> "aes-gcm-256" @@
  "TeaclaveFile128" :> "teaclave-file-128" @@ "Raw" :> "raw"

KeyLength == "AesGcm128" :> 16 @@ "AesGcm256" :> 32 @@ "TeaclaveFile128" :> 16

IvLength == "AesGcm128" :> 12 @@ "AesGcm256" :> 12 @@ "TeaclaveFile128" :> 0

\* Raw has neither key nor iv, TeaclaveFile128 no iv.
Variant(c, m) ==
  [kind |-> m.kind, is |-> c,
   key |-> IF c = "Raw" THEN {} ELSE {m.key},
   iv |-> IF c \in {"Raw", "TeaclaveFile128"} THEN {} ELSE {m.iv}]

FileCrypto_new(m) ==
  LET V == {c \in DOMAIN schema : /\ schema[c] = m.schema
                                  /\ c # "Raw" => /\ m.key.len = KeyLength[c]
                                                  /\ m.iv.len = IvLength[c]}
  IN IF V = {} THEN Refused ELSE Variant(CHOOSE c \in V : TRUE, m)

\* key_iv: what a variant lacks is written as no bytes.
BytesOf(b) == IF b = {} THEN NoBytes ELSE CHOOSE x \in b : TRUE

FileCryptoInfo(c) ==
  [kind |-> c.kind, schema |-> schema[c.is], key |-> BytesOf(c.key), iv |-> BytesOf(c.iv)]

-----------------------------------------------------------------------------
(* Enumerations *)

TaskStatusCode ==
  "Created" :> 0 @@ "DataAssigned" :> 1 @@ "Approved" :> 2 @@ "Staged" :> 3 @@
  "Running" :> 4 @@ "Finished" :> 10 @@ "Canceled" :> 20 @@ "Failed" :> 99

ExecutorStatusCode == "Idle" :> 0 @@ "Executing" :> 1

ExecutorCommandCode == "NoAction" :> 0 @@ "Stop" :> 1 @@ "NewTask" :> 2

CodeOf(table, v) == [kind |-> v.kind, code |-> table[v.name]]

\* from_i32 of prost: the variants of the message's enumeration with a code,
\* and then the arm of the match, if there is one.
NameOf(table, arms, m) ==
  LET variants == {p \in DOMAIN arms : table[p] = m.code}
  IN  IF variants = {} THEN Refused
      ELSE [kind |-> m.kind, name |-> arms[CHOOSE p \in variants : TRUE]]

i32_from_task_status(v) == CodeOf(TaskStatusCode, v)

i32_to_task_status(m) ==
  NameOf(TaskStatusCode,
    "Created" :> "Created" @@ "DataAssigned" :> "DataAssigned" @@ "Approved" :> "Approved" @@
    "Staged" :> "Staged" @@ "Running" :> "Running" @@ "Finished" :> "Finished" @@
    "Failed" :> "Failed" @@ "Canceled" :> "Canceled", m)

i32_from_executor_status(v) == CodeOf(ExecutorStatusCode, v)

i32_to_executor_status(m) ==
  NameOf(ExecutorStatusCode, "Idle" :> "Idle" @@ "Executing" :> "Executing", m)

i32_from_command(v) == CodeOf(ExecutorCommandCode, v)

i32_to_command(m) ==
  NameOf(ExecutorCommandCode,
    "NoAction" :> "NoAction" @@ "Stop" :> "Stop" @@ "NewTask" :> "NewTask", m)

-----------------------------------------------------------------------------
(* TaskResult, a oneof in its message *)

TagLength == 16

proto_TaskResult(r) ==
  [kind |-> r.kind,
   oneof |-> CASE r.is = "Ok" -> <<[is |-> "Ok", value |-> r.value, tags |-> r.tags]>>
               [] r.is = "Err" -> <<[is |-> "Err", reason |-> r.reason]>>
               [] r.is = "NotReady" -> <<>>]

TaskResult_from(m) ==
  IF m.oneof = <<>> THEN [kind |-> m.kind, is |-> "NotReady"]
  ELSE LET r == Head(m.oneof)
       IN IF r.is = "Err" THEN [kind |-> m.kind, is |-> "Err", reason |-> r.reason]
          ELSE IF \A n \in DOMAIN r.tags : r.tags[n].len = TagLength
               THEN [kind |-> m.kind, is |-> "Ok", value |-> r.value, tags |-> r.tags]
               ELSE Refused

-----------------------------------------------------------------------------
(* The audit log's Entry *)

IpLength == 16

proto_Entry(e) == [e EXCEPT !.ip = [len |-> IpLength, of |-> e.ip]]

Entry_from(m) ==
  IF m.ip.len = IpLength THEN [m EXCEPT !.ip = m.ip.of] ELSE Refused

-----------------------------------------------------------------------------
(* Functions: Option<i32> is a set of at most one number *)

QuotaOf(i) == IF i >= 0 THEN {i} ELSE {}

unwrap_quota(q) == IF q = {} THEN -1 ELSE CHOOSE i \in q : TRUE

ExecutorTypes == {"builtin", "python", "wamr"}

\* ExternalID::try_from: the prefix ends at the first dash, the rest is the
\* uuid.
IsId(s) == Len(s) = 2 /\ s[2] \in Uuids

RegisterFunctionRequest(f) == [f EXCEPT !.quota = unwrap_quota(f.quota)]

FromRegisterFunction(m) ==
  IF m.executor_type \in ExecutorTypes
  THEN [m EXCEPT !.quota = QuotaOf(m.quota)] ELSE Refused

\* An update names the function: its id is written with the prefix, the
\* builder takes the uuid alone.
UpdateFunctionRequest(f) ==
  [f EXCEPT !.id = <<"function", f.id>>, !.quota = unwrap_quota(f.quota)]

FromUpdateFunction(m) ==
  IF IsId(m.id) /\ m.executor_type \in ExecutorTypes
  THEN [m EXCEPT !.id = m.id[2], !.quota = QuotaOf(m.quota)] ELSE Refused

-----------------------------------------------------------------------------
(* Owners and files by data name *)

\* The pairs of a map, in any order.
Listings(map) == SetToSeqs({<<n, map[n]>> : n \in DOMAIN map})

\* Collecting pairs in a HashMap: the last pair of a name stays.
Collected(pairs) ==
  [n \in {pairs[i][1] : i \in DOMAIN pairs} |->
     pairs[SelectLastInSeq(pairs, LAMBDA p : p[1] = n)][2]]

\* A HashSet of owners for each name, each in any order.
Orders(map) ==
  {o \in [DOMAIN map -> UNION {SetToSeqs(map[n]) : n \in DOMAIN map}] :
     \A n \in DOMAIN map : o[n] \in SetToSeqs(map[n])}

to_proto_ownership(v) ==
  {[kind |-> v.kind, list |-> l] : l \in UNION {Listings(o) : o \in Orders(v.map)}}

from_proto_ownership(m) ==
  [kind |-> m.kind,
   map |-> Collected([i \in DOMAIN m.list |-> <<m.list[i][1], ToSet(m.list[i][2])>>])]

to_proto_file_ids(v) == {[kind |-> v.kind, list |-> l] : l \in Listings(v.map)}

from_proto_file_ids(m) ==
  IF \A i \in DOMAIN m.list : IsId(m.list[i][2])
  THEN [kind |-> m.kind, map |-> Collected(m.list)] ELSE Refused

-----------------------------------------------------------------------------
(* The way of a value *)

\* The messages a native sender may write for a value.
Encodings(v) ==
  CASE v.kind = "crypto" -> {FileCryptoInfo(v)}
    [] v.kind = "status" -> {i32_from_task_status(v)}
    [] v.kind = "executor" -> {i32_from_executor_status(v)}
    [] v.kind = "command" -> {i32_from_command(v)}
    [] v.kind = "result" -> {proto_TaskResult(v)}
    [] v.kind = "entry" -> {proto_Entry(v)}
    [] v.kind = "register" -> {RegisterFunctionRequest(v)}
    [] v.kind = "update" -> {UpdateFunctionRequest(v)}
    [] v.kind = "owners" -> to_proto_ownership(v)
    [] v.kind = "files" -> to_proto_file_ids(v)

Decoded(m) ==
  CASE m.kind = "crypto" -> FileCrypto_new(m)
    [] m.kind = "status" -> i32_to_task_status(m)
    [] m.kind = "executor" -> i32_to_executor_status(m)
    [] m.kind = "command" -> i32_to_command(m)
    [] m.kind = "result" -> TaskResult_from(m)
    [] m.kind = "entry" -> Entry_from(m)
    [] m.kind = "register" -> FromRegisterFunction(m)
    [] m.kind = "update" -> FromUpdateFunction(m)
    [] m.kind = "owners" -> from_proto_ownership(m)
    [] m.kind = "files" -> from_proto_file_ids(m)

\* The kinds get_task and query_audit_logs answer with.
Echoed == {"result", "entry", "owners", "files"}

Init ==
  /\ native \in BOOLEAN
  /\ origin \in IF native THEN Natives ELSE Foreign
  /\ wire = None /\ kept = None /\ seen = None
  /\ at = "sender"

Send ==
  /\ at = "sender"
  /\ wire' \in IF native THEN Encodings(origin) ELSE {origin}
  /\ at' = "service"
  /\ UNCHANGED <<origin, native, kept, seen>>

\* The handler of the service converts the request or returns the error.
Keep ==
  /\ at = "service"
  /\ kept' = Decoded(wire)
  /\ at' = IF kept' = Refused THEN "refused" ELSE "kept"
  /\ UNCHANGED <<origin, native, wire, seen>>

Answer ==
  /\ at = "kept" /\ kept.kind \in Echoed
  /\ wire' \in Encodings(kept)
  /\ at' = "answer"
  /\ UNCHANGED <<origin, native, kept, seen>>

Read ==
  /\ at = "answer"
  /\ seen' = Decoded(wire)
  /\ at' = "seen"
  /\ UNCHANGED <<origin, native, wire, kept>>

Next == Send \/ Keep \/ Answer \/ Read

Spec == Init /\ [][Next]_vars

-----------------------------------------------------------------------------
(* Properties *)

\* A value a native sender puts in a message is the value the service keeps,
\* whatever the order its maps are written in: a quota of zero stays a quota, a
\* failure stays a failure, every status its own.  And what the client reads
\* in the answer is what the service keeps, also when another sender wrote a
\* name twice: owners, files and results are shown as they are checked.
SentIsKept ==
  /\ native /\ at \in {"kept", "answer", "seen", "refused"} => kept = origin
  /\ at = "seen" => seen = kept

\* What a service keeps is well formed whoever wrote the message: keys, ivs
\* and tags have the length their use needs, a quota is none or a natural
\* number, a file has an id with a uuid and a name has one entry.
KeptIsWellFormed ==
  at \in {"kept", "answer", "seen"} =>
    CASE kept.kind = "crypto" ->
           \A b \in kept.key \cup kept.iv :
             b.len = IF b \in kept.key THEN KeyLength[kept.is] ELSE IvLength[kept.is]
      [] kept.kind \in {"register", "update"} ->
           /\ kept.quota \subseteq Nat /\ Cardinality(kept.quota) <= 1
           /\ kept.executor_type \in ExecutorTypes
      [] kept.kind = "files" -> \A n \in DOMAIN kept.map : kept.map[n][2] \in Uuids
      [] OTHER -> TRUE

=============================================================================
