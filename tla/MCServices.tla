----------------------------- MODULE MCServices -----------------------------
(***************************************************************************)
(* The services around the tasks, each in an instance of its own: the user *)
(* accounts of authentication, the functions and files that management     *)
(* keeps, what an executor does with a task, the clients, their messages   *)
(* and the calls into an enclave.  The part that a behaviour is about is   *)
(* fixed in its first state; x1 .. x11 stand for its variables.  The part  *)
(* "accounts" is Authentication, with its own variables.                   *)
(***************************************************************************)
EXTENDS Authentication, Integers, Sequences

CONSTANTS Parts, FromOutput, Nothing

VARIABLES part, x1, x2, x3, x4, x5, x6, x7, x8, x9, x10, x11

pool == <<x1, x2, x3, x4, x5, x6, x7, x8, x9, x10, x11>>
all == <<part, authVars, pool>>

\* A function owner and an administrator: one call at a time, as behind the
\* mutex of one frontend, with failures; or two, as with two frontends.
OwnerCall == [user |-> "u1", role |-> "FunctionOwner", attr |-> "u1"]
AdminCall == [user |-> "u2", role |-> "PlatformAdmin", attr |-> "u2"]
ForOne == [public |-> FALSE, allow |-> <<"u2">>]
ForBoth == [public |-> FALSE, allow |-> <<"u1", "u2">>]
ForAll == [public |-> TRUE, allow |-> <<"u2">>]
Registries == {"registry", "registry_two", "registry_lists"}
RegistryOf(p) == INSTANCE FunctionRegistry WITH
    Users <- {"u1", "u2"}, Callers <- {OwnerCall, AdminCall},
    Ids <- IF p = "registry_two" THEN {"f1"} ELSE {"f1", "f2"},
    Settings <- IF p = "registry" THEN {ForOne, ForBoth, ForAll} ELSE {ForOne, ForAll},
    Apis <- {"register"} \cup IF p = "registry_lists" THEN {} ELSE {"update", "delete", "disable"},
    Slots <- IF p = "registry" THEN {"h1"} ELSE {"h1", "h2"},
    MaxFail <- IF p = "registry" THEN 1 ELSE 0,
    functions <- x1, users <- x2, usage <- x3, handler <- x4, failed <- x5, drawn <- x6,
    acked <- x7, ever <- x8, deleted <- x9, astray <- x10

\* Two users, each with a key of their own.
UserOfKey(k) == IF k = <<"k1">> THEN "u1" ELSE "u2"
Files == INSTANCE FileRegistry WITH
    Users <- {"u1", "u2"}, Uuids <- {1, 2}, Urls <- {<<"url">>}, Keys <- {<<"k1">>, <<"k2">>},
    KeyOf <- UserOfKey, OwnerLists <- {<<"u1">>, <<"u1", "u2">>, <<"u2", "u2">>},
    Tags <- {"s", "t"}, Tasks <- {"t1", "t2"},
    inputs <- x1, outputs <- x2, drawn <- x3, task <- x4, finished <- x5

\* A task that makes two files of three, and one that uses the files made; or
\* two tasks with the same urls for their outputs, and one that uses the files
\* of the first.
Aes == [schema |-> "aes-gcm", key |-> <<"k1">>]
File128 == [schema |-> "teaclave-file-128", key |-> <<"k2">>]
Unencrypted == [schema |-> "raw", key |-> <<>>]
File(crypto, data) == [crypto |-> crypto, data |-> data]
InputsOf(t) == IF t = "t1" THEN {"in", "other", "raw"} ELSE {"in", "more"}
OutputsOf(t) == IF t = "t1" THEN {"out", "more"} ELSE {}
TheInput(t, i) ==
    CASE t = "t1" /\ i = "in" -> [url |-> "a", crypto |-> Aes, tag |-> File(Aes, "d1")]
      [] t = "t1" /\ i = "other" -> [url |-> "b", crypto |-> File128, tag |-> File(File128, "d2")]
      [] i = "raw" -> [url |-> "c", crypto |-> Unencrypted, tag |-> Nothing]
      [] i = "in" -> [url |-> "x", crypto |-> Aes, tag |-> FromOutput, from |-> <<"t1", "out">>]
      [] OTHER -> [url |-> "y", crypto |-> File128, tag |-> FromOutput, from |-> <<"t1", "more">>]
TheOutput(t, o) ==
    IF o = "out" THEN [url |-> "x", crypto |-> Aes] ELSE [url |-> "y", crypto |-> File128]
TheFiles == [a |-> File(Aes, "d1"), b |-> File(File128, "d2"), c |-> File(Unencrypted, "d3"),
             x |-> Nothing, y |-> Nothing]
Transfers == INSTANCE TaskFiles WITH
    Tasks <- {"t1", "t2"}, Inputs <- InputsOf, Outputs <- OutputsOf, InputOf <- TheInput,
    OutputOf <- TheOutput, Http <- {"y"}, Data <- {"e1", "empty"}, Fixed <- TheFiles,
    MaxFail <- 1, MaxTamper <- 1, Absent <- Nothing,
    remote <- x1, local <- x2, task <- x3, tampered <- x4, fails <- x5

SharedInputs(t) == IF t = "t3" THEN {"in", "more"} ELSE {}
SharedOutputs(t) == CASE t = "t1" -> {"out", "more"} [] t = "t2" -> {"out", "more"} [] OTHER -> {}
Shared == INSTANCE TaskFiles WITH
    Tasks <- {"t1", "t2", "t3"}, Inputs <- SharedInputs, Outputs <- SharedOutputs,
    InputOf <- TheInput, OutputOf <- TheOutput, Http <- {"y"}, Data <- {"e1", "e2"},
    Fixed <- TheFiles, MaxFail <- 0, MaxTamper <- 0, Absent <- Nothing,
    remote <- x1, local <- x2, task <- x3, tampered <- x4, fails <- x5

Runtime == INSTANCE FunctionContext WITH
    InputFiles <- {"in"}, OutputFiles <- {"out", "log"}, Unknown <- {"other"},
    InputLength <- 1, MaxSequence <- 4, MaxRuns <- 2, MaxWrites <- 1,
    run <- x1, context <- x2, output <- x3, reply <- x4, told <- x5, mine <- x6,
    wrote <- x7, opened <- x8, runs <- x9

Logger == INSTANCE TaskLog WITH
    Tasks <- {"t1", "t2", "t3"}, SaveLog <- {"t1", "t2"}, MayFail <- {"t1"}, MaxRecords <- 2,
    task_logger <- x1, poisoned <- x2, buffer <- x3, secondary <- x4, main <- x5,
    worker <- x6, left <- x7, logged <- x8, outcome <- x9

\* Up to three keys of three values, and up to two lines with amounts whose
\* sums pass the modulus.
NoLine == <<0, 0>>
KeyLists == UNION {[1 .. n -> 1 .. 3] : n \in 0 .. 3}
SomeLines == ((1 .. 2) \X {1, 3}) \cup {NoLine}
Builtin == INSTANCE SetFunctions WITH
    Lists <- KeyLists, BadLine <- NoLine, MaxUsers <- 3, Modulus <- 4,
    Lines <- UNION {[1 .. n -> SomeLines] : n \in 0 .. 1} \cup {<<<<1, 3>>, l>> : l \in SomeLines},
    f <- x1, args <- x2, in <- x3, pc <- x4, i <- x5, j <- x6, out <- x7

\* A client for each service, in Python, in Rust (twice: where services are
\* replaced, and where they stay), or in Rust and C, and what an upgrade or a
\* mixed-up address puts at an address.
SomeListeners ==
    {[service |-> "frontend", release |-> 1], [service |-> "frontend", release |-> 2],
     [service |-> "authentication", release |-> 1]}
AuthClient(p) == IF p = "python" THEN <<"python", "authentication">> ELSE <<"rust", "authentication">>
FrontClient(p) == <<IF p = "polls" THEN "rust" ELSE p, "frontend">>
Users == {"python", "rust", "polls", "c"}
ClientsOf == [p \in Users |-> {AuthClient(p), FrontClient(p)}]
KindOf == [p \in Users |-> [c \in ClientsOf[p] |-> c[1]]]
ServiceOf == [p \in Users |-> [c \in ClientsOf[p] |-> c[2]]]
User(p) == INSTANCE Client WITH
    Users <- {}, Tasks <- {}, Functions <- {}, InputNames <- {}, OutputNames <- {},
    InputFiles <- {}, OutputFiles <- {}, None <- Nothing,
    Clients <- ClientsOf[p], Kind <- KindOf[p], Service <- ServiceOf[p],
    Ops <- {"UserLogin", "InvokeTask", "CancelTask"},
    Release <- 1, Listeners <- SomeListeners, MaxStarts <- IF p \in {"c", "polls"} THEN 0 ELSE 1,
    MaxTokens <- 1, MaxValue <- IF p = "c" THEN 2 ELSE 1,
    at <- x1, starts <- x2, valid <- x3, issued <- x4, task <- x5, asked <- x6, link <- x7,
    cred <- x8, call <- x9, ret <- x10, buf <- x11

\* Values of every kind, and messages as a sender with its own encoder may
\* write them: keys of another length, unknown names, no quota, names that
\* appear twice.
Names == {"x", "y"}
WireUsers == {"alice", "bob"}
SomeUuids == {"u1", "u2"}

Bytes(n) == [len |-> n, of |-> "bytes"]

Partial(D, R) == UNION {[d -> R] : d \in SUBSET D}

NativeCrypto ==
  {[kind |-> "crypto", is |-> "AesGcm128", key |-> {Bytes(16)}, iv |-> {Bytes(12)}],
   [kind |-> "crypto", is |-> "AesGcm256", key |-> {Bytes(32)}, iv |-> {Bytes(12)}],
   [kind |-> "crypto", is |-> "TeaclaveFile128", key |-> {Bytes(16)}, iv |-> {}],
   [kind |-> "crypto", is |-> "Raw", key |-> {}, iv |-> {}]}

NativeEnums ==
  [kind : {"status"}, name : {"Created", "DataAssigned", "Approved", "Staged",
                              "Running", "Finished", "Canceled", "Failed"}]
    \cup [kind : {"executor"}, name : {"Idle", "Executing"}]
    \cup [kind : {"command"}, name : {"NoAction", "Stop", "NewTask"}]

NativeResults ==
  {[kind |-> "result", is |-> "NotReady"], [kind |-> "result", is |-> "Err", reason |-> "r"]}
    \cup [kind : {"result"}, is : {"Ok"}, value : {"v", ""}, tags : Partial(Names, {Bytes(16)})]

Types == {"builtin", "python", "wamr"}

NativeFunctions ==
  [kind : {"register"}, public : BOOLEAN, executor_type : Types, quota : {{}, {0}, {1}}]
    \cup [kind : {"update"}, id : SomeUuids, public : BOOLEAN, executor_type : Types,
          quota : {{}, {0}, {1}}]

NativeValues ==
  NativeCrypto \cup NativeEnums \cup NativeResults \cup NativeFunctions
    \cup [kind : {"entry"}, ip : {"a", "b"}, result : BOOLEAN]
    \cup [kind : {"owners"}, map : Partial(Names, SUBSET WireUsers)]
    \cup [kind : {"files"}, map : Partial(Names, {<<"input", "u1">>, <<"output", "u2">>})]

FileIds == {<<"input", "u1">>, <<"input">>, <<"input", "">>, <<"input", "u", "u1">>}

ForeignMessages ==
  [kind : {"crypto"}, schema : {"aes-gcm-128", "aes-gcm-256", "teaclave-file-128", "raw", "none"},
   key : {Bytes(n) : n \in {0, 16, 32}}, iv : {Bytes(n) : n \in {0, 12}}]
    \cup [kind : {"register"}, public : BOOLEAN, executor_type : {"builtin", "mesapy"},
          quota : -2 .. 1]
    \cup [kind : {"update"}, id : FileIds, public : BOOLEAN, executor_type : {"builtin", "mesapy"},
          quota : -2 .. 1]
    \cup [kind : {"owners"},
          list : UNION {[1 .. n -> Names \X {<<>>, <<"alice">>, <<"bob", "alice">>, <<"bob", "bob">>}] :
                          n \in 0 .. 2}]
    \cup [kind : {"files"}, list : UNION {[1 .. n -> Names \X FileIds] : n \in 0 .. 2}]

Messages == INSTANCE Wire WITH
    Uuids <- SomeUuids, Natives <- NativeValues, Foreign <- ForeignMessages,
    origin <- x1, native <- x2, wire <- x3, kept <- x4, seen <- x5, at <- x6

Call == INSTANCE ECall WITH
    FirstSize <- 256, Lengths <- {1, 255, 256, 257, 258, 300}, MaxCalls <- 3, None <- Nothing,
    call <- x1, runs <- x2, result <- x3, calls <- x4

Un10 == x10 = 0 /\ x11 = 0
Un8 == x8 = 0 /\ x9 = 0 /\ Un10
Un6 == x6 = 0 /\ x7 = 0 /\ Un8
Keep10 == UNCHANGED <<x10, x11>>
Keep8 == UNCHANGED <<x8, x9>> /\ Keep10
Keep6 == UNCHANGED <<x6, x7>> /\ Keep8

PartInit(p) ==
    \/ p = "accounts" /\ x1 = 0 /\ x2 = 0 /\ x3 = 0 /\ x4 = 0 /\ x5 = 0 /\ Un6
    \/ p \in Registries /\ RegistryOf(p)!Init /\ x11 = 0
    \/ p = "files" /\ Files!Init /\ Un6
    \/ p = "transfers" /\ Transfers!Init /\ Un6
    \/ p = "shared_urls" /\ Shared!Init /\ Un6
    \/ p = "runtime" /\ Runtime!Init /\ Un10
    \/ p = "logger" /\ Logger!Init /\ Un10
    \/ p = "builtin" /\ Builtin!Init /\ Un8
    \/ p \in Users /\ User(p)!Init
    \/ p = "wire" /\ Messages!Init /\ x7 = 0 /\ Un8
    \/ p = "ecall" /\ Call!Init /\ x5 = 0 /\ Un6

BuiltinNext == part = "builtin" /\ Builtin!Next /\ Keep8 /\ UNCHANGED <<part, authVars>>

PartNext(p) ==
    \/ p \in Registries /\ RegistryOf(p)!Next /\ UNCHANGED x11
    \/ p = "files" /\ Files!Next /\ Keep6
    \/ p = "transfers" /\ Transfers!Next /\ Keep6
    \/ p = "shared_urls" /\ Shared!Next /\ Keep6
    \/ p = "runtime" /\ Runtime!Next /\ Keep10
    \/ p = "logger" /\ Logger!Next /\ Keep10
    \/ p \in Users /\ User(p)!Next
    \/ p = "wire" /\ Messages!Next /\ UNCHANGED x7 /\ Keep8
    \/ p = "ecall" /\ Call!Next /\ UNCHANGED x5 /\ Keep6

AnyInit == Init /\ \E p \in Parts : part = p /\ PartInit(p)
AnyNext ==
    \/ part = "accounts" /\ Next /\ UNCHANGED <<part, pool>>
    \/ BuiltinNext
    \/ \E p \in Parts : part = p /\ PartNext(p) /\ UNCHANGED <<part, authVars>>

AnySpec == AnyInit /\ [][AnyNext]_all

\* A function that an executor runs goes on, and so does a client that polls.
GoesOn ==
    \/ BuiltinNext
    \/ /\ \E p \in {"python", "polls"} : part = p /\ User(p)!Poll(FrontClient(p))
       /\ UNCHANGED <<part, authVars>>
FairSpec == AnySpec /\ WF_all(GoesOn)

-----------------------------------------------------------------------------
\* The owner of a function decides.  delete_function is final, but for an update
\* or a disabling that had read the function before: its write comes after the
\* deletion and stores the function again.  Whether a function is public, and
\* who may use it, is set by its owner in update_function; others can at most
\* disable it, which stores it as it was when disable_function read it, with an
\* empty allow list.  A function whose registration was acknowledged has a use
\* count and is listed for its owner and the users it is for, until somebody
\* disables it or a handler writes back the lists of the user that it had read
\* before; and whoever create_task lets use it by their own id can look at it
\* with get_function.
OwnerDecides ==
    /\ [](\A p \in Registries : part = p => RegistryOf(p)!AckedIsComplete /\ RegistryOf(p)!UsableIsVisible)
    /\ [][\A p \in Registries : part = p => RegistryOf(p)!KeepsDeleted /\ RegistryOf(p)!ChangedByOwner]_all

\* A key stays with its owners: whatever files were registered, updated and
\* turned into inputs, two files encrypted with the same key have the same
\* owners, and every one of them can look at both.  An input made of an output
\* (register_input_from_output) is what a task has written: it has the place and
\* the key of the output and a tag that a finished task gave to it, not always
\* the tag it has now, as several tasks may have the output.
KeyKeepsOwners == part = "files" => Files!KeyKeepsOwners /\ Files!InputIsFinishedOutput

\* What a function reads is what was encrypted under the tag of the input,
\* whoever replaced the file in the meantime.  When invoke_task succeeds every
\* output is where its url says, encrypted as was asked for, and with the tag
\* that is reported, or one with the same url has been copied over it; and a
\* task that uses it gets its inputs, unless a transfer fails, the file is
\* replaced or overwritten, or it is empty and encrypted with AES-GCM.
ReadsAreAuthentic ==
    /\ part = "transfers" =>
         Transfers!ReadsAreAuthentic /\ Transfers!ReportedIsStored /\ Transfers!OutputsAreUsable
    /\ part = "shared_urls" =>
         Shared!ReadsAreAuthentic /\ Shared!ReportedIsStored /\ Shared!OutputsAreUsable

\* A run is of its own task alone.  The files that a function has open, as it
\* was told, are those of its context, and an output is what it wrote with the
\* handles for it: HandleRegistry, HandleEncoding and Sequence never mix up two
\* files, nor a handle and an error; set_thread_context never finds a context of
\* an earlier task.  The log that comes with the outputs of a task with save_log
\* is what the process logged while the task ran, all of it and nothing else;
\* "only one task is allowed to be logged" (log_task) and "task should be logged
\* before being ended" (end_logging_task) do not fail before a task with save_log
\* has ended with an error, which leaves its logger behind.
RunsAreSeparate ==
    /\ part = "runtime" => Runtime!HandlesAreTold /\ Runtime!EveryRunStartsAfresh
    /\ part = "logger" => Logger!OneTaskIsLogged /\ Logger!LogIsOfItsTask

\* builtin-ordered-set-intersect marks, in both inputs, as many elements of a
\* value as the input with fewer of them has.  builtin-ordered-set-join, "Input
\* data should be sorted by the specified index column" (ordered_set_join.rs:24),
\* writes for such inputs the records of equal key in pairs, the first with the
\* first and so on, in the order of the first file.
\* builtin-private-join-and-compute gives every identity that all users have,
\* and no other, with the sum of the amounts of all users, as a u32, which wraps
\* in a release build and ends a debug build in a panic when it does not fit
\* (private_join_and_compute.rs:107).  But for that they end with their result on
\* every input that is there, not empty and in order.
BuiltinsAreExact ==
    /\ [](part = "builtin" =>
            Builtin!IntersectionIsExact /\ Builtin!JoinIsExact /\ Builtin!SumIsExact)
    /\ <>(part = "builtin" => Builtin!EndedWell)

\* A call that a service carried out for a client was carried out by the
\* enclave that the client's enclave info names, also after the service was
\* replaced while the client was running (teaclave.py, lib.rs connect).
\* get_task_result returns only for a finished task: its value, or, in Python
\* alone, the empty value for a task that finished with an error
\* (teaclave.py:1071-1084).  The buffer of a C caller holds nothing or all of
\* the value.  "this is a blocking function and
\* wait for the return of the task" (bindings.rs:345): get_task_result of either
\* client ends once the task has ended, in whatever way.
ClientsGetResults ==
    /\ [](\A p \in Users : part = p => /\ User(p)!ServedByItsService
                                       /\ User(p)!ValueIsFinal /\ User(p)!BufferIsWhole)
    /\ (\E p \in {"python", "polls"} : part = p /\ User(p)!WaitsForEnded(FrontClient(p)))
         ~> (\E p \in {"python", "polls"} : part = p /\ User(p)!Returned(FrontClient(p)))

\* What a service keeps of a message of a client is what the client meant, and
\* what the client reads in the answer is what the service keeps; it is well
\* formed whoever wrote the message.  ecall_ipc_app_to_tee: a call that succeeds
\* returns the whole reply of the handler's last run, and a reply of at most 256
\* bytes, which is what the commands of the services give, comes from its only
\* run.
MessagesAreWhole ==
    /\ [](part = "wire" => Messages!SentIsKept /\ Messages!KeptIsWellFormed)
    /\ [](part = "ecall" => Call!ReplyIsWhole)
    /\ [][part = "ecall" => Call!RunsOnce]_all
=============================================================================
