------------------------------ MODULE MCAccess ------------------------------
(***************************************************************************)
(* How the services come up and let users in, each piece in an instance of *)
(* its own: the frontend with its access control and audit log, and how    *)
(* the processes of the services are launched, start and attest            *)
(* themselves.  The part that a behaviour is about is fixed in its first   *)
(* state; x1 .. x17 stand for its variables.                               *)
(***************************************************************************)
EXTENDS Integers, Sequences

CONSTANTS Parts, None

VARIABLES part, x1, x2, x3, x4, x5, x6, x7, x8, x9, x10, x11, x12, x13, x14, x15, x16, x17

all == <<part, x1, x2, x3, x4, x5, x6, x7, x8, x9, x10, x11, x12, x13, x14, x15, x16, x17>>

\* Accounts that change under one call; two calls, callers that go away and
\* requests that fail; the same without.
Front(p) == INSTANCE Frontend WITH
    Ids <- {"admin"} \cup (IF p = "frontend" THEN {"user"} ELSE {}), Admin <- "admin",
    Attributes <- {"a"}, Passwords <- {"teaclave"}, Default <- "teaclave",
    LifeTime <- IF p = "frontend" THEN 1 ELSE 0, MaxTime <- IF p = "frontend" THEN 0 ELSE 1,
    MaxWrites <- IF p = "frontend" THEN 2 ELSE 0, MaxRestarts <- 0,
    MaxTokens <- IF p = "frontend" THEN 2 ELSE 1, Faulty <- FALSE,
    Calls <- IF p = "frontend" THEN {"c1"} ELSE {"c1", "c2"},
    Apis <- {"create_task"} \cup (IF p = "frontend" THEN {"register_function"} ELSE {}),
    MaxGone <- IF p = "audit_saved" THEN 0 ELSE 1, SavesFail <- p # "audit_saved",
    users <- x1, disk <- x2, secret <- x3, tokens <- x4, now <- x5, writes <- x6,
    grants <- x7, held <- x8, acked <- x9, handler <- x10, client <- x11, buffer <- x12,
    buffer_lock <- x13, agent <- x14, gone <- x15, executed <- x16, saved <- x17

\* Answers of the attestation service: one for each thing that get_report,
\* from_cert or the verifier looks at.
GoodAnswer ==
  [stream |-> "aborted", complete |-> TRUE, code |-> 200, content_length |-> 1,
   signature |-> TRUE, certs |-> 1, trusted |-> TRUE, version |-> 4,
   status |-> "GROUP_OUT_OF_DATE", format |-> [version |-> 2, kind |-> 1, len |-> 432]]
AllAnswers ==
  {GoodAnswer,
   [GoodAnswer EXCEPT !.stream = "failed"], [GoodAnswer EXCEPT !.complete = FALSE],
   [GoodAnswer EXCEPT !.code = 503], [GoodAnswer EXCEPT !.content_length = 0],
   [GoodAnswer EXCEPT !.signature = FALSE], [GoodAnswer EXCEPT !.certs = 0],
   [GoodAnswer EXCEPT !.certs = -1], [GoodAnswer EXCEPT !.trusted = FALSE],
   [GoodAnswer EXCEPT !.version = 3], [GoodAnswer EXCEPT !.status = "NEW_STATUS"],
   [GoodAnswer EXCEPT !.format.len = 431], [GoodAnswer EXCEPT !.format.version = 3]}
SomeAnswers == {GoodAnswer, [GoodAnswer EXCEPT !.code = 503]}

\* Two auditors signed release 1, all three release 2 and none release 4; one
\* signature of release 3 verifies under no auditor's key.
SomeSignatures == <<<<{1}, {2}>>, <<{1}, {2}, {3}>>, <<{1}, {}>>, << >>>>

\* The whole deployment; an upgrade with failing attestations and binds; the
\* frontend at releases that the others pass or refuse; the freshness keepers,
\* where the clock of storage is behind.
AllServices == <<"storage", "authentication", "access_control", "management", "scheduler",
                 "frontend", "execution">>
ServicesOf ==
    [deployment |-> {AllServices[i] : i \in 1 .. 7},
     upgrade |-> {"storage", "scheduler", "authentication"},
     unverified |-> {"storage", "authentication", "access_control", "management", "frontend"},
     keeper |-> {"storage", "management"}]
LagOf == [p \in DOMAIN ServicesOf |->
            [s \in ServicesOf[p] |-> IF p = "keeper" /\ s = "storage" THEN 1 ELSE 0]]
AnswersOf == [deployment |-> {GoodAnswer}, upgrade |-> AllAnswers,
              unverified |-> {GoodAnswer}, keeper |-> SomeAnswers]
ReleasesOf == [deployment |-> {1}, upgrade |-> {1, 2, 3}, unverified |-> {1, 3, 4}, keeper |-> {1}]
Deploy(p) == INSTANCE Startup WITH
    Services <- ServicesOf[p], NumAuditors <- 3, Signatures <- SomeSignatures,
    Releases <- ReleasesOf[p],
    Final <- CASE p = "upgrade" -> 2 [] p = "unverified" -> 4 [] OTHER -> 1,
    Responses <- AnswersOf[p],
    BindMayFail <- IF p = "upgrade" THEN {"scheduler", "authentication"} ELSE {},
    Validity <- 2, MaxAge <- IF p = "keeper" THEN 5 ELSE 0,
    Lag <- LagOf[p],
    MaxFaults <- CASE p = "upgrade" -> 2 [] p = "unverified" -> 3 [] OTHER -> 1,
    pc <- x1, rel <- x2, eps <- x3, attested <- x4, tls <- x5, wait <- x6, links <- x7,
    faults <- x8

Process == INSTANCE Launcher WITH
    Services <- {"storage", "execution"}, MaxSignals <- 2,
    service <- x1, main <- x2, starter <- x3, enclave <- x4, ran <- x5, handlers <- x6,
    handling <- x7, term <- x8, token <- x9, process <- x10, signals <- x11

Audits == {"audit", "audit_saved"}
Fronts == {"frontend"} \cup Audits
Deployments == {"deployment", "upgrade", "unverified", "keeper"}

Rest9 == <<x9, x10, x11, x12, x13, x14, x15, x16, x17>>
Rest12 == <<x12, x13, x14, x15, x16, x17>>

Un12 == x12 = 0 /\ x13 = 0 /\ x14 = 0 /\ x15 = 0 /\ x16 = 0 /\ x17 = 0
Un9 == x9 = 0 /\ x10 = 0 /\ x11 = 0 /\ Un12

PartInit(p) ==
    \/ p \in Fronts /\ Front(p)!FrontInit
    \/ p \in Deployments /\ Deploy(p)!Init /\ Un9
    \/ p = "launcher" /\ Process!Init /\ Un12

PartNext(p) ==
    \/ p \in Fronts /\ Front(p)!FrontNext
    \/ p \in Deployments /\ Deploy(p)!Next /\ UNCHANGED Rest9
    \/ p = "launcher" /\ Process!Next /\ UNCHANGED Rest12

AnyInit == \E p \in Parts : part = p /\ PartInit(p)
AnyNext == \E p \in Parts : part = p /\ PartNext(p) /\ UNCHANGED part

\* The steps that the i-th thread or process of a part takes on its own, and
\* time passes; nothing makes a process start, a service end or a signal come.
Runs(i) ==
    /\ \/ \E p \in Audits : part = p /\
            CASE i = 1 -> Front(p)!AgentRuns \/ Front(p)!AgentLock
              [] i \in 2 .. 3 -> Front(p)!HandlerRuns(<<"c1", "c2">>[i - 1])
              [] OTHER -> FALSE
       \/ part = "deployment" /\ Deploy("deployment")!Runs(AllServices[i]) /\ UNCHANGED Rest9
       \/ /\ part = "keeper" /\ UNCHANGED Rest9
          /\ CASE i = 1 -> Deploy("keeper")!Tick
               [] i = 2 -> \E a \in SomeAnswers : Deploy("keeper")!refresh("storage", a)
               [] OTHER -> FALSE
       \/ /\ part = "launcher" /\ UNCHANGED <<x1, Rest12>>
          /\ CASE i = 1 -> Process!MainStep [] i = 2 -> Process!StarterStep
               [] i = 3 -> Process!HandlerStep [] OTHER -> FALSE
    /\ UNCHANGED part

\* What is not always possible: a handler gets the mutex of the buffer although
\* the agent takes it again and again, for the mutexes of tokio are first
\* come, first served; and of infinitely many answers of the attestation
\* service to a keeper some are good.
Gets ==
    /\ \/ \E p \in Audits : part = p /\ \E c \in {"c1", "c2"} : Front(p)!HandlerLocks(c)
       \/ part = "keeper" /\ Deploy("keeper")!Refreshes("management") /\ UNCHANGED Rest9
    /\ UNCHANGED part

AnySpec == /\ AnyInit /\ [][AnyNext]_all
           /\ \A i \in 1 .. 7 : WF_all(Runs(i))
           /\ SF_all(Gets)
-----------------------------------------------------------------------------
\* Management executes a call only for a role that permits it and that the
\* account of the caller was once given; and the audit log is true to it: a call
\* has at most one entry in buffer, batch and index, and an entry that says
\* success is about a call that was executed.
ExecutedWasPermitted ==
    \A p \in Fronts : part = p => Front(p)!ExecutedWasPermitted /\ Front(p)!OneTrueEntry

\* Every call of the frontend ends: the handlers and the audit agent never wait
\* for each other in a circle.  While callers stay and the management service
\* answers, its entry reaches the auditor.  The two calls are alike, c1 stands
\* for either.
EveryCallIsAnswered ==
    /\ (part = "audit" /\ Front("audit")!Received("c1"))
         ~> (part = "audit" /\ Front("audit")!Answered("c1"))
    /\ (part = "audit_saved" /\ Front("audit_saved")!Buffered("c1"))
         ~> (part = "audit_saved" /\ Front("audit_saved")!Saved("c1"))

\* verify_cert: a connection joins two processes of one release, and the
\* service that accepted it lists the other among its inbound services, as
\* config/build.config.toml has it; when both are up with sound reports the
\* connection that one needs to the other is accepted.  The frontend, which does
\* not verify its enclave_info (frontend/enclave/src/lib.rs:69), listens only at
\* a release whose enclave_info passes verify_and_new of the services that it
\* connects to first: that is, no signature in it is wrong, while it need not
\* have one of every auditor, nor any.  And the configuration that a process
\* keeps holds one key, that of its certificate, of its private key and of the
\* report in it, whatever answers the host mixes up.
LinksAreMutual ==
    \A p \in Deployments : part = p =>
        /\ Deploy(p)!LinksAreMutual /\ Deploy(p)!EveryCallIsAccepted
        /\ Deploy(p)!ListensAsVerified /\ Deploy(p)!ConfigIsWhole

\* start_service of every service: whatever order they start in, and after a
\* crash of any of them, all come to serve at one release with every connection
\* in place, unless a process stays down for ever.  A process that finds a
\* service it connects to down exits, as an executor does whose heartbeat fails;
\* nothing in the repository starts it again (the docker-compose files have no
\* restart), so that is left to whoever runs the deployment.
\* AttestationFreshnessKeeper::start: an attempt that fails is not the
\* last, a process that stays up gets a younger configuration, whatever another
\* service's keeper meets.
AllServe ==
    /\ \/ <>[](part = "deployment" => Deploy("deployment")!Deployed)
       \/ \E i \in 1 .. 7 : <>[](part = "deployment" /\ ~ Deploy("deployment")!Up(AllServices[i]))
    /\ (part = "keeper" /\ Deploy("keeper")!IsOld("management"))
         ~> (part = "keeper" /\ ~ Deploy("keeper")!IsOld("management"))

\* TeeBinder, launch_teaclave_service: InitEnclave is the first command that the
\* enclave runs, successfully or not (binder.rs:49 drops its error); only when
\* that call itself has failed is there another, FinalizeEnclave, and no other
\* after it.  It is finalized at most once, although launch_teaclave_service,
\* its error paths and the drop of the binder all ask for it; and once the
\* service has ended or a signal has come the process ends, whatever the main
\* thread is doing when the handler runs.
EnclaveLifeCycle ==
    /\ [](part = "launcher" => Process!EnclaveLifeCycle)
    /\ (part = "launcher" /\ Process!ToEnd) ~> (part = "launcher" /\ Process!Gone)
=============================================================================
