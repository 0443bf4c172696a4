------------------------------- MODULE Startup -------------------------------
(***************************************************************************)
(* A deployment comes up: every service process runs its start_service     *)
(* (lib.rs of each service), attests itself, connects to the services it   *)
(* depends on and serves; its freshness keeper renews the attested         *)
(* configuration.  The two ends of a connection verify each other's        *)
(* certificate.  The processes of a release come with one enclave_info,    *)
(* which has the measurements of that release.                             *)
(*                                                                         *)
(* Who starts the processes, at which release, and starts them again when  *)
(* they have exited is outside the code (docker-compose and whoever runs   *)
(* it).  MaxFaults bounds what goes wrong: crashes, failing attestations,  *)
(* addresses that cannot be bound and launches of another release.         *)
(***************************************************************************)
EXTENDS Attestation

CONSTANTS
  None,
  Services,      \* the services of this instance
  Releases,      \* releases whose processes may be launched
  Final,         \* the release the operators settle on
  Signatures,    \* release -> the signatures of its enclave_info
  Responses,     \* what the attestation service may answer
  BindMayFail,   \* services whose listen address may be taken
  Validity,      \* ATTESTATION_VALIDITY_SECS
  MaxAge,        \* ages are told apart up to MaxAge; no time passes when 0
  Lag,           \* service -> how far its clock is behind that of the
                 \* attestation service
  MaxFaults

VARIABLES
  pc,         \* where start_service is: Down, the index of the connection it
              \* awaits, past the last one, or Serving
  rel,        \* the release of the process
  eps,        \* the endpoints that listen
  attested,   \* Arc<RwLock<AttestedTlsConfig>>
  tls,        \* what the rustls configurations were built from
  wait,       \* time since the freshness keeper went to sleep
  links,      \* <<c, d>>: c has a connection to d
  faults

vars == <<pc, rel, eps, attested, tls, wait, links, faults>>

(* What each start_service does: whether it verifies the signatures of     *)
(* enclave_info, the endpoints it connects to, in order, and the ones it   *)
(* listens on.                                                             *)
storage_start == [verifies |-> TRUE, connects |-> << >>, listens |-> {"internal"}]
access_control_start == [verifies |-> TRUE, connects |-> << >>, listens |-> {"internal"}]
authentication_start ==
  [verifies |-> TRUE, connects |-> << >>, listens |-> {"api", "internal"}]
management_start ==
  [verifies |-> TRUE, connects |-> <<"storage">>, listens |-> {"internal"}]
scheduler_start ==
  [verifies |-> TRUE, connects |-> <<"storage">>, listens |-> {"internal"}]

\* Channels that connect when they are first used.
frontend_start_Lazy ==
  [verifies |-> FALSE, connects |-> << >>, listens |-> {"api"}]

frontend_start ==
  [verifies |-> FALSE, connects |-> <<"authentication", "management", "access_control">>,
   listens |-> {"api"}]
execution_start == [verifies |-> TRUE, connects |-> <<"scheduler">>, listens |-> {}]

Start ==
  [storage |-> storage_start, access_control |-> access_control_start,
   authentication |-> authentication_start, management |-> management_start,
   scheduler |-> scheduler_start, frontend |-> frontend_start,
   execution |-> execution_start]

(* config/build.config.toml, [inbound].                                    *)
Inbound ==
  [access_control |-> {"frontend", "management"}, authentication |-> {"frontend"},
   storage |-> {"management", "scheduler"}, management |-> {"frontend"},
   scheduler |-> {"execution"}]

Deps(s) == {Start[s].connects[i] : i \in DOMAIN Start[s].connects}

Down == 0
Serving == 9

Up(s) == pc[s] # Down

Init ==
  /\ pc = [s \in Services |-> Down]
  /\ rel = [s \in Services |-> Final]
  /\ eps = [s \in Services |-> {}]
  /\ attested = [s \in Services |-> None]
  /\ tls = [s \in Services |-> None]
  /\ wait = [s \in Services |-> 0]
  /\ links = {}
  /\ faults = 0

(* A key no certificate of s holds.                                        *)
NewKey(s) ==
  LET used == {c.private_key : c \in {attested[s], tls[s]} \ {None}}
  IN  <<s, CHOOSE n \in 0..2 : <<s, n>> \notin used>>

(* The configurations an attempt to attest s at release r may end with,    *)
(* for the answer of the quoting enclave to this or another request.       *)
Attempts(s, r, resp) ==
  UNION {AttestedTlsConfig_new(NewKey(s), EnclaveMeasurement(s, r),
                               Answer(<<s, n>>, EnclaveMeasurement(s, r)), resp) :
           n \in 0..2}

Good(resp) == resp.code = 200 /\ resp.certs = 1 /\ resp.trusted

FaultBudget(n) == faults' = faults + n /\ faults' <= MaxFaults

(* The process ends: its connections and its listeners go.                 *)
Exit(s) ==
  /\ pc' = [pc EXCEPT ![s] = Down]
  /\ eps' = [eps EXCEPT ![s] = {}]
  /\ attested' = [attested EXCEPT ![s] = None]
  /\ tls' = [tls EXCEPT ![s] = None]
  /\ wait' = [wait EXCEPT ![s] = 0]
  /\ links' = {l \in links : s \notin {l[1], l[2]}}
  /\ UNCHANGED rel

(* start_service up to its first connection: generate_and_endorse,         *)
(* verify_and_new (the frontend reads enclave_info as it is), and the TLS  *)
(* configurations of the server and of its endpoints.  When a step fails   *)
(* the process ends as it began.                                           *)
start_service(s, r, resp) ==
  /\ pc[s] = Down
  /\ Start[s].verifies => verify_and_new(Signatures[r])
  /\ \E config \in Attempts(s, r, resp) :
       /\ attested' = [attested EXCEPT ![s] = config]
       /\ tls' = [tls EXCEPT ![s] = config]
  /\ pc' = [pc EXCEPT ![s] = 1]
  /\ rel' = [rel EXCEPT ![s] = r]
  /\ FaultBudget(IF r = Final /\ Good(resp) THEN 0 ELSE 1)
  /\ UNCHANGED <<eps, wait, links>>

(* The TLS handshake between c and the internal endpoint of d, each with   *)
(* the certificate its configuration was built from.                       *)
Accepts(c, d) ==
  verify_cert({EnclaveMeasurement(d, rel[c])}, tls[d].cert, tls[d].age - Lag[c])

AcceptsClient(d, c) ==
  verify_cert({EnclaveMeasurement(i, rel[d]) : i \in Inbound[d]},
              tls[c].cert, tls[c].age - Lag[d])

handshake(c, d) ==
  /\ "internal" \in eps[d]
  /\ Accepts(c, d)
  /\ AcceptsClient(d, c)

(* connect().await of the next endpoint; an error ends start_service.      *)
connect(s) ==
  /\ pc[s] \in DOMAIN Start[s].connects
  /\ LET d == Start[s].connects[pc[s]] IN
     \/ /\ handshake(s, d)
        /\ links' = links \cup {<<s, d>>}
        /\ pc' = [pc EXCEPT ![s] = @ + 1]
        /\ UNCHANGED <<rel, eps, attested, tls, wait, faults>>
     \/ /\ ~ handshake(s, d)
        /\ Exit(s)
        /\ UNCHANGED faults

(* serve(listen_address).await.  The authentication service spawns its two *)
(* endpoints and drops the error of one: the other goes on.                *)
serve(s, bound) ==
  /\ pc[s] = Len(Start[s].connects) + 1
  /\ bound \subseteq Start[s].listens
  /\ FaultBudget(IF bound = Start[s].listens THEN 0 ELSE 1)
  /\ IF bound = {} /\ Start[s].listens # {}
       THEN Exit(s)
       ELSE /\ pc' = [pc EXCEPT ![s] = Serving]
            /\ eps' = [eps EXCEPT ![s] = bound]
            /\ UNCHANGED <<rel, attested, tls, wait, links>>

(* A channel of tonic that lost its connection connects again with the     *)
(* same configuration when it is next used.                                *)
reconnect(s, d) ==
  /\ pc[s] = Serving
  /\ d \in Deps(s) /\ <<s, d>> \notin links
  /\ handshake(s, d)
  /\ links' = links \cup {<<s, d>>}
  /\ UNCHANGED <<pc, rel, eps, attested, tls, wait, faults>>

(* TeaclaveExecutionService::start returns with the error of a heartbeat,  *)
(* also of one that would have connected again: what was sent over the     *)
(* lost connection fails.                                                  *)
heartbeat_fails(s) ==
  /\ s = "execution" /\ pc[s] = Serving
  /\ \E d \in Deps(s) : <<s, d>> \notin links
  /\ Exit(s)
  /\ UNCHANGED faults

\* The keeper ends with the error of an attempt.
refresh_Stops(s, resp) ==
  /\ Up(s) /\ wait[s] = Validity
  /\ \/ \E config \in Attempts(s, rel[s], resp) :
          /\ attested' = [attested EXCEPT ![s] = config]
          /\ wait' = [wait EXCEPT ![s] = 0]
     \/ /\ Attempts(s, rel[s], resp) = {}
        /\ wait' = [wait EXCEPT ![s] = Validity + 1]
        /\ UNCHANGED attested
  /\ UNCHANGED <<pc, rel, eps, tls, links, faults>>

(* AttestationFreshnessKeeper: when it wakes it makes a new configuration; *)
(* after an error the old one stays for another period.                    *)
refresh(s, resp) ==
  /\ Up(s) /\ wait[s] = Validity
  /\ \/ \E config \in Attempts(s, rel[s], resp) :
          attested' = [attested EXCEPT ![s] = config]
     \/ /\ Attempts(s, rel[s], resp) = {}
        /\ UNCHANGED attested
  /\ wait' = [wait EXCEPT ![s] = 0]
  /\ UNCHANGED <<pc, rel, eps, tls, links, faults>>

Older(config) ==
  IF config = None \/ config.age = MaxAge THEN config ELSE [config EXCEPT !.age = @ + 1]

(* Time passes; a keeper whose sleep is over runs before it does.          *)
Tick ==
  /\ MaxAge > 0
  /\ \A s \in Services : wait[s] # Validity
  /\ attested' = [s \in Services |-> Older(attested[s])]
  /\ tls' = [s \in Services |-> Older(tls[s])]
  /\ wait' = [s \in Services |->
                IF Up(s) /\ wait[s] < Validity THEN wait[s] + 1 ELSE wait[s]]
  /\ UNCHANGED <<pc, rel, eps, links, faults>>

Crash(s) == Up(s) /\ FaultBudget(1) /\ Exit(s)

(* The operators stop a process of another release.                        *)
Retire(s) == Up(s) /\ rel[s] # Final /\ Exit(s) /\ UNCHANGED faults

Next ==
  \/ \E s \in Services :
       \/ \E r \in Releases, resp \in Responses : start_service(s, r, resp)
       \/ connect(s)
       \/ serve(s, Start[s].listens)
       \/ \E bound \in SUBSET Start[s].listens : s \in BindMayFail /\ serve(s, bound)
       \/ \E d \in Services : reconnect(s, d)
       \/ heartbeat_fails(s)
       \/ \E resp \in Responses : refresh(s, resp)
       \/ Crash(s) \/ Retire(s)
  \/ Tick

Spec == Init /\ [][Next]_vars

(* A process runs.                                                         *)
Runs(s) ==
  \/ connect(s) \/ serve(s, Start[s].listens)
  \/ heartbeat_fails(s) \/ \E d \in Deps(s) : reconnect(s, d)

(* A keeper wakes when the attestation service answers.                    *)
Refreshes(s) == \E resp \in Responses : Good(resp) /\ refresh(s, resp)
-----------------------------------------------------------------------------
(* verify_cert: a connection joins two processes of one release, and the   *)
(* service that accepted it lists the other among its inbound services.    *)
LinksAreMutual ==
  \A l \in links : /\ rel[l[1]] = rel[l[2]]
                   /\ l[1] \in Inbound[l[2]]

(* config/build.config.toml and the endpoints of each start_service: when  *)
(* two processes of one release are up, with sound reports that are not    *)
(* from the future, the connection one needs to the other is accepted.     *)
Sound(s, o) ==
  /\ Up(s) /\ tls[s].age >= Lag[o]
  /\ LET e == tls[s].cert.ext IN
     /\ e.trusted /\ e.certs > 0 /\ e.version = 4 /\ SgxQuote_parse_from(e.format)
     /\ SgxQuoteStatus_from(e.status) # "UnknownBadStatus"
EveryCallIsAccepted ==
  \A c \in Services : \A d \in Deps(c) :
    (Sound(c, d) /\ Sound(d, c) /\ rel[c] = rel[d]) => Accepts(c, d) /\ AcceptsClient(d, c)

(* "Each enclave will verify that the enclave measures are indeed signed   *)
(* by the auditors before serving any requests"                            *)
(* (docs/mutual-attestation.md:41).  The frontend does not                 *)
(* (frontend/enclave/src/lib.rs:69).  It listens all the same only at a    *)
(* release whose enclave_info passes the verification of the others:       *)
(* before it listens it has connected to services that did verify it.      *)
(* What passes has no signature that no auditor's key verifies; it need    *)
(* not have one of every auditor, nor any (types/src/attestation.rs:111).  *)
ListensAsVerified ==
  \A s \in Services : ~ Start[s].verifies /\ eps[s] # {} =>
    \A i \in DOMAIN Signatures[rel[s]] : \E k \in 1 .. NumAuditors : k \in Signatures[rel[s]][i]

(* AttestedTlsConfig::new, get_sgx_quote: whatever answers the host mixes  *)
(* up, a configuration that is kept holds one key: that of its             *)
(* certificate, of its private key and of the report inside it.            *)
ConfigIsWhole ==
  \A s \in Services : \A config \in {attested[s], tls[s]} \ {None} :
    /\ config.cert.key = config.private_key
    /\ config.cert.ext.quote.report_data = config.private_key
    /\ config.cert.ext.quote.measure = EnclaveMeasurement(s, rel[s])

Deployed ==
  \A s \in Services : /\ pc[s] = Serving /\ rel[s] = Final
                      /\ \A d \in Deps(s) : <<s, d>> \in links
IsOld(s) == Up(s) /\ attested[s].age = MaxAge
=============================================================================
