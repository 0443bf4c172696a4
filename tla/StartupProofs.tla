---------------------------- MODULE StartupProofs ----------------------------
(***************************************************************************)
(* What holds in every deployment, of any number of services, releases,    *)
(* answers of the attestation service, clocks and faults: the attested     *)
(* configurations hold one key, connections join two processes of one      *)
(* release, and the frontend never listens at a release whose enclave_info *)
(* the services that verify it refuse.                                     *)
(***************************************************************************)
EXTENDS Startup, TLAPS

(* The services of a deployment are among those of the repository, and what
   a service connects to is deployed too; clocks differ by whole numbers. *)
IsDeployment ==
  /\ Services \subseteq DOMAIN Start
  /\ \A s \in Services : Deps(s) \subseteq Services
  /\ Lag \in [Services -> Int] /\ MaxAge \in Nat

(* A configuration whose certificate, private key and report agree. *)
Whole(config, s, r) ==
  /\ config = [cert |-> config.cert, private_key |-> config.private_key, age |-> config.age]
  /\ config.age \in Nat
  /\ config.cert.key = config.private_key
  /\ config.cert.ext.quote.report_data = config.private_key
  /\ config.cert.ext.quote.measure = EnclaveMeasurement(s, r)

(* A process has its configurations and listens only at the end of its
   start_service; one that verified enclave_info, or that connected to another
   which did, is of a release whose enclave_info passes. *)
ProcessSound(s) ==
  /\ pc[s] \in Nat
  /\ Up(s) => Whole(attested[s], s, rel[s]) /\ Whole(tls[s], s, rel[s])
  /\ ~ Up(s) => attested[s] = None /\ tls[s] = None
  /\ eps[s] # {} => pc[s] = Serving
  /\ Up(s) /\ (Start[s].verifies \/ pc[s] > 1) => verify_and_new(Signatures[rel[s]])

(* A connection joins two running processes of one release. *)
LinkSound(l) ==
  /\ l[1] \in Services /\ l[2] \in Services
  /\ Up(l[1]) /\ Up(l[2])
  /\ rel[l[1]] = rel[l[2]] /\ l[1] \in Inbound[l[2]]

DeploymentInv ==
  /\ DOMAIN pc = Services /\ DOMAIN rel = Services /\ DOMAIN eps = Services
  /\ DOMAIN attested = Services /\ DOMAIN tls = Services
  /\ \A s \in Services : ProcessSound(s)
  /\ \A l \in links : LinkSound(l)

-----------------------------------------------------------------------------
(* What the services of the repository do when they start. *)
LEMMA StartFacts ==
  ASSUME IsDeployment, NEW s \in Services
  PROVE  /\ Len(Start[s].connects) \in 0 .. 3
         /\ DOMAIN Start[s].connects = 1 .. Len(Start[s].connects)
         /\ Start[s].verifies \/ Len(Start[s].connects) > 0
         /\ \A i \in DOMAIN Start[s].connects :
              /\ Start[s].connects[i] \in Services
              /\ Start[Start[s].connects[i]].verifies
              /\ s \in Inbound[Start[s].connects[i]]
<1>1. s \in {"storage", "access_control", "authentication", "management", "scheduler",
             "frontend", "execution"}
  BY Zenon DEF IsDeployment, Start
<1>2. \A i \in DOMAIN Start[s].connects : Start[s].connects[i] \in Services
  BY Zenon DEF IsDeployment, Deps
<1>3. CASE s \in {"storage", "access_control", "authentication"}
  BY <1>2, <1>3 DEF Start, storage_start, access_control_start, authentication_start
<1>4. CASE s \in {"management", "scheduler", "execution"}
  BY <1>2, <1>4 DEF Start, management_start, scheduler_start, execution_start, Inbound,
     storage_start
<1>5. CASE s = "frontend"
  <2>1. Start[s].connects = <<"authentication", "management", "access_control">>
    BY Zenon, <1>5 DEF Start, frontend_start
  <2>2. Len(Start[s].connects) = 3 /\ DOMAIN Start[s].connects = 1 .. 3
    BY <2>1
  <2>3. \A i \in 1 .. 3 : Start[s].connects[i] \in {"authentication", "management", "access_control"}
    BY <2>1
  <2>4. \A d \in {"authentication", "management", "access_control"} :
           Start[d].verifies /\ s \in Inbound[d]
    BY <1>5 DEF Start, Inbound, authentication_start, management_start, access_control_start
  <2> QED BY <1>2, <2>2, <2>3, <2>4
<1> QED BY Zenon, <1>1, <1>3, <1>4, <1>5

(* get_sgx_quote refuses the answer to another request. *)
LEMMA AttemptsWhole ==
  ASSUME NEW s, NEW r, NEW resp, NEW config \in Attempts(s, r, resp)
  PROVE  Whole(config, s, r)
<1> DEFINE m == EnclaveMeasurement(s, r)
<1>1. PICK n \in 0 .. 2 :
         config \in AttestedTlsConfig_new(NewKey(s), m, Answer(<<s, n>>, m), resp)
  BY Zenon DEF Attempts
<1>2. PICK k, ans : k = NewKey(s) /\ ans = Answer(<<s, n>>, m)
  BY Zenon
<1> HIDE DEF m
<1>3. PICK q \in get_sgx_quote(k, ans) : \E rep \in get_report(resp, q) :
         config = [cert |-> create_cert_with_extension(k, rep), private_key |-> k, age |-> 0]
  BY Zenon, <1>1, <1>2 DEF AttestedTlsConfig_new
<1>4. PICK rep \in get_report(resp, q) :
         config = [cert |-> create_cert_with_extension(k, rep), private_key |-> k, age |-> 0]
  BY Zenon, <1>3
<1>5. q = [report_data |-> <<s, n>>, measure |-> m] /\ <<<<s, n>>, q>> = <<k, q>>
  BY Zenon, <1>2, <1>3 DEF get_sgx_quote, Answer, create_sgx_isv_enclave_report
<1>6. rep.quote = q
  BY <1>4 DEF get_report
<1>7. k = <<s, n>>
  BY Zenon, <1>5
<1>8. q.report_data = k /\ q.measure = m
  BY Zenon, <1>5, <1>7
<1>9. /\ config.cert = create_cert_with_extension(k, rep) /\ config.private_key = k
      /\ config.age = 0
  BY Zenon, <1>4
<1>10. config.cert.key = k /\ config.cert.ext = rep
  BY <1>9 DEF create_cert_with_extension
<1>11. config = [cert |-> config.cert, private_key |-> config.private_key, age |-> config.age]
  BY Zenon, <1>4, <1>9
<1> QED BY <1>6, <1>8, <1>9, <1>10, <1>11 DEF Whole, m

LEMMA OlderWhole ==
  ASSUME NEW s, NEW r, NEW config, Whole(config, s, r)
  PROVE  Whole(Older(config), s, r)
<1>1. CASE config = None \/ config.age = MaxAge
  BY Zenon, <1>1 DEF Older
<1>2. CASE ~ (config = None \/ config.age = MaxAge)
  <2>1. Older(config) = [config EXCEPT !.age = config.age + 1]
    BY Zenon, <1>2 DEF Older
  <2>2. PICK c, k, a : config = [cert |-> c, private_key |-> k, age |-> a]
    BY Zenon DEF Whole
  <2>3. Older(config) = [cert |-> c, private_key |-> k, age |-> a + 1]
    BY Zenon, <2>1, <2>2
  <2> QED BY <2>2, <2>3 DEF Whole
<1> QED BY Zenon, <1>1, <1>2

(* The two ends of a handshake are of one release. *)
LEMMA HandshakeSound ==
  ASSUME NEW c \in Services, NEW d \in Services, ProcessSound(c), ProcessSound(d), Up(c),
         handshake(c, d)
  PROVE  Up(d) /\ rel[c] = rel[d] /\ c \in Inbound[d]
<1>1. Up(d)
  BY DEF handshake, ProcessSound, Up, Serving, Down
<1>2. /\ tls[d].cert.ext.quote.measure = EnclaveMeasurement(d, rel[d])
      /\ tls[c].cert.ext.quote.measure = EnclaveMeasurement(c, rel[c])
  BY Zenon, <1>1 DEF ProcessSound, Whole
<1>3. EnclaveMeasurement(d, rel[d]).mr_signer = EnclaveMeasurement(d, rel[c]).mr_signer
  BY Zenon, <1>2 DEF handshake, Accepts, verify_cert, verify_measures
<1>4. PICK i \in Inbound[d] :
         EnclaveMeasurement(i, rel[d]).mr_enclave = EnclaveMeasurement(c, rel[c]).mr_enclave
  BY Zenon, <1>2 DEF handshake, AcceptsClient, verify_cert, verify_measures
<1> QED BY Zenon, <1>1, <1>3, <1>4 DEF EnclaveMeasurement

-----------------------------------------------------------------------------
(* Steps that leave a process, or two connected ones, alone. *)
LEMMA ProcessKept ==
  ASSUME NEW s \in Services, ProcessSound(s),
         pc'[s] = pc[s], rel'[s] = rel[s], eps'[s] = eps[s], attested'[s] = attested[s],
         tls'[s] = tls[s]
  PROVE  ProcessSound(s)'
BY Zenon DEF ProcessSound, Up

LEMMA LinkKept ==
  ASSUME NEW l, LinkSound(l),
         \A x \in {l[1], l[2]} : rel'[x] = rel[x] /\ (pc[x] # Down => pc'[x] # Down)
  PROVE  LinkSound(l)'
BY Zenon DEF LinkSound, Up

LEMMA ExitSound ==
  ASSUME DeploymentInv, NEW s \in Services, Exit(s)
  PROVE  DeploymentInv'
<1> USE DEF DeploymentInv
<1>1. /\ DOMAIN pc' = Services /\ DOMAIN rel' = Services /\ DOMAIN eps' = Services
      /\ DOMAIN attested' = Services /\ DOMAIN tls' = Services
  BY Zenon DEF Exit
<1>2. /\ pc'[s] = Down /\ eps'[s] = {} /\ attested'[s] = None /\ tls'[s] = None
      /\ rel' = rel
  BY Zenon DEF Exit
<1>3. \A x \in Services \ {s} : /\ pc'[x] = pc[x] /\ eps'[x] = eps[x]
                                /\ attested'[x] = attested[x] /\ tls'[x] = tls[x]
  BY Zenon DEF Exit
<1>4. ProcessSound(s)'
  BY <1>2 DEF ProcessSound, Up, Down
<1>5. \A x \in Services \ {s} : ProcessSound(x)'
  BY Zenon, <1>2, <1>3, ProcessKept
<1>6. ASSUME NEW l \in links'
      PROVE  LinkSound(l)'
  <2>1. LinkSound(l) /\ s \notin {l[1], l[2]}
    BY Zenon, <1>6 DEF Exit
  <2>2. \A x \in {l[1], l[2]} : rel'[x] = rel[x] /\ (pc[x] # Down => pc'[x] # Down)
    BY ZenonT(60), <1>2, <1>3, <2>1 DEF LinkSound
  <2> QED BY Zenon, <2>1, <2>2, LinkKept
<1> QED BY Zenon, <1>1, <1>4, <1>5, <1>6

LEMMA StartSound ==
  ASSUME IsDeployment, DeploymentInv, NEW s \in Services, NEW r, NEW resp,
         start_service(s, r, resp)
  PROVE  DeploymentInv'
<1> USE DEF DeploymentInv
<1>1. /\ DOMAIN pc' = Services /\ DOMAIN rel' = Services /\ DOMAIN eps' = Services
      /\ DOMAIN attested' = Services /\ DOMAIN tls' = Services
  BY Zenon DEF start_service
<1>2. PICK config \in Attempts(s, r, resp) :
         /\ attested' = [attested EXCEPT ![s] = config] /\ tls' = [tls EXCEPT ![s] = config]
  BY Zenon DEF start_service
<1>3. Whole(config, s, r)
  BY Zenon, <1>2, AttemptsWhole
<1>4. /\ pc[s] = Down /\ pc'[s] = 1 /\ rel'[s] = r /\ eps' = eps /\ links' = links
      /\ attested'[s] = config /\ tls'[s] = config
      /\ Start[s].verifies => verify_and_new(Signatures[r])
  BY Zenon, <1>2 DEF start_service
<1>5. \A x \in Services \ {s} : /\ pc'[x] = pc[x] /\ rel'[x] = rel[x]
                                /\ attested'[x] = attested[x] /\ tls'[x] = tls[x]
  BY Zenon, <1>2 DEF start_service
<1>6. eps[s] = {}
  BY <1>4 DEF ProcessSound, Down, Serving
<1>7. ProcessSound(s)'
  BY <1>3, <1>4, <1>6 DEF ProcessSound, Up, Down
<1>8. \A x \in Services \ {s} : ProcessSound(x)'
  BY Zenon, <1>4, <1>5, ProcessKept
<1>9. ASSUME NEW l \in links'
      PROVE  LinkSound(l)'
  <2>1. LinkSound(l) /\ s \notin {l[1], l[2]}
    BY Zenon, <1>4, <1>9 DEF LinkSound, Up
  <2>2. \A x \in {l[1], l[2]} : rel'[x] = rel[x] /\ (pc[x] # Down => pc'[x] # Down)
    BY Zenon, <1>5, <2>1 DEF LinkSound
  <2> QED BY Zenon, <2>1, <2>2, LinkKept
<1> QED BY Zenon, <1>1, <1>7, <1>8, <1>9

LEMMA ConnectSound ==
  ASSUME IsDeployment, DeploymentInv, NEW s \in Services, connect(s)
  PROVE  DeploymentInv'
<1> USE DEF DeploymentInv
<1>1. PICK d : d = Start[s].connects[pc[s]]
  BY Zenon
<1>2. pc[s] \in 1 .. 3 /\ d \in Services /\ Start[d].verifies
  BY <1>1, StartFacts DEF connect
<1>3. CASE Exit(s)
  BY Zenon, <1>3, ExitSound
<1>4. CASE /\ handshake(s, d) /\ links' = links \cup {<<s, d>>}
           /\ pc' = [pc EXCEPT ![s] = pc[s] + 1]
           /\ UNCHANGED <<rel, eps, attested, tls>>
  <2>1. Up(d) /\ rel[s] = rel[d] /\ s \in Inbound[d] /\ Up(s)
    BY <1>2, <1>4, HandshakeSound DEF Up, Down
  <2>2. verify_and_new(Signatures[rel[s]])
    BY Zenon, <1>2, <2>1 DEF ProcessSound
  <2>3. pc'[s] = pc[s] + 1 /\ \A x \in Services \ {s} : pc'[x] = pc[x]
    BY Zenon, <1>4
  <2>4. eps[s] = {}
    BY <1>2 DEF ProcessSound, Serving
  <2>5. ProcessSound(s)'
    BY <1>2, <1>4, <2>1, <2>2, <2>3, <2>4 DEF ProcessSound, Up, Down
  <2>6. \A x \in Services \ {s} : ProcessSound(x)'
    BY Zenon, <1>4, <2>3, ProcessKept
  <2>7. \A x \in Services : rel'[x] = rel[x] /\ (pc[x] # Down => pc'[x] # Down)
    BY <1>2, <1>4, <2>3 DEF Down
  <2>8. LinkSound(<<s, d>>)
    BY Zenon, <1>2, <2>1 DEF LinkSound
  <2>9. \A l \in links' : LinkSound(l)
    BY Zenon, <1>4, <2>8
  <2>10. \A l \in links' : LinkSound(l)'
    BY Zenon, <2>7, <2>9, LinkKept DEF LinkSound
  <2>11. DOMAIN pc' = Services
    BY Zenon, <1>4
  <2> QED BY Zenon, <1>4, <2>5, <2>6, <2>10, <2>11
<1> QED BY Zenon, <1>1, <1>3, <1>4 DEF connect

LEMMA ServeSound ==
  ASSUME IsDeployment, DeploymentInv, NEW s \in Services, NEW bound, serve(s, bound)
  PROVE  DeploymentInv'
<1> USE DEF DeploymentInv
<1>1. CASE Exit(s)
  BY Zenon, <1>1, ExitSound
<1>2. CASE /\ pc' = [pc EXCEPT ![s] = Serving] /\ eps' = [eps EXCEPT ![s] = bound]
           /\ UNCHANGED <<rel, attested, tls, wait, links>>
  <2>1. /\ pc[s] = Len(Start[s].connects) + 1 /\ Len(Start[s].connects) \in 0 .. 3
        /\ Start[s].verifies \/ Len(Start[s].connects) > 0
    BY Zenon, StartFacts DEF serve
  <2>2. Up(s) /\ (Start[s].verifies \/ pc[s] > 1)
    BY <2>1 DEF Up, Down
  <2>3. /\ pc'[s] = Serving
        /\ \A x \in Services \ {s} : pc'[x] = pc[x] /\ eps'[x] = eps[x]
    BY Zenon, <1>2
  <2>4. ProcessSound(s)'
    BY <1>2, <2>2, <2>3 DEF ProcessSound, Up, Down, Serving
  <2>5. \A x \in Services \ {s} : ProcessSound(x)'
    BY Zenon, <1>2, <2>3, ProcessKept
  <2>6. \A x \in Services : rel'[x] = rel[x] /\ (pc[x] # Down => pc'[x] # Down)
    BY <1>2, <2>3 DEF Down, Serving
  <2>7. \A l \in links' : LinkSound(l)'
    BY <1>2, <2>6, LinkKept DEF LinkSound
  <2>8. DOMAIN pc' = Services /\ DOMAIN eps' = Services
    BY Zenon, <1>2
  <2> QED BY Zenon, <1>2, <2>4, <2>5, <2>7, <2>8
<1> QED BY Zenon, <1>1, <1>2 DEF serve

LEMMA ReconnectSound ==
  ASSUME IsDeployment, DeploymentInv, NEW s \in Services, NEW d \in Services, reconnect(s, d)
  PROVE  DeploymentInv'
<1> USE DEF DeploymentInv
<1>1. /\ handshake(s, d) /\ Up(s) /\ links' = links \cup {<<s, d>>}
      /\ UNCHANGED <<pc, rel, eps, attested, tls>>
  BY DEF reconnect, Up, Down, Serving
<1>2. Up(d) /\ rel[s] = rel[d] /\ s \in Inbound[d]
  BY Zenon, <1>1, HandshakeSound
<1>3. \A x \in Services : ProcessSound(x)'
  BY Zenon, <1>1, ProcessKept
<1>4. LinkSound(<<s, d>>)
  BY Zenon, <1>1, <1>2 DEF LinkSound
<1>5. \A l \in links' : LinkSound(l)
  BY Zenon, <1>1, <1>4
<1>6. \A l \in links' : LinkSound(l)'
  BY Zenon, <1>1, <1>5, LinkKept
<1> QED BY Zenon, <1>1, <1>3, <1>6

LEMMA RefreshSound ==
  ASSUME DeploymentInv, NEW s \in Services, NEW resp, refresh(s, resp)
  PROVE  DeploymentInv'
<1> USE DEF DeploymentInv
<1>1. Up(s) /\ UNCHANGED <<pc, rel, eps, tls, links>>
  BY Zenon DEF refresh
<1>2. \A l \in links' : LinkSound(l)'
  BY Zenon, <1>1, LinkKept
<1>3. CASE UNCHANGED attested
  BY Zenon, <1>1, <1>2, <1>3, ProcessKept
<1>4. ASSUME NEW config \in Attempts(s, rel[s], resp),
             attested' = [attested EXCEPT ![s] = config]
      PROVE  DeploymentInv'
  <2>1. Whole(config, s, rel[s])
    BY Zenon, AttemptsWhole
  <2>2. attested'[s] = config /\ \A x \in Services \ {s} : attested'[x] = attested[x]
    BY Zenon, <1>4
  <2>3. ProcessSound(s)'
    BY Zenon, <1>1, <2>1, <2>2 DEF ProcessSound, Up
  <2>4. \A x \in Services \ {s} : ProcessSound(x)'
    BY Zenon, <1>1, <2>2, ProcessKept
  <2>5. DOMAIN attested' = Services
    BY Zenon, <1>4
  <2> QED BY Zenon, <1>1, <1>2, <2>3, <2>4, <2>5
<1> QED BY Zenon, <1>3, <1>4 DEF refresh

LEMMA TickSound ==
  ASSUME DeploymentInv, Tick
  PROVE  DeploymentInv'
<1> USE DEF DeploymentInv
<1>1. /\ UNCHANGED <<pc, rel, eps, links>>
      /\ attested' = [s \in Services |-> Older(attested[s])]
      /\ tls' = [s \in Services |-> Older(tls[s])]
  BY Zenon DEF Tick
<1>2. \A l \in links' : LinkSound(l)'
  BY Zenon, <1>1, LinkKept
<1>3. ASSUME NEW s \in Services
      PROVE  ProcessSound(s)'
  <2>1. attested'[s] = Older(attested[s]) /\ tls'[s] = Older(tls[s])
    BY Zenon, <1>1
  <2>2. Older(None) = None
    BY Zenon DEF Older
  <2>3. Up(s) => Whole(attested'[s], s, rel[s]) /\ Whole(tls'[s], s, rel[s])
    BY Zenon, <2>1, OlderWhole DEF ProcessSound
  <2> QED BY Zenon, <1>1, <2>1, <2>2, <2>3 DEF ProcessSound, Up
<1> QED BY Zenon, <1>1, <1>2, <1>3

-----------------------------------------------------------------------------
LEMMA DeploymentAlways == IsDeployment => (Spec => []DeploymentInv)
<1> SUFFICES ASSUME IsDeployment PROVE Spec => []DeploymentInv
  BY Zenon
<1>1. Init => DeploymentInv
  BY DEF Init, DeploymentInv, ProcessSound, Up, Down
<1>2. ASSUME DeploymentInv, [Next]_vars
      PROVE  DeploymentInv'
  <2>1. ASSUME NEW s \in Services, Crash(s) \/ Retire(s) \/ heartbeat_fails(s)
        PROVE  DeploymentInv'
    BY Zenon, <1>2, <2>1, ExitSound DEF Crash, Retire, heartbeat_fails
  <2>2. CASE UNCHANGED vars
    <3>1. UNCHANGED <<pc, rel, eps, attested, tls, links>>
      BY Zenon, <2>2 DEF vars
    <3> QED BY Zenon, <1>2, <3>1 DEF DeploymentInv, ProcessSound, LinkSound, Up
  <2> QED BY Zenon, <1>2, <2>1, <2>2, StartSound, ConnectSound, ServeSound, ReconnectSound,
             RefreshSound, TickSound DEF Next
<1> QED BY <1>1, <1>2, PTL DEF Spec

(* AttestedTlsConfig::new, get_sgx_quote, AttestationFreshnessKeeper: whichever
   request the answer of the quoting enclave belongs to, and however often the
   keeper renews it, a configuration that is kept holds one key and the
   measurement of its own enclave. *)
THEOREM ConfigsAreWhole == IsDeployment => (Spec => []ConfigIsWhole)
<1>1. DeploymentInv => ConfigIsWhole
  BY ZenonT(60) DEF DeploymentInv, ProcessSound, Whole, ConfigIsWhole
<1> QED BY <1>1, DeploymentAlways, PTL

(* verify_cert: through crashes, launches of other releases and reconnections,
   a connection joins two processes of one release, and the one that accepted it
   lists the other among its inbound services. *)
THEOREM ConnectionsAreMutual == IsDeployment => (Spec => []LinksAreMutual)
<1>1. DeploymentInv => LinksAreMutual
  BY Zenon DEF DeploymentInv, LinkSound, LinksAreMutual
<1> QED BY <1>1, DeploymentAlways, PTL

(* start_service of the frontend, which does not verify its enclave_info
   (frontend/enclave/src/lib.rs:69): it never listens at a release whose
   enclave_info verify_and_new refuses, since it has connected before to services
   of that release that did verify it.  This says no more of enclave_info than
   verify_and_new checks: no wrong signature, but perhaps none at all. *)
THEOREM FrontendIsHeldBack == IsDeployment => (Spec => []ListensAsVerified)
<1> SUFFICES ASSUME IsDeployment PROVE Spec => []ListensAsVerified
  BY Zenon
<1>1. DeploymentInv => ListensAsVerified
  BY SMTT(60) DEF DeploymentInv, ProcessSound, ListensAsVerified, Up, Down, Serving,
     verify_and_new, EnclaveInfo_verify
<1> QED BY <1>1, DeploymentAlways, PTL

(* The inbound lists of config/build.config.toml admit every connection that a
   start_service makes: two processes of one release with sound reports that are
   not from the other's future accept each other. *)
THEOREM NeededIsAccepted == IsDeployment => (Spec => []EveryCallIsAccepted)
<1> SUFFICES ASSUME IsDeployment PROVE Spec => []EveryCallIsAccepted
  BY Zenon
<1>1. ASSUME DeploymentInv
      PROVE  EveryCallIsAccepted
  <2> SUFFICES ASSUME NEW c \in Services, NEW d \in Deps(c), Sound(c, d), Sound(d, c),
                      rel[c] = rel[d]
               PROVE  Accepts(c, d) /\ AcceptsClient(d, c)
    BY Zenon DEF EveryCallIsAccepted
  <2>1. d \in Services /\ c \in Inbound[d]
    BY Zenon, <1>1, StartFacts DEF Deps
  <2>2. ASSUME NEW x \in Services, NEW y \in Services, Sound(x, y)
        PROVE  /\ from_cert(tls[x].cert, tls[x].age - Lag[y])
               /\ universal_quote_verifier(tls[x].cert)
               /\ tls[x].cert.ext.quote.measure = EnclaveMeasurement(x, rel[x])
    <3>1. Whole(tls[x], x, rel[x])
      BY Zenon, <1>1, <2>2 DEF DeploymentInv, ProcessSound, Sound
    <3>2. tls[x].age - Lag[y] >= 0
      <4>1. tls[x].age \in Nat /\ Lag[y] \in Int /\ tls[x].age >= Lag[y]
        BY Zenon, <2>2, <3>1 DEF Sound, Whole, IsDeployment
      <4> QED BY <4>1
    <3>3. tls[x].cert.key = tls[x].cert.ext.quote.report_data
      BY Zenon, <3>1 DEF Whole
    <3>4. tls[x].cert.ext.quote.measure = EnclaveMeasurement(x, rel[x])
      BY Zenon, <3>1 DEF Whole
    <3> QED BY Zenon, <2>2, <3>2, <3>3, <3>4 DEF Sound, from_cert, universal_quote_verifier
  <2>3. Accepts(c, d)
    BY Zenon, <2>1, <2>2 DEF Accepts, verify_cert, verify_measures
  <2>4. AcceptsClient(d, c)
    BY Zenon, <2>1, <2>2 DEF AcceptsClient, verify_cert, verify_measures
  <2> QED BY Zenon, <2>3, <2>4
<1> QED BY <1>1, DeploymentAlways, PTL
=============================================================================
