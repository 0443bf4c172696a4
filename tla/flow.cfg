SPECIFICATION ScenarioSpec
CONSTANTS
  alice = alice
  bob = bob
  f = f
  t1 = t1
  t2 = t2
  o1 = o1
  o2 = o2
  None = None
  Users = {alice, bob}
  Tasks = {t1, t2}
  Functions = {f}
  InputNames = {}
  OutputNames = {"out"}
  InputFiles = {}
  OutputFiles = {o1, o2}
  FunctionOf <- NoQuota
  InputOwner <- InputsOfAlice
  OutputOwner <- OwnedByAlice
  Handlers = {h1}
  Requests = {"invoke", "cancel"}
  MaxStaged = 2
  MaxCancels = 1
  Executors = {e1, e2}
  InitialTasks <- OneTask
  FaultKinds = {"abandon", "crash", "drop", "timeout", "storage", "rpc", "worker"}
  MaxFaults = 2
  TimelyCalls = FALSE
  Scenarios = {"plain", "restart", "quota", "pair"}
SYMMETRY ExecutorsAlike
INVARIANTS
  TypeOK
  OwnershipInv
  RunsAtMostOnce
  OutcomeIsRecorded
  WorkersAreTracked
  QuotaRespected
PROPERTIES
  LifecycleSpec
  CanceledOnRequest
CHECK_DEADLOCK FALSE
