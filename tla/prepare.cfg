SPECIFICATION ScenarioSpec
CONSTANTS
  alice = alice
  bob = bob
  f = f
  t1 = t1
  t2 = t2
  o1 = o1
  o2 = o2
  None = None
  Users = {alice, bob}
  Tasks = {t1}
  Functions = {f}
  InputNames = {"in"}
  OutputNames = {"out"}
  InputFiles = {i1, i2}
  OutputFiles = {o1}
  FunctionOf <- FunctionWithInput
  InputOwner <- InputsOfAlice
  OutputOwner <- OwnedByBob
  Handlers = {h1, h2}
  Requests = {"create", "assign", "approve", "invoke"}
  MaxStaged = 1
  MaxCancels = 1
  Executors = {}
  InitialTasks <- NoTasks
  FaultKinds = {}
  MaxFaults = 0
  TimelyCalls = FALSE
  Scenarios = {"plain"}
SYMMETRY HandlersAlike
INVARIANTS
  StagedWithConsent
CHECK_DEADLOCK FALSE
