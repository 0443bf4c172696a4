SPECIFICATION FairScenarioSpec
CONSTANTS
  alice = alice
  bob = bob
  f = f
  t1 = t1
  t2 = t2
  o1 = o1
  o2 = o2
  None = None
  Users = {alice, bob}
  Tasks = {t1}
  Functions = {f}
  InputNames = {}
  OutputNames = {"out"}
  InputFiles = {}
  OutputFiles = {o1}
  FunctionOf <- NoQuota
  InputOwner <- InputsOfAlice
  OutputOwner <- OwnedByAlice
  Handlers = {h1}
  Requests = {"invoke", "cancel"}
  MaxStaged = 1
  MaxCancels = 1
  Executors = {e1, e2}
  InitialTasks <- OneTask
  FaultKinds = {"crash"}
  MaxFaults = 1
  TimelyCalls = TRUE
  Scenarios = {"plain"}
PROPERTIES StagedTasksEnd ExecutorsReturn CancelEnds
CHECK_DEADLOCK FALSE
