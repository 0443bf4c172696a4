SPECIFICATION FairScenarioSpec
CONSTANTS
  alice = alice
  bob = bob
  f = f
  t1 = t1
  t2 = t2
  o1 = o1
  o2 = o2
  None = None
  Users = {alice, bob}
  Tasks = {t1, t2}
  Functions = {f}
  InputNames = {}
  OutputNames = {"out"}
  InputFiles = {}
  OutputFiles = {o1, o2}
  FunctionOf <- NoQuota
  InputOwner <- InputsOfAlice
  OutputOwner <- OwnedByAlice
  Handlers = {h1}
  Requests = {"invoke"}
  MaxStaged = 1
  MaxCancels = 0
  Executors = {e1}
  InitialTasks <- TwoTasks
  FaultKinds = {"restart"}
  MaxFaults = 1
  TimelyCalls = TRUE
  Scenarios = {"plain"}
PROPERTY QueuedTasksEnd
CHECK_DEADLOCK FALSE
