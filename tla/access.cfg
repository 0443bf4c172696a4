CONSTANTS
  Parts = {"frontend", "audit", "audit_saved", "deployment", "upgrade", "unverified", "keeper", "launcher"}
  None = None
SPECIFICATION AnySpec
INVARIANTS
  ExecutedWasPermitted
  LinksAreMutual
PROPERTIES
  EveryCallIsAnswered
  AllServe
  EnclaveLifeCycle
CHECK_DEADLOCK FALSE
