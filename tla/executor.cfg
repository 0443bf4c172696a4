CONSTANTS
  Parts = {"transfers", "shared_urls", "runtime", "logger", "builtin", "python", "rust", "polls", "c", "wire", "ecall"}
  Ids = {admin, user}
  Admin = admin
  Attributes = {"a"}
  Passwords = {"teaclave"}
  Default = "teaclave"
  LifeTime = 1
  MaxTime = 2
  MaxWrites = 3
  MaxRestarts = 1
  MaxTokens = 2
  Faulty = TRUE
  FromOutput = FromOutput
  Nothing = Nothing
SPECIFICATION FairSpec
INVARIANTS
  ReadsAreAuthentic
  RunsAreSeparate
PROPERTIES
  BuiltinsAreExact
  ClientsGetResults
  MessagesAreWhole
CHECK_DEADLOCK FALSE
