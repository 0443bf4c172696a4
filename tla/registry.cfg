CONSTANTS
  Parts = {"accounts", "registry", "registry_two", "registry_lists", "files"}
  Ids = {admin, user}
  Admin = admin
  Attributes = {"a"}
  Passwords = {"teaclave"}
  Default = "teaclave"
  LifeTime = 1
  MaxTime = 2
  MaxWrites = 3
  MaxRestarts = 1
  MaxTokens = 2
  Faulty = TRUE
  FromOutput = FromOutput
  Nothing = Nothing
SPECIFICATION AnySpec
INVARIANTS
  RolesWereGiven
  AcceptedRoleIsRecent
  AckedSurvives
  KeyKeepsOwners
PROPERTIES
  OwnerDecides
CHECK_DEADLOCK FALSE
