CONSTANTS
  c1 = c1
  c2 = c2
  c3 = c3
  r1 = r1
  r2 = r2
  NoClient = NoClient
  Clients = {c1, c2, c3}
  Recoveries = {r1, r2}
  RecoveryModes = {"restart_client"}
  StartupMaxAttempts = 1
  RecoveryMaxAttempts = 2
  FailureThreshold = 1
  Failures = {"create"}
  PromptChecks = TRUE
  MaxChecks = 2
SPECIFICATION FairSpec
PROPERTIES
  DegradationIsSettled
CHECK_DEADLOCK FALSE
