CONSTANTS
  c1 = c1
  c2 = c2
  c3 = c3
  r1 = r1
  r2 = r2
  NoClient = NoClient
  Clients = {c1, c2, c3}
  Recoveries = {r1, r2}
  RecoveryModes = {"manual", "restart_client"}
  StartupMaxAttempts = 2
  RecoveryMaxAttempts = 1
  FailureThreshold = 2
  Failures = {"create", "register", "kill"}
  PromptChecks = TRUE
  MaxChecks = 2
SPECIFICATION FairSpec
INVARIANTS
  TypeOK
  ReadyMeansServed
  OneClientAtATime
PROPERTIES
  DegradationIsSettled
  StopLeavesNoClient
CHECK_DEADLOCK FALSE
