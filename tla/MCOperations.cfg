CONSTANTS
  c1 = c1
  c2 = c2
  o1 = o1
  o2 = o2
  NoClient = NoClient
  Absent = Absent
  NoFiles = NoFiles
  Migrator = Migrator
  Runtime = Runtime
  Backup = Backup
  Clients = {c1, c2}
  Operators = {o1, o2}
  Connections <- MCConnections
  SeveralWords <- MCSeveralWords
  StartDatabases <- MCStart
  Choices <- MCChoices
  Bound <- MCBound
  MaxEvents = 4
SPECIFICATION FairSpec
INVARIANTS
  TypeOK
  NothingDestroyed
  UninterruptedUpgradeIsFaithful
  MigratedIsHealthy
  CaseHasItsAudit
  AlarmsAreExplained
  CompletedIsListed
  NoOrphanUnlessLeaked
PROPERTIES
  CasesMatchCommittedIntake
  SerialSpec
  UpgradeCompletes
CHECK_DEADLOCK FALSE
