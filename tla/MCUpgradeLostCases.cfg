CONSTANTS
  c1 = c1
  c2 = c2
  o1 = o1
  o2 = o2
  NoClient = NoClient
  Absent = Absent
  NoFiles = NoFiles
  Migrator = Migrator
  Runtime = Runtime
  Backup = Backup
  Clients = {c1, c2}
  Operators = {o1, o2}
  Connections <- MCConnections
  SeveralWords <- MCSeveralWords
  StartDatabases <- MCStartOld
  Choices <- MCChoices
  Bound <- MCInterruptions
  MaxEvents = 1
SPECIFICATION Spec
INVARIANTS
  UpgradeKeepsCases
CHECK_DEADLOCK FALSE
