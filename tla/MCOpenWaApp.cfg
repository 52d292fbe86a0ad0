CONSTANTS
  m1 = m1
  h1 = h1
  h2 = h2
  Messages = {m1}
  Handlers = {h1, h2}
  Setups <- MCSetups
  MaxClients = 2
  MaxDeliveries = 3
  MaxRuns = 2
  MaxFaults = 3
SPECIFICATION FairSpec
INVARIANTS
  TypeOK
  ReadyMeansItStarts
  AnsweredOncePerProcess
  SecondAnswerIsExplained
  ProcessedMeansAnswered
  SilenceIsExplained
PROPERTIES
  StopEnds
CHECK_DEADLOCK FALSE
