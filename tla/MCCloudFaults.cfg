CONSTANTS
  anna = anna
  bruno = bruno
  studio = studio
  h1 = h1
  h2 = h2
  Absent = Absent
  NoFiles = NoFiles
  NoHook = NoHook
  Subjects = {anna, bruno}
  Lawyer = studio
  Handlers = {h1, h2}
  Messages = {1, 2, 3, 4, 5}
  Sender <- FaultSender
  Choices <- FaultChoices
  Batches <- FaultBatches
  StartFiles <- FaultFiles
  StartPractices <- FaultPractices
  MaxCode = 2
  Faults = {"persistence", "dispatch", "crash"}
  MaxFaults = 1
  MaxTimeouts = 1
SPECIFICATION Spec
SYMMETRY HandlerSymmetry
INVARIANTS
  TypeOK
  ConsentGate
  AcknowledgedMeansAnswered
  PracticesAreOwn
PROPERTIES
  ConsentIsFinal
  ProcessedIsNotAnsweredAgain
  RegistrySpec
CHECK_DEADLOCK FALSE
