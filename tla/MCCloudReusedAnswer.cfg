CONSTANTS
  anna = anna
  bruno = bruno
  studio = studio
  h1 = h1
  h2 = h2
  Absent = Absent
  NoFiles = NoFiles
  NoHook = NoHook
  Subjects = {anna}
  Lawyer = studio
  Handlers = {h1, h2}
  Messages = {1, 2}
  Sender <- ShortSender
  Choices <- ShortChoices
  Batches <- ShortBatches
  StartFiles <- IdentityAsked
  StartPractices <- NoPractices
  MaxCode = 2
  Faults = {"dispatch"}
  MaxFaults = 1
  MaxTimeouts = 0
SPECIFICATION Spec
INVARIANTS
  LegalIssueIsItsOwnMessage
CHECK_DEADLOCK FALSE
