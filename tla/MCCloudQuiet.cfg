CONSTANTS
  anna = anna
  bruno = bruno
  studio = studio
  h1 = h1
  h2 = h2
  Absent = Absent
  NoFiles = NoFiles
  NoHook = NoHook
  Subjects = {anna, bruno}
  Lawyer = studio
  Handlers = {h1, h2}
  Messages = {1, 2, 3, 4, 5, 6, 7}
  Sender <- QuietSender
  Choices <- QuietChoices
  Batches <- QuietBatches
  StartFiles <- QuietFiles
  StartPractices <- QuietPractices
  MaxCode = 3
  Faults = {}
  MaxFaults = 0
  MaxTimeouts = 0
SPECIFICATION Spec
SYMMETRY HandlerSymmetry
INVARIANTS
  CompletionOpensPractice
  LegalIssueIsItsOwnMessage
  LogsAccountForState
CHECK_DEADLOCK FALSE
