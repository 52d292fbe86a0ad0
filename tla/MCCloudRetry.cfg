CONSTANTS
  anna = anna
  bruno = bruno
  studio = studio
  h1 = h1
  h2 = h2
  Absent = Absent
  NoFiles = NoFiles
  NoHook = NoHook
  Subjects = {anna}
  Lawyer = studio
  Handlers = {h1, h2}
  Messages = {1, 2, 3}
  Sender <- RetrySender
  Choices <- RetryChoices
  Batches <- RetryBatches
  StartFiles <- RetryFiles
  StartPractices <- RetryPractices
  MaxCode = 2
  Faults = {"persistence", "dispatch", "crash"}
  MaxFaults = 2
  MaxTimeouts = 1
SPECIFICATION FairSpec
PROPERTIES
  EveryWebhookAcknowledged
CHECK_DEADLOCK FALSE
