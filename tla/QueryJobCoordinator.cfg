SPECIFICATION Spec
CONSTANTS
  Request <- TwoPrompts
  NoRequest = NoRequest
  Steerable = TRUE
  MaxJobs = 2
  MaxCalls = 1
  MaxBoots = 2
INVARIANTS
  TypeOK
  OneRunPerSession
  NoJobForgotten
PROPERTIES
  PromptOnlyWhileOwned
  StartsInOrder
CHECK_DEADLOCK FALSE
