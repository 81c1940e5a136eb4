SPECIFICATION FairSpec
CONSTANTS
  Request <- TwoPrompts
  NoRequest = NoRequest
  Steerable = FALSE
  MaxJobs = 2
  MaxCalls = 1
  MaxBoots = 2
PROPERTY AdmittedEnds
CHECK_DEADLOCK FALSE
