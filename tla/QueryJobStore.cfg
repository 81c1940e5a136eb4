SPECIFICATION StoreSpec
CONSTANTS
  Request <- PromptAndRetry
  NoRequest = NoRequest
  MaxJobs = 2
  MaxCalls = 1
  MaxBoots = 2
INVARIANTS
  TypeOK
  MemoryIsJournal
  LineageIsSerial
PROPERTIES
  CrashedOwnerKeepsSession
  RequeuedNeverStarted
  ImplementsPromise
CHECK_DEADLOCK FALSE
