SPECIFICATION Spec
CONSTANTS
  Methods <- MCMethods
  Origins = {"base", "other"}
  Paths <- MCPaths
  BaseOrigin = "base"
  BasePath <- MCBasePath
  SafeMethods = {"GET"}
  IdempotentMethods = {"GET", "PUT"}
  RetryNonIdempotent = FALSE
  RetryStatuses = {429, 500, 503}
  NoLocation = NoLocation
  NoAnswer = NoAnswer
  ConnError = ConnError
  Requests <- MCRequests
  Responses <- MCResponses
  MaxRedirects = 1
  MaxRetries = 2
  InitialBackoff = 1
  Multiplier = 2
  MaxBackoff = 2
  HasDeadline = TRUE
  Deadline = 3
  HonorRetryAfter = TRUE
  MaxRetryAfter = 2
  Total = 1
INVARIANTS
  AtMostOnce
  NoLateWrite
  NeverSleepsThroughDeadline
  RetryAfterHonoured
PROPERTIES
  KeepsContract
  SentInTime
