SPECIFICATION ClientSpec
CONSTANTS
  Methods <- MCMethods
  Origins = {"base", "other"}
  Paths <- MCPaths
  BaseOrigin = "base"
  BasePath <- MCBasePath
  SafeMethods = {"GET"}
  IdempotentMethods = {"GET", "PUT"}
  RetryNonIdempotent = FALSE
  RetryStatuses = {429, 500, 503}
  NoLocation = NoLocation
  NoAnswer = NoAnswer
  ConnError = ConnError
  Requests <- MCRequests
  Responses <- MCResponses
  MaxRedirects = 2
  MaxRetries = 1
  InitialBackoff = 1
  Multiplier = 2
  MaxBackoff = 1
  HasDeadline = FALSE
  Deadline = 0
  HonorRetryAfter = FALSE
  MaxRetryAfter = 1
  Total = 1
  Bodies <- MCBodies
  Limit = 1
  PreviewLimit = 1
CHECK_DEADLOCK FALSE
INVARIANTS
  OnlyGuardedUrls
  CoherentRedirects
  SendsBounded
  NoEarlySurrender
  ResultsAreTrue
PROPERTIES
  ResultIsFinal
  EveryRequestEnds
