SPECIFICATION Spec
CONSTANTS
  BaseOrigin <- MCBaseOrigin
  BasePath <- MCBasePath
  NoLocation = NoLocation
  NoQuery = NoQuery
  Absent = Absent
  Calls <- MCCalls
  CallerSets <- MCCallerSets
  CallerUrls <- MCCallerUrls
CHECK_DEADLOCK FALSE
INVARIANTS
  StaysBelowBase
  DotsAreWalked
  PathsMeanOneThing
  ServerVerifies
  MeaningKept
  HeadersAreRight
