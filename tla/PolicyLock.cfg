SPECIFICATION Spec
CONSTANTS
  Calls = {c1, c2}
  Nobody = Nobody
  MaxRetries = 2
  MaxHops = 1
  MayOverflow = TRUE
  RngMayPanic = TRUE
CHECK_DEADLOCK FALSE
INVARIANTS
  NoGuardAcrossAwait
  JitterIsNotShared
PROPERTIES
  PoisonStopsReplays
  EveryCallEnds
