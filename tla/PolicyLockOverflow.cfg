SPECIFICATION Spec
CONSTANTS
  Calls = {c1, c2}
  Nobody = Nobody
  MaxRetries = 1
  MaxHops = 1
  MayOverflow = TRUE
  RngMayPanic = FALSE
CHECK_DEADLOCK FALSE
PROPERTIES
  PanicsOnlyIfPoisoned
