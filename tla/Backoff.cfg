SPECIFICATION Spec
CONSTANTS
  FloatMax = 60
  DurationMax = 20
  WordMax = 15
  ExponentMax = 6
  Width = 64
  Shifts <- MCShifts
  Remap <- MCRemap
  Inf = Inf
  NegInf = NegInf
  NaN = NaN
  Values <- MCValues
  Presets <- MCPresets
  Seeds <- MCSeeds
  Headers <- MCHeaders
CHECK_DEADLOCK FALSE
INVARIANTS
  WaitsAreCapped
  CurveIsExponential
  WaitsAsAsked
PROPERTIES
  GeneratorRuns
