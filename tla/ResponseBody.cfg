SPECIFICATION Spec
CONSTANTS
  MediaTypes <- MCMediaTypes
  Lengths <- MCLengths
  MaxChunk = 3
  Limit = 4
  PreviewLimit = 2
CHECK_DEADLOCK FALSE
INVARIANTS
  BufferBounded
  TextNeverFails
PROPERTIES
  KeepsContract
