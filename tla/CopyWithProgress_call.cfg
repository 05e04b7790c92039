SPECIFICATION Spec
CONSTANTS
  NoResult = NoResult
  Chunk = 2
  Sources <- UpToFour
INVARIANTS
  TypeOK
  OneLateWrite
  CountIsClose
  ResultIsExact
PROPERTIES
  CancelReturns
  CopierEnds
