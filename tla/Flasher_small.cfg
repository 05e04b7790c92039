SPECIFICATION Spec
CONSTANTS
  Old = Old
  Bad = Bad
  NoResult = NoResult
  Torn = Torn
  Nothing = Nothing
  Image <- ThreeUnits
  Chunk = 2
  Capacity = 2
  Faults <- NoFaults
INVARIANTS
  VerifiedMeansWritten
