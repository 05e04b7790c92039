SPECIFICATION Spec
CONSTANTS
  Old = Old
  Bad = Bad
  NoResult = NoResult
  Torn = Torn
  Nothing = Nothing
  Image <- ThreeUnits
  Chunk = 2
  Capacity = 3
  Faults <- AllFaults
INVARIANTS
  TypeOK
  VerifiedIsIntact
  VerifiedCopyIsWhole
  NoFalseAlarm
