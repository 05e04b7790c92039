SPECIFICATION Spec
CONSTANTS
  b1 = b1
  b2 = b2
  Builds = {b1, b2}
  Mine = b1
  Size = 2
  PipeSize = 1
  UnitBytes = 4
  SectorSize = 2
  LbaBound = 16
  Requests <- SomeRequests
  Faults <- SomeImageFaults
  CacheFaults <- SomeCacheFaults
  FileFaults <- SomeFileFaults
INVARIANTS
  TypeOK
  BinaryIsWhole
  CopiedIsWhole
  PartitionsInFile
  LastTakesTheRoom
PROPERTIES
  BuildSettles
