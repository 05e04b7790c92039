SPECIFICATION Spec
CONSTANTS
  Sessions <- SomeSessions
  Directories <- SomeDirectories
  DiskSets <- SomeDisks
  Tables <- SomeTables
  LaterMounts <- MoreMounts
  PipeSize = 2
  Faults <- AllFaults
INVARIANTS
  TypeOK
  WritesOnlyChosen
  FlashedUnmounted
  OtherMountsKept
  AutoImageIsMostRecent
  SuccessIsWhole
  NothingLeftRunning
PROPERTIES
  SessionEnds
