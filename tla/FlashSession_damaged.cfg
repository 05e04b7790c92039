SPECIFICATION Spec
CONSTANTS
  Sessions <- OneSession
  Directories <- OneDirectory
  DiskSets <- OneStick
  Tables <- MountedOnce
  LaterMounts = {}
  PipeSize = 2
  Faults = {}
INVARIANTS
  VerifiedImageIsWhole
