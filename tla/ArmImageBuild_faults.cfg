SPECIFICATION FairSpec
CONSTANTS
  NoMount = NoMount
  Skipped = NoMount
  Torn = Torn
  TornSlice = Torn
  ImageMounts <- TwoMounts
  ExtraMounts <- DevMounts
  ResolvConf <- EtcResolv
  ScanResults <- AnyScan
  Configs <- AllConfigs
  Faults <- AllFaults
INVARIANTS
  TypeOK
  ArtifactReleasesHost
  LoggedUmountFailureIsFatal
  InterpreterRemoved
  ReleaseInv
  ChrootReady
  ArtifactIsComplete
PROPERTIES
  KeepsPromise
  Termination
