SPECIFICATION Spec
CONSTANTS
  NoMount = NoMount
  Skipped = NoMount
  Torn = Torn
  TornSlice = Torn
  ImageMounts <- TwoMounts
  ExtraMounts <- OneExtra
  ResolvConf <- EtcResolv
  ScanResults <- EmptyOrFullScan
  Configs <- NativeConfig
  Faults <- NoFaults
INVARIANTS
  LoopReleased
