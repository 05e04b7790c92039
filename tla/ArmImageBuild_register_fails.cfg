SPECIFICATION Spec
CONSTANTS
  NoMount = NoMount
  Skipped = NoMount
  Torn = Torn
  TornSlice = Torn
  ImageMounts <- TwoMounts
  ExtraMounts <- OneExtra
  ResolvConf <- EtcResolv
  ScanResults <- FullScan
  Configs <- QemuConfig
  Faults <- RegisterFault
INVARIANTS
  CleanupSurvivesErrors
