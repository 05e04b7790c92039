SPECIFICATION FairSpec
CONSTANTS
  NoMount = NoMount
  Skipped = NoMount
  Torn = Torn
  TornSlice = Torn
  ImageMounts <- NestedMounts
  ExtraMounts <- DevMounts
  ResolvConf <- EtcResolv
  ScanResults <- NestedScan
  Configs <- SomeConfigs
  Faults <- EndFaults
PROPERTIES
  MountNeverHides
  Delivers
