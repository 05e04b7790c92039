SPECIFICATION Spec
CONSTANTS
  Torn = Torn
  NoResult = NoResult
  ListOrders <- LikeAndUnlikeNumbers
  ReadDirMayFail = FALSE
INVARIANTS
  AllPartitionsFound
