SPECIFICATION Spec
CONSTANTS
  Torn = Torn
  NoResult = NoResult
  ListOrders <- LikeAndUnlikeNumbers
  ReadDirMayFail = TRUE
INVARIANTS
  TypeOK
  ReceivedInOrder
  FullMeansAll
PROPERTIES
  RunReturns
