SPECIFICATION FairSpec
CONSTANTS
  r1 = r1
  r2 = r2
  Refs <- TwoRefs
  OmsKinds <- ThreeKinds
  MaxSeq = 2
  QLimit = 1
  MayModify = FALSE
  MayFail = TRUE
  MayCrash = TRUE
  PipeIsNFO = TRUE
  MsgLen = 2
  HeaderLen = 1
  FrameLens <- ShortOnly
  KnownLens <- OnlyKnown
  MaxFrames = 1
  MaxRestarts = 1
INVARIANT OneEndCostsTwoOrders
INVARIANT CopiesFollowTheirOrder
PROPERTY KeepsItsPromise
PROPERTY RequestedIsSettled
PROPERTY HaltsWithoutClient
CHECK_DEADLOCK FALSE
