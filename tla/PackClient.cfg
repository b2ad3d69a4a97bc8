SPECIFICATION FairSpec
CONSTANTS
  r1 = r1
  r2 = r2
  Refs <- TwoRefs
  OmsKinds <- AllKinds
  MaxSeq = 3
  QLimit = 2
  MaxRestarts = 1
  MayModify = TRUE
  MayFail = TRUE
  MayCrash = TRUE
  PipeIsNFO = TRUE
INVARIANT TypeOK
INVARIANT PackedAtMostOnce
INVARIANT QueueBounded
INVARIANT OrderPreserved
INVARIANT OnlyStalePacketsRepeat
INVARIANT LossBounded
INVARIANT DisagreementsHaveCauses
PROPERTY RequestedIsPickedUp
PROPERTY StarvedForEver
CHECK_DEADLOCK FALSE
