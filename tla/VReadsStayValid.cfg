SPECIFICATION Spec
CONSTANTS
  r1 = r1
  r2 = r2
  Refs <- TwoRefs
  OmsKinds <- CleanOnly
  MaxSeq = 2
  QLimit = 1
  MaxRestarts = 1
  MayModify = TRUE
  MayFail = FALSE
  MayCrash = FALSE
  PipeIsNFO = TRUE
INVARIANT ReadsStayValid
CHECK_DEADLOCK FALSE
