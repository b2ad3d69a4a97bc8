SPECIFICATION FairSpec
CONSTANTS
  cln_pack_clnt = cln_pack_clnt
  LogOnToTap = LogOnToTap
  LogOffFromTap = LogOffFromTap
  Services <- AllServices
  Kind <- KindOf
  QLimit = 2
  MaxNum = 3
  MaxCalls = 2
  MaxOrders = 3
  MaxEnds = 1
  MayFail = TRUE
INVARIANT TypeOK
INVARIANT QueueOverrun
INVARIANT StolenOrdersLeaveRequests
INVARIANT NumbersIdentify
INVARIANT BlockedReadsHaveCauses
PROPERTY ReadBackReturns
CHECK_DEADLOCK FALSE
