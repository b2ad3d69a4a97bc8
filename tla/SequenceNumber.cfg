SPECIFICATION Spec
CONSTANTS
  cln_pack_clnt = cln_pack_clnt
  LogOnToTap = LogOnToTap
  LogOffFromTap = LogOffFromTap
  Callers <- AllCallers
  MaxSeqNum = 8
  Capacity = 12
  MaxAborts = 2
INVARIANT TypeOK
INVARIANT OneResetAtATime
INVARIANT FullRowIsBeingReset
PROPERTY NoEarlyReuse
PROPERTY ActsAsOneStep
CHECK_DEADLOCK FALSE
