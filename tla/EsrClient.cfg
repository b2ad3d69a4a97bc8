SPECIFICATION FairSpec
CONSTANTS
  MaxMsg = 3
  MsgLen = 2
  HeaderLen = 2
  FrameLens <- ShortUnknownKnown
  KnownLens <- OnlyKnown
  MaxFrames = 2
  MaxRestarts = 1
INVARIANT TypeOK
INVARIANT Framing
INVARIANT LostOrdersBounded
INVARIANT AtMostOneMoreOrder
INVARIANT StaysInStep
PROPERTY QueueIsServed
PROPERTY ClientReturns
PROPERTY SentOnceInOrder
CHECK_DEADLOCK FALSE
