SPECIFICATION Spec
CONSTANTS
  Orders <- SomeOrders
  TraderId = "number"
  MaxCalls = 4
INVARIANT TypeOK
INVARIANT PacketIsOneOrder
INVARIANT FlagsOfTheOrder
INVARIANT NumbersWithoutGaps
PROPERTY ChecksumLagsOnePacket
PROPERTY OnlyPackableArePacked
CHECK_DEADLOCK FALSE
