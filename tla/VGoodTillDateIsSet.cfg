SPECIFICATION Spec
CONSTANTS
  Orders <- SomeOrders
  TraderId = "number"
  MaxCalls = 3
INVARIANT GoodTillDateIsSet
CHECK_DEADLOCK FALSE
