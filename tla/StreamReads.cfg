SPECIFICATION FairSpec
CONSTANTS
  NullReadable = FALSE
  MaxUpdates = 3
  MaxEvents = 4
INVARIANTS InOrder FreshAtTick AlignedDelivery
PROPERTY HandlerReturns
CHECK_DEADLOCK FALSE
