CONSTANTS
  OtherCallbacks = {}
  Capacity = 2
  WorkRaises = TRUE
  JumpTimes = {3}
  JumpWhileQueued = TRUE
  MaxPayments = 5
  MaxArrivalTime = 1
  MaxTime = 12
  MaxEvents = 20
SPECIFICATION FairSpec
INVARIANTS
  EveryPaymentInItsPlace
  CapacityPerMinute
  FlagFollowsTick
  WaitMatchesPosition
PROPERTY EveryPaymentCompletes
CHECK_DEADLOCK FALSE
