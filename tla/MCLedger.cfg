CONSTANTS
  Callbacks = {callback}
  MaxTime = 2
  MaxEvents = 4
  MaxPush = 2
  EntryIds <- MCEntryIds
  AccountIds = {"acct1", "acct2"}
  MaxAmount = 1
  MaxPosting = 1
  MaxEntries = 3
  RequestIds = {"PAY-001", "PAY-002"}
  DeliveryAmounts = {1, 2}
  MaxNumber = 3
  MaxArrival = 1
  MaxDeliveries = 3
SPECIFICATION MCSpec
INVARIANTS
  HistoryChronological
  EveryEventExplained
  WellFormed
  BatchMeansOneByOne
  DuplicatesAreTheDifference
  DecisionSupported
PROPERTY
  EveryEventLeavesTheHeap
CHECK_DEADLOCK FALSE
