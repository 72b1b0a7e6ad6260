CONSTANTS
  Payments = {"p1"}
  Versions = {"first", "late"}
  Amounts = {1, 2}
  None = None
  OpeningEntries <- MCLaterOpening
  OtherEntryIds <- MCOtherEntryIds
  MaxDeliveries = 7
SPECIFICATION Spec
INVARIANTS
  PrefixThenGap
  DebitOnlyIfCompleted
  OrderIsIrrelevant
  EveryDeliveryDecided
CHECK_DEADLOCK FALSE
