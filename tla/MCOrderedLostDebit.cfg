CONSTANTS
  Payments = {"p1", "p2"}
  Versions = {"first"}
  Amounts = {1}
  None = None
  OpeningEntries <- MCOpening
  OtherEntryIds <- MCOtherEntryIds
  MaxDeliveries = 8
SPECIFICATION Spec
INVARIANT CompletedHasDebit
CHECK_DEADLOCK FALSE
