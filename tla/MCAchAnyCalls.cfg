CONSTANTS
  TransferIds = {"t1", "t2"}
  ReturnIds = {"r1", "r2"}
  AccountIds = {"acct1", "acct2"}
  Requests <- MCFewRequests
  ReturnRequests <- MCRivalReturns
  OpeningEntries <- MCOpening
  OtherEntryIds <- MCOtherEntryIds
  ReceiveBy = 2
  JumpTimes = {12}
  JumpWhileQueued = TRUE
  DirectIds = {"t1", "r1"}
  MaxTime = 8
  MaxEvents = 20
  None = None
SPECIFICATION Spec
INVARIANTS
  HeldAndSubmittedOnce
  MoneyMovesOnce
PROPERTIES
  SchedulerContract
  MoneyMovesAtCompletion
CHECK_DEADLOCK FALSE
