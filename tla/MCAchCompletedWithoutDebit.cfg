CONSTANTS
  TransferIds = {"t1"}
  ReturnIds = {"r1", "r2"}
  AccountIds = {"acct1", "acct2"}
  Requests <- MCRequests
  ReturnRequests <- MCReturnRequests
  OpeningEntries <- MCElevenDeposits
  OtherEntryIds <- MCDepositIds
  ReceiveBy = 1
  JumpTimes = {12}
  JumpWhileQueued = FALSE
  DirectIds = {}
  MaxTime = 17
  MaxEvents = 20
  None = None
SPECIFICATION Spec
INVARIANT CompletedHasDebit
CHECK_DEADLOCK FALSE
