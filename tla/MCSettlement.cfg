CONSTANTS
  TransferIds = {"t1", "t2"}
  ReturnIds = {"r1", "t2"}
  AccountIds = {"acct1", "acct2"}
  Requests <- MCRequests
  ReturnRequests <- MCReturnRequests
  OpeningEntries <- MCOpening
  OtherEntryIds <- MCOtherEntryIds
  ReceiveBy = 1
  JumpTimes = {12}
  JumpWhileQueued = FALSE
  DirectIds = {}
  MaxTime = 17
  MaxEvents = 20
  None = None
SPECIFICATION FairSpec
INVARIANTS
  EffectsMatchStatus
  OneEventPerUnfinishedTransfer
  ExpectationsExplainBalances
  EveryTamperingFound
  CleanIffIdentifiersApart
PROPERTIES
  KeepsPromise
  EveryWorkflowFinishes
CHECK_DEADLOCK FALSE
