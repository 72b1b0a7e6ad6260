CONSTANTS
  AccountIds = {"acct1", "acct2"}
  PaymentAccount = "acct1"
  RequestIds = {"r1", "r2"}
  Keys = {"k1", "k2"}
  PendingLists <- MCPendingLists
  MaxAmount = 2
  MaxArrival = 4
  MaxEntries = 4
  MaxAcknowledged = 3
SPECIFICATION Spec
INVARIANTS
  BalancesExplained
  FundsCovered
  KeyMeansOneDebit
CHECK_DEADLOCK FALSE
