CONSTANTS
  p = p
  q = q
  r = r
  s = s
  WorkerCounts = {1, 2, 3}
  ProcessingTime = 2
  Workloads <- MCWorkloads
  JumpTimes = {3}
  MaxArrivalTime = 1
  MaxTime = 20
  MaxEvents = 20
SPECIFICATION FairSpec
INVARIANTS
  LedgerFollowsArrivals
  OneCompletionPerBusyWorker
  StartsAsInFifoPool
  MetricsAddUp
PROPERTY EveryPaymentServed
CHECK_DEADLOCK FALSE
