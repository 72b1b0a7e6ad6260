CONSTANTS
  Works <- MCWorks
  DuplicateId = "PAY-2"
  MaximumRetries = 1
  RetryDelay = 2
  PaymentIds = {"PAY-1", "PAY-2"}
  Capacity = 2
  WorkRaises = TRUE
  JumpTimes = {4}
  JumpWhileQueued = TRUE
  MaxSubmissions = 3
  MaxFailures = 2
  MaxTime = 20
  MaxEvents = 20
SPECIFICATION MCFairSpec
INVARIANTS
  EffectsMatchOutcomes
  RefusalsExplained
  OneAttemptUnderWay
  PolicyKept
PROPERTY EveryPaymentDecided
CHECK_DEADLOCK FALSE
