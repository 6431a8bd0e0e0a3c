CONSTANTS
  ContinueAttempts = 1
  Restarts = 1
  ElapsedSeconds = 7
  SettlingSeconds = 2
  ProviderWaitSeconds = 4
  Handoffs = 2
  RapidHandoffSeconds = 2
  SpentRetrySeconds = 2
  FirstBackoff = 1
  LastBackoff = 2
  LogTail = 16
  RetryAfters = {0}
  EndClasses = {"ended", "refused", "unauthorized", "context", "handoff", "spentRefused", "spentHandoff"}
  SameSecond = FALSE
  SendIntoTurn = FALSE
  MaxTime = 8
  MaxSends = 1
  MaxSpent = 1
  MaxMisses = 1
SPECIFICATION Spec
CHECK_DEADLOCK FALSE
INVARIANTS TypeOK RungsBounded WrittenOffFairly HandoffsBounded FreshMessageSettles ElapsedIsOwnTime
