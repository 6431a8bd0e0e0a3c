CONSTANTS
  ContinueAttempts = 1
  Restarts = 1
  ElapsedSeconds = 6
  SettlingSeconds = 2
  ProviderWaitSeconds = 4
  Handoffs = 1
  RapidHandoffSeconds = 2
  SpentRetrySeconds = 2
  FirstBackoff = 1
  LastBackoff = 2
  LogTail = 16
  RetryAfters = {0}
  EndClasses = {"ended", "refused", "unauthorized", "context", "handoff", "spentRefused", "spentHandoff"}
  SameSecond = TRUE
  SendIntoTurn = FALSE
  MaxTime = 9
  MaxSends = 0
  MaxSpent = 0
  MaxMisses = 0
SPECIFICATION Spec
CHECK_DEADLOCK FALSE
INVARIANT FreshMessageSettles
