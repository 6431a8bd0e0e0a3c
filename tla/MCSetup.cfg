CONSTANTS
  Starts <- MCStarts
  Paths <- MCPaths
  Defaults <- MCDefaults
  MaxCommits = 4
  MaxCrashes = 1
SPECIFICATION Spec
INVARIANTS
  TypeOK
  ValidateIsPlan
  LentHoldsNoSecret
  OneBase
  MatchMeansBeneath
PROPERTIES
  SeatHasCredential
  InitSparesHead
  ClonesHoldNothingWithheld
  NoWithheldByPush
CHECK_DEADLOCK FALSE
