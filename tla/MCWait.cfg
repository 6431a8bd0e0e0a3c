CONSTANTS
  Agents = {1, 2}
  MaxDispatch = 2
  PollSeconds = 1
  GoneAfter = 3
  ProviderWait = 2
  Chunk = 0
  MaxLook = 1
  MaxEvents = 2
SPECIFICATION Spec
INVARIANTS
  TypeOK
  NotGoneEarly
PROPERTIES
  BlindFleetSparesNodes
  FreeIsJudged
  StuckToldOnce
  JudgmentsAreTold
  GoneConcluded
