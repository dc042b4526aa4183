SPECIFICATION FairSpec
CONSTANTS
  Plan <- LivePlan
  Body <- LiveBody
  Same <- EqualGuard
  HostMay = {"get", "set", "make", "eager", "lazy", "clear", "batch"}
  Values = {0, 1, 2}
  None = None
  Setup = 6
  MaxId = 7
  MaxGen = 1
  MaxBatch = 2
  MaxLog = 3
INVARIANTS
  CacheCoherent ReactionsCurrent
PROPERTIES
  NoRerunInsideBatch ControlReturns
CHECK_DEADLOCK FALSE
