SPECIFICATION Spec
CONSTANTS
  Plan <- ChurnPlan
  Body <- ChurnBody
  Same <- EqualGuard
  HostMay = {"get", "set", "make", "dispose", "eager", "lazy"}
  Values = {0, 1}
  None = None
  Setup = 5
  MaxId = 6
  MaxGen = 1
  MaxBatch = 0
  MaxLog = 3
INVARIANTS
  ArenaSound CacheCoherent
PROPERTY
  DisposeHitsOwn
CHECK_DEADLOCK FALSE
