SPECIFICATION Spec
CONSTANTS
  Plan <- ThrowPlan
  Body <- ThrowBody
  Same <- EqualGuard
  HostMay = {"make", "set", "get"}
  Values = {0, 1}
  None = None
  Setup = 5
  MaxId = 5
  MaxGen = 1
  MaxBatch = 0
  MaxLog = 3
INVARIANT
  UsableAfterThrow
CHECK_DEADLOCK FALSE
