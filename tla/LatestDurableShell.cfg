SPECIFICATION FairShellSpec
CONSTANTS
  Keys = {k1}
  Values = {v1, v2}
  Threads = {t1, t2}
  None = None
  MaxEpoch = 2
  MaxGen = 1
INVARIANTS
  EpochsOrdered NewestKept EpochNamesValue CachesShowCore
PROPERTIES
  ImplementsRegister Settles
CHECK_DEADLOCK FALSE
