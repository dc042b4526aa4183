SPECIFICATION FairSpec
CONSTANTS
  Threads = {0, 1, 2}
  kPool = 3
  NoThread = NoThread
  None = None
  MaxVersion = 1
INVARIANTS MutualExclusion TokenNamesHolder ReadsNeverGoBack
PROPERTIES DrainEnds CallsReturn
