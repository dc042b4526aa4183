SPECIFICATION ReplicasSpec
\* Every part stops at its bounds.
CHECK_DEADLOCK FALSE
CONSTANTS
  IngressThreads = {i1, i2}
  MaxGeneration = 1
  MaxSequence = 2
  MaxNow = 1
  MaxErrors = 1
  reorder_window = 1
  freshness_horizon = 0
  high_water = 2
  receipt_capacity = 1
  Overflows = {"Block", "DropNewest", "DropOldest", "Conflate"}
  WatchedReaders = {"value"}
  NoScope = NoScope
  Writers = {1, 2}
  MaxTextOps = 4
  MaxDeltas = 1
  NoOp = NoOp
  SeqPeers = {1, 2}
  SeqIds = {a, b}
  SeqValues = {x}
  Walls = {1, 2}
  MaxSeqOps = 3
  MaxMerges = 1
  NoSeqEntry = NoSeqEntry
  TreePeers = {1, 2}
  TreeMay = {"create", "tombstone", "reorder", "edit", "split", "merge"}
  MaxTreeOps = 3
  MaxBuffered = 2
  Replicas = {1, 2}
  FamilySuffixes = {k1, k2}
  FamilyWalls = {1, 2}
  MaxWrites = 3
  NoNode = NoNode
  Generations = {1, 2}
  MaxImages = 1
  MaxMessages = 4
  NoEntry = NoEntry
  MaxPosition = 3
  Attempts = {1, 2}
  Fingerprints = {"x", "y"}
  RoomPeers = {r1, r2}
  MaxConns = 3
  MaxSignals = 1
  RoomModes = {"Open", "Allowlist"}
  NoPeerYet = NoPeerYet
INVARIANTS
  IngressSound
  TextSound
  SeqSound
  TreeSound
  FamiliesAgree
  FoldsSound
  RoomSound
