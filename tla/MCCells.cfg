SPECIFICATION CellsSpec
SYMMETRY CellsSymmetry
\* A queue that is closed and empty stops, and every part stops at its bounds.
CHECK_DEADLOCK FALSE
CONSTANTS
  Peers = {p1, p2, p3}
  NoPeer = NoPeer
  Ttls = {0, 1, 2}
  capacity = 2
  required = 2
  MaxFence = 4
  QueueThreads = {q1, q2, q3}
  queue_capacity = 2
  MaxPushes = 4
  Uncached = Uncached
  Subscribers = {s1, s2}
  TopicThreads = {t1, t2}
  MaxTail = 2
  MaxReaders = 2
  Unheld = Unheld
  Undefined = Undefined
  MaxTicks = 7
  Shapers = {"debounce", "leading", "trailing", "sampleCount", "sampleTime", "tumblingCount", "tumblingTime", "sliding", "session"}
  span = 2
  slide = 1
  MaxInputs = 4
  MaxTime = 6
  window = 3
  failure_threshold = 2
  reset_timeout = 2
  BreakerCalls = {c1, c2, c3}
  bulkhead_capacity = 2
  BulkheadUsers = {u1, u2, u3}
  Timeouts = {0, 1, 3}
  word_bits = 4
  MaxMoment = 5
  ChartOrder <- HomeOrder
  ChartKind <- HomeKind
  ChartParent <- HomeParent
  ChartInitial <- HomeInitial
  ChartDefault <- HomeDefault
  ChartTransitions <- HomeTransitions
  NoState = NoState
  NoGuard = NoGuard
  FamilyThreads = {f1, f2}
  FamilyKeys = {1, 2}
  FamilyValues = {1}
  FamilyCalls = {"get", "set", "remove", "move"}
  MintedBefore <- FamilySeed
  NoCell = NoCell
  NotCached = NotCached
  MaxFamilyCalls = 3
  TreeKeys = {1, 2, 3, 4}
  TreeValues = {0, 1}
  NoIndex = NoIndex
  MaxTreeCalls = 3
  Waiters = {x1, x2}
  max_word = 3
  Durations = {0, 1, 2}
  required_revision = 2
  MaxRevision = 3
  NoDeadline = NoDeadline
  Open = Open
  EdgeIds = {1, 2, 3, 4, 5}
  EdgeHome <- HomeSlots
  edge_promote = 2
  edge_demote = 1
  first_slots = 8
  QueueIds = {1, 2, 3, 4, 5}
  queue_promote = 3
  queue_demote = 1
  MaxPops = 3
  Unindexed = Unindexed
  LocalSenders = {l1}
  ShmSenders = {m1, m2}
  PayloadLen <- BlobLens
  PayloadSum <- BlobSums
  BlobMessages <- BlobMail
  threshold = 3
  header_bytes = 40
  slot_bytes = 24
  region_capacity = 94
  MaxBlobEpoch = 1
  MaxArenaWrites = 1
  NoView = NoView
  Moved = Moved
INVARIANTS
  TokensFence
  ReadersSound
  TimedSound
  ChartSound
  KeyedSound
  StorageSound
