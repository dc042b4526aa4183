SPECIFICATION PlanesSpec
\* Every item settled, every event folded: a plane may come to rest.
CHECK_DEADLOCK FALSE
CONSTANTS
  Workers = {w1, w2}
  Callers = {c1, c2}
  visibility_timeout = 1
  max_deliveries = 2
  MaxItems = 2
  Unread = Unread
  MaxEpoch = 3
  MaxSpan = 2
  MaxBreaks = 1
  MaxStops = 1
  RelayKeys = {"a", "b"}
  UrgentKeys = {"b"}
  MaxSent = 2
  relay_high_water = 1
  RelayOverflows = {"Block", "Conflate", "DropOldest", "DropNewest"}
  window_ops = 2
  rate_capacity = 1
  refill_per_tick = 1
  frame_size = 1
  max_credits = 2
  SpillModes = {"AppendCompact", "CompactOnWrite"}
  page_size = 2
  MaxCrashes = 1
  Members = {1}
  SurelySuspect = 3
  suspect_timeout = 2
  presence_ttl = 2
  MaxRevivals = 2
  MaxUnhandled = 3
INVARIANTS
  ItemsAccounted
  WorkReadersCurrent
  SyncExact
  RelayKeeps
  EventsTellStates
PROPERTIES
  EveryItemSettles
  EventsArrive
  RelayDelivers
  SilentPeersGo
