SPECIFICATION FairSyncSpec
\* Every event folded: the drivers may come to rest.
CHECK_DEADLOCK FALSE
CONSTANTS
  MaxEpoch = 3
  MaxSpan = 2
  MaxBreaks = 1
  MaxStops = 1
PROPERTY
  GapRecovered
