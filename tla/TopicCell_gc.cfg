SPECIFICATION TopicSpec
CONSTANTS
  Subscribers = {s1, s2}
  TopicThreads = {t1, t2}
  MaxTail = 2
  MaxReaders = 2
  Unheld = Unheld
  Undefined = Undefined
INVARIANT
  GcSafe
