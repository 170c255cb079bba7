SPECIFICATION SpecBlocking
CONSTANTS
  Threads = {t1}
  Locks = {a, b, c}
  NoThread = NoThread
  NoId = NoId
  MAX_LOCKS_PER_THREAD = 3
  MaxDepth = 2
  MaxBorn = 1
  MaxIgnore = 0
  Ignored = {}

CHECK_DEADLOCK FALSE
INVARIANT ReportIsInversion
