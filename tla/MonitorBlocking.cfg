SPECIFICATION SpecBlocking
CONSTANTS
  Threads = {t1, t2, t3}
  Locks = {a, b, c}
  NoThread = NoThread
  NoId = NoId
  MAX_LOCKS_PER_THREAD = 3
  MaxDepth = 1
  MaxBorn = 2
  MaxIgnore = 0
  Ignored = {}
SYMMETRY Symmetry
CHECK_DEADLOCK FALSE
INVARIANTS DeadlockIsReported ReportIsInversion HeldLocksAreLive
