SPECIFICATION SpecAll
CONSTANTS
  Threads = {t1, t2}
  Locks = {a, b, c}
  NoThread = NoThread
  NoId = NoId
  MAX_LOCKS_PER_THREAD = 2
  MaxDepth = 2
  MaxBorn = 2
  MaxIgnore = 1
  Ignored = {c}
SYMMETRY LockSymmetry
CHECK_DEADLOCK FALSE
CONSTRAINTS NoErrorYet OneAnnounces
INVARIANTS InversionIsReported HistoryMatchesOwnership PathNodesAreRecorded HoldersAreTimed
PROPERTY ForeignReleaseIsReported
