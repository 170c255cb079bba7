SPECIFICATION Spec
CONSTANTS
  Threads = {t1, t2}
  MaxDuration = 2
  Period = 1
  Timers = {i, j, k}
INVARIANTS ListIsExact WatchdogAwake
PROPERTIES NoSecondReport LongHoldersAreReported
