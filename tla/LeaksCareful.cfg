SPECIFICATION SpecCareful
CONSTANTS
  Threads = {t1, t2, t3}
  Addrs = {a, b, c, d}
  Null = Null
  NoHeap = NoHeap
  Families = {"malloc", "localalloc"}
  Heaps = {h1, h2}
  Crt = {"malloc"}
  Before = {"localalloc"}
  Sizes = {1, 2}
SYMMETRY Symmetric
CONSTRAINT NoMisuseYet
INVARIANTS ReportIsMisuse MisuseIsReported AssertsHold LeaksAreExact
