SPECIFICATION SpecResetting
CONSTANTS
    Threads = {t1, t2}
    Addrs = {a, b, c}
    Null = Null
    NoHeap = NoHeap
    Families = {"malloc", "localalloc"}
    Heaps = {h1}
    Crt = {"malloc"}
    Before = {"localalloc"}
    Sizes = {1, 2}
SYMMETRY Symmetric
INVARIANTS ReportedLeaksAreReal
