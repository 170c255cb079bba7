SPECIFICATION SpecResizing
CONSTANTS
    Threads = {t1, t2}
    Addrs = {a, b}
    Null = Null
    NoHeap = NoHeap
    Families = {"malloc"}
    Heaps = {h1}
    Crt = {"malloc"}
    Before = {}
    Sizes = {1}
SYMMETRY Symmetric
INVARIANTS AssertsHold
