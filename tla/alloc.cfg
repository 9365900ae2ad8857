CONSTANTS
    Threads = {t1, t2}
    Addrs = {a1, a2, a3}
    NULL = NULL
    Foreign = Foreign
    MaxSize = 2
SPECIFICATION Spec
SYMMETRY Symmetric
INVARIANTS
    TableIsHeap
    OneOwner
    BytesSurvive
