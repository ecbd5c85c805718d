CONSTANTS
    Workers = {w1, w2}
    Signals = {s1}
    Keys = {k1, k2}
    Orders = {o1, o2}
    NoJob = NoJob
    NoOrder = NoOrder
    Lapses = {}
    MaxRestarts = 1
SPECIFICATION Spec
INVARIANTS TypeOK OneLiveEntry DeferredIsFound
SYMMETRY Symmetry
CHECK_DEADLOCK FALSE
