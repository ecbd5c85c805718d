CONSTANTS
    Workers = {w1, w2}
    Signals = {s1}
    Keys = {k1}
    Orders = {o1}
    NoJob = NoJob
    NoOrder = NoOrder
    Lapses = {"stall", "blind", "lost"}
    MaxRestarts = 1
SPECIFICATION FairSpec
PROPERTY JobsAreDispatched
CHECK_DEADLOCK FALSE
