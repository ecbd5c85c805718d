CONSTANTS
    Ids = {r1, r2}
    NoRow = NoRow
    Qty = 2
    MaxRestarts = 1
SPECIFICATION FairSpec
INVARIANTS TypeOK OneFillRow NeverOverclaims
PROPERTY HeldIsTracked
CHECK_DEADLOCK FALSE
