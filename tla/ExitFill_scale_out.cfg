CONSTANTS
    x1 = x1
    x2 = x2
    ExitOrders = {x1}
    NoOrder = NoOrder
    PositionQty = 4
    Asked <- ScaleOut
    PositionSource = FALSE
SPECIFICATION FairSpec
INVARIANTS CountedOnceUnlessMarked
PROPERTIES FillReachesPosition
CHECK_DEADLOCK FALSE
