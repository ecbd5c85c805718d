CONSTANTS
    x1 = x1
    x2 = x2
    ExitOrders = {x1}
    NoOrder = NoOrder
    PositionQty = 2
    Asked <- AskAll
    PositionSource = FALSE
SPECIFICATION Spec
PROPERTIES EndedAfterConvergence
CHECK_DEADLOCK FALSE
