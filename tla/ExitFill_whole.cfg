CONSTANTS
    x1 = x1
    x2 = x2
    ExitOrders = {x1, x2}
    NoOrder = NoOrder
    PositionQty = 3
    Asked <- AskAll
    PositionSource = TRUE
SPECIFICATION Spec
SYMMETRY Interchangeable
INVARIANTS TypeOK AppliedWereExecuted ClosedOnlyWhenFlat
PROPERTIES ClosedIsFinal OnlyScaleOutUnderstates KeepsAccounts
CHECK_DEADLOCK FALSE
