CONSTANT MaxOrders = 2
SPECIFICATION Spec
INVARIANTS TypeOK OneEntryEver SettledIsCovered DoneIsCovered
CHECK_DEADLOCK FALSE
