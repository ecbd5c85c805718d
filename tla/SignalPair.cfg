CONSTANT None = None
SPECIFICATION Spec
PROPERTY OtherSideInvalidated
CHECK_DEADLOCK FALSE
