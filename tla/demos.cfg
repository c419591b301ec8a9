SPECIFICATION Spec
CONSTANT None = None
INVARIANTS TypeOK Expected
PROPERTIES Atomic Ends
CHECK_DEADLOCK FALSE
