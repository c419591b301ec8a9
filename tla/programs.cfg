SPECIFICATION Spec
CONSTANT None = None
INVARIANTS TypeOK 
PROPERTIES  Ends
CHECK_DEADLOCK FALSE
