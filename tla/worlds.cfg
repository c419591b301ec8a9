SPECIFICATION Spec
CONSTANTS p1 = p1 p2 = p2 p3 = p3 None = None
INVARIANTS TypeOK NoOverlap LootKept CountedOnce
PROPERTIES GoesOn
CHECK_DEADLOCK FALSE
