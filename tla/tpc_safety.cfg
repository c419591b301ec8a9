SPECIFICATION Spec
CONSTANTS
    A = A
    B = B
    C = C
    Worker = {A, B, C}
    Plan <- AnyPlan
    DiskMayFail = TRUE
INVARIANTS TypeOK Agreement
PROPERTIES ReadyWaits Atomic
CHECK_DEADLOCK FALSE
