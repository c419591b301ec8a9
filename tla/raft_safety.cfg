SPECIFICATION Spec
CONSTANTS
    Node = {n1, n2, n3}
    None = None
    MaxTerm = 2
    MaxCrashes = 1
    MaxElections = 2
SYMMETRY Symmetry
INVARIANTS TypeOK ElectedByMajority SafeUnlessForgotten LeaderIdentity
CHECK_DEADLOCK FALSE
