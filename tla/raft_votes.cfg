SPECIFICATION Spec
CONSTANTS
    Node = {n1, n2, n3}
    None = None
    MaxTerm = 2
    MaxCrashes = 0
    MaxElections = 4
SYMMETRY Symmetry
INVARIANT OneVotePerTerm
CHECK_DEADLOCK FALSE
