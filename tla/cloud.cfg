SPECIFICATION EachSpec
CONSTANTS
    Pod = {p1, p2}
    None = None
    TTL = 2
    MaxGap = 1
    MaxLeaving = 1
    MaxTrouble = 1
INVARIANTS  OneLeader OneKubeLeader 
PROPERTIES  EachSettles
CHECK_DEADLOCK FALSE
