INIT EachInit
NEXT EachNext
CONSTANTS
    Map = {green, cave, ruins}
    Green = green
    Conn = {c1, c2}
    Cave = cave
    First = c1
    None = None
    MaxProgress = 1
    MaxSwitches = 2
    MaxDials = 3
    MaxPolls = 1
    MaxFailures = 1
    MaxCrashes = 1
SYMMETRY Symmetry
CONSTRAINT Calm
INVARIANTS TypeOK  ProgressKept UniqueHome
CHECK_DEADLOCK FALSE
