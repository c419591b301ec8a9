SPECIFICATION Spec
CONSTANTS
    Player = {alice, bob}
    Map = {green, cave}
    Trade = {t1}
    None = None
    MaxBag = 2
    Price = {1}
    MaxLost = 0
SYMMETRY Symmetry
INVARIANT AllOrNothing
CHECK_DEADLOCK FALSE
