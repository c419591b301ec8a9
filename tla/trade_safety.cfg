SPECIFICATION Spec
CONSTANTS
    Player = {alice, bob}
    Map = {green, cave}
    Trade = {t1, t2}
    None = None
    MaxBag = 2
    Price = {1}
    MaxLost = 1
SYMMETRY Symmetry
INVARIANTS TypeOK NoOverdraft CreditBacked Conservation
CHECK_DEADLOCK FALSE
