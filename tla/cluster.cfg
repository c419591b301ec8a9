SPECIFICATION EachSpec
CONSTANTS
    Nodes = {1, 2}
    Maps = {1, 2}
    FirstOwner <- OwnMap
    FirstReplica <- OtherNode
    FreshWorld <- NoPlayers
    Steady = {}
    MaxWork = 0
    MaxTicks = 0
    MaxCommands = 0
    MaxLostPings = 0
    Users = {1, 2}
    Conns = {1, 2}
    Calm = FALSE
    Patient = TRUE
    MaxActs = 0
INVARIANTS EachTypeOK SingleHost FencedStore EachHome
PROPERTIES EachServed
CHECK_DEADLOCK FALSE
