\* Two users on two ports: two starts and whatever happens, or three in peace.
CONSTANTS
    User = {u1, u2}
    Instance = {g1, g2, g3}
    NoInstance = NoInstance
    MaxPorts = 2
    Disturbances = {"spawnFails", "exits", "slowExit", "overlap"}
SPECIFICATION MCFairSpec
INVARIANTS
    NoPortLost
    PortsExclusiveInPeace
    ManagedInTurn
PROPERTIES
    CallsReturn
CHECK_DEADLOCK FALSE
