\* One phone; one command over up to two sockets, or two commands, see BoundedNext.
CONSTANTS
    Phone = {p1}
    Command = {c1, c2}
    NoCommand = NoCommand
    Sock = {k1, k2}
    NoSock = NoSock
    Disturbances = {"slow", "drop", "quit", "twice", "fault", "cancel"}
SPECIFICATION BoundedSpec
INVARIANTS
    ShownIsStored
    ShownIsOwnInTime
    ExecutedOnceInTurn
PROPERTIES
    EveryCommandEnds
    WaitEnds
CHECK_DEADLOCK FALSE
