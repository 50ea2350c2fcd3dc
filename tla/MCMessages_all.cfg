CONSTANTS
    u1 = u1
    u2 = u2
    c1 = c1
    c2 = c2
    User = {u1, u2}
    NoUser = NoUser
    Socket = {c1, c2}
    NoSocket = NoSocket
    Owner <- TwoSockets
    Slot = {s1, s2}
    Ops <- WriterAndReader
    PageSize = 1
    MaxMessages = 2
    MaxEdits = 0
    MaxMoves = 1
    MaxFaults = 1
SYMMETRY Symmetry
SPECIFICATION HistorySpec
INVARIANTS
    LastIsNewestInTurn
    ReadStaysReadInTurn
PROPERTIES
    EveryoneTold
CHECK_DEADLOCK FALSE
