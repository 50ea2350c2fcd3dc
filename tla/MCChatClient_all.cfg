CONSTANTS
    writer = writer
    reader = reader
    User = {writer, reader}
    NoUser = NoUser
    Socket = {c1}
    NoSocket = NoSocket
    Me = c1
    NoSlot = NoSlot
    Elsewhere = Elsewhere
    MaxUp = 0
    MaxTrouble = 2
    Owner <- OneSocket
    Slot = {s1, s2}
    Ops <- WriterAndDesktop
    PageSize = 1
    MaxMessages = 2
    MaxEdits = 1
    MaxMoves = 1
    MaxFaults = 1
SYMMETRY AnySlot
SPECIFICATION MCSpec
INVARIANTS
    ShownOnce
    HistoryComplete
    ShownIsCurrent
    OpenMeansRead
CHECK_DEADLOCK FALSE
