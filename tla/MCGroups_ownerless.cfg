\* Members of a group leave it, each on one device.
CONSTANTS
    User = {u1, u2, u3}
    NoUser = NoUser
    Session = {u1, u2, u3}
    Acts <- OwnSession
    Ops = {"create", "leave"}
    MaxMembers = 3
SYMMETRY Anonymous
SPECIFICATION MCSpec
INVARIANTS
    ExactlyOneOwner
CHECK_DEADLOCK FALSE
