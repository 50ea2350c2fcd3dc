\* Two handlers at a time, of any accounts.
CONSTANTS
    User = {u1, u2, u3}
    NoUser = NoUser
    Session = {s1, s2}
    Acts <- Shared
    Ops = {"create", "add", "remove", "role", "ban", "unban", "leave"}
    MaxMembers = 2
SYMMETRY Anonymous
SPECIFICATION BoundedSpec
INVARIANTS
    NeverTwoOwners
    SafeUnlessMet
PROPERTIES
    NoResurrection
CHECK_DEADLOCK FALSE
