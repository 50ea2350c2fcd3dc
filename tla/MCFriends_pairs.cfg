\* Three users, whose pairs share users; two handlers at a time.
CONSTANTS
    User = {u1, u2, u3}
    NoUser = NoUser
    Slot = {s1, s2}
    MaxRequests = 2
CONSTRAINT Bounded
SYMMETRY Anonymous
SPECIFICATION MCSpec
INVARIANTS
    OpenIffFriends
    OrderlyPairs
PROPERTIES
    FriendsByConsent
    RejectedStaysRejected
CHECK_DEADLOCK FALSE
