\* One draft, two texts, three handlers at a time, two faults.
CONSTANTS
    Draft = {d1}
    NoDraft = NoDraft
    Text = {e1, e2}
    Slot = {s1, s2, s3}
    MaxFaults = 2
SPECIFICATION MCFairSpec
INVARIANTS
    ExpiredCardIsDue
    HandedIsStored
PROPERTIES
    FollowsMachine
    ClosedStaysClosed
    EveryDraftSettles
    ApprovedIsHandedOut
CHECK_DEADLOCK FALSE
