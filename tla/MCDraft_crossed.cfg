\* Two verdicts on one draft, nothing fails.
CONSTANTS
    Draft = {d1}
    NoDraft = NoDraft
    Text = {e1, e2}
    Slot = {s1, s2}
    MaxFaults = 0
SPECIFICATION MCSpec
PROPERTIES
    VerdictIsFinal
CHECK_DEADLOCK FALSE
