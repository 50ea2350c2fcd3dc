\* One handler at a time.
CONSTANTS
    User = {u1, u2, u3, u4}
    NoUser = NoUser
    Session = {s1}
    Acts <- Shared
    Ops = {"create", "add", "remove", "role", "mute", "unmute", "ban", "unban", "delete", "leave", "post"}
    MaxMembers = 3
SYMMETRY Anonymous
SPECIFICATION MCSpec
PROPERTIES
    RefinesPolicy
CHECK_DEADLOCK FALSE
