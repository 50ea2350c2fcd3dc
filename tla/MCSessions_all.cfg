\* Two calls at a time over one account; two sockets more than a desktop needs.
CONSTANTS
    Phone = {"p1"}
    NoPhone = "nobody"
    Account <- SameAccount
    Call = {"k1", "k2"}
    MaxTokens = 3
    MaxRequests = 2
    MaxMishaps = 1
    Sock = {"s1", "s2", "s3"}
    NoSock = "none"
    Link = {"l1", "l2", "l3"}
    MaxLogins = 2
    MaxTrouble = 2
    Conn = {"c1", "c2"}
    MaxConnects = 3
    MaxUpdates = 1
    MaxFaults = 1
SPECIFICATION Spec
INVARIANTS OneTokenPerSession OnlineIffLinked OnlineIffConnected ToldIsStatus
PROPERTIES EndedStaysEnded RequestsReturn LogoutDetaches
CHECK_DEADLOCK FALSE
