\* One message with two calls; one bot of the templates and one of the owner's.
CONSTANTS
    Task = {"t1", "t2"}
    MaxPosts = 1
    MaxQueryFailures = 1
    PrimaryTimeout = 1
    FallbackTimeout = 2
    DefaultTimeout = 4
    DefaultBot <- OneTemplate
    CustomBot = {"custom"}
    BotCall = {"k1", "k2"}
    RateLimitMax = 2
    RateLimitWindow = 2
    MaxChainDepth = 3
    MaxTime = 2
    MaxSends = 5
    MaxBotFailures = 1
SPECIFICATION Spec
INVARIANTS EndsInTime RateBound
PROPERTIES BotsDispatched
CHECK_DEADLOCK FALSE
