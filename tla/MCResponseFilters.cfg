SPECIFICATION Spec
CONSTANTS
    c1 = c1
    c2 = c2
    Convs <- MCConvs
    Messages <- MCMessages
    HeadOf <- MCHeadOf
    Openings <- MCOpenings
    Histories <- MCHistories
    Replies <- MCReplies
    NameOf <- MCNameOf
    XmlCall = "b"
    Priority <- MCPriority
    Override = FALSE
    Attempts = 2
    MaxRepeats = 1
    FuzzyMax = 2
    LookBack = 0
    AbDetection = TRUE
    RlsRepeats = 1
    MaxAttempts = 2
    NudgeOnEmpty = TRUE
    FallbackMessage = FALSE
    CacheLimit = 1
    CacheKeep = 0
    MaxRequests = 2
INVARIANT NoLoopGetsThrough
INVARIANT SaidOnceInOrder
INVARIANT StaysInItsConversation
SYMMETRY MCSymmetry
CHECK_DEADLOCK FALSE
