\* What the documents say of the filters and the code does not do. One question
\* at a time: leave one INVARIANT.
SPECIFICATION Spec
CONSTANTS
    c1 = c1
    c2 = c2
    Convs <- MCConvs
    Messages <- MCMessages
    HeadOf <- MCHeadOf
    Openings <- MCOpenings
    Histories <- MCHistories
    Replies <- MCReplies
    NameOf <- MCNameOf
    XmlCall = "b"
    Priority <- MCPriority
    Override = FALSE
    Attempts = 2
    MaxRepeats = 1
    FuzzyMax = 2
    LookBack = 0
    AbDetection = TRUE
    RlsRepeats = 1
    MaxAttempts = 2
    NudgeOnEmpty = TRUE
    FallbackMessage = FALSE
    CacheLimit = 1
    CacheKeep = 0
    MaxRequests = 2
INVARIANT StoppedCallIsNotDelivered
\* INVARIANT PromptInEveryCall
\* INVARIANT PromptOnce
\* INVARIANT SaidOnceInOrder, with Replies <- MCEchoingReplies
CHECK_DEADLOCK FALSE
