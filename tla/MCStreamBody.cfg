SPECIFICATION BodyFairSpec
CONSTANTS
  MaxChunks = 3
  MaxKeepalives = 2
INVARIANT RelayedOnce
INVARIANT NothingLeftBehind
PROPERTY UpstreamIsClosed
PROPERTY ImplementsStages
CHECK_DEADLOCK FALSE
