CONSTANTS
  Primary = p
  Routes = {f, g, h}
  Unusable = u
  MaxOptions = 3
  MaxFallbacks = 2
  MaxStrips = 2
  Payloads <- MCPayloads
  Validators <- MCValidators
SPECIFICATION FcFairSpec
INVARIANT ReplyFollowsCalls
INVARIANT CallsAsPlanned
PROPERTY AlwaysAnswered
CHECK_DEADLOCK FALSE
