SPECIFICATION LcSpec
CONSTANTS
  Requests = {r1, r2}
  Caps = {1}
  Unlimited = None
  Patience = {"positive"}
  FailureThreshold = 2
  RecoveryTimeout = 1
  Fallback = {FALSE}
  Losses = {"unstarted"}
  MaxLeaks = 1
INVARIANT EverySlotReturned
