SPECIFICATION LcFairSpec
CONSTANTS
  Requests = {r1, r2}
  Caps = {1}
  Unlimited = None
  Patience = {"zero", "positive"}
  FailureThreshold = 2
  RecoveryTimeout = 1
  Fallback = {TRUE, FALSE}
  MaxLeaks = 1
  Losses = {"prepare", "unstarted"}
INVARIANT RequestSettled
PROPERTY StreamsAsStaged
PROPERTY UsesAdmission
PROPERTY UsesBreaker
PROPERTY HeldIsGivenBack
