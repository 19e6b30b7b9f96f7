\* What the documents say of a request's end and the code does not do. One
\* question at a time: leave one PROPERTY.
SPECIFICATION LcFairSpec
CONSTANTS
  Requests = {r1, r2}
  Caps = {1}
  Unlimited = None
  Patience = {"positive"}
  FailureThreshold = 2
  RecoveryTimeout = 1
  Fallback = {FALSE}
  Losses = {}
  MaxLeaks = 1
PROPERTY CircuitSettles
\* PROPERTY ClientErrorsAreNotFailures
