\* What the comments say of an answer and the runner does not do. One question
\* at a time: leave one INVARIANT.
CONSTANTS
  Chains <- NudgedStoppers
  Reasons = {"stop", "length"}
  MaxFrames = 2
  MaxGlobal = 2
  MaxNudges = 1
  MaxStops = 1
SPECIFICATION SrSpec
INVARIANT ContinuationKeepsPrefix
\* INVARIANT AttemptsAreIsolated
\* INVARIANT ExactlyOneDone
CHECK_DEADLOCK FALSE
