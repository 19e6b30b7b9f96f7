SPECIFICATION CBFairSpec
CONSTANTS
  Callers = {r1, r2, r3, r4}
  FailureThreshold = 2
  RecoveryTimeout = 2
INVARIANT ClosedBelowThreshold
PROPERTY ProbeLostOnlyByDrop
PROPERTY SheltersUpstream
PROPERTY OpenCircuitIsTriedAgain
