CONSTANTS
  Requests = {r1}
  Projectors <- MCProjectors
  Accepted <- MCAccepted
  QueueSize = 1
  SummaryEvery = 1
  ArchiveEvery = 2
  MaxAttempts = 2
  MaxRestarts = 0
  MaxLost = 0
SPECIFICATION Spec
INVARIANT ExecutingIsActive
CHECK_DEADLOCK FALSE
