CONSTANTS
  Requests = {r1, r2}
  Projectors <- MCProjectors
  Accepted <- MCAccepted
  QueueSize = 1
  SummaryEvery = 1
  ArchiveEvery = 2
  MaxAttempts = 2
  MaxRestarts = 1
  MaxLost = 1
SPECIFICATION Spec
SYMMETRY MCSymmetry
INVARIANT ListedIsAlive
INVARIANT StatsMatchDisk
INVARIANT NoticesEnd
CHECK_DEADLOCK FALSE
