SPECIFICATION FcSpec
CONSTANTS
  Chains <- MCSoundChains
  Histories <- MCHistories
  Names = {"read", "list"}
  Pieces = {"x", "y"}
  XmlName = "read"
  XmlPiece = "x"
  IndexReuse = FALSE
  TailSize = 2
  MaxDeltas = 4
INVARIANT TextExact
INVARIANT CallsAsMade
INVARIANT RepeatHeldBack
INVARIANT NewCallPasses
CHECK_DEADLOCK FALSE
