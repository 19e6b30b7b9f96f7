CONSTANTS
  Chains <- AllChains
  Reasons = {"length", "tool_calls"}
  MaxFrames = 4
  MaxGlobal = 3
  MaxNudges = 2
  MaxStops = 2
SPECIFICATION SrSpec
INVARIANT KeptIsDelivered
INVARIANT TerminalFrames
INVARIANT RecoveriesCounted
CHECK_DEADLOCK FALSE
