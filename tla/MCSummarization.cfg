SPECIFICATION Spec
CONSTANTS
  MaxHead = 2
  MaxTail = 2
  InsertBudget = 2
  Conversations <- MCConversations
  Thresholds <- MCThresholds
  FullCtx = 6
  HalfCtx = 3
  RenderCap = 4
  PromptSize = 1
  SummarySize = 2
  MaxAttempts = 3
INVARIANT SummaryExact
PROPERTY RetryShrinks
PROPERTY SummarizationEnds
CHECK_DEADLOCK FALSE
