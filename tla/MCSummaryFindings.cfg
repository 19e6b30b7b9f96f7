\* What the documents say of a summarized conversation and the code does not
\* do. One question at a time: leave one line of the INVARIANTs and PROPERTY.
SPECIFICATION Spec
CONSTANTS
  MaxHead = 3
  MaxTail = 3
  InsertBudget = 2
  Conversations <- MCConversations
  Thresholds <- MCThresholds
  FullCtx = 6
  HalfCtx = 3
  RenderCap = 4
  PromptSize = 1
  SummarySize = 2
  MaxAttempts = 3
INVARIANT KeptOrSummarized
\* INVARIANT RepackedFits
\* INVARIANT QuestionKept
\* INVARIANT CacheIsNoObstacle
\* PROPERTY NothingCutOff
\* PROPERTY EveryRetryShrinks
CHECK_DEADLOCK FALSE
