\* What the documents say of the chain and the code does not do. One question
\* at a time: leave one INVARIANT and the constants named beside it.
\*   TextExact, OneFooter               Chains <- MCStampChains
\*   CallsAsMade                        Chains <- MCTwoStoppers, or
\*                                      Chains <- MCRewriteChain with IndexReuse = TRUE
\*   BareCallPasses, CallBehindReason   Chains <- MCExactChain
\*   RejectedForRepeat                  Chains <- MCObserverChain
\*   FallbackForRepeats                 Chains <- MCExactChain, Histories <- MCRepeatedHistories
SPECIFICATION FcSpec
CONSTANTS
  Chains <- MCStampChains
  Histories <- MCHistories
  Names = {"read", "list"}
  Pieces = {"x", "y"}
  XmlName = "read"
  XmlPiece = "x"
  IndexReuse = FALSE
  TailSize = 2
  MaxDeltas = 4
INVARIANT TextExact
CHECK_DEADLOCK FALSE
