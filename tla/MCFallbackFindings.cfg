\* What the documents say of a fallback and the code does not do. One question
\* at a time: leave one INVARIANT.
CONSTANTS
  Primary = p
  Routes = {f, g, h}
  Unusable = u
  MaxOptions = 3
  MaxFallbacks = 2
  MaxStrips = 2
  Payloads <- MCPayloads
  Validators <- MCValidators
SPECIFICATION FcSpec
INVARIANT OwnTransport
\* INVARIANT NoFallbackAfter400
\* INVARIANT NoOrphanedMarkers
CHECK_DEADLOCK FALSE
