--------------------------- MODULE MCStreamRunner ---------------------------
EXTENDS StreamRunner

\* The chains that differ: without a stopper there is no fallback, without a
\* nudge nothing it could trigger, and the live stopper falls back only about
\* the conversation's calls.
AllChains == {c \in ChainKinds :
  /\ c.stopper = "none" => ~c.pastLoop
  /\ c.lazyFallback => c.nudge /\ (c.stopper = "held" \/ c.pastLoop)}

NudgedStoppers == {c \in ChainKinds : c.nudge /\ c.stopper # "none" /\ ~c.pastLoop}

\* "For append_continuation strategy: preserve buffers across attempts"
\* (run_stream): what the nudge continues is part of the answer, in every
\* chain of finalizers.
ContinuationKeepsPrefix == run.state = "completed" =>
  \A i \in run.made : IsSent(i)

\* "Other recovery finalizers retain their attempt-isolation guarantee and may
\* still buffer output until their own terminal decision" (_run_core): nothing
\* of an attempt a loop stopper replaces is with the client.
AttemptsAreIsolated == \A p \in Content : run.sent[p] \in run.made

\* "Exactly one final Finish and Done are serialized downstream" (run_stream).
ExactlyOneDone == \A p, q \in DOMAIN run.sent :
  run.sent[p] = DoneFrame /\ run.sent[q] = DoneFrame => p = q
=============================================================================
