----------------------------- MODULE StreamStages -----------------------------
(***************************************************************************)
(* What one streamed answer promises to the rest of the proxy: the stages  *)
(* of its body generator and the admission slot it keeps.  It is the       *)
(* abstraction that RequestLifecycle makes of a stream, and that           *)
(* StreamBody, the model of the generators and tasks, implements.          *)
(***************************************************************************)
VARIABLES
  stage,  \* "idle" before and between streams; the others as in RequestLifecycle
  slot    \* "held" | "free" | "lost"

vars == <<stage, slot>>

Stages == {"idle", "wrapped", "streaming", "yielding", "reporting", "orphaned", "over"}
Slots == {"held", "free", "lost"}   \* a request of an unlimited route loses nothing

Init == stage \in {"idle", "wrapped"} /\ slot \in {"free", "held"}

Move(from, to) == stage \in from /\ stage' = to

\* What happens to the request outside the stream.
Elsewhere == /\ Move({"idle", "over"}, "idle") \/ Move({"idle", "over"}, "over")
             /\ slot' \in Slots
Begin == Move({"idle"}, "wrapped") /\ UNCHANGED slot
Iterate == Move({"wrapped"}, "streaming") /\ UNCHANGED slot
Yield == Move({"streaming"}, "yielding") /\ UNCHANGED slot
Sent == Move({"yielding"}, "streaming") /\ UNCHANGED slot
Fail == Move({"streaming"}, "reporting") /\ UNCHANGED slot

\* The generator returns, or is cancelled where it awaits: its `finally`
\* gives the slot back.
Close == Move({"streaming", "reporting", "orphaned"}, "over") /\ slot' = "free"

\* The response is over while the generator is suspended at a yield: the slot
\* stays held until the generator is finalized.
Abandon == Move({"yielding", "reporting"}, "orphaned") /\ UNCHANGED slot

\* Dropped before its first step: Python runs no `finally`.
Discard == Move({"wrapped"}, "over") /\ slot' \in {"free", "lost"}

Next == \/ Elsewhere \/ Begin \/ Iterate \/ Yield \/ Sent \/ Fail
        \/ Close \/ Abandon \/ Discard

Spec == Init /\ [][Next]_vars
=============================================================================
