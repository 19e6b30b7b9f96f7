---------------------------- MODULE StreamRunner ----------------------------
(***************************************************************************)
(* One streamed answer: _run_core in streaming/runner.py, which reads the  *)
(* SSE frames of an upstream attempt, passes their deltas through the      *)
(* finalizers, holds the terminal frames behind a barrier, and may reject  *)
(* the attempt and start another one (recovery), until the client has been *)
(* told how the answer ends.                                               *)
(*                                                                         *)
(* The runner is one coroutine: what interleaves are the order of frames   *)
(* the upstream sends, the moment it stops, and the verdicts of two        *)
(* recovery finalizers that share one budget.                              *)
(*                                                                         *)
(* Data abstraction: a delta is a text or a whole tool call, numbered by   *)
(* its attempt and frame.  What the detectors look at (patterns, repeated  *)
(* signatures) is a nondeterministic verdict, bounded by what they have    *)
(* seen.  The separator and timestamp texts, keepalives and usage values   *)
(* are left out; so is a factory that raises, because the program's one,   *)
(* _stream_upstream, is an async generator and raises when it is read.     *)
(***************************************************************************)
EXTENDS Integers, Sequences

CONSTANTS
  Chains,        \* the finalizer chains explored, see ChainKinds
  Reasons,       \* finish reasons the upstream uses
  MaxFrames,     \* bound: chunks of the first attempt, see MayGoOn
  MaxGlobal,     \* max_global_recovery_attempts
  MaxNudges,     \* max_attempts of model_nudge
  MaxStops       \* max_attempts of the loop stopper

\* The chains build_finalizers produces, by the recovery finalizers in them:
\* the live nudge; a stopper that needs the attempt's output "held" back
\* (reasoning loops, or fuzzy tool loops) or that lets it pass "live" (exact
\* tool loops, the default); whether the stopper's fallback message matches a
\* trigger of the nudge; and whether the conversation's own tool calls repeat,
\* which the stopper's buffer is seeded with.
ChainKinds == [nudge : BOOLEAN, stopper : {"none", "held", "live"},
               lazyFallback : BOOLEAN, pastLoop : BOOLEAN]

ASSUME BoundsAssumption ==
  /\ MaxFrames \in Nat /\ MaxGlobal \in Nat /\ MaxNudges \in Nat /\ MaxStops \in Nat
  /\ Chains \subseteq ChainKinds /\ "none" \notin Reasons

VARIABLES
  chain,  \* the chain of this answer
  run     \* the runner's locals, its finalizers' state and its output

srVars == <<chain, run>>

\* A "tool" call has another name than the call before it, in this attempt or
\* in the conversation; "again" has its name and other arguments; "repeat" is
\* the same call.
Calls == {"tool", "again", "repeat"}
Chunks == [kind : {"chunk"}, delta : Calls \cup {"text", "none"},
           finish : Reasons \cup {"none"}]
Frames == Chunks \cup {[kind |-> "done"], [kind |-> "error"]}

\* How the answer ended: by [DONE], by the end of the upstream's bytes, by an
\* error event, by the exhausted stopper's fallback, by an exception.
Endings == {"completed", "exhausted", "errored", "fellback", "raised"}

-----------------------------------------------------------------------------
(* Steps of the runner, as functions of its state.                         *)

Item(s, k) == [kind |-> k, attempt |-> s.attempt, n |-> s.frames]
FinishFrame(r) == [kind |-> "finish", reason |-> r]
DoneFrame == [kind |-> "done"]
ErrorFrame == [kind |-> "error"]

\* _recovery_requires_buffering; tool calls are then held by ToolCallFinalizer
\* and the rest by the pass-through buffer.
HoldsOutput == chain.stopper = "held"

\* The exact stopper's allows_live_output: it holds a call only while it may
\* turn out a repeat.
Live == chain.stopper = "live"

\* The live stopper does not decide before the barrier about a call named like
\* the one before it, nor about any call behind an undecided one.
Undecided(s, d) == d \in {"again", "repeat"} \/ s.tools # <<>> \/ s.repeats

\* A delta passes through the finalizers.
Observe(s, d) ==
  LET i == Item(s, IF d \in Calls THEN "tool" ELSE d)
      seen == [s EXCEPT !.text = @ \/ d = "text", !.sawTool = @ \/ d \in Calls]
      made == [seen EXCEPT !.made = @ \cup {i}]
      heldBack == [made EXCEPT !.tools = Append(@, i), !.held = TRUE]
      passed == [made EXCEPT !.emitted = TRUE, !.hasTool = @ \/ d \in Calls]
  IN  IF HoldsOutput /\ d \in Calls THEN heldBack
      ELSE IF HoldsOutput THEN [passed EXCEPT !.buffer = Append(@, i)]
      ELSE IF Live /\ d = "repeat" THEN [seen EXCEPT !.repeats = TRUE, !.held = TRUE]
      ELSE IF Live /\ d \in Calls /\ Undecided(s, d) THEN heldBack
      ELSE [passed EXCEPT !.sent = Append(@, i)]

Parse(s, f) == [s EXCEPT !.frames = @ + 1,
                         !.finish = IF f.finish = "none" THEN @ ELSE f.finish]

\* The deltas of a frame are dropped once the barrier has been passed.
Absorb(s, f) == IF s.barrier \/ f.delta = "none" THEN Parse(s, f)
                ELSE Observe(Parse(s, f), f.delta)

\* Slip: sent calls are forgotten.
CommittedNever(s) == FALSE

\* A tool call of this attempt is with the client.
Committed(s) == \E p \in DOMAIN s.sent :
  s.sent[p].kind = "tool" /\ s.sent[p].attempt = s.attempt

\* The stopper asks for another attempt, budgets aside.  The live one asks only
\* while no call has been sent, because that cannot be taken back.
Looping(s, loop) == IF Live THEN s.repeats /\ ~Committed(s) ELSE loop

\* What finalize() gives back of the held calls: nothing when the live stopper
\* asks for another attempt, whether or not it will get one.
Released(s) == IF Live /\ Looping(s, FALSE) /\ s.stops < MaxStops THEN <<>> ELSE s.tools

\* Slip: the Finish is not deferred to Done.
AcceptAndFinish(s) ==
  [s EXCEPT !.sent = @ \o s.buffer \o Released(s) \o <<FinishFrame(s.finish)>>,
            !.hasTool = @ \/ Released(s) # <<>>, !.buffer = <<>>, !.tools = <<>>]

\* The attempt is accepted: held text, then the held tool calls.
Accept(s) == [s EXCEPT !.sent = @ \o s.buffer \o Released(s),
                       !.hasTool = @ \/ Released(s) # <<>>,
                       !.buffer = <<>>, !.tools = <<>>]

\* Slip: an attempt is left out of the usage ledger.
ChargeNothing(s) == s

Charge(s) == [s EXCEPT !.ledger = Append(@, s.attempt)]

WithoutAttempt(s) == {i \in s.made : i.attempt # s.attempt}

\* What may be detected: the nudge looks at the text since it was last cleared
\* and keeps quiet after a tool call, a holding stopper at this attempt and at
\* the conversation's calls.
MayBeLazy(s) == chain.nudge /\ s.text /\ ~s.sawTool
MayLoop(s) == HoldsOutput /\ (chain.pastLoop \/ \E i \in s.made : i.attempt = s.attempt)

\* recovery_exhausted.  The live stopper's _detect_loop sees none of the
\* attempt's deltas, only the calls of the conversation.
GivesUp(s, loop) == s.stops >= MaxStops /\ IF Live THEN chain.pastLoop ELSE loop

\* _check_recovery_decision_with_fallback
Decision(s, lazy, loop) ==
  IF s.attempt >= MaxGlobal THEN "none"
  ELSE IF lazy /\ s.nudges < MaxNudges THEN "nudge"
  ELSE IF Looping(s, loop) /\ s.stops < MaxStops THEN "stop"
  ELSE IF ~GivesUp(s, loop) THEN "none"
  ELSE IF chain.nudge /\ s.nudges < MaxNudges /\ chain.lazyFallback THEN "prefix"
  ELSE "fallback"

Discard(s) == [s EXCEPT !.buffer = <<>>, !.tools = <<>>, !.repeats = FALSE]

\* The next attempt starts, everything held of this one is discarded.  What a
\* live chain has sent of it stays with the client.
\* "nudge" and "prefix" append a continuation, "stop" replaces the attempt.
\* The tool-call flag survives a decision taken at [DONE].
Restart(s, d, atDone) ==
  LET prefix == IF d = "prefix" THEN {Item(s, "fallback")} ELSE {}
  IN  [Discard(Charge(s)) EXCEPT
         !.sent = IF d = "prefix" THEN Append(@, Item(s, "fallback")) ELSE @,
         !.made = IF d = "nudge" THEN @ ELSE WithoutAttempt(s) \cup prefix,
         !.attempt = @ + 1,
         !.nudges = IF d = "stop" THEN @ ELSE @ + 1,
         !.stops = IF d = "stop" THEN @ + 1 ELSE @,
         !.text = d # "stop", !.sawTool = FALSE,
         !.frames = 0, !.finish = "none", !.barrier = FALSE,
         !.hasTool = atDone /\ @, !.emitted = FALSE, !.held = FALSE]

\* _emit_fallback; the attempt is not entered in the usage ledger.
FallBack(s) ==
  [Discard(s) EXCEPT
     !.sent = @ \o <<Item(s, "fallback"), FinishFrame("stop"), DoneFrame>>,
     !.made = WithoutAttempt(s) \cup {Item(s, "fallback")},
     !.state = "fellback", !.more = TRUE]

\* Done after the barrier: the deferred Finish, then Done.
Complete(s) ==
  LET reason == IF s.hasTool THEN "tool_calls" ELSE s.finish
  IN  [Charge(s) EXCEPT !.sent = @ \o <<FinishFrame(reason), DoneFrame>>,
                        !.state = "completed", !.more = TRUE]

Produced(s) == s.emitted \/ s.held

\* Done without a finish reason: the attempt is accepted, a Finish is made up
\* and the attempt charged, unless it produced nothing.
CompleteUnfinished(s) ==
  LET t == Accept(s)
      finish == FinishFrame(IF t.hasTool THEN "tool_calls" ELSE "stop")
      told == IF Produced(s) THEN [Charge(t) EXCEPT !.sent = Append(@, finish)] ELSE t
  IN  [told EXCEPT !.sent = Append(@, DoneFrame), !.state = "completed", !.more = TRUE]

Fail(s) == [Charge(s) EXCEPT !.sent = @ \o <<ErrorFrame, DoneFrame>>,
                             !.buffer = <<>>, !.state = "errored", !.more = TRUE]

\* The upstream's bytes end without [DONE]: finalize() is run unless the
\* barrier did, and a Finish is sent.
Exhaust(s) ==
  LET reason == IF s.barrier THEN s.finish
                ELSE IF Released(s) # <<>> THEN "tool_calls" ELSE "stop"
      finish == IF Produced(s) THEN <<FinishFrame(reason)>> ELSE <<>>
  IN  [Charge(s) EXCEPT !.sent = @ \o Released(s) \o finish,
                        !.tools = <<>>, !.state = "exhausted"]

-----------------------------------------------------------------------------
SrInit ==
  /\ chain \in Chains
  /\ run = [state |-> "reading", attempt |-> 0, frames |-> 0,
            nudges |-> 0, stops |-> 0, finish |-> "none", barrier |-> FALSE,
            hasTool |-> FALSE, emitted |-> FALSE, held |-> FALSE,
            text |-> FALSE, sawTool |-> FALSE, repeats |-> FALSE,
            more |-> FALSE, late |-> FALSE, buffer |-> <<>>, tools |-> <<>>,
            made |-> {}, sent |-> <<>>, ledger |-> <<>>]

\* The last frame carried a finish reason: the next frame meets the barrier.
BeforeBarrier == run.finish # "none" /\ ~run.barrier

\* Bound: every attempt may have one chunk, and one less than the one before.
MayGoOn == run.frames < IF run.attempt < MaxFrames THEN MaxFrames - run.attempt ELSE 1

Step(s) == run' = s /\ UNCHANGED chain

\* A chunk away from the barrier: before any finish reason, or after it was
\* passed.
ReadFrame(f) == /\ run.state = "reading" /\ ~BeforeBarrier
                /\ MayGoOn
                /\ Step(Absorb(run, f))

\* The finalizers are run once and their verdicts arbitrated.
Verdict(s, lazy, loop) == /\ lazy => MayBeLazy(s)
                          /\ loop => MayLoop(s)

Reject(s, decision, atDone) ==
  IF decision = "fallback" THEN FallBack(s) ELSE Restart(s, decision, atDone)

\* The first frame after the one with the finish reason.
FinishBarrier(f, lazy, loop) ==
  LET passed == [Accept(run) EXCEPT !.barrier = TRUE]
      decision == Decision(run, lazy, loop)
  IN  /\ run.state = "reading" /\ BeforeBarrier
      /\ f.kind = "chunk" => MayGoOn
      /\ Verdict(run, lazy, loop)
      /\ Step(IF decision # "none" THEN Reject(run, decision, FALSE)
              ELSE IF f.kind = "chunk" THEN Absorb(passed, f)
              ELSE IF f.kind = "done" THEN Complete(passed)
              ELSE Fail(passed))

\* [DONE] and the upstream never gave a finish reason.
DoneBarrier(lazy, loop) ==
  LET decision == Decision(run, lazy, loop)
  IN  /\ run.state = "reading" /\ run.finish = "none"
      /\ Verdict(run, lazy, loop)
      /\ Step(IF decision = "none" THEN CompleteUnfinished(run)
              ELSE Reject(run, decision, TRUE))

DoneAfterBarrier == /\ run.state = "reading" /\ run.barrier
                    /\ Step(Complete(run))

ErrorEvent == /\ run.state = "reading" /\ ~BeforeBarrier
              /\ Step(Fail(run))

UpstreamEnds == /\ run.state = "reading"
                /\ Step(Exhaust(run))

\* Whatever the upstream or a finalizer raises leaves _run_core; the handler
\* that consumes it tells the client.
RaisedNow == /\ run.state = "reading"
             /\ Step([run EXCEPT !.sent = @ \o <<ErrorFrame, DoneFrame>>,
                                 !.state = "raised"])

\* The loop asks the upstream once more before it notices that Done was sent;
\* the handler does not know that the client has had its Done.
RaisedLate == /\ run.more
              /\ Step([run EXCEPT !.sent = @ \o <<ErrorFrame, DoneFrame>>,
                                  !.more = FALSE, !.late = TRUE])

UpstreamRaises == RaisedNow \/ RaisedLate

\* An attempt that produced nothing and gave no finish reason.
Empty(s) == s.state = "completed" /\ s.finish = "none" /\ ~Produced(s)

\* The upstream ends or sends another chunk, and the loop is left; an empty
\* attempt is charged only behind it.
LoopEnds == /\ run.more
            /\ Step([(IF Empty(run) THEN Charge(run) ELSE run) EXCEPT !.more = FALSE])

SrNext == \/ \E f \in Chunks : ReadFrame(f)
          \/ \E f \in Frames, lazy, loop \in BOOLEAN : FinishBarrier(f, lazy, loop)
          \/ \E lazy, loop \in BOOLEAN : DoneBarrier(lazy, loop)
          \/ DoneAfterBarrier \/ ErrorEvent \/ UpstreamEnds \/ UpstreamRaises
          \/ LoopEnds

SrSpec == SrInit /\ [][SrNext]_srVars

-----------------------------------------------------------------------------

\* The places of the output that hold deltas and fallback messages.
Content == {p \in DOMAIN run.sent : run.sent[p].kind \in {"text", "tool", "fallback"}}
IsSent(i) == \E p \in DOMAIN run.sent : run.sent[p] = i
Ended == run.state \in Endings

\* The client sees output of attempts that were kept and of no other: nothing
\* of an attempt that a loop stopper replaced was sent, before or after the
\* verdict, nor a repeated call ("Other recovery finalizers retain their
\* attempt-isolation guarantee").  The live stopper keeps that for tool calls
\* but not for text; and the fallback message with which it gives up about the
\* conversation's calls takes back nothing.
Overtaken(i) == Live /\ \/ i.kind = "text"
                        \/ \E j \in run.made : j.kind = "fallback" /\ j.attempt = i.attempt
OnlyAccepted == \A p \in Content : run.sent[p] \in run.made \/ Overtaken(run.sent[p])

\* Nothing reaches the client twice, and what it gets of a kind comes in the
\* order it was produced, over all the attempts ("re-emitting here would
\* duplicate the transcript").
Precedes(i, j) == i.attempt < j.attempt \/ (i.attempt = j.attempt /\ i.n < j.n)
ExactlyOnceInOrder == \A p, q \in Content :
  p < q /\ run.sent[p].kind = run.sent[q].kind => Precedes(run.sent[p], run.sent[q])

\* A completed answer contains everything its last attempt produced, and what
\* earlier attempts produced unless the chain held it back; but the calls held
\* beside a repeat are lost when the shared budget is used up (Released).
NothingLost == run.state = "completed" =>
  \A i \in run.made :
    \/ IsSent(i)
    \/ HoldsOutput /\ i.attempt # run.attempt /\ i.kind # "fallback"
    \/ Live /\ run.repeats /\ i.kind = "tool" /\ i.attempt = run.attempt
            /\ run.attempt >= MaxGlobal

\* The terminal frames stay behind the barrier: while an attempt may still be
\* replaced none of them has been sent, there is at most one Finish, Done comes
\* last, and after a Finish there is nothing but Done.  An upstream that raises
\* when the answer is over adds an error and a Done of its own.
Told == IF run.late THEN Len(run.sent) - 2 ELSE Len(run.sent)
Terminal(k) == {p \in 1 .. Told : run.sent[p].kind = k}
TerminalOrder ==
  /\ ~Ended => Terminal("finish") \cup Terminal("done") \cup Terminal("error") = {}
  /\ \A p, q \in Terminal("finish") : p = q
  /\ \A p \in Terminal("done") : p = Told
  /\ \A p \in Terminal("finish"), q \in 1 .. Told :
       q > p => q = p + 1 /\ run.sent[q] = DoneFrame
  /\ run.late => SubSeq(run.sent, Told + 1, Len(run.sent)) = <<ErrorFrame, DoneFrame>>

\* Every upstream attempt is in the usage ledger once, the rejected ones too
\* ("It still consumed provider work and must be represented in the usage
\* ledger"); the attempt a fallback replaces and one that raised are not, and
\* an empty one not before the loop is left.
Charged == /\ run.state \in {"completed", "exhausted", "errored"}
           /\ Empty(run) => ~run.more /\ ~run.late
LedgerExact ==
  run.ledger = [k \in 1 .. IF Charged THEN run.attempt + 1 ELSE run.attempt |-> k - 1]

\* A client that received a tool call is told "tool_calls", whatever the
\* upstream gave as reason; any other answer ends with the upstream's reason,
\* and with "stop" when it gave none.  Answers in which a call was overtaken by
\* a fallback message are excepted.
ReasonFaithful == run.state = "completed" =>
  \A p \in Terminal("finish") :
    \/ run.sent[p].reason = IF \E q \in Content : run.sent[q].kind = "tool"
                            THEN "tool_calls"
                            ELSE IF run.finish = "none" THEN "stop" ELSE run.finish
    \/ \E q \in Content : run.sent[q].kind = "tool" /\ run.sent[q] \notin run.made

\* No finalizer restarts the upstream more often than its own budget allows,
\* and all of them together not more often than the shared one.
RecoveryBudgets == /\ run.attempt = run.nudges + run.stops
                   /\ run.nudges <= MaxNudges /\ run.stops <= MaxStops
                   /\ run.attempt <= MaxGlobal

\* The client has the output of the attempts that were kept: all of it, once and
\* in order, and no other.
KeptIsDelivered == OnlyAccepted /\ ExactlyOnceInOrder /\ NothingLost

\* The terminal frames are in their place and tell what was delivered.
TerminalFrames == TerminalOrder /\ ReasonFaithful

\* Recoveries stay within their budgets and each is accounted for.
RecoveriesCounted == LedgerExact /\ RecoveryBudgets
=============================================================================
