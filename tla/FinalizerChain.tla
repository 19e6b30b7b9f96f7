---------------------------- MODULE FinalizerChain ----------------------------
(***************************************************************************)
(* The finalizers of one streamed attempt, in the order and with the       *)
(* chaining that streaming/runner.py gives them: tool rewrite (15),        *)
(* timestamp (20), tool call assembly (40), live nudge (50), tool loop     *)
(* stopper (55), reasoning loop stopper (60).  StreamRunner keeps of them  *)
(* what decides over attempts; this module follows each delta through them *)
(* to the client.                                                          *)
(*                                                                         *)
(* A finalizer that swallows a delta still shows it to the later ones, and *)
(* what a finalizer puts in place of a delta starts afresh: most of what   *)
(* can go wrong here is two finalizers that both deliver the same delta,   *)
(* or neither.                                                             *)
(*                                                                         *)
(* Data abstraction: a text delta is its number, and its kind says what    *)
(* the regular expressions see in it.  The arguments of a call are pieces, *)
(* each a whole JSON object: no piece or two pieces are not valid JSON.    *)
(* Call indices count from 1.  The tail buffer counts deltas, and text let *)
(* out of a buffer in one piece is let out delta by delta.                 *)
(***************************************************************************)
EXTENDS Integers, SequencesExt

CONSTANTS
  Chains,      \* the chains of finalizers explored
  Histories,   \* the calls of the conversation so far that are explored
  Names,       \* names of tools
  Pieces,      \* arguments of tool calls
  XmlName,     \* tool of a pseudo-call written in the text
  XmlPiece,    \* arguments of a pseudo-call
  IndexReuse,  \* whether an answer mixes pseudo-calls with other calls
  TailSize,    \* tail_buffer_size, in deltas
  MaxDeltas    \* bound: deltas of the attempt

ChainKinds == [rewrite : BOOLEAN, stamp : BOOLEAN, nudge : BOOLEAN,
               tls : {"off", "exact", "observer"}, rls : BOOLEAN]

\* spaced: the client sends the arguments back with other white space.
PastCalls == [name : Names, piece : Pieces, spaced : BOOLEAN]

ASSUME SetupAssumption ==
  /\ Chains \subseteq ChainKinds /\ Histories \subseteq Seq(PastCalls)
  /\ XmlName \in Names /\ XmlPiece \in Pieces /\ "none" \notin Names
  /\ IndexReuse \in BOOLEAN /\ MaxDeltas \in Nat
  /\ TailSize \in Nat \ {0, 1}  \* 1024 characters: more than a footer

VARIABLES
  chain,    \* the finalizers of this attempt
  history,  \* conversation_tool_calls
  budget,   \* whether the stopper has attempts left
  attempt   \* what the upstream sent, the finalizers' state, what they let out

fcVars == <<chain, history, budget, attempt>>

\* plain text; a tag that opens or closes a pseudo-call; a whole pseudo-call,
\* alone or after text; a timestamp footer the model echoes.
TextKinds == {"plain", "open", "close", "call", "mixed", "stamp"}
XmlKinds == {"open", "call", "mixed"}

Footer == MaxDeltas + 1
Text(id) == [kind |-> "text", id |-> id]
Texts(ids) == [k \in DOMAIN ids |-> Text(ids[k])]
Delta(i, name, pieces) == [kind |-> "delta", index |-> i, name |-> name, pieces |-> pieces]
Assembled(i, call) == [kind |-> "complete", index |-> i, name |-> call.name, pieces |-> call.pieces]

IsJson(pieces) == Len(pieces) = 1

\* The assembly keeps the calls for the end of the attempt.
HoldsCalls == chain.rls \/ chain.tls = "observer"

-----------------------------------------------------------------------------
(* Deltas on their way to the client: each operator maps the attempt f to  *)
(* the attempt after a finalizer has seen a delta, f.out being what got    *)
(* through to the client, or to the buffer of output that may be rejected. *)

Emit(f, event) == [f EXCEPT !.out = Append(@, event), !.hasTool = @ \/ event.kind # "text"]
EmitAll(f, events) == [f EXCEPT !.out = @ \o events,
                                !.hasTool = @ \/ \E k \in DOMAIN events : events[k].kind # "text"]

\* TimestampFinalizer keeps a tail and lets go of what falls out of it.  Under
\* a live nudge it only watches.
Stamp(f, id, suppressed) ==
  LET all == Append(f.tail, id)
      full == Len(all) > TailSize
      watched == IF chain.stamp THEN [f EXCEPT !.tail = IF full THEN Tail(all) ELSE all] ELSE f
  IN  IF ~chain.stamp \/ chain.nudge
      THEN (IF suppressed THEN watched ELSE Emit(watched, Text(id)))
      ELSE IF full THEN Emit(watched, Text(Head(all))) ELSE watched

\* Fragments of a call are put together by index; the first name counts.
Grown(calls, d) ==
  IF d.index <= Len(calls)
  THEN [calls EXCEPT ![d.index].pieces = @ \o d.pieces]
  ELSE Append(calls, [name |-> d.name, pieces |-> d.pieces])

Assemble(f, d) == [f EXCEPT !.calls = Grown(@, d)]

\* Slip: a call is compared with the conversation alone.
DiffersFromHistory(f, call) == history = <<>> \/ call.name # Last(history).name

\* The name already shows that the call is not the one before it.
Differs(f, call) == call.name # f.last

\* TLSFinalizer._process_progressive_delta: a call passes as soon as its name
\* differs from the one before it, unless an earlier call is still held.
Gate(f, d) ==
  LET old == d.index <= Len(f.gate)
      call == IF old THEN f.gate[d.index]
              ELSE [name |-> d.name, pieces |-> <<>>, events |-> <<>>, state |-> "pending"]
      grown == [call EXCEPT !.pieces = @ \o d.pieces, !.events = Append(@, d)]
      open == [f EXCEPT !.gate = IF old THEN [@ EXCEPT ![d.index] = grown] ELSE Append(@, grown)]
      mayPass == /\ call.state = "pending" /\ Differs(f, call)
                 /\ \A i \in 1 .. (d.index - 1) : f.gate[i].state # "pending"
      through == [open EXCEPT !.gate[d.index].state = "accepted",
                              !.last = call.name, !.committed = TRUE]
      replaced == Len(grown.events) > 1
  IN  IF call.state = "accepted" THEN (IF HoldsCalls THEN open ELSE Emit(open, d))
      ELSE IF mayPass /\ (replaced \/ ~HoldsCalls) THEN EmitAll(through, grown.events)
      ELSE IF mayPass THEN through
      ELSE open

\* TLSFinalizer._buffer_tool_event: one signature for each delta with a name.
Watch(f, d) == IF d.name = "none" THEN f
               ELSE [f EXCEPT !.signatures = Append(@, <<d.name, d.pieces, FALSE>>)]

\* A tool call delta passes the assembly and the stopper.
CallDelta(f, d) ==
  LET g == Assemble(f, d)
  IN  CASE chain.tls = "exact" -> Gate(g, d)
        [] chain.tls = "observer" -> Watch(g, d)
        [] OTHER -> IF HoldsCalls THEN g ELSE Emit(g, d)

-----------------------------------------------------------------------------
(* Pseudo-calls in the text.                                               *)

\* ToolRewriteFinalizer._is_xml_complete: as many tags closed as opened.
Balanced(kinds) == Len(SelectSeq(kinds, LAMBDA k : k = "open"))
                     <= Len(SelectSeq(kinds, LAMBDA k : k = "close"))

\* Slip: the last delta is text too.
TagsStay(f, ids) == TRUE

\* ToolRewriteFinalizer._clean_content: text around a call in one delta.
HasText(f, ids) == Len(ids) = 1 /\ f.texts[ids[1]] = "mixed"

\* ToolRewriteFinalizer._rewrite_and_emit: the call has always the first index.
Rewritten(f, ids) ==
  LET call == Delta(1, XmlName, <<XmlPiece>>)
      g == [f EXCEPT !.xml = <<>>, !.skip = TRUE, !.made = Append(@, call),
                     !.turned = @ \cup {id \in Range(ids) : Len(ids) > 1 \/ f.texts[id] # "mixed"}]
  IN  CallDelta(IF HasText(f, ids) THEN Stamp(g, Last(ids), FALSE) ELSE g, call)

\* ToolRewriteFinalizer._process_assistant_text: an opened tag holds everything
\* until it is closed; after a rewritten call one delta passes unread.
TextDelta(f, id) ==
  LET ids == Append(f.xml, id)
  IN  IF ~chain.rewrite THEN Stamp(f, id, FALSE)
      ELSE IF f.skip THEN Stamp([f EXCEPT !.skip = FALSE], id, FALSE)
      ELSE IF f.xml = <<>> /\ f.texts[id] \notin XmlKinds THEN Stamp(f, id, FALSE)
      ELSE IF Balanced([k \in DOMAIN ids |-> f.texts[ids[k]]]) THEN Rewritten(f, ids)
      ELSE Stamp([f EXCEPT !.xml = ids], id, TRUE)

-----------------------------------------------------------------------------
(* The end of the attempt: finalize() of every finalizer.                  *)

\* ToolRewriteFinalizer.finalize: a pseudo-call that was never closed is text.
\* Timestamp does not see it; with a live nudge beside it, it is dropped.
FlushXml(f) == IF f.xml = <<>> \/ (chain.stamp /\ chain.nudge) THEN f
               ELSE EmitAll(f, Texts(f.xml))

\* _strip_existing_timestamp_footer, of a tail that ends with footers.
WithoutStale(f, ids) == SubSeq(ids, 1, SelectLastInSeq(ids, LAMBDA id : f.texts[id] # "stamp"))

\* TimestampFinalizer.finalize: the tail without stale footers, and a fresh
\* one; under a live nudge, which let the text through, the footer alone.
FlushTail(f) ==
  LET kept == WithoutStale(f, f.tail)
  IN  IF ~chain.stamp \/ kept = <<>> THEN f
      ELSE EmitAll(f, Texts(IF chain.nudge THEN <<Footer>> ELSE Append(kept, Footer)))

\* The calls whose arguments are valid JSON.
ValidOnly(calls) ==
  LET valid[k \in 0 .. Len(calls)] ==
        IF k = 0 THEN <<>>
        ELSE IF IsJson(calls[k].pieces) THEN Append(valid[k - 1], Assembled(k, calls[k]))
        ELSE valid[k - 1]
  IN  valid[Len(calls)]

\* Slip: the calls are flushed although their deltas were relayed.
FlushCallsAgain(f) == EmitAll(f, ValidOnly(f.calls))

\* ToolCallFinalizer.finalize.
FlushCalls(f) == IF HoldsCalls THEN EmitAll(f, ValidOnly(f.calls)) ELSE f

\* TLSFinalizer._last_history_signature, of arguments as the client wrote them.
HistorySignature == IF history = <<>> THEN <<"none">>
                    ELSE LET c == Last(history) IN <<c.name, <<c.piece>>, c.spaced>>

Signature(call) == <<call.name, call.pieces, FALSE>>

\* One call of the gate against the signature before it.
Resolve(g, call) ==
  LET sig == Signature(call)
  IN  IF ~IsJson(call.pieces) THEN g
      ELSE IF sig = g.prior THEN [g EXCEPT !.repeats = TRUE]
      ELSE IF call.state = "accepted" THEN [g EXCEPT !.prior = sig]
      ELSE [g EXCEPT !.prior = sig, !.released = @ \o call.events]

\* TLSFinalizer._finalize_progressive_exact: held calls that repeat the one
\* before them are dropped, the other ones released.
GateVerdict(f) ==
  LET verdict[k \in 0 .. Len(f.gate)] ==
        IF k = 0 THEN [prior |-> HistorySignature, repeats |-> FALSE, released |-> <<>>]
        ELSE Resolve(verdict[k - 1], f.gate[k])
  IN  verdict[Len(f.gate)]

\* TLSFinalizer._detect_loop, exact part: two equal signatures in a row,
\* anywhere in the conversation or the attempt.
Repeats(signatures) == \E i \in 1 .. (Len(signatures) - 1) : signatures[i] = signatures[i + 1]
PastSignatures == [i \in DOMAIN history |-> <<history[i].name, <<history[i].piece>>, history[i].spaced>>]
DetectsLoop(f) == Repeats(PastSignatures \o f.signatures)

\* Slip: held calls are forgotten when another call has passed.
FlushGateUncommitted(f) == IF chain.tls # "exact" \/ f.committed THEN f
                           ELSE EmitAll(f, GateVerdict(f).released)

FlushGate(f) == IF chain.tls # "exact" THEN f ELSE EmitAll(f, GateVerdict(f).released)

\* The stopper asks for another attempt.
Decides(f) == /\ budget
              /\ CASE chain.tls = "exact" -> GateVerdict(f).repeats /\ ~f.committed
                   [] chain.tls = "observer" -> DetectsLoop(f)
                   [] OTHER -> FALSE

\* TLSFinalizer.recovery_exhausted: the fallback takes the answer's place.
Exhausted(f) == chain.tls # "off" /\ ~budget /\ DetectsLoop(f)

\* Output that was held back is dropped with its attempt.
Dropped(f, state) == [f EXCEPT !.state = state, !.out = IF HoldsCalls THEN <<>> ELSE @]

Ended(f, reason) ==
  LET g == FlushGate(FlushCalls(FlushTail(FlushXml(f))))
  IN  IF Decides(f) THEN Dropped(f, "rejected")
      ELSE IF Exhausted(f) THEN Dropped(f, "fellback")
      ELSE [g EXCEPT !.state = "accepted", !.reason = IF g.hasTool THEN "tool_calls" ELSE reason]

-----------------------------------------------------------------------------
FcInit ==
  /\ chain \in Chains /\ history \in Histories /\ budget \in BOOLEAN
  /\ attempt = [state |-> "open", reason |-> "none", deltas |-> 0, natives |-> 0, texts |-> <<>>, made |-> <<>>, turned |-> {},
                out |-> <<>>, hasTool |-> FALSE, xml |-> <<>>, skip |-> FALSE, tail |-> <<>>,
                calls |-> <<>>, gate |-> <<>>, signatures |-> <<>>, committed |-> FALSE,
                last |-> IF history = <<>> THEN "none" ELSE Last(history).name]

Step(f) == attempt' = f /\ UNCHANGED <<chain, history, budget>>

\* The upstream sends one more delta.
Sending == attempt.state = "open" /\ attempt.deltas < MaxDeltas
Sent == [attempt EXCEPT !.deltas = @ + 1]

TextArrives(kind) ==
  /\ Sending
  /\ kind = "stamp" => kind \notin Range(attempt.texts)
  /\ kind \in XmlKinds /\ ~IndexReuse => attempt.made = <<>> /\ attempt.xml = <<>>
  /\ Step(TextDelta([Sent EXCEPT !.texts = Append(@, kind)], Len(attempt.texts) + 1))

\* The first delta of a call has its name, with its arguments or without.
CallStarts(name, pieces) ==
  LET d == Delta(attempt.natives + 1, name, pieces)
  IN  /\ Sending
      /\ ~IndexReuse => Len(attempt.made) = attempt.natives /\ attempt.xml = <<>>
      /\ Step(CallDelta([Sent EXCEPT !.natives = @ + 1, !.made = Append(@, d)], d))

\* Arguments of a call that has none yet.
CallGoesOn(k, piece) ==
  LET call == attempt.made[k]
  IN  /\ Sending /\ call.pieces = <<>>
      /\ Step(CallDelta([Sent EXCEPT !.made[k].pieces = <<piece>>],
                        Delta(call.index, "none", <<piece>>)))

\* The finish reason, and the frame after it, or [DONE].  An upstream that says
\* "tool_calls" has sent one.
AttemptEnds(reason) ==
  /\ attempt.state = "open"
  /\ reason = "tool_calls" => attempt.natives > 0
  /\ Step(Ended(attempt, reason))

FcNext == \/ \E kind \in TextKinds : TextArrives(kind)
          \/ \E name \in Names : CallStarts(name, <<>>) \/ \E p \in Pieces : CallStarts(name, <<p>>)
          \/ \E k \in DOMAIN attempt.made, p \in Pieces : CallGoesOn(k, p)
          \/ \E reason \in {"stop", "tool_calls"} : AttemptEnds(reason)

FcSpec == FcInit /\ [][FcNext]_fcVars

-----------------------------------------------------------------------------
Accepted == attempt.state = "accepted"
\* The text of an accepted answer is the upstream's, each delta once and in
\* order, without what became a tool call; the configured footer comes last and
\* once, in place of one the model echoed.
Said(events) == {k \in DOMAIN events : events[k].kind = "text"}
Lists(events, ids) == /\ {events[k].id : k \in Said(events)} = ids
                      /\ \A j, k \in Said(events) : j < k => events[j].id < events[k].id
Written == DOMAIN attempt.texts \ attempt.turned
Fresh == {id \in Written : \E later \in Written : id <= later /\ attempt.texts[later] # "stamp"}
TextExact == Accepted =>
  Lists(attempt.out, (IF chain.stamp /\ ~chain.nudge THEN Fresh ELSE Written)
                       \cup (IF chain.stamp /\ Fresh # {} THEN {Footer} ELSE {}))

\* What a client puts together under an index is one call the model made: its
\* name first and once, its arguments once ("does not add a duplicate terminal
\* complete event"); the runner says "tool_calls" of an answer with a call.
Under(i, events) == {k \in DOMAIN events : events[k].kind # "text" /\ events[k].index = i}
Carries(events, i, call) ==
  \E first, at \in Under(i, events) :
    /\ events[first].name = call.name
    /\ \A k \in Under(i, events) \ {first} : first < k /\ events[k].name = "none"
    /\ events[at].pieces = call.pieces
    /\ \A k \in Under(i, events) \ {at} : events[k].pieces = <<>>
Indices(events) == {events[k].index : k \in {j \in DOMAIN events : events[j].kind # "text"}}
Delivered == Indices(attempt.out)
CallsAsMade == Accepted =>
  /\ \A i \in Delivered : \E k \in DOMAIN attempt.made :
       attempt.made[k].index = i /\ Carries(attempt.out, i, attempt.made[k])
  /\ Delivered # {} => attempt.reason = "tool_calls"

\* In exact mode no call reaches the client that repeats the call before it,
\* in the turn or in the conversation, even while it streams ("holds only a
\* call whose duplicate status is still ambiguous").
Before(k) == IF k = 1 THEN HistorySignature ELSE Signature(attempt.made[k - 1])
Repeated(k) == IsJson(attempt.made[k].pieces) /\ Signature(attempt.made[k]) = Before(k)
RepeatHeldBack == chain.tls = "exact" =>
  \A k \in DOMAIN attempt.made : Repeated(k) => attempt.made[k].index \notin Delivered

\* The stopper takes nothing but repeats: a complete call that differs from
\* every other one is in an accepted answer, and an attempt is rejected
\* because of a repeat ("a distinct call is released immediately").
IsNew(k) == /\ IsJson(attempt.made[k].pieces)
            /\ Signature(attempt.made[k]) # HistorySignature
            /\ \A j \in 1 .. (k - 1) : Signature(attempt.made[j]) # Signature(attempt.made[k])
RejectedForRepeat == attempt.state = "rejected" =>
  \E k \in DOMAIN attempt.made : ~IsNew(k) /\ IsJson(attempt.made[k].pieces)
NewCallPasses ==
  /\ Accepted => \A k \in DOMAIN attempt.made : IsNew(k) => attempt.made[k].index \in Delivered
  /\ chain.tls = "exact" => RejectedForRepeat

\* An answer that ends with "tool_calls" has one.
CallBehindReason == Accepted /\ attempt.reason = "tool_calls" => Delivered # {}

\* A call without arguments is a call as any other: an accepted answer has it
\* ("drop only the pending duplicate").
BareCallPasses == Accepted =>
  \A k \in DOMAIN attempt.made : attempt.made[k].pieces = <<>> => attempt.made[k].index \in Delivered

\* The answer has one footer, the fresh one.
OneFooter == Accepted =>
  \A j, k \in Said(attempt.out) :
    (\A i \in {j, k} : LET id == attempt.out[i].id IN id = Footer \/ attempt.texts[id] = "stamp")
      => j = k

\* A fallback takes the place of an answer that repeats a call.
FallbackForRepeats == attempt.state = "fellback" => \E k \in DOMAIN attempt.made : ~IsNew(k)
=============================================================================
