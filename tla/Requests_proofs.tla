-------------------------- MODULE Requests_proofs --------------------------
(* What is proved of chat requests.                                        *)
(*                                                                         *)
(* FallbackChain: one request and its upstream targets, for chains of any  *)
(* length, any number of retries and whatever the validators make of its   *)
(* messages: the reply follows from the calls that were made, and they go  *)
(* as planned.  The steps are functions of the request's locals, and so is *)
(* the invariant (Good): one disjunct for every place in the two loops.    *)
(* Of the calls: a chain has no target twice (Resolves), so what the loops *)
(* do after a call (Onward) keeps their order (Ordered) and takes images   *)
(* away but never back (Kept).                                             *)
(*                                                                         *)
(* RequestLifecycle: the life of requests, for any number of them, any     *)
(* caps, any threshold and any number of reloads: what a request that is   *)
(* over leaves behind, and that the composition uses admission, the        *)
(* breaker and the streams as their own specifications say.                *)
EXTENDS FallbackChain, RequestLifecycle, SequenceTheorems, WellFoundedInduction, TLAPS

-----------------------------------------------------------------------------
(* The targets of one request.                                             *)

Fields == {"phase", "level", "pos", "strips", "messages", "refusal", "calls", "reply"}
Streams == config.kind = "stream"

Base(s) == /\ DOMAIN s = Fields
           /\ s.level \in Nat /\ s.pos \in 1 .. Final /\ s.level < s.pos
           /\ \E S : s.calls \in Seq(S)

\* The first k targets of the chain have been called.
Walked(s, k) == \A m \in 1 .. k : \E i \in DOMAIN s.calls : s.calls[i].target = Attempts[m].target

\* None of the first n calls of a stream has settled it.
Unsettled(s, n) == Streams => \A i \in 1 .. n : s.calls[i].result \notin {"ok", "400"}

\* The first call was not refused with a 400, or a call without images came
\* through.
Stripped(s) == \E i \in DOMAIN s.calls : s.calls[i].again /\ s.calls[i].result \in {"ok", "garbled"}
Clear(s) == Len(s.calls) > 0 /\ s.calls[1].result = "400" => Stripped(s)

\* All calls went to the target the request is at.
OnlyHere(s) == \A i \in DOMAIN s.calls : s.calls[i].target = Attempts[s.pos].target

LastCall(s) == s.calls[Len(s.calls)]

Calling(s) == /\ s.phase = "calling" /\ Clear(s) /\ Walked(s, s.pos - 1)
              /\ Unsettled(s, Len(s.calls))
              /\ ~Streams => s.pos = s.level + 1
Streaming(s) == /\ s.phase = "streaming" /\ Streams /\ Clear(s) /\ Len(s.calls) > 0
                /\ LastCall(s).result = "ok" /\ LastCall(s).target = Attempts[s.pos].target
Refusing(s) == /\ s.phase = "refused" /\ ~Streams /\ s.pos = s.level + 1
               /\ Walked(s, s.pos) /\ Len(s.calls) > 0 /\ s.refusal.status \in Refusals
               /\ Clear(s) \/ (OnlyHere(s) /\ s.refusal.status = "400")
Looping(s) == /\ s.phase = "looping" /\ ~Streams /\ Clear(s) /\ s.pos > 1
              /\ Walked(s, s.pos - 1) /\ s.refusal.status \in Refusals
Replied(s) ==
  /\ s.phase = "answered"
  /\ Clear(s) \/ (OnlyHere(s) /\ s.reply.status = "400")
  /\ s.reply.status \in {"error", "raise"} => Walked(s, Final)
  /\ s.reply.status = "ok" =>
       /\ Len(s.calls) > 0 /\ LastCall(s).result = "ok"
       /\ s.reply.from = LastCall(s).target /\ s.reply.named = s.reply.from

Good(s) == /\ Base(s) /\ Unsettled(s, Len(s.calls) - 1)
           /\ Calling(s) \/ Streaming(s) \/ Refusing(s) \/ Looping(s) \/ Replied(s)

-----------------------------------------------------------------------------
LEMMA Places == Final \in Nat \ {0}
<1> DEFINE n == Len(config.chain) - 1  e(k) == Own(config.chain[k + 1])
           S == {FirstAttempt} \cup {e(k) : k \in 1 .. n}
           rest == IF config.passthrough THEN <<>> ELSE [k \in 1 .. n |-> e(k)]
<1>1. n \in Int
  OBVIOUS
<1>2. Attempts = <<FirstAttempt>> \o rest
  BY DEF Attempts
<1>3. \A k \in 1 .. n : e(k) \in S
  OBVIOUS
<1> HIDE DEF n, e
<1>4. [k \in 1 .. n |-> e(k)] \in Seq(S)
  <2>1. CASE n \in Nat
    BY <1>3, <2>1, IsASeq
  <2>2. CASE n \notin Nat
    <3>1. 1 .. n = 1 .. 0
      BY <1>1, <2>2
    <3>2. [k \in 1 .. 0 |-> e(k)] \in Seq(S)
      BY <1>3, <3>1, IsASeq
    <3>. QED
      BY <3>1, <3>2
  <2>. QED
    BY <2>1, <2>2
<1>5. rest \in Seq(S) /\ <<FirstAttempt>> \in Seq(S)
  BY <1>4
<1> HIDE DEF rest, S
<1>6. Len(Attempts) = 1 + Len(rest) /\ Len(rest) \in Nat
  BY <1>2, <1>5, ConcatProperties
<1>. QED
  BY <1>6 DEF Final

\* One more call, wherever the request is.
LEMMA OneCall ==
  ASSUME NEW s, Base(s), NEW result, NEW again \in BOOLEAN
  PROVE  LET t == Call(s, result, again) IN
         /\ Base(t)
         /\ t.phase = s.phase /\ t.level = s.level /\ t.pos = s.pos /\ t.messages = s.messages
         /\ t.refusal = s.refusal /\ t.reply = s.reply /\ t.strips = s.strips
         /\ Len(s.calls) \in Nat /\ Len(t.calls) = Len(s.calls) + 1
         /\ DOMAIN s.calls = 1 .. Len(s.calls) /\ DOMAIN t.calls = 1 .. Len(t.calls)
         /\ \A i \in 1 .. Len(s.calls) : t.calls[i] = s.calls[i]
         /\ LastCall(t).target = Attempts[s.pos].target
         /\ LastCall(t).result = result /\ LastCall(t).again = again
         /\ LastCall(t).messages = s.messages
         /\ Walked(s, s.pos - 1) => Walked(t, s.pos)
         /\ Unsettled(s, Len(s.calls)) => Unsettled(t, Len(s.calls))
         /\ Stripped(s) => Stripped(t)
<1> DEFINE c == [target |-> Attempts[s.pos].target, transport |-> Attempts[s.pos].transport,
                 messages |-> s.messages, result |-> result, again |-> again]
           t == Call(s, result, again)
<1>1. PICK S : s.calls \in Seq(S)
  BY DEF Base
<1>2. c.target = Attempts[s.pos].target /\ c.result = result /\ c.again = again
      /\ c.messages = s.messages
  OBVIOUS
<1>3. /\ t.calls = Append(s.calls, c) /\ DOMAIN t = Fields
      /\ t.phase = s.phase /\ t.level = s.level /\ t.pos = s.pos /\ t.messages = s.messages
      /\ t.refusal = s.refusal /\ t.reply = s.reply /\ t.strips = s.strips
  BY DEF Base, Fields, Call
<1> HIDE DEF c, t
<1>4. s.calls \in Seq(S \cup {c}) /\ t.calls \in Seq(S \cup {c})
  BY <1>1, <1>3
<1>5. /\ Len(s.calls) \in Nat /\ Len(t.calls) = Len(s.calls) + 1
      /\ DOMAIN s.calls = 1 .. Len(s.calls) /\ DOMAIN t.calls = 1 .. Len(t.calls)
      /\ \A i \in 1 .. Len(s.calls) : t.calls[i] = s.calls[i]
      /\ t.calls[Len(t.calls)] = c
  BY <1>3, <1>4
<1>6. Base(t)
  BY <1>3, <1>4 DEF Base
<1>7. Walked(s, s.pos - 1) => Walked(t, s.pos)
  <2> SUFFICES ASSUME Walked(s, s.pos - 1), NEW m \in 1 .. s.pos
               PROVE  \E i \in DOMAIN t.calls : t.calls[i].target = Attempts[m].target
    BY DEF Walked
  <2>0. s.pos \in Nat
    BY Places DEF Base
  <2>1. CASE m = s.pos
    <3>1. Len(t.calls) \in DOMAIN t.calls /\ t.calls[Len(t.calls)].target = Attempts[m].target
      BY <1>2, <1>5, <2>1
    <3>. QED
      BY <3>1
  <2>2. CASE m # s.pos
    <3>1. m \in 1 .. s.pos - 1
      BY <2>0, <2>2
    <3>2. PICK i \in DOMAIN s.calls : s.calls[i].target = Attempts[m].target
      BY <3>1 DEF Walked
    <3>3. i \in DOMAIN t.calls /\ t.calls[i] = s.calls[i]
      BY <1>5
    <3>. QED
      BY <3>2, <3>3
  <2>. QED
    BY <2>1, <2>2
<1>8. Unsettled(s, Len(s.calls)) => Unsettled(t, Len(s.calls))
  BY <1>5 DEF Unsettled
<1>9. Stripped(s) => Stripped(t)
  <2> SUFFICES ASSUME Stripped(s) PROVE Stripped(t)
    OBVIOUS
  <2>1. PICK i \in DOMAIN s.calls : s.calls[i].again /\ s.calls[i].result \in {"ok", "garbled"}
    BY DEF Stripped
  <2>2. i \in DOMAIN t.calls /\ t.calls[i] = s.calls[i]
    BY <1>5
  <2>. QED
    BY <2>1, <2>2 DEF Stripped
<1>. QED
  BY <1>2, <1>3, <1>5, <1>6, <1>7, <1>8, <1>9 DEF LastCall, t

-----------------------------------------------------------------------------
(* What the loops do after a call.                                         *)
USE DEF Base, Fields

\* The reply is made where the request is.
LEMMA Replying ==
  ASSUME NEW s, Base(s), NEW status, NEW from,
         Unsettled(s, Len(s.calls) - 1),
         Clear(s) \/ (OnlyHere(s) /\ status = "400"),
         status \in {"error", "raise"} => Walked(s, Final),
         status = "ok" => /\ Len(s.calls) > 0 /\ LastCall(s).result = "ok"
                          /\ from = LastCall(s).target /\ Attempts[s.pos].target = from
  PROVE  Good(Reply(s, status, from))
<1> DEFINE t == Reply(s, status, from)
<1>1. /\ Base(t) /\ t.phase = "answered" /\ t.calls = s.calls /\ t.pos = s.pos
      /\ t.reply.status = status /\ t.reply.from = from /\ t.reply.named = Attempts[s.pos].target
  BY DEF Reply
<1> HIDE DEF t, Base
<1>2. Unsettled(t, Len(t.calls) - 1) /\ (Clear(t) \/ (OnlyHere(t) /\ t.reply.status = "400"))
  BY <1>1 DEF Unsettled, Clear, OnlyHere, Stripped
<1>3. /\ t.reply.status \in {"error", "raise"} => Walked(t, Final)
      /\ LastCall(t) = LastCall(s)
  BY <1>1 DEF Walked, LastCall
<1>4. Replied(t)
  BY <1>1, <1>2, <1>3 DEF Replied
<1>. QED
  BY <1>1, <1>2, <1>4 DEF Good, t

\* Moving on in the chain keeps what the calls say.
LEMMA MovingOn ==
  ASSUME NEW s, NEW t, t.calls = s.calls
  PROVE  /\ Clear(s) <=> Clear(t)
         /\ \A k : Walked(s, k) <=> Walked(t, k)
         /\ \A n : Unsettled(s, n) <=> Unsettled(t, n)
BY DEF Clear, Stripped, Walked, Unsettled

LEMMA StreamingOn ==
  ASSUME NEW s, Base(s), NEW result, result \notin {"ok", "400"}, Streams, s.phase = "calling",
         Clear(s), Walked(s, s.pos), Unsettled(s, Len(s.calls))
  PROVE  Good(NextStream(s, result))
<1>0. s.pos \in Nat /\ Final \in Nat /\ s.pos \in 1 .. Final /\ Len(s.calls) \in Nat
  BY Places
<1>1. CASE s.pos < Final
  <2> DEFINE t == [s EXCEPT !.pos = @ + 1]
  <2>1. /\ Base(t) /\ t.pos = s.pos + 1 /\ t.phase = s.phase /\ t.calls = s.calls
        /\ t.pos - 1 = s.pos
    BY <1>0, <1>1
  <2>2. NextStream(s, result) = t
    BY <1>1 DEF NextStream
  <2> HIDE DEF t, Base
  <2>3. Clear(t) /\ Walked(t, t.pos - 1) /\ Unsettled(t, Len(t.calls))
    BY <2>1, MovingOn
  <2>4. Unsettled(t, Len(t.calls) - 1)
    BY <1>0, <2>1, <2>3 DEF Unsettled
  <2>. QED
    BY <2>1, <2>2, <2>3, <2>4 DEF Good, Calling
<1>2. CASE ~(s.pos < Final)
  <2>1. s.pos = Final /\ NextStream(s, result) = ReplyHere(s, result)
    BY <1>0, <1>2 DEF NextStream
  <2>2. Unsettled(s, Len(s.calls) - 1)
    BY <1>0 DEF Unsettled
  <2>. QED
    BY <2>1, <2>2, Replying DEF ReplyHere
<1>. QED
  BY <1>1, <1>2

LEMMA Retrying ==
  ASSUME NEW s, Base(s), ~Streams, Clear(s), Walked(s, s.pos)
  PROVE  Good(RetryRest(s, "raise"))
<1>0. /\ s.pos \in Nat /\ Final \in Nat /\ s.pos \in 1 .. Final /\ s.level \in Nat
      /\ s.level < s.pos
  BY Places
<1>1. CASE s.level + 1 < Final
  <2> DEFINE t == RetryRest(s, "raise")
  <2>1. /\ Base(t) /\ t.phase = "calling" /\ t.pos = s.level + 2 /\ t.level = s.level + 1
        /\ t.calls = s.calls
    BY <1>0, <1>1 DEF RetryRest
  <2> HIDE DEF t, Base
  <2>2. t.pos = t.level + 1 /\ t.pos - 1 = s.level + 1 /\ s.level + 1 <= s.pos
    BY <1>0, <2>1
  <2>3. Clear(t) /\ Walked(t, s.pos)
    BY <2>1, MovingOn
  <2>4. Walked(t, t.pos - 1)
    BY <1>0, <2>2, <2>3 DEF Walked
  <2>. QED
    BY <2>1, <2>2, <2>3, <2>4 DEF Good, Calling, Unsettled, t
<1>2. CASE ~(s.level + 1 < Final)
  <2>1. s.pos = Final /\ RetryRest(s, "raise") = ReplyHere(s, "raise")
    BY <1>0, <1>2 DEF RetryRest
  <2>. QED
    BY <2>1, Replying DEF ReplyHere, Unsettled
<1>. QED
  BY <1>1, <1>2

LEMMA NextRefusing ==
  ASSUME NEW s, Base(s), ~Streams, Clear(s), Walked(s, s.pos), s.refusal.status \in Refusals
  PROVE  Good(NextRefused(s))
<1>0. s.pos \in Nat /\ Final \in Nat /\ s.pos \in 1 .. Final
  BY Places
<1>1. CASE s.pos < Final
  <2> DEFINE t == NextRefused(s)
  <2>1. /\ Base(t) /\ t.phase = "looping" /\ t.pos = s.pos + 1 /\ t.refusal = s.refusal
        /\ t.calls = s.calls /\ t.pos - 1 = s.pos /\ t.pos > 1
    BY <1>0, <1>1 DEF NextRefused
  <2> HIDE DEF t, Base
  <2>2. Clear(t) /\ Walked(t, t.pos - 1)
    BY <2>1, MovingOn
  <2>. QED
    BY <2>1, <2>2 DEF Good, Looping, Unsettled, t
<1>2. CASE ~(s.pos < Final)
  <2>1. s.pos = Final /\ NextRefused(s) = Reply(s, s.refusal.status, s.refusal.target)
    BY <1>0, <1>2 DEF NextRefused
  <2>. QED
    BY <2>1, Replying DEF Unsettled, Refusals
<1>. QED
  BY <1>1, <1>2

LEMMA GivingUp ==
  ASSUME NEW s, Base(s), ~Streams, Walked(s, s.pos), s.refusal.status \in Refusals,
         Clear(s) \/ (OnlyHere(s) /\ s.refusal.status = "400")
  PROVE  Good(GiveUpTarget(s))
<1>1. CASE s.refusal.status = "400"
  BY <1>1, Replying DEF GiveUpTarget, ReplyHere, Unsettled
<1>2. CASE s.refusal.status # "400"
  BY <1>2, NextRefusing DEF GiveUpTarget
<1>. QED
  BY <1>1, <1>2

LEMMA Parsing ==
  ASSUME NEW s, Base(s), ~Streams, Clear(s), Walked(s, s.pos), NEW result, Len(s.calls) > 0,
         LastCall(s).result = result, LastCall(s).target = Attempts[s.pos].target
  PROVE  Good(Parsed(s, result))
<1>1. CASE result = "ok"
  BY <1>1, Replying DEF Parsed, ReplyHere, Unsettled
<1>2. CASE result # "ok"
  BY <1>2, Retrying DEF Parsed
<1>. QED
  BY <1>1, <1>2

-----------------------------------------------------------------------------
(* The steps.                                                              *)

\* A call from a place where the request was clear leaves it so, unless it is
\* the first one and refused with a 400.
LEMMA ClearCall ==
  ASSUME NEW s, Base(s), Clear(s), NEW result, NEW again \in BOOLEAN,
         Len(s.calls) = 0 => result # "400"
  PROVE  Clear(Call(s, result, again))
<1> DEFINE t == Call(s, result, again)
<1>1. /\ Len(s.calls) \in Nat /\ Len(t.calls) = Len(s.calls) + 1
      /\ \A i \in 1 .. Len(s.calls) : t.calls[i] = s.calls[i]
      /\ t.calls[Len(t.calls)].result = result /\ (Stripped(s) => Stripped(t))
  BY OneCall DEF LastCall
<1> HIDE DEF t
<1>2. CASE Len(s.calls) = 0
  <2>1. t.calls[1].result = result
    BY <1>1, <1>2
  <2>. QED
    BY <1>2, <2>1 DEF Clear, t
<1>3. CASE Len(s.calls) # 0
  <2>1. t.calls[1] = s.calls[1] /\ Len(s.calls) > 0
    BY <1>1, <1>3
  <2>. QED
    BY <1>1, <2>1 DEF Clear, t
<1>. QED
  BY <1>2, <1>3

\* A call without images that comes through clears the request.
LEMMA StrippedCall ==
  ASSUME NEW s, Base(s), NEW result, result \in {"ok", "garbled"},
         NEW again \in BOOLEAN
  PROVE  again => Clear(Call(s, result, again))
<1> DEFINE t == Call(s, result, again)
<1>1. /\ Len(t.calls) \in DOMAIN t.calls
      /\ t.calls[Len(t.calls)].again = again /\ t.calls[Len(t.calls)].result = result
  <2>1. /\ Len(s.calls) \in Nat /\ Len(t.calls) = Len(s.calls) + 1
        /\ DOMAIN t.calls = 1 .. Len(t.calls)
        /\ LastCall(t).again = again /\ LastCall(t).result = result
    BY OneCall
  <2>. QED
    BY <2>1 DEF LastCall
<1> HIDE DEF t
<1>. QED
  BY <1>1 DEF Clear, Stripped, t

LEMMA StreamCalls ==
  ASSUME Good(req), NEW result \in Results, StreamCall(result)
  PROVE  Good(req')
<1> DEFINE again == FALSE  t == Call(req, result, again)
<1>0. again \in BOOLEAN
  OBVIOUS
<1> HIDE DEF again
<1>1. Base(req) /\ Calling(req) /\ Streams
  BY DEF Good, StreamCall, Calling, Streaming, Refusing, Looping, Replied, Streams
<1>2. /\ Base(t) /\ t.phase = "calling" /\ t.pos = req.pos
      /\ Len(req.calls) \in Nat /\ Len(t.calls) = Len(req.calls) + 1
      /\ \A i \in 1 .. Len(req.calls) : t.calls[i] = req.calls[i]
      /\ LastCall(t).target = Attempts[t.pos].target /\ LastCall(t).result = result
      /\ Walked(t, t.pos) /\ Unsettled(t, Len(t.calls) - 1)
  <2>1. /\ Base(t) /\ t.phase = req.phase /\ t.pos = req.pos
        /\ Len(req.calls) \in Nat /\ Len(t.calls) = Len(req.calls) + 1
        /\ \A i \in 1 .. Len(req.calls) : t.calls[i] = req.calls[i]
        /\ LastCall(t).target = Attempts[req.pos].target /\ LastCall(t).result = result
        /\ Walked(t, req.pos) /\ Unsettled(t, Len(req.calls))
    BY <1>0, <1>1, OneCall DEF Calling
  <2>2. Len(t.calls) - 1 = Len(req.calls)
    BY <2>1
  <2>. QED
    BY <1>1, <2>1, <2>2 DEF Calling
<1>3. result \in {"ok", "empty", "400", "error", "raise"}
  BY DEF StreamCall, Results
<1>4. req' = IF result = "ok" THEN [t EXCEPT !.phase = "streaming"]
             ELSE IF result \in {"empty", "400"} THEN ReplyHere(t, result)
             ELSE NextStream(t, result)
  BY DEF StreamCall, Step, again
<1>5. Len(req.calls) = 0 => OnlyHere(t)
  <2>1. DOMAIN t.calls = 1 .. Len(t.calls)
    BY <1>0, <1>1, OneCall
  <2>. QED
    BY <1>2, <2>1 DEF OnlyHere, LastCall
<1>6. Len(req.calls) = 0 \/ result # "400" \/ Clear(t)
  BY <1>0, <1>1, ClearCall DEF Calling
<1>7. result # "400" => Clear(t)
  BY <1>0, <1>1, ClearCall DEF Calling
<1> HIDE DEF t
<1>8. CASE result = "ok"
  <2> DEFINE u == [t EXCEPT !.phase = "streaming"]
  <2>1. req' = u /\ Base(u) /\ u.phase = "streaming" /\ u.calls = t.calls /\ u.pos = t.pos
    BY <1>2, <1>4, <1>8
  <2> HIDE DEF u, Base
  <2>2. Clear(u) /\ Unsettled(u, Len(u.calls) - 1) /\ LastCall(u) = LastCall(t)
    BY <1>2, <1>7, <1>8, <2>1, MovingOn DEF LastCall
  <2>3. Streaming(u)
    BY <1>1, <1>2, <1>8, <2>1, <2>2 DEF Streaming
  <2>. QED
    BY <2>1, <2>2, <2>3 DEF Good
<1>9. CASE result = "empty"
  BY <1>2, <1>4, <1>7, <1>9, Replying DEF ReplyHere
<1>10. CASE result = "400"
  BY <1>2, <1>4, <1>5, <1>6, <1>10, Replying DEF ReplyHere
<1>11. CASE result \in {"error", "raise"}
  <2>1. Unsettled(t, Len(t.calls))
    BY <1>2, <1>11 DEF Unsettled, LastCall
  <2>. QED
    BY <1>1, <1>2, <1>4, <1>7, <1>11, <2>1, StreamingOn
<1>. QED
  BY <1>3, <1>8, <1>9, <1>10, <1>11

LEMMA StreamStops ==
  ASSUME Good(req), NEW status \in {"ok", "broken"}, req.phase = "streaming",
         req' = ReplyHere(req, status)
  PROVE  Good(req')
<1>1. Base(req) /\ Streaming(req) /\ Unsettled(req, Len(req.calls) - 1)
  BY DEF Good, Calling, Streaming, Refusing, Looping, Replied
<1>2. Clear(req) /\ Len(req.calls) > 0 /\ LastCall(req).result = "ok"
      /\ LastCall(req).target = Attempts[req.pos].target
  BY <1>1 DEF Streaming
<1>. QED
  BY <1>1, <1>2, Replying DEF ReplyHere

\* A post, wherever in the two loops.
LEMMA Posted ==
  ASSUME NEW s, Base(s), ~Streams, NEW result, NEW again \in BOOLEAN,
         Walked(s, s.pos - 1) \/ Walked(s, s.pos)
  PROVE  LET t == Call(s, result, again) IN
         /\ Base(t) /\ t.phase = s.phase /\ t.pos = s.pos /\ t.level = s.level
         /\ t.refusal = s.refusal /\ Walked(t, t.pos) /\ Len(t.calls) > 0
         /\ LastCall(t).result = result /\ LastCall(t).target = Attempts[t.pos].target
<1> DEFINE t == Call(s, result, again)
<1>1. /\ Base(t) /\ t.phase = s.phase /\ t.pos = s.pos /\ t.level = s.level
      /\ t.refusal = s.refusal /\ Len(s.calls) \in Nat /\ Len(t.calls) = Len(s.calls) + 1
      /\ LastCall(t).result = result /\ LastCall(t).target = Attempts[s.pos].target
      /\ Walked(s, s.pos - 1) => Walked(t, s.pos)
  BY OneCall
<1>2. Walked(s, s.pos) => Walked(s, s.pos - 1)
  <2>1. s.pos \in Nat
    BY Places
  <2>. QED
    BY <2>1 DEF Walked
<1>. QED
  BY <1>1, <1>2

LEMMA FirstPosts ==
  ASSUME Good(req), NEW result \in Results, FirstPost(result)
  PROVE  Good(req')
<1> DEFINE again == FALSE  t == Call(req, result, again)
<1>0. again \in BOOLEAN
  OBVIOUS
<1> HIDE DEF again
<1>1. Base(req) /\ Calling(req) /\ ~Streams
  BY DEF Good, FirstPost, Calling, Streaming, Refusing, Looping, Replied, Streams
<1>2. /\ Base(t) /\ t.phase = "calling" /\ t.pos = req.pos /\ t.level = req.level
      /\ Walked(t, t.pos) /\ Len(t.calls) > 0
      /\ LastCall(t).result = result /\ LastCall(t).target = Attempts[t.pos].target
  BY <1>0, <1>1, Posted DEF Calling
<1>3. Clear(t) \/ (OnlyHere(t) /\ result = "400")
  <2>1. CASE Len(req.calls) = 0
    <3>1. DOMAIN t.calls = 1 .. Len(t.calls) /\ Len(t.calls) = Len(req.calls) + 1
      BY <1>0, <1>1, OneCall
    <3>2. OnlyHere(t)
      BY <1>2, <2>1, <3>1 DEF OnlyHere, LastCall
    <3>. QED
      BY <1>0, <1>1, <3>2, ClearCall DEF Calling
  <2>2. CASE Len(req.calls) # 0
    BY <1>0, <1>1, <2>2, ClearCall DEF Calling
  <2>. QED
    BY <2>1, <2>2
<1>4. req' = IF result \in Refusals THEN [Refused(t, result) EXCEPT !.phase = "refused"]
             ELSE IF result = "raise" THEN RetryRest(t, "raise") ELSE Parsed(t, result)
  BY DEF FirstPost, Step, again
<1> HIDE DEF t
<1>5. CASE result \in Refusals
  <2> DEFINE u == [Refused(t, result) EXCEPT !.phase = "refused"]
  <2>1. /\ Base(u) /\ u.phase = "refused" /\ u.calls = t.calls /\ u.pos = t.pos
        /\ u.level = t.level /\ u.refusal.status = result
    BY <1>2 DEF Refused
  <2>2. req' = u
    BY <1>4, <1>5
  <2> HIDE DEF u, Base
  <2>3. Walked(u, u.pos) /\ (Clear(u) \/ (OnlyHere(u) /\ u.refusal.status = "400"))
    <3>1. OnlyHere(t) => OnlyHere(u)
      BY <2>1 DEF OnlyHere
    <3>. QED
      BY <1>2, <1>3, <2>1, <3>1, MovingOn
  <2>4. Refusing(u)
    BY <1>1, <1>2, <1>5, <2>1, <2>3 DEF Refusing, Calling
  <2>. QED
    BY <1>1, <2>1, <2>2, <2>4 DEF Good, Unsettled
<1>6. CASE result = "raise"
  BY <1>1, <1>2, <1>3, <1>4, <1>6, Retrying DEF Refusals
<1>7. CASE result \notin Refusals /\ result # "raise"
  BY <1>1, <1>2, <1>3, <1>4, <1>7, Parsing DEF Refusals
<1>. QED
  BY <1>5, <1>6, <1>7

LEMMA NextPosts ==
  ASSUME Good(req), NEW result \in Results, NextPost(result)
  PROVE  Good(req')
<1> DEFINE again == FALSE  t == Call(req, result, again)
<1>0. again \in BOOLEAN
  OBVIOUS
<1> HIDE DEF again
<1>1. Base(req) /\ Looping(req) /\ ~Streams /\ req.refusal.status \in Refusals
  BY DEF Good, NextPost, Calling, Streaming, Refusing, Looping, Replied
<1>2. /\ Base(t) /\ t.pos = req.pos /\ t.level = req.level /\ t.refusal = req.refusal
      /\ Walked(t, t.pos) /\ Len(t.calls) > 0
      /\ LastCall(t).result = result /\ LastCall(t).target = Attempts[t.pos].target
  BY <1>0, <1>1, Posted DEF Looping
<1>3. Clear(t)
  <2>1. Len(req.calls) # 0
    <3>1. req.pos \in Nat /\ req.pos - 1 \in Nat
      BY <1>1, Places
    <3>2. 1 \in 1 .. req.pos - 1
      BY <1>1, <3>1 DEF Looping
    <3>3. PICK i \in DOMAIN req.calls : req.calls[i].target = Attempts[1].target
      BY <1>1, <3>2 DEF Looping, Walked
    <3>. QED
      BY <1>1, <3>3
  <2>. QED
    BY <1>0, <1>1, <2>1, ClearCall DEF Looping
<1>4. req' = IF result \in Refusals THEN NextRefused(Refused(t, result))
             ELSE IF result = "raise" THEN NextRefused(t) ELSE Parsed(t, result)
  BY DEF NextPost, Step, again
<1> HIDE DEF t
<1>5. CASE result \in Refusals
  <2> DEFINE u == Refused(t, result)
  <2>1. /\ Base(u) /\ u.calls = t.calls /\ u.pos = t.pos /\ u.refusal.status = result
    BY <1>2 DEF Refused
  <2>2. req' = NextRefused(u)
    BY <1>4, <1>5
  <2> HIDE DEF u, Base
  <2>3. Walked(u, u.pos) /\ Clear(u)
    BY <1>2, <1>3, <2>1, MovingOn
  <2>. QED
    BY <1>1, <1>5, <2>1, <2>2, <2>3, NextRefusing
<1>6. CASE result = "raise"
  BY <1>1, <1>2, <1>3, <1>4, <1>6, NextRefusing DEF Refusals
<1>7. CASE result \notin Refusals /\ result # "raise"
  BY <1>1, <1>2, <1>3, <1>4, <1>7, Parsing DEF Refusals
<1>. QED
  BY <1>5, <1>6, <1>7

LEMMA StripsImage ==
  ASSUME Good(req), NEW result \in Results, StripImage(result)
  PROVE  Good(req')
<1> DEFINE less == [req EXCEPT !.strips = @ + 1, !.messages = StripLastImage(@)]
           again == TRUE  t == Call(less, result, again)
<1>0. again \in BOOLEAN
  OBVIOUS
<1>00. again
  OBVIOUS
<1> HIDE DEF again
<1>1. Base(req) /\ Refusing(req) /\ ~Streams /\ req.refusal.status \in Refusals
  BY DEF Good, StripImage, Calling, Streaming, Refusing, Looping, Replied
<1>2. /\ Base(less) /\ less.phase = req.phase /\ less.pos = req.pos /\ less.level = req.level
      /\ less.refusal = req.refusal /\ less.calls = req.calls
  BY <1>1
<1>3. req' = IF result \in Refusals THEN t
             ELSE IF result = "raise" THEN GiveUpTarget(t) ELSE Parsed(t, result)
  BY DEF StripImage, Step, again
<1> HIDE DEF less
<1>4. /\ Walked(less, less.pos) /\ Len(less.calls) > 0
      /\ Clear(less) \/ (OnlyHere(less) /\ less.refusal.status = "400")
  <2>1. OnlyHere(req) => OnlyHere(less)
    BY <1>2 DEF OnlyHere
  <2>. QED
    BY <1>1, <1>2, <2>1, MovingOn DEF Refusing
<1>5. /\ Base(t) /\ t.phase = req.phase /\ t.pos = req.pos /\ t.level = req.level
      /\ t.refusal = req.refusal /\ Walked(t, t.pos) /\ Len(t.calls) > 0
      /\ LastCall(t).result = result /\ LastCall(t).target = Attempts[t.pos].target
  BY <1>0, <1>1, <1>2, <1>4, Posted
<1>6. Clear(t) \/ (OnlyHere(t) /\ t.refusal.status = "400")
  <2>1. CASE Clear(less)
    BY <1>0, <1>2, <1>4, <2>1, ClearCall
  <2>2. CASE OnlyHere(less) /\ less.refusal.status = "400"
    <3>1. /\ Len(less.calls) \in Nat /\ Len(t.calls) = Len(less.calls) + 1
          /\ DOMAIN less.calls = 1 .. Len(less.calls) /\ DOMAIN t.calls = 1 .. Len(t.calls)
          /\ \A i \in 1 .. Len(less.calls) : t.calls[i] = less.calls[i]
      BY SMTT(30), <1>0, <1>2, OneCall
    <3>2. \A i \in DOMAIN t.calls : t.calls[i].target = Attempts[t.pos].target
      BY <1>2, <1>5, <2>2, <3>1 DEF OnlyHere, LastCall
    <3>. QED
      BY <1>2, <1>5, <2>2, <3>2 DEF OnlyHere
  <2>. QED
    BY <1>4, <2>1, <2>2
<1>7. CASE result \in Refusals
  <2>1. Refusing(t)
    BY <1>1, <1>5, <1>6 DEF Refusing
  <2>. QED
    BY <1>1, <1>3, <1>5, <1>7, <2>1 DEF Good, Unsettled
<1>8. CASE result = "raise"
  BY <1>1, <1>3, <1>5, <1>6, <1>8, GivingUp DEF Refusals
<1>9. CASE result \notin Refusals /\ result # "raise"
  <2>1. result \in {"ok", "garbled"}
    BY <1>9 DEF StripImage, Results, Refusals
  <2>2. Clear(t)
    BY <1>0, <1>00, <1>2, <2>1, StrippedCall
  <2>. QED
    BY <1>1, <1>3, <1>5, <1>9, <2>2, Parsing
<1>. QED
  BY <1>7, <1>8, <1>9

LEMMA StripsNothing == ASSUME Good(req), StripNothing PROVE Good(req')
<1>1. Base(req) /\ Refusing(req) /\ req' = GiveUpTarget(req)
  BY DEF Good, StripNothing, Step, Calling, Streaming, Refusing, Looping, Replied
<1>. QED
  BY <1>1, GivingUp DEF Refusing

-----------------------------------------------------------------------------
(* The theorems.                                                           *)

LEMMA FcInitGood == FcInit => Good(req)
<1> SUFFICES ASSUME FcInit PROVE Good(req)
  OBVIOUS
<1>1. /\ DOMAIN req = Fields /\ req.phase = "calling" /\ req.level = 0 /\ req.pos = 1
      /\ req.calls = <<>>
  BY DEF FcInit
<1>2. req.calls \in Seq({})
  BY <1>1
<1>3. Base(req)
  BY <1>1, <1>2, Places
<1>. QED
  BY <1>1, <1>3 DEF Good, Calling, Clear, Walked, Unsettled

LEMMA FcStep == Good(req) /\ [FcNext]_fcVars => Good(req)'
<1> SUFFICES ASSUME Good(req), [FcNext]_fcVars PROVE Good(req)'
  OBVIOUS
<1>1. UNCHANGED config
  BY DEF FcNext, StreamCall, StreamCompletes, StreamBreaks, FirstPost, StripImage, StripNothing,
         NextPost, Step, fcVars
<1>2. Good(req')
  <2>1. CASE UNCHANGED fcVars
    BY <2>1 DEF fcVars
  <2>2. CASE StreamCompletes \/ StreamBreaks
    BY <2>2, StreamStops DEF StreamCompletes, StreamBreaks, Step
  <2>. QED
    BY <2>1, <2>2, StreamCalls, FirstPosts, StripsImage, NextPosts, StripsNothing DEF FcNext
<1>3. Attempts' = Attempts /\ Final' = Final /\ Streams' = Streams
  BY <1>1 DEF Attempts, FirstAttempt, Final, Streams
<1>4. /\ Base(req)' <=> Base(req')
      /\ Unsettled(req, Len(req.calls) - 1)' <=> Unsettled(req', Len(req'.calls) - 1)
  BY <1>3 DEF Base, Unsettled
<1>5. /\ Calling(req)' <=> Calling(req')
      /\ Looping(req)' <=> Looping(req')
  BY <1>3 DEF Calling, Looping, Unsettled, Clear, Stripped, Walked
<1>6. Streaming(req)' <=> Streaming(req')
  BY <1>3 DEF Streaming, Clear, Stripped, LastCall
<1>7. /\ Refusing(req)' <=> Refusing(req')
      /\ Replied(req)' <=> Replied(req')
  BY <1>3 DEF Refusing, Replied, Clear, Stripped, Walked, OnlyHere, LastCall
<1>. QED
  BY <1>2, <1>4, <1>5, <1>6, <1>7 DEF Good

LEMMA GoodReplies == Good(req) => ReplyFollowsCalls
<1> SUFFICES ASSUME Good(req) PROVE ReplyFollowsCalls
  OBVIOUS
<1>0. /\ Len(req.calls) \in Nat /\ DOMAIN req.calls = 1 .. Len(req.calls)
  BY DEF Good
<1>1. CommittedIsFinal
  BY DEF Good, Unsettled, CommittedIsFinal, Count, Streams
<1>2. SuccessIsLatest
  BY DEF Good, Calling, Streaming, Refusing, Looping, Replied, SuccessIsLatest, Answered, Count,
         LastCall
<1>3. FailsOnlyWhenExhausted
  BY DEF Good, Calling, Streaming, Refusing, Looping, Replied, Walked, FailsOnlyWhenExhausted,
         Answered, Chained, Called
<1>4. BadRequestIsTerminal
  <2>1. Streams => \A i \in 1 .. Count - 1 : req.calls[i].result # "400"
    BY DEF Good, Unsettled, Count
  <2>2. ASSUME Count > 0, ~StrippedWell, req.calls[1].result = "400"
        PROVE  Called = {req.calls[1].target} /\ (Answered => req.reply.status = "400")
    <3>1. ~Clear(req)
      BY <2>2 DEF Clear, Stripped, StrippedWell, Count
    <3>2. OnlyHere(req) /\ (Answered => req.reply.status = "400")
      BY <3>1 DEF Good, Calling, Streaming, Refusing, Looping, Replied, Answered
    <3>3. 1 \in DOMAIN req.calls
      BY <1>0, <2>2 DEF Count
    <3>. QED
      BY <3>2, <3>3 DEF OnlyHere, Called
  <2>. QED
    BY <2>1, <2>2 DEF BadRequestIsTerminal, Streams
<1>. QED
  BY <1>1, <1>2, <1>3, <1>4 DEF ReplyFollowsCalls

\* Wherever a request is in the two loops, the targets before it have been
\* called and its calls allow it to go on.
THEOREM ChainInvariant == FcSpec => []Good(req)
BY FcInitGood, FcStep, PTL DEF FcSpec

\* The client is told of a failure only when every target has been called, of
\* a success only when the last call was one; a 400 of the primary and the
\* first content of a stream are final (upstream_stream,
\* process_non_streaming_request).
THEOREM RepliesFollowCalls == FcSpec => []ReplyFollowsCalls
BY ChainInvariant, GoodReplies, PTL

-----------------------------------------------------------------------------
HIDE DEF Base, Fields

(* The chain.                                                              *)

\* Targets, the primary before all others, and none of them twice.
Chain(c) == /\ c \in Seq(Targets) /\ Len(c) >= 1 /\ c[1] = Primary
            /\ \A i, j \in 1 .. Len(c) : c[i] = c[j] => i = j

LEMMA OneMore ==
  ASSUME NEW c, Chain(c), NEW o \in Targets \cup {Unusable}
  PROVE  Chain(Add(c, o))
<1>1. CASE Add(c, o) = c
  BY <1>1
<1>2. CASE Add(c, o) # c
  <2> DEFINE d == Append(c, o)
  <2>1. Add(c, o) = d /\ o \in Targets /\ \A i \in 1 .. Len(c) : c[i] # o
    BY <1>2, Zenon DEF Add, Contains
  <2>2. /\ d \in Seq(Targets) /\ Len(d) = Len(c) + 1 /\ Len(c) \in Nat /\ d[Len(c) + 1] = o
        /\ \A i \in 1 .. Len(c) : d[i] = c[i]
    BY <2>1 DEF Chain
  <2> HIDE DEF d
  <2>3. \A i, j \in 1 .. Len(d) : d[i] = d[j] => i = j
    <3> TAKE i, j \in 1 .. Len(d)
    <3>1. i \in 1 .. Len(c) \/ i = Len(c) + 1
      BY <2>2
    <3>2. j \in 1 .. Len(c) \/ j = Len(c) + 1
      BY <2>2
    <3>. QED
      BY <2>1, <2>2, <3>1, <3>2 DEF Chain
  <2>. QED
    BY <2>1, <2>2, <2>3 DEF Chain
<1>. QED
  BY <1>1, <1>2

\* The recursion of Resolve: what f says of the first k entries.
Value(options, f, k) == IF k = 0 THEN <<Primary>> ELSE Add(f[k - 1], options[k])
Rule(options, n, f) == [k \in 0 .. n |-> Value(options, f, k)]

LEMMA RuleValues ==
  ASSUME NEW options, NEW n \in Nat, NEW f, f = Rule(options, n, f)
  PROVE  \A k \in 0 .. n : f[k] = Value(options, f, k)
BY DEF Rule

\* A set of naturals that is not empty has a least element.
LEMMA LeastNumber ==
  ASSUME NEW T \in SUBSET Nat, T # {}
  PROVE  \E x \in T : \A y \in T : x <= y
<1>1. PICK x \in T : \A y \in T : ~(<<y, x>> \in OpToRel(<, Nat))
  BY WFMin, NatLessThanWellFounded, ZenonT(60)
<1>2. \A y \in T : ~(y < x)
  BY <1>1, Zenon DEF OpToRel
<1>. QED
  BY <1>2

LEMMA RuleHasASolution ==
  ASSUME NEW options, NEW N \in Nat
  PROVE  \E f : f = Rule(options, N, f)
<1> DEFINE T == {n \in Nat : ~\E f : f = Rule(options, n, f)}
<1> SUFFICES ASSUME T # {} PROVE FALSE
  OBVIOUS
<1>1. PICK n \in T : \A y \in T : n <= y
  <2> HIDE DEF T
  <2>1. T \in SUBSET Nat
    BY DEF T
  <2>. QED
    BY <2>1, LeastNumber
<1>2. CASE n = 0
  <2> DEFINE g == [k \in 0 .. 0 |-> <<Primary>>]
  <2>1. g = Rule(options, 0, g)
    BY DEF Rule, Value
  <2>. QED
    BY <1>1, <1>2, <2>1
<1>3. CASE n # 0
  <2>1. n - 1 \in Nat /\ n - 1 \notin T
    BY <1>1, <1>3
  <2>2. PICK f : f = Rule(options, n - 1, f)
    BY <2>1
  <2> DEFINE last == Add(f[n - 1], options[n])
             g == [k \in 0 .. n |-> IF k = n THEN last ELSE f[k]]
  <2>3. \A k \in 0 .. n - 1 : f[k] = Value(options, f, k)
    BY <2>1, <2>2, RuleValues
  <2>4. \A k \in 0 .. n : g[k] = Value(options, g, k)
    <3> TAKE k \in 0 .. n
    <3>1. CASE k = 0
      BY <3>1, <1>3, <2>3 DEF Value
    <3>2. CASE k = n
      BY <3>2, <1>3, <2>1 DEF Value
    <3>3. CASE k # 0 /\ k # n
      <4>1. k \in 0 .. n - 1 /\ k - 1 \in 0 .. n - 1 /\ k - 1 # n
        BY <3>3, <1>1
      <4>2. g[k] = f[k] /\ g[k - 1] = f[k - 1]
        BY <4>1, <3>3
      <4>. QED
        BY <4>1, <4>2, <2>3 DEF Value
    <3>. QED
      BY <3>1, <3>2, <3>3
  <2>5. g = Rule(options, n, g)
    <3> HIDE DEF last
    <3>1. DOMAIN g = 0 .. n /\ g = [k \in 0 .. n |-> g[k]]
      OBVIOUS
    <3>. QED
      BY <2>4, <3>1 DEF Rule
  <2>. QED
    BY <1>1, <2>5
<1>. QED
  BY <1>2, <1>3

LEMMA Resolves ==
  ASSUME NEW options \in Seq(Targets \cup {Unusable})
  PROVE  Chain(Resolve(options))
<1> DEFINE n == Len(options)
           f == CHOOSE f : f = Rule(options, n, f)
<1>1. f = Rule(options, n, f)
  BY RuleHasASolution
<1>2. Resolve(options) = f[n]
  BY DEF Resolve, Rule, Value
<1> HIDE DEF f
<1>3. \A k \in 0 .. n : f[k] = Value(options, f, k)
  BY <1>1, RuleValues
<1> DEFINE T == {k \in Nat : k <= n /\ ~Chain(f[k])}
<1>4. ASSUME T # {} PROVE FALSE
  <2>1. PICK k \in T : \A y \in T : k <= y
    <3> HIDE DEF T
    <3>1. T \in SUBSET Nat
      BY DEF T
    <3>. QED
      BY <1>4, <3>1, LeastNumber
  <2>2. f[k] = Value(options, f, k)
    BY <1>3, <2>1
  <2>3. CASE k = 0
    <3>1. f[k] = <<Primary>> /\ Primary \in Targets
      BY <2>2, <2>3 DEF Value, Targets
    <3>2. Chain(<<Primary>>)
      BY <3>1 DEF Chain
    <3>. QED
      BY <2>1, <3>1, <3>2
  <2>4. CASE k # 0
    <3>1. k - 1 \in Nat /\ k - 1 <= n /\ k - 1 \notin T /\ k \in 1 .. n
      BY <2>1, <2>4
    <3>2. Chain(f[k - 1]) /\ options[k] \in Targets \cup {Unusable}
      BY <3>1
    <3>3. Chain(Add(f[k - 1], options[k]))
      BY <3>2, OneMore
    <3>. QED
      BY <2>1, <2>2, <2>4, <3>3 DEF Value
  <2>. QED
    BY <2>3, <2>4
<1>. QED
  BY <1>2, <1>4

\* What a request meets.
Sound == /\ Chain(config.chain) /\ (config.open => Len(config.chain) > 1)
         /\ config.open \in BOOLEAN
         /\ config.messages \in Messages /\ config.validator \in [Targets -> Settings]

LEMMA PlacesOfTargets ==
  ASSUME Sound
  PROVE  /\ \A k \in 1 .. Final : Attempts[k].target \in Targets
         /\ ~config.open => \A k, m \in 1 .. Final :
                              Attempts[k].target = Attempts[m].target => k = m
<1> DEFINE c == config.chain  n == Len(c) - 1
           at == [k \in 1 .. n |-> Own(c[k + 1])]
           rest == IF config.passthrough THEN <<>> ELSE at
           S == [target : Targets, transport : Targets]
<1>1. /\ c \in Seq(Targets) /\ n \in Nat /\ c[1] = Primary /\ Primary \in Targets
      /\ \A i, j \in 1 .. n + 1 : c[i] = c[j] => i = j
  BY DEF Sound, Chain, Targets
<1>2. \A k \in 1 .. n : c[k + 1] \in Targets
  BY <1>1
<1>3. /\ FirstAttempt \in S
      /\ ~config.open => FirstAttempt.target = c[1]
  <2>1. config.open => c[2] \in Targets
    BY <1>1 DEF Sound
  <2>. QED
    BY <1>1, <2>1 DEF FirstAttempt, Own
<1>4. \A k \in 1 .. n : Own(c[k + 1]) \in S /\ Own(c[k + 1]).target = c[k + 1]
  BY <1>2 DEF Own
<1> HIDE DEF c, S
<1>5. /\ rest \in Seq(S) /\ Len(rest) \in Nat /\ Len(rest) <= n
      /\ \A k \in 1 .. Len(rest) : rest[k].target = c[k + 1]
  BY <1>1, <1>4
<1>6. Attempts = <<FirstAttempt>> \o rest
  BY DEF Attempts, c
<1> HIDE DEF rest, at, n
<1>7. /\ Final = 1 + Len(rest) /\ Attempts[1] = FirstAttempt
      /\ \A k \in 1 .. Final : k = 1 \/ (k - 1 \in 1 .. Len(rest) /\ Attempts[k] = rest[k - 1])
  <2>1. <<FirstAttempt>> \in Seq(S) /\ Len(<<FirstAttempt>>) = 1 /\ <<FirstAttempt>>[1] = FirstAttempt
    BY <1>3
  <2>2. Len(Attempts) = 1 + Len(rest) /\ Attempts[1] = FirstAttempt
    BY <1>5, <1>6, <2>1, ConcatProperties
  <2>3. ASSUME NEW k \in 2 .. Len(Attempts) PROVE Attempts[k] = rest[k - 1]
    BY <1>5, <1>6, <2>1, <2>2, ConcatProperties
  <2>. QED
    BY <1>5, <2>2, <2>3 DEF Final
<1>8. ASSUME NEW k \in 1 .. Final
      PROVE  /\ Attempts[k].target \in Targets
             /\ ~config.open => k \in 1 .. n + 1 /\ Attempts[k].target = c[k]
  <2>1. CASE k = 1
    BY <1>1, <1>3, <1>7, <2>1 DEF S
  <2>2. CASE k # 1
    <3>1. k - 1 \in 1 .. Len(rest) /\ Attempts[k] = rest[k - 1] /\ (k - 1) + 1 = k
      BY <1>7, <2>2
    <3>2. Attempts[k].target = c[k] /\ k - 1 \in 1 .. n
      BY <1>1, <1>5, <3>1
    <3>. QED
      BY <1>1, <1>2, <3>1, <3>2
  <2>. QED
    BY <2>1, <2>2
<1>. QED
  BY <1>1, <1>8

LEMMA FcInitSound == FcInit => Sound
<1> SUFFICES ASSUME FcInit PROVE Sound
  OBVIOUS
<1> DEFINE Options == BoundedSeq(Targets \cup {Unusable}, MaxOptions)
           Configs == [kind : {"stream", "post"}, open : BOOLEAN, passthrough : BOOLEAN,
                       chain : {Resolve(o) : o \in Options},
                       messages : Payloads, validator : Validators]
<1>1. config \in Configs /\ (config.open => Len(config.chain) > 1)
  BY DEF FcInit
<1> HIDE DEF Options
<1>2. /\ config.open \in BOOLEAN /\ config.chain \in {Resolve(o) : o \in Options}
      /\ config.messages \in Payloads /\ config.validator \in Validators
  BY <1>1
<1>3. PICK o \in Options : config.chain = Resolve(o)
  BY <1>2
<1>4. o \in Seq(Targets \cup {Unusable})
  BY <1>3 DEF Options, BoundedSeq, SeqOf
<1>5. Chain(config.chain)
  BY <1>3, <1>4, Resolves
<1>6. config.messages \in Messages
  BY <1>2, ChainAssumption
<1>7. config.validator \in [Targets -> Settings]
  BY <1>2, ChainAssumption DEF Targets
<1>. QED
  BY <1>1, <1>2, <1>5, <1>6, <1>7 DEF Sound

-----------------------------------------------------------------------------
(* The order of the calls.                                                 *)

\* Neither of the two cases that break the order.
Plain(s) == ~config.open /\ \A i \in DOMAIN s.calls : s.calls[i].result # "garbled"

At(s, i, k) == s.calls[i].target = Attempts[k].target
Later(s, i, j) ==
  /\ \E k, m \in 1 .. Final : At(s, i, k) /\ At(s, j, m) /\ (k < m \/ (k = m /\ s.calls[j].again))
  /\ s.calls[i].target = s.calls[j].target => s.calls[j].again

\* All calls went to one of the first k targets, and they are in order.
Ordered(s, k) == Plain(s) =>
  /\ \A i \in DOMAIN s.calls : \E m \in 1 .. k : At(s, i, m)
  /\ \A i, j \in DOMAIN s.calls : i < j => Later(s, i, j)

\* While a call is to be made only the targets before its own have been called.
Reach(s) == IF s.phase \in {"calling", "looping"} THEN s.pos - 1 ELSE s.pos

LEMMA OrderedCall ==
  ASSUME Sound, NEW s, Base(s), NEW result, NEW again \in BOOLEAN,
         Ordered(s, s.pos - 1) \/ (again /\ Ordered(s, s.pos))
  PROVE  Ordered(Call(s, result, again), s.pos)
<1> DEFINE t == Call(s, result, again)  n == Len(s.calls)
<1>1. /\ n \in Nat /\ Len(t.calls) = n + 1
      /\ DOMAIN s.calls = 1 .. n /\ DOMAIN t.calls = 1 .. n + 1
      /\ \A i \in 1 .. n : t.calls[i] = s.calls[i]
      /\ LastCall(t).target = Attempts[s.pos].target /\ LastCall(t).again = again
  BY OneCall
<1>2. t.calls[n + 1].target = Attempts[s.pos].target /\ t.calls[n + 1].again = again
  BY <1>1 DEF LastCall
<1>3. s.pos \in 1 .. Final /\ s.pos \in Nat /\ Final \in Nat
  BY Places DEF Base
<1> HIDE DEF t, n
<1> SUFFICES ASSUME Plain(t)
             PROVE  /\ \A i \in 1 .. n + 1 : \E m \in 1 .. s.pos : At(t, i, m)
                    /\ \A i, j \in 1 .. n + 1 : i < j => Later(t, i, j)
  BY <1>1 DEF Ordered, t
<1>4. Plain(s)
  BY <1>1 DEF Plain
<1>5. \A i, j \in 1 .. n : i < j => Later(s, i, j)
  BY <1>1, <1>4 DEF Ordered
<1>6. \A i \in 1 .. n : \E m \in 1 .. s.pos : At(s, i, m) /\ (m < s.pos \/ again)
  <2>1. CASE Ordered(s, s.pos - 1)
    <3>1. \A i \in 1 .. n : \E m \in 1 .. s.pos - 1 : At(s, i, m)
      BY <1>1, <1>4, <2>1 DEF Ordered
    <3>2. \A m \in 1 .. s.pos - 1 : m \in 1 .. s.pos /\ m < s.pos
      BY <1>3
    <3>. QED
      BY <3>1, <3>2
  <2>2. CASE again /\ Ordered(s, s.pos)
    BY <1>1, <1>4, <2>2 DEF Ordered
  <2>. QED
    BY <2>1, <2>2
<1>7. \A i \in 1 .. n + 1 : \E m \in 1 .. s.pos : At(t, i, m)
  <2> TAKE i \in 1 .. n + 1
  <2>1. CASE i \in 1 .. n
    BY <1>1, <1>6, <2>1 DEF At
  <2>2. CASE i = n + 1
    BY <1>2, <1>3, <2>2 DEF At
  <2>. QED
    BY <1>1, <2>1, <2>2
<1>8. ASSUME NEW i \in 1 .. n PROVE Later(t, i, n + 1)
  <2>1. PICK m \in 1 .. s.pos : At(s, i, m) /\ (m < s.pos \/ again)
    BY <1>6
  <2>2. m \in 1 .. Final /\ At(t, i, m) /\ At(t, n + 1, s.pos)
    BY <1>1, <1>2, <1>3, <2>1 DEF At
  <2>3. m < s.pos \/ (m = s.pos /\ t.calls[n + 1].again)
    BY <1>2, <1>3, <2>1
  <2>4. t.calls[i].target = t.calls[n + 1].target => t.calls[n + 1].again
    <3>1. ~config.open
      BY DEF Plain
    <3>2. Attempts[m].target = Attempts[s.pos].target => m = s.pos
      BY <1>3, <2>2, <3>1, PlacesOfTargets
    <3>. QED
      BY <1>2, <2>2, <2>3, <3>2 DEF At
  <2>. QED
    BY <1>3, <2>2, <2>3, <2>4 DEF Later
<1>9. \A i, j \in 1 .. n + 1 : i < j => Later(t, i, j)
  <2> TAKE i, j \in 1 .. n + 1
  <2>1. CASE j \in 1 .. n /\ i < j
    <3>1. i \in 1 .. n /\ Later(s, i, j)
      BY <1>1, <1>5, <2>1
    <3>. QED
      BY <1>1, <2>1, <3>1 DEF Later, At
  <2>2. CASE j = n + 1 /\ i < j
    BY <1>1, <1>8, <2>2
  <2>. QED
    BY <1>1, <2>1, <2>2
<1>. QED
  BY <1>7, <1>9

-----------------------------------------------------------------------------
(* What the loops do after a call, to the messages and the place.          *)

Onward(t, u) ==
  /\ u.calls = t.calls
  /\ u.messages = t.messages
       \/ \E p \in Targets : u.messages = Filtered(t.messages, config.validator[p])
  /\ u.phase = "refused" => u.messages = t.messages
  /\ Plain(t) => t.pos <= Reach(u) /\ Reach(u) \in Int

LEMMA OrderedOnward ==
  ASSUME NEW t, NEW u, t.pos \in Int, Ordered(t, t.pos), Onward(t, u)
  PROVE  Ordered(u, Reach(u))
<1> SUFFICES ASSUME Plain(u) PROVE Ordered(u, Reach(u))
  BY DEF Ordered
<1>1. /\ Plain(t) /\ u.calls = t.calls /\ t.pos <= Reach(u) /\ Reach(u) \in Int
  BY DEF Onward, Plain
<1>2. \A i \in DOMAIN u.calls : \E m \in 1 .. Reach(u) : At(u, i, m)
  <2> TAKE i \in DOMAIN u.calls
  <2>1. PICK m \in 1 .. t.pos : At(t, i, m)
    BY <1>1 DEF Ordered
  <2>. QED
    BY <1>1, <2>1 DEF At
<1>3. \A i, j \in DOMAIN u.calls : i < j => Later(u, i, j)
  BY <1>1 DEF Ordered, Later, At
<1>. QED
  BY <1>2, <1>3 DEF Ordered

LEMMA ReplyOnward ==
  ASSUME NEW t, Base(t), NEW status, NEW from
  PROVE  Onward(t, Reply(t, status, from)) /\ Onward(t, ReplyHere(t, status))
<1>1. t.pos \in Int
  BY Places DEF Base
<1>. QED
  BY <1>1 DEF Onward, Reply, ReplyHere, Reach, Base, Fields

LEMMA NextStreamOnward ==
  ASSUME NEW t, Base(t), t.phase = "calling", NEW result
  PROVE  Onward(t, NextStream(t, result))
<1>1. t.pos \in Int
  BY Places DEF Base
<1>2. CASE t.pos < Final
  BY <1>1, <1>2 DEF NextStream, Onward, Reach, Base, Fields
<1>3. CASE ~(t.pos < Final)
  BY <1>3, ReplyOnward DEF NextStream
<1>. QED
  BY <1>2, <1>3

LEMMA NextRefusedOnward ==
  ASSUME NEW t, Base(t)
  PROVE  Onward(t, NextRefused(t)) /\ Onward(t, GiveUpTarget(t))
<1>1. t.pos \in Int
  BY Places DEF Base
<1>2. Onward(t, NextRefused(t))
  <2>1. CASE t.pos < Final
    BY <1>1, <2>1 DEF NextRefused, Onward, Reach, Base, Fields
  <2>2. CASE ~(t.pos < Final)
    BY <2>2, ReplyOnward DEF NextRefused
  <2>. QED
    BY <2>1, <2>2
<1>. QED
  BY <1>2, ReplyOnward DEF GiveUpTarget

LEMMA RetryOnward ==
  ASSUME Sound, NEW t, Base(t), t.pos = t.level + 1 \/ ~Plain(t), NEW status
  PROVE  Onward(t, RetryRest(t, status))
<1>1. t.pos \in Int /\ t.level \in Nat /\ Final \in Nat
  BY Places DEF Base
<1>2. CASE t.level + 1 < Final
  <2> DEFINE u == RetryRest(t, status)  p == Attempts[t.level + 2].target
  <2>1. p \in Targets
    <3>1. t.level + 2 \in 1 .. Final
      BY <1>1, <1>2
    <3>. QED
      BY <3>1, PlacesOfTargets
  <2>2. /\ u.calls = t.calls /\ u.phase = "calling" /\ u.pos = t.level + 2
        /\ u.messages = Filtered(t.messages, config.validator[p])
    BY <1>2 DEF RetryRest, Base, Fields
  <2> HIDE DEF p, u
  <2>. QED
    BY <1>1, <2>1, <2>2 DEF Onward, Reach, u
<1>3. CASE ~(t.level + 1 < Final)
  BY <1>3, ReplyOnward DEF RetryRest
<1>. QED
  BY <1>2, <1>3

LEMMA ParsedOnward ==
  ASSUME Sound, NEW t, Base(t), NEW result,
         result = "ok" \/ t.pos = t.level + 1 \/ ~Plain(t)
  PROVE  Onward(t, Parsed(t, result))
BY ReplyOnward, RetryOnward DEF Parsed

-----------------------------------------------------------------------------
(* The images.                                                             *)
Images == Seq(Pictures)

\* A part of a sequence from one place to another.
LEMMA Part ==
  ASSUME NEW S, NEW y \in Seq(S), NEW a \in 0 .. Len(y), NEW b \in 0 .. Len(y), a <= b,
         NEW x, x = SubSeq(y, a + 1, b)
  PROVE  /\ x \in Seq(S) /\ Len(x) \in Nat /\ Len(x) = b - a /\ Len(x) <= Len(y)
         /\ \A i \in 1 .. b - a : x[i] = y[a + i]
<1>1. \A i \in a + 1 .. b : y[i] \in S
  OBVIOUS
<1>2. /\ SubSeq(y, a + 1, b) \in Seq(S)
      /\ Len(SubSeq(y, a + 1, b)) = IF a + 1 <= b THEN b - (a + 1) + 1 ELSE 0
      /\ \A i \in 1 .. b - (a + 1) + 1 : SubSeq(y, a + 1, b)[i] = y[(a + 1) + i - 1]
  BY <1>1, SubSeqProperties
<1>. QED
  BY <1>2

LEMMA ConsecutiveParts ==
  ASSUME NEW S, NEW y \in Seq(S), NEW x, Consecutive(x, y)
  PROVE  /\ x \in Seq(S) /\ Len(x) \in Nat /\ Len(x) <= Len(y)
         /\ \E a, b \in 0 .. Len(y) : a <= b /\ x = SubSeq(y, a + 1, b)
<1>1. PICK a, b \in 0 .. Len(y) : x = SubSeq(y, a + 1, b)
  BY DEF Consecutive
<1>2. CASE a <= b
  BY <1>1, <1>2, Part
<1>3. CASE ~(a <= b)
  <2>1. SubSeq(y, a + 1, b) = <<>> /\ SubSeq(y, 0 + 1, 0) = <<>>
    BY <1>3, SubSeqEmpty
  <2>2. x = SubSeq(y, 0 + 1, 0) /\ 0 \in 0 .. Len(y)
    BY <1>1, <2>1
  <2>3. x \in Seq(S) /\ Len(x) \in Nat /\ Len(x) <= Len(y)
    BY <1>1, <2>1
  <2>. QED
    BY <2>2, <2>3
<1>. QED
  BY <1>2, <1>3

LEMMA PartOfPart ==
  ASSUME NEW S, NEW z \in Seq(S), NEW a \in 0 .. Len(z), NEW b \in 0 .. Len(z), a <= b,
         NEW y, y = SubSeq(z, a + 1, b),
         NEW c \in 0 .. Len(y), NEW d \in 0 .. Len(y), c <= d,
         NEW x, x = SubSeq(y, c + 1, d)
  PROVE  x = SubSeq(z, (a + c) + 1, a + d) /\ a + c \in 0 .. Len(z) /\ a + d \in 0 .. Len(z)
<1> DEFINE w == SubSeq(z, (a + c) + 1, a + d)
<1>1. y \in Seq(S) /\ Len(y) = b - a /\ \A i \in 1 .. b - a : y[i] = z[a + i]
  BY Part
<1>2. x \in Seq(S) /\ Len(x) = d - c /\ \A i \in 1 .. d - c : x[i] = y[c + i]
  BY <1>1, Part
<1>3. /\ a + c \in 0 .. Len(z) /\ a + d \in 0 .. Len(z) /\ a + c <= a + d
      /\ (a + d) - (a + c) = d - c
  <2>1. /\ a \in Nat /\ b \in Nat /\ c \in Nat /\ d \in Nat /\ Len(z) \in Nat
        /\ b <= Len(z) /\ d <= b - a /\ c <= d
    BY <1>1
  <2>. QED
    BY ONLY <2>1
<1>4. w \in Seq(S) /\ Len(w) = d - c /\ \A i \in 1 .. d - c : w[i] = z[(a + c) + i]
  <2> HIDE DEF w
  <2>0. w = SubSeq(z, (a + c) + 1, a + d)
    BY DEF w
  <2> DEFINE e == a + c  f == a + d
  <2>1. e \in 0 .. Len(z) /\ f \in 0 .. Len(z) /\ e <= f /\ f - e = d - c /\ w = SubSeq(z, e + 1, f)
    BY <1>3, <2>0
  <2> HIDE DEF e, f
  <2>2. w \in Seq(S) /\ Len(w) = f - e /\ \A i \in 1 .. f - e : w[i] = z[e + i]
    BY <2>1, Part
  <2>. QED
    BY <2>1, <2>2 DEF e
<1> HIDE DEF w
<1>5. \A i \in 1 .. d - c : x[i] = w[i]
  <2> TAKE i \in 1 .. d - c
  <2>1. c + i \in 1 .. b - a /\ a + (c + i) = (a + c) + i
    BY <1>1
  <2>. QED
    BY <1>1, <1>2, <1>4, <2>1
<1>6. x = w
  BY <1>2, <1>4, <1>5
<1>. QED
  BY <1>3, <1>6 DEF w

LEMMA ConsecutiveTransitive ==
  ASSUME NEW S, NEW z \in Seq(S), NEW y, NEW x, Consecutive(y, z), Consecutive(x, y)
  PROVE  Consecutive(x, z)
<1>1. PICK a, b \in 0 .. Len(z) : a <= b /\ y = SubSeq(z, a + 1, b)
  BY ConsecutiveParts
<1>2. y \in Seq(S)
  BY ConsecutiveParts
<1>3. PICK c, d \in 0 .. Len(y) : c <= d /\ x = SubSeq(y, c + 1, d)
  BY <1>2, ConsecutiveParts
<1>4. x = SubSeq(z, (a + c) + 1, a + d) /\ a + c \in 0 .. Len(z) /\ a + d \in 0 .. Len(z)
  BY <1>1, <1>3, PartOfPart
<1>. QED
  BY <1>4 DEF Consecutive

LEMMA NewestTransitive ==
  ASSUME NEW S, NEW z \in Seq(S), NEW y, NEW x, Newest(y, z), Newest(x, y)
  PROVE  Newest(x, z)
<1>0. Len(z) \in 0 .. Len(z)
  OBVIOUS
<1>1. PICK a \in 0 .. Len(z) : y = SubSeq(z, a + 1, Len(z))
  BY DEF Newest
<1>2. y \in Seq(S) /\ Len(y) = Len(z) - a
  <2> DEFINE b == Len(z)
  <2>1. b \in 0 .. Len(z) /\ a <= b /\ y = SubSeq(z, a + 1, b)
    BY <1>1
  <2> HIDE DEF b
  <2>2. y \in Seq(S) /\ Len(y) = b - a
    BY <2>1, Part
  <2>. QED
    BY <2>2 DEF b
<1>3. PICK c \in 0 .. Len(y) : x = SubSeq(y, c + 1, Len(y))
  BY DEF Newest
<1>4. x = SubSeq(z, (a + c) + 1, a + Len(y)) /\ a + c \in 0 .. Len(z)
  <2> DEFINE b == Len(z)  d == Len(y)
  <2>1. /\ b \in 0 .. Len(z) /\ a <= b /\ y = SubSeq(z, a + 1, b)
        /\ d \in 0 .. Len(y) /\ c <= d /\ x = SubSeq(y, c + 1, d)
    BY <1>1, <1>2, <1>3
  <2> HIDE DEF b, d
  <2>2. x = SubSeq(z, (a + c) + 1, a + d) /\ a + c \in 0 .. Len(z)
    BY <2>1, PartOfPart
  <2>. QED
    BY <2>2 DEF d
<1>5. a + Len(y) = Len(z)
  BY <1>2
<1>. QED
  BY <1>4, <1>5 DEF Newest

LEMMA Whole ==
  ASSUME NEW S, NEW x \in Seq(S)
  PROVE  /\ x = SubSeq(x, 0 + 1, Len(x)) /\ 0 \in 0 .. Len(x) /\ Len(x) \in 0 .. Len(x)
         /\ Consecutive(x, x) /\ Newest(x, x)
<1>1. x = SubSeq(x, 0 + 1, Len(x)) /\ 0 \in 0 .. Len(x) /\ Len(x) \in 0 .. Len(x)
  BY SubSeqFull
<1>. QED
  BY <1>1 DEF Consecutive, Newest

\* A limit takes images from one end.
LEMMA LimitedImages ==
  ASSUME NEW x \in Images, NEW max \in Nat, NEW policy
  PROVE  LET y == Limited(x, max, policy) IN
         /\ y \in Images /\ Consecutive(y, x) /\ Len(y) <= max
         /\ policy = "strip_first" => Newest(y, x)
<1> USE DEF Images
<1> DEFINE y == Limited(x, max, policy)  excess == Len(x) - max
<1>1. CASE excess <= 0
  <2>1. y = x
    BY <1>1 DEF Limited
  <2>. QED
    BY <1>1, <2>1, Whole
<1>2. CASE ~(excess <= 0) /\ policy = "strip_first"
  <2> DEFINE n == Len(x)
  <2>1. /\ y = SubSeq(x, excess + 1, n) /\ excess \in 0 .. Len(x) /\ n \in 0 .. Len(x)
        /\ excess <= n /\ n - excess = max
    BY <1>2 DEF Limited
  <2>2. Newest(y, x) /\ Consecutive(y, x)
    BY <2>1 DEF Newest, Consecutive
  <2> HIDE DEF y, excess, n
  <2>3. y \in Seq(Pictures) /\ Len(y) = n - excess
    BY <2>1, Part
  <2>. QED
    BY <2>1, <2>2, <2>3 DEF y
<1>3. CASE ~(excess <= 0) /\ policy # "strip_first"
  <2>1. /\ y = SubSeq(x, 0 + 1, max) /\ 0 \in 0 .. Len(x) /\ max \in 0 .. Len(x)
        /\ 0 <= max
    BY <1>3 DEF Limited
  <2>2. Consecutive(y, x)
    BY <2>1 DEF Consecutive
  <2> HIDE DEF y
  <2>3. y \in Seq(Pictures) /\ Len(y) = max - 0
    BY <2>1, Part
  <2>. QED
    BY <1>3, <2>2, <2>3 DEF y
<1>. QED
  BY <1>1, <1>2, <1>3

\* What the validator of a route leaves of a request.
LEMMA FilteredTexts ==
  ASSUME NEW messages \in Messages, NEW s \in Settings
  PROVE  [m \in DOMAIN messages.texts |-> ValidMessage(messages, m, s)] \in Seq(Texts)
<1>1. messages.texts \in Seq(Texts)
  BY DEF Messages
<1>2. \A text \in Texts : StripMedia(text) \in Texts /\ StripMarkers(text, s) \in Texts
  BY DEF Texts, StripMedia, StripMarkers
<1>3. ASSUME NEW m \in DOMAIN messages.texts
      PROVE  ValidMessage(messages, m, s) \in Texts
  <2>1. messages.texts[m] \in Texts
    BY <1>1
  <2>. QED
    BY <1>2, <2>1 DEF ValidMessage, ValidList, ValidText
<1>4. DOMAIN messages.texts = 1 .. Len(messages.texts) /\ Len(messages.texts) \in Nat
  BY <1>1
<1> DEFINE e(m) == ValidMessage(messages, m, s)  n == Len(messages.texts)
<1>5. \A m \in 1 .. n : e(m) \in Texts
  BY <1>3, <1>4
<1>6. n \in Nat /\ DOMAIN messages.texts = 1 .. n
  BY <1>4
<1> HIDE DEF e, n
<1>7. [m \in 1 .. n |-> e(m)] \in Seq(Texts)
  BY <1>5, <1>6, IsASeq
<1>. QED
  BY <1>6, <1>7 DEF e

LEMMA FilteredMessages ==
  ASSUME NEW messages \in Messages, NEW s \in Settings
  PROVE  LET y == Filtered(messages, s).images IN
         /\ Filtered(messages, s) \in Messages
         /\ y \in Images /\ Consecutive(y, messages.images)
         /\ s.policy = "strip_first" => Newest(y, messages.images)
         /\ s.enabled /\ s.max > 0 => Len(y) <= s.max
         /\ s.enabled /\ s.all => y = <<>>
<1> DEFINE x == messages.images  y == Filtered(messages, s).images
           few == IF s.max > 0 THEN Limited(x, s.max, s.policy) ELSE x
<1>0. s.max \in Nat /\ s.all \in BOOLEAN /\ s.enabled \in BOOLEAN /\ 0 \in Nat
  BY DEF Settings
<1>x. x \in Images
  BY DEF Messages, Images
<1>1. CASE ~s.enabled
  <2>1. y = x /\ Filtered(messages, s) = messages
    BY <1>1 DEF Filtered
  <2>. QED
    BY <1>x, <1>1, <2>1, Whole DEF Images
<1>2. CASE s.enabled
  <2>1. y = IF s.all THEN Limited(few, 0, s.policy) ELSE few
    BY <1>2 DEF Filtered, WithinLimits
  <2>2. /\ few \in Images /\ Consecutive(few, x)
        /\ s.policy = "strip_first" => Newest(few, x)
        /\ s.max > 0 => Len(few) <= s.max
    BY <1>0, <1>x, LimitedImages, Whole DEF Images
  <2>3. Len(few) \in Nat /\ x \in Seq(Pictures)
    BY <1>x, <2>2 DEF Images
  <2>t. ASSUME y \in Images PROVE Filtered(messages, s) \in Messages
    <3> DEFINE texts == [m \in DOMAIN messages.texts |-> ValidMessage(messages, m, s)]
               images == WithinLimits(messages.images, s)
    <3>1. Filtered(messages, s) = [texts |-> texts, images |-> images]
      BY <1>2 DEF Filtered
    <3>2. texts \in Seq(Texts)
      BY FilteredTexts
    <3> HIDE DEF texts, images
    <3>3. images \in Seq(Pictures)
      BY <2>t, <3>1 DEF Images
    <3>. QED
      BY <3>1, <3>2, <3>3 DEF Messages
  <2> HIDE DEF y, few, x
  <2>4. CASE s.all
    <3>1. /\ y \in Images /\ Consecutive(y, few) /\ Len(y) <= 0
          /\ s.policy = "strip_first" => Newest(y, few)
      BY <1>0, <2>1, <2>2, <2>4, LimitedImages
    <3>2. Consecutive(y, x) /\ (s.policy = "strip_first" => Newest(y, x))
      BY <2>2, <2>3, <3>1, ConsecutiveTransitive, NewestTransitive
    <3>3. y = <<>> /\ Len(y) = 0
      BY <3>1 DEF Images
    <3>. QED
      BY <1>0, <2>t, <3>1, <3>2, <3>3 DEF x, y
  <2>5. CASE ~s.all
    BY <2>1, <2>2, <2>5, <2>t DEF x, y
  <2>. QED
    BY <2>4, <2>5
<1>. QED
  BY <1>0, <1>1, <1>2

\* The retry without the last image.
LEMMA FrontImages ==
  ASSUME NEW x \in Images, x # <<>>
  PROVE  Front(x) \in Images /\ Consecutive(Front(x), x)
<1> USE DEF Images
<1> DEFINE n == Len(x) - 1
<1>1. /\ Front(x) = SubSeq(x, 0 + 1, n) /\ n \in 0 .. Len(x) /\ 0 \in 0 .. Len(x) /\ 0 <= n
  BY DEF Front
<1>2. Consecutive(Front(x), x)
  BY <1>1 DEF Consecutive
<1>. QED
  BY <1>2, ConsecutiveParts

-----------------------------------------------------------------------------
(* The images of the calls.                                                *)
Of(s, i) == s.calls[i].messages.images

\* What ImagesOfCalls says of one call.
CallShows(s, i) ==
  /\ WithinPrimary(Of(s, i))
  /\ IF i = 1 THEN Consecutive(Of(s, i), config.messages.images)
     ELSE IF s.calls[i].again THEN Of(s, i) = Front(Of(s, i - 1))
     ELSE Consecutive(Of(s, i), Of(s, i - 1))
  /\ OldestGo /\ (\A j \in 1 .. i : ~s.calls[j].again) => Newest(Of(s, i), config.messages.images)

NoneAgain(s) == \A j \in 1 .. Len(s.calls) : ~s.calls[j].again

\* The messages the next call starts from, and those of the calls.
CallsShow(s) == \A i \in 1 .. Len(s.calls) : s.calls[i].messages \in Messages /\ CallShows(s, i)
Kept(s) ==
  /\ CallsShow(s)
  /\ s.messages \in Messages /\ WithinPrimary(s.messages.images)
  /\ Consecutive(s.messages.images, IF Len(s.calls) = 0 THEN config.messages.images
                                    ELSE Of(s, Len(s.calls)))
  /\ OldestGo /\ NoneAgain(s) => Newest(s.messages.images, config.messages.images)

\* Since the last call no image has gone.
Fresh(s) == Len(s.calls) > 0 /\ s.messages.images = Of(s, Len(s.calls))

Planned(s) == Ordered(s, Reach(s)) /\ Kept(s) /\ (s.phase = "refused" => Fresh(s))

LEMMA WithinLess ==
  ASSUME NEW y \in Images, WithinPrimary(y), NEW x, Consecutive(x, y), config.validator[Primary] \in Settings
  PROVE  WithinPrimary(x)
<1> DEFINE limit == config.validator[Primary]
<1>1. x \in Seq(Pictures) /\ Len(x) \in Nat /\ Len(x) <= Len(y) /\ Len(y) \in Nat
  BY ConsecutiveParts DEF Images
<1>2. y = <<>> => x = <<>>
  BY <1>1
<1>3. limit.max \in Nat
  BY DEF Settings
<1> HIDE DEF limit
<1>. QED
  BY <1>1, <1>2, <1>3 DEF WithinPrimary, limit

\* A call shows what the loops have left of the messages.
LEMMA KeptCall ==
  ASSUME NEW s, Base(s), NEW result, NEW again \in BOOLEAN,
         CallsShow(s), s.messages \in Messages, WithinPrimary(s.messages.images),
         IF Len(s.calls) = 0 THEN Consecutive(s.messages.images, config.messages.images)
         ELSE IF again THEN s.messages.images = Front(Of(s, Len(s.calls)))
         ELSE Consecutive(s.messages.images, Of(s, Len(s.calls))),
         OldestGo /\ ~again /\ NoneAgain(s) => Newest(s.messages.images, config.messages.images)
  PROVE  Kept(Call(s, result, again)) /\ Fresh(Call(s, result, again))
<1> DEFINE t == Call(s, result, again)  n == Len(s.calls)
<1>1. /\ n \in Nat /\ Len(t.calls) = n + 1 /\ t.messages = s.messages
      /\ \A i \in 1 .. n : t.calls[i] = s.calls[i]
      /\ LastCall(t).again = again /\ LastCall(t).messages = s.messages
  BY OneCall
<1>2. t.calls[n + 1].again = again /\ t.calls[n + 1].messages = s.messages
  BY <1>1 DEF LastCall
<1>3. Of(t, n + 1) = s.messages.images /\ \A i \in 1 .. n : Of(t, i) = Of(s, i)
  BY <1>1, <1>2 DEF Of
<1> HIDE DEF t, n
<1>4. Fresh(t)
  BY <1>1, <1>3 DEF Fresh
<1>5. (\A j \in 1 .. n + 1 : ~t.calls[j].again) <=> ~again /\ NoneAgain(s)
  <2>1. 1 .. n + 1 = (1 .. n) \cup {n + 1}
    BY <1>1
  <2>. QED
    BY <1>1, <1>2, <2>1 DEF NoneAgain, n
<1>6. CallShows(t, n + 1)
  <2> DEFINE k == n + 1
  <2>1. (k = 1 <=> n = 0) /\ (n # 0 => k - 1 = n /\ k - 1 \in 1 .. n)
    BY <1>1
  <2>2. /\ Of(t, k) = s.messages.images /\ t.calls[k].again = again
        /\ n # 0 => Of(t, k - 1) = Of(s, n)
    BY <1>2, <1>3, <2>1
  <2>3. (\A m \in 1 .. k : ~t.calls[m].again) => ~again /\ NoneAgain(s)
    BY <1>5
  <2> HIDE DEF k
  <2>4. IF k = 1 THEN Consecutive(Of(t, k), config.messages.images)
        ELSE IF t.calls[k].again THEN Of(t, k) = Front(Of(t, k - 1))
        ELSE Consecutive(Of(t, k), Of(t, k - 1))
    BY <2>1, <2>2 DEF n
  <2>5. CallShows(t, k)
    BY <2>2, <2>3, <2>4 DEF CallShows
  <2>. QED
    BY <2>5 DEF k
<1>7. ASSUME NEW i \in 1 .. n PROVE CallShows(t, i)
  <2>1. CallShows(s, i)
    BY DEF CallsShow, n
  <2>2. \A j \in 1 .. i : t.calls[j] = s.calls[j]
    BY <1>1
  <2>3. i # 1 => i - 1 \in 1 .. n
    BY <1>1
  <2>. QED
    BY <1>1, <1>3, <2>1, <2>2, <2>3 DEF CallShows
<1>8. CallsShow(t)
  <2>1. \A i \in 1 .. n + 1 : i \in 1 .. n \/ i = n + 1
    BY <1>1
  <2>. QED
    BY <1>1, <1>2, <1>6, <1>7, <2>1 DEF CallsShow, n
<1>9. Consecutive(t.messages.images, Of(t, n + 1))
  <2>1. t.messages.images \in Seq(Pictures)
    BY <1>1 DEF Messages
  <2>. QED
    BY <1>1, <1>3, <2>1, Whole
<1>10. Kept(t)
  <2>1. Len(t.calls) # 0 /\ Len(t.calls) = n + 1
    BY <1>1
  <2>2. NoneAgain(t) <=> ~again /\ NoneAgain(s)
    BY <1>5, <2>1 DEF NoneAgain
  <2>. QED
    BY <1>1, <1>8, <1>9, <2>1, <2>2 DEF Kept
<1>. QED
  BY <1>4, <1>10 DEF t

\* The validator of the next target may take more.
LEMMA KeptOnward ==
  ASSUME Sound, NEW t, Base(t), Kept(t), NEW u, Onward(t, u)
  PROVE  Kept(u) /\ (Fresh(t) /\ u.phase = "refused" => Fresh(u))
<1> DEFINE x == t.messages.images  y == u.messages.images
           shown == IF Len(t.calls) = 0 THEN config.messages.images ELSE Of(t, Len(t.calls))
<1>1. u.calls = t.calls
  BY DEF Onward
<1>2. /\ x \in Images /\ t.messages \in Messages /\ WithinPrimary(x)
      /\ Consecutive(x, shown)
      /\ OldestGo /\ NoneAgain(t) => Newest(x, config.messages.images)
  BY DEF Kept, Messages, Images
<1>3. config.messages.images \in Seq(Pictures) /\ config.validator[Primary] \in Settings
  BY DEF Sound, Messages, Targets
<1>4. shown \in Seq(Pictures)
  <2>1. CASE Len(t.calls) = 0
    BY <1>3, <2>1
  <2>2. CASE Len(t.calls) # 0
    <3>1. Len(t.calls) \in 1 .. Len(t.calls) => Of(t, Len(t.calls)) \in Seq(Pictures)
      BY DEF Kept, CallsShow, Of, Messages
    <3>2. Len(t.calls) \in 1 .. Len(t.calls)
      BY <2>2 DEF Base
    <3>. QED
      BY <2>2, <3>1, <3>2
  <2>. QED
    BY <2>1, <2>2
<1>5. /\ u.messages \in Messages /\ Consecutive(y, x)
      /\ OldestGo => Newest(y, x)
  <2>1. CASE u.messages = t.messages
    BY <1>2, <2>1, Whole DEF Images
  <2>2. CASE u.messages # t.messages
    <3>1. PICK p \in Targets : u.messages = Filtered(t.messages, config.validator[p])
      BY <2>2 DEF Onward
    <3> DEFINE v == config.validator[p]
    <3>2. v \in Settings /\ (OldestGo => v.policy = "strip_first")
      BY DEF Sound, OldestGo
    <3>3. u.messages = Filtered(t.messages, v)
      BY <3>1
    <3> HIDE DEF v
    <3>. QED
      BY <1>2, <3>2, <3>3, FilteredMessages
  <2>. QED
    BY <2>1, <2>2
<1> HIDE DEF x, y, shown
<1>6. WithinPrimary(y) /\ Consecutive(y, shown)
  BY <1>2, <1>3, <1>4, <1>5, WithinLess, ConsecutiveTransitive
<1>7. OldestGo /\ NoneAgain(t) => Newest(y, config.messages.images)
  BY <1>2, <1>3, <1>5, NewestTransitive
<1>8. (NoneAgain(t) <=> NoneAgain(u)) /\ CallsShow(u)
  BY <1>1 DEF NoneAgain, Kept, CallsShow, CallShows, Of
<1>9. Kept(u)
  BY <1>1, <1>5, <1>6, <1>7, <1>8 DEF Kept, Of, y, shown
<1>10. Fresh(t) /\ u.phase = "refused" => Fresh(u)
  BY <1>1 DEF Onward, Fresh, Of
<1>. QED
  BY <1>9, <1>10

-----------------------------------------------------------------------------
(* The steps.                                                              *)

LEMMA PlannedOnward ==
  ASSUME Sound, NEW t, Base(t), Ordered(t, t.pos), Kept(t), Fresh(t), NEW u, Onward(t, u)
  PROVE  Planned(u)
<1>1. t.pos \in Int
  BY Places DEF Base
<1>. QED
  BY <1>1, OrderedOnward, KeptOnward DEF Planned

\* A call that is not a retry without an image.
LEMMA PlannedCall ==
  ASSUME Sound, NEW s, Base(s), Planned(s), s.phase \in {"calling", "looping"}, NEW result,
         NEW again, again = FALSE
  PROVE  LET t == Call(s, result, again) IN
         /\ Base(t) /\ t.phase = s.phase /\ t.pos = s.pos /\ t.level = s.level
         /\ Ordered(t, t.pos) /\ Kept(t) /\ Fresh(t)
         /\ result = "garbled" => ~Plain(t)
<1> DEFINE t == Call(s, result, again)
<1>0. again \in BOOLEAN
  OBVIOUS
<1>1. /\ Base(t) /\ t.phase = s.phase /\ t.pos = s.pos /\ t.level = s.level
      /\ LastCall(t).result = result /\ Len(t.calls) = Len(s.calls) + 1 /\ Len(s.calls) \in Nat
      /\ DOMAIN t.calls = 1 .. Len(t.calls)
  BY <1>0, OneCall
<1>2. Ordered(s, s.pos - 1)
  BY DEF Planned, Reach
<1>3. Ordered(t, s.pos)
  BY <1>0, <1>2, OrderedCall
<1>4. Kept(t) /\ Fresh(t)
  BY <1>0, KeptCall DEF Planned, Kept
<1> HIDE DEF t
<1>5. result = "garbled" => ~Plain(t)
  <2>1. Len(t.calls) \in DOMAIN t.calls
    BY <1>1
  <2>. QED
    BY <1>1, <2>1 DEF Plain, LastCall
<1>. QED
  BY <1>1, <1>3, <1>4, <1>5 DEF t

LEMMA PlannedStream ==
  ASSUME Sound, Good(req), Planned(req), NEW result, StreamCall(result)
  PROVE  Planned(req')
<1> DEFINE again == FALSE  t == Call(req, result, again)
<1>1. req.phase = "calling" /\ Base(req)
  BY DEF StreamCall, Good
<1>2. req' = IF result = "ok" THEN [t EXCEPT !.phase = "streaming"]
             ELSE IF result \in {"empty", "400"} THEN ReplyHere(t, result)
             ELSE NextStream(t, result)
  BY DEF StreamCall, Step
<1>3. /\ Base(t) /\ t.phase = "calling" /\ Ordered(t, t.pos) /\ Kept(t) /\ Fresh(t)
  BY <1>1, PlannedCall
<1> HIDE DEF t
<1>4. Onward(t, req')
  <2>1. t.pos \in Int
    BY <1>3, Places DEF Base
  <2>2. CASE result = "ok"
    BY <1>2, <1>3, <2>1, <2>2 DEF Onward, Reach, Base, Fields
  <2>3. CASE result # "ok"
    BY <1>2, <1>3, <2>3, ReplyOnward, NextStreamOnward
  <2>. QED
    BY <2>2, <2>3
<1>. QED
  BY <1>3, <1>4, PlannedOnward

LEMMA PlannedFirstPost ==
  ASSUME Sound, Good(req), Planned(req), NEW result, FirstPost(result)
  PROVE  Planned(req')
<1> DEFINE again == FALSE  t == Call(req, result, again)
<1>1. req.phase = "calling" /\ Base(req) /\ req.pos = req.level + 1
  BY DEF FirstPost, Good, Calling, Streaming, Refusing, Looping, Replied, Streams
<1>2. req' = IF result \in Refusals THEN [Refused(t, result) EXCEPT !.phase = "refused"]
             ELSE IF result = "raise" THEN RetryRest(t, "raise") ELSE Parsed(t, result)
  BY DEF FirstPost, Step
<1>3. /\ Base(t) /\ t.pos = t.level + 1 /\ Ordered(t, t.pos) /\ Kept(t) /\ Fresh(t)
  BY <1>1, PlannedCall, ZenonT(30)
<1> HIDE DEF t
<1>4. Onward(t, req')
  <2>1. t.pos \in Int
    BY <1>3, Places DEF Base
  <2>2. CASE result \in Refusals
    BY <1>2, <1>3, <2>1, <2>2 DEF Onward, Reach, Refused, Base, Fields
  <2>3. CASE result \notin Refusals
    BY <1>2, <1>3, <2>3, RetryOnward, ParsedOnward
  <2>. QED
    BY <2>2, <2>3
<1>. QED
  BY <1>3, <1>4, PlannedOnward

LEMMA PlannedNextPost ==
  ASSUME Sound, Good(req), Planned(req), NEW result \in Results, NextPost(result)
  PROVE  Planned(req')
<1> DEFINE again == FALSE  t == Call(req, result, again)
<1>1. req.phase = "looping" /\ Base(req)
  BY DEF NextPost, Good
<1>2. req' = IF result \in Refusals THEN NextRefused(Refused(t, result))
             ELSE IF result = "raise" THEN NextRefused(t) ELSE Parsed(t, result)
  BY DEF NextPost, Step
<1>3. /\ Base(t) /\ Ordered(t, t.pos) /\ Kept(t) /\ Fresh(t)
      /\ result = "garbled" => ~Plain(t)
  BY <1>1, PlannedCall
<1>4. result \in Refusals \cup {"raise", "ok", "garbled"}
  BY DEF NextPost, Results, Refusals
<1> HIDE DEF t
<1>5. Onward(t, req')
  <2>1. CASE result \in Refusals
    <3> DEFINE r == Refused(t, result)
    <3>1. Base(r) /\ r.calls = t.calls /\ r.messages = t.messages /\ r.pos = t.pos
      BY <1>3 DEF Refused, Base, Fields
    <3>2. req' = NextRefused(r)
      BY <1>2, <2>1
    <3> HIDE DEF r
    <3>3. Onward(r, req')
      BY <3>1, <3>2, NextRefusedOnward
    <3>. QED
      BY <3>1, <3>3 DEF Onward, Plain
  <2>2. CASE result = "raise"
    BY <1>2, <1>3, <2>2, NextRefusedOnward DEF Refusals
  <2>3. CASE result \in {"ok", "garbled"}
    BY <1>2, <1>3, <2>3, ParsedOnward DEF Refusals
  <2>. QED
    BY <1>4, <2>1, <2>2, <2>3
<1>. QED
  BY <1>3, <1>5, PlannedOnward

LEMMA PlannedStrip ==
  ASSUME Sound, Good(req), Planned(req), NEW result \in Results, StripImage(result)
  PROVE  Planned(req')
<1> DEFINE less == [req EXCEPT !.strips = @ + 1, !.messages = StripLastImage(@)]
           again == TRUE  t == Call(less, result, again)  x == req.messages.images
<1>1. req.phase = "refused" /\ Base(req) /\ req.pos = req.level + 1 /\ x # <<>>
  BY DEF StripImage, Good, Calling, Streaming, Refusing, Looping, Replied
<1>2. req' = IF result \in Refusals THEN t
             ELSE IF result = "raise" THEN GiveUpTarget(t) ELSE Parsed(t, result)
  BY DEF StripImage, Step
<1>3. /\ Base(less) /\ less.phase = req.phase /\ less.pos = req.pos /\ less.level = req.level
      /\ less.calls = req.calls /\ less.messages = StripLastImage(req.messages)
  BY <1>1 DEF Base, Fields
<1>4. again \in BOOLEAN /\ again
  OBVIOUS
<1> HIDE DEF less, again
<1>5. /\ Kept(req) /\ Fresh(req) /\ Ordered(req, req.pos)
      /\ req.messages \in Messages /\ x \in Images /\ WithinPrimary(x)
  BY <1>1 DEF Planned, Kept, Messages, Images, Reach
<1>6. Front(x) \in Images /\ Consecutive(Front(x), x)
  BY <1>1, <1>5, FrontImages
<1>7. less.messages.images = Front(x) /\ less.messages \in Messages
  BY <1>3, <1>5, <1>6 DEF StripLastImage, Messages, Images
<1>8. WithinPrimary(less.messages.images)
  <2>1. config.validator[Primary] \in Settings
    BY DEF Sound, Targets
  <2>. QED
    BY <1>5, <1>6, <1>7, <2>1, WithinLess
<1>9. CallsShow(less)
  BY <1>3, <1>5 DEF Kept, CallsShow, CallShows, Of
<1>10. Len(less.calls) # 0 /\ less.messages.images = Front(Of(less, Len(less.calls)))
  BY <1>3, <1>5, <1>7 DEF Fresh, Of
<1>11. Kept(t) /\ Fresh(t)
  BY <1>3, <1>4, <1>7, <1>8, <1>9, <1>10, KeptCall
<1>12. Ordered(t, less.pos)
  <2>1. Ordered(less, less.pos)
    BY <1>3, <1>5 DEF Ordered, Plain, At, Later
  <2>. QED
    BY <1>3, <1>4, <2>1, OrderedCall
<1>13. Base(t) /\ t.pos = less.pos /\ t.level = less.level /\ t.phase = less.phase
  <2>1. Base(less) /\ again \in BOOLEAN
    BY <1>3, <1>4
  <2> HIDE DEF t
  <2>2. t = Call(less, result, again)
    BY DEF t
  <2>. QED
    BY <2>1, <2>2, OneCall
<1> HIDE DEF t
<1>14. Onward(t, req')
  <2>1. t.pos \in Int
    BY <1>13, Places DEF Base
  <2>2. CASE result \in Refusals
    <3>1. req' = t /\ Reach(t) = t.pos
      BY <1>1, <1>2, <1>3, <1>13, <2>2 DEF Reach
    <3>. QED
      BY <2>1, <3>1 DEF Onward
  <2>3. CASE result \notin Refusals
    BY <1>1, <1>2, <1>3, <1>13, <2>3, NextRefusedOnward, ParsedOnward
  <2>. QED
    BY <2>2, <2>3
<1>. QED
  BY <1>11, <1>12, <1>13, <1>14, PlannedOnward

LEMMA PlannedEnd ==
  ASSUME Sound, Good(req), Planned(req), StripNothing \/ StreamCompletes \/ StreamBreaks
  PROVE  Planned(req')
<1>1. Base(req) /\ Kept(req) /\ Ordered(req, req.pos) /\ req.pos \in Int
  <2>1. req.phase \in {"refused", "streaming"}
    BY DEF StripNothing, StreamCompletes, StreamBreaks
  <2>. QED
    BY <2>1, Places DEF Good, Planned, Reach, Base
<1>2. Onward(req, req')
  BY <1>1, ReplyOnward, NextRefusedOnward DEF StripNothing, StreamCompletes, StreamBreaks, Step
<1>3. req'.phase # "refused"
  BY <1>1 DEF StripNothing, StreamCompletes, StreamBreaks, Step, GiveUpTarget, NextRefused,
              ReplyHere, Reply, Base, Fields
<1>. QED
  BY <1>1, <1>2, <1>3, OrderedOnward, KeptOnward DEF Planned

LEMMA PlannedInit == FcInit => Planned(req)
<1> SUFFICES ASSUME FcInit PROVE Planned(req)
  OBVIOUS
<1> DEFINE v == config.validator[Primary]
<1>1. Sound
  BY FcInitSound
<1>2. /\ req.phase = "calling" /\ req.calls = <<>> /\ Len(req.calls) = 0
      /\ DOMAIN req.calls = {} /\ 1 .. Len(req.calls) = {}
      /\ req.messages = Filtered(config.messages, v)
  BY DEF FcInit
<1>3. Ordered(req, Reach(req))
  BY <1>2 DEF Ordered
<1>4. /\ config.messages \in Messages /\ v \in Settings
      /\ OldestGo => v.policy = "strip_first"
  BY <1>1 DEF Sound, Targets, OldestGo
<1> HIDE DEF v
<1> DEFINE x == req.messages.images
<1>5. /\ req.messages \in Messages /\ Consecutive(x, config.messages.images)
      /\ OldestGo => Newest(x, config.messages.images)
      /\ v.enabled /\ v.max > 0 => Len(x) <= v.max
      /\ v.enabled /\ v.all => x = <<>>
  BY <1>2, <1>4, FilteredMessages
<1>6. WithinPrimary(x)
  BY <1>5 DEF WithinPrimary, v
<1>. QED
  BY <1>2, <1>3, <1>5, <1>6 DEF Planned, Kept, CallsShow

LEMMA PlannedStep == Sound /\ Good(req) /\ Planned(req) /\ [FcNext]_fcVars => Sound' /\ Planned(req)'
<1> SUFFICES ASSUME Sound, Good(req), Planned(req), [FcNext]_fcVars
             PROVE  Sound' /\ Planned(req)'
  OBVIOUS
<1>1. UNCHANGED config
  BY DEF FcNext, StreamCall, StreamCompletes, StreamBreaks, FirstPost, StripImage, StripNothing,
         NextPost, Step, fcVars
<1>2. Planned(req')
  <2>1. CASE UNCHANGED fcVars
    BY <2>1 DEF fcVars
  <2>. QED
    BY <2>1, PlannedStream, PlannedFirstPost, PlannedStrip, PlannedNextPost, PlannedEnd DEF FcNext
<1>3. Attempts' = Attempts /\ Final' = Final /\ Sound' /\ OldestGo' = OldestGo
  BY <1>1 DEF Attempts, FirstAttempt, Final, Sound, OldestGo
<1>. QED
  BY <1>1, <1>2, <1>3 DEF Planned, Ordered, Plain, At, Later, Reach, Kept, Fresh, CallsShow,
     CallShows, NoneAgain, Of, WithinPrimary

LEMMA PlannedCalls == Good(req) /\ Planned(req) => CallsAsPlanned
<1> SUFFICES ASSUME Good(req), Planned(req) PROVE CallsAsPlanned
  OBVIOUS
<1>1. InOrderWithoutRepeat
  BY DEF Planned, Ordered, Plain, Later, At, InOrderWithoutRepeat, InOrder
<1>2. ImagesOfCalls
  BY DEF Planned, Kept, CallsShow, CallShows, Of, ImagesOfCalls, Shown, Count
<1>. QED
  BY <1>1, <1>2 DEF CallsAsPlanned

\* Wherever a request is, its calls went to the targets up to its own and no
\* image has come back (upstream_stream, process_non_streaming_request,
\* _strip_last_image_url).
THEOREM PlanInvariant == FcSpec => [](Sound /\ Planned(req))
<1>1. FcInit => Sound /\ Planned(req)
  BY FcInitSound, PlannedInit
<1>2. FcSpec => []Good(req)
  BY ChainInvariant
<1>. QED
  BY <1>1, <1>2, PlannedStep, PTL DEF FcSpec

\* The targets are called in the order of the chain, none twice but for retries
\* without images; no call shows an image that the primary's limits or an
\* earlier call have taken out, and while limits take the oldest the newest stay.
THEOREM CallsFollowThePlan == FcSpec => []CallsAsPlanned
BY ChainInvariant, PlanInvariant, PlannedCalls, PTL

-----------------------------------------------------------------------------
(* The life of requests.                                                   *)

LcTypes == /\ phase \in [Requests -> AD!Phases]
           /\ gate \in [Requests -> Caps \cup {Unlimited}]
           /\ attempt \in [Requests -> {"none", "regular", "probe"}]
           /\ stage \in [Requests -> Stages]
           /\ reply \in [Requests -> Replies]

\* The stages in which acquire has returned and nothing was given back.
Serving == {"admitted", "prepared", "posting", "wrapped", "streaming", "yielding",
            "reporting", "orphaned"}

\* Where a request is in `acquire`, by its stage.
PlaceInGate ==
  \A r \in Requests :
    /\ stage[r] = "new" => phase[r] = "idle"
    /\ stage[r] = "queued" => phase[r] \in {"waiting", "granted"}
    /\ stage[r] \in Serving => phase[r] = "running"
    /\ stage[r] = "answered" => \/ phase[r] \in {"idle", "refused"}
                                \/ phase[r] = "running" /\ Leaked(r)

\* Only a request that is over has ended in one of the two leaks.
LeaksAreFinal ==
  \A r \in Requests : reply[r] \in {"crashed", "unserved"} => stage[r] = "answered"

LcInv == LcTypes /\ PlaceInGate /\ LeaksAreFinal /\ AttemptSettled

-----------------------------------------------------------------------------
LEMMA LcInitInv == LcInit => LcInv
BY DEF LcInit, AD!AdInit, CB!CBInit, LcInv, LcTypes, PlaceInGate, LeaksAreFinal,
   AttemptSettled, AD!Phases, Stages, Replies, Serving

\* What a step of request r in `acquire` or `release` does to the others: it
\* grants a slot to one that waits, at most.
OthersWaitOn(r) ==
  \A q \in Requests \ {r} :
    phase'[q] # phase[q] => phase[q] = "waiting" /\ phase'[q] = "granted"

LEMMA ReleaseFrame ==
  ASSUME LcTypes, NEW r \in Requests, AD!Release(r)
  PROVE  /\ phase[r] = "running" /\ phase' \in [Requests -> AD!Phases] /\ phase'[r] = "idle"
         /\ gate' = [gate EXCEPT ![r] = Unlimited] /\ OthersWaitOn(r)
BY DEF LcTypes, AD!Release, AD!WakeNext, AD!Phases, OthersWaitOn

LEMMA ResumeFrame ==
  ASSUME LcTypes, NEW r \in Requests, AD!Resume(r)
  PROVE  /\ phase[r] = "granted" /\ phase' \in [Requests -> AD!Phases] /\ phase'[r] = "running"
         /\ gate' = gate /\ OthersWaitOn(r)
BY DEF LcTypes, AD!Resume, AD!WakeNext, AD!Phases, OthersWaitOn

LEMMA TimeOutFrame ==
  ASSUME LcTypes, NEW r \in Requests, AD!TimeOut(r)
  PROVE  /\ phase[r] \in {"waiting", "granted"}
         /\ phase' \in [Requests -> AD!Phases] /\ phase'[r] = "refused"
         /\ gate' = [gate EXCEPT ![r] = Unlimited] /\ OthersWaitOn(r)
<1>1. CASE AD!TimeOutWaiting(r)
  BY <1>1 DEF LcTypes, AD!TimeOutWaiting, AD!Phases, OthersWaitOn
<1>2. CASE AD!TimeOutGranted(r)
  BY <1>2 DEF LcTypes, AD!TimeOutGranted, AD!WakeNext, AD!Phases, OthersWaitOn
<1>. QED
  BY <1>1, <1>2 DEF AD!TimeOut

\* A step of request r that leaves every other request where it is keeps the
\* invariant if it keeps it for r.
OneMoves(r) ==
  /\ phase' \in [Requests -> AD!Phases] /\ gate' \in [Requests -> Caps \cup {Unlimited}]
  /\ attempt' \in [Requests -> {"none", "regular", "probe"}]
  /\ stage' \in [Requests -> Stages] /\ reply' \in [Requests -> Replies]
  /\ \A q \in Requests \ {r} :
       /\ gate'[q] = gate[q] /\ attempt'[q] = attempt[q]
       /\ stage'[q] = stage[q] /\ reply'[q] = reply[q]
  /\ OthersWaitOn(r)
  /\ stage'[r] = "new" => phase'[r] = "idle"
  /\ stage'[r] = "queued" => phase'[r] \in {"waiting", "granted"}
  /\ stage'[r] \in Serving => phase'[r] = "running"
  /\ stage'[r] = "answered" =>
       \/ phase'[r] \in {"idle", "refused"}
       \/ phase'[r] = "running" /\ reply'[r] \in {"crashed", "unserved"} /\ gate'[r] \in Caps
  /\ reply'[r] \in {"crashed", "unserved"} => stage'[r] = "answered"
  /\ attempt'[r] # "none" =>
       stage'[r] \in {"prepared", "posting", "wrapped", "streaming", "yielding", "orphaned"}

LEMMA OneMovesKeeps == ASSUME LcInv, NEW r \in Requests, OneMoves(r) PROVE LcInv'
<1>1. LcTypes'
  BY DEF OneMoves, LcTypes
<1>2. ASSUME NEW q \in Requests, q # r
      PROVE  /\ (stage[q] = "new" => phase[q] = "idle")'
             /\ (stage[q] = "queued" => phase[q] \in {"waiting", "granted"})'
             /\ (stage[q] \in Serving => phase[q] = "running")'
             /\ (stage[q] = "answered" => \/ phase[q] \in {"idle", "refused"}
                                          \/ phase[q] = "running" /\ Leaked(q))'
             /\ (reply[q] \in {"crashed", "unserved"} => stage[q] = "answered")'
             /\ (attempt[q] # "none" => stage[q] \in {"prepared", "posting", "wrapped",
                                            "streaming", "yielding", "orphaned"})'
  BY <1>2 DEF OneMoves, OthersWaitOn, LcInv, LcTypes, PlaceInGate, LeaksAreFinal, AttemptSettled, Leaked, Serving,
     Stages
<1>. QED
  BY <1>1, <1>2 DEF OneMoves, LcInv, PlaceInGate, LeaksAreFinal, AttemptSettled, Leaked

\* The steps of one request.
RequestNext(r) == \/ Handler(r) \/ SlotGranted(r) \/ QueueTimeout(r)
                  \/ Upstream(r) \/ Client(r) \/ Response(r)
                  \/ GeneratorFinalized(r) \/ NextRequest(r)

LEMMA RequestStep == ASSUME LcInv, NEW r \in Requests, RequestNext(r) PROVE OneMoves(r)
<1> USE DEF LcInv, LcTypes, PlaceInGate, LeaksAreFinal, AttemptSettled, Serving, Goto, Answer,
        Stages, Replies, AD!Phases, OthersWaitOn
<1>1. CASE Handler(r)
  <2>1. CASE Unauthorized(r)
    BY <2>1 DEF Unauthorized, adVars, cbVars, OneMoves
  <2>2. CASE Admit(r)
    BY <2>2 DEF Admit, AD!EnterUnlimited, AD!EnterAtOnce, cbVars, OneMoves
  <2>3. CASE AtCapacity(r)
    BY <2>3 DEF AtCapacity, AD!RefuseAtOnce, cbVars, OneMoves
  <2>4. CASE WaitForSlot(r)
    BY <2>4 DEF WaitForSlot, AD!Enqueue, cbVars, OneMoves
  <2>5. CASE BadPayload(r)
    BY <2>5, ReleaseFrame DEF BadPayload, cbVars, OneMoves
  <2>6. CASE PreparationRaises(r)
    <3>1. CASE gate[r] \in Caps
      BY <2>6, <3>1 DEF PreparationRaises, DropAttempt, AbandonLease, CB!Drop, adVars, cbVars,
         OneMoves
    <3>2. CASE gate[r] \notin Caps
      BY <2>6, <3>2, ReleaseFrame DEF PreparationRaises, DropAttempt, AbandonLease, CB!Drop, cbVars,
         OneMoves
    <3>. QED
      BY <3>1, <3>2
  <2>7. CASE CircuitAllows(r)
    BY <2>7 DEF CircuitAllows, CB!Allow, CB!KindAllowed, adVars, OneMoves
  <2>8. CASE CircuitOpenFallback(r) \/ StartPost(r) \/ StartStream(r)
    BY ZenonT(60), <2>8 DEF CircuitOpenFallback, StartPost, StartStream, adVars, cbVars, OneMoves
  <2>9. CASE CircuitOpenRefusal(r)
    BY <2>9, ReleaseFrame DEF CircuitOpenRefusal, cbVars, OneMoves
  <2>. QED
    BY <1>1, <2>1, <2>2, <2>3, <2>4, <2>5, <2>6, <2>7, <2>8, <2>9 DEF Handler
<1>2. CASE SlotGranted(r) \/ QueueTimeout(r)
  <2>1. CASE SlotGranted(r)
    BY <2>1, ResumeFrame DEF SlotGranted, cbVars, OneMoves
  <2>2. CASE QueueTimeout(r)
    BY <2>2, TimeOutFrame DEF QueueTimeout, cbVars, OneMoves
  <2>. QED
    BY <1>2, <2>1, <2>2
<1>3. CASE Upstream(r)
  <2>1. ASSUME ReportSuccess(r) \/ ReportFailure(r)
        PROVE  attempt' = [attempt EXCEPT ![r] = "none"]
    BY <2>1 DEF ReportSuccess, ReportFailure, CB!RecordSuccess, CB!RecordFailure, cbVars
  <2>2. ASSUME NEW what \in {"ok", "client_error"}, PostAnswered(r, what) PROVE OneMoves(r)
    BY <2>1, <2>2, ReleaseFrame DEF PostAnswered, OneMoves
  <2>3. CASE PostFailed(r)
    BY <2>1, <2>3, ReleaseFrame DEF PostFailed, OneMoves
  <2>4. CASE ChunkYielded(r)
    BY <2>4 DEF ChunkYielded, adVars, cbVars, OneMoves
  <2>5. CASE StreamEnds(r)
    BY <2>1, <2>5, ReleaseFrame DEF StreamEnds, OneMoves
  <2>6. ASSUME NEW what \in {"client_error", "failed"}, StreamFails(r, what) PROVE OneMoves(r)
    BY <2>1, <2>6 DEF StreamFails, adVars, OneMoves
  <2>. QED
    BY <1>3, <2>2, <2>3, <2>4, <2>5, <2>6 DEF Upstream
<1>4. CASE Client(r)
  <2>1. CASE StreamNeverStarts(r)
    <3>1. CASE gate[r] \in Caps
      BY <2>1, <3>1 DEF StreamNeverStarts, DropAttempt, AbandonLease, CB!Drop, adVars, cbVars,
         OneMoves
    <3>2. CASE gate[r] \notin Caps
      BY <2>1, <3>2, ReleaseFrame DEF StreamNeverStarts, DropAttempt, AbandonLease, CB!Drop, cbVars,
         OneMoves
    <3>. QED
      BY <3>1, <3>2
  <2>2. CASE DisconnectAwaiting(r)
    BY <2>2, ReleaseFrame DEF DisconnectAwaiting, DropAttempt, CB!Drop, cbVars, OneMoves
  <2>3. CASE DisconnectSending(r)
    BY <2>3 DEF DisconnectSending, adVars, cbVars, OneMoves
  <2>. QED
    BY <1>4, <2>1, <2>2, <2>3 DEF Client
<1>5. CASE Response(r)
  <2>1. CASE StreamStarts(r) \/ ChunkSent(r)
    BY <2>1 DEF StreamStarts, ChunkSent, adVars, cbVars, OneMoves
  <2>2. CASE ErrorFramesSent(r)
    BY <2>2, ReleaseFrame DEF ErrorFramesSent, cbVars, OneMoves
  <2>. QED
    BY <1>5, <2>1, <2>2 DEF Response
<1>6. CASE GeneratorFinalized(r)
  BY <1>6, ReleaseFrame DEF GeneratorFinalized, DropAttempt, CB!Drop, cbVars, OneMoves
<1>7. CASE NextRequest(r)
  BY <1>7 DEF NextRequest, AD!Forget, adVars, cbVars, OneMoves
<1>. QED
  BY <1>1, <1>2, <1>3, <1>4, <1>5, <1>6, <1>7 DEF RequestNext

LEMMA LcNextInv == LcInv /\ [LcNext]_vars => LcInv'
<1> SUFFICES ASSUME LcInv, [LcNext]_vars PROVE LcInv'
  OBVIOUS
<1> USE DEF LcInv, LcTypes, PlaceInGate, LeaksAreFinal, AttemptSettled
<1>1. CASE TimePasses
  BY <1>1 DEF TimePasses, CB!Tick, adVars, Leaked
<1>2. CASE ConfigReload
  BY <1>2 DEF ConfigReload, AD!Reload, cbVars, Leaked
<1>3. CASE UNCHANGED vars
  BY <1>3 DEF vars, adVars, cbVars, Leaked
<1>. QED
  BY <1>1, <1>2, <1>3, RequestStep, OneMovesKeeps DEF LcNext, RequestNext

-----------------------------------------------------------------------------
\* The inductive invariant of the request life cycle.
THEOREM LifecycleInvariant == LcSpec => []LcInv
BY LcInitInv, LcNextInv, PTL DEF LcSpec

\* Whichever way a request ends, it holds neither a slot nor an attempt when it
\* is over, the two leaks excepted.
THEOREM RequestsSettle == LcSpec => []RequestSettled
<1>1. LcInv => RequestSettled
  BY DEF LcInv, PlaceInGate, AttemptSettled, RequestSettled, SlotReturned
<1>. QED
  BY <1>1, LifecycleInvariant, PTL

-----------------------------------------------------------------------------
LEMMA AdmissionStep == [LcNext]_vars => [AD!AdNext]_adVars
<1> SUFFICES ASSUME [LcNext]_vars PROVE [AD!AdNext]_adVars
  OBVIOUS
<1> USE DEF AD!AdNext, AD!Acquire, AD!adVars, adVars, cbVars
<1>1. ASSUME NEW r \in Requests, Handler(r) PROVE [AD!AdNext]_adVars
  BY <1>1 DEF Handler, Unauthorized, Admit, AtCapacity, WaitForSlot, BadPayload,
     PreparationRaises, AbandonLease, CircuitAllows, CircuitOpenFallback, CircuitOpenRefusal,
     StartPost, StartStream
<1>2. ASSUME NEW r \in Requests, SlotGranted(r) \/ QueueTimeout(r) PROVE [AD!AdNext]_adVars
  BY <1>2 DEF SlotGranted, QueueTimeout
<1>3. ASSUME NEW r \in Requests, Upstream(r) PROVE [AD!AdNext]_adVars
  BY <1>3 DEF Upstream, PostAnswered, PostFailed, ChunkYielded, StreamEnds, StreamFails
<1>4. ASSUME NEW r \in Requests,
             Client(r) \/ Response(r) \/ GeneratorFinalized(r) \/ NextRequest(r)
      PROVE  [AD!AdNext]_adVars
  BY <1>4 DEF Client, StreamNeverStarts, AbandonLease, DisconnectAwaiting, DisconnectSending,
     Response, StreamStarts, ChunkSent, ErrorFramesSent, GeneratorFinalized, NextRequest
<1>5. CASE TimePasses \/ ConfigReload \/ UNCHANGED vars
  BY <1>5 DEF TimePasses, ConfigReload, vars
<1>. QED
  BY <1>1, <1>2, <1>3, <1>4, <1>5 DEF LcNext

\* Whatever the handlers do with a request, they use the admission controller
\* as its specification says, leaks and reloads included.
THEOREM LifecycleUsesAdmission == LcSpec => UsesAdmission
<1>1. LcInit => AD!AdInit
  BY DEF LcInit
<1>. QED
  BY <1>1, AdmissionStep, PTL DEF LcSpec, UsesAdmission, AD!AdSpec, AD!adVars, adVars

-----------------------------------------------------------------------------
LEMMA BreakerStep ==
  ASSUME LcInv, [LcNext]_vars PROVE [CB!CBNext]_cbVars
<1> USE DEF CB!CBNext, CB!cbVars, adVars, cbVars
<1>1. ASSUME NEW r \in Requests, DropAttempt(r) PROVE [CB!CBNext]_cbVars
  <2>1. CASE attempt[r] = "none"
    BY <1>1, <2>1 DEF DropAttempt
  <2>2. CASE attempt[r] # "none"
    BY <1>1, <2>2 DEF DropAttempt
  <2>. QED
    BY <2>1, <2>2
<1>2. ASSUME NEW r \in Requests, ReportSuccess(r) \/ ReportFailure(r) PROVE [CB!CBNext]_cbVars
  BY <1>2 DEF ReportSuccess, ReportFailure
<1>3. ASSUME NEW r \in Requests, Handler(r) PROVE [CB!CBNext]_cbVars
  BY <1>1, <1>3 DEF Handler, Unauthorized, Admit, AtCapacity, WaitForSlot, BadPayload,
     PreparationRaises, CircuitAllows, CircuitOpenFallback, CircuitOpenRefusal,
     StartPost, StartStream
<1>4. ASSUME NEW r \in Requests, SlotGranted(r) \/ QueueTimeout(r) PROVE [CB!CBNext]_cbVars
  BY <1>4 DEF SlotGranted, QueueTimeout
<1>5. ASSUME NEW r \in Requests, Upstream(r) PROVE [CB!CBNext]_cbVars
  BY <1>2, <1>5 DEF Upstream, PostAnswered, PostFailed, ChunkYielded, StreamEnds, StreamFails
<1>6. ASSUME NEW r \in Requests,
             Client(r) \/ Response(r) \/ GeneratorFinalized(r) \/ NextRequest(r)
      PROVE  [CB!CBNext]_cbVars
  BY <1>1, <1>6 DEF Client, StreamNeverStarts, DisconnectAwaiting, DisconnectSending,
     Response, StreamStarts, ChunkSent, ErrorFramesSent, GeneratorFinalized, NextRequest
<1>7. CASE TimePasses \/ ConfigReload \/ UNCHANGED vars
  BY <1>7 DEF TimePasses, ConfigReload, vars
<1>. QED
  BY <1>3, <1>4, <1>5, <1>6, <1>7 DEF LcNext

\* However requests end, the client of a half-open probe leaving included, the
\* handlers use the breaker as it is specified: an attempt is asked for once
\* and reported once or dropped.
THEOREM LifecycleUsesBreaker == LcSpec => UsesBreaker
<1>1. LcInit => CB!CBInit
  BY DEF LcInit
<1>2. LcInv /\ [LcNext]_vars => [CB!CBNext]_cbVars
  BY BreakerStep
<1>. QED
  BY <1>1, <1>2, LifecycleInvariant, PTL DEF LcSpec, UsesBreaker, CB!CBSpec, CB!cbVars, cbVars

-----------------------------------------------------------------------------
\* The steps of request r, seen as the stages of its stream.
LEMMA OwnStages ==
  ASSUME LcInv, NEW r \in Requests, RequestNext(r)
  PROVE  [StreamOf(r)!Next]_(StreamOf(r)!vars)
<1>0. OneMoves(r)
  BY RequestStep
<1> USE DEF LcInv, LcTypes, OneMoves, StreamOf!Next, StreamOf!Move, StreamStageOf, SlotOf, Goto, Answer
<1>1. ASSUME stage[r] \in {"new", "queued", "admitted", "prepared", "posting", "answered"},
             stage'[r] \in {"new", "queued", "admitted", "prepared", "posting", "answered"}
      PROVE  StreamOf(r)!Next
  BY <1>1 DEF StreamOf!Elsewhere, StreamOf!Slots
<1>2. CASE Handler(r)
  <2>1. CASE StartStream(r)
    BY <2>1 DEF StartStream, StreamOf!Begin, adVars, Leaked
  <2>2. CASE ~StartStream(r)
    <3>1. /\ stage[r] \in {"new", "admitted", "prepared"}
          /\ stage'[r] \in {"answered", "admitted", "queued", "prepared", "posting"}
      BY <1>2, <2>2 DEF Handler, Unauthorized, Admit, AtCapacity, WaitForSlot, BadPayload,
         PreparationRaises, CircuitAllows, CircuitOpenFallback, CircuitOpenRefusal, StartPost
    <3>. QED
      BY <1>1, <3>1
  <2>. QED
    BY <2>1, <2>2
<1>3. CASE SlotGranted(r) \/ QueueTimeout(r) \/ NextRequest(r)
  <2>1. /\ stage[r] \in {"queued", "answered"}
        /\ stage'[r] \in {"answered", "admitted", "new"}
    BY <1>3 DEF SlotGranted, QueueTimeout, NextRequest
  <2>. QED
    BY <1>1, <2>1
<1>4. ASSUME stage[r] \in {"streaming", "reporting", "orphaned"}, stage'[r] = "answered",
             reply'[r] \notin {"crashed", "unserved"}
      PROVE  StreamOf(r)!Next
  BY <1>0, <1>4 DEF StreamOf!Close, Leaked
<1>5. CASE Upstream(r)
  <2>1. ASSUME NEW what \in {"ok", "client_error"}, PostAnswered(r, what) \/ PostFailed(r)
        PROVE  StreamOf(r)!Next
    BY <1>1, <2>1 DEF PostAnswered, PostFailed
  <2>2. CASE ChunkYielded(r)
    BY <2>2 DEF ChunkYielded, StreamOf!Yield, adVars, Leaked
  <2>3. CASE StreamEnds(r)
    BY <1>4, <2>3 DEF StreamEnds
  <2>4. ASSUME NEW what \in {"client_error", "failed"}, StreamFails(r, what)
        PROVE  StreamOf(r)!Next
    BY <2>4 DEF StreamFails, StreamOf!Fail, adVars, Leaked, LeaksAreFinal
  <2>. QED
    BY <1>5, <2>1, <2>2, <2>3, <2>4 DEF Upstream
<1>6. CASE Client(r)
  <2>1. CASE StreamNeverStarts(r)
    BY <1>0, <2>1 DEF StreamNeverStarts, StreamOf!Discard, Leaked
  <2>2. CASE DisconnectAwaiting(r)
    BY <1>4, <2>2 DEF DisconnectAwaiting
  <2>3. CASE DisconnectSending(r)
    BY <2>3 DEF DisconnectSending, StreamOf!Abandon, adVars, Leaked, LeaksAreFinal
  <2>. QED
    BY <1>6, <2>1, <2>2, <2>3 DEF Client
<1>7. CASE Response(r)
  <2>1. CASE StreamStarts(r)
    BY <2>1 DEF StreamStarts, StreamOf!Iterate, adVars, Leaked
  <2>2. CASE ChunkSent(r)
    BY <2>2 DEF ChunkSent, StreamOf!Sent, adVars, Leaked
  <2>3. CASE ErrorFramesSent(r)
    BY <1>4, <2>3 DEF ErrorFramesSent, LeaksAreFinal
  <2>. QED
    BY <1>7, <2>1, <2>2, <2>3 DEF Response
<1>8. CASE GeneratorFinalized(r)
  BY <1>4, <1>8 DEF GeneratorFinalized, LeaksAreFinal
<1>. QED
  BY <1>2, <1>3, <1>5, <1>6, <1>7, <1>8 DEF RequestNext

LEMMA StreamsStep ==
  ASSUME LcInv, [LcNext]_vars, NEW r \in Requests
  PROVE  [StreamOf(r)!Next]_(StreamOf(r)!vars)
<1>1. ASSUME stage'[r] = stage[r], reply'[r] = reply[r], gate'[r] = gate[r],
             phase'[r] # phase[r] => phase[r] = "waiting" /\ phase'[r] = "granted"
      PROVE  UNCHANGED StreamOf(r)!vars
  BY <1>1 DEF StreamOf!vars, StreamStageOf, SlotOf, Leaked
<1>2. ASSUME NEW q \in Requests, q # r, RequestNext(q) PROVE UNCHANGED StreamOf(r)!vars
  BY <1>1, <1>2, RequestStep DEF OneMoves, OthersWaitOn
<1>3. CASE TimePasses \/ ConfigReload \/ UNCHANGED vars
  <2>1. UNCHANGED <<stage, reply, gate, phase>>
    BY <1>3 DEF TimePasses, ConfigReload, AD!Reload, vars, adVars
  <2>. QED
    BY <1>1, <2>1
<1>. QED
  BY <1>2, <1>3, OwnStages DEF LcNext, RequestNext

\* Every answer goes through the stages that the generators and tasks of
\* StreamBody implement, and keeps its slot as they do.
THEOREM AnswersAsStaged == LcSpec => StreamsAsStaged
<1>1. LcInit => \A r \in Requests : StreamOf(r)!Init
  BY DEF LcInit, StreamOf!Init, StreamStageOf, SlotOf, Leaked, AD!AdInit
<1>2. LcInv /\ [LcNext]_vars => \A r \in Requests : [StreamOf(r)!Next]_(StreamOf(r)!vars)
  BY StreamsStep
<1>. QED
  BY <1>1, <1>2, LifecycleInvariant, PTL DEF LcSpec, StreamsAsStaged

-----------------------------------------------------------------------------
(* What the components' own theorems give for the whole life cycle.  GP is *)
(* both components with their proofs; the lemmas say that the admission    *)
(* control and the circuit it proves about are AD's and CB's.              *)
GP == INSTANCE Guards_proofs WITH Callers <- Requests

LEMMA SameAdmission == UsesAdmission => GP!AdSpec
<1> USE DEF AD!adVars, GP!adVars
<1>1. AD!AdInit => GP!AdInit
  BY DEF AD!AdInit, GP!AdInit, AD!Settings, GP!Settings
<1>2. \A c, ph, q, v : AD!WakeNext(c, ph, q, v) => GP!WakeNext(c, ph, q, v)
  BY DEF AD!WakeNext, GP!WakeNext
<1>3. \A s, k : AD!RemoveAt(s, k) = GP!RemoveAt(s, k)
  BY DEF AD!RemoveAt, GP!RemoveAt
<1>4. [AD!AdNext]_(AD!adVars) => [GP!AdNext]_(GP!adVars)
  BY <1>2, <1>3
     DEF AD!AdNext, AD!Acquire, AD!EnterUnlimited, AD!EnterAtOnce, AD!Locked, AD!RefuseAtOnce,
         AD!Enqueue, AD!Resume, AD!TimeOut, AD!TimeOutWaiting, AD!TimeOutGranted, AD!Release,
         AD!Forget, AD!Reload, AD!Settings,
         GP!AdNext, GP!Acquire, GP!EnterUnlimited, GP!EnterAtOnce, GP!Locked,
         GP!RefuseAtOnce, GP!Enqueue, GP!Resume, GP!TimeOut, GP!TimeOutWaiting,
         GP!TimeOutGranted, GP!Release, GP!Forget, GP!Reload, GP!Settings
<1>. QED
  BY <1>1, <1>4, PTL DEF UsesAdmission, AD!AdSpec, GP!AdSpec

LEMMA SameBreaker == UsesBreaker => GP!CBSpec
<1>1. CB!CBInit => GP!CBInit
  BY DEF CB!CBInit, GP!CBInit, CB!ClosedCircuit, GP!ClosedCircuit
<1>2. [CB!CBNext]_(CB!cbVars) => [GP!CBNext]_(GP!cbVars)
  BY DEF CB!CBNext, CB!cbVars, CB!Allow, CB!Refuse, CB!Leave, CB!Drop, CB!Tick,
         CB!RecordSuccess, CB!RecordFailure, CB!Allows, CB!Expired, CB!AfterAllow,
         CB!KindAllowed, CB!AfterSuccess, CB!AfterFailure, CB!FailuresAfter, CB!AfterTick,
         CB!ClosedCircuit,
         GP!CBNext, GP!cbVars, GP!Allow, GP!Refuse, GP!Leave, GP!Drop, GP!Tick,
         GP!RecordSuccess, GP!RecordFailure, GP!Allows, GP!Expired, GP!AfterAllow,
         GP!KindAllowed, GP!AfterSuccess, GP!AfterFailure, GP!FailuresAfter,
         GP!AfterTick, GP!ClosedCircuit
<1>. QED
  BY <1>1, <1>2, PTL DEF UsesBreaker, CB!CBSpec, GP!CBSpec

\* No slot of any gate is lost or invented and no waiter is forgotten beside a
\* free slot, in whatever ways requests end and configurations change: a lease
\* that leaks stays accounted for.
THEOREM SlotsConservedThroughout == LcSpec => [](AD!SlotsConserved /\ AD!NoLostWakeup)
<1>1. GP!AdSpec => [](GP!SlotsConserved /\ GP!NoLostWakeup)
  <2>1. GP!IsFiniteSet(Requests)
    BY RequestsAssumption DEF GP!IsFiniteSet, IsFiniteSet
  <2> USE <2>1, RequestsAssumption, CapsAssumption, PatienceAssumption, CircuitAssumption
  <2>2. GP!AdSpec => []GP!SlotsConserved
    BY GP!SlotsAlwaysConserved
  <2>3. GP!AdSpec => []GP!NoLostWakeup
    BY GP!WaitersRemembered
  <2>. QED
    BY <2>2, <2>3, PTL
<1>2. GP!SlotsConserved => AD!SlotsConserved
  BY DEF GP!SlotsConserved, GP!SlotsOf, GP!Cardinality,
         AD!SlotsConserved, AD!SlotsOf, AD!Cardinality
<1>3. GP!NoLostWakeup => AD!NoLostWakeup
  BY DEF GP!NoLostWakeup, AD!NoLostWakeup
<1>. QED
  BY <1>1, <1>2, <1>3, SameAdmission, LifecycleUsesAdmission, PTL

\* Whatever happens to the requests, a closed circuit has counted fewer failures
\* than the threshold, nobody passes an open circuit early or a half-open one
\* beside the probe, and a half-open circuit is without its probe only after
\* the probe's request ended without a report.
THEOREM CircuitSoundThroughout ==
  LcSpec => []CB!ClosedBelowThreshold /\ CB!SheltersUpstream /\ CB!ProbeLostOnlyByDrop
<1>1. GP!CBSpec => []GP!ClosedBelowThreshold /\ GP!SheltersUpstream /\ GP!ProbeLostOnlyByDrop
  <2>1. GP!IsFiniteSet(Requests)
    BY RequestsAssumption DEF GP!IsFiniteSet, IsFiniteSet
  <2> USE <2>1, RequestsAssumption, CapsAssumption, PatienceAssumption, CircuitAssumption
  <2>2. GP!CBSpec => []GP!ClosedBelowThreshold
    BY GP!ClosedIsHealthy
  <2>3. GP!CBSpec => GP!SheltersUpstream
    BY GP!BreakerShelters
  <2>4. GP!CBSpec => GP!ProbeLostOnlyByDrop
    BY GP!ProbeLostOnlyWhenDropped
  <2>. QED
    BY <2>2, <2>3, <2>4, PTL
<1>2. GP!ClosedBelowThreshold => CB!ClosedBelowThreshold
  BY DEF GP!ClosedBelowThreshold, CB!ClosedBelowThreshold
<1>3. GP!SheltersUpstream => CB!SheltersUpstream
  BY DEF GP!SheltersUpstream, GP!AdmittedNow, GP!cbVars,
         CB!SheltersUpstream, CB!AdmittedNow, CB!cbVars
<1>4. GP!ProbeLostOnlyByDrop => CB!ProbeLostOnlyByDrop
  BY DEF GP!ProbeLostOnlyByDrop, GP!Stranded, GP!ProbeRunning, GP!cbVars,
         CB!ProbeLostOnlyByDrop, CB!Stranded, CB!ProbeRunning, CB!cbVars
<1>. QED
  BY <1>1, <1>2, <1>3, <1>4, SameBreaker, LifecycleUsesBreaker, PTL
=============================================================================
