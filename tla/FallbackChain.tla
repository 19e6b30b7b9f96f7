---------------------------- MODULE FallbackChain ----------------------------
(***************************************************************************)
(* One request and the upstream targets it is tried on: the chain that     *)
(* resolve_fallback_chain compiles, and the two loops that walk it, the    *)
(* streaming one (upstream_stream in endpoints/streaming_handlers.py) and  *)
(* the non-streaming one (process_non_streaming_request in                 *)
(* endpoints/chat_completions.py), which retries a refused call in a loop  *)
(* and a failed call by calling itself on the rest of the chain.           *)
(*                                                                         *)
(* What an upstream does is an outcome: "ok", "400", "error" (any other    *)
(* status from 400 up), "raise" (no response: refused, timed out), for a   *)
(* post also "garbled" (a success whose body is not JSON) and for a stream *)
(* "empty" (a success that ends without a byte).  Of the payload the model *)
(* keeps the messages, as the multimodal validator of each route leaves    *)
(* them; the other filters and the direct-model entries of a chain, which  *)
(* keep the primary's transport, are left out.                             *)
(***************************************************************************)
EXTENDS MultimodalValidator

CONSTANTS
  Primary,       \* the route of the request
  Routes,        \* routes its fallback_chain may name
  Unusable,      \* an entry that resolves to no model
  MaxOptions,    \* bound: entries of a fallback_chain
  MaxFallbacks,  \* the depth limit of resolve_fallback_chain
  MaxStrips,     \* strip_last_image_max_retries
  Payloads,      \* the messages a request may have
  Validators     \* the settings of the routes' multimodal validators

ASSUME ChainAssumption ==
  /\ Primary \notin Routes /\ Unusable \notin Routes \cup {Primary}
  /\ MaxOptions \in Nat /\ MaxFallbacks \in Nat /\ MaxStrips \in Nat
  /\ Payloads \subseteq Messages
  /\ Validators \subseteq [Routes \cup {Primary} -> Settings]

VARIABLES
  config,  \* what the request meets: its kind, the circuit, the chain, and
           \* what it says
  req      \* the locals of the loops, the calls made and the reply

fcVars == <<config, req>>

Targets == Routes \cup {Primary}
Results == {"ok", "empty", "garbled", "400", "error", "raise"}
Refusals == {"400", "error"}

-----------------------------------------------------------------------------
\* One entry of a fallback_chain: it goes if it has no model, repeats an earlier
\* one or is beyond the depth limit.
Add(attempts, o) == IF Len(attempts) > MaxFallbacks \/ o = Unusable \/ Contains(attempts, o)
                    THEN attempts ELSE Append(attempts, o)

\* resolve_fallback_chain: the primary, then the entries in order.
Resolve(options) ==
  LET attempts[k \in 0 .. Len(options)] ==
        IF k = 0 THEN <<Primary>>
        ELSE Add(attempts[k - 1], options[k])
  IN  attempts[Len(options)]

\* UpstreamAttempt: a target is called with the headers and deadline of a route.
Own(t) == [target |-> t, transport |-> t]

\* process_chat_request: while the circuit is open the url and model of the
\* first fallback stand in for the primary's.  The headers are always those of
\* the primary's plan: route_plan.build_upstream_headers().
FirstAttempt ==
  IF config.open THEN [target |-> config.chain[2], transport |-> Primary] ELSE Own(Primary)

\* _setup_fallback; both loops replace the head of the chain by the call they
\* were given, so an open circuit leaves its first fallback in the rest.
Attempts ==
  <<FirstAttempt>> \o IF config.passthrough THEN <<>>
                      ELSE [k \in 1 .. Len(config.chain) - 1 |-> Own(config.chain[k + 1])]

Final == Len(Attempts)  \* the position of the last one

FcInit ==
  /\ config \in [kind : {"stream", "post"}, open : BOOLEAN, passthrough : BOOLEAN,
                 chain : {Resolve(o) : o \in BoundedSeq(Targets \cup {Unusable}, MaxOptions)},
                 messages : Payloads, validator : Validators]
  /\ config.open => Len(config.chain) > 1
  /\ req = [phase |-> "calling", level |-> 0, pos |-> 1, strips |-> 0,
            messages |-> Filtered(config.messages, config.validator[Primary]),
            refusal |-> [status |-> "none", target |-> Primary], calls |-> <<>>,
            reply |-> [status |-> "none", from |-> Primary, named |-> Primary]]

-----------------------------------------------------------------------------
(* Steps as functions of the request's state.                              *)

Call(s, result, again) ==
  [s EXCEPT !.calls = Append(@, [target |-> Attempts[s.pos].target,
                                 transport |-> Attempts[s.pos].transport,
                                 messages |-> s.messages,
                                 result |-> result, again |-> again])]

\* `from` is the target whose response the client gets, `named` the one the
\* reply names.
Reply(s, status, from) ==
  [s EXCEPT !.phase = "answered",
            !.reply = [status |-> status, from |-> from, named |-> Attempts[s.pos].target]]
ReplyHere(s, status) == Reply(s, status, Attempts[s.pos].target)

\* Streaming: the next attempt, or the exception leaves the generator.
NextStream(s, result) == IF s.pos < Final THEN [s EXCEPT !.pos = @ + 1]
                         ELSE ReplyHere(s, result)

\* Slip: the call is repeated with the chain it was given.
RetrySame(s, status) ==
  IF s.level + 1 < Final
  THEN [s EXCEPT !.phase = "calling", !.pos = s.level + 1, !.strips = 0]
  ELSE ReplyHere(s, status)

\* retry_transport_failure: the whole function again for the rest of this
\* call's chain, from its first fallback on.  The filters of that fallback's
\* route get the messages the filters of this call have left.
RetryRest(s, status) ==
  IF s.level + 1 < Final
  THEN [s EXCEPT !.phase = "calling", !.level = @ + 1, !.pos = s.level + 2, !.strips = 0,
                 !.messages = Filtered(@, config.validator[Attempts[s.level + 2].target])]
  ELSE ReplyHere(s, status)

\* Slip: no reply when the chain is used up.
NextRefusedNoReply(s) == IF s.pos < Final THEN [s EXCEPT !.phase = "looping", !.pos = @ + 1]
                         ELSE [s EXCEPT !.phase = "refused"]

\* The status loop: the next target, or the last status seen is the reply.
NextRefused(s) == IF s.pos < Final THEN [s EXCEPT !.phase = "looping", !.pos = @ + 1]
                  ELSE Reply(s, s.refusal.status, s.refusal.target)

Refused(s, result) ==
  [s EXCEPT !.refusal = [status |-> result, target |-> Attempts[s.pos].target]]

\* A response below 400: the body is parsed as JSON.
Parsed(s, result) == IF result = "ok" THEN ReplyHere(s, "ok") ELSE RetryRest(s, "raise")

Step(s) == req' = s /\ UNCHANGED config

-----------------------------------------------------------------------------
\* client.stream on the next attempt.
StreamCall(result) ==
  LET s == Call(req, result, FALSE)
  IN  /\ config.kind = "stream" /\ req.phase = "calling" /\ result # "garbled"
      /\ Step(IF result = "ok" THEN [s EXCEPT !.phase = "streaming"]
              ELSE IF result \in {"empty", "400"} THEN ReplyHere(s, result)
              ELSE NextStream(s, result))

StreamCompletes == /\ req.phase = "streaming"
                   /\ Step(ReplyHere(req, "ok"))

\* An exception after the first chunk is not retried.
StreamBreaks == /\ req.phase = "streaming"
                /\ Step(ReplyHere(req, "broken"))

\* The first post of a call of process_non_streaming_request.
FirstPost(result) ==
  LET s == Call(req, result, FALSE)
  IN  /\ config.kind = "post" /\ req.phase = "calling" /\ result # "empty"
      /\ Step(IF result \in Refusals THEN [Refused(s, result) EXCEPT !.phase = "refused"]
              ELSE IF result = "raise" THEN RetryRest(s, "raise")
              ELSE Parsed(s, result))

\* Slip: a 400 is not recognised as terminal.
GiveUpAnyStatus(s) == NextRefused(s)

\* A 400 is terminal here, anything else goes to the rest of the chain.
GiveUpTarget(s) == IF s.refusal.status = "400" THEN ReplyHere(s, "400") ELSE NextRefused(s)

\* _retry_strip_last_image_non_streaming: the refused call again without its
\* last image, which the messages lose for good.  A further refusal changes
\* nothing but that.
StripImage(result) ==
  LET less == [req EXCEPT !.strips = @ + 1, !.messages = StripLastImage(@)]
      s == Call(less, result, TRUE)
  IN  /\ req.phase = "refused" /\ req.strips < MaxStrips /\ result # "empty"
      /\ req.messages.images # <<>>
      /\ Step(IF result \in Refusals THEN s
              ELSE IF result = "raise" THEN GiveUpTarget(s)
              ELSE Parsed(s, result))

\* Not enabled, no tokenizer error, no image left or retries used up.
StripNothing == /\ req.phase = "refused"
                /\ req.strips \in {0, MaxStrips} \/ req.messages.images = <<>>
                /\ Step(GiveUpTarget(req))

\* The status loop's post: here a 400 is a failure like any other.
NextPost(result) ==
  LET s == Call(req, result, FALSE)
  IN  /\ req.phase = "looping" /\ result # "empty"
      /\ Step(IF result \in Refusals THEN NextRefused(Refused(s, result))
              ELSE IF result = "raise" THEN NextRefused(s)
              ELSE Parsed(s, result))

FcNext == \/ \E result \in Results :
               StreamCall(result) \/ FirstPost(result) \/ StripImage(result) \/ NextPost(result)
          \/ StreamCompletes \/ StreamBreaks \/ StripNothing

FcSpec == FcInit /\ [][FcNext]_fcVars

\* Every upstream call answers or fails within its deadline.
FcFairSpec == FcSpec /\ WF_fcVars(FcNext)

-----------------------------------------------------------------------------

Answered == req.phase = "answered"
Called == {req.calls[i].target : i \in DOMAIN req.calls}
Chained == {Attempts[k].target : k \in 1 .. Final}
Count == Len(req.calls)

\* Every target of the chain is called before the client is told that the
\* upstreams failed.
FailsOnlyWhenExhausted ==
  Answered /\ req.reply.status \in {"error", "raise"} => Chained \subseteq Called

\* The 400 of the primary ends the request: no other target is called, and
\* unless a call without images succeeds the client gets that status.  For a
\* stream that holds for every target of the chain.
StrippedWell == \E i \in DOMAIN req.calls :
  req.calls[i].again /\ req.calls[i].result \in {"ok", "garbled"}
BadRequestIsTerminal ==
  /\ config.kind = "stream" =>
       \A i \in 1 .. Count - 1 : req.calls[i].result # "400"
  /\ Count > 0 /\ ~StrippedWell => (req.calls[1].result = "400" =>
       /\ Called = {req.calls[1].target}
       /\ Answered => req.reply.status = "400")

\* Of two calls the later one is of a later place in the chain, or the same call
\* without an image.
InOrder(i, j) == \E k, m \in 1 .. Final :
  /\ Attempts[k].target = req.calls[i].target /\ Attempts[m].target = req.calls[j].target
  /\ k < m \/ (k = m /\ req.calls[j].again)

\* The targets are called in the order of the chain, and none of them twice
\* but for retries without images.  Two cases break it: a success that is not
\* JSON (the chain is walked again from the first fallback) and an open circuit
\* (its stand-in is still in the chain).
InOrderWithoutRepeat ==
  ~config.open /\ (\A i \in DOMAIN req.calls : req.calls[i].result # "garbled") =>
     \A i, j \in DOMAIN req.calls : i < j =>
       /\ InOrder(i, j)
       /\ req.calls[i].target = req.calls[j].target => req.calls[j].again

\* What the calls show of the client's images: consecutive ones, within the
\* limit of the primary.  A retry without the last image lacks exactly the
\* newest one, and what was taken out never comes back, for no target.  While
\* every limit takes out the oldest, a call before the first such retry has the
\* newest images.
Shown(i) == req.calls[i].messages.images
Consecutive(x, y) == \E a, b \in 0 .. Len(y) : x = SubSeq(y, a + 1, b)
Newest(x, y) == \E a \in 0 .. Len(y) : x = SubSeq(y, a + 1, Len(y))
WithinPrimary(x) ==
  LET limit == config.validator[Primary]
  IN  /\ limit.enabled /\ limit.max > 0 => Len(x) <= limit.max
      /\ limit.enabled /\ limit.all => x = <<>>
OldestGo == \A t \in Targets : config.validator[t].policy = "strip_first"
ImagesOfCalls ==
  \A i \in 1 .. Count :
    /\ WithinPrimary(Shown(i))
    /\ IF i = 1 THEN Consecutive(Shown(i), config.messages.images)
       ELSE IF req.calls[i].again THEN Shown(i) = Front(Shown(i - 1))
       ELSE Consecutive(Shown(i), Shown(i - 1))
    /\ OldestGo /\ (\A j \in 1 .. i : ~req.calls[j].again) =>
         Newest(Shown(i), config.messages.images)

\* The request is taken to the targets in order, each once, with no image that
\* a limit or a retry has taken out.
CallsAsPlanned == InOrderWithoutRepeat /\ ImagesOfCalls

\* A successful reply is the last response that was received, from the target
\* the reply names.
SuccessIsLatest == Answered /\ req.reply.status = "ok" =>
  /\ req.reply.from = req.calls[Count].target /\ req.reply.named = req.reply.from
  /\ req.calls[Count].result = "ok"

\* Once the client has content of a target no other target is called.
CommittedIsFinal == config.kind = "stream" =>
  \A i \in 1 .. Count - 1 : req.calls[i].result # "ok"

\* What the client is told follows from the calls: a success is of the last one,
\* a failure comes after every target, a 400 and the first content are final.
ReplyFollowsCalls ==
  FailsOnlyWhenExhausted /\ SuccessIsLatest /\ BadRequestIsTerminal /\ CommittedIsFinal

\* The loops and the recursion end with a reply, whatever the upstreams do.
AlwaysAnswered == <>Answered
=============================================================================
