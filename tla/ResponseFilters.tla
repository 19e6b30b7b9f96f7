--------------------------- MODULE ResponseFilters ---------------------------
(***************************************************************************)
(* A non-streaming request with its filters: the request filters that      *)
(* write the payload, the call and its fallbacks, the response filters     *)
(* that may call upstream again (reasoning loop stopper, tool loop         *)
(* stopper, nudge), and the answer merged from the upstream body and what  *)
(* the filters made of it.  Clients keep several conversations: each       *)
(* answer becomes history, the next request is checked against it, and     *)
(* all of them share the module-level reasoning cache.                     *)
(*                                                                         *)
(* A text is a sequence of pieces: "fine" and "lazy" words, "xml" (a tool  *)
(* call written as text), "footer" (a timestamp) and "fallback" (a         *)
(* stopper's message).  An empty reasoning or finish reason is "".         *)
(***************************************************************************)
EXTENDS Integers, Sequences, FiniteSets, SequencesExt

CONSTANTS
    Convs,          \* the conversations
    Messages,       \* what a user message can be
    HeadOf,         \* the first 120 characters of its text, "" when it has none
    Openings,       \* the user messages a conversation may start with
    Histories,      \* the assistant turns a conversation may start with
    Replies,        \* what the model may answer: [text, calls, why, finish]
    NameOf,         \* the function name of a tool call (name and arguments)
    XmlCall,        \* the call an "xml" piece spells out
    Priority,       \* the enabled filters of the route and their priorities
    Override,       \* system_prompt.override
    Attempts,       \* length of the attempt chain
    MaxRepeats, FuzzyMax, LookBack, AbDetection,    \* tool loop stopper
    RlsRepeats,                                     \* reasoning loop stopper
    MaxAttempts, NudgeOnEmpty, FallbackMessage,     \* nudge
    CacheLimit, CacheKeep,  \* bound of the reasoning cache, and what is kept
    MaxRequests     \* bound on the requests of a behaviour

Enabled == DOMAIN Priority

\* normalize_filters refuses two enabled filters of equal priority.
FiltersAssumption ==
    /\ \A f \in Enabled : Priority[f] \in Int
    /\ \A f, g \in Enabled : Priority[f] = Priority[g] => f = g

CacheAssumption == CacheLimit \in Nat /\ CacheKeep \in Nat /\ CacheKeep < CacheLimit

TurnsAssumption == \A turns \in Histories : turns \in Seq(Range(turns))

RepliesAssumption ==
    \A r \in Replies : /\ DOMAIN r = {"text", "calls", "why", "finish"}
                       /\ r.text \in Seq(Range(r.text)) /\ r.calls \in Seq(Range(r.calls))

OpeningsAssumption == Openings \subseteq Seq(Messages)

ASSUME FiltersAssumption
ASSUME CacheAssumption
ASSUME TurnsAssumption
ASSUME RepliesAssumption
ASSUME OpeningsAssumption

VARIABLES
    opening,    \* the user messages of each conversation, up to the first with text
    history,    \* its assistant turns: [calls, why]
    cache,      \* _rls_cache in insertion order: [key, why]
    req,        \* the request each conversation has in flight
    seen,       \* the reasoning there was: by whom, when it opened how, and what
    requests    \* requests begun

vars == <<opening, history, cache, req, seen, requests>>

\* What is left of a sequence without the elements of a set: SelectSeq as a
\* function, which proofs can follow.
Without(seq, drop) ==
    LET kept[n \in 0..Len(seq)] ==
            IF n = 0 THEN <<>>
            ELSE IF seq[n] \in drop THEN kept[n - 1] ELSE Append(kept[n - 1], seq[n])
    IN  kept[Len(seq)]

\* What stands before the first of these pieces.
Before(text, piece) ==
    LET cut == {i \in DOMAIN text : text[i] = piece}
    IN  IF cut = {} THEN text
        ELSE SubSeq(text, 1, (CHOOSE i \in cut : \A j \in cut : i <= j) - 1)

Said(c, why) == [conv |-> c, opening |-> opening[c], why |-> why]

Nothing == [text |-> <<>>, calls |-> <<>>, why |-> "", finish |-> ""]

\* base, eff and sent count the prompts in the payload as it came, as it was
\* filtered, and as it was last sent.
Idle == [at |-> "idle", attempt |-> 1, looping |-> FALSE, base |-> 0, eff |-> 0, sent |-> 0,
         main |-> Nothing, left |-> Enabled, resp |-> Nothing, body |-> Nothing,
         stopped |-> {}, nudged |-> FALSE, tries |-> 0, acc |-> <<>>,
         nCalls |-> <<>>, nWhy |-> "", said |-> <<>>]

Init ==
    /\ opening \in [Convs -> Openings]
    /\ history \in [Convs -> Histories]
    /\ cache = <<>>
    /\ req = [c \in Convs |-> Idle]
    /\ seen = UNION {{Said(c, history[c][i].why) : i \in DOMAIN history[c]} : c \in Convs}
    /\ requests = 0

Set(c, q) == req' = [req EXCEPT ![c] = q]
Only(c) == UNCHANGED <<opening, history, cache, seen, requests>>

-----------------------------------------------------------------------------
(* Request filters and the call *)

\* Copies of the configured prompt in a payload once the filter has run.
Prompted(n) ==
    IF "system_prompt" \notin Enabled THEN n ELSE IF Override THEN 1 ELSE n + 1

Begin(c) ==
    /\ req[c].at = "idle" /\ requests < MaxRequests
    /\ requests' = requests + 1
    /\ Set(c, [Idle EXCEPT !.at = "calling", !.eff = Prompted(0), !.sent = Prompted(0)])
    /\ UNCHANGED <<opening, history, cache, seen>>

Words(text) == Without(text, {"xml", "footer"})

UpstreamAnswers(c) ==
    /\ req[c].at = "calling"
    /\ \E r \in Replies :
          Set(c, [req[c] EXCEPT !.at = "filtering", !.main = r, !.resp = r,
                                !.said = Words(r.text)])
    /\ Only(c)

\* An error status: the next attempts get the same payload, whatever each fails of;
\* a 400 or the end of the chain ends the request.
StatusFails(c) ==
    /\ req[c].at = "calling"
    /\ \/ /\ req[c].attempt < Attempts
          /\ Set(c, [req[c] EXCEPT !.attempt = @ + 1, !.looping = TRUE])
       \/ Set(c, [req[c] EXCEPT !.at = "failed"])
    /\ Only(c)

\* No answer at all: the inner call takes the filtered payload and filters it again.
TransportFails(c) ==
    LET again == Prompted(req[c].eff) IN
    /\ req[c].at = "calling" /\ ~req[c].looping
    /\ IF req[c].attempt < Attempts
       THEN Set(c, [req[c] EXCEPT !.attempt = @ + 1, !.base = req[c].eff,
                                  !.eff = again, !.sent = again])
       ELSE Set(c, [req[c] EXCEPT !.at = "failed"])
    /\ Only(c)

-----------------------------------------------------------------------------
(* The chain of response filters *)

\* Filters run in the order of their priorities.
Current(c, f) ==
    /\ req[c].at = "filtering" /\ f \in req[c].left
    /\ \A g \in req[c].left : Priority[f] <= Priority[g]

\* The filter f returned resp: the next one runs.
Pass(q, f, resp) == [q EXCEPT !.at = "filtering", !.left = @ \ {f}, !.resp = resp]

\* Slip: the retry's text replaces the text it was to continue.
JoinedReplaces(resp, text, calls, why) ==
    [text |-> text, calls |-> calls, why |-> why,
     finish |-> IF calls = <<>> THEN "stop" ELSE "tool_calls"]

\* A reply added to what was answered before: the reason is never the fragment's.
Joined(resp, text, calls, why) ==
    [text |-> resp.text \o text, calls |-> calls, why |-> why,
     finish |-> IF calls = <<>> THEN "stop" ELSE "tool_calls"]

\* One more call, made by a filter itself, with the payload before the request filters.
Retrying(q, at) == [q EXCEPT !.at = at, !.sent = q.base]

FellBack == [text |-> <<"fallback">>, calls |-> <<>>, why |-> "", finish |-> ""]

PassFilter(c) ==
    /\ Current(c, "system_prompt")
    /\ Set(c, Pass(req[c], "system_prompt", req[c].resp))
    /\ Only(c)

HasXml(text) == "xml" \in Range(text)
WithoutXml(text) == Without(text, {"xml"})

RunRewrite(c) ==
    LET resp == req[c].resp IN
    /\ Current(c, "tool_rewrite")
    /\ Set(c, Pass(req[c], "tool_rewrite", IF HasXml(resp.text)
                            THEN [resp EXCEPT !.text = WithoutXml(@), !.calls = <<XmlCall>>]
                            ELSE resp))
    /\ Only(c)

\* The final run of footers goes; a text without words but with calls is left alone.
Unstamped(text) ==
    LET n == CHOOSE n \in 0..Len(text) :
                /\ \A i \in n + 1..Len(text) : text[i] = "footer"
                /\ n > 0 => text[n] # "footer"
    IN  SubSeq(text, 1, n)

RunTimestamp(c) ==
    LET q == req[c]
        text == Unstamped(q.resp.text)
    IN  /\ Current(c, "timestamp")
        /\ Set(c, IF text = <<>> /\ (q.resp.calls # <<>> \/ q.resp.text = <<>>)
                  THEN Pass(q, "timestamp", q.resp)
                  ELSE Pass(q, "timestamp", [q.resp EXCEPT !.text = Append(text, "footer")]))
        /\ Only(c)

-----------------------------------------------------------------------------
(* Reasoning loop stopper *)

\* Slip: the key of a conversation whose messages are not looked at.
KeyOfNobody(messages) == "default"

\* The beginning of the first message with text; without text, a key for all.
KeyOf(messages) ==
    LET told == {i \in DOMAIN messages : HeadOf[messages[i]] # ""}
    IN  IF told = {} THEN "default"
        ELSE HeadOf[messages[CHOOSE i \in told : \A j \in told : i <= j]]

Cached(key) ==
    LET hits == {i \in DOMAIN cache : cache[i].key = key}
    IN  IF hits = {} THEN "" ELSE cache[CHOOSE i \in hits : TRUE].why

LastReasoning(c) ==
    LET said == {i \in DOMAIN history[c] : history[c][i].why # ""}
    IN  IF said # {} THEN history[c][CHOOSE i \in said : \A j \in said : j <= i].why
        ELSE Cached(KeyOf(opening[c]))

Bounded(entries) ==
    IF Len(entries) > CacheLimit
    THEN SubSeq(entries, Len(entries) - CacheKeep + 1, Len(entries)) ELSE entries

CacheWith(key, why) ==
    IF \E i \in DOMAIN cache : cache[i].key = key
    THEN [i \in DOMAIN cache |-> IF cache[i].key = key THEN [key |-> key, why |-> why]
                                 ELSE cache[i]]
    ELSE Bounded(Append(cache, [key |-> key, why |-> why]))

Names(calls) == {NameOf[calls[i]] : i \in DOMAIN calls}

\* The same reasoning with other functions than the previous turn is no loop.
OtherActions(c) ==
    LET now == Names(req[c].resp.calls)
        before == IF history[c] = <<>> THEN {} ELSE Names(Last(history[c]).calls)
    IN  now # {} /\ before # {} /\ now # before

RlsPasses(c) ==
    LET why == req[c].resp.why IN
    /\ Current(c, "rls")
    /\ \/ why = "" /\ UNCHANGED <<cache, seen>>
       \/ /\ why # ""
          /\ \/ why # LastReasoning(c)
             \/ RlsRepeats = 0
             \/ OtherActions(c)
          /\ cache' = CacheWith(KeyOf(opening[c]), why)
          /\ seen' = seen \cup {Said(c, why)}
    /\ Set(c, Pass(req[c], "rls", req[c].resp))
    /\ UNCHANGED <<opening, history, requests>>

RlsDetects(c) ==
    LET why == req[c].resp.why IN
    /\ Current(c, "rls")
    /\ why # "" /\ why = LastReasoning(c) /\ RlsRepeats > 0 /\ ~OtherActions(c)
    /\ Set(c, Retrying(req[c], "rls"))
    /\ Only(c)

RlsReturns(c) ==
    /\ req[c].at = "rls"
    /\ \E r \in Replies :
          Set(c, [Pass(req[c], "rls", Joined(req[c].resp, r.text, r.calls, r.why))
                    EXCEPT !.said = @ \o Words(r.text)])
    /\ Only(c)

RlsFails(c) ==
    /\ req[c].at = "rls"
    /\ Set(c, [Pass(req[c], "rls", FellBack) EXCEPT !.said = <<"fallback">>])
    /\ Only(c)

-----------------------------------------------------------------------------
(* Tool loop stopper *)

Signatures(c) == FlattenSeq([i \in DOMAIN history[c] |-> history[c][i].calls])

\* How many calls at the end of the history are this one.
Consecutive(sigs, call) ==
    CHOOSE n \in 0..Len(sigs) :
        /\ \A i \in Len(sigs) - n + 1..Len(sigs) : sigs[i] = call
        /\ n < Len(sigs) => sigs[Len(sigs) - n] # call

Recent(sigs) == IF LookBack > 0 /\ LookBack < Len(sigs)
                THEN SubSeq(sigs, Len(sigs) - LookBack + 1, Len(sigs)) ELSE sigs

Alternates(sigs, call) ==
    LET n == Len(sigs) IN n >= 3 /\ sigs[n - 2] = sigs[n] /\ sigs[n - 1] = call

ExactLoop(sigs, call) == MaxRepeats > 0 /\ Consecutive(sigs, call) >= MaxRepeats

FuzzyLoop(sigs, call) ==
    FuzzyMax > 0 /\ Len(SelectSeq(Recent(sigs), LAMBDA s : s = call)) >= FuzzyMax

IsLoop(sigs, call) ==
    \/ ExactLoop(sigs, call)
    \/ FuzzyLoop(sigs, call)
    \/ AbDetection /\ Alternates(sigs, call)

\* The first call of the response that loops.
Looping(c) ==
    LET calls == req[c].resp.calls
        loops == {i \in DOMAIN calls : IsLoop(Signatures(c), calls[i])}
    IN  IF loops = {} THEN {}
        ELSE {calls[CHOOSE i \in loops : \A j \in loops : i <= j]}

TlsPasses(c) ==
    /\ Current(c, "tls")
    /\ Looping(c) = {}
    /\ Set(c, Pass(req[c], "tls", req[c].resp))
    /\ Only(c)

TlsDetects(c) ==
    /\ Current(c, "tls")
    /\ Looping(c) # {}
    /\ Set(c, [Retrying(req[c], "tls") EXCEPT !.stopped = Looping(c)])
    /\ Only(c)

\* A call written as text counts as a call when the reply has no other.
AsCalls(r) == IF r.calls = <<>> /\ HasXml(r.text) THEN <<XmlCall>> ELSE r.calls
CutAtXml(text) == Before(text, "xml")
AsText(r) == IF r.calls = <<>> THEN CutAtXml(r.text) ELSE r.text

\* Slip: one new call lets the repeated one through with it.
NewCallsKeptTogether(q, calls) ==
    IF \E i \in DOMAIN calls : calls[i] \notin q.stopped THEN calls ELSE <<>>

NewCalls(q, calls) == Without(calls, q.stopped)

TlsReturns(c) ==
    LET q == req[c] IN
    /\ q.at = "tls"
    /\ \E r \in Replies :
          LET calls == AsCalls(r)
              new == NewCalls(q, calls)
          IN  Set(c, IF calls # <<>> /\ new = <<>>
                     THEN [Pass(q, "tls", FellBack) EXCEPT !.said = <<"fallback">>]
                     ELSE [Pass(q, "tls", Joined(q.resp, AsText(r), new, r.why))
                             EXCEPT !.said = @ \o Words(AsText(r))])
    /\ Only(c)

\* A timeout falls back; any other failure is an empty reply without calls.
TlsFails(c) ==
    LET q == req[c] IN
    /\ q.at = "tls"
    /\ \/ Set(c, [Pass(q, "tls", FellBack) EXCEPT !.said = <<"fallback">>])
       \/ Set(c, Pass(q, "tls", Joined(q.resp, <<>>, <<>>, "")))
    /\ Only(c)

-----------------------------------------------------------------------------
(* Nudge *)

\* Everything from the first footer on.
Unfooted(text) == Before(text, "footer")

Lazy(text) == text # <<>> /\ Last(text) = "lazy"

NeedsNudge(q) ==
    LET text == Unfooted(q.resp.text) IN
    /\ \/ NudgeOnEmpty /\ text = <<>>
       \/ Lazy(text) /\ ~HasXml(text)
    /\ q.resp.calls = <<>>

NudgePasses(c) ==
    /\ Current(c, "nudge")
    /\ ~NeedsNudge(req[c])
    /\ Set(c, Pass(req[c], "nudge", req[c].resp))
    /\ Only(c)

Nudge(c) ==
    /\ Current(c, "nudge")
    /\ NeedsNudge(req[c])
    /\ Set(c, [Retrying(req[c], "nudge") EXCEPT !.acc = Unfooted(req[c].resp.text)])
    /\ Only(c)

\* The loop is over: the first text, what every retry added, the last calls.
Nudged(q, text) ==
    LET whole == [text |-> text, calls |-> q.nCalls, why |-> q.nWhy,
                  finish |-> IF q.nCalls = <<>> THEN "stop" ELSE "tool_calls"]
    IN  [Pass(q, "nudge", whole) EXCEPT !.nudged = TRUE]

GaveUp(q, text) ==
    Nudged(q, IF FallbackMessage THEN Append(text, "fallback") ELSE text)

\* A reply as the retry reads it: its call may be written at the end of the text.
XmlAtEnd(q, r) == r.calls = <<>> /\ q.nCalls = <<>> /\ r.text # <<>> /\ Last(r.text) = "xml"

NudgeReturns(c) ==
    LET q == req[c] IN
    /\ q.at = "nudge"
    /\ \E r \in Replies :
          LET text == IF XmlAtEnd(q, r) THEN CutAtXml(r.text) ELSE r.text
              calls == IF XmlAtEnd(q, r) THEN <<XmlCall>> ELSE r.calls
              q1 == [q EXCEPT !.tries = @ + 1,
                              !.nCalls = IF calls # <<>> THEN calls ELSE @,
                              !.nWhy = IF r.why # "" THEN r.why ELSE @,
                              !.acc = q.acc \o text,
                              !.said = @ \o Words(text)]
          IN  Set(c, IF text = <<>> /\ calls = <<>> THEN GaveUp(q1, q.acc)
                     ELSE IF ~Lazy(text) THEN Nudged(q1, q1.acc)
                     ELSE IF q1.tries = MaxAttempts THEN GaveUp(q1, q1.acc)
                     ELSE Retrying(q1, "nudge"))
    /\ Only(c)

\* No JSON ends the nudging, a transport error leaves the filter: the response before it stays.
NudgeFails(c) ==
    LET q == req[c] IN
    /\ q.at = "nudge"
    /\ \/ Set(c, GaveUp(q, q.acc))
       \/ Set(c, [Pass(q, "nudge", q.resp) EXCEPT !.said = Words(q.resp.text)])
    /\ Only(c)

-----------------------------------------------------------------------------
(* The answer *)

\* The upstream body, with what the filters changed written over it.
Merged(q) ==
    [text |-> q.resp.text,
     calls |-> IF q.resp.calls # <<>> THEN q.resp.calls ELSE q.main.calls,
     why |-> IF q.resp.why # "" THEN q.resp.why ELSE q.main.why,
     finish |-> IF q.resp.calls # <<>> THEN "tool_calls"
                ELSE IF q.resp.finish # "" THEN q.resp.finish ELSE q.main.finish]

Answer(c) ==
    /\ req[c].at = "filtering" /\ req[c].left = {}
    /\ Set(c, [req[c] EXCEPT !.at = "answered", !.body = Merged(req[c])])
    /\ Only(c)

\* What a client may add: a message of its own, which is of no matter behind one
\* with text, or none (the results of its tools).
Further(c) ==
    {<<>>} \cup IF \A i \in DOMAIN opening[c] : HeadOf[opening[c][i]] = ""
               THEN {<<m>> : m \in Messages} ELSE {}

\* The client goes on with the answer in its history, its reasoning kept or not.
NextTurn(c) ==
    /\ req[c].at \in {"answered", "failed"}
    /\ Set(c, Idle)
    /\ IF req[c].at = "failed" THEN UNCHANGED <<history, seen>>
       ELSE \E why \in {"", req[c].body.why} :
               /\ history' = [history EXCEPT ![c] =
                                Append(@, [calls |-> req[c].body.calls, why |-> why])]
               /\ seen' = seen \cup {Said(c, why)}
    /\ \E more \in Further(c) : opening' = [opening EXCEPT ![c] = @ \o more]
    /\ UNCHANGED <<cache, requests>>

Next ==
    \E c \in Convs :
        \/ Begin(c) \/ UpstreamAnswers(c) \/ StatusFails(c) \/ TransportFails(c)
        \/ PassFilter(c) \/ RunRewrite(c) \/ RunTimestamp(c)
        \/ RlsPasses(c) \/ RlsDetects(c) \/ RlsReturns(c) \/ RlsFails(c)
        \/ TlsPasses(c) \/ TlsDetects(c) \/ TlsReturns(c) \/ TlsFails(c)
        \/ NudgePasses(c) \/ Nudge(c) \/ NudgeReturns(c) \/ NudgeFails(c)
        \/ Answer(c) \/ NextTurn(c)

Spec == Init /\ [][Next]_vars

-----------------------------------------------------------------------------
(* Properties *)

\* What the filters let through has no looping call (exact, fuzzy or alternating),
\* whichever retry brought it, and after a stop it has not the stopped call; a nudge,
\* which runs after the tool loop stopper, may bring one back.
NoLoopGetsThrough ==
    \A c \in Convs : LET q == req[c] IN
        q.at = "answered" /\ "tls" \in Enabled /\ ~q.nudged =>
            \A i \in DOMAIN q.resp.calls :
                /\ q.resp.calls[i] \notin q.stopped
                /\ q.stopped = {} => ~IsLoop(Signatures(c), q.resp.calls[i])

\* The answer is what the model said in the replies that were accepted, each once
\* and in the order they came, whatever filters retried, and a stopper's message
\* stands for all that came before it.
SaidOnceInOrder ==
    \A c \in Convs : LET q == req[c] IN
        q.at = "answered" /\ ~FallbackMessage => Words(q.body.text) = q.said

\* The beginning of the first text a user gave, if any, and whether two
\* conversations began alike then; a text that says "default" is like none.
Start(messages) ==
    {HeadOf[messages[i]] : i \in {i \in DOMAIN messages :
        /\ HeadOf[messages[i]] # ""
        /\ \A j \in DOMAIN messages : j < i => HeadOf[messages[j]] = ""}}
Alike(messages, others) == \/ Start(messages) = Start(others)
                           \/ {Start(messages), Start(others)} = {{}, {"default"}}

\* The reasoning stopper interrupts a conversation only for what it has said
\* itself, or one that had begun alike, though all share one cache ("keyed by
\* conversation prefix") and a conversation without text may begin later.
StaysInItsConversation ==
    \A c \in Convs : req[c].at = "rls" =>
        \E s \in seen : /\ s.why = req[c].resp.why
                        /\ s.conv = c \/ Alike(s.opening, opening[c])

\* "Return reconstructed response without the repeated tool call"
\* (filters/tool_loop_stopper/request.py:13): the body has no call that was stopped.
StoppedCallIsNotDelivered ==
    \A c \in Convs : LET q == req[c] IN
        q.at = "answered" /\ ~q.nudged => Range(q.body.calls) \cap q.stopped = {}

\* "Inject or override the system prompt in every request"
\* (filters/system_prompt/request.py:30): every call upstream carries it.
PromptInEveryCall ==
    \A c \in Convs : "system_prompt" \in Enabled /\ req[c].at # "idle" => req[c].sent > 0

\* A prompt is injected, not accumulated: no call upstream carries it twice.
PromptOnce ==
    \A c \in Convs : req[c].sent < 2
=============================================================================
