# KeepRoLLMing in TLA+

KeepRoLLMing (`src/keeprollming`) is an asyncio proxy in front of OpenAI-compatible
model servers.  It resolves the model name of a chat request to a *route*, decides
whether the route has capacity and a healthy upstream, shortens and rewrites the
payload, calls the upstream (or its fallbacks), and hands the answer back, as JSON or as
a stream of SSE frames.  On the way back *filters* (of a JSON answer) or *finalizers* (of
a stream) may change the answer, reject it and ask again.

Everything runs on one event loop in one process.  Nothing is preempted between two
`await`s; what interleaves are requests, client disconnects, timers, generator
finalizers and configuration reloads at the points where something is awaited or
yielded.  That is the grain of the models here: one action per stretch of code
between two suspension points, or coarser steps where the code in between is a pure
function of one component's state.  The one worker thread that keeps state, the writer of
the performance log, has steps of its own.

## Inventory

| component | state | operations | what makes it correct | modelled in |
|---|---|---|---|---|
| Admission (`admission.py`) | one semaphore per route and value of `max_concurrent` | `acquire`, `AdmissionLease.release` | slots are conserved, the cap holds, FIFO, no lost wake-up | `Admission` |
| Circuit breaker (`circuit_breaker.py`) | state, failures in a row, time of opening, probe flag | `allow`, `record_success`, `record_failure` | shelters the upstream while open, one probe, which only its own end can take away | `CircuitBreaker` |
| Chat request (`endpoints/chat_completions.py`, `app.py`) | the lease and attempt of a request, the body generator | `process_chat_request`, `_release_admission_after_stream` | every end of a request settles both, once, but for two leaks and a probe whose client leaves | `RequestLifecycle` |
| Streamed body (`endpoints/streaming_handlers.py`, `app.py`) | five nested generators, a reader and a timer task, the stream task and its rival | `_interleave_keepalive`, `DisconnectAwareStreamingResponse` | chunks once and in order, everything closed whoever leaves | `StreamBody` |
| Fallback chain (`routing/plan.py`, both endpoints) | position in the chain, last refusal | `resolve_fallback_chain`, `upstream_stream`, `process_non_streaming_request` | order, no repetition, exhaustion before failure, no retry after output, 400 is terminal, images once taken out stay out | `FallbackChain`, `MultimodalValidator` |
| Streaming runner (`streaming/runner.py`) | the attempt, held output, budgets, terminal flags | `_run_core` | output of kept attempts exactly once and in order, terminal frames last, ledger | `StreamRunner` |
| Finalizers (`filters/*/stream.py`, `streaming/finalizers.py`) | buffers, verdicts, budgets | `process_event`, `finalize`, `reset` | no two deliver a delta, none loses one; repeats are held back | `FinalizerChain`, `StreamRunner` |
| Response filters (`filters/*/request.py`, `orchestrator/pipeline.py`) | the answer so far, a shared cache of reasoning | `process_response` of each, upstream retries, the merge | no loop gets through, replies once and in order, conversations that begin differently apart | `ResponseFilters` |
| Config and routing (`config.py`, `routing/router.py`, `auth.py`) | the live tables, the cached mtime | `check_config_reload`, the watcher, `resolve_inherited_route`, `verify_api_key` | the live tables are one acceptable text; a save is served; keys are those configured | `RouteTable`, `ConfigReload` |
| Summarization (`summary/`, `processing/summarization.py`) | the plan, the chunks to do, partial summaries | `SummaryOrchestrator`, chunking, retries, repacking | a summary tells all of the middle, once, in order; it ends | `SummaryPlan`, `Summarization` |
| Event bus (`observability/dispatcher.py`, `projectors.py`) | subscribers, bounded queues | `emit`, the projection workers | an overflow is announced without announcing itself for ever | `EventBus` |
| Status registry (`observability/route_status.py`) | in-flight table, activity | event handlers | lists who is alive, and nobody else | `RouteStatus` |
| Performance log (`performance.py`, `observability/consumers.py`) | JSONL files, archive, statistics | seed, append, archive | statistics are those of the files, across restarts | `PerformanceLog` |
| Upstream client, parser, serializer, accounting, log writer's queue | little or none | functions | functional correctness | see *Not modelled* |

A request flows through them in this order: authentication; admission (may suspend);
parsing; breaker; summarization (awaits); request filters; then either the non-streaming
walk over the fallback chain and the response filters, after which the outcome is reported
to the breaker and the lease is released in a `finally`; or a generator that nests, from
inside out, the upstream stream (which walks the chain until the first byte), the pipeline
with the runner and its finalizers, the keepalive wrapper, the handler that reports to the
breaker, and the wrapper that releases the lease.  `DisconnectAwareStreamingResponse`
iterates that generator in one task while another waits for `http.disconnect`.  Every step
publishes events, from which the status registry, the log projections and the performance
log build what they know.  A reload may replace the tables between any two requests, and
between a request's resolution and its use of what it resolved.

The hard behaviours are: a reporter that is late or never comes (breaker); a timeout
between the grant of a slot and the wake-up of its owner (admission); a body generator
that is never started, cancelled at an await, or abandoned at a `yield` (lifecycle, body);
a reader task racing a timer (body); two recovery mechanisms, a loop and a recursion, over
one chain (fallback); two barriers, two buffers and two budgets in one coroutine (runner);
finalizers that swallow a delta and still show it to the next one (chain); filters that
call upstream on their own (filters); a file that changes between the read of its text and
the read of its mtime (config); summaries that overflow and are split and merged again
(summary); notices published from inside a delivery (bus).  `PROJECT.json` lists the
hazards with their lines.

Hazards the list leaves out, because no property speaks of them: the breaker's threshold is
read from the route resolved at the request's beginning (`chat_completions.py:584`); the stand-in of
an open circuit is called with the primary's headers (`:563`, a finding); the
context length cache keeps a failed lookup's default for its TTL (`upstream/__init__.py:203`);
two requests that present one `x-request-id` share an entry of the status registry
(`app.py:529`), and its entries expire by age although the stream goes on
(`route_status.py:357`); `AsyncLogWriter.stop` cancels the loop with a batch in hand
(`async_log_writer.py:101`), dormant since nothing fills its queue; cache entries of
summaries are globbed while they may be written (`summary_cache.py:118`), dormant as well.

## Modules

| module | models | builds on |
|---|---|---|
| `CircuitBreaker`, `Guards_proofs` | the breaker of one route and the requests that hold attempts | |
| `Admission`, `Guards_proofs` | the gates of one route, asyncio's semaphore, timeouts, reloads | |
| `RequestLifecycle`, `Requests_proofs` | chat requests to one route, from admission to the end of the body | instances of both and of `StreamStages` |
| `StreamStages` | abstract: what a streamed answer promises to the rest | |
| `StreamBody`, `Streaming_proofs` | one streamed answer: generators, tasks, disconnects | refines `StreamStages` |
| `StreamRunner`, `Streaming_proofs` | the attempts of one streamed answer, with recoveries | |
| `FinalizerChain`, `_proofs` | the deltas of one attempt through the finalizers | |
| `MultimodalValidator` | what the validator leaves of a request's messages, as operators | |
| `FallbackChain`, `Requests_proofs` | one request and the targets it is tried on | extends `MultimodalValidator` |
| `ResponseFilters`, `_proofs` | conversations of non-streaming requests through filters | |
| `RouteTable` | what a configuration text means, as operators | |
| `ConfigReload`, `_proofs` | the file, the watcher and the requests | extends `RouteTable` |
| `SummaryPlan` | what is summarized and what is kept, as operators | |
| `Summarization`, `_proofs` | the calls, splits, retries and merges of one summary | extends `SummaryPlan` |
| `RouteStatus`, `PerformanceLog`, `EventBus` | the three consumers of events, as operators over a record each | |
| `Observability`, `_proofs` | requests by the events they publish, and the three consumers | extends the three |
| `MC*` | the instances for TLC, and statements quoted from documents and comments | |

**CircuitBreaker.**  `circuit` is the `_CircuitState`; the registry's functions are
operators on it (`Allows`, `AfterAllow`, `AfterSuccess`, `AfterFailure`, `AfterTick`)
so that other modules can use them.  `attempt[r]` remembers how a request was let
through, which the code does not: `record_success` and `record_failure` treat every
reporter alike, and the properties say what survives that.  Failures saturate at the
threshold and the age of an open circuit at `recovery_timeout`, the only values they
are compared with.

**Admission.**  The code's own state is small; the hard part is `asyncio.Semaphore`
under `wait_for`.  It is modelled from CPython 3.11 on, the versions the project
requires: `release` marks the oldest pending future done and takes its slot off the
free ones (`WakeNext`), and the owner runs later (`Resume`) unless its timeout comes
first (`TimeOutGranted`), which gives the slot back and wakes the next.  `setting` is
the route's configuration; `Reload` changes it at any time, and the cap is part of the
gate's key, so leases of several gates coexist.

**RequestLifecycle.**  `stage` is the place in `process_chat_request` or in the
response; the variables of `Admission` and `CircuitBreaker` are those modules' own and
every step uses their actions, so `UsesAdmission` and `UsesBreaker` say that the
composition is a refinement of each.  Two ends of a request give no slot back
(`PreparationRaises`, `StreamNeverStarts`); the constant `Losses` selects which of them are
explored.  A client that leaves drops its request's attempt, whichever it is: the handler
reports neither outcome, for the probe of a half-open circuit neither.

**StreamStages and StreamBody.**  `RequestLifecycle` takes a stream in eight or so steps;
`StreamBody` takes the same stream generator by generator.  That both speak of one thing
is checked from both sides against `StreamStages`: `StreamBody` implements it under the
mapping `StageOf` (`ImplementsStages`), and the part of a request's life that
`RequestLifecycle` spends in its body is a behaviour of it (`StreamsAsStaged`).  In
`StreamBody`, `alive` is the set of generators not yet closed, and the variables `reader`,
`timer`, `sender`, `listener` and `response` are the tasks; a cancelled task, a finished
one and one whose result has not been taken are told apart, because the code does.  A
generator dropped at a yield is closed by the event loop, outermost first, one step each
(`Finalize...`); the slot is free before the connection of its request is closed, which the
code does and no document forbids.

**StreamRunner.**  The runner's locals are one record, `run`, and its steps are
functions of that record, in the order of the code: `Absorb` (parse a frame and pass
its delta through the finalizers), then at the barrier `Decision`, and `Accept`,
`Restart` or `FallBack`; at the end `Complete`, `CompleteUnfinished`, `Fail` or
`Exhaust`.  A delta is numbered by attempt and frame; `made` is the set of what the
answer should contain, `sent` the sequence the client got.  The finalizers' verdicts are choices, bounded by what
they have seen.

`chain` has the combinations of `build_finalizers` that the runner tells apart.  A
reasoning stopper or a fuzzy tool loop stopper makes it hold the attempt's output back
(`HoldsOutput`); the exact tool loop stopper, the default, lets the output pass (`Live`) and
keeps only a call named like the one before it, and what comes behind such a call
(`Undecided`).  At the barrier it asks for another attempt when it has found a repeat and no
call has been sent (`Looping`, `Committed`), so text of the replaced attempt may be with the
client; `Released` is what it gives back.  Two stoppers in one chain share the deltas in
ways that belong to `FinalizerChain`.

After `[DONE]` the loop asks the upstream for another chunk before it notices that it is
finished (`more`).  If that raises, the handler sends an error and a `[DONE]` of its own
(`RaisedLate`), and an attempt that produced nothing is not entered in the ledger.  The
upstream is an async generator (`_stream_upstream` in `orchestrator/pipeline.py`), so
starting it cannot raise, only reading it can.

**FinalizerChain.**  The complement: one attempt, and each delta followed through tool
rewrite, timestamp, tool call assembly and the loop stoppers.  A text delta is its number
with a kind (what the regular expressions see in it); the arguments of a call are pieces of
which each is a JSON object, so none or two are not valid JSON.  `chain` says which
finalizers are on, `history` which calls the conversation had.  Text the chain holds, call
deltas it assembles and calls the stopper holds back are separate fields of `attempt`, as
they are separate buffers in the code.

**FallbackChain.**  `config` is what the request meets and never changes; `req` holds
the locals of the loops, the list of calls and the reply.  The recursion of
`process_non_streaming_request` is the pair (`level`, `pos`): where the chain of the
inner call starts, and the target called.  `req.messages` is the payload: filtered by the
primary's multimodal validator at first, filtered again by the next target's when the
function calls itself, handed on as it is by the two loops, and shortened in place by the
retry without the last image.  `ImagesOfCalls` says what that makes of the client's images.

**MultimodalValidator.**  Of the messages it keeps the images, one sequence over all
messages, and per message the number of markers in its text, `<__media__>` counted apart
because it is stripped unconditionally.  The operators follow the methods of the filter: each
message by itself, then the limit over all of them, then the switch that takes out every image.

**ResponseFilters.**  Several conversations, each with one request at a time; `req[c]`
holds the payloads (before and after the request filters), the response filters `left` to
run, the answer so far and what the current filter keeps across its own
upstream calls.  An answer becomes history, the next request is checked against it, and
`cache` is the reasoning cache shared by the process.  `Priority` is the route's
configuration, and its order the pipeline's.

`opening[c]` is the beginning of the client's part of a conversation: its user messages up to
the first with text.  `KeyOf` is `_rls_cache_key` on it: the head of the first text
(`HeadOf`, the first 120 characters of a message, empty for one without text), and the key
"default" where there is no text at all.  So two conversations may share an entry because they
begin alike, because neither has a text, or because one begins with the word "default"; and a conversation
changes its key when its first text comes later (`Further`).

**RouteTable and ConfigReload.**  A text is a record of entries with the settings they give;
`LoadUserRoutes`, `Resolved` (inheritance, with its guard against circles), `RouteKeys`
and `Acceptable` are the functions of `config.py` and `router.py` on it.  What recurs in the
code is a recursive function here: `Resolved` has one over the sets of names visited on the
way up, since the code's `visited` is all that a recursive call is given besides the route.  A list of routes may
have several of one name, which the code permits: names lead to the last, patterns and
`list_models` see each of them, so `Listed` speaks of places in the table.  `ConfigReload`
has the file, which somebody else saves at any moment by rename or in place, and the
process, which reads its mtime and its text in separate steps at import and in the
watcher.  `live` keeps the two `DEFAULTS` apart: the one `config` rebinds and the one others
imported by name.

**SummaryPlan and Summarization.**  A message has a size; a text is a sequence of pieces
with a size, and a summary says which pieces it has been told of.  `work` is the recursion
of `summarize_incremental` and `summarize_middle` as a list, first call first; `sums` are
the partial summaries.  `entry` tells who asks: the chat endpoint finds its cache entries in
the way (a finding), and calls `summarize_middle` with an empty middle only, while the
package exports that function for others; both ways in are explored.  Sizes of
transcripts, thresholds and summaries share one unit.

**RouteStatus, PerformanceLog, EventBus, Observability.**  Each consumer is a set of
operators over its record.  `Observability` reduces a request to the events it publishes:
every path of the two endpoints with its early ends, of which `SilentExits` publish
nothing.  One step may publish two events (an end and
its error).  A call stack of frames is the dispatcher's recursion; the performance log's
thread has steps between its lock, its file and its statistics.

Operators whose comment calls them a *slip* are not part of the model.  Each is the
definition that follows it with one plausible mistake in it; substituting it must
break the property `PROJECT.json` names beside it, which keeps the properties honest.

## Runs

| run | instance | states | what it shows |
|---|---|---|---|
| `breaker` | 4 requests, threshold 2, timeout 2 ticks | 1 455 | the breaker shelters the upstream, is below its threshold when closed, loses its probe to no late report, and is not open for ever |
| `admission` | 4 requests, caps 1 and 2 and unlimited, reloads | 19 746 | slots conserved, nobody overtaken or forgotten |
| `lifecycle` | 2 requests, cap 1, threshold 2 | 38 780 | every end settles slot and attempt; breaker, admission and stream stages are used as specified; what is held is given back |
| `stream_body` | 3 chunks, 2 keepalives | 5 426 | chunks relayed once and in order; nothing left running; a hanging upstream closed; the stages implemented |
| `runner` | 13 chains, up to 4 chunks an attempt, budgets 3/2/2 | 2 871 219 | what reaches the client, in which order, with which ending and budget |
| `finalizer_chain` | 20 chains, 4 deltas, 3 histories | 2 077 766 | text and calls delivered exactly once; repeats, and only repeats, held back |
| `fallback` | 3 routes, chains of up to 3 entries, depth limit 2, 2 strips, 2 payloads, 3 settings of the validators | 175 512 | the walk over the chain and the images each call carries |
| `response_filters` | 2 conversations, 3 messages, 2 requests, 4 replies, all filters | 3 640 032 | no loop gets through; replies once and in order; conversations that begin differently apart |
| `config_reload` | 6 texts, 2 saves, 2 formats, 1 request | 175 425 | what is live is one acceptable text; inheritance; keys; a save is served |
| `summary` | 122 conversations of 3 to 5 messages, 2 thresholds | 1 076 102 | a summary is exact; a retry shrinks; every path ends |
| `observability` | 2 requests, 2 projections, 1 restart, 1 lost write | 1 489 035 | who is listed is alive; statistics match the files; notices end |
| `lifecycle_slot_leak` | as `lifecycle` | | a client that leaves before the generator starts keeps its slot |

The last run is a counterexample to a docstring, quoted at the property in
`MCRequestLifecycle` and in `PROJECT.json`.  The other statements the code contradicts have
a cfg each, or one per module, outside the list of runs; each is violated, and
`PROJECT.json` says under `findings` by what code and which sentence:

| cfg | module | properties |
|---|---|---|
| `MCBreakerStaleSuccess.cfg` | `MCCircuitBreaker` | `StaysOpenUntilProbe`: a late success closes an open circuit |
| `MCLifecycleFindings.cfg` | `MCRequestLifecycle` | `CircuitSettles`: a probe whose client leaves strands the circuit; `ClientErrorsAreNotFailures`: a streamed 400 counts as a failure |
| `MCRunnerPrefixLost.cfg` | `MCStreamRunner` | `ContinuationKeepsPrefix`: the text a nudge continues is dropped; `AttemptsAreIsolated`: text of an attempt that the exact tool loop stopper replaces is with the client; `ExactlyOneDone`: an upstream that raises behind `[DONE]` |
| `MCFallbackFindings.cfg` | `MCFallbackChain` | `OwnTransport`, `NoFallbackAfter400`, `NoOrphanedMarkers`: the limit comes after the check of markers |
| `MCConfigFallback.cfg` | `MCConfigReload` | `NamedFallbackIsARoute`: routes of before a reload, fallbacks of after |
| `MCStatusNonstream.cfg` | `MCObservability` | `ExecutingIsActive`: a waiting JSON request is "preparing" |
| `MCChainFindings.cfg` | `MCFinalizerChain` | `TextExact`, `CallsAsMade` (chains with two holders), `BareCallPasses`, `CallBehindReason`, `RejectedForRepeat`, `FallbackForRepeats`, `OneFooter` |
| `MCSummaryFindings.cfg` | `MCSummarization` | `KeptOrSummarized`, `RepackedFits`, `QuestionKept`, `CacheIsNoObstacle`, `NothingCutOff`; `EveryRetryShrinks`: a long message behind the cap of the transcript is split for nothing |
| `MCFiltersFindings.cfg` | `MCResponseFilters` | `StoppedCallIsNotDelivered`, `PromptInEveryCall`, `PromptOnce`; `SaidOnceInOrder` with replies that echo a footer: a nudge cuts an accepted retry off with it |

A cfg with several properties names one and has the others, and the constants they need,
in comments: `tlc -config MCChainFindings.cfg MCFinalizerChain`.

What a passing run excepts it excepts by name, and a finding or a hazard says why:
`RequestSettled` and `HeldIsGivenBack` the two leaks of the lifecycle, the second also a probe
whose client leaves; `KeptIsDelivered` text that a live chain has sent of an attempt it then
replaces, what it has sent when a stopper's fallback message overtakes it, and calls held beside a repeat when the shared budget is used up; `TerminalFrames` the
error and `[DONE]` of an upstream that raises behind `[DONE]`; `RecoveriesCounted` the attempts
`_run_core` does not enter (one that raises, one a fallback replaces, an empty one whose
upstream raises behind `[DONE]`); `UpstreamIsClosed` a stream task that the
server's cancellation leaves alone; `ListedIsAlive` the silent exits; `StatsMatchDisk`
records whose write failed; `finalizer_chain` the chains in which two finalizers hold the
same delta; `response_filters` replies in which something follows an echoed footer, or that have
one beside calls or reasoning; `SavedIsServed` saves that no mtime shows; `RetryShrinks` calls
whose transcript is cut.

**Bounds.**  Four requests at the breaker are a probe, a late success, a late failure
and a newcomer; a threshold of two separates "one more failure" from "the last one".
Four requests at a gate of cap two are two owners, a granted and a pending waiter, the
configuration in which overtaking and lost wake-ups happen; the second cap gives the
coexisting gates.  Two requests suffice for the lifecycle, whose own hazards are about
one request and its neighbour in the queue.  Three chunks in the body are one handed over,
one in the finished reader, one not yet made; two keepalives, one before and one between
chunks.  Four chunks of the runner's first attempt
(three of the second, two of the third) are a call, a second one named like it and a third, and one after the
finish reason; the global budget of three is one less than
the own budgets together, so each of the three can be the one that is used up.  Four deltas
of a finalizer chain are a call in two deltas between or beside another call or two texts;
the tail buffer of two is the shortest that releases something.  Chains of four
targets with a depth limit below the number of entries exercise the limit, repeated
and unusable entries, and recursion inside the recursion.  Three images in two messages
lose one to the limit of the primary and one to each of two retries.  Two conversations are enough to
take each other's cache entry, and a cache of one entry is evicted by the second; one opening is a text
and the other has none, with another text or none to follow, so conversations begin alike,
differently, or become alike.  The six
texts are a chain of three ancestors, two parents, a circle with a missing parent, an
invalid inherited limit, two routes of one name and a text that does not parse; two saves are one in the middle of
the reaction to the other, and with an mtime of two values the second may look older or
the same.  Conversations have their first user message first, second and fourth, and long
and short messages everywhere; a prompt of one unit, a summary of two, a context of six, half
of it three, and a transcript cut at four are the smallest sizes at which prechunking,
splitting one message, an overflow after an HTTP failure, merging and the merge's own
overflow all happen; three attempts, where the code's default is eight, let a retry fail, be
retried and run out.  One unit of `MaxHead`/`MaxTail`
less or more decides whether a conversation of five messages has a middle; the run uses
two, the findings three.  Queues of one and archives of two records are full at once.

**Fairness.**  Weak fairness of what the event loop must do: run a ready task, a
generator finalizer, a handler, a timer, the next check of the watcher.  Upstream calls end
because each runs under the route's request timeout; streams are finite in the lifecycle
(strong fairness on their end, since between two chunks the end is not continuously
enabled), while in `stream_body` the upstream may hang for ever, and only a cancelled
reader must end.  A client reads what it is sent or leaves.  Nothing forces a disconnect, a
timeout of the queue, a reload, a save or an outcome; a file saved in place is written to
its end.  `summary` runs as long as it can (the second conjunct of its `Spec` is weak
fairness of `Next`, written without ENABLED).  For the breaker's `OpenCircuitIsTriedAgain`
requests keep coming, which is an assumption about the clients and says that the breaker
does not refuse them all.

Deadlock is checked for `breaker`, `admission` and `lifecycle`, which run for ever, and
off for the others, which end or whose number of requests, saves or chunks is bounded.

**Refinements.**  `lifecycle` checks that the composition implements `Admission`,
`CircuitBreaker` and, for each request, `StreamStages`; `stream_body` checks that the
generators implement `StreamStages` with the mapping `StageOf`.

## Proofs

Each `_proofs` module extends the module it is about (`Guards_proofs`, `Requests_proofs` and
`Streaming_proofs` two, in separate parts).  Its theorems hold for every value of
the constants that the module's named assumptions admit; TLC has checked the same formulas,
and the invariants behind them, on the instances above.  The assumptions say no more than
that bounds are naturals, caps are positive, sets of requests are finite where they are
counted, replies have the fields of a reply, conversations are lists of messages with
identities of their own, the routes of a text and the parents of a route are lists, and
the tail the timestamp keeps is longer than a footer.

**Breaker.**  `CBInv` holds for every set of requests, threshold and timeout, and from it
follow that a closed circuit is below the threshold, that the breaker shelters the upstream, and
that a half-open circuit loses its probe only when that request is dropped.  The last
(`ProbeLostOnlyByDrop`) is about reports of others: a
failure of another request clears the flag, which is harmless only because the same report
reopens the circuit; the proof needs that a half-open circuit is marked (`HalfOpenMarked`), that
the flag is down outside half-open
(`ProbeFlagOnlyHalfOpen`) and that a closed circuit is below its threshold.

**Admission.**  The state properties hold together (`AdInv`).  `SlotsConserved` counts a set
of requests, so each action's effect on `SlotsOf` is a lemma on cardinalities (add or remove
one element, or leave it alone).  It needs `DequeExact`, since a wake-up picks its request
from the deque and the count moves at the gate that request is registered with;
`NoLostWakeup` needs both, and `CapPerGate` follows from conservation.  `NoOvertaking` is an
action property: the place of a waiter in the deque is what it is about, so each action gets
a lemma on what it does to the order of those who stay (a wake-up takes the oldest pending
one, a timeout takes somebody out, nobody is put in front).

**Request life cycle.**  `LcInv` ties the `stage` of a request to its phase in `acquire` and
says that the two leaks are final; `RequestSettled` follows.  The refinements are proved step
by step: an action of the life cycle that calls the gate or the breaker is that module's
action, every other one leaves its variables alone.  So the theorems of the components hold
of the composition without being proved again (`SlotsConservedThroughout`,
`CircuitSoundThroughout`).  A probe whose client leaves
drops its attempt, which is the breaker's `Drop`, so the refinements have no hypothesis; that the
circuit is then stranded is the finding `CircuitSettles` (`MCLifecycleFindings.cfg`).

**Streamed body.**  `BodyInv` says, for each place of the stream task, which generators are
alive, what the reader can be at and who owns the slot, the connection and the timer
(`TaskAndStack`, `StackIsNested`, `ReaderAtPlace`, `Owners`).  It is the whole difficulty:
`NothingLeftBehind` is what it says of the last generator's end, and the chunks delivered are
those made except the one in a finished reader (`Relay`).  `BodyImplementsStages` proves that
each step maps under `StageOf` to a step of `StreamStages` or a stutter.  Both halves
together, this and `AnswersAsStaged`, join the model of the body to the life cycle.

**Runner.**  The steps are functions of the record `run`, and so is the invariant
(`Reading`), for every chain of finalizers and every budget.  It keeps what was made apart
into what is sent, in the prefix buffer, held as calls or waiting for the barrier, and numbers the
items: whatever is held is newer than what is sent of the same kind, so releasing it keeps
the order.  In a live chain nothing is held in the buffer, a call is sent or held but never both, and a
repeat is neither; so the only output of a replaced attempt with the client is text.
The ledger has one entry per recovery and is as long as the attempt's number
says.  An answer that is over (`Over`) has `KeptIsDelivered` and `TerminalFrames` themselves; only an error
and a `[DONE]` may be added at its end, or the charge of an empty attempt.  What the code loses is excepted in the properties by the endings
that lose it, not in the theorems.

**Finalizer chain.**  `FinalizerInvariant` has a part for an attempt that goes on
(`AttemptFits`) and one for what came of it (`Outcome`).  The first says where each delta of
text is (`Shown`): let out, in an open pseudo-call, in the tail, or turned into a call; the
held ones are the last, so what is let out later keeps the order.  And it says where each call
is (`CallsFit`): relayed as it came, kept by the assembly, or in the gate of the exact stopper,
where the calls let through are the first ones and differ in name from the one before
(`Passed`), which is why a repeat cannot be among them although its arguments are not known
yet.  What a client assembles from a list of events (`Carries`) is a fact about all of its
places; lemmas on joined lists say when another event leaves it alone and when it adds the
missing arguments.  The verdict at the end (`GateVerdict`) and the valid calls
(`ValidOnly`) are recursive functions and unrolled step by step.

The theorems have one hypothesis, `Compatible`, and each part of it is a finding: no tool
rewrite beside the timestamp and no reasoning stopper beside the exact tool loop stopper
(each pair delivers a delta twice, or loses one), and no pseudo-call beside another call (they
share an index).  Without it `TextExact` and `CallsAsMade` are false, as
`MCChainFindings.cfg` shows.  The attempt found one condition more, which the code meets: with
a tail of a single delta an echoed footer could be all of it, and with nothing left after
the footer is stripped no fresh one is written although text had been sent; 1024 characters
hold more than a footer (`TailSize`).

**Fallback chain.**  `Good` has a disjunct for every place in the two walks: how much of the
chain has been called (`Walked`), that no call but the last has settled a stream
(`Unsettled`), and which refusal a 400 of the first target may have become after a strip
(`Clear`, `OnlyHere`).  Chains, tables of routes, depth limits and messages are arbitrary.
`CallsFollowThePlan` is about the calls.  A compiled chain has no target twice and starts with
the primary (`Resolves`, by the least entry where it fails).  So the order is kept as long
as the loops never return to a place they have left: `Planned` says that every call went to a
target up to the request's place (`Reach`, one less where a call is still to be made), and one
relation, `Onward`, covers all that the loops, the recursion and the retry may do after a call.  For
the images the invariant has the messages the next call starts from: a run of those the last
call showed, the same ones while a refusal is pending (`Fresh`), since that is when the retry takes the
newest off.  Runs of runs are runs (`ConsecutiveTransitive`), which carries this through any
number of validators.

**Status registry, bus and performance log.**  `RegistryInv` says which phases the registry may show of a
request at each place (`Shown`), for every event a consumer may drop; `ListedIsAlive` follows.
`BusInv` is about the recursion: each projection whose notice is being delivered is flagged,
and no two frames of the stack announce the same one.  `LogInv` is about the writer
thread.  Of the completed requests the first are in archive and file, in their order, or lost, and
the others wait, the one in hand before the rest (`Placed`); and what the statistics hold is the
epoch's file without a record that is written and not counted yet (`Counts`).  Both speak of
subsequences by witnesses for the places (`Remains`), so a file that is archived, a restart
that forgets the statistics and a count that comes late are lemmas on those witnesses.

**Response filters.**  The invariant is per conversation (`Good`), and a lemma per action
(`...Moves`) says what the step makes of that conversation's record; the others keep theirs.
`Stopping` says what the tool loop stopper may leave, `Speaking` that the words of the answer
are those said.  Texts, calls and histories are sequences of any length: a fact about all of them
is proved by looking at the least index where it fails (`LeastNumber`, from the
well-foundedness of the naturals), which takes the place of an induction.  Two theorems
have a hypothesis on the constants, and each names a limit of the code:
`LoopsAreStopped` wants the tool loop stopper behind the two filters that bring calls
(`StopperLast`), which the default priorities say and a configuration may change; and
`AnswersAreQuoted` wants that a nudge finds nothing behind a footer (`Quotable`): replies with
a footer have it at their end and carry neither calls nor reasoning, and the filters run
in an order the default priorities permit.  Without it the property is false (`MCEchoingReplies`).
`ReasoningIsOwn` needs neither: what the cache keeps under a key was said in a conversation
that had that key then, and conversations with one key begin alike (`SameKeyIsAlike`): their
first texts have the same head, or one has no text and the other none or "default".

**Configuration.**  `CrInv` says which text is in force at each place of the process: none
before the first load, one that parses until the tables are built, an acceptable one from
then on with all tables made from it, whatever the file has become.  `LiveIsWhole` is its
part about the times at which a request may look.  `SettingsAreInherited` is a statement
about the operators and holds of every table.  Both sides recur, the code's merge (`Resolved`) and the
reading of the documentation (`Said` over `Ancestry`, the list of ancestors, nearest first),
and both are given by functions over the sets of visited names.  The proof shows that
these functions exist, since the recursion only goes to larger sets and there are
finitely many names, and compares them at every set, the largest first: a
set where they differ, with as many names as any such set, has no larger one where they do (`MostVisited`,
`OneFewer`).  Within one set the comparison is over the parents of a route, by the
least number for which it fails.  `LetInAsConfigured` follows for the keys of the route that matches and for its
entry in the list of models.  The attempt found an error in the statement it began from: a route met
again on the way up had been taken to say nothing, which is harmless as long as names are
unique.  With two routes of one name, the first in a circle with the second, the code takes
what the second says, and a list that omits it is wrong; a text of this kind is now among
those TLC loads.

**Summarization.**  `SummaryAlways` is about the summaries made and the texts still to be sent,
one after the other (`Flow`): they have the pieces of the middle in the order of the conversation,
each once, but those in `lost`.  Whatever is cut, split and gathered has the same pieces when it is
joined again (`Flat`, `FlatOfJoined`), so a retry leaves `Flow` as it is, a reply moves pieces from
the texts to a summary, and a piece that is cut off or swallowed leaves an ordered list ordered.
That there is one summary at the end is a second part (`Balanced`): read as a
program, the work list finds the summaries there are and ends with one; the chunks of a
`summarize_middle` leave as many as the merge behind them takes.  The plan contributes that the
middle is a part of what was said, whatever head and tail it chose.

`RetriesShrink` compares sizes.  A forced split halves.  Of several chunks one could have all
tokens only if the others have none, and as many texts as before only if some text was split;
then the chunk has the first part of that text, which is as long as the context, so its prompt
would not fit and it would have no other text: it is shorter than what was split.  The
step that the prompt shows that part fails where the transcript is cut before it, and there
the statement is false: the attempt found this, TLC has shown the behaviour since
(`EveryRetryShrinks`), and the property names the exception.  It had also left the last chunk of a
running summary unexamined.

A recursive function is only known by its equation, so each is first unrolled step by step
(`LoopHasResults`, the least number where it fails), and what a list of any length keeps is
proved from the steps.

**Only model-checked.**  Liveness, for which the prover has no rule: `OpenCircuitIsTriedAgain`,
`QueueDrains`, `HeldIsGivenBack`, `UpstreamIsClosed`, `AlwaysAnswered`, `SavedIsServed`,
`SummarizationEnds`.  Every other property of a passing run is a theorem.

## Plan

1. *(done)* breaker and admission with proofs, request lifecycle, runner, fallback chain.
2. *(done)* the streamed body and its stages, configuration and inheritance, the consumers
   of events, the finalizer chain, the response filters, summarization.
3. *(done)* proofs: first come first served; the life cycle and its refinements; the body and
   its stages; runner, fallback chain, registry and bus, response filters.
   The performance log, the calls of the fallback chain, the configuration with its inheritance,
   summarization, and the finalizer chain.
4. `StreamRunner` with `FinalizerChain` as its finalizers instead of choices, if an
   instance of the product stays small enough; an abstract contract of a streamed answer
   (content of kept attempts, one finish, done) that it implements.

## Not modelled, and known limits

- Bytes, JSON and wording: parser and serializer are reduced to the kind of a frame, token
  estimates to sizes, regular expressions to the pieces they match, the similarity ratio of
  the fuzzy loop detection to equal names.
- What a frame left in the same network chunk does after a recovery taken at `[DONE]`.
- A stream that ends without `[DONE]` behaves as in the code (`Exhaust`): what was held
  back is lost, and after a finish reason so is the reason's `[DONE]`.  No document says
  what such an answer should be, so no property does.
- A filter whose `process_response` raises is skipped by the pipeline with the response as it
  was (`orchestrator/pipeline.py:229`); this path is left out, since the filters catch what their
  upstream calls raise themselves (`RlsFails`, `TlsFails`, `NudgeFails`).
- `summarize_middle` called with the name of a `prompt_type`: the name then is the whole prompt
  (`summary/prompt_engine.py:256`).  No caller in the repository does this with a middle.
- Direct model entries of a fallback chain (they keep the primary's transport); of the
  payloads everything but messages, images and markers.
- The final error of the non-streaming loop carries the last status seen with the name
  of the last target tried; the properties speak of successful replies.
- Disabled breakers, several routes (each has its own breaker and gates; nothing is
  shared between them) and several event loops (the loop is part of a gate's key).
- Route patterns are the sets of names they match; regular expressions and capture
  templates are conversions of strings.
- The summary cache: entries are never usable (see the finding), nothing saves one, and so
  its matching of prefixes has no behaviour.  Custom prompts and passthrough of summaries
  are text.
- The context length cache of the upstream client, usage sums, metrics, averages and
  samples: arithmetic that no step of a protocol depends on.
- The log writer's loop and queue: nothing running enqueues (its callers run in a worker
  thread without an event loop and take the synchronous write).
- Formatters, health check, onboarding and validation scripts, the legacy fallback helper:
  wording, command line input and output, or code no request reaches.
