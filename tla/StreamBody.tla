------------------------------ MODULE StreamBody ------------------------------
(***************************************************************************)
(* One streamed answer in detail.  A stack of async generators             *)
(*                                                                         *)
(*   wrapper    _release_admission_after_stream, keeps the admission slot  *)
(*   handler    process_streaming_request, reports to the circuit breaker  *)
(*   keepalive  _interleave_keepalive, owns a reader and a timer task      *)
(*   pipeline   Pipeline.run_stream and the runner                         *)
(*   upstream   upstream_stream, holds the connection                      *)
(*                                                                         *)
(* is iterated by the stream task of DisconnectAwareStreamingResponse,     *)
(* whose __call__ races it against a task that waits for http.disconnect.  *)
(* Only the reader task runs the pipeline and the upstream.  A generator   *)
(* that is dropped at a yield is closed by the event loop later, the       *)
(* outermost first.                                                        *)
(***************************************************************************)
EXTENDS Integers, Sequences, FiniteSets, SequencesExt

CONSTANTS
  MaxChunks,      \* bound: chunks the pipeline yields
  MaxKeepalives   \* bound: keepalive markers in one behaviour

ASSUME BodyAssumption == MaxChunks \in Nat /\ MaxKeepalives \in Nat

VARIABLES
  conn,      \* the client's connection: "up" | "gone"
  response,  \* __call__: "racing" | "cancelling" (awaits the cancelled stream
             \* task) | "over"
  listener,  \* the disconnect task: "listening" | "seen" | "off"
  sender,    \* the stream task: "starting" (sends the headers), "reading"
             \* (inside the body), "sending" (a chunk), "last" (the empty
             \* body), or how it ended: "ended" | "broken" | "stopped"
  cancelled, \* stream_task.cancel() was called and has not taken effect
  pos,       \* where the body is suspended: "unstarted" | "waiting" |
             \* "at_chunk" | "at_keepalive" | "at_error" | "at_done" |
             \* "closing" (the keepalive awaits its cancelled reader)
  alive,     \* the generators of the stack that have not finished
  reader,    \* next_task: "none" | "reading" | "chunk" | "eof" | "error" |
             \* "taken" | "cancelling" | "cancelled"
  timer,     \* sleep_task: "off" | "running" | "fired"
  made,      \* chunks the pipeline has yielded
  sent,      \* what was handed to the client
  outcome,   \* what the handler reported: "none" | "success" | "failure" |
             \* "downstream_closed"
  slot,      \* the admission lease: "held" | "free" | "lost"
  upstream   \* upstream_stream: "unopened", "open", or its close_reason

tasks == <<response, listener, sender, cancelled>>
keeper == <<reader, timer>>
vars == <<conn, tasks, pos, alive, keeper, made, sent, outcome, slot, upstream>>

Stack == <<"wrapper", "handler", "keepalive", "pipeline", "upstream">>
Inner == {"pipeline", "upstream"}
Finished == {"ended", "broken", "stopped"}
Chunk(n) == [kind |-> "chunk", n |-> n]
Marker(kind) == [kind |-> kind, n |-> 0]    \* keepalive, error, done
KeepalivesSent == Len(SelectSeq(sent, LAMBDA item : item.kind = "keepalive"))

BodyInit ==
  /\ conn = "up" /\ response = "racing" /\ listener = "listening"
  /\ sender = "starting" /\ cancelled = FALSE
  /\ pos = "unstarted" /\ alive = Range(Stack)
  /\ reader = "none" /\ timer = "off"
  /\ made = 0 /\ sent = <<>> /\ outcome = "none" /\ slot = "held"
  /\ upstream = "unopened"

-----------------------------------------------------------------------------
(* The reader task, the timer and the client.                              *)

ReaderYields == /\ reader = "reading" /\ made < MaxChunks
                /\ reader' = "chunk" /\ made' = made + 1
                /\ UNCHANGED <<conn, tasks, pos, alive, timer, sent, outcome, slot, upstream>>

\* The pipeline returns or raises: its generators are finished.
ReaderFinishes(how, reason) ==
  /\ reader = "reading"
  /\ reader' = how /\ alive' = alive \ Inner /\ upstream' = reason
  /\ UNCHANGED <<conn, tasks, pos, timer, made, sent, outcome, slot>>

\* CancelledError at the await of the innermost generator unwinds them all.
ReaderCancelled == /\ reader = "cancelling"
                   /\ reader' = "cancelled" /\ alive' = alive \ Inner
                   /\ upstream' = "cancelled"
                   /\ UNCHANGED <<conn, tasks, pos, timer, made, sent, outcome, slot>>

TimerFires == /\ timer = "running" /\ timer' = "fired"
              /\ UNCHANGED <<conn, tasks, pos, alive, reader, made, sent, outcome, slot, upstream>>

ClientLeaves == /\ conn = "up" /\ conn' = "gone"
                /\ UNCHANGED <<tasks, pos, alive, keeper, made, sent, outcome, slot, upstream>>

-----------------------------------------------------------------------------
(* The stream task.                                                        *)

\* The loop of the keepalive creates a timer, and a reader unless one is left.
WaitAgain(newReader) == /\ pos' = "waiting" /\ sender' = "reading" /\ timer' = "running"
                        /\ reader' = IF newReader THEN "reading" ELSE reader

HandOver(item, place) == /\ sent' = Append(sent, item)
                         /\ pos' = place /\ sender' = "sending"

\* The headers are sent and the body runs to the first wait.
FirstStep == /\ sender = "starting" /\ ~cancelled
             /\ WaitAgain(TRUE) /\ upstream' = "open"
             /\ UNCHANGED <<conn, response, listener, cancelled, alive, made, sent, outcome, slot>>

\* asyncio.wait looks at both tasks when it resumes: a chunk goes first.
TakeChunk == /\ sender = "reading" /\ pos = "waiting" /\ ~cancelled
             /\ reader = "chunk"
             /\ HandOver(Chunk(made), "at_chunk") /\ reader' = "taken"
             /\ UNCHANGED <<conn, response, listener, cancelled, alive, timer, made, outcome, slot, upstream>>

SendKeepalive == /\ sender = "reading" /\ pos = "waiting" /\ ~cancelled
                 /\ reader = "reading" /\ timer = "fired"
                 /\ KeepalivesSent < MaxKeepalives
                 /\ HandOver(Marker("keepalive"), "at_keepalive")
                 /\ UNCHANGED <<conn, response, listener, cancelled, alive, keeper, made, outcome, slot, upstream>>

\* Slip: the timer is only cancelled when the loop goes round.
TakeEndTimerRuns ==
  /\ sender = "reading" /\ pos = "waiting" /\ ~cancelled
  /\ reader = "eof"
  /\ alive' = {} /\ outcome' = "success" /\ slot' = "free" /\ sender' = "last"
  /\ UNCHANGED <<conn, response, listener, cancelled, pos, keeper, made, sent, upstream>>

\* StopAsyncIteration: success is reported, the lease released, and the
\* response sends its last, empty body message.
TakeEnd == /\ sender = "reading" /\ pos = "waiting" /\ ~cancelled
           /\ reader = "eof"
           /\ timer' = "off" /\ alive' = {}
           /\ outcome' = "success" /\ slot' = "free" /\ sender' = "last"
           /\ UNCHANGED <<conn, response, listener, cancelled, pos, reader, made, sent, upstream>>

\* Any exception of the pipeline: failure is reported, then two frames are
\* yielded from the `except` clause.
TakeError == /\ sender = "reading" /\ pos = "waiting" /\ ~cancelled
             /\ reader = "error"
             /\ timer' = "off" /\ alive' = {"wrapper", "handler"}
             /\ outcome' = "failure" /\ HandOver(Marker("error"), "at_error")
             /\ UNCHANGED <<conn, response, listener, cancelled, reader, made, slot, upstream>>

\* Slip: a new reader for every turn of the loop, the one left included.
SentChunkRereads == /\ sender = "sending" /\ ~cancelled /\ pos \in {"at_chunk", "at_keepalive"}
                    /\ WaitAgain(TRUE)
                    /\ UNCHANGED <<conn, response, listener, cancelled, alive, made, sent, outcome, slot, upstream>>

\* After a chunk a new reader starts; after a keepalive the old one is kept.
SentChunk == /\ sender = "sending" /\ ~cancelled /\ pos \in {"at_chunk", "at_keepalive"}
             /\ WaitAgain(pos = "at_chunk")
             /\ UNCHANGED <<conn, response, listener, cancelled, alive, made, sent, outcome, slot, upstream>>

SentError == /\ sender = "sending" /\ ~cancelled /\ pos = "at_error"
             /\ HandOver(Marker("done"), "at_done")
             /\ UNCHANGED <<conn, response, listener, cancelled, alive, keeper, made, outcome, slot, upstream>>

SentErrorDone == /\ sender = "sending" /\ ~cancelled /\ pos = "at_done"
                 /\ alive' = {} /\ slot' = "free" /\ sender' = "last"
                 /\ UNCHANGED <<conn, response, listener, cancelled, pos, keeper, made, sent, outcome, upstream>>

SentLast == /\ sender = "last" /\ ~cancelled /\ sender' = "ended"
            /\ UNCHANGED <<conn, response, listener, cancelled, pos, alive, keeper, made, sent, outcome, slot, upstream>>

\* A send to a client that left may raise OSError; the body stays suspended.
SendFails == /\ sender \in {"starting", "sending", "last"} /\ ~cancelled /\ conn = "gone"
             /\ sender' = "broken"
             /\ UNCHANGED <<conn, response, listener, cancelled, pos, alive, keeper, made, sent, outcome, slot, upstream>>

\* Cancelled while sending: the task ends, the body stays suspended.
CancelledSending == /\ cancelled /\ sender \in {"starting", "sending", "last"}
                    /\ sender' = "stopped" /\ cancelled' = FALSE
                    /\ UNCHANGED <<conn, response, listener, pos, alive, keeper, made, sent, outcome, slot, upstream>>

\* Cancelled inside the body: the keepalive cancels the reader and awaits it.
CancelledWaiting == /\ cancelled /\ sender = "reading" /\ pos = "waiting" /\ reader = "reading"
                    /\ cancelled' = FALSE /\ timer' = "off"
                    /\ reader' = "cancelling" /\ pos' = "closing"
                    /\ UNCHANGED <<conn, response, listener, sender, alive, made, sent, outcome, slot, upstream>>

\* Slip: a reader that is done needs no further care.
CancelledWithResultNoClose ==
  /\ cancelled /\ sender = "reading" /\ pos = "waiting" /\ reader \in {"chunk", "eof", "error"}
  /\ cancelled' = FALSE /\ timer' = "off" /\ sender' = "stopped"
  /\ alive' = alive \cap Inner
  /\ outcome' = "downstream_closed" /\ slot' = "free"
  /\ UNCHANGED <<conn, response, listener, pos, reader, made, sent, upstream>>

\* The same with a reader that is done but was not looked at: its result is
\* dropped, aclose() finishes the pipeline and the rest unwinds.
CancelledWithResult ==
  /\ cancelled /\ sender = "reading" /\ pos = "waiting" /\ reader \in {"chunk", "eof", "error"}
  /\ cancelled' = FALSE /\ timer' = "off" /\ sender' = "stopped"
  /\ alive' = alive \cap {"upstream"}
  /\ outcome' = "downstream_closed" /\ slot' = "free"
  /\ UNCHANGED <<conn, response, listener, pos, reader, made, sent, upstream>>

\* The reader is gone: keepalive, handler and wrapper unwind in this task.
CloseDone == /\ sender = "reading" /\ pos = "closing" /\ reader = "cancelled"
             /\ sender' = "stopped" /\ alive' = {}
             /\ outcome' = "downstream_closed" /\ slot' = "free"
             /\ UNCHANGED <<conn, response, listener, cancelled, pos, keeper, made, sent, upstream>>

-----------------------------------------------------------------------------
(* The response and the finalizers of dropped generators.                  *)

DisconnectSeen == /\ listener = "listening" /\ conn = "gone" /\ listener' = "seen"
                  /\ UNCHANGED <<conn, response, sender, cancelled, pos, alive, keeper, made, sent, outcome, slot, upstream>>

\* The race is over; `finally` cancels the disconnect task.
StreamWins == /\ response \in {"racing", "cancelling"} /\ sender \in Finished
              /\ response' = "over" /\ listener' = "off"
              /\ UNCHANGED <<conn, sender, cancelled, pos, alive, keeper, made, sent, outcome, slot, upstream>>

DisconnectWins == /\ response = "racing" /\ listener = "seen" /\ sender \notin Finished
                  /\ response' = "cancelling" /\ cancelled' = TRUE
                  /\ UNCHANGED <<conn, listener, sender, pos, alive, keeper, made, sent, outcome, slot, upstream>>

\* The server cancels the request's task (its shutdown deadline): __call__
\* leaves without cancelling the stream task, which goes on.
ServerCancels == /\ response = "racing"
                 /\ response' = "over" /\ listener' = "off"
                 /\ UNCHANGED <<conn, sender, cancelled, pos, alive, keeper, made, sent, outcome, slot, upstream>>

Dropped == response = "over" /\ sender \in Finished

\* No frame of these generators was ever entered: no `finally` runs.
DropUnstarted == /\ Dropped /\ pos = "unstarted" /\ alive # {}
                 /\ alive' = {} /\ slot' = "lost"
                 /\ UNCHANGED <<conn, tasks, pos, keeper, made, sent, outcome, upstream>>

Outermost(g) == /\ g \in alive
                /\ \A i \in 1..Len(Stack) : Stack[i] \in alive =>
                     \E j \in 1..i : Stack[j] = g

\* Slip: the lease goes with the generator that is closed last.
FinalizeWrapperKeepsSlot == /\ Dropped /\ pos # "unstarted" /\ Outermost("wrapper")
                            /\ alive' = alive \ {"wrapper"}
                            /\ UNCHANGED <<conn, tasks, pos, keeper, made, sent, outcome, slot, upstream>>

\* GeneratorExit at the yield of the wrapper: its `finally` releases.
FinalizeWrapper == /\ Dropped /\ pos # "unstarted" /\ Outermost("wrapper")
                   /\ alive' = alive \ {"wrapper"} /\ slot' = "free"
                   /\ UNCHANGED <<conn, tasks, pos, keeper, made, sent, outcome, upstream>>

\* At a chunk the handler reports downstream_closed; at an error frame, which
\* is yielded inside its `except` clause, it reports nothing more.
FinalizeHandler ==
  /\ Dropped /\ Outermost("handler")
  /\ alive' = alive \ {"handler"}
  /\ outcome' = IF pos \in {"at_error", "at_done"} THEN outcome ELSE "downstream_closed"
  /\ UNCHANGED <<conn, tasks, pos, keeper, made, sent, slot, upstream>>

\* A pending reader is cancelled and awaited; otherwise the pipeline is closed.
FinalizeKeepalive ==
  /\ Dropped /\ Outermost("keepalive") /\ pos \in {"at_chunk", "at_keepalive"}
  /\ timer' = "off"
  /\ IF reader = "reading"
     THEN reader' = "cancelling" /\ pos' = "closing" /\ UNCHANGED alive
     ELSE alive' = alive \cap {"upstream"} /\ UNCHANGED <<reader, pos>>
  /\ UNCHANGED <<conn, tasks, made, sent, outcome, slot, upstream>>

KeepaliveClosed == /\ Dropped /\ pos = "closing" /\ reader = "cancelled" /\ alive # {}
                   /\ alive' = {}
                   /\ UNCHANGED <<conn, tasks, pos, keeper, made, sent, outcome, slot, upstream>>

\* The generators inside a closed pipeline are dropped at their yields.
FinalizeUpstream == /\ Outermost("upstream")
                    /\ alive' = {} /\ upstream' = "generator_exit"
                    /\ UNCHANGED <<conn, tasks, pos, keeper, made, sent, outcome, slot>>

-----------------------------------------------------------------------------
ReaderSteps == \/ ReaderYields \/ ReaderFinishes("eof", "normal")
               \/ ReaderFinishes("error", "error")
SenderSteps == \/ FirstStep \/ TakeChunk \/ SendKeepalive \/ TakeEnd \/ TakeError
               \/ SentChunk \/ SentError \/ SentErrorDone \/ SentLast
               \/ CancelledSending \/ CancelledWaiting \/ CancelledWithResult \/ CloseDone
ResponseSteps == DisconnectSeen \/ StreamWins \/ DisconnectWins
FinalizerSteps == \/ DropUnstarted \/ FinalizeWrapper \/ FinalizeHandler
                  \/ FinalizeKeepalive \/ KeepaliveClosed \/ FinalizeUpstream

BodyNext == \/ ReaderSteps \/ ReaderCancelled \/ TimerFires \/ ClientLeaves
            \/ SenderSteps \/ SendFails \/ ResponseSteps \/ ServerCancels
            \/ FinalizerSteps

BodySpec == BodyInit /\ [][BodyNext]_vars

\* The event loop runs what is ready; a send completes or fails.  Nobody has to
\* leave, and the upstream may hang: no fairness for ReaderSteps.
BodyFairSpec == /\ BodySpec
                /\ WF_vars(ReaderCancelled) /\ WF_vars(TimerFires)
                /\ WF_vars(SenderSteps) /\ WF_vars(ResponseSteps) /\ WF_vars(FinalizerSteps)

-----------------------------------------------------------------------------
BodyTypeOK ==
  /\ conn \in {"up", "gone"} /\ response \in {"racing", "cancelling", "over"}
  /\ listener \in {"listening", "seen", "off"} /\ cancelled \in BOOLEAN
  /\ sender \in {"starting", "reading", "sending", "last"} \cup Finished
  /\ alive \subseteq Range(Stack) /\ made \in 0..MaxChunks
  /\ timer \in {"off", "running", "fired"} /\ slot \in {"held", "free", "lost"}

ChunkPlaces == {p \in DOMAIN sent : sent[p].kind = "chunk"}
Delivered == {sent[p].n : p \in ChunkPlaces}

\* Every chunk of the pipeline reaches the client once and in order, however
\* reader and timer race, and the reader is never more than one chunk ahead of
\* what the client took (backpressure).  A stream reported as a success has
\* delivered all of them, an error frame comes after them.
RelayedOnce ==
  /\ \A p, q \in ChunkPlaces : p < q => sent[p].n < sent[q].n
  /\ Delivered \in {1..made, 1..(made - 1)}
  /\ outcome \in {"success", "failure"} \/ reader = "reading" => Delivered = 1..made

\* When the stack is closed no reader and no timer is left behind, the
\* upstream is closed, and the slot is no longer held.
NothingLeftBehind ==
  alive = {} /\ pos # "unstarted" =>
    /\ reader \notin {"reading", "cancelling"} /\ timer # "running"
    /\ upstream # "open" /\ slot # "held"
    /\ outcome # "none"

\* The upstream of a client that left is closed, even one that hangs, whatever
\* the body was doing; the exception is a stream task that goes on alone after
\* the server cancelled the request.
UpstreamIsClosed ==
  conn = "gone" /\ upstream = "open" ~>
    upstream # "open" \/ (response = "over" /\ sender \notin Finished)

\* The abstraction that RequestLifecycle makes of a stream.
StageOf == IF pos = "unstarted" /\ alive # {} THEN "wrapped"
           ELSE IF "wrapper" \notin alive THEN "over"
           ELSE IF sender \in Finished THEN "orphaned"
           ELSE IF pos \in {"at_error", "at_done"} THEN "reporting"
           ELSE IF sender = "sending" THEN "yielding"
           ELSE "streaming"

Stages == INSTANCE StreamStages WITH stage <- StageOf, slot <- slot
ImplementsStages == Stages!Spec
=============================================================================
