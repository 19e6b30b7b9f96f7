---------------------------- MODULE Observability ----------------------------
(***************************************************************************)
(* What the runtime events of chat requests make of the three consumers    *)
(* that keep state: the status registry (called at once), the queued       *)
(* projections (called at once, written later) and the performance log     *)
(* (a task per completed request).  A request is reduced to the events it  *)
(* publishes and the order they come in.                                   *)
(***************************************************************************)
EXTENDS Naturals, Sequences, FiniteSets, RouteStatus, PerformanceLog, EventBus

CONSTANTS MaxAttempts,  \* upstream attempts of one request
          MaxRestarts,  \* bound: restarts of the process
          MaxLost       \* bound: failed writes of the log

ASSUME LimitsAssumption == /\ MaxAttempts \in Nat \ {0}
                           /\ MaxRestarts \in Nat /\ MaxLost \in Nat

VARIABLES req,       \* every request: where it is, its kind, its attempts
          registry,  \* RouteStatusRegistry
          log,       \* the performance log and its consumer
          bus,       \* the frames of the emission under way
          proj,      \* the queued projections
          answered,  \* history: requests in the order of their completion
          restarts

vars == <<req, registry, log, bus, proj, answered, restarts>>

Alive == {"queued", "parsing", "resolved", "body", "connecting", "open",
          "failing", "dispatched", "posting", "retrying"}
(* How a request may end without an event that the registry takes as its   *)
(* end.                                                                    *)
SilentExits == {"bad_body", "circuit_open", "raised", "unstarted",
                "queue_cancelled"}

NewRequest == [at |-> "new", stream |-> FALSE, attempt |-> 0, exit |-> None]

Init == /\ req = [r \in Requests |-> NewRequest]
        /\ registry = EmptyRegistry
        /\ log = EmptyLog
        /\ bus = <<>>
        /\ proj = [p \in Names |-> NewProjector]
        /\ answered = <<>>
        /\ restarts = 0

TypeOK == /\ registry \in RegistryType
          /\ proj \in [Names -> ProjectorType]
          /\ log.step \in {None, "append", "count"}
          /\ restarts \in 0..MaxRestarts

-----------------------------------------------------------------------------
(* Publishing: EventDispatcher.emit of one or two events in a row.         *)

Event(r, type) == [type |-> type, req |-> r, stream |-> req[r].stream]

(* create_task for the log's consumer, a fair lock behind it.              *)
LogAfter(types, r) ==
  IF "request_complete" \in ToSet(types) THEN Scheduled(log, r) ELSE log

(* Nothing runs between the two, so the registry may take both first.      *)
Noted(r, types) ==
  LET first == Consumed(registry, Event(r, types[1]))
  IN  IF Len(types) = 1 THEN first ELSE Consumed(first, Event(r, types[2]))

Publish(r, types) ==
  /\ registry' = Noted(r, types)
  /\ log' = LogAfter(types, r)
  /\ bus' = IF Projectors = <<>> THEN <<>>
            ELSE [i \in DOMAIN types |-> Frame(types[i], None)]
  /\ answered' = IF "request_complete" \in ToSet(types)
                 THEN Append(answered, r) ELSE answered
  /\ UNCHANGED <<proj, restarts>>

Silent == UNCHANGED <<registry, log, bus, proj, answered, restarts>>

Go(r, from, to) == /\ req[r].at \in from
                   /\ req' = [req EXCEPT ![r].at = to]
Try(r, from, to) == /\ req[r].at \in from
                    /\ req' = [req EXCEPT ![r].at = to, ![r].attempt = @ + 1]
Leave(r, from, exit) ==
  /\ req[r].at \in from
  /\ req' = [req EXCEPT ![r].at = "gone", ![r].exit = exit]
Successor(r) == req[r].attempt < MaxAttempts

-----------------------------------------------------------------------------
(* Admission, parsing and routing                                          *)

Arrives(r) == \E stream \in BOOLEAN, gated \in BOOLEAN :
  /\ req[r].at = "new"
  /\ req' = [req EXCEPT ![r].at = "parsing", ![r].stream = stream]
  /\ IF gated THEN Publish(r, <<"acquired">>) ELSE Silent

ArrivesQueued(r) == \E stream \in BOOLEAN :
  /\ req[r].at = "new"
  /\ req' = [req EXCEPT ![r].at = "queued", ![r].stream = stream]
  /\ Publish(r, <<"queued">>)

Admitted(r) == Go(r, {"queued"}, "parsing") /\ Publish(r, <<"acquired">>)
Refused(r) == Leave(r, {"queued"}, "refused") /\ Publish(r, <<"rejected">>)

(* A cancelled waiter: the middleware's own emit_cancelled names no        *)
(* dispatcher and reaches no consumer.                                     *)
QueueCancelled(r) == Leave(r, {"queued"}, "queue_cancelled") /\ Silent

BadBody(r) == Leave(r, {"parsing"}, "bad_body") /\ Silent
(* An upstream URL without a scheme is reported, repaired and used.        *)
Resolved(r) ==
  /\ Go(r, {"parsing"}, "resolved")
  /\ \/ Publish(r, <<"route_resolved">>)
     \/ Publish(r, <<"invalid_upstream", "route_resolved">>)

CircuitOpen(r) == Leave(r, {"resolved"}, "circuit_open") /\ Silent
Raises(r) == Leave(r, {"resolved", "dispatched"}, "raised") /\ Silent
Dispatched(r) ==
  /\ Go(r, {"resolved"}, IF req[r].stream THEN "body" ELSE "dispatched")
  /\ Publish(r, <<"request_route">>)

-----------------------------------------------------------------------------
(* A streamed answer                                                       *)

Connects(r) == /\ Successor(r)
               /\ Try(r, {"body"}, "connecting")
               /\ Publish(r, <<"upstream_connect">>)
Connected(r) == /\ Go(r, {"connecting"}, "open")
                /\ Publish(r, <<"upstream_connected">>)
FailsOver(r) == Successor(r) /\ Go(r, {"connecting", "open"}, "body") /\ Silent
StatusFailsOver(r) == /\ Successor(r)
                      /\ Go(r, {"open"}, "body")
                      /\ Publish(r, <<"upstream_error">>)
(* emit_handler_error, and upstream_error before it for an HTTP status;    *)
(* the record follows the two frames of the error.                         *)
StreamFails(r) ==
  /\ Go(r, {"connecting", "open"}, "failing")
  /\ \/ Publish(r, <<"handler_error">>)
     \/ /\ req[r].at = "open"
        /\ Publish(r, <<"upstream_error", "handler_error">>)
FailureRecorded(r) == /\ Leave(r, {"failing"}, "failed")
                      /\ Publish(r, <<"request_complete">>)
StreamEnds(r) == /\ Leave(r, {"open"}, "answered")
                 /\ Publish(r, <<"request_complete">>)
(* The disconnect is seen first; the body, when it has begun, is cancelled *)
(* after that.                                                             *)
ClientLeaves(r) ==
  /\ Leave(r, {"body", "connecting", "open", "failing"}, "left")
  /\ IF req[r].attempt = 0 THEN Publish(r, <<"cancelled">>)
     ELSE Publish(r, <<"cancelled", "downstream_closed">>)
(* The response task is cancelled before its body has begun.               *)
BodyUnstarted(r) == /\ req[r].attempt = 0
                    /\ Leave(r, {"body"}, "unstarted")
                    /\ Silent

-----------------------------------------------------------------------------
(* A non-streamed answer: process_non_streaming_request, once for the      *)
(* primary and again for every transport failure.                          *)

Posts(r) == /\ Successor(r)
            /\ Try(r, {"dispatched"}, "posting")
            /\ Publish(r, <<"route_resolved">>)
AnswerPublished(r) ==
  \/ Publish(r, <<"request_complete">>)
  \/ Publish(r, <<"pipeline_error", "request_complete">>)
Answers(r) == Leave(r, {"posting"}, "answered") /\ AnswerPublished(r)
StatusFails(r) == /\ Go(r, {"posting"}, "retrying")
                  /\ Publish(r, <<"upstream_error">>)
RetryAnswers(r) == /\ Successor(r)
                   /\ Leave(r, {"retrying"}, "answered")
                   /\ AnswerPublished(r)
RetryFails(r) == /\ Successor(r)
                 /\ Try(r, {"retrying"}, "retrying")
                 /\ Publish(r, <<"upstream_error">>)
GivesUp(r) == Leave(r, {"retrying"}, "upstream_status") /\ Silent
(* Any exception behind the answer counts, also of a retry's answer.       *)
TransportFailsOver(r) == /\ Successor(r)
                         /\ Go(r, {"posting", "retrying"}, "dispatched")
                         /\ Silent
TransportFails(r) == \E end \in {"timeout", "failed"} :
  /\ ~Successor(r)
  /\ Leave(r, {"posting", "retrying"}, end)
  /\ Publish(r, <<end, "request_complete">>)

-----------------------------------------------------------------------------
RequestStep(r) ==
  \/ Arrives(r) \/ ArrivesQueued(r) \/ Admitted(r) \/ Refused(r)
  \/ QueueCancelled(r) \/ BadBody(r) \/ Resolved(r)
  \/ CircuitOpen(r) \/ Raises(r) \/ Dispatched(r) \/ Connects(r)
  \/ Connected(r) \/ FailsOver(r) \/ StatusFailsOver(r) \/ StreamFails(r)
  \/ FailureRecorded(r) \/ StreamEnds(r) \/ ClientLeaves(r)
  \/ BodyUnstarted(r) \/ Posts(r) \/ Answers(r) \/ StatusFails(r)
  \/ RetryAnswers(r) \/ RetryFails(r) \/ GivesUp(r)
  \/ TransportFailsOver(r) \/ TransportFails(r)

Deliver == /\ bus # <<>>
           /\ proj' = DeliveredProj(proj, bus)
           /\ bus' = DeliveredBus(proj, bus)
           /\ UNCHANGED <<req, registry, log, answered, restarts>>

Keep == UNCHANGED <<req, registry, bus, proj, answered, restarts>>
TaskRuns == Idle(log) /\ log.tasks # <<>> /\ log' = Taken(log) /\ Keep
AppendsRecord == \E ok \in BOOLEAN :
  /\ log.step = "append"
  /\ ok \/ Cardinality(log.lost) < MaxLost
  /\ log' = Appended(log, ok)
  /\ Keep
CountsRecord == log.step = "count" /\ log' = Counted(log) /\ Keep

WorkerTakes(p) == /\ CanTake(proj, p)
                  /\ proj' = Took(proj, p)
                  /\ UNCHANGED <<req, registry, log, bus, answered, restarts>>
WorkerWrote(p) == /\ proj[p].busy
                  /\ proj' = Wrote(proj, p)
                  /\ UNCHANGED <<req, registry, log, bus, answered, restarts>>

HourPasses(r) == /\ Listed(registry, r)
                 /\ registry' = Pruned(registry, r)
                 /\ UNCHANGED <<req, log, bus, proj, answered, restarts>>

(* The process ends, killed or stopped (a stop waits for no task of the    *)
(* log either), and starts again.                                          *)
Restart ==
  /\ restarts < MaxRestarts
  /\ restarts' = restarts + 1
  /\ req' = [r \in Requests |-> IF req[r].at \in Alive
               THEN [req[r] EXCEPT !.at = "gone", !.exit = "restart"]
               ELSE req[r]]
  /\ registry' = Seeded(log.disk)
  /\ log' = Reloaded(log)
  /\ proj' = [p \in Names |-> NewProjector]
  /\ UNCHANGED <<bus, answered>>

(* An emission runs to its end before the event loop does anything else.   *)
LoopStep == /\ bus = <<>>
            /\ \/ \E r \in Requests : RequestStep(r) \/ HourPasses(r)
               \/ \E p \in Names : WorkerTakes(p) \/ WorkerWrote(p)
               \/ TaskRuns \/ Restart

Next == LoopStep \/ Deliver \/ AppendsRecord \/ CountsRecord

Spec == Init /\ [][Next]_vars

-----------------------------------------------------------------------------
(* The registry lists nobody who is gone, except requests that left by one *)
(* of the exits that publish nothing (and those only until an hour has     *)
(* passed), and never says of a streamed request that it is streaming      *)
(* before an upstream has answered.                                        *)
ListedIsAlive ==
  \A r \in Requests : Listed(registry, r) =>
    /\ req[r].at \in Alive \/ req[r].exit \in SilentExits
    /\ (req[r].stream /\ Active(registry, r))
         => req[r].at \in {"open", "body"} /\ req[r].attempt > 0

(* However records, failed writes, archives and restarts interleave, the   *)
(* statistics are those of the files on disk, and the files hold every     *)
(* record once, in the order the requests completed.                       *)
StatsMatchDisk ==
  /\ StatsAreDisk(log)
  /\ \E gone \in SUBSET ToSet(answered) :
       Remains(log.archive \o log.disk, answered, gone)

(* Publishing always ends: while one event is delivered no projection      *)
(* announces its overflow twice, not even through the notice of another.   *)
NoticesEnd ==
  \A i, j \in DOMAIN bus :
    /\ i # j
    /\ bus[i].type = "overflow"
    /\ bus[j].type = "overflow"
    => bus[i].from # bus[j].from

(* docs/CONFIGURATION.md: active_requests lists "an executing non-stream   *)
(* request or a connected stream".                                         *)
ExecutingIsActive ==
  \A r \in Requests : req[r].at = "posting" => ~Pending(registry, r)

(* docs/CONFIGURATION.md: "a rolling 60-minute window of request           *)
(* activity", one for every request.                                       *)
ActivityCountsRequests == \A r \in Requests : registry.activity[r] <= 1
=============================================================================
