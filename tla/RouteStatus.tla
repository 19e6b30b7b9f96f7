----------------------------- MODULE RouteStatus -----------------------------
(***************************************************************************)
(* The status registry behind GET /routes, as operators over its record:   *)
(* the phase every listed request is in and the activity counted for it    *)
(* (src/keeprollming/observability/route_status.py).  It learns what it    *)
(* knows only from the runtime events it consumes.                         *)
(***************************************************************************)
EXTENDS Naturals, Sequences

CONSTANT Requests

Absent == "absent"
Phases == {"queued", "preparing", "connecting", "requesting", "streaming"}

(* An event carries its type, its request and whether the client asked for *)
(* a stream.                                                               *)
EventTypes ==
  {"queued", "acquired", "rejected", "invalid_upstream", "route_resolved",
   "request_route", "upstream_connect", "upstream_connected",
   "upstream_error", "handler_error", "pipeline_error", "timeout", "failed",
   "request_complete", "downstream_closed", "cancelled", "overflow"}

ErrorEvents ==
  {"invalid_upstream", "upstream_error", "pipeline_error", "timeout",
   "failed", "handler_error"}

(* A slip: a client that left before its answer began is forgotten.       *)
TerminalEventsWithoutCancel ==
  ErrorEvents \cup {"downstream_closed", "rejected", "request_complete"}

TerminalEvents ==
  ErrorEvents \cup {"downstream_closed", "cancelled", "rejected",
                    "request_complete"}

EmptyRegistry == [phase |-> [r \in Requests |-> Absent],
                  activity |-> [r \in Requests |-> 0]]

RegistryType == [phase : [Requests -> Phases \cup {Absent}],
                 activity : [Requests -> Nat]]

Listed(reg, r) == reg.phase[r] # Absent
Pending(reg, r) == reg.phase[r] \in {"preparing", "connecting"}
Active(reg, r) == reg.phase[r] \in {"requesting", "streaming"}

(* Only the two admission facts and a resolved route create an entry.      *)
SetPhase(reg, r, p) == [reg EXCEPT !.phase[r] = p]
MarkPhase(reg, r, p) == IF Listed(reg, r) THEN SetPhase(reg, r, p) ELSE reg

MarkStarted(reg, e) ==
  IF ~e.stream THEN MarkPhase(reg, e.req, "requesting")
  ELSE IF reg.phase[e.req] = "preparing"
       THEN SetPhase(reg, e.req, "connecting") ELSE reg

CountActivity(reg, r) == [reg EXCEPT !.activity[r] = @ + 1]

Consumed(reg, e) ==
  IF e.type = "queued" THEN SetPhase(reg, e.req, "queued")
  ELSE IF e.type = "acquired" THEN SetPhase(reg, e.req, "preparing")
  ELSE IF e.type = "route_resolved"
       THEN CountActivity(SetPhase(reg, e.req, "preparing"), e.req)
  ELSE IF e.type = "request_route" THEN MarkStarted(reg, e)
  ELSE IF e.type = "upstream_connect" THEN MarkPhase(reg, e.req, "connecting")
  ELSE IF e.type = "upstream_connected" THEN MarkPhase(reg, e.req, "streaming")
  ELSE IF e.type \in TerminalEvents THEN SetPhase(reg, e.req, Absent)
  ELSE reg

(* A restart knows the requests whose records are still in the log, one    *)
(* activity for each, and no request in flight.                            *)
Seeded(records) ==
  [phase |-> [r \in Requests |-> Absent],
   activity |-> [r \in Requests |->
                   Len(SelectSeq(records, LAMBDA s : s = r))]]

(* An entry older than an hour is pruned by the next event or snapshot.    *)
Pruned(reg, r) == SetPhase(reg, r, Absent)
=============================================================================
