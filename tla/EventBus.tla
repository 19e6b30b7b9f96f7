------------------------------ MODULE EventBus ------------------------------
(***************************************************************************)
(* Synchronous delivery of runtime events to the queued projections, as    *)
(* operators.  The call stack of the dispatcher is a sequence of frames:   *)
(* an event and the projections still to be called with it.  A full queue  *)
(* publishes a notice from inside the delivery, one frame deeper           *)
(* (src/keeprollming/observability/dispatcher.py, projectors.py).          *)
(***************************************************************************)
EXTENDS Naturals, Sequences, SequencesExt

CONSTANTS Projectors,  \* the projections, in the order they subscribed
          QueueSize,   \* events a projection's queue holds
          Accepted     \* the event types its level and selector let through

ASSUME BusAssumption == /\ Projectors \in Seq(STRING)
                        /\ QueueSize \in Nat \ {0}

Names == ToSet(Projectors)

(* queued   accepted events waiting; busy: the worker formats one of them  *)
(* noticed  _overflow_notice_pending: an overflow is already announced     *)
NewProjector == [queued |-> 0, busy |-> FALSE, noticed |-> FALSE]

ProjectorType == [queued : 0..QueueSize, busy : BOOLEAN, noticed : BOOLEAN]

Frame(type, from) == [type |-> type, from |-> from, rest |-> Projectors]

(* One call of EventDispatcher.emit, its frame on top of the stack.        *)
Called(bus, type, from) == <<Frame(type, from)>> \o bus

(* The next projection of the innermost emission.                          *)
Callee(bus) == Head(Head(bus).rest)
Returned(bus) == IF Tail(Head(bus).rest) = <<>> THEN Tail(bus)
                 ELSE <<[Head(bus) EXCEPT !.rest = Tail(@)]>> \o Tail(bus)

(* A projection skips its own notice and what its filters do not accept.   *)
Wants(p, frame) == /\ ~(frame.type = "overflow" /\ frame.from = p)
                   /\ frame.type \in Accepted

(* A slip: the notice leaves before the flag is up.                        *)
OverflowsUnflagged(proj, p) == proj

(* QueuedProjector._enqueue: the flag is raised before the notice is sent, *)
(* so that a notice that meets another full queue cannot come back for     *)
(* ever.                                                                   *)
Overflows(proj, p) == [proj EXCEPT ![p].noticed = TRUE]

Full(proj, p) == proj[p].queued = QueueSize
Enqueued(proj, p) == [proj EXCEPT ![p].queued = @ + 1]

DeliveredProj(proj, bus) ==
  LET p == Callee(bus)
  IN IF ~Wants(p, Head(bus)) THEN proj
     ELSE IF ~Full(proj, p) THEN Enqueued(proj, p)
     ELSE IF ~proj[p].noticed THEN Overflows(proj, p) ELSE proj

DeliveredBus(proj, bus) ==
  LET p == Callee(bus)
  IN IF Wants(p, Head(bus)) /\ Full(proj, p) /\ ~proj[p].noticed
     THEN Called(Returned(bus), "overflow", p) ELSE Returned(bus)

(* QueuedProjector._run: one event at a time, in a worker thread.          *)
CanTake(proj, p) == ~proj[p].busy /\ proj[p].queued > 0
Took(proj, p) == [proj EXCEPT ![p].queued = @ - 1, ![p].busy = TRUE]
Wrote(proj, p) == [proj EXCEPT ![p].busy = FALSE,
                               ![p].noticed = @ /\ Full(proj, p)]
=============================================================================
