------------------------ MODULE Observability_proofs ------------------------
(* Runtime events, for any number of requests and projections, queues of   *)
(* any size and any number of restarts: the status registry lists nobody   *)
(* who is gone, publishing an event announces no overflow twice, and the   *)
(* statistics of the performance log are those of the files on disk.       *)
EXTENDS Observability, SequenceTheorems, TLAPS

Places == Alive \cup {"new", "gone"}
Exits == SilentExits \cup {None, "refused", "failed", "answered", "left", "timeout",
                           "upstream_status", "restart"}
RequestType == [at : Places, stream : BOOLEAN, attempt : Nat, exit : Exits]

\* What the registry may hold of a request, by the place the request is in.
\* At any place its entry may have been pruned, or ended by an error event.
Shown(q, phase) ==
  /\ q.at = "new" => phase = Absent
  /\ q.at = "queued" => phase \in {Absent, "queued"}
  /\ q.at \in {"parsing", "resolved"} => phase \in {Absent, "preparing"}
  /\ q.at \in {"body", "connecting", "open", "failing"} => q.stream
  /\ q.at \in {"dispatched", "posting", "retrying"} => ~q.stream
  /\ q.at \in {"connecting", "open", "failing"} => q.attempt > 0
  /\ q.at = "body" /\ q.attempt = 0 => phase \in {Absent, "preparing", "connecting"}
  /\ q.at = "connecting" => phase \in {Absent, "connecting"}
  /\ q.at \in {"failing", "retrying"} => phase = Absent
  /\ q.at = "gone" => \/ phase = Absent
                      \/ /\ q.exit \in SilentExits
                         /\ q.stream => phase \notin {"requesting", "streaming"}

RegistryInv == /\ registry \in RegistryType
               /\ req \in [Requests -> RequestType]
               /\ \A r \in Requests : Shown(req[r], registry.phase[r])

\* The phase of a request after an event about it.
After(phase, stream, type) ==
  IF type = "queued" THEN "queued"
  ELSE IF type \in {"acquired", "route_resolved"} THEN "preparing"
  ELSE IF type = "request_route" /\ stream
       THEN IF phase = "preparing" THEN "connecting" ELSE phase
  ELSE IF type \in TerminalEvents \/ phase = Absent THEN
       IF type \in TerminalEvents THEN Absent ELSE phase
  ELSE IF type = "request_route" THEN "requesting"
  ELSE IF type = "upstream_connect" THEN "connecting"
  ELSE IF type = "upstream_connected" THEN "streaming" ELSE phase

-----------------------------------------------------------------------------
(* What one event, and a publication, does to the registry.                *)
LEMMA ConsumedPhase ==
  ASSUME NEW g \in RegistryType, NEW r \in Requests, NEW b \in BOOLEAN, NEW t \in EventTypes
  PROVE  LET h == Consumed(g, [type |-> t, req |-> r, stream |-> b])
         IN  /\ h \in RegistryType
             /\ \A q \in Requests \ {r} : h.phase[q] = g.phase[q]
             /\ h.phase[r] = After(g.phase[r], b, t)
<1> DEFINE h == Consumed(g, [type |-> t, req |-> r, stream |-> b])
<1>1. \A p \in Phases \cup {Absent} :
        LET k == SetPhase(g, r, p)
        IN  /\ k \in RegistryType /\ k.phase[r] = p
            /\ \A q \in Requests \ {r} : k.phase[q] = g.phase[q]
  BY DEF SetPhase, RegistryType
<1>2. CASE t = "route_resolved"
  <2> DEFINE k == SetPhase(g, r, "preparing")
  <2>1. /\ k \in RegistryType /\ k.phase[r] = "preparing"
        /\ \A q \in Requests \ {r} : k.phase[q] = g.phase[q]
    BY <1>1 DEF Phases
  <2>2. h = CountActivity(k, r)
    BY <1>2 DEF Consumed
  <2> HIDE DEF k, h
  <2>3. h \in RegistryType /\ h.phase = k.phase
    BY <2>1, <2>2 DEF CountActivity, RegistryType
  <2>. QED
    BY <1>2, <2>1, <2>3 DEF After, h
<1>3. CASE t # "route_resolved"
  <2>1. \/ h = g /\ After(g.phase[r], b, t) = g.phase[r]
        \/ \E p \in Phases \cup {Absent} :
             h = SetPhase(g, r, p) /\ After(g.phase[r], b, t) = p
    BY <1>3 DEF Consumed, MarkPhase, MarkStarted, Listed, After, Phases, EventTypes,
                TerminalEvents, ErrorEvents, Absent
  <2>. QED
    BY <1>1, <2>1 DEF h
<1>. QED
  BY <1>2, <1>3

\* What is published leaves the other requests' entries alone.
Others(r) == \A q \in Requests \ {r} : registry'.phase[q] = registry.phase[q]

LEMMA PublishOne ==
  ASSUME RegistryInv, NEW r \in Requests, NEW t \in EventTypes, Publish(r, <<t>>)
  PROVE  /\ registry' \in RegistryType /\ Others(r)
         /\ registry'.phase[r] = After(registry.phase[r], req[r].stream, t)
<1>1. registry' = Consumed(registry, [type |-> t, req |-> r, stream |-> req[r].stream])
  BY DEF Publish, Noted, Event
<1>2. req[r].stream \in BOOLEAN /\ registry \in RegistryType
  BY DEF RegistryInv, RequestType
<1>. QED
  BY <1>1, <1>2, ConsumedPhase DEF Others

LEMMA PublishTwo ==
  ASSUME RegistryInv, NEW r \in Requests, NEW t \in EventTypes, NEW u \in EventTypes,
         Publish(r, <<t, u>>)
  PROVE  /\ registry' \in RegistryType /\ Others(r)
         /\ LET b == req[r].stream
            IN  registry'.phase[r] = After(After(registry.phase[r], b, t), b, u)
<1> DEFINE b == req[r].stream
           g == Consumed(registry, [type |-> t, req |-> r, stream |-> b])
<1>1. registry' = Consumed(g, [type |-> u, req |-> r, stream |-> b])
  BY DEF Publish, Noted, Event
<1>2. b \in BOOLEAN /\ registry \in RegistryType
  BY DEF RegistryInv, RequestType
<1> HIDE DEF b
<1>3. /\ g \in RegistryType
      /\ \A q \in Requests \ {r} : g.phase[q] = registry.phase[q]
      /\ g.phase[r] = After(registry.phase[r], b, t)
  BY <1>2, ConsumedPhase
<1> HIDE DEF g
<1>4. /\ registry' \in RegistryType
      /\ \A q \in Requests \ {r} : registry'.phase[q] = g.phase[q]
      /\ registry'.phase[r] = After(g.phase[r], b, u)
  BY <1>1, <1>2, <1>3, ConsumedPhase
<1>. QED
  BY <1>3, <1>4 DEF Others, b

\* A request that moves is shown as its new place says.
LEMMA MovedOn ==
  ASSUME RegistryInv, NEW r \in Requests, registry' \in RegistryType, Others(r),
         req' \in [Requests -> RequestType],
         \A q \in Requests \ {r} : req'[q] = req[q],
         Shown(req'[r], registry'.phase[r])
  PROVE  RegistryInv'
<1>1. ASSUME NEW q \in Requests PROVE Shown(req'[q], registry'.phase[q])
  <2>1. CASE q = r
    BY <2>1
  <2>2. CASE q # r
    BY <2>2 DEF Others, RegistryInv, Shown
  <2>. QED
    BY <2>1, <2>2
<1>. QED
  BY <1>1 DEF RegistryInv, Shown

-----------------------------------------------------------------------------

\* The steps of one request.
LEMMA RequestMoves ==
  ASSUME RegistryInv, NEW r \in Requests, RequestStep(r)
  PROVE  RegistryInv'
<1> USE DEF Go, Try, Leave, Places, Alive, RequestType, Exits, SilentExits, None
<1> DEFINE Typed == req' \in [Requests -> RequestType] /\ \A q \in Requests \ {r} : req'[q] = req[q]
           Told == registry' \in RegistryType /\ Others(r)
           p == registry.phase[r]  pp == registry'.phase[r]  b == req[r].stream
<1>0. req \in [Requests -> RequestType] /\ registry \in RegistryType /\ Shown(req[r], p)
  BY DEF RegistryInv
<1>1. CASE Arrives(r)
  <2>1. Typed
    <3>1. PICK c \in BOOLEAN : req' = [req EXCEPT ![r].at = "parsing", ![r].stream = c]
      BY <1>1 DEF Arrives
    <3>. QED
      BY ZenonT(60), <1>0, <3>1
  <2>2. Told /\ (pp = After(p, b, "acquired") \/ pp = p)
    BY <1>0, <1>1, PublishOne DEF Arrives, Silent, Others, EventTypes
  <2>3. Shown(req'[r], pp)
    BY <1>0, <1>1, <2>2 DEF Arrives, Shown, After, TerminalEvents, ErrorEvents, Absent
  <2>. QED
    BY <2>1, <2>2, <2>3, MovedOn
<1>2. CASE ArrivesQueued(r)
  <2>1. Typed
    <3>1. PICK c \in BOOLEAN : req' = [req EXCEPT ![r].at = "queued", ![r].stream = c]
      BY <1>2 DEF ArrivesQueued
    <3>. QED
      BY ZenonT(60), <1>0, <3>1
  <2>2. Told /\ pp = After(p, b, "queued")
    BY <1>0, <1>2, PublishOne DEF ArrivesQueued, EventTypes
  <2>3. Shown(req'[r], pp)
    BY <1>0, <1>2, <2>2 DEF ArrivesQueued, Shown, After, TerminalEvents, ErrorEvents, Absent
  <2>. QED
    BY <2>1, <2>2, <2>3, MovedOn
<1>3. CASE Admitted(r)
  <2>1. Typed
    BY <1>0, <1>3 DEF Admitted
  <2>2. Told /\ pp = After(p, b, "acquired")
    BY <1>0, <1>3, PublishOne DEF Admitted, EventTypes
  <2>3. Shown(req'[r], pp)
    BY <1>0, <1>3, <2>2 DEF Admitted, Shown, After, TerminalEvents, ErrorEvents, Absent
  <2>. QED
    BY <2>1, <2>2, <2>3, MovedOn
<1>4. CASE Refused(r)
  <2>1. Typed
    BY ZenonT(60), <1>0, <1>4 DEF Refused
  <2>2. Told /\ pp = After(p, b, "rejected")
    BY <1>0, <1>4, PublishOne DEF Refused, EventTypes
  <2>3. Shown(req'[r], pp)
    BY <1>0, <1>4, <2>2 DEF Refused, Shown, After, TerminalEvents, ErrorEvents, Absent
  <2>. QED
    BY <2>1, <2>2, <2>3, MovedOn
<1>5. CASE QueueCancelled(r)
  <2>1. Typed
    BY ZenonT(60), <1>0, <1>5 DEF QueueCancelled
  <2>2. Told /\ pp = p
    BY <1>0, <1>5 DEF QueueCancelled, Silent, Others
  <2>3. Shown(req'[r], pp)
    BY <1>0, <1>5, <2>2 DEF QueueCancelled, Shown, After, TerminalEvents, ErrorEvents, Absent
  <2>. QED
    BY <2>1, <2>2, <2>3, MovedOn
<1>6. CASE BadBody(r)
  <2>1. Typed
    BY ZenonT(60), <1>0, <1>6 DEF BadBody
  <2>2. Told /\ pp = p
    BY <1>0, <1>6 DEF BadBody, Silent, Others
  <2>3. Shown(req'[r], pp)
    BY <1>0, <1>6, <2>2 DEF BadBody, Shown, After, TerminalEvents, ErrorEvents, Absent
  <2>. QED
    BY <2>1, <2>2, <2>3, MovedOn
<1>7. CASE Resolved(r)
  <2>1. Typed
    BY <1>0, <1>7 DEF Resolved
  <2>2. Told /\ (pp = After(p, b, "route_resolved") \/ pp = After(After(p, b, "invalid_upstream"), b, "route_resolved"))
    BY <1>0, <1>7, PublishOne, PublishTwo DEF Resolved, EventTypes
  <2>3. Shown(req'[r], pp)
    BY <1>0, <1>7, <2>2 DEF Resolved, Shown, After, TerminalEvents, ErrorEvents, Absent
  <2>. QED
    BY <2>1, <2>2, <2>3, MovedOn
<1>8. CASE CircuitOpen(r)
  <2>1. Typed
    BY ZenonT(60), <1>0, <1>8 DEF CircuitOpen
  <2>2. Told /\ pp = p
    BY <1>0, <1>8 DEF CircuitOpen, Silent, Others
  <2>3. Shown(req'[r], pp)
    BY <1>0, <1>8, <2>2 DEF CircuitOpen, Shown, After, TerminalEvents, ErrorEvents, Absent
  <2>. QED
    BY <2>1, <2>2, <2>3, MovedOn
<1>9. CASE Raises(r)
  <2>1. Typed
    BY ZenonT(60), <1>0, <1>9 DEF Raises
  <2>2. Told /\ pp = p
    BY <1>0, <1>9 DEF Raises, Silent, Others
  <2>3. Shown(req'[r], pp)
    BY <1>0, <1>9, <2>2 DEF Raises, Shown, After, TerminalEvents, ErrorEvents, Absent
  <2>. QED
    BY <2>1, <2>2, <2>3, MovedOn
<1>10. CASE Dispatched(r)
  <2>1. Typed
    BY <1>0, <1>10 DEF Dispatched
  <2>2. Told /\ pp = After(p, b, "request_route")
    BY <1>0, <1>10, PublishOne DEF Dispatched, EventTypes
  <2>3. Shown(req'[r], pp)
    BY <1>0, <1>10, <2>2 DEF Dispatched, Shown, After, TerminalEvents, ErrorEvents, Absent
  <2>. QED
    BY <2>1, <2>2, <2>3, MovedOn
<1>11. CASE Connects(r)
  <2>1. Typed
    BY <1>0, <1>11 DEF Connects
  <2>2. Told /\ pp = After(p, b, "upstream_connect")
    BY <1>0, <1>11, PublishOne DEF Connects, EventTypes
  <2>3. Shown(req'[r], pp)
    BY <1>0, <1>11, <2>2 DEF Connects, Shown, After, TerminalEvents, ErrorEvents, Absent
  <2>. QED
    BY <2>1, <2>2, <2>3, MovedOn
<1>12. CASE Connected(r)
  <2>1. Typed
    BY <1>0, <1>12 DEF Connected
  <2>2. Told /\ pp = After(p, b, "upstream_connected")
    BY <1>0, <1>12, PublishOne DEF Connected, EventTypes
  <2>3. Shown(req'[r], pp)
    BY <1>0, <1>12, <2>2 DEF Connected, Shown, After, TerminalEvents, ErrorEvents, Absent
  <2>. QED
    BY <2>1, <2>2, <2>3, MovedOn
<1>13. CASE FailsOver(r)
  <2>1. Typed
    BY <1>0, <1>13 DEF FailsOver
  <2>2. Told /\ pp = p
    BY <1>0, <1>13 DEF FailsOver, Silent, Others
  <2>3. Shown(req'[r], pp)
    BY <1>0, <1>13, <2>2 DEF FailsOver, Shown, After, TerminalEvents, ErrorEvents, Absent
  <2>. QED
    BY <2>1, <2>2, <2>3, MovedOn
<1>14. CASE StatusFailsOver(r)
  <2>1. Typed
    BY <1>0, <1>14 DEF StatusFailsOver
  <2>2. Told /\ pp = After(p, b, "upstream_error")
    BY <1>0, <1>14, PublishOne DEF StatusFailsOver, EventTypes
  <2>3. Shown(req'[r], pp)
    BY <1>0, <1>14, <2>2 DEF StatusFailsOver, Shown, After, TerminalEvents, ErrorEvents, Absent
  <2>. QED
    BY <2>1, <2>2, <2>3, MovedOn
<1>15. CASE StreamFails(r)
  <2>1. Typed
    BY <1>0, <1>15 DEF StreamFails
  <2>2. Told /\ (pp = After(p, b, "handler_error") \/ pp = After(After(p, b, "upstream_error"), b, "handler_error"))
    BY <1>0, <1>15, PublishOne, PublishTwo DEF StreamFails, EventTypes
  <2>3. Shown(req'[r], pp)
    BY <1>0, <1>15, <2>2 DEF StreamFails, Shown, After, TerminalEvents, ErrorEvents, Absent
  <2>. QED
    BY <2>1, <2>2, <2>3, MovedOn
<1>16. CASE FailureRecorded(r)
  <2>1. Typed
    BY ZenonT(60), <1>0, <1>16 DEF FailureRecorded
  <2>2. Told /\ pp = After(p, b, "request_complete")
    BY <1>0, <1>16, PublishOne DEF FailureRecorded, EventTypes
  <2>3. Shown(req'[r], pp)
    BY <1>0, <1>16, <2>2 DEF FailureRecorded, Shown, After, TerminalEvents, ErrorEvents, Absent
  <2>. QED
    BY <2>1, <2>2, <2>3, MovedOn
<1>17. CASE StreamEnds(r)
  <2>1. Typed
    BY ZenonT(60), <1>0, <1>17 DEF StreamEnds
  <2>2. Told /\ pp = After(p, b, "request_complete")
    BY <1>0, <1>17, PublishOne DEF StreamEnds, EventTypes
  <2>3. Shown(req'[r], pp)
    BY <1>0, <1>17, <2>2 DEF StreamEnds, Shown, After, TerminalEvents, ErrorEvents, Absent
  <2>. QED
    BY <2>1, <2>2, <2>3, MovedOn
<1>18. CASE ClientLeaves(r)
  <2>1. Typed
    BY <1>0, <1>18, ZenonT(30) DEF ClientLeaves
  <2>2. Told /\ (pp = After(p, b, "cancelled") \/ pp = After(After(p, b, "cancelled"), b, "downstream_closed"))
    BY <1>0, <1>18, PublishOne, PublishTwo DEF ClientLeaves, EventTypes
  <2>3. Shown(req'[r], pp)
    BY <1>0, <1>18, <2>2 DEF ClientLeaves, Shown, After, TerminalEvents, ErrorEvents, Absent
  <2>. QED
    BY <2>1, <2>2, <2>3, MovedOn
<1>19. CASE BodyUnstarted(r)
  <2>1. Typed
    BY <1>0, <1>19, ZenonT(30) DEF BodyUnstarted
  <2>2. Told /\ pp = p
    BY <1>0, <1>19 DEF BodyUnstarted, Silent, Others
  <2>3. Shown(req'[r], pp)
    BY <1>0, <1>19, <2>2 DEF BodyUnstarted, Shown, After, TerminalEvents, ErrorEvents, Absent
  <2>. QED
    BY <2>1, <2>2, <2>3, MovedOn
<1>20. CASE Posts(r)
  <2>1. Typed
    BY <1>0, <1>20 DEF Posts
  <2>2. Told /\ pp = After(p, b, "route_resolved")
    BY <1>0, <1>20, PublishOne DEF Posts, EventTypes
  <2>3. Shown(req'[r], pp)
    BY <1>0, <1>20, <2>2 DEF Posts, Shown, After, TerminalEvents, ErrorEvents, Absent
  <2>. QED
    BY <2>1, <2>2, <2>3, MovedOn
<1>21. CASE Answers(r)
  <2>1. Typed
    BY <1>0, <1>21, ZenonT(30) DEF Answers
  <2>2. Told /\ (pp = After(p, b, "request_complete") \/ pp = After(After(p, b, "pipeline_error"), b, "request_complete"))
    BY <1>0, <1>21, PublishOne, PublishTwo DEF Answers, AnswerPublished, EventTypes
  <2>3. Shown(req'[r], pp)
    BY <1>0, <1>21, <2>2 DEF Answers, Shown, After, TerminalEvents, ErrorEvents, Absent
  <2>. QED
    BY <2>1, <2>2, <2>3, MovedOn
<1>22. CASE StatusFails(r)
  <2>1. Typed
    BY <1>0, <1>22 DEF StatusFails
  <2>2. Told /\ pp = After(p, b, "upstream_error")
    BY <1>0, <1>22, PublishOne DEF StatusFails, EventTypes
  <2>3. Shown(req'[r], pp)
    BY <1>0, <1>22, <2>2 DEF StatusFails, Shown, After, TerminalEvents, ErrorEvents, Absent
  <2>. QED
    BY <2>1, <2>2, <2>3, MovedOn
<1>23. CASE RetryAnswers(r)
  <2>1. Typed
    BY <1>0, <1>23, ZenonT(30) DEF RetryAnswers
  <2>2. Told /\ (pp = After(p, b, "request_complete") \/ pp = After(After(p, b, "pipeline_error"), b, "request_complete"))
    BY <1>0, <1>23, PublishOne, PublishTwo DEF RetryAnswers, AnswerPublished, EventTypes
  <2>3. Shown(req'[r], pp)
    BY <1>0, <1>23, <2>2 DEF RetryAnswers, Shown, After, TerminalEvents, ErrorEvents, Absent
  <2>. QED
    BY <2>1, <2>2, <2>3, MovedOn
<1>24. CASE RetryFails(r)
  <2>1. Typed
    BY <1>0, <1>24 DEF RetryFails
  <2>2. Told /\ pp = After(p, b, "upstream_error")
    BY <1>0, <1>24, PublishOne DEF RetryFails, EventTypes
  <2>3. Shown(req'[r], pp)
    BY <1>0, <1>24, <2>2 DEF RetryFails, Shown, After, TerminalEvents, ErrorEvents, Absent
  <2>. QED
    BY <2>1, <2>2, <2>3, MovedOn
<1>25. CASE GivesUp(r)
  <2>1. Typed
    BY <1>0, <1>25, ZenonT(30) DEF GivesUp
  <2>2. Told /\ pp = p
    BY <1>0, <1>25 DEF GivesUp, Silent, Others
  <2>3. Shown(req'[r], pp)
    BY <1>0, <1>25, <2>2 DEF GivesUp, Shown, After, TerminalEvents, ErrorEvents, Absent
  <2>. QED
    BY <2>1, <2>2, <2>3, MovedOn
<1>26. CASE TransportFailsOver(r)
  <2>1. Typed
    BY <1>0, <1>26 DEF TransportFailsOver
  <2>2. Told /\ pp = p
    BY <1>0, <1>26 DEF TransportFailsOver, Silent, Others
  <2>3. Shown(req'[r], pp)
    BY <1>0, <1>26, <2>2 DEF TransportFailsOver, Shown, After, TerminalEvents, ErrorEvents, Absent
  <2>. QED
    BY <2>1, <2>2, <2>3, MovedOn
<1>27. CASE TransportFails(r)
  <2>1. Typed
    <3>1. PICK end \in {"timeout", "failed"} :
            req' = [req EXCEPT ![r].at = "gone", ![r].exit = end]
      BY <1>27 DEF TransportFails
    <3>. QED
      BY <1>0, <3>1, ZenonT(30)
  <2>2. Told /\ (pp = After(After(p, b, "timeout"), b, "request_complete") \/ pp = After(After(p, b, "failed"), b, "request_complete"))
    BY <1>0, <1>27, PublishTwo DEF TransportFails, EventTypes
  <2>3. Shown(req'[r], pp)
    BY <1>0, <1>27, <2>2 DEF TransportFails, Shown, After, TerminalEvents, ErrorEvents, Absent
  <2>. QED
    BY <2>1, <2>2, <2>3, MovedOn
<1>. QED
  BY <1>1, <1>2, <1>3, <1>4, <1>5, <1>6, <1>7, <1>8, <1>9, <1>10, <1>11, <1>12, <1>13, <1>14, <1>15, <1>16, <1>17, <1>18, <1>19, <1>20, <1>21, <1>22, <1>23, <1>24, <1>25, <1>26, <1>27 DEF RequestStep

\* The other steps: an entry is pruned, or the process starts again.
LEMMA RegistryStep == RegistryInv /\ [Next]_vars => RegistryInv'
<1> SUFFICES ASSUME RegistryInv, [Next]_vars PROVE RegistryInv'
  OBVIOUS
<1>1. ASSUME NEW r \in Requests, RequestStep(r) PROVE RegistryInv'
  BY <1>1, RequestMoves
<1>2. ASSUME NEW r \in Requests, HourPasses(r) PROVE RegistryInv'
  <2>1. /\ registry' \in RegistryType /\ registry'.phase[r] = Absent /\ Others(r)
        /\ req' = req
    BY <1>2 DEF HourPasses, Pruned, SetPhase, RegistryInv, RegistryType, Others
  <2>2. req' \in [Requests -> RequestType] /\ Shown(req'[r], registry.phase[r])
    BY <2>1 DEF RegistryInv
  <2>3. Shown(req'[r], registry'.phase[r])
    BY <2>1, <2>2 DEF Shown
  <2>. QED
    BY <2>1, <2>2, <2>3, MovedOn
<1>3. CASE Restart
  <2>1. registry' \in RegistryType /\ \A r \in Requests : registry'.phase[r] = Absent
    <3>1. registry' = Seeded(log.disk)
      BY <1>3 DEF Restart
    <3>2. \A r \in Requests : Len(SelectSeq(log.disk, LAMBDA s : s = r)) \in Nat
      OBVIOUS
    <3>. QED
      BY <3>1, <3>2 DEF Seeded, RegistryType
  <2>2. req' \in [Requests -> RequestType]
    BY <1>3 DEF Restart, RegistryInv, RequestType, Exits, Places
  <2>3. \A r \in Requests : Shown(req'[r], Absent)
    BY <1>3 DEF Restart, RegistryInv, RequestType, Shown, Alive, Places
  <2>. QED
    BY <2>1, <2>2, <2>3 DEF RegistryInv
<1>4. CASE UNCHANGED <<req, registry>>
  BY <1>4 DEF RegistryInv, Shown
<1>. QED
  BY <1>1, <1>2, <1>3, <1>4 DEF Next, LoopStep, Deliver, AppendsRecord, CountsRecord, Keep,
     TaskRuns, WorkerTakes, WorkerWrote, vars

-----------------------------------------------------------------------------
(* The frames of an emission.                                              *)
Frames == {f \in [type : EventTypes, from : Names \cup {None}, rest : Seq(Names)] : f.rest # <<>>}

\* Whoever announces an overflow on the stack has its flag up.
Flagged(stack, queues) ==
  \A i \in DOMAIN stack :
    stack[i].type = "overflow" => stack[i].from \in Names /\ queues[stack[i].from].noticed

NoTwoNotices(stack) == \A i, j \in DOMAIN stack :
  /\ i # j /\ stack[i].type = "overflow" /\ stack[j].type = "overflow"
  => stack[i].from # stack[j].from

BusInv == /\ proj \in [Names -> ProjectorType] /\ bus \in Seq(Frames)
          /\ Flagged(bus, proj) /\ NoTwoNotices(bus)

LEMMA NamesInOrder == Projectors \in Seq(Names)
<1>1. Projectors \in Seq(STRING)
  BY BusAssumption
<1>2. \A i \in 1 .. Len(Projectors) : Projectors[i] \in Names
  BY <1>1 DEF Names, ToSet
<1>. QED
  BY <1>1, <1>2, IsASeq

\* A pushed or a replaced top frame.
LEMMA OnTop ==
  ASSUME NEW S, NEW x \in S, NEW q \in Seq(S)
  PROVE  LET t == <<x>> \o q
         IN  /\ t \in Seq(S) /\ Len(t) = Len(q) + 1 /\ t[1] = x
             /\ \A i \in DOMAIN t : i = 1 \/ (i - 1 \in DOMAIN q /\ t[i] = q[i - 1])
<1>1. <<x>> \in Seq(S)
  OBVIOUS
<1>. QED
  BY <1>1, ConcatProperties

LEMMA Returning ==
  ASSUME BusInv, bus # <<>>
  PROVE  LET t == Returned(bus)
         IN  t \in Seq(Frames) /\ Flagged(t, proj) /\ NoTwoNotices(t)
<1> DEFINE h == Head(bus)  rest == Tail(bus)
<1>1. /\ bus \in Seq(Frames) /\ h = bus[1] /\ h \in Frames /\ rest \in Seq(Frames)
      /\ Len(bus) \in Nat \ {0} /\ Len(rest) = Len(bus) - 1
      /\ \A i \in 1 .. Len(rest) : rest[i] = bus[i + 1]
  BY HeadTailProperties DEF BusInv
<1> HIDE DEF h, rest
<1>2. CASE Tail(h.rest) = <<>>
  <2>1. Returned(bus) = rest
    BY <1>2 DEF Returned, h, rest
  <2>2. \A i \in DOMAIN rest : i + 1 \in DOMAIN bus /\ rest[i] = bus[i + 1]
    BY <1>1
  <2>. QED
    BY <1>1, <2>1, <2>2 DEF BusInv, Flagged, NoTwoNotices
<1>3. CASE Tail(h.rest) # <<>>
  <2> DEFINE g == [h EXCEPT !.rest = Tail(@)]  t == <<g>> \o rest
  <2>1. h.rest \in Seq(Names) /\ h.rest # <<>>
    BY <1>1 DEF Frames
  <2>2. g \in Frames /\ g.type = h.type /\ g.from = h.from
    BY <1>1, <1>3, <2>1, HeadTailProperties DEF Frames
  <2>3. Returned(bus) = t
    BY <1>3 DEF Returned, h, rest
  <2> HIDE DEF g
  <2>4. /\ t \in Seq(Frames) /\ Len(t) = Len(rest) + 1 /\ t[1] = g
        /\ \A i \in DOMAIN t : i = 1 \/ (i - 1 \in DOMAIN rest /\ t[i] = rest[i - 1])
    BY <1>1, <2>2, OnTop
  <2> HIDE DEF t
  <2>5. \A i \in DOMAIN t : i \in DOMAIN bus /\ t[i].type = bus[i].type /\ t[i].from = bus[i].from
    <3>1. ASSUME NEW i \in DOMAIN t
          PROVE  i \in DOMAIN bus /\ t[i].type = bus[i].type /\ t[i].from = bus[i].from
      <4>1. i \in DOMAIN bus
        BY <1>1, <2>4
      <4>2. CASE i = 1
        BY <1>1, <2>2, <2>4, <4>1, <4>2
      <4>3. CASE i # 1
        BY <1>1, <2>4, <4>1, <4>3
      <4>. QED
        BY <4>2, <4>3
    <3>. QED
      BY <3>1
  <2>6. Flagged(t, proj)
    BY <2>5 DEF BusInv, Flagged
  <2>7. NoTwoNotices(t)
    BY <2>5 DEF BusInv, NoTwoNotices
  <2>. QED
    BY <2>3, <2>4, <2>6, <2>7
<1>. QED
  BY <1>2, <1>3

LEMMA Delivering == ASSUME BusInv, Deliver PROVE BusInv'
<1> DEFINE p == Callee(bus)  t == Returned(bus)
<1>1. bus # <<>> /\ proj' = DeliveredProj(proj, bus) /\ bus' = DeliveredBus(proj, bus)
  BY DEF Deliver
<1>2. t \in Seq(Frames) /\ Flagged(t, proj) /\ NoTwoNotices(t)
  BY <1>1, Returning
<1>3. p \in Names
  <2>1. Head(bus) \in Frames
    BY <1>1, HeadTailProperties DEF BusInv
  <2>2. Head(bus).rest \in Seq(Names) /\ Head(bus).rest # <<>>
    BY <2>1 DEF Frames
  <2>. QED
    BY <2>2, HeadTailProperties DEF Callee
<1>4. proj \in [Names -> ProjectorType] /\ QueueSize \in Nat \ {0}
  BY BusAssumption DEF BusInv
<1> HIDE DEF p, t
<1>5. CASE Wants(p, Head(bus)) /\ Full(proj, p) /\ ~proj[p].noticed
  <2> DEFINE f == Frame("overflow", p)
  <2>1. proj' = Overflows(proj, p) /\ bus' = <<f>> \o t
    BY <1>1, <1>5 DEF DeliveredProj, DeliveredBus, Called, p, t
  <2>2. f \in Frames /\ f.type = "overflow" /\ f.from = p
    <3>1. Projectors \in Seq(Names)
      BY NamesInOrder
    <3>2. Projectors # <<>>
      BY <1>3, <3>1 DEF Names, ToSet
    <3>. QED
      BY <1>3, <3>1, <3>2 DEF Frame, Frames, EventTypes
  <2> HIDE DEF f
  <2>3. /\ bus' \in Seq(Frames) /\ bus'[1] = f
        /\ \A i \in DOMAIN bus' : i = 1 \/ (i - 1 \in DOMAIN t /\ bus'[i] = t[i - 1])
    BY <1>2, <2>1, <2>2, OnTop
  <2>4. /\ proj' \in [Names -> ProjectorType] /\ proj'[p].noticed
        /\ \A q \in Names : proj[q].noticed => proj'[q].noticed
    BY <1>3, <1>4, <2>1 DEF Overflows, ProjectorType
  <2>5. \A i \in DOMAIN t : t[i].type = "overflow" => t[i].from # p
    BY <1>2, <1>5 DEF Flagged
  <2>6. Flagged(bus', proj')
    BY <1>2, <1>3, <2>2, <2>3, <2>4 DEF Flagged
  <2>7. NoTwoNotices(bus')
    <3>1. ASSUME NEW i \in DOMAIN bus', NEW j \in DOMAIN bus', i # j,
                 bus'[i].type = "overflow", bus'[j].type = "overflow"
          PROVE  bus'[i].from # bus'[j].from
      <4>1. DOMAIN bus' \subseteq Nat
        BY <2>3
      <4>2. CASE i = 1
        BY <2>2, <2>3, <2>5, <3>1, <4>2
      <4>3. CASE j = 1
        BY <2>2, <2>3, <2>5, <3>1, <4>3
      <4>4. CASE i # 1 /\ j # 1
        <5>1. /\ i - 1 \in DOMAIN t /\ j - 1 \in DOMAIN t /\ i - 1 # j - 1
              /\ bus'[i] = t[i - 1] /\ bus'[j] = t[j - 1]
          BY <2>3, <3>1, <4>1, <4>4
        <5>. QED
          BY <1>2, <3>1, <5>1 DEF NoTwoNotices
      <4>. QED
        BY <4>2, <4>3, <4>4
    <3>. QED
      BY <3>1 DEF NoTwoNotices
  <2>. QED
    BY <2>3, <2>4, <2>6, <2>7 DEF BusInv, Flagged, NoTwoNotices
<1>6. CASE ~(Wants(p, Head(bus)) /\ Full(proj, p) /\ ~proj[p].noticed)
  <2>1. bus' = t
    BY <1>1, <1>6 DEF DeliveredBus, p, t
  <2>2. proj' = proj \/ (~Full(proj, p) /\ proj' = Enqueued(proj, p))
    BY <1>1, <1>6 DEF DeliveredProj, p
  <2>3. /\ proj' \in [Names -> ProjectorType]
        /\ \A q \in Names : proj'[q].noticed = proj[q].noticed
    BY <1>3, <1>4, <2>2 DEF Enqueued, Full, ProjectorType
  <2>4. Flagged(bus', proj')
    BY <1>2, <2>1, <2>3 DEF Flagged
  <2>. QED
    BY <1>2, <2>1, <2>3, <2>4 DEF BusInv, Flagged, NoTwoNotices
<1>. QED
  BY <1>5, <1>6

\* What a request publishes starts an emission that announces nothing.
LEMMA Publishing ==
  ASSUME BusInv, bus = <<>>, NEW r \in Requests, NEW types \in Seq(EventTypes \ {"overflow"}),
         Publish(r, types)
  PROVE  BusInv'
<1>1. bus' = <<>> \/ (Projectors # <<>> /\ bus' = [i \in DOMAIN types |-> Frame(types[i], None)])
  BY DEF Publish
<1>2. CASE bus' = <<>>
  BY <1>2 DEF Publish, BusInv, Flagged, NoTwoNotices
<1>3. CASE Projectors # <<>> /\ bus' = [i \in DOMAIN types |-> Frame(types[i], None)]
  <2>1. \A i \in DOMAIN types : /\ Frame(types[i], None) \in Frames
                                /\ Frame(types[i], None).type # "overflow"
    BY <1>3, NamesInOrder DEF Frame, Frames
  <2>2. DOMAIN types = 1 .. Len(types) /\ Len(types) \in Nat
    OBVIOUS
  <2> DEFINE f(i) == Frame(types[i], None)
  <2> HIDE DEF f
  <2>3. bus' = [i \in 1 .. Len(types) |-> f(i)] /\ \A i \in 1 .. Len(types) : f(i) \in Frames
    BY <1>3, <2>1, <2>2 DEF f
  <2>4. bus' \in Seq(Frames)
    BY <2>2, <2>3
  <2>5. \A i \in DOMAIN bus' : bus'[i].type # "overflow"
    BY <1>3, <2>1
  <2>. QED
    BY <2>4, <2>5 DEF Publish, BusInv, Flagged, NoTwoNotices
<1>. QED
  BY <1>1, <1>2, <1>3

LEMMA RequestPublishes ==
  ASSUME NEW r \in Requests, RequestStep(r)
  PROVE  \/ UNCHANGED <<bus, proj>>
         \/ \E types \in Seq(EventTypes \ {"overflow"}) : Publish(r, types)
<1> DEFINE Types == EventTypes \ {"overflow"}
<1>1. \A t \in Types : <<t>> \in Seq(Types)
  OBVIOUS
<1>2. \A t, u \in Types : <<t, u>> \in Seq(Types)
  OBVIOUS
<1> HIDE DEF Types
<1>3. \/ UNCHANGED <<bus, proj>>
      \/ \E t \in Types : Publish(r, <<t>>)
      \/ \E t, u \in Types : Publish(r, <<t, u>>)
  BY DEF RequestStep, Arrives, ArrivesQueued, Admitted, Refused, QueueCancelled, BadBody, Resolved,
     CircuitOpen, Raises, Dispatched, Connects, Connected, FailsOver, StatusFailsOver, StreamFails,
     FailureRecorded, StreamEnds, ClientLeaves, BodyUnstarted, Posts, Answers, AnswerPublished,
     StatusFails, RetryAnswers, RetryFails, GivesUp, TransportFailsOver, TransportFails, Silent,
     Types, EventTypes
<1>. QED
  BY <1>1, <1>2, <1>3 DEF Types

LEMMA BusStep == BusInv /\ [Next]_vars => BusInv'
<1> SUFFICES ASSUME BusInv, [Next]_vars PROVE BusInv'
  OBVIOUS
<1>0. proj \in [Names -> ProjectorType] /\ QueueSize \in Nat \ {0}
  BY BusAssumption DEF BusInv
<1>1. ASSUME NEW r \in Requests, RequestStep(r), bus = <<>> PROVE BusInv'
  BY <1>1, RequestPublishes, Publishing DEF BusInv, Flagged, NoTwoNotices
<1>2. ASSUME bus = <<>>, bus' = <<>>, proj' \in [Names -> ProjectorType] PROVE BusInv'
  BY <1>2 DEF BusInv, Flagged, NoTwoNotices
<1>3. ASSUME NEW p \in Names, WorkerTakes(p) PROVE proj' \in [Names -> ProjectorType] /\ bus' = bus
  BY <1>0, <1>3 DEF WorkerTakes, CanTake, Took, ProjectorType
<1>4. ASSUME NEW p \in Names, WorkerWrote(p) PROVE proj' \in [Names -> ProjectorType] /\ bus' = bus
  BY <1>0, <1>4 DEF WorkerWrote, Wrote, Full, ProjectorType
<1>5. ASSUME Restart PROVE proj' \in [Names -> ProjectorType] /\ bus' = bus
  <2>1. proj' = [p \in Names |-> NewProjector] /\ bus' = bus
    BY <1>5 DEF Restart
  <2>2. NewProjector \in ProjectorType
    BY <1>0 DEF NewProjector, ProjectorType
  <2>. QED
    BY <2>1, <2>2
<1>6. ASSUME UNCHANGED <<bus, proj>> PROVE BusInv'
  BY <1>6 DEF BusInv, Flagged, NoTwoNotices
<1>7. CASE Deliver
  BY <1>7, Delivering
<1>8. CASE AppendsRecord \/ CountsRecord \/ UNCHANGED vars
  BY <1>6, <1>8 DEF AppendsRecord, CountsRecord, Keep, vars
<1>9. CASE LoopStep
  <2>1. bus = <<>>
    BY <1>9 DEF LoopStep
  <2>2. ASSUME NEW r \in Requests, HourPasses(r) PROVE BusInv'
    BY <1>6, <2>2 DEF HourPasses
  <2>3. CASE TaskRuns
    BY <1>6, <2>3 DEF TaskRuns, Keep
  <2>. QED
    BY <1>1, <1>2, <1>3, <1>4, <1>5, <1>9, <2>1, <2>2, <2>3 DEF LoopStep
<1>. QED
  BY <1>7, <1>8, <1>9 DEF Next

-----------------------------------------------------------------------------
(* The performance log: what remains of a sequence, and what is ordered    *)
(* like the beginning of one.                                              *)
LEMMA Appended1 ==
  ASSUME NEW S, NEW s \in Seq(S), NEW x \in S
  PROVE  LET t == Append(s, x)
         IN  /\ t \in Seq(S) /\ Len(t) = Len(s) + 1 /\ Len(s) \in Nat
             /\ DOMAIN t = 1 .. Len(s) + 1 /\ DOMAIN s = 1 .. Len(s)
             /\ \A i \in 1 .. Len(s) : t[i] = s[i]
             /\ t[Len(s) + 1] = x /\ t # <<>> /\ Last(t) = x
BY DEF Last

LEMMA RemainsSelf ==
  ASSUME NEW S, NEW s \in Seq(S), NEW gone, \A i \in DOMAIN s : s[i] \notin gone
  PROVE  Remains(s, s, gone)
<1> DEFINE at == [i \in DOMAIN s |-> i]
<1>1. at \in [DOMAIN s -> DOMAIN s] /\ \A i \in DOMAIN s : at[i] = i
  OBVIOUS
<1> HIDE DEF at
<1>2. {at[i] : i \in DOMAIN s} = {k \in DOMAIN s : s[k] \notin gone}
  BY <1>1
<1>3. \A i, j \in DOMAIN s : i < j => at[i] < at[j]
  BY <1>1
<1>. QED
  BY <1>1, <1>2, <1>3 DEF Remains

LEMMA RemainsLost ==
  ASSUME NEW t, NEW s, NEW gone, NEW x, Remains(t, s, gone), \A k \in DOMAIN s : s[k] # x
  PROVE  Remains(t, s, gone \cup {x})
<1>1. {k \in DOMAIN s : s[k] \notin gone \cup {x}} = {k \in DOMAIN s : s[k] \notin gone}
  OBVIOUS
<1>. QED
  BY <1>1 DEF Remains

LEMMA RemainsSkip ==
  ASSUME NEW S, NEW t \in Seq(S), NEW s \in Seq(S), NEW gone, NEW x \in S, x \in gone,
         Remains(t, s, gone)
  PROVE  Remains(t, Append(s, x), gone)
<1> DEFINE u == Append(s, x)
<1>1. /\ DOMAIN u = 1 .. Len(s) + 1 /\ DOMAIN s = 1 .. Len(s) /\ Len(s) \in Nat
      /\ \A i \in 1 .. Len(s) : u[i] = s[i]
      /\ u[Len(s) + 1] = x
  BY Appended1
<1> HIDE DEF u
<1>2. DOMAIN s \subseteq DOMAIN u
      /\ {k \in DOMAIN u : u[k] \notin gone} = {k \in DOMAIN s : s[k] \notin gone}
  BY <1>1
<1>3. PICK at \in [DOMAIN t -> DOMAIN s] :
        /\ \A i, j \in DOMAIN t : i < j => at[i] < at[j]
        /\ \A i \in DOMAIN t : t[i] = s[at[i]]
        /\ {at[i] : i \in DOMAIN t} = {k \in DOMAIN s : s[k] \notin gone}
  BY DEF Remains
<1>4. at \in [DOMAIN t -> DOMAIN u] /\ \A i \in DOMAIN t : t[i] = u[at[i]]
  BY <1>1, <1>2, <1>3
<1>. QED
  BY <1>2, <1>3, <1>4 DEF Remains, u

LEMMA RemainsAppend ==
  ASSUME NEW S, NEW t \in Seq(S), NEW s \in Seq(S), NEW gone, NEW x \in S, x \notin gone,
         Remains(t, s, gone)
  PROVE  Remains(Append(t, x), Append(s, x), gone)
<1> DEFINE u == Append(s, x)  v == Append(t, x)  m == Len(s) + 1  n == Len(t) + 1
<1>1. /\ DOMAIN u = 1 .. m /\ DOMAIN s = 1 .. m - 1 /\ m \in Nat \ {0}
      /\ (\A i \in 1 .. m - 1 : u[i] = s[i]) /\ u[m] = x
  BY Appended1
<1>2. /\ DOMAIN v = 1 .. n /\ DOMAIN t = 1 .. n - 1 /\ n \in Nat \ {0}
      /\ (\A i \in 1 .. n - 1 : v[i] = t[i]) /\ v[n] = x
  BY Appended1
<1>3. PICK at \in [DOMAIN t -> DOMAIN s] :
        /\ \A i, j \in DOMAIN t : i < j => at[i] < at[j]
        /\ \A i \in DOMAIN t : t[i] = s[at[i]]
        /\ {at[i] : i \in DOMAIN t} = {k \in DOMAIN s : s[k] \notin gone}
  BY DEF Remains
<1> HIDE DEF u, v, m, n
<1> DEFINE to == [i \in 1 .. n |-> IF i = n THEN m ELSE at[i]]
<1>4. /\ \A i \in 1 .. n - 1 : to[i] = at[i] /\ at[i] \in 1 .. m - 1
      /\ to[n] = m
  <2>1. \A i \in 1 .. n - 1 : at[i] \in 1 .. m - 1
    BY <1>1, <1>2, <1>3
  <2>2. \A i \in 1 .. n - 1 : i \in 1 .. n /\ i # n
    BY <1>2
  <2>. QED
    BY <1>2, <2>1, <2>2
<1>5. to \in [DOMAIN v -> DOMAIN u]
  <2>1. \A i \in 1 .. n : (IF i = n THEN m ELSE at[i]) \in 1 .. m
    BY <1>1, <1>2, <1>4
  <2>. QED
    BY <1>1, <1>2, <2>1
<1> HIDE DEF to
<1>6. \A i \in 1 .. n : i = n \/ i \in 1 .. n - 1
  BY <1>2
<1>7. \A i, j \in DOMAIN v : i < j => to[i] < to[j]
  <2> SUFFICES ASSUME NEW i \in 1 .. n, NEW j \in 1 .. n, i < j PROVE to[i] < to[j]
    BY <1>2
  <2>1. i \in 1 .. n - 1
    BY <1>2
  <2>2. CASE j = n
    BY <1>1, <1>4, <2>1, <2>2
  <2>3. CASE j \in 1 .. n - 1
    BY <1>2, <1>3, <1>4, <2>1, <2>3
  <2>. QED
    BY <1>6, <2>2, <2>3
<1>8. \A i \in DOMAIN v : v[i] = u[to[i]]
  BY <1>1, <1>2, <1>3, <1>4, <1>6
<1>9. {to[i] : i \in DOMAIN v} = {k \in DOMAIN u : u[k] \notin gone}
  <2>1. ASSUME NEW i \in 1 .. n PROVE to[i] \in 1 .. m /\ u[to[i]] \notin gone
    <3>1. CASE i = n
      BY <1>1, <1>4, <3>1
    <3>2. CASE i \in 1 .. n - 1
      <4>1. at[i] \in DOMAIN s /\ s[at[i]] \notin gone
        BY <1>2, <1>3, <3>2
      <4>. QED
        BY <1>1, <1>4, <3>2, <4>1
    <3>. QED
      BY <1>6, <3>1, <3>2
  <2>2. ASSUME NEW k \in 1 .. m, u[k] \notin gone PROVE \E i \in 1 .. n : to[i] = k
    <3>1. CASE k = m
      BY <1>2, <1>4, <3>1
    <3>2. CASE k # m
      <4>1. k \in DOMAIN s /\ s[k] \notin gone
        BY <1>1, <2>2, <3>2
      <4>2. PICK i \in DOMAIN t : at[i] = k
        BY <1>3, <4>1
      <4>. QED
        BY <1>2, <1>4, <4>2
    <3>. QED
      BY <3>1, <3>2
  <2> DEFINE here == {to[i] : i \in DOMAIN v}  there == {k \in DOMAIN u : u[k] \notin gone}
  <2>3. here \subseteq there
    BY <1>1, <1>2, <2>1
  <2>4. there \subseteq here
    BY <1>1, <1>2, <2>2
  <2>. QED
    BY <2>3, <2>4
<1>. QED
  BY <1>5, <1>7, <1>8, <1>9 DEF Remains, u, v

\* The elements of f are in their order among the first n of q.
Ordered(f, q, n) ==
  \E at \in [DOMAIN f -> 1 .. n] :
    /\ \A i, j \in DOMAIN f : i < j => at[i] < at[j]
    /\ \A i \in DOMAIN f : f[i] = q[at[i]]

LEMMA OrderedLonger ==
  ASSUME NEW f, NEW q, NEW p, NEW n \in Nat, NEW m \in Nat, n <= m,
         \A i \in 1 .. n : p[i] = q[i], Ordered(f, q, n)
  PROVE  Ordered(f, p, m)
<1>1. PICK at \in [DOMAIN f -> 1 .. n] :
        /\ \A i, j \in DOMAIN f : i < j => at[i] < at[j]
        /\ \A i \in DOMAIN f : f[i] = q[at[i]]
  BY DEF Ordered
<1>2. at \in [DOMAIN f -> 1 .. m] /\ \A i \in DOMAIN f : f[i] = p[at[i]]
  BY <1>1
<1>. QED
  BY <1>1, <1>2 DEF Ordered

LEMMA OrderedAppend ==
  ASSUME NEW S, NEW f \in Seq(S), NEW q, NEW n \in Nat, NEW x \in S, q[n + 1] = x, Ordered(f, q, n)
  PROVE  Ordered(Append(f, x), q, n + 1)
<1> DEFINE v == Append(f, x)  m == Len(f) + 1
<1>1. /\ DOMAIN v = 1 .. m /\ DOMAIN f = 1 .. m - 1 /\ m \in Nat \ {0}
      /\ (\A i \in 1 .. m - 1 : v[i] = f[i]) /\ v[m] = x
  BY Appended1
<1>2. PICK at \in [DOMAIN f -> 1 .. n] :
        /\ \A i, j \in DOMAIN f : i < j => at[i] < at[j]
        /\ \A i \in DOMAIN f : f[i] = q[at[i]]
  BY DEF Ordered
<1> HIDE DEF v, m
<1> DEFINE to == [i \in 1 .. m |-> IF i = m THEN n + 1 ELSE at[i]]
<1>3. /\ \A i \in 1 .. m - 1 : to[i] = at[i] /\ at[i] \in 1 .. n
      /\ to[m] = n + 1
  BY <1>1, <1>2
<1>4. to \in [DOMAIN v -> 1 .. n + 1]
  BY <1>1, <1>2
<1> HIDE DEF to
<1>5. \A i \in 1 .. m : i = m \/ i \in 1 .. m - 1
  BY <1>1
<1>6. \A i, j \in DOMAIN v : i < j => to[i] < to[j]
  <2> SUFFICES ASSUME NEW i \in 1 .. m, NEW j \in 1 .. m, i < j PROVE to[i] < to[j]
    BY <1>1
  <2>1. i \in 1 .. m - 1
    BY <1>1
  <2>2. CASE j = m
    BY <1>3, <2>1, <2>2
  <2>3. CASE j \in 1 .. m - 1
    BY <1>1, <1>2, <1>3, <2>1, <2>3
  <2>. QED
    BY <1>5, <2>2, <2>3
<1>7. \A i \in DOMAIN v : v[i] = q[to[i]]
  BY <1>1, <1>2, <1>3, <1>5
<1>. QED
  BY <1>4, <1>6, <1>7 DEF Ordered, v

\* Where no element of q comes twice, f is what remains of q without the others.
LEMMA OrderedRemains ==
  ASSUME NEW f, NEW q, NEW n \in Nat, 1 .. n \subseteq DOMAIN q,
         \A i, j \in DOMAIN q : i # j => q[i] # q[j], Ordered(f, q, n)
  PROVE  \E gone \in SUBSET {q[k] : k \in DOMAIN q} : Remains(f, q, gone)
<1> DEFINE here == {f[i] : i \in DOMAIN f}
           gone == {q[k] : k \in DOMAIN q} \ here
<1>1. PICK at \in [DOMAIN f -> 1 .. n] :
        /\ \A i, j \in DOMAIN f : i < j => at[i] < at[j]
        /\ \A i \in DOMAIN f : f[i] = q[at[i]]
  BY DEF Ordered
<1>2. at \in [DOMAIN f -> DOMAIN q]
  BY <1>1
<1>3. {at[i] : i \in DOMAIN f} = {k \in DOMAIN q : q[k] \notin gone}
  <2>1. ASSUME NEW i \in DOMAIN f PROVE at[i] \in DOMAIN q /\ q[at[i]] \notin gone
    BY <1>1, <1>2
  <2>2. ASSUME NEW k \in DOMAIN q, q[k] \notin gone PROVE \E i \in DOMAIN f : at[i] = k
    <3>1. PICK i \in DOMAIN f : f[i] = q[k]
      BY <2>2
    <3>2. at[i] \in DOMAIN q /\ q[at[i]] = q[k]
      BY <1>1, <1>2, <3>1
    <3>. QED
      BY <3>2
  <2>. QED
    BY <2>1, <2>2
<1> HIDE DEF gone
<1>4. Remains(f, q, gone)
  BY <1>1, <1>2, <1>3 DEF Remains
<1>. QED
  BY <1>4 DEF gone

LEMMA FrontOfAppend ==
  ASSUME NEW S, NEW s \in Seq(S), NEW x \in S
  PROVE  Front(Append(s, x)) = s
<1> DEFINE t == Append(s, x)
<1>1. /\ t \in Seq(S) /\ Len(t) = Len(s) + 1 /\ Len(s) \in Nat /\ \A i \in 1 .. Len(s) : t[i] = s[i]
  BY Appended1
<1> HIDE DEF t
<1>2. SubSeq(t, 1, Len(t) - 1) = s
  BY <1>1
<1>. QED
  BY <1>2 DEF Front, t

LEMMA ConcatAppend ==
  ASSUME NEW S, NEW s \in Seq(S), NEW t \in Seq(S), NEW x \in S
  PROVE  s \o Append(t, x) = Append(s \o t, x)
<1> DEFINE u == <<x>>
<1>1. u \in Seq(S) /\ s \o t \in Seq(S)
  OBVIOUS
<1>2. Append(t, x) = t \o u /\ Append(s \o t, x) = (s \o t) \o u
  BY <1>1, AppendIsConcat
<1> HIDE DEF u
<1>3. (s \o t) \o u = s \o (t \o u)
  BY <1>1, ConcatAssociative
<1>. QED
  BY <1>2, <1>3

\* The records that are to be written, the first one next.
Waiting(l) == (IF l.step = "append" THEN <<l.holding>> ELSE <<>>) \o l.tasks

LogFields == {"tasks", "holding", "step", "disk", "archive", "stats", "seeded", "counter", "lost"}
LogTypes(l) ==
  /\ DOMAIN l = LogFields /\ l.step \in {None, "append", "count"}
  /\ l.step # None => l.holding \in Requests
  /\ l.tasks \in Seq(Requests) /\ l.disk \in Seq(Requests) /\ l.archive \in Seq(Requests)
  /\ l.stats \in Seq(Requests) /\ l.lost \subseteq Requests /\ l.seeded \in BOOLEAN

\* Of the completed requests q the first n are in the files or lost, and the
\* other ones wait.
Files(l) == l.archive \o l.disk
Among(x, q, n) == \E i \in 1 .. n : q[i] = x
Rest(w, q, n) == /\ Len(q) = n + Len(w)
                 /\ \A i \in 1 .. Len(w) : q[n + i] = w[i]
Placed(l, q, n) ==
  /\ n \in Nat
  /\ Rest(Waiting(l), q, n)
  /\ Ordered(Files(l), q, n)
  /\ \A r \in l.lost : Among(r, q, n)
  /\ \A k \in DOMAIN l.stats : Among(l.stats[k], q, n)
  /\ l.step = "count" => n > 0 /\ q[n] = l.holding

\* The statistics, and the record that is written and not yet counted.
Counts(l) ==
  /\ l.step # None => l.seeded
  /\ \A i \in DOMAIN l.disk : l.disk[i] \notin l.lost
  /\ l.step = "count" => \A k \in DOMAIN l.stats : l.stats[k] # l.holding
  /\ l.step = "count" /\ l.holding \notin l.lost => l.disk # <<>> /\ Last(l.disk) = l.holding
  /\ StatsAreDisk(l)

NoneTwice(q) == \A i, j \in DOMAIN q : i # j => q[i] # q[j]

LEMMA WaitingTyped ==
  ASSUME NEW l, LogTypes(l)
  PROVE  /\ Waiting(l) \in Seq(Requests)
         /\ l.step # "append" => Waiting(l) = l.tasks
         /\ l.step = "append" => /\ Len(Waiting(l)) = Len(l.tasks) + 1 /\ Waiting(l)[1] = l.holding
                                 /\ \A i \in DOMAIN l.tasks : Waiting(l)[i + 1] = l.tasks[i]
<1>1. l.tasks \in Seq(Requests)
  BY DEF LogTypes
<1>2. CASE l.step # "append"
  <2>1. Waiting(l) = <<>> \o l.tasks
    BY <1>2 DEF Waiting
  <2>. QED
    BY <1>1, <1>2, <2>1, ConcatEmptySeq
<1>3. CASE l.step = "append"
  <2>1. Waiting(l) = <<l.holding>> \o l.tasks /\ l.holding \in Requests
    BY <1>3 DEF Waiting, LogTypes, None
  <2>2. <<l.holding>> \in Seq(Requests) /\ Len(<<l.holding>>) = 1 /\ <<l.holding>>[1] = l.holding
    BY <2>1
  <2>. QED
    BY <1>1, <1>3, <2>1, <2>2, ConcatProperties
<1>. QED
  BY <1>2, <1>3

LEMMA AmongLonger ==
  ASSUME NEW q, NEW p, NEW n \in Nat, NEW m \in Nat, n <= m,
         \A i \in 1 .. n : p[i] = q[i], NEW x, Among(x, q, n)
  PROVE  Among(x, p, m)
BY DEF Among

\* The files' records are among the first ones.
LEMMA FilesOfPlaced ==
  ASSUME NEW l, NEW q, NEW n, LogTypes(l), Placed(l, q, n)
  PROVE  /\ Files(l) \in Seq(Requests)
         /\ \A k \in DOMAIN l.disk : Among(l.disk[k], q, n)
<1> DEFINE f == Files(l)  a == l.archive  d == l.disk
<1>0. a \in Seq(Requests) /\ d \in Seq(Requests) /\ f = a \o d
  BY DEF LogTypes, Files
<1>p. Ordered(f, q, n)
  BY DEF Placed
<1> HIDE DEF f, a, d
<1>1. /\ f \in Seq(Requests) /\ Len(f) = Len(a) + Len(d)
      /\ \A k \in 1 .. Len(d) : f[Len(a) + k] = d[k]
  BY <1>0, ConcatProperties
<1>2. PICK at \in [DOMAIN f -> 1 .. n] : \A i \in DOMAIN f : f[i] = q[at[i]]
  BY <1>p DEF Ordered
<1>3. ASSUME NEW k \in DOMAIN d PROVE Among(d[k], q, n)
  <2>1. /\ Len(a) \in Nat /\ Len(d) \in Nat /\ k \in 1 .. Len(d)
        /\ DOMAIN f = 1 .. Len(f)
    BY <1>0, <1>1, <1>3
  <2> DEFINE i == Len(a) + k
  <2>2. i \in DOMAIN f /\ f[i] = d[k]
    BY <1>1, <2>1
  <2> HIDE DEF i
  <2>3. at[i] \in 1 .. n /\ q[at[i]] = d[k]
    BY <1>2, <2>2
  <2>. QED
    BY <2>3 DEF Among
<1>. QED
  BY <1>1, <1>3 DEF f, d

\* A request is completed.
LEMMA ScheduledKeeps ==
  ASSUME NEW l, NEW q \in Seq(Requests), NEW n, NEW r \in Requests,
         LogTypes(l), Placed(l, q, n), Counts(l)
  PROVE  LET m == Scheduled(l, r) IN LogTypes(m) /\ Placed(m, Append(q, r), n) /\ Counts(m)
<1> DEFINE m == Scheduled(l, r)  p == Append(q, r)  w == Waiting(l)
<1>1. /\ DOMAIN m = LogFields /\ m.tasks = Append(l.tasks, r)
      /\ m.holding = l.holding /\ m.step = l.step /\ m.disk = l.disk /\ m.archive = l.archive
      /\ m.stats = l.stats /\ m.seeded = l.seeded /\ m.lost = l.lost
  BY DEF Scheduled, LogTypes, LogFields
<1>2. LogTypes(m)
  BY <1>1 DEF LogTypes
<1>3. Counts(m)
  BY <1>1 DEF Counts, StatsAreDisk, Recorded
<1>w. w \in Seq(Requests)
  BY WaitingTyped
<1> HIDE DEF m
<1>4. Waiting(m) = Append(w, r)
  <2>1. l.tasks \in Seq(Requests) /\ (l.step = "append" => l.holding \in Requests)
    BY DEF LogTypes, None
  <2>2. CASE l.step # "append"
    <3>1. Waiting(m) = <<>> \o Append(l.tasks, r) /\ Waiting(l) = <<>> \o l.tasks
      BY <1>1, <2>2 DEF Waiting
    <3>. QED
      BY <2>1, <3>1, ConcatEmptySeq, AppendProperties DEF w
  <2>3. CASE l.step = "append"
    <3> DEFINE h == <<l.holding>>  t == l.tasks
    <3>1. Waiting(m) = h \o Append(t, r) /\ w = h \o t
      BY <1>1, <2>3 DEF Waiting
    <3>2. h \in Seq(Requests) /\ t \in Seq(Requests)
      BY <2>1, <2>3
    <3> HIDE DEF h, t, w
    <3>. QED
      BY <3>1, <3>2, ConcatAppend
  <2>. QED
    BY <2>2, <2>3
<1>7. n \in Nat /\ Len(q) = n + Len(w) /\ \A i \in 1 .. Len(w) : q[n + i] = w[i]
  BY DEF Placed, Rest
<1> HIDE DEF w
<1>5. /\ Len(Waiting(m)) = Len(w) + 1 /\ Len(w) \in Nat /\ DOMAIN Waiting(m) = 1 .. Len(w) + 1
      /\ DOMAIN w = 1 .. Len(w)
      /\ (\A i \in 1 .. Len(w) : Waiting(m)[i] = w[i]) /\ Waiting(m)[Len(w) + 1] = r
  BY <1>w, <1>4, Appended1
<1>6. /\ Len(p) = Len(q) + 1 /\ Len(q) \in Nat
      /\ (\A i \in 1 .. Len(q) : p[i] = q[i]) /\ p[Len(q) + 1] = r
  BY Appended1
<1> HIDE DEF p
<1>8. \A i \in 1 .. Len(Waiting(m)) : p[n + i] = Waiting(m)[i]
  <2> SUFFICES ASSUME NEW i \in 1 .. Len(w) + 1 PROVE p[n + i] = Waiting(m)[i]
    BY <1>5
  <2>1. CASE i = Len(w) + 1
    BY <1>5, <1>6, <1>7, <2>1
  <2>2. CASE i \in 1 .. Len(w)
    BY <1>5, <1>6, <1>7, <2>2
  <2>. QED
    BY <1>5, <2>1, <2>2
<1>9. \A i \in 1 .. n : p[i] = q[i]
  BY <1>5, <1>6, <1>7
<1>10. Files(m) = Files(l) /\ Ordered(Files(l), q, n)
  BY <1>1 DEF Files, Placed
<1>11. Ordered(Files(m), p, n)
  BY <1>7, <1>9, <1>10, OrderedLonger
<1>12. \A x : Among(x, q, n) => Among(x, p, n)
  BY <1>7, <1>9, AmongLonger
<1>13. m.step = "count" => n > 0 /\ p[n] = m.holding
  BY <1>1, <1>7, <1>9 DEF Placed
<1>14. Rest(Waiting(m), p, n)
  BY <1>5, <1>6, <1>7, <1>8 DEF Rest
<1>15. Placed(m, p, n)
  BY <1>1, <1>7, <1>11, <1>12, <1>13, <1>14 DEF Placed
<1>. QED
  BY <1>2, <1>3, <1>15 DEF m, p

LEMMA SeedKeeps ==
  ASSUME NEW l, NEW q, NEW n, LogTypes(l), Placed(l, q, n), Counts(l), l.step # "count"
  PROVE  LET m == Seed(l) IN /\ LogTypes(m) /\ Placed(m, q, n) /\ Counts(m) /\ m.seeded
                             /\ m.step = l.step /\ m.tasks = l.tasks
<1> DEFINE m == Seed(l)
<1>1. CASE l.seeded
  BY <1>1 DEF Seed
<1>2. CASE ~l.seeded
  <2>1. /\ DOMAIN m = LogFields /\ m.stats = l.disk /\ m.seeded
        /\ m.tasks = l.tasks /\ m.holding = l.holding /\ m.step = l.step /\ m.disk = l.disk
        /\ m.archive = l.archive /\ m.lost = l.lost
    BY <1>2 DEF Seed, LogTypes, LogFields
  <2> HIDE DEF m
  <2>2. LogTypes(m)
    BY <2>1 DEF LogTypes
  <2>3. Placed(m, q, n)
    <3>1. Waiting(m) = Waiting(l)
      BY <2>1 DEF Waiting
    <3>2. Files(m) = Files(l) /\ \A k \in DOMAIN l.disk : Among(l.disk[k], q, n)
      BY <2>1, FilesOfPlaced DEF Files
    <3>. QED
      BY <2>1, <3>1, <3>2 DEF Placed
  <2>4. Remains(l.disk, l.disk, l.lost)
    BY RemainsSelf DEF LogTypes, Counts
  <2>5. Counts(m)
    BY <2>1, <2>4 DEF Counts, StatsAreDisk, Recorded
  <2>. QED
    BY <2>1, <2>2, <2>3, <2>5 DEF m
<1>. QED
  BY <1>1, <1>2

\* The thread takes a record.
LEMMA TakenKeeps ==
  ASSUME NEW l, NEW q \in Seq(Requests), NEW n, LogTypes(l), Placed(l, q, n), Counts(l), Idle(l), l.tasks # <<>>
  PROVE  LET m == Taken(l) IN LogTypes(m) /\ Placed(m, q, n) /\ Counts(m)
<1> DEFINE s == Seed(l)  m == Taken(l)
<1>0. l.step = None /\ l.step \notin {"append", "count"}
  BY DEF Idle, None
<1>1. /\ LogTypes(s) /\ Placed(s, q, n) /\ Counts(s) /\ s.seeded
      /\ s.step = None /\ s.tasks = l.tasks
  BY <1>0, SeedKeeps
<1>2. /\ DOMAIN m = LogFields /\ m.tasks = Tail(s.tasks) /\ m.holding = Head(s.tasks)
      /\ m.step = "append" /\ m.disk = s.disk /\ m.archive = s.archive
      /\ m.stats = s.stats /\ m.seeded = s.seeded /\ m.lost = s.lost
  <2>1. m = [s EXCEPT !.tasks = Tail(@), !.holding = Head(l.tasks), !.step = "append"]
    BY DEF Taken
  <2> HIDE DEF s, m
  <2>. QED
    BY <1>1, <2>1 DEF LogTypes, LogFields
<1> HIDE DEF s, m
<1>3. /\ s.tasks \in Seq(Requests) /\ Tail(s.tasks) \in Seq(Requests) /\ Head(s.tasks) \in Requests
      /\ <<Head(s.tasks)>> \o Tail(s.tasks) = s.tasks
  BY <1>1, HeadTailProperties DEF LogTypes
<1>4. LogTypes(m)
  BY <1>1, <1>2, <1>3 DEF LogTypes
<1>5. Waiting(m) = Waiting(s)
  <2>1. Waiting(m) = s.tasks
    BY <1>2, <1>3 DEF Waiting
  <2>2. Waiting(s) = s.tasks
    BY <1>0, <1>1, WaitingTyped
  <2>. QED
    BY <2>1, <2>2
<1>6. Placed(m, q, n)
  <2>1. Files(m) = Files(s)
    BY <1>2 DEF Files
  <2>. QED
    BY <1>1, <1>2, <1>5, <2>1 DEF Placed
<1>7. Counts(m)
  BY <1>0, <1>1, <1>2 DEF Counts, StatsAreDisk, Recorded
<1>. QED
  BY <1>4, <1>6, <1>7 DEF m

\* The thread appends its record, or fails to.
LEMMA AppendedKeeps ==
  ASSUME NEW l, NEW q \in Seq(Requests), NEW n, NEW ok \in BOOLEAN,
         LogTypes(l), Placed(l, q, n), Counts(l), NoneTwice(q), l.step = "append"
  PROVE  LET m == Appended(l, ok) IN LogTypes(m) /\ Placed(m, q, n + 1) /\ Counts(m)
<1> DEFINE m == Appended(l, ok)  h == l.holding
<1>1. /\ DOMAIN m = LogFields /\ m.tasks = l.tasks /\ m.holding = h /\ m.step = "count"
      /\ m.disk = IF ok THEN Append(l.disk, h) ELSE l.disk
      /\ m.lost = IF ok THEN l.lost ELSE l.lost \cup {h}
      /\ m.archive = l.archive /\ m.stats = l.stats /\ m.seeded = l.seeded
  BY DEF Appended, LogTypes, LogFields
<1>2. h \in Requests /\ l.disk \in Seq(Requests) /\ l.stats \in Seq(Requests)
      /\ l.archive \in Seq(Requests)
  BY DEF LogTypes, None
<1>3. LogTypes(m)
  BY <1>1, <1>2, AppendProperties DEF LogTypes
<1>4. /\ Len(Waiting(l)) = Len(l.tasks) + 1 /\ Waiting(l)[1] = h /\ Len(l.tasks) \in Nat
      /\ DOMAIN l.tasks = 1 .. Len(l.tasks) /\ DOMAIN Waiting(l) = 1 .. Len(l.tasks) + 1
      /\ \A i \in DOMAIN l.tasks : Waiting(l)[i + 1] = l.tasks[i]
  <2>1. Waiting(l) \in Seq(Requests) /\ l.tasks \in Seq(Requests)
    BY WaitingTyped DEF LogTypes
  <2>. QED
    BY <2>1, WaitingTyped
<1>w. Waiting(m) = l.tasks
  BY <1>1, <1>3, WaitingTyped
<1> HIDE DEF m
<1> DEFINE w == Waiting(l)  t == l.tasks
<1>p. n \in Nat /\ Len(q) = n + Len(w) /\ \A i \in 1 .. Len(w) : q[n + i] = w[i]
  BY DEF Placed, Rest
<1>t. /\ Len(w) = Len(t) + 1 /\ w[1] = h /\ Len(t) \in Nat /\ DOMAIN t = 1 .. Len(t)
      /\ \A i \in 1 .. Len(t) : w[i + 1] = t[i]
  BY <1>4
<1> HIDE DEF w, t
<1>5. Len(q) = (n + 1) + Len(t) /\ q[n + 1] = h
  BY <1>p, <1>t
<1>6. \A i \in 1 .. Len(t) : q[(n + 1) + i] = t[i]
  <2> SUFFICES ASSUME NEW i \in 1 .. Len(t) PROVE q[(n + 1) + i] = t[i]
    OBVIOUS
  <2>1. i + 1 \in 1 .. Len(w) /\ n + (i + 1) = (n + 1) + i
    BY <1>p, <1>t
  <2>2. q[n + (i + 1)] = w[i + 1] /\ w[i + 1] = t[i]
    BY <1>p, <1>t, <2>1
  <2>. QED
    BY <2>1, <2>2
<1>r. Rest(Waiting(m), q, n + 1)
  BY <1>5, <1>6, <1>w DEF Rest, t
<1>7. \A i \in 1 .. n : q[i] # h
  <2> SUFFICES ASSUME NEW i \in 1 .. n PROVE q[i] # h
    OBVIOUS
  <2>1. i \in DOMAIN q /\ n + 1 \in DOMAIN q /\ i # n + 1
    <3>1. DOMAIN q = 1 .. Len(q)
      OBVIOUS
    <3>. QED
      BY <1>p, <1>t, <1>5, <3>1
  <2>. QED
    BY <1>5, <2>1 DEF NoneTwice
<1>8. /\ \A k \in DOMAIN l.stats : l.stats[k] # h
      /\ \A k \in DOMAIN l.disk : l.disk[k] # h
      /\ h \notin l.lost
  <2>1. \A x : Among(x, q, n) => x # h
    BY <1>7 DEF Among
  <2>2. \A k \in DOMAIN l.disk : Among(l.disk[k], q, n)
    BY FilesOfPlaced
  <2>3. /\ \A k \in DOMAIN l.stats : Among(l.stats[k], q, n)
        /\ \A r \in l.lost : Among(r, q, n)
    BY DEF Placed
  <2>. QED
    BY <2>1, <2>2, <2>3
<1>9. Ordered(Files(m), q, n + 1)
  <2> DEFINE f == Files(l)
  <2>1. f \in Seq(Requests) /\ Ordered(f, q, n)
    BY FilesOfPlaced DEF Placed
  <2>2. CASE ok
    <3> DEFINE a == l.archive  d == l.disk
    <3>1. a \in Seq(Requests) /\ d \in Seq(Requests) /\ f = a \o d
      BY <1>2 DEF Files
    <3>2. Files(m) = a \o Append(d, h)
      BY <1>1, <2>2 DEF Files
    <3> HIDE DEF f, a, d, h
    <3>5. Files(m) = Append(f, h)
      BY <1>2, <3>1, <3>2, ConcatAppend
    <3>6. Ordered(Append(f, h), q, n + 1)
      BY <1>p, <1>2, <1>5, <2>1, OrderedAppend
    <3>. QED
      BY <3>5, <3>6
  <2>3. CASE ~ok
    <3>1. Files(m) = f
      BY <1>1, <2>3 DEF Files
    <3> HIDE DEF f
    <3>2. Ordered(f, q, n + 1)
      <4>1. n + 1 \in Nat /\ n <= n + 1
        BY <1>p
      <4>. QED
        BY <1>p, <2>1, <4>1, OrderedLonger
    <3>. QED
      BY <3>1, <3>2
  <2>. QED
    BY <2>2, <2>3
<1>10. /\ \A r \in m.lost : Among(r, q, n + 1)
       /\ \A k \in DOMAIN m.stats : Among(m.stats[k], q, n + 1)
  <2>1. \A x : Among(x, q, n) => Among(x, q, n + 1)
    <3>1. 1 .. n \subseteq 1 .. n + 1
      BY <1>p
    <3>. QED
      BY <3>1 DEF Among
  <2>2. Among(h, q, n + 1)
    <3>1. n + 1 \in 1 .. n + 1
      BY <1>p
    <3>. QED
      BY <1>5, <3>1 DEF Among
  <2>3. /\ \A k \in DOMAIN l.stats : Among(l.stats[k], q, n)
        /\ \A r \in l.lost : Among(r, q, n)
    BY DEF Placed
  <2>. QED
    BY <1>1, <2>1, <2>2, <2>3
<1>11. Placed(m, q, n + 1)
  <2>1. n + 1 \in Nat /\ n + 1 > 0
    BY <1>p
  <2>. QED
    BY <1>1, <1>5, <1>9, <1>10, <1>r, <2>1 DEF Placed
<1>12. Remains(l.disk, l.stats, l.lost) /\ l.seeded
  BY DEF Counts, StatsAreDisk, Recorded, None
<1>13. CASE ok
  <2>1. /\ m.disk = Append(l.disk, h) /\ m.lost = l.lost
        /\ m.disk # <<>> /\ Last(m.disk) = h
        /\ \A i \in DOMAIN m.disk : m.disk[i] \in l.lost => FALSE
    <3> DEFINE d == Append(l.disk, h)
    <3>1. /\ d # <<>> /\ Last(d) = h /\ DOMAIN d = 1 .. Len(l.disk) + 1 /\ Len(l.disk) \in Nat
          /\ (\A i \in 1 .. Len(l.disk) : d[i] = l.disk[i]) /\ d[Len(l.disk) + 1] = h
          /\ DOMAIN l.disk = 1 .. Len(l.disk)
      BY <1>2, Appended1
    <3> HIDE DEF d
    <3>2. \A i \in DOMAIN d : i \in DOMAIN l.disk \/ i = Len(l.disk) + 1
      BY <3>1
    <3>3. \A i \in DOMAIN d : d[i] \notin l.lost
      BY <1>8, <3>1, <3>2 DEF Counts
    <3>. QED
      BY <1>1, <1>13, <3>1, <3>3 DEF d
  <2>2. Front(m.disk) = l.disk
    BY <1>2, <2>1, FrontOfAppend
  <2>. QED
    BY <1>1, <1>3, <1>8, <1>11, <1>12, <2>1, <2>2 DEF Counts, StatsAreDisk, Recorded, m
<1>14. CASE ~ok
  <2>1. Remains(l.disk, l.stats, l.lost \cup {h})
    BY <1>8, <1>12, RemainsLost
  <2>2. \A i \in DOMAIN l.disk : l.disk[i] \notin l.lost \cup {h}
    BY <1>8 DEF Counts
  <2>. QED
    BY <1>1, <1>3, <1>8, <1>11, <1>12, <1>14, <2>1, <2>2 DEF Counts, StatsAreDisk, Recorded, m
<1>. QED
  BY <1>13, <1>14

\* What is moved to the archive is counted no more.
LEMMA ArchivedKeeps ==
  ASSUME NEW l, NEW q, NEW n, LogTypes(l), Placed(l, q, n), l.step = None
  PROVE  LET m == Archived(l) IN LogTypes(m) /\ Placed(m, q, n) /\ Counts(m)
<1> DEFINE m == Archived(l)  f == Files(l)
<1>1. /\ DOMAIN m = LogFields /\ m.tasks = l.tasks /\ m.step = l.step /\ m.holding = l.holding
      /\ m.archive = f /\ m.disk = <<>> /\ m.stats = <<>> /\ m.seeded /\ m.lost = l.lost
  <2> DEFINE x == [l EXCEPT !.archive = @ \o l.disk, !.disk = <<>>, !.stats = <<>>, !.seeded = FALSE]
  <2>1. m = Seed(x)
    BY DEF Archived
  <2>2. /\ DOMAIN x = LogFields /\ x.tasks = l.tasks /\ x.step = l.step /\ x.holding = l.holding
        /\ x.archive = f /\ x.disk = <<>> /\ x.stats = <<>> /\ ~x.seeded /\ x.lost = l.lost
    BY DEF Files, LogTypes, LogFields
  <2> HIDE DEF x, m, f
  <2>3. m = [x EXCEPT !.stats = x.disk, !.seeded = TRUE]
    BY <2>1, <2>2 DEF Seed
  <2>. QED
    BY <2>2, <2>3 DEF LogFields
<1>2. f \in Seq(Requests)
  BY FilesOfPlaced
<1> HIDE DEF m, f
<1>3. LogTypes(m)
  <2>1. <<>> \in Seq(Requests)
    OBVIOUS
  <2>. QED
    BY <1>1, <1>2, <2>1 DEF LogTypes
<1>4. Files(m) = Files(l)
  BY <1>1, <1>2, ConcatEmptySeq DEF Files, f
<1>5. Waiting(m) = Waiting(l)
  BY <1>1 DEF Waiting
<1>6. Placed(m, q, n)
  BY <1>1, <1>4, <1>5 DEF Placed
<1>7. l.step \notin {"append", "count"}
  BY DEF None
<1>8. Remains(<<>>, <<>>, l.lost)
  <2> DEFINE s == <<>>
  <2>1. s \in Seq(Requests) /\ \A i \in DOMAIN s : s[i] \notin l.lost
    OBVIOUS
  <2> HIDE DEF s
  <2>2. Remains(s, s, l.lost)
    BY <2>1, RemainsSelf
  <2>. QED
    BY <2>2 DEF s
<1>9. Counts(m)
  BY <1>1, <1>7, <1>8 DEF Counts, StatsAreDisk, Recorded
<1>. QED
  BY <1>3, <1>6, <1>9 DEF m

\* The thread counts its record.
LEMMA CountedKeeps ==
  ASSUME NEW l, NEW q, NEW n, LogTypes(l), Placed(l, q, n), Counts(l), l.step = "count"
  PROVE  LET m == Counted(l) IN LogTypes(m) /\ Placed(m, q, n) /\ Counts(m)
<1> DEFINE h == l.holding
           m == [l EXCEPT !.stats = Append(@, l.holding), !.counter = l.counter + 1,
                          !.holding = None, !.step = None]
<1>1. /\ DOMAIN m = LogFields /\ m.tasks = l.tasks /\ m.step = None /\ m.holding = None
      /\ m.stats = Append(l.stats, h) /\ m.disk = l.disk /\ m.archive = l.archive
      /\ m.seeded = l.seeded /\ m.lost = l.lost
  BY DEF LogTypes, LogFields
<1>2. h \in Requests /\ l.disk \in Seq(Requests) /\ l.stats \in Seq(Requests) /\ l.tasks \in Seq(Requests)
      /\ None \notin {"append", "count"}
  BY DEF LogTypes, None
<1>c. Counted(l) = m \/ Counted(l) = Archived(m)
  BY DEF Counted
<1> HIDE DEF m
<1>3. LogTypes(m)
  BY <1>1, <1>2, AppendProperties DEF LogTypes
<1>4. Placed(m, q, n)
  <2>1. Waiting(m) = Waiting(l)
    BY <1>1, <1>2, <1>3, WaitingTyped
  <2>2. Files(m) = Files(l)
    BY <1>1 DEF Files
  <2>3. Among(h, q, n) /\ n \in Nat
    BY DEF Placed, Among
  <2>4. \A k \in DOMAIN m.stats : Among(m.stats[k], q, n)
    <3> DEFINE s == l.stats  t == m.stats
    <3>1. \A k \in DOMAIN s : Among(s[k], q, n)
      BY DEF Placed
    <3>2. s \in Seq(Requests) /\ t = Append(s, h)
      BY <1>1, <1>2
    <3> HIDE DEF s, t
    <3>3. \A k \in DOMAIN t : (k \in DOMAIN s /\ t[k] = s[k]) \/ t[k] = h
      BY <1>2, <3>2, Appended1
    <3>4. \A k \in DOMAIN t : Among(t[k], q, n)
      BY <2>3, <3>1, <3>3
    <3>. QED
      BY <3>4 DEF t
  <2>. QED
    BY <1>1, <1>2, <2>1, <2>2, <2>4 DEF Placed
<1>5. l.seeded /\ Remains(Recorded(l), l.stats, l.lost)
  BY DEF Counts, StatsAreDisk, None
<1>6. Remains(l.disk, m.stats, l.lost)
  <2>1. CASE h \in l.lost
    <3>1. Recorded(l) = l.disk
      BY <2>1 DEF Recorded
    <3>. QED
      BY <1>1, <1>2, <1>5, <2>1, <3>1, RemainsSkip
  <2>2. CASE h \notin l.lost
    <3> DEFINE d == l.disk  f == Front(l.disk)
    <3>1. Recorded(l) = f /\ d # <<>> /\ Last(d) = h /\ d \in Seq(Requests)
      BY <1>2, <2>2 DEF Recorded, Counts
    <3>2. f \in Seq(Requests) /\ Append(f, h) = d
      <4>1. /\ Len(d) \in Nat \ {0} /\ f = SubSeq(d, 1, Len(d) - 1) /\ d[Len(d)] = h
        BY <3>1 DEF Front, Last
      <4> HIDE DEF d, f
      <4>. QED
        BY <3>1, <4>1
    <3> HIDE DEF d, f
    <3>3. Remains(Append(f, h), Append(l.stats, h), l.lost)
      BY <1>2, <1>5, <2>2, <3>1, <3>2, RemainsAppend
    <3>. QED
      BY <1>1, <3>2, <3>3 DEF d
  <2>. QED
    BY <2>1, <2>2
<1>7. Counts(m)
  BY <1>1, <1>2, <1>6 DEF Counts, StatsAreDisk, Recorded
<1>8. LET a == Archived(m) IN LogTypes(a) /\ Placed(a, q, n) /\ Counts(a)
  BY <1>1, <1>3, <1>4, ArchivedKeeps
<1>. QED
  BY <1>c, <1>3, <1>4, <1>7, <1>8

\* What a new process finds of the log; nothing waits.
LEMMA ReloadedKeeps ==
  ASSUME NEW l, NEW q \in Seq(Requests), NEW n, LogTypes(l), Placed(l, q, n)
  PROVE  LET m == Reloaded(l) IN LogTypes(m) /\ Placed(m, q, Len(q)) /\ Counts(m)
<1> DEFINE m == Reloaded(l)
<1>1. /\ DOMAIN m = LogFields /\ m.tasks = <<>> /\ m.step = None /\ m.stats = <<>> /\ m.lost = {}
      /\ ~m.seeded /\ m.seeded \in BOOLEAN /\ m.disk = l.disk /\ m.archive = l.archive
  BY DEF Reloaded, EmptyLog, LogFields
<1>2. l.disk \in Seq(Requests) /\ l.archive \in Seq(Requests) /\ <<>> \in Seq(Requests)
      /\ None \notin {"append", "count"}
  BY DEF LogTypes, None
<1>w. Waiting(l) \in Seq(Requests)
  BY WaitingTyped
<1> HIDE DEF m
<1>3. LogTypes(m)
  BY <1>1, <1>2 DEF LogTypes
<1>4. Rest(Waiting(m), q, Len(q))
  <2>1. Waiting(m) = <<>>
    BY <1>1, <1>2, <1>3, WaitingTyped
  <2>. QED
    BY <2>1 DEF Rest
<1>5. Ordered(Files(m), q, Len(q))
  <2>1. Files(m) = Files(l) /\ Ordered(Files(l), q, n) /\ n \in Nat
    BY <1>1 DEF Files, Placed
  <2> DEFINE w == Waiting(l)
  <2>2. Len(q) = n + Len(w)
    BY DEF Placed, Rest
  <2>3. Len(w) \in Nat /\ Len(q) \in Nat
    BY <1>w
  <2> HIDE DEF w
  <2>4. n <= Len(q)
    BY <2>1, <2>2, <2>3
  <2>. QED
    BY <2>1, <2>3, <2>4, OrderedLonger
<1>6. Placed(m, q, Len(q))
  <2>1. Len(q) \in Nat
    OBVIOUS
  <2>. QED
    BY <1>1, <1>2, <1>4, <1>5, <2>1 DEF Placed
<1>7. Counts(m)
  BY <1>1, <1>2 DEF Counts, StatsAreDisk
<1>. QED
  BY <1>3, <1>6, <1>7 DEF m

-----------------------------------------------------------------------------
(* The log, and the requests whose completion it was told of.              *)
Completed == /\ answered \in Seq(Requests) /\ NoneTwice(answered)
             /\ \A i \in DOMAIN answered : req[answered[i]].at = "gone"

LogKept(l, q) == LogTypes(l) /\ Counts(l) /\ \E n : Placed(l, q, n)

LogInv == /\ restarts \in 0 .. MaxRestarts
          /\ Completed
          /\ LogKept(log, answered)

\* A request is told to the log when it leaves, and only then.
Told(r) ==
  \/ UNCHANGED <<log, answered>>
  \/ /\ log' = Scheduled(log, r) /\ answered' = Append(answered, r)
     /\ req'[r].at = "gone"

LEMMA PublishTells ==
  ASSUME NEW r \in Requests, NEW types, Publish(r, types),
         "request_complete" \in ToSet(types) => req'[r].at = "gone"
  PROVE  Told(r) /\ UNCHANGED restarts
BY DEF Publish, LogAfter, Told

LEMMA TypesOf ==
  /\ \A a : ToSet(<<a>>) = {a}
  /\ \A a, b : ToSet(<<a, b>>) = {a, b}
BY DEF ToSet

LEMMA RequestTells ==
  ASSUME req \in [Requests -> RequestType], NEW r \in Requests, RequestStep(r)
  PROVE  /\ Told(r) /\ UNCHANGED restarts /\ req[r].at # "gone"
         /\ \A p \in Requests \ {r} : req'[p] = req[p]
<1>1. req[r].at # "gone" /\ \A p \in Requests \ {r} : req'[p] = req[p]
  BY DEF RequestStep, Arrives, ArrivesQueued, Admitted, Refused, QueueCancelled, BadBody,
     Resolved, CircuitOpen, Raises, Dispatched, Connects, Connected, FailsOver, StatusFailsOver,
     StreamFails, FailureRecorded, StreamEnds, ClientLeaves, BodyUnstarted, Posts, Answers,
     StatusFails, RetryAnswers, RetryFails, GivesUp, TransportFailsOver,
     TransportFails, Go, Try, Leave
<1>2. \/ Silent
      \/ \E types : Publish(r, types) /\ "request_complete" \notin ToSet(types)
      \/ req'[r].at = "gone" /\ \E types : Publish(r, types)
  <2>1. CASE \/ QueueCancelled(r) \/ BadBody(r) \/ CircuitOpen(r) \/ Raises(r) \/ FailsOver(r)
             \/ BodyUnstarted(r) \/ GivesUp(r) \/ TransportFailsOver(r)
    BY <2>1 DEF QueueCancelled, BadBody, CircuitOpen, Raises, FailsOver, BodyUnstarted, GivesUp,
       TransportFailsOver
  <2>2. CASE \/ FailureRecorded(r) \/ StreamEnds(r) \/ Answers(r) \/ RetryAnswers(r)
             \/ TransportFails(r) \/ Refused(r) \/ ClientLeaves(r)
    <3>1. \A from, exit : Leave(r, from, exit) => req'[r].at = "gone"
      BY DEF Leave, RequestType
    <3>. QED
      BY <2>2, <3>1 DEF FailureRecorded, StreamEnds, Answers, RetryAnswers, TransportFails,
         AnswerPublished, Refused, ClientLeaves
  <2>3. CASE \/ Arrives(r) \/ ArrivesQueued(r) \/ Admitted(r) \/ Dispatched(r) \/ Connects(r)
             \/ Connected(r) \/ StatusFailsOver(r) \/ Posts(r) \/ StatusFails(r) \/ RetryFails(r)
    <3>1. \/ Silent \/ Publish(r, <<"acquired">>) \/ Publish(r, <<"queued">>)
          \/ Publish(r, <<"request_route">>) \/ Publish(r, <<"upstream_connect">>)
          \/ Publish(r, <<"upstream_connected">>) \/ Publish(r, <<"upstream_error">>)
          \/ Publish(r, <<"route_resolved">>)
      BY <2>3 DEF Arrives, ArrivesQueued, Admitted, Dispatched, Connects, Connected,
         StatusFailsOver, Posts, StatusFails, RetryFails
    <3>3. ASSUME NEW t, t # "request_complete", Publish(r, <<t>>)
          PROVE  \E types : Publish(r, types) /\ "request_complete" \notin ToSet(types)
      <4> DEFINE types == <<t>>
      <4>1. ToSet(types) = {t} /\ Publish(r, types)
        BY <3>3, TypesOf
      <4> HIDE DEF types
      <4>. QED
        BY <3>3, <4>1
    <3>. QED
      BY <3>1, <3>3
  <2>4. CASE Resolved(r) \/ StreamFails(r)
    <3>1. \E types : /\ Publish(r, types)
                     /\ types \in {<<"route_resolved">>, <<"invalid_upstream", "route_resolved">>,
                                   <<"handler_error">>, <<"upstream_error", "handler_error">>}
      BY <2>4 DEF Resolved, StreamFails
    <3>. QED
      BY <3>1, TypesOf
  <2>. QED
    BY <2>1, <2>2, <2>3, <2>4 DEF RequestStep
<1>3. Told(r) /\ UNCHANGED restarts
  BY <1>2, PublishTells DEF Silent, Told
<1>. QED
  BY <1>1, <1>3

LEMMA NoneTwiceAppend ==
  ASSUME NEW q \in Seq(Requests), NoneTwice(q), NEW r \in Requests, \A i \in DOMAIN q : q[i] # r
  PROVE  NoneTwice(Append(q, r))
<1> DEFINE t == Append(q, r)  n == Len(q)
<1>1. /\ n \in Nat /\ DOMAIN t = 1 .. n + 1 /\ DOMAIN q = 1 .. n
      /\ (\A i \in 1 .. n : t[i] = q[i]) /\ t[n + 1] = r
  BY Appended1
<1> HIDE DEF t, n
<1>2. \A i \in DOMAIN t : i = n + 1 \/ (i \in DOMAIN q /\ t[i] = q[i])
  BY <1>1
<1>. QED
  BY <1>1, <1>2 DEF NoneTwice, t

LEMMA RequestLogs ==
  ASSUME req \in [Requests -> RequestType], LogInv, NEW r \in Requests, RequestStep(r)
  PROVE  LogInv'
<1>1. /\ Told(r) /\ UNCHANGED restarts /\ req[r].at # "gone"
      /\ \A p \in Requests \ {r} : req'[p] = req[p]
  BY RequestTells
<1>2. /\ answered \in Seq(Requests) /\ NoneTwice(answered)
      /\ \A i \in DOMAIN answered : req[answered[i]].at = "gone"
  BY DEF LogInv, Completed
<1>3. \A i \in DOMAIN answered : answered[i] \in Requests \ {r}
  BY <1>1, <1>2
<1>4. \A i \in DOMAIN answered : req'[answered[i]].at = "gone"
  BY <1>1, <1>2, <1>3
<1>5. CASE UNCHANGED <<log, answered>>
  BY <1>1, <1>2, <1>4, <1>5 DEF LogInv, Completed
<1>6. CASE log' = Scheduled(log, r) /\ answered' = Append(answered, r) /\ req'[r].at = "gone"
  <2>1. LogKept(Scheduled(log, r), Append(answered, r))
    BY <1>2, ScheduledKeeps DEF LogInv, LogKept
  <2>2. NoneTwice(Append(answered, r)) /\ Append(answered, r) \in Seq(Requests)
    BY <1>2, <1>3, NoneTwiceAppend
  <2>3. \A i \in DOMAIN Append(answered, r) : req'[Append(answered, r)[i]].at = "gone"
    <3> DEFINE t == Append(answered, r)
    <3>1. \A i \in DOMAIN t : t[i] = r \/ (i \in DOMAIN answered /\ t[i] = answered[i])
      BY <1>2, Appended1
    <3> HIDE DEF t
    <3>2. \A i \in DOMAIN t : req'[t[i]].at = "gone"
      BY <1>4, <1>6, <3>1
    <3>. QED
      BY <3>2 DEF t
  <2>. QED
    BY <1>1, <1>6, <2>1, <2>2, <2>3 DEF LogInv, Completed
<1>. QED
  BY <1>1, <1>5, <1>6 DEF Told

LEMMA LogStep == RegistryInv /\ LogInv /\ [Next]_vars => LogInv'
<1> SUFFICES ASSUME RegistryInv, LogInv, [Next]_vars PROVE LogInv'
  OBVIOUS
<1>0. /\ answered \in Seq(Requests) /\ NoneTwice(answered) /\ LogTypes(log) /\ Counts(log)
  BY DEF LogInv, Completed, LogKept
<1>p. PICK n : Placed(log, answered, n)
  BY DEF LogInv, LogKept
<1>1. ASSUME NEW r \in Requests, RequestStep(r) PROVE LogInv'
  BY <1>1, RequestLogs DEF RegistryInv
<1>2. CASE UNCHANGED <<req, log, answered, restarts>>
  BY <1>2 DEF LogInv, Completed
<1>3. ASSUME UNCHANGED <<req, answered, restarts>>, LogKept(log', answered) PROVE LogInv'
  BY <1>3 DEF LogInv, Completed
<1>4. CASE TaskRuns
  <2>1. LogKept(Taken(log), answered)
    BY <1>0, <1>p, <1>4, TakenKeeps DEF TaskRuns, LogKept
  <2>. QED
    BY <1>3, <1>4, <2>1 DEF TaskRuns, Keep
<1>5. CASE AppendsRecord
  <2>1. PICK ok \in BOOLEAN : log.step = "append" /\ log' = Appended(log, ok) /\ Keep
    BY <1>5 DEF AppendsRecord
  <2>2. LogKept(Appended(log, ok), answered)
    BY <1>0, <1>p, <2>1, AppendedKeeps DEF LogKept
  <2>. QED
    BY <1>3, <2>1, <2>2 DEF Keep
<1>6. CASE CountsRecord
  <2>1. LogKept(Counted(log), answered)
    BY <1>0, <1>p, <1>6, CountedKeeps DEF CountsRecord, LogKept
  <2>. QED
    BY <1>3, <1>6, <2>1 DEF CountsRecord, Keep
<1>7. CASE Restart
  <2>1. log' = Reloaded(log) /\ restarts < MaxRestarts /\ restarts' = restarts + 1
        /\ answered' = answered
    BY <1>7 DEF Restart
  <2>2. LogKept(Reloaded(log), answered)
    BY <1>0, <1>p, ReloadedKeeps DEF LogKept
  <2>3. \A r \in Requests : req[r].at = "gone" => req'[r].at = "gone"
    BY <1>7 DEF Restart, RegistryInv, RequestType
  <2>4. \A i \in DOMAIN answered : answered[i] \in Requests
    BY <1>0
  <2>. QED
    BY <2>1, <2>2, <2>3, <2>4, LimitsAssumption DEF LogInv, Completed
<1>. QED
  BY <1>1, <1>2, <1>4, <1>5, <1>6, <1>7 DEF Next, LoopStep, Deliver, HourPasses, WorkerTakes,
     WorkerWrote, vars

-----------------------------------------------------------------------------
(* The theorems.                                                           *)
ObsInv == RegistryInv /\ BusInv /\ LogInv

LEMMA LogInit == Init => LogInv
<1> SUFFICES ASSUME Init PROVE LogInv
  OBVIOUS
<1> DEFINE e == <<>>
<1>0. e \in Seq(Requests) /\ Len(e) = 0 /\ DOMAIN e = {}
  OBVIOUS
<1>1. log = EmptyLog /\ answered = e /\ restarts = 0
  BY DEF Init
<1>2. /\ DOMAIN log = LogFields /\ log.tasks = e /\ log.step = None /\ log.stats = e /\ log.lost = {}
      /\ ~log.seeded /\ log.seeded \in BOOLEAN /\ log.disk = e /\ log.archive = e
  BY <1>1 DEF EmptyLog, LogFields
<1>3. None \notin {"append", "count"}
  BY DEF None
<1> HIDE DEF e
<1>4. LogTypes(log) /\ Counts(log)
  BY <1>0, <1>2, <1>3 DEF LogTypes, Counts, StatsAreDisk
<1>5. Placed(log, e, 0)
  <2>1. Waiting(log) = e
    BY <1>2, <1>3, <1>4, WaitingTyped
  <2>2. Files(log) = e
    BY <1>0, <1>2, ConcatEmptySeq DEF Files, e
  <2>3. Ordered(e, e, 0)
    <3>1. [i \in {} |-> 0] \in [DOMAIN e -> 1 .. 0]
      BY <1>0
    <3>. QED
      BY <1>0, <3>1 DEF Ordered
  <2>4. Rest(e, e, 0)
    BY <1>0 DEF Rest
  <2>. QED
    BY <1>0, <1>2, <1>3, <2>1, <2>2, <2>3, <2>4 DEF Placed
<1>. QED
  BY <1>0, <1>1, <1>4, <1>5, LimitsAssumption DEF LogInv, LogKept, Completed, NoneTwice

LEMMA ObsInit == Init => ObsInv
<1> SUFFICES ASSUME Init PROVE ObsInv
  OBVIOUS
<1>1. RegistryInv
  BY DEF Init, RegistryInv, RegistryType, EmptyRegistry, RequestType, NewRequest, Shown, Places,
         Exits, Phases
<1>2. BusInv
  BY BusAssumption DEF Init, BusInv, Flagged, NoTwoNotices, NewProjector, ProjectorType
<1>3. LogInv
  BY LogInit
<1>. QED
  BY <1>1, <1>2, <1>3 DEF ObsInv

\* In every reachable state the registry shows of a request what its place
\* says, every announced overflow has its flag up, a projection's queue holds
\* no more than its size, and the log's files, statistics and waiting records
\* are those of the completed requests.
THEOREM ObservabilityInvariant == Spec => []ObsInv
<1>1. ObsInv /\ [Next]_vars => ObsInv'
  BY RegistryStep, BusStep, LogStep DEF ObsInv
<1>. QED
  BY <1>1, ObsInit, PTL DEF Spec

\* The registry, the projections' queues, the log and the restarts keep their
\* types: no queue grows beyond its size.
THEOREM TypesKept == Spec => []TypeOK
<1>1. ObsInv => TypeOK
  BY DEF ObsInv, RegistryInv, BusInv, LogInv, LogKept, LogTypes, TypeOK
<1>. QED
  BY <1>1, ObservabilityInvariant, PTL

\* GET /routes lists no request that is gone, but for those that left without
\* a terminal event, and shows no stream that no upstream has answered as
\* streaming (RouteStatusRegistry).
THEOREM ListedAreAlive == Spec => []ListedIsAlive
<1>1. ObsInv => ListedIsAlive
  BY DEF ObsInv, RegistryInv, RegistryType, RequestType, Shown, ListedIsAlive, Listed, Active,
         Places, Alive, Phases, Absent
<1>. QED
  BY <1>1, ObservabilityInvariant, PTL

\* While an event is delivered no projection announces its overflow twice,
\* however many of them are full (QueuedProjector._enqueue).
THEOREM NoticesAnnouncedOnce == Spec => []NoticesEnd
<1>1. ObsInv => NoticesEnd
  BY DEF ObsInv, BusInv, NoTwoNotices, NoticesEnd
<1>. QED
  BY <1>1, ObservabilityInvariant, PTL

\* However completions, failed writes, archives and restarts interleave, the
\* statistics are those of the records on disk and of the failed writes, in
\* their order, and the files hold every completed request at most once, in
\* the order of completion (PerformanceConsumer, PerformanceLogger).
THEOREM StatisticsMatchDisk == Spec => []StatsMatchDisk
<1>1. ObsInv => StatsMatchDisk
  <2> SUFFICES ASSUME ObsInv PROVE StatsMatchDisk
    OBVIOUS
  <2>1. /\ answered \in Seq(Requests) /\ NoneTwice(answered) /\ LogTypes(log) /\ Counts(log)
    BY DEF ObsInv, LogInv, Completed, LogKept
  <2>2. PICK n : Placed(log, answered, n)
    BY DEF ObsInv, LogInv, LogKept
  <2> DEFINE w == Waiting(log)  f == Files(log)
  <2>3. w \in Seq(Requests) /\ n \in Nat /\ Len(answered) = n + Len(w) /\ Ordered(f, answered, n)
    BY <2>1, <2>2, WaitingTyped DEF Placed, Rest
  <2> HIDE DEF w, f
  <2>4. 1 .. n \subseteq DOMAIN answered /\ ToSet(answered) = {answered[i] : i \in DOMAIN answered}
    BY <2>1, <2>3 DEF ToSet
  <2>5. \E gone \in SUBSET {answered[i] : i \in DOMAIN answered} : Remains(f, answered, gone)
    BY <2>1, <2>3, <2>4, OrderedRemains DEF NoneTwice
  <2>. QED
    BY <2>1, <2>4, <2>5 DEF StatsMatchDisk, Counts, Files, f
<1>. QED
  BY <1>1, ObservabilityInvariant, PTL
=============================================================================
