--------------------------- MODULE RequestLifecycle ---------------------------
(***************************************************************************)
(* The life of chat requests to one route: process_chat_request in         *)
(* endpoints/chat_completions.py, which takes an admission slot, asks the  *)
(* circuit breaker, prepares the payload and runs the upstream call, and   *)
(* the response object of app.py that drives a streamed body.              *)
(*                                                                         *)
(* It composes the two components: every step is a step of this module     *)
(* joined with an action of Admission and of CircuitBreaker, or with both  *)
(* left alone.  Between acquire and the first await the handler runs       *)
(* without suspension; the model lets others run there, which only adds    *)
(* interleavings.                                                          *)
(***************************************************************************)
EXTENDS Integers, FiniteSets, Sequences

CONSTANTS
  Requests, Caps, Unlimited, Patience,  \* see Admission
  FailureThreshold, RecoveryTimeout,    \* see CircuitBreaker
  Fallback,     \* whether the route has a fallback besides the primary, in the
                \* configurations explored: a subset of BOOLEAN
  Losses,       \* the ways to end that lose the lease, of those explored:
                \* "prepare" (an exception while preparing), "unstarted" (the
                \* client leaves before the body generator starts)
  MaxLeaks      \* bound: leases lost in one behaviour

ASSUME LossesAssumption == /\ Losses \subseteq {"prepare", "unstarted"}
                           /\ Fallback \subseteq BOOLEAN
                           /\ MaxLeaks \in Nat
ASSUME RequestsAssumption == IsFiniteSet(Requests) /\ Requests # {}
ASSUME CapsAssumption == Caps \subseteq Nat \ {0} /\ Unlimited \notin Caps
ASSUME PatienceAssumption == Patience \subseteq {"zero", "positive"}
ASSUME CircuitAssumption == FailureThreshold \in Nat \ {0} /\ RecoveryTimeout \in Nat

VARIABLES
  setting, value, waiters, phase, gate,  \* Admission
  circuit, attempt,                      \* CircuitBreaker
  stage,  \* where each request is
  reply   \* what its client has been told

adVars == <<setting, value, waiters, phase, gate>>
cbVars == <<circuit, attempt>>
vars == <<adVars, cbVars, stage, reply>>

AD == INSTANCE Admission
CB == INSTANCE CircuitBreaker WITH Callers <- Requests

\* "new": no handler yet; "queued": suspended in acquire; "admitted": acquire
\* returned; "prepared": the circuit was asked, the summary may be awaited;
\* "posting": a non-streaming upstream call; "wrapped": the body generator
\* exists but has not run; "streaming": it awaits the upstream; "yielding": it
\* is suspended at a yield while the chunk is sent; "reporting": the same, for
\* the SSE error frames after an upstream failure; "orphaned": the response is
\* over and the generator is still suspended at a yield; "answered": over.
Stages == {"new", "queued", "admitted", "prepared", "posting", "wrapped",
           "streaming", "yielding", "reporting", "orphaned", "answered"}

\* "crashed" and "unserved" are the ends that leak: an exception while the
\* request is prepared, a body generator that is dropped before it ran.
Replies == {"none", "denied", "ok", "client_error", "failed", "gone",
            "crashed", "unserved"}

Leaked(r) == reply[r] \in {"crashed", "unserved"} /\ gate[r] \in Caps

-----------------------------------------------------------------------------
LcInit == /\ AD!AdInit /\ CB!CBInit
          /\ stage = [r \in Requests |-> "new"]
          /\ reply = [r \in Requests |-> "none"]

Goto(r, s) == stage' = [stage EXCEPT ![r] = s]
Answer(r, s, what) == Goto(r, s) /\ reply' = [reply EXCEPT ![r] = what]

\* The request ends and neither circuit_success nor circuit_failure is called,
\* whether it was let through while closed or is the probe.
DropAttempt(r) == IF attempt[r] = "none" THEN UNCHANGED cbVars ELSE CB!Drop(r)

\* The request ends without a call of AdmissionLease.release.
AbandonLease(r) ==
  IF gate[r] \in Caps
  THEN /\ Cardinality({q \in Requests : Leaked(q)}) < MaxLeaks
       /\ UNCHANGED adVars
  ELSE AD!Release(r)

\* 401 before anything is acquired.
Unauthorized(r) == /\ stage[r] = "new" /\ phase[r] = "idle"
                   /\ Answer(r, "answered", "denied")
                   /\ UNCHANGED <<adVars, cbVars>>

Admit(r) == /\ stage[r] = "new" /\ (AD!EnterUnlimited(r) \/ AD!EnterAtOnce(r))
            /\ Goto(r, "admitted")
            /\ UNCHANGED <<cbVars, reply>>

AtCapacity(r) == /\ stage[r] = "new" /\ AD!RefuseAtOnce(r)
                 /\ Answer(r, "answered", "denied")
                 /\ UNCHANGED cbVars

WaitForSlot(r) == /\ stage[r] = "new" /\ AD!Enqueue(r)
                  /\ Goto(r, "queued")
                  /\ UNCHANGED <<cbVars, reply>>

SlotGranted(r) == /\ stage[r] = "queued" /\ AD!Resume(r)
                  /\ Goto(r, "admitted")
                  /\ UNCHANGED <<cbVars, reply>>

QueueTimeout(r) == /\ stage[r] = "queued" /\ AD!TimeOut(r)
                   /\ Answer(r, "answered", "denied")
                   /\ UNCHANGED cbVars

\* _parse_request raised ValueError: the lease is released, 400.
BadPayload(r) == /\ stage[r] = "admitted" /\ AD!Release(r)
                 /\ Answer(r, "answered", "denied")
                 /\ UNCHANGED cbVars

\* Any other exception between acquire and the upstream call leaves
\* process_chat_request; no handler there releases the lease or reports to the
\* circuit breaker.
PreparationRaises(r) == /\ "prepare" \in Losses
                        /\ stage[r] \in {"admitted", "prepared"}
                        /\ DropAttempt(r)
                        /\ AbandonLease(r)
                        /\ Answer(r, "answered", "crashed")

CircuitAllows(r) == /\ stage[r] = "admitted" /\ CB!Allow(r)
                    /\ Goto(r, "prepared")
                    /\ UNCHANGED <<adVars, reply>>

\* Open circuit, and a fallback to go to: the request runs without an attempt,
\* so that its outcome is reported to nobody.
CircuitOpenFallback(r) == /\ stage[r] = "admitted" /\ ~CB!Allows(circuit)
                          /\ TRUE \in Fallback
                          /\ Goto(r, "prepared")
                          /\ UNCHANGED <<adVars, cbVars, reply>>

\* Open circuit and no fallback: release, 503.
CircuitOpenRefusal(r) == /\ stage[r] = "admitted" /\ ~CB!Allows(circuit)
                         /\ FALSE \in Fallback
                         /\ AD!Release(r)
                         /\ Answer(r, "answered", "denied")
                         /\ UNCHANGED cbVars

StartPost(r) == /\ stage[r] = "prepared"
                /\ Goto(r, "posting")
                /\ UNCHANGED <<adVars, cbVars, reply>>

StartStream(r) == /\ stage[r] = "prepared"
                  /\ Goto(r, "wrapped")
                  /\ UNCHANGED <<adVars, cbVars, reply>>

\* circuit_success and circuit_failure do nothing without an attempt.
ReportSuccess(r) == IF attempt[r] = "none" THEN UNCHANGED cbVars ELSE CB!RecordSuccess(r)

\* Slip: the failure is counted and the attempt can report again.
ReportFailureTwice(r) == /\ circuit' = IF attempt[r] = "none" THEN circuit
                                       ELSE CB!AfterFailure(circuit)
                         /\ UNCHANGED attempt

ReportFailure(r) == IF attempt[r] = "none" THEN UNCHANGED cbVars ELSE CB!RecordFailure(r)

\* Non-streaming: a status below 500, a provider's 400 included, is a success
\* of the route; the `finally` releases the lease.
PostAnswered(r, what) == /\ stage[r] = "posting"
                         /\ ReportSuccess(r)
                         /\ AD!Release(r)
                         /\ Answer(r, "answered", what)

\* Slip: no `finally` around the non-streaming call.
PostFailedKeepsSlot(r) == /\ stage[r] = "posting"
                          /\ ReportFailure(r)
                          /\ Answer(r, "answered", "failed")
                          /\ UNCHANGED adVars

PostFailed(r) == /\ stage[r] = "posting"
                 /\ ReportFailure(r)
                 /\ AD!Release(r)
                 /\ Answer(r, "answered", "failed")

\* The response starts to iterate the body.
StreamStarts(r) == /\ stage[r] = "wrapped"
                   /\ Goto(r, "streaming")
                   /\ UNCHANGED <<adVars, cbVars, reply>>

\* The client leaves, or the first send fails, before the body generator has
\* run: Python never runs the `finally` of a generator that was not started.
StreamNeverStarts(r) == /\ "unstarted" \in Losses
                        /\ stage[r] = "wrapped"
                        /\ DropAttempt(r)
                        /\ AbandonLease(r)
                        /\ Answer(r, "answered", "unserved")

ChunkYielded(r) == /\ stage[r] = "streaming"
                   /\ Goto(r, "yielding")
                   /\ UNCHANGED <<adVars, cbVars, reply>>

ChunkSent(r) == /\ stage[r] = "yielding"
                /\ Goto(r, "streaming")
                /\ UNCHANGED <<adVars, cbVars, reply>>

StreamEnds(r) == /\ stage[r] = "streaming"
                 /\ ReportSuccess(r)
                 /\ AD!Release(r)
                 /\ Answer(r, "answered", "ok")

\* Slip: the lease is released before the error frames are sent.
StreamFailsEarlyRelease(r, what) == /\ stage[r] = "streaming"
                                    /\ ReportFailure(r)
                                    /\ Answer(r, "reporting", what)
                                    /\ AD!Release(r)

\* Any exception of the pipeline or the upstream, a provider's 400 included,
\* is a failure of the route; then the SSE error frames are yielded.
StreamFails(r, what) == /\ stage[r] = "streaming"
                        /\ ReportFailure(r)
                        /\ Answer(r, "reporting", what)
                        /\ UNCHANGED adVars

ErrorFramesSent(r) == /\ stage[r] = "reporting"
                      /\ AD!Release(r)
                      /\ Goto(r, "answered")
                      /\ UNCHANGED <<cbVars, reply>>

\* Slip: the attempt of the cancelled request stays.
DisconnectKeepsAttempt(r) == /\ stage[r] = "streaming"
                             /\ AD!Release(r)
                             /\ Answer(r, "answered", "gone")
                             /\ UNCHANGED cbVars

\* http.disconnect while the generator awaits the upstream: the task is
\* cancelled inside it, no outcome is reported, its `finally` releases.
DisconnectAwaiting(r) == /\ stage[r] = "streaming"
                         /\ DropAttempt(r)
                         /\ AD!Release(r)
                         /\ Answer(r, "answered", "gone")

\* http.disconnect or a failed send while the generator is suspended at a
\* yield: the sending task ends, the generator waits for its finalizer.
DisconnectSending(r) == /\ stage[r] \in {"yielding", "reporting"}
                        /\ Answer(r, "orphaned", "gone")
                        /\ UNCHANGED <<adVars, cbVars>>

\* Slip: the request is forgotten and its slot stays taken.
FinalizedWithoutRelease(r) == /\ stage[r] = "orphaned"
                              /\ DropAttempt(r)
                              /\ phase' = [phase EXCEPT ![r] = "idle"]
                              /\ gate' = [gate EXCEPT ![r] = Unlimited]
                              /\ UNCHANGED <<setting, value, waiters>>
                              /\ Goto(r, "answered")
                              /\ UNCHANGED reply

\* The event loop's asyncgen finalizer closes it: GeneratorExit at the yield.
GeneratorFinalized(r) == /\ stage[r] = "orphaned"
                         /\ DropAttempt(r)
                         /\ AD!Release(r)
                         /\ Goto(r, "answered")
                         /\ UNCHANGED reply

\* The request slot takes another request, unless a lost lease occupies it.
NextRequest(r) == /\ stage[r] = "answered"
                  /\ IF phase[r] = "refused" THEN AD!Forget(r)
                     ELSE phase[r] = "idle" /\ UNCHANGED adVars
                  /\ Answer(r, "new", "none")
                  /\ UNCHANGED cbVars

TimePasses == CB!Tick /\ UNCHANGED <<adVars, stage, reply>>

\* The config watcher replaces the route between two steps of the requests.
ConfigReload == /\ \E s \in AD!Settings : AD!Reload(s)
                /\ UNCHANGED <<cbVars, stage, reply>>

Handler(r) ==
  \/ Unauthorized(r) \/ Admit(r) \/ AtCapacity(r) \/ WaitForSlot(r)
  \/ BadPayload(r) \/ PreparationRaises(r)
  \/ CircuitAllows(r) \/ CircuitOpenFallback(r) \/ CircuitOpenRefusal(r)
  \/ StartPost(r) \/ StartStream(r)
Upstream(r) ==
  \/ \E what \in {"ok", "client_error"} : PostAnswered(r, what)
  \/ PostFailed(r)
  \/ ChunkYielded(r) \/ StreamEnds(r)
  \/ \E what \in {"client_error", "failed"} : StreamFails(r, what)
Client(r) == StreamNeverStarts(r) \/ DisconnectAwaiting(r) \/ DisconnectSending(r)
Response(r) == StreamStarts(r) \/ ChunkSent(r) \/ ErrorFramesSent(r)

LcNext == \/ \E r \in Requests :
               \/ Handler(r) \/ SlotGranted(r) \/ QueueTimeout(r)
               \/ Upstream(r) \/ Client(r) \/ Response(r)
               \/ GeneratorFinalized(r) \/ NextRequest(r)
          \/ TimePasses \/ ConfigReload

LcSpec == LcInit /\ [][LcNext]_vars

-----------------------------------------------------------------------------

\* A request that is over has given its slot back, whichever way it ended
\* (parse error, open circuit, upstream error, disconnect in the middle of a
\* stream), the two leaks excepted.
SlotReturned == \A r \in Requests :
  stage[r] \in {"new", "answered"} /\ ~Leaked(r) => phase[r] \in {"idle", "refused"}

\* The slot is held for the whole answer, the time the client takes to consume
\* a stream included ("a streaming slot stays held until the ASGI body
\* generator is actually closed"), and every stream goes through the stages
\* that StreamBody implements.
StreamStageOf(r) ==
  IF stage[r] \in {"wrapped", "streaming", "yielding", "reporting", "orphaned"} THEN stage[r]
  ELSE IF stage[r] = "answered" THEN "over" ELSE "idle"
SlotOf(r) == IF Leaked(r) THEN "lost"
             ELSE IF phase[r] = "running" THEN "held" ELSE "free"
StreamOf(r) == INSTANCE StreamStages WITH stage <- StreamStageOf(r), slot <- SlotOf(r)
StreamsAsStaged ==
  /\ \A r \in Requests : StreamOf(r)!Init
  /\ [][\A r \in Requests : [StreamOf(r)!Next]_(StreamOf(r)!vars)]_vars

\* An attempt is reported or dropped before the request is over, and once the
\* failure of a stream is reported nothing more is reported for it.
AttemptSettled == \A r \in Requests :
  attempt[r] # "none" =>
    stage[r] \in {"prepared", "posting", "wrapped", "streaming", "yielding", "orphaned"}

\* A request that is over holds neither a slot nor an attempt.
RequestSettled == SlotReturned /\ AttemptSettled

\* The composition uses its components as their specifications say.
UsesAdmission == AD!AdSpec
UsesBreaker == CB!CBSpec

-----------------------------------------------------------------------------
(* Fairness: the loop runs ready tasks and finalizers; the upstream answers *)
(* or fails within its timeouts and its streams are finite; a client reads  *)
(* what it is sent or leaves.  Disconnects and queue timeouts need not      *)
(* happen.                                                                  *)
LcFairness ==
  \A r \in Requests :
    /\ WF_vars(Handler(r)) /\ WF_vars(SlotGranted(r))
    /\ WF_vars(Response(r) \/ DisconnectSending(r))
    /\ WF_vars(GeneratorFinalized(r)) /\ WF_vars(NextRequest(r))
    /\ WF_vars(\/ \E what \in {"ok", "client_error"} : PostAnswered(r, what)
               \/ PostFailed(r))
    /\ SF_vars(\/ StreamEnds(r) \/ DisconnectAwaiting(r)
               \/ \E what \in {"client_error", "failed"} : StreamFails(r, what))

LcFairSpec == LcSpec /\ LcFairness /\ WF_vars(TimePasses)

\* A slot that is taken comes back, so nobody waits in the queue for ever.
\* The only requests that keep theirs are the two leaks.
SlotComesBack == \A r \in Requests :
  phase[r] = "running" ~> phase[r] # "running" \/ Leaked(r)

\* A half-open circuit does not stay half-open ...
CircuitSettles == circuit.state = "half_open" ~> circuit.state # "half_open"

\* ... unless its probe was dropped.
ProbeComesBack ==
  circuit.state = "half_open" ~> circuit.state # "half_open" \/ CB!Stranded

\* What a request holds it gives back: its slot, the two leaks excepted, and
\* the probe of the circuit, unless the request ended by dropping it.
HeldIsGivenBack == SlotComesBack /\ ProbeComesBack
=============================================================================
