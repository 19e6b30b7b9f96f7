--------------------------- MODULE CircuitBreaker ---------------------------
(***************************************************************************)
(* The circuit breaker one route keeps in keeprollming/circuit_breaker.py. *)
(*                                                                         *)
(* Every handler of the registry is a plain function on one asyncio loop,  *)
(* so each is one atomic step.  What interleaves are the requests: each    *)
(* asks `allow`, runs for a while and reports its outcome much later, when *)
(* the breaker may be in another state than the one that let it through.   *)
(*                                                                         *)
(* Data abstraction: `failures` saturates at FailureThreshold, the only    *)
(* value it is compared with; `opened_at` is the time elapsed since then,  *)
(* saturating at RecoveryTimeout for the same reason.  A request is a slot *)
(* that carries one request after another.                                 *)
(***************************************************************************)
EXTENDS Integers, FiniteSets

CONSTANTS
  Callers,           \* request slots of the process
  FailureThreshold,  \* route.failure_threshold
  RecoveryTimeout    \* route.recovery_timeout, in clock ticks

ASSUME CallersAssumption == Callers # {}
ASSUME ThresholdAssumption == FailureThreshold \in Nat \ {0}
ASSUME RecoveryAssumption == RecoveryTimeout \in Nat

VARIABLES
  circuit,  \* _CircuitState of the route
  attempt   \* the CircuitAttempt each request slot holds

cbVars == <<circuit, attempt>>

Circuits == [state : {"closed", "open", "half_open"},
             failures : 0 .. FailureThreshold,
             openFor : 0 .. RecoveryTimeout,
             probe : BOOLEAN]

\* "regular" was allowed while closed, "probe" while half-open; "refused" got
\* None; "none" holds no attempt.
AttemptKinds == {"none", "refused", "regular", "probe"}

-----------------------------------------------------------------------------
(* The registry's functions, on the state of one route.                    *)

ClosedCircuit == [state |-> "closed", failures |-> 0, openFor |-> 0, probe |-> FALSE]

\* Slip: the comparison with recovery_timeout is strict.
ExpiredLate(c) == c.state = "open" /\ c.openFor > RecoveryTimeout

\* The open period has expired at the time `allow` reads the clock.
Expired(c) == c.state = "open" /\ c.openFor = RecoveryTimeout

\* Slip: the probe flag is not looked at.
AllowsManyProbes(c) == c.state \in {"closed", "half_open"} \/ Expired(c)

\* Whether `allow` returns an attempt.
Allows(c) == \/ c.state = "closed"
             \/ Expired(c)
             \/ c.state = "half_open" /\ ~c.probe

\* Slip: the probe flag is not set.
AfterAllowUnmarked(c) == IF Expired(c) THEN [c EXCEPT !.state = "half_open"] ELSE c

\* The state `allow` leaves behind: an expired open circuit becomes half-open
\* and the caller becomes its probe.
AfterAllow(c) ==
  IF Expired(c) \/ (c.state = "half_open" /\ ~c.probe)
  THEN [c EXCEPT !.state = "half_open", !.probe = TRUE]
  ELSE c

KindAllowed(c) == IF c.state = "closed" THEN "regular" ELSE "probe"

\* record_success: whoever reports it, the breaker is closed and reset.
AfterSuccess(c) == ClosedCircuit

\* The counter record_failure compares with the threshold.
FailuresAfter(c) ==
  IF c.failures < FailureThreshold THEN c.failures + 1 ELSE c.failures

\* Slip: the threshold is compared with `>`.
AfterFailureOffByOne(c) ==
  IF c.state = "half_open" \/ FailuresAfter(c) > FailureThreshold
  THEN [state |-> "open", failures |-> FailuresAfter(c), openFor |-> 0, probe |-> FALSE]
  ELSE [c EXCEPT !.failures = FailuresAfter(c), !.probe = FALSE]

\* record_failure: whoever reports it, the probe flag is cleared.
AfterFailure(c) ==
  IF c.state = "half_open" \/ FailuresAfter(c) >= FailureThreshold
  THEN [state |-> "open", failures |-> FailuresAfter(c), openFor |-> 0, probe |-> FALSE]
  ELSE [c EXCEPT !.failures = FailuresAfter(c), !.probe = FALSE]

\* The monotonic clock as the breaker sees it.
AfterTick(c) == IF c.state = "open" /\ c.openFor < RecoveryTimeout
                THEN [c EXCEPT !.openFor = @ + 1]
                ELSE c

-----------------------------------------------------------------------------
CBInit == /\ circuit = ClosedCircuit
          /\ attempt = [r \in Callers |-> "none"]

Allow(r) == /\ attempt[r] = "none"
            /\ Allows(circuit)
            /\ circuit' = AfterAllow(circuit)
            /\ attempt' = [attempt EXCEPT ![r] = KindAllowed(circuit)]

Refuse(r) == /\ attempt[r] = "none"
             /\ ~Allows(circuit)
             /\ attempt' = [attempt EXCEPT ![r] = "refused"]
             /\ UNCHANGED circuit

\* The refused request was answered; its slot takes another request.
Leave(r) == /\ attempt[r] = "refused"
            /\ attempt' = [attempt EXCEPT ![r] = "none"]
            /\ UNCHANGED circuit

RecordSuccess(r) == /\ attempt[r] \in {"regular", "probe"}
                    /\ circuit' = AfterSuccess(circuit)
                    /\ attempt' = [attempt EXCEPT ![r] = "none"]

RecordFailure(r) == /\ attempt[r] \in {"regular", "probe"}
                    /\ circuit' = AfterFailure(circuit)
                    /\ attempt' = [attempt EXCEPT ![r] = "none"]

\* The request ends and nobody reports its outcome: its client went away, its
\* preparation raised, or its body was never read.  The handlers do not look
\* at the attempt they drop, so it may be the half-open circuit's probe.
Drop(r) == /\ attempt[r] \in {"regular", "probe"}
           /\ attempt' = [attempt EXCEPT ![r] = "none"]
           /\ UNCHANGED circuit

Tick == /\ circuit.state = "open" /\ circuit.openFor < RecoveryTimeout
        /\ circuit' = AfterTick(circuit)
        /\ UNCHANGED attempt

CBNext == \/ \E r \in Callers : \/ Allow(r) \/ Refuse(r) \/ Leave(r)
                                 \/ RecordSuccess(r) \/ RecordFailure(r)
                                 \/ Drop(r)
          \/ Tick

CBSpec == CBInit /\ [][CBNext]_cbVars

-----------------------------------------------------------------------------
CBTypeOK == /\ circuit \in Circuits
            /\ attempt \in [Callers -> AttemptKinds]

\* A half-open circuit waits for a probe; `allow` takes nobody else meanwhile.
HalfOpenMarked == circuit.state = "half_open" => circuit.probe

\* The probe whose outcome will close or reopen the circuit is still running.
ProbeRunning == circuit.probe /\ \E r \in Callers : attempt[r] = "probe"

\* The half-open circuit waits for a probe that was dropped: `allow` refuses
\* everybody, unless a request let through earlier still reports.
Stranded == circuit.state = "half_open" /\ ~ProbeRunning

\* A closed circuit has seen fewer failures in a row than the threshold, and
\* a circuit that has seen that many does not go back to admitting everybody
\* without a success.
ClosedBelowThreshold ==
  circuit.state = "closed" => circuit.failures < FailureThreshold /\ ~circuit.probe

\* What the prover needs in addition: outside half-open the probe flag is down.
ProbeFlagOnlyHalfOpen == circuit.probe => circuit.state = "half_open"

CBInv == CBTypeOK /\ HalfOpenMarked /\ ClosedBelowThreshold /\ ProbeFlagOnlyHalfOpen

\* No step lets a request through an open circuit before recovery_timeout has
\* passed, nor a second one through a half-open circuit.
AdmittedNow(r) == attempt[r] = "none" /\ attempt'[r] \in {"regular", "probe"}
SheltersUpstream ==
  [][ \A r \in Callers : AdmittedNow(r) =>
        /\ ~(circuit.state = "open" /\ circuit.openFor < RecoveryTimeout)
        /\ ~(circuit.state = "half_open") ]_cbVars

\* A half-open circuit has a probe still running, whatever the other requests
\* report into the same breaker (record_success and record_failure do not look
\* at who reports): the only step after which it has none is one that drops
\* the probe, and a circuit without one gets there by no report and no clock.
ProbeLostOnlyByDrop ==
  [][ Stranded' =>
        /\ circuit' = circuit
        /\ Stranded \/ \E r \in Callers : attempt[r] = "probe" /\ attempt'[r] = "none" ]_cbVars

-----------------------------------------------------------------------------
(* Fairness: every upstream call ends, because it runs under the route's   *)
(* request timeout, and then its outcome is reported; time passes.  That   *)
(* clients keep sending requests is an assumption about them.              *)
CBFairness ==
  /\ WF_cbVars(Tick)
  /\ \A r \in Callers : WF_cbVars(RecordSuccess(r) \/ RecordFailure(r))
  /\ \A r \in Callers : WF_cbVars(Allow(r) \/ Refuse(r))
  /\ \A r \in Callers : WF_cbVars(Leave(r))

CBFairSpec == CBSpec /\ CBFairness

\* Requests that keep coming do not keep meeting an open circuit.
OpenCircuitIsTriedAgain == circuit.state = "open" ~> circuit.state # "open"
=============================================================================
