------------------------------ MODULE Admission ------------------------------
(***************************************************************************)
(* Admission control of one route: keeprollming/admission.py, with the     *)
(* asyncio.Semaphore it uses.                                              *)
(*                                                                         *)
(* The controller keeps one semaphore (a gate) per value of max_concurrent *)
(* the route has had: the value is part of the dictionary key, so a        *)
(* configuration reload that changes it sends new requests to another      *)
(* gate while the leases of the old one are still out.                     *)
(*                                                                         *)
(* The semaphore grants a slot in two steps: release() marks the oldest    *)
(* pending future done ("granted") and the waiting task takes the slot     *)
(* when the loop next runs it; in between its timeout may fire.            *)
(***************************************************************************)
EXTENDS Integers, FiniteSets, SequencesExt

CONSTANTS
  Requests,   \* request slots of the process
  Caps,       \* the values of max_concurrent the configurations use
  Unlimited,  \* max_concurrent is None
  Patience    \* queue_timeout of the configurations: subset of {"zero", "positive"}

ASSUME SlotsAssumption == IsFiniteSet(Requests)
ASSUME CapsAssumption == Caps \subseteq Nat \ {0} /\ Unlimited \notin Caps
ASSUME PatienceAssumption == Patience \subseteq {"zero", "positive"}

Settings == [max : Caps \cup {Unlimited}, patience : Patience]

VARIABLES
  setting,  \* the route's max_concurrent and queue_timeout in force
  value,    \* _value of each gate's semaphore
  waiters,  \* _waiters of each gate's semaphore: waiting and granted requests
  phase,    \* where each request is in `acquire`
  gate      \* the gate whose deque or slot a request occupies, or Unlimited

adVars == <<setting, value, waiters, phase, gate>>

\* "idle": no request in the slot; "waiting"/"granted": in the deque, its
\* future pending or done; "running": acquire returned, the request is in
\* progress; "refused": acquire returned None, the client gets 429.
Phases == {"idle", "waiting", "granted", "running", "refused"}

\* asyncio.Semaphore.locked()
Locked(c) == value[c] = 0 \/ waiters[c] # <<>>

\* Slip: any waiter is woken, not the oldest.
WakeAny(c, ph, q, v) ==
  \/ \E i \in DOMAIN q :
       /\ ph[q[i]] = "waiting"
       /\ phase' = [ph EXCEPT ![q[i]] = "granted"]
       /\ value' = [value EXCEPT ![c] = v - 1]
  \/ /\ \A i \in DOMAIN q : ph[q[i]] # "waiting"
     /\ phase' = ph
     /\ value' = [value EXCEPT ![c] = v]

\* asyncio.Semaphore._wake_up_next() on gate c with v free slots, when the
\* requests are in phases ph and the deque holds q.
WakeNext(c, ph, q, v) ==
  \/ \E i \in DOMAIN q :
       /\ ph[q[i]] = "waiting"
       /\ \A j \in 1 .. i - 1 : ph[q[j]] # "waiting"
       /\ phase' = [ph EXCEPT ![q[i]] = "granted"]
       /\ value' = [value EXCEPT ![c] = v - 1]
  \/ /\ \A i \in DOMAIN q : ph[q[i]] # "waiting"
     /\ phase' = ph
     /\ value' = [value EXCEPT ![c] = v]

-----------------------------------------------------------------------------
AdInit == /\ setting \in Settings
          /\ value = [c \in Caps |-> c]
          /\ waiters = [c \in Caps |-> <<>>]
          /\ phase = [r \in Requests |-> "idle"]
          /\ gate = [r \in Requests |-> Unlimited]

\* max_concurrent is None: no lease, nothing to wait for.
EnterUnlimited(r) ==
  /\ phase[r] = "idle" /\ setting.max = Unlimited
  /\ phase' = [phase EXCEPT ![r] = "running"]
  /\ UNCHANGED <<setting, value, waiters, gate>>

\* The gate is not locked: acquire returns a lease without suspending.
EnterAtOnce(r) ==
  /\ phase[r] = "idle" /\ setting.max \in Caps
  /\ LET c == setting.max IN
       /\ ~Locked(c)
       /\ value' = [value EXCEPT ![c] = @ - 1]
       /\ gate' = [gate EXCEPT ![r] = c]
  /\ phase' = [phase EXCEPT ![r] = "running"]
  /\ UNCHANGED <<setting, waiters>>

\* Locked and queue_timeout 0: rejected without suspending.
RefuseAtOnce(r) ==
  /\ phase[r] = "idle" /\ setting.max \in Caps
  /\ Locked(setting.max) /\ setting.patience = "zero"
  /\ phase' = [phase EXCEPT ![r] = "refused"]
  /\ UNCHANGED <<setting, value, waiters, gate>>

\* Locked and a positive queue_timeout: wait in the deque.
Enqueue(r) ==
  /\ phase[r] = "idle" /\ setting.max \in Caps
  /\ Locked(setting.max) /\ setting.patience = "positive"
  /\ waiters' = [waiters EXCEPT ![setting.max] = Append(@, r)]
  /\ gate' = [gate EXCEPT ![r] = setting.max]
  /\ phase' = [phase EXCEPT ![r] = "waiting"]
  /\ UNCHANGED <<setting, value>>

\* The loop runs the task whose future is done: it leaves the deque with its
\* slot and passes on a further free slot if there is one.
Resume(r) ==
  /\ phase[r] = "granted"
  /\ \E k \in DOMAIN waiters[gate[r]] :
       /\ waiters[gate[r]][k] = r
       /\ LET c == gate[r]
              q == RemoveAt(waiters[c], k)
              ph == [phase EXCEPT ![r] = "running"]
          IN  /\ waiters' = [waiters EXCEPT ![c] = q]
              /\ IF value[c] > 0
                 THEN WakeNext(c, ph, q, value[c])
                 ELSE phase' = ph /\ UNCHANGED value
  /\ UNCHANGED <<setting, gate>>

\* wait_for cancels a pending acquire: the future leaves the deque.
TimeOutWaiting(r) ==
  /\ phase[r] = "waiting"
  /\ \E k \in DOMAIN waiters[gate[r]] :
       /\ waiters[gate[r]][k] = r
       /\ waiters' = [waiters EXCEPT ![gate[r]] = RemoveAt(@, k)]
  /\ phase' = [phase EXCEPT ![r] = "refused"]
  /\ gate' = [gate EXCEPT ![r] = Unlimited]
  /\ UNCHANGED <<setting, value>>

\* Slip: the slot that was granted is not given back.
TimeOutGrantedKeeps(r) ==
  /\ phase[r] = "granted"
  /\ \E k \in DOMAIN waiters[gate[r]] :
       /\ waiters[gate[r]][k] = r
       /\ waiters' = [waiters EXCEPT ![gate[r]] = RemoveAt(@, k)]
  /\ phase' = [phase EXCEPT ![r] = "refused"]
  /\ gate' = [gate EXCEPT ![r] = Unlimited]
  /\ UNCHANGED <<setting, value>>

\* wait_for cancels an acquire whose future is already done but whose task has
\* not run: the slot goes back and the next waiter is woken.
TimeOutGranted(r) ==
  /\ phase[r] = "granted"
  /\ \E k \in DOMAIN waiters[gate[r]] :
       /\ waiters[gate[r]][k] = r
       /\ LET c == gate[r]
              q == RemoveAt(waiters[c], k)
          IN  /\ waiters' = [waiters EXCEPT ![c] = q]
              /\ WakeNext(c, [phase EXCEPT ![r] = "refused"], q, value[c] + 1)
  /\ gate' = [gate EXCEPT ![r] = Unlimited]
  /\ UNCHANGED setting

TimeOut(r) == TimeOutWaiting(r) \/ TimeOutGranted(r)

\* Slip: the slot is freed and nobody is woken.
ReleaseQuietly(r) ==
  /\ phase[r] = "running"
  /\ phase' = [phase EXCEPT ![r] = "idle"]
  /\ value' = IF gate[r] \in Caps THEN [value EXCEPT ![gate[r]] = @ + 1] ELSE value
  /\ gate' = [gate EXCEPT ![r] = Unlimited]
  /\ UNCHANGED <<setting, waiters>>

\* AdmissionLease.release at the end of the request; without a lease the
\* request just ends.
Release(r) ==
  /\ phase[r] = "running"
  /\ LET c == gate[r]
         ph == [phase EXCEPT ![r] = "idle"]
     IN  IF c \in Caps
         THEN WakeNext(c, ph, waiters[c], value[c] + 1)
         ELSE phase' = ph /\ UNCHANGED value
  /\ gate' = [gate EXCEPT ![r] = Unlimited]
  /\ UNCHANGED <<setting, waiters>>

\* The 429 was sent; the slot takes another request.
Forget(r) ==
  /\ phase[r] = "refused"
  /\ phase' = [phase EXCEPT ![r] = "idle"]
  /\ UNCHANGED <<setting, value, waiters, gate>>

\* A configuration reload replaces the route.
Reload(s) ==
  /\ setting # s
  /\ setting' = s
  /\ UNCHANGED <<value, waiters, phase, gate>>

Acquire(r) == EnterUnlimited(r) \/ EnterAtOnce(r) \/ RefuseAtOnce(r) \/ Enqueue(r)

AdNext == \/ \E r \in Requests : \/ Acquire(r) \/ Resume(r) \/ TimeOut(r)
                                 \/ Release(r) \/ Forget(r)
          \/ \E s \in Settings : Reload(s)

AdSpec == AdInit /\ [][AdNext]_adVars

-----------------------------------------------------------------------------
\* The requests that own a slot of gate c.
SlotsOf(c) == {r \in Requests : gate[r] = c /\ phase[r] \in {"granted", "running"}}

InDeque(r) == phase[r] \in {"waiting", "granted"}

AdTypeOK == /\ setting \in Settings
            /\ value \in [Caps -> Nat]
            /\ waiters \in [Caps -> Seq(Requests)]
            /\ phase \in [Requests -> Phases]
            /\ gate \in [Requests -> Caps \cup {Unlimited}]

\* A gate's deque holds exactly the requests that wait at it, each once: a
\* timed-out or resumed request does not stay behind (it would keep the gate
\* locked for everybody).
DequeExact ==
  /\ \A c \in Caps : \A i \in DOMAIN waiters[c] :
       /\ InDeque(waiters[c][i]) /\ gate[waiters[c][i]] = c
       /\ \A j \in DOMAIN waiters[c] : waiters[c][i] = waiters[c][j] => i = j
  /\ \A r \in Requests : InDeque(r) =>
       gate[r] \in Caps /\ \E i \in DOMAIN waiters[gate[r]] : waiters[gate[r]][i] = r

\* No slot is ever lost or invented, whatever the order of releases, grants
\* and timeouts, and across reloads.
SlotsConserved == \A c \in Caps : value[c] + Cardinality(SlotsOf(c)) = c

\* Nobody is forgotten beside a free slot: if a gate has a free slot while a
\* request waits (one that arrived when the deque still held a granted task),
\* some granted task is yet to run, and it passes the slot on.
NoLostWakeup ==
  \A c \in Caps :
    /\ value[c] > 0
    /\ \E r \in Requests : phase[r] = "waiting" /\ gate[r] = c
    => \E r \in Requests : phase[r] = "granted" /\ gate[r] = c

\* max_concurrent bounds the leases of each gate.
CapPerGate ==
  \A c \in Caps : Cardinality({r \in SlotsOf(c) : phase[r] = "running"}) <= c

\* A request obtains a slot ahead of nobody who has been waiting longer.
HasSlot(r) == phase[r] \in {"granted", "running"}
Ahead(q, r) == \E i, j \in DOMAIN waiters[gate[q]] :
                 i < j /\ waiters[gate[q]][i] = q /\ waiters[gate[q]][j] = r
NoOvertaking ==
  [][ \A r, q \in Requests :
        /\ ~HasSlot(r) /\ HasSlot(r)'
        /\ phase[q] = "waiting" /\ gate[q] = gate'[r] /\ q # r
        /\ (phase[r] = "idle" \/ Ahead(q, r))
        => phase'[q] # "waiting" ]_adVars

-----------------------------------------------------------------------------
(* Fairness: the loop runs every ready task, and every request ends (its   *)
(* upstream call has a deadline).  Timeouts need not fire: nobody starves  *)
(* in the queue even if queue_timeout is as long as one likes.             *)
AdFairness == \A r \in Requests : /\ WF_adVars(Resume(r))
                                  /\ WF_adVars(Release(r))
                                  /\ WF_adVars(Forget(r))

AdFairSpec == AdSpec /\ AdFairness

\* A queued request is served or refused.
QueueDrains ==
  \A r \in Requests : phase[r] = "waiting" ~> phase[r] \in {"running", "refused"}
=============================================================================
