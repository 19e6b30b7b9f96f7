---------------------------- MODULE Guards_proofs ----------------------------
(* What a request passes before it is sent upstream.                       *)
(*                                                                         *)
(* Admission: for every set of requests, every set of caps and any number  *)
(* of reloads slots are conserved, a gate never hands out more leases than *)
(* its cap, and no waiter is forgotten.                                    *)
(*                                                                         *)
(* CircuitBreaker: for every set of callers, threshold and recovery        *)
(* timeout CBInv is inductive, and SheltersUpstream follows.               *)
EXTENDS Admission, CircuitBreaker, FiniteSetTheorems, SequenceTheorems, TLAPS

-----------------------------------------------------------------------------
(* The gates.                                                              *)

Gates == Caps \cup {Unlimited}

\* The state predicates of Admission as operators on the values they read, so
\* that the intermediate states of a handler can be spoken of.
SlotsIn(c, ph, g) == {r \in Requests : g[r] = c /\ ph[r] \in {"granted", "running"}}

Typed(val, ph, g, w) == /\ val \in [Caps -> Nat]
                        /\ ph \in [Requests -> Phases]
                        /\ g \in [Requests -> Gates]
                        /\ w \in [Caps -> Seq(Requests)]

\* Every entry of a deque waits at that gate, and is there once.
Listed(ph, g, w) ==
  \A c \in Caps : \A i \in DOMAIN w[c] :
    /\ ph[w[c][i]] \in {"waiting", "granted"} /\ g[w[c][i]] = c
    /\ \A j \in DOMAIN w[c] : w[c][i] = w[c][j] => i = j

\* Every request that waits is in the deque of its gate.
Present(ph, g, w) ==
  \A r \in Requests : ph[r] \in {"waiting", "granted"} =>
    g[r] \in Caps /\ \E i \in DOMAIN w[g[r]] : w[g[r]][i] = r

Conserved(c, n, ph, g) == n + Cardinality(SlotsIn(c, ph, g)) = c

Remembered(c, n, ph, g) ==
  /\ n > 0
  /\ \E r \in Requests : ph[r] = "waiting" /\ g[r] = c
  => \E r \in Requests : ph[r] = "granted" /\ g[r] = c

\* A request that neither waits nor runs has no gate.
Detached(ph, g) ==
  \A r \in Requests : ph[r] \in {"idle", "refused"} => g[r] = Unlimited

Good(val, ph, g, w) ==
  /\ Typed(val, ph, g, w)
  /\ Listed(ph, g, w) /\ Present(ph, g, w) /\ Detached(ph, g)
  /\ \A c \in Caps : Conserved(c, val[c], ph, g) /\ Remembered(c, val[c], ph, g)

AdInv == setting \in Settings /\ Good(value, phase, gate, waiters)

-----------------------------------------------------------------------------
LEMMA RemoveAtProperties ==
  ASSUME NEW S, NEW q \in Seq(S), NEW k \in 1 .. Len(q)
  PROVE  /\ RemoveAt(q, k) \in Seq(S)
         /\ Len(RemoveAt(q, k)) = Len(q) - 1
         /\ \A i \in 1 .. Len(q) - 1 :
              RemoveAt(q, k)[i] = IF i < k THEN q[i] ELSE q[i + 1]
<1> DEFINE a == SubSeq(q, 1, k - 1)
           b == SubSeq(q, k + 1, Len(q))
<1>1. a \in Seq(S) /\ Len(a) = k - 1 /\ \A i \in 1 .. k - 1 : a[i] = q[i]
  BY SubSeqProperties
<1>2. b \in Seq(S) /\ Len(b) = Len(q) - k /\ \A i \in 1 .. Len(q) - k : b[i] = q[k + i]
  <2>1. \A i \in k + 1 .. Len(q) : q[i] \in S
    OBVIOUS
  <2>2. /\ SubSeq(q, k + 1, Len(q)) \in Seq(S)
        /\ Len(SubSeq(q, k + 1, Len(q))) =
             IF k + 1 <= Len(q) THEN Len(q) - (k + 1) + 1 ELSE 0
        /\ \A i \in 1 .. Len(q) - (k + 1) + 1 :
             SubSeq(q, k + 1, Len(q))[i] = q[(k + 1) + i - 1]
    BY <2>1, SubSeqProperties
  <2> QED BY <2>2
<1>3. RemoveAt(q, k) = a \o b
  BY DEF RemoveAt
<1> HIDE DEF a, b
<1>4. \A i \in 1 .. Len(q) - 1 : (a \o b)[i] = IF i < k THEN q[i] ELSE q[i + 1]
  <2> TAKE i \in 1 .. Len(q) - 1
  <2>1. (a \o b)[i] = IF i <= Len(a) THEN a[i] ELSE b[i - Len(a)]
    BY <1>1, <1>2
  <2>2. CASE i < k
    BY <1>1, <2>1, <2>2
  <2>3. CASE ~(i < k)
    <3>1. i - Len(a) \in 1 .. Len(q) - k /\ i - Len(a) = i - (k - 1)
      BY <1>1, <2>3
    <3>2. b[i - (k - 1)] = q[k + (i - (k - 1))]
      BY <1>2, <3>1
    <3>3. k + (i - (k - 1)) = i + 1
      OBVIOUS
    <3> QED BY <2>1, <2>3, <3>1, <3>2, <3>3, <1>1
  <2> QED BY <2>2, <2>3
<1>5. a \o b \in Seq(S) /\ Len(a \o b) = Len(q) - 1
  <2>1. a \o b \in Seq(S) /\ Len(a \o b) = Len(a) + Len(b)
    BY <1>1, <1>2, ConcatProperties
  <2>2. Len(q) \in Nat /\ k \in Nat
    OBVIOUS
  <2>3. Len(a) + Len(b) = Len(q) - 1
    BY <1>1, <1>2, <2>2
  <2> QED BY <2>1, <2>3
<1> QED BY <1>3, <1>4, <1>5

\* One request gains or loses its slot of gate c.
LEMMA GainSlot ==
  ASSUME NEW c, NEW ph, NEW g, NEW ph2, NEW g2, NEW r \in Requests,
         r \notin SlotsIn(c, ph, g),
         SlotsIn(c, ph2, g2) = SlotsIn(c, ph, g) \cup {r}
  PROVE  Cardinality(SlotsIn(c, ph2, g2)) = Cardinality(SlotsIn(c, ph, g)) + 1
<1>1. IsFiniteSet(SlotsIn(c, ph, g))
  BY SlotsAssumption, FS_Subset DEF SlotsIn
<1> QED BY <1>1, FS_AddElement

LEMMA LoseSlot ==
  ASSUME NEW c, NEW ph, NEW g, NEW ph2, NEW g2, NEW r \in SlotsIn(c, ph, g),
         SlotsIn(c, ph2, g2) = SlotsIn(c, ph, g) \ {r}
  PROVE  /\ Cardinality(SlotsIn(c, ph2, g2)) = Cardinality(SlotsIn(c, ph, g)) - 1
         /\ Cardinality(SlotsIn(c, ph, g)) \in Nat
<1>1. IsFiniteSet(SlotsIn(c, ph, g))
  BY SlotsAssumption, FS_Subset DEF SlotsIn
<1> QED BY <1>1, FS_RemoveElement, FS_CardinalityType

LEMMA SlotCount ==
  ASSUME NEW c, NEW ph, NEW g
  PROVE  Cardinality(SlotsIn(c, ph, g)) \in Nat
<1>1. IsFiniteSet(SlotsIn(c, ph, g))
  BY SlotsAssumption, FS_Subset DEF SlotsIn
<1> QED BY <1>1, FS_CardinalityType

\* What _wake_up_next makes of a consistent gate with v > 0 free slots: it is
\* consistent again, and no waiter is left beside a free slot with nobody to
\* pass it on.  The other gates are not touched.
LEMMA WakeNextGood ==
  ASSUME NEW c \in Caps, NEW ph, NEW g, NEW w, NEW v \in Nat \ {0},
         Typed(value, ph, g, w), Listed(ph, g, w), Present(ph, g, w), Detached(ph, g),
         Conserved(c, v, ph, g),
         \A d \in Caps \ {c} : Conserved(d, value[d], ph, g) /\ Remembered(d, value[d], ph, g),
         WakeNext(c, ph, w[c], v)
  PROVE  Good(value', phase', g, w)
<1>1. CASE \E i \in DOMAIN w[c] :
             /\ ph[w[c][i]] = "waiting"
             /\ phase' = [ph EXCEPT ![w[c][i]] = "granted"]
             /\ value' = [value EXCEPT ![c] = v - 1]
  <2>1. PICK i \in DOMAIN w[c] :
             /\ ph[w[c][i]] = "waiting"
             /\ phase' = [ph EXCEPT ![w[c][i]] = "granted"]
             /\ value' = [value EXCEPT ![c] = v - 1]
    BY <1>1
  <2> DEFINE q == w[c][i]
  <2>2. q \in Requests /\ g[q] = c /\ ph[q] = "waiting"
    BY <2>1 DEF Typed, Listed
  <2> HIDE DEF q
  <2>3. phase' = [ph EXCEPT ![q] = "granted"]
    BY <2>1 DEF q
  <2>4. Typed(value', phase', g, w)
    BY <2>1, <2>2, <2>3 DEF Typed, Phases
  <2>5. Listed(phase', g, w)
    BY <2>2, <2>3 DEF Listed, Typed
  <2>6. Present(phase', g, w)
    BY <2>2, <2>3 DEF Present, Typed
  <2>7. Conserved(c, value'[c], phase', g)
    <3>1. q \notin SlotsIn(c, ph, g)
      BY <2>2 DEF SlotsIn
    <3>2. SlotsIn(c, phase', g) = SlotsIn(c, ph, g) \cup {q}
      BY <2>2, <2>3 DEF SlotsIn, Typed
    <3>3. Cardinality(SlotsIn(c, phase', g)) = Cardinality(SlotsIn(c, ph, g)) + 1
      BY <2>2, <3>1, <3>2, GainSlot, SMTT(30)
    <3>4. value'[c] = v - 1
      BY <2>1 DEF Typed
    <3> QED BY <3>3, <3>4, SlotCount DEF Conserved
  <2>8. Remembered(c, value'[c], phase', g)
    BY <2>2, <2>3 DEF Remembered, Typed
  <2>9. ASSUME NEW d \in Caps \ {c}
        PROVE  Conserved(d, value'[d], phase', g) /\ Remembered(d, value'[d], phase', g)
    <3>1. value'[d] = value[d]
      BY <2>1 DEF Typed
    <3>2. SlotsIn(d, phase', g) = SlotsIn(d, ph, g)
      BY <2>2, <2>3 DEF SlotsIn, Typed
    <3>3. \A r \in Requests : g[r] = d => phase'[r] = ph[r]
      BY <2>2, <2>3 DEF Typed
    <3> QED BY <3>1, <3>2, <3>3 DEF Conserved, Remembered
  <2>10. Detached(phase', g)
    BY <2>2, <2>3 DEF Detached, Typed
  <2> QED BY <2>4, <2>5, <2>6, <2>7, <2>8, <2>9, <2>10 DEF Good
<1>2. CASE /\ \A i \in DOMAIN w[c] : ph[w[c][i]] # "waiting"
           /\ phase' = ph
           /\ value' = [value EXCEPT ![c] = v]
  <2>1. value' \in [Caps -> Nat] /\ value'[c] = v /\ \A d \in Caps \ {c} : value'[d] = value[d]
    BY <1>2 DEF Typed
  <2>2. \A r \in Requests : ~(ph[r] = "waiting" /\ g[r] = c)
    BY <1>2 DEF Present
  <2>3. Remembered(c, v, ph, g)
    BY <2>2 DEF Remembered
  <2>4. \A d \in Caps : Conserved(d, value'[d], ph, g) /\ Remembered(d, value'[d], ph, g)
    BY <2>1, <2>3
  <2> QED BY <1>2, <2>1, <2>4 DEF Good, Typed
<1> QED BY <1>1, <1>2 DEF WakeNext

-----------------------------------------------------------------------------
\* Request r, at place k of the deque of gate c, leaves it in phases ph2 and
\* gates g2: the deques are exact again.
LEMMA LeaveDeque ==
  ASSUME Good(value, phase, gate, waiters),
         NEW r \in Requests, NEW c \in Caps, gate[r] = c,
         NEW k \in DOMAIN waiters[c], waiters[c][k] = r,
         NEW w, w = [waiters EXCEPT ![c] = RemoveAt(waiters[c], k)],
         NEW ph2, ph2 \in [Requests -> Phases],
         ph2[r] \notin {"waiting", "granted"},
         NEW g2, g2 \in [Requests -> Gates],
         \A q \in Requests \ {r} : ph2[q] = phase[q] /\ g2[q] = gate[q]
  PROVE  Typed(value, ph2, g2, w) /\ Listed(ph2, g2, w) /\ Present(ph2, g2, w)
<1> DEFINE q == waiters[c]
<1>1. q \in Seq(Requests) /\ k \in 1 .. Len(q) /\ q[k] = r
  BY DEF Good, Typed
<1>2. /\ w[c] \in Seq(Requests)
      /\ DOMAIN w[c] = 1 .. Len(q) - 1
      /\ \A i \in 1 .. Len(q) - 1 : w[c][i] = IF i < k THEN q[i] ELSE q[i + 1]
  <2>1. w[c] = RemoveAt(q, k)
    BY DEF Good, Typed
  <2>2. Len(q) - 1 \in Nat
    BY <1>1
  <2>3. Len(RemoveAt(q, k)) = Len(q) - 1 /\ RemoveAt(q, k) \in Seq(Requests)
    BY <1>1, RemoveAtProperties
  <2>4. \A i \in 1 .. Len(q) - 1 :
          RemoveAt(q, k)[i] = IF i < k THEN q[i] ELSE q[i + 1]
    <3> HIDE DEF q
    <3>. QED
      BY <1>1, RemoveAtProperties, ZenonT(60)
  <2> QED BY <2>1, <2>2, <2>3, <2>4
<1> DEFINE at(i) == IF i < k THEN i ELSE i + 1
<1>2a. \A i \in DOMAIN w[c] : at(i) \in DOMAIN q /\ at(i) # k /\ w[c][i] = q[at(i)]
  <2> SUFFICES ASSUME NEW i \in 1 .. Len(q) - 1
               PROVE  at(i) \in 1 .. Len(q) /\ at(i) # k /\ w[c][i] = q[at(i)]
    BY <1>1, <1>2
  <2>1. CASE i < k
    BY <1>1, <1>2, <2>1
  <2>2. CASE ~(i < k)
    BY <1>1, <1>2, <2>2
  <2> QED BY <2>1, <2>2
<1>2b. \A i, j \in DOMAIN w[c] : at(i) = at(j) => i = j
  BY <1>1, <1>2
<1>3. \A d \in Caps \ {c} : w[d] = waiters[d]
  BY DEF Good, Typed
<1>4. Typed(value, ph2, g2, w)
  BY <1>2, <1>3 DEF Good, Typed
<1>5. \A i, j \in DOMAIN q : q[i] = q[j] => i = j
  BY <1>1 DEF Good, Listed
<1> HIDE DEF at
<1>6. Listed(ph2, g2, w)
  <2>1. ASSUME NEW i \in DOMAIN w[c]
        PROVE  /\ ph2[w[c][i]] \in {"waiting", "granted"} /\ g2[w[c][i]] = c
               /\ \A j \in DOMAIN w[c] : w[c][i] = w[c][j] => i = j
    <3>1. at(i) \in DOMAIN q /\ at(i) # k /\ w[c][i] = q[at(i)]
      BY <1>2a, <2>1
    <3>2. q[at(i)] # r
      BY <1>1, <1>5, <3>1
    <3>3. q[at(i)] \in Requests
      BY <1>1, <3>1
    <3>4. phase[q[at(i)]] \in {"waiting", "granted"} /\ gate[q[at(i)]] = c
      BY <3>1 DEF Good, Listed
    <3>5. ASSUME NEW j \in DOMAIN w[c], w[c][i] = w[c][j] PROVE i = j
      BY <1>2a, <1>2b, <1>5, <3>1, <3>5
    <3> QED BY <3>1, <3>2, <3>3, <3>4, <3>5
  <2>2. ASSUME NEW d \in Caps \ {c}, NEW i \in DOMAIN w[d]
        PROVE  /\ ph2[w[d][i]] \in {"waiting", "granted"} /\ g2[w[d][i]] = d
               /\ \A j \in DOMAIN w[d] : w[d][i] = w[d][j] => i = j
    <3>1. w[d] = waiters[d] /\ w[d][i] \in Requests
      BY <1>3, <2>2 DEF Good, Typed
    <3>2. /\ phase[w[d][i]] \in {"waiting", "granted"} /\ gate[w[d][i]] = d
          /\ \A j \in DOMAIN w[d] : w[d][i] = w[d][j] => i = j
      BY <3>1, <2>2 DEF Good, Listed
    <3>3. w[d][i] # r
      BY <3>2
    <3> QED BY <3>1, <3>2, <3>3
  <2> QED BY <2>1, <2>2 DEF Listed
<1>7. Present(ph2, g2, w)
  <2> SUFFICES ASSUME NEW p \in Requests, ph2[p] \in {"waiting", "granted"}
               PROVE  g2[p] \in Caps /\ \E i \in DOMAIN w[g2[p]] : w[g2[p]][i] = p
    BY DEF Present
  <2>1. p # r /\ phase[p] \in {"waiting", "granted"} /\ g2[p] = gate[p]
    OBVIOUS
  <2>2. gate[p] \in Caps /\ \E m \in DOMAIN waiters[gate[p]] : waiters[gate[p]][m] = p
    BY <2>1 DEF Good, Present
  <2>3. CASE gate[p] # c
    <3>1. gate[p] \in Caps \ {c}
      BY <2>2, <2>3
    <3>2. w[gate[p]] = waiters[gate[p]]
      BY <1>3, <3>1
    <3> QED BY <2>1, <2>2, <3>2
  <2>4. CASE gate[p] = c
    <3>1. PICK m \in 1 .. Len(q) : q[m] = p
      BY <1>1, <2>2, <2>4
    <3>2. m # k
      BY <1>1, <2>1, <3>1
    <3>3. CASE m < k
      <4>1. m \in 1 .. Len(q) - 1
        BY <1>1, <3>3
      <4>2. m \in DOMAIN w[c] /\ w[c][m] = p
        BY <1>2, <3>1, <3>3, <4>1
      <4> QED BY <2>1, <2>4, <4>2
    <3>4. CASE m > k
      <4>1. m - 1 \in 1 .. Len(q) - 1 /\ ~(m - 1 < k) /\ (m - 1) + 1 = m
        BY <1>1, <3>4
      <4>2. m - 1 \in DOMAIN w[c] /\ w[c][m - 1] = p
        BY <1>2, <3>1, <4>1
      <4> QED BY <2>1, <2>4, <4>2
    <3> QED BY <1>1, <3>2, <3>3, <3>4
  <2> QED BY <2>3, <2>4
<1> QED BY <1>4, <1>6, <1>7

\* Nothing changes at the gates other than c.
LEMMA OtherGates ==
  ASSUME Good(value, phase, gate, waiters),
         NEW r \in Requests, NEW ph2, NEW g2, NEW d \in Caps, gate[r] # d, g2[r] # d,
         \A q \in Requests \ {r} : ph2[q] = phase[q],
         \A q \in Requests \ {r} : g2[q] = gate[q]
  PROVE  /\ SlotsIn(d, ph2, g2) = SlotsIn(d, phase, gate)
         /\ Conserved(d, value[d], ph2, g2) /\ Remembered(d, value[d], ph2, g2)
<1>1. SlotsIn(d, ph2, g2) = SlotsIn(d, phase, gate)
  BY DEF SlotsIn
<1>2. Conserved(d, value[d], ph2, g2)
  BY <1>1 DEF Good, Conserved
<1>3. Remembered(d, value[d], ph2, g2)
  <2>1. \A q \in Requests : g2[q] = d => q # r /\ ph2[q] = phase[q] /\ gate[q] = d
    OBVIOUS
  <2>2. \A q \in Requests : gate[q] = d => q # r /\ ph2[q] = phase[q] /\ g2[q] = d
    OBVIOUS
  <2> QED BY <2>1, <2>2 DEF Good, Remembered
<1> QED BY <1>1, <1>2, <1>3

-----------------------------------------------------------------------------
LEMMA AdInitInv == AdInit => AdInv
<1> SUFFICES ASSUME AdInit PROVE AdInv
  OBVIOUS
<1>1. Typed(value, phase, gate, waiters)
  BY CapsAssumption DEF AdInit, Typed, Phases, Gates
<1>2. /\ Listed(phase, gate, waiters) /\ Present(phase, gate, waiters)
      /\ Detached(phase, gate)
  BY DEF AdInit, Listed, Present, Detached
<1>3. ASSUME NEW c \in Caps
      PROVE  Conserved(c, value[c], phase, gate) /\ Remembered(c, value[c], phase, gate)
  <2>1. SlotsIn(c, phase, gate) = {}
    BY CapsAssumption DEF AdInit, SlotsIn
  <2>2. Cardinality({}) = 0
    BY FS_EmptySet
  <2>3. value[c] = c /\ c \in Nat
    BY CapsAssumption DEF AdInit
  <2>4. \A r \in Requests : phase[r] # "waiting"
    BY DEF AdInit
  <2>5. Conserved(c, value[c], phase, gate)
    BY <2>1, <2>2, <2>3 DEF Conserved
  <2>6. Remembered(c, value[c], phase, gate)
    BY <2>4 DEF Remembered
  <2> QED BY <2>5, <2>6
<1> QED BY <1>1, <1>2, <1>3 DEF AdInv, Good, AdInit

\* A request without a gate is in no deque and owns no slot: moving it between
\* such phases disturbs nothing.
LEMMA IdleMove ==
  ASSUME Good(value, phase, gate, waiters), NEW r \in Requests,
         NEW ph2, ph2 \in [Requests -> Phases],
         \A q \in Requests \ {r} : ph2[q] = phase[q],
         phase[r] \notin {"waiting", "granted"}, ph2[r] \notin {"waiting", "granted"},
         gate[r] = Unlimited
  PROVE  Good(value, ph2, gate, waiters)
<1>0. \A d \in Caps : gate[r] # d
  BY CapsAssumption
<1>1. Typed(value, ph2, gate, waiters)
  BY DEF Good, Typed
<1>2. Listed(ph2, gate, waiters)
  <2> SUFFICES ASSUME NEW c \in Caps, NEW i \in DOMAIN waiters[c]
               PROVE  ph2[waiters[c][i]] = phase[waiters[c][i]]
    BY DEF Good, Listed
  <2>1. waiters[c][i] \in Requests /\ gate[waiters[c][i]] = c
    BY DEF Good, Typed, Listed
  <2> QED BY <1>0, <2>1
<1>3. Present(ph2, gate, waiters)
  BY DEF Good, Present
<1>4. ASSUME NEW c \in Caps
      PROVE  Conserved(c, value[c], ph2, gate) /\ Remembered(c, value[c], ph2, gate)
  <2>1. \A q \in Requests : gate[q] = c => ph2[q] = phase[q]
    BY <1>0
  <2>2. SlotsIn(c, ph2, gate) = SlotsIn(c, phase, gate)
    BY <2>1 DEF SlotsIn
  <2> QED BY <2>1, <2>2 DEF Good, Conserved, Remembered
<1>5. Detached(ph2, gate)
  BY DEF Good, Detached
<1> QED BY <1>1, <1>2, <1>3, <1>4, <1>5 DEF Good

LEMMA AdNextInv == AdInv /\ [AdNext]_adVars => AdInv'
<1> SUFFICES ASSUME AdInv, [AdNext]_adVars PROVE AdInv'
  OBVIOUS
<1>g. Good(value, phase, gate, waiters) /\ setting \in Settings
  BY DEF AdInv
<1>t. Typed(value, phase, gate, waiters)
  BY <1>g DEF Good
<1>u. Unlimited \in Gates /\ Unlimited \notin Caps /\ Caps \subseteq Gates
  BY CapsAssumption DEF Gates
<1>d. \A r \in Requests : phase[r] \in {"idle", "refused"} => gate[r] = Unlimited
  BY <1>g DEF Good, Detached
<1>1. ASSUME NEW r \in Requests, EnterUnlimited(r) \/ RefuseAtOnce(r) \/ Forget(r)
      PROVE  AdInv'
  <2>1. /\ phase' \in [Requests -> Phases]
        /\ \A q \in Requests \ {r} : phase'[q] = phase[q]
        /\ phase[r] \in {"idle", "refused"} /\ phase'[r] \notin {"waiting", "granted"}
    BY <1>1, <1>t DEF EnterUnlimited, RefuseAtOnce, Forget, Typed, Phases
  <2>2. gate[r] = Unlimited
    BY <1>d, <2>1
  <2>3. Good(value, phase', gate, waiters)
    BY <1>g, <2>1, <2>2, IdleMove
  <2> QED BY <1>1, <1>g, <2>3 DEF AdInv, EnterUnlimited, RefuseAtOnce, Forget
<1>2. ASSUME NEW r \in Requests, EnterAtOnce(r) PROVE AdInv'
  <2> DEFINE c == setting.max
  <2>1. /\ c \in Caps /\ phase[r] = "idle" /\ gate[r] = Unlimited
        /\ value[c] # 0 /\ waiters[c] = <<>>
        /\ value' = [value EXCEPT ![c] = @ - 1] /\ gate' = [gate EXCEPT ![r] = c]
        /\ phase' = [phase EXCEPT ![r] = "running"]
        /\ waiters' = waiters /\ setting' = setting
    BY <1>2, <1>d DEF EnterAtOnce, Locked
  <2> HIDE DEF c
  <2>2. Typed(value', phase', gate', waiters')
    BY <1>t, <1>u, <2>1 DEF Typed, Phases
  <2>3. Listed(phase', gate', waiters')
    <3> SUFFICES ASSUME NEW d \in Caps, NEW i \in DOMAIN waiters[d]
                 PROVE  /\ phase'[waiters[d][i]] = phase[waiters[d][i]]
                        /\ gate'[waiters[d][i]] = gate[waiters[d][i]]
      BY <1>g, <2>1 DEF Good, Listed
    <3>1. waiters[d][i] \in Requests /\ gate[waiters[d][i]] = d
      BY <1>g DEF Good, Typed, Listed
    <3>2. waiters[d][i] # r
      BY <1>u, <2>1, <3>1
    <3> QED BY <1>t, <2>1, <3>1, <3>2 DEF Typed
  <2>4. Present(phase', gate', waiters') /\ Detached(phase', gate')
    BY <1>g, <2>1 DEF Good, Typed, Present, Detached
  <2>5. Conserved(c, value'[c], phase', gate')
    <3>1. r \notin SlotsIn(c, phase, gate)
      BY <2>1 DEF SlotsIn
    <3>2. SlotsIn(c, phase', gate') = SlotsIn(c, phase, gate) \cup {r}
      BY <1>t, <2>1 DEF SlotsIn, Typed
    <3>3. Cardinality(SlotsIn(c, phase', gate')) = Cardinality(SlotsIn(c, phase, gate)) + 1
      BY <3>1, <3>2, GainSlot
    <3>4. value'[c] = value[c] - 1 /\ value[c] \in Nat
      BY <1>t, <2>1 DEF Typed
    <3>5. value[c] + Cardinality(SlotsIn(c, phase, gate)) = c
      BY <1>g, <2>1 DEF Good, Conserved
    <3> QED BY <3>3, <3>4, <3>5, SlotCount DEF Conserved
  <2>6. Remembered(c, value'[c], phase', gate')
    <3>1. \A q \in Requests : ~(phase[q] = "waiting" /\ gate[q] = c)
      BY <1>g, <2>1 DEF Good, Present
    <3> QED BY <1>t, <2>1, <3>1 DEF Remembered, Typed
  <2>7. ASSUME NEW d \in Caps \ {c}
        PROVE  Conserved(d, value'[d], phase', gate') /\ Remembered(d, value'[d], phase', gate')
    <3>1. /\ gate[r] # d /\ gate'[r] # d /\ value'[d] = value[d]
          /\ \A q \in Requests \ {r} : phase'[q] = phase[q]
          /\ \A q \in Requests \ {r} : gate'[q] = gate[q]
      BY <1>t, <1>u, <2>1 DEF Typed
    <3> QED BY <1>g, <3>1, OtherGates
  <2> QED BY <1>g, <2>1, <2>2, <2>3, <2>4, <2>5, <2>6, <2>7 DEF AdInv, Good
<1>3. ASSUME NEW r \in Requests, Enqueue(r) PROVE AdInv'
  <2> DEFINE c == setting.max
             n == Len(waiters[c])
  <2>1. /\ c \in Caps /\ phase[r] = "idle" /\ gate[r] = Unlimited
        /\ value[c] = 0 \/ waiters[c] # <<>>
        /\ waiters' = [waiters EXCEPT ![c] = Append(waiters[c], r)]
        /\ gate' = [gate EXCEPT ![r] = c] /\ phase' = [phase EXCEPT ![r] = "waiting"]
        /\ value' = value /\ setting' = setting
    BY <1>3, <1>d DEF Enqueue, Locked
  <2>2. /\ waiters[c] \in Seq(Requests) /\ n \in Nat
        /\ waiters'[c] \in Seq(Requests) /\ DOMAIN waiters'[c] = 1 .. n + 1
        /\ waiters'[c][n + 1] = r /\ \A i \in 1 .. n : waiters'[c][i] = waiters[c][i]
        /\ \A d \in Caps \ {c} : waiters'[d] = waiters[d]
    BY <1>t, <2>1 DEF Typed
  <2>3. \A d \in Caps : \A i \in DOMAIN waiters[d] :
          /\ waiters[d][i] \in Requests \ {r} /\ gate[waiters[d][i]] = d
          /\ phase[waiters[d][i]] \in {"waiting", "granted"}
          /\ \A j \in DOMAIN waiters[d] : waiters[d][i] = waiters[d][j] => i = j
    BY <1>g, <2>1 DEF Good, Typed, Listed
  <2> HIDE DEF c, n
  <2>4. Typed(value', phase', gate', waiters')
    BY <1>t, <1>u, <2>1, <2>2 DEF Typed, Phases
  <2>5. Listed(phase', gate', waiters')
    <3>1. ASSUME NEW d \in Caps \ {c}, NEW i \in DOMAIN waiters'[d]
          PROVE  /\ phase'[waiters'[d][i]] \in {"waiting", "granted"}
                 /\ gate'[waiters'[d][i]] = d
                 /\ \A j \in DOMAIN waiters'[d] : waiters'[d][i] = waiters'[d][j] => i = j
      BY <1>t, <2>1, <2>2, <2>3 DEF Typed
    <3>2. ASSUME NEW i \in 1 .. n + 1
          PROVE  /\ phase'[waiters'[c][i]] \in {"waiting", "granted"}
                 /\ gate'[waiters'[c][i]] = c
                 /\ \A j \in 1 .. n + 1 : waiters'[c][i] = waiters'[c][j] => i = j
      <4>1. DOMAIN waiters[c] = 1 .. n
        BY <2>2 DEF n
      <4>2. CASE i = n + 1
        BY <1>t, <2>1, <2>2, <2>3, <4>1, <4>2 DEF Typed
      <4>3. CASE i \in 1 .. n
        <5>1. /\ waiters'[c][i] = waiters[c][i] /\ waiters[c][i] \in Requests \ {r}
              /\ gate[waiters[c][i]] = c
              /\ phase[waiters[c][i]] \in {"waiting", "granted"}
          BY <2>1, <2>2, <2>3, <4>1, <4>3
        <5>2. /\ phase'[waiters[c][i]] = phase[waiters[c][i]]
              /\ gate'[waiters[c][i]] = gate[waiters[c][i]]
          BY <1>t, <2>1, <5>1 DEF Typed
        <5>3. ASSUME NEW j \in 1 .. n + 1, waiters'[c][i] = waiters'[c][j] PROVE i = j
          <6>1. j # n + 1
            BY <2>2, <5>1, <5>3
          <6>2. j \in 1 .. n
            BY <2>2, <6>1
          <6>3. waiters[c][i] = waiters[c][j]
            BY <2>2, <5>1, <5>3, <6>2
          <6> QED BY ZenonT(60), <2>1, <2>3, <4>1, <4>3, <6>2, <6>3
        <5> QED BY <5>1, <5>2, <5>3
      <4> QED BY <2>2, <4>2, <4>3
    <3> QED BY <2>1, <2>2, <3>1, <3>2 DEF Listed
  <2>6. Present(phase', gate', waiters')
    <3> SUFFICES ASSUME NEW p \in Requests, phase'[p] \in {"waiting", "granted"}
                 PROVE  /\ gate'[p] \in Caps
                        /\ \E i \in DOMAIN waiters'[gate'[p]] : waiters'[gate'[p]][i] = p
      BY DEF Present
    <3>1. CASE p = r
      <4>1. gate'[p] = c /\ n + 1 \in DOMAIN waiters'[c] /\ waiters'[c][n + 1] = p
        BY <1>t, <2>1, <2>2, <3>1 DEF Typed
      <4> QED BY <2>1, <4>1
    <3>2. CASE p # r
      <4>1. gate'[p] = gate[p] /\ phase[p] \in {"waiting", "granted"}
        BY <1>t, <2>1, <3>2 DEF Typed
      <4>2. gate[p] \in Caps
        BY <1>g, <4>1 DEF Good, Present
      <4>3. PICK i \in DOMAIN waiters[gate[p]] : waiters[gate[p]][i] = p
        BY <1>g, <4>1 DEF Good, Present
      <4>4. i \in DOMAIN waiters'[gate[p]] /\ waiters'[gate[p]][i] = p
        <5>1. CASE gate[p] = c
          <6>1. i \in 1 .. n
            BY <2>2, <4>3, <5>1 DEF n
          <6> QED BY <2>2, <4>3, <5>1, <6>1
        <5>2. CASE gate[p] # c
          BY <2>2, <4>2, <4>3, <5>2
        <5> QED BY <5>1, <5>2
      <4> QED BY <4>1, <4>2, <4>4
    <3> QED BY <3>1, <3>2
  <2>7. Detached(phase', gate')
    BY <1>g, <2>1 DEF Good, Typed, Detached
  <2>8. ASSUME NEW d \in Caps
        PROVE  SlotsIn(d, phase', gate') = SlotsIn(d, phase, gate)
    BY <1>t, <1>u, <2>1 DEF SlotsIn, Typed
  <2>9. Remembered(c, value'[c], phase', gate')
    <3>1. CASE value[c] = 0
      BY <2>1, <3>1 DEF Remembered
    <3>2. CASE value[c] > 0 /\ waiters[c] # <<>>
      <4>1. PICK q \in Requests : phase[q] \in {"waiting", "granted"} /\ gate[q] = c /\ q # r
        <5>1. 1 \in DOMAIN waiters[c]
          BY <2>2, <3>2
        <5> QED BY <2>1, <2>3, <5>1
      <4>2. \E s \in Requests : phase[s] = "granted" /\ gate[s] = c
        BY <1>g, <2>1, <3>2, <4>1 DEF Good, Remembered
      <4>3. \E s \in Requests : phase'[s] = "granted" /\ gate'[s] = c
        BY <1>t, <2>1, <4>2 DEF Typed
      <4> QED BY <4>3 DEF Remembered
    <3>3. value[c] \in Nat
      BY <1>t, <2>1 DEF Typed
    <3> QED BY <2>1, <3>1, <3>2, <3>3
  <2>10. ASSUME NEW d \in Caps \ {c} PROVE Remembered(d, value'[d], phase', gate')
    <3>1. /\ gate[r] # d /\ gate'[r] # d /\ value'[d] = value[d]
          /\ \A q \in Requests \ {r} : phase'[q] = phase[q]
          /\ \A q \in Requests \ {r} : gate'[q] = gate[q]
      BY <1>t, <1>u, <2>1 DEF Typed
    <3> QED BY <1>g, <3>1, OtherGates
  <2>11. \A d \in Caps : Conserved(d, value'[d], phase', gate')
    BY <1>g, <2>1, <2>8 DEF Good, Conserved
  <2> QED BY <1>g, <2>1, <2>4, <2>5, <2>6, <2>7, <2>9, <2>10, <2>11 DEF AdInv, Good
<1>4. ASSUME NEW r \in Requests, Resume(r) \/ TimeOut(r) PROVE AdInv'
  <2> DEFINE c == gate[r]
  <2>1. phase[r] \in {"waiting", "granted"} /\ c \in Caps /\ setting' = setting
    BY <1>4, <1>g DEF Resume, TimeOut, TimeOutWaiting, TimeOutGranted, Good, Present
  <2> HIDE DEF c
  <2>2. gate[r] = c /\ value[c] \in Nat /\ \A d \in Caps \ {c} : d # gate[r]
    BY <1>t, <2>1 DEF c, Typed
  <2>3. \A d \in Caps : Conserved(d, value[d], phase, gate) /\ Remembered(d, value[d], phase, gate)
    BY <1>g DEF Good
  <2>4. ASSUME Resume(r) PROVE Good(value', phase', gate', waiters')
    <3> DEFINE ph == [phase EXCEPT ![r] = "running"]
    <3>1. PICK k \in DOMAIN waiters[c] :
            /\ waiters[c][k] = r
            /\ waiters' = [waiters EXCEPT ![c] = RemoveAt(waiters[c], k)]
            /\ IF value[c] > 0
               THEN WakeNext(c, ph, RemoveAt(waiters[c], k), value[c])
               ELSE phase' = ph /\ UNCHANGED value
      BY <2>4 DEF Resume, c
    <3>2. phase[r] = "granted" /\ gate' = gate
      BY <2>4 DEF Resume
    <3>3. /\ ph \in [Requests -> Phases] /\ ph[r] = "running"
          /\ \A q \in Requests \ {r} : ph[q] = phase[q]
      BY <1>t DEF Typed, Phases
    <3> HIDE DEF ph
    <3>4. /\ Typed(value, ph, gate, waiters') /\ Listed(ph, gate, waiters')
          /\ Present(ph, gate, waiters')
      <4>1. /\ ph[r] \notin {"waiting", "granted"} /\ gate \in [Requests -> Gates]
            /\ \A q \in Requests \ {r} : ph[q] = phase[q] /\ gate[q] = gate[q]
        BY <1>t, <3>3 DEF Typed
      <4> QED BY <1>g, <2>1, <2>2, <3>1, <3>3, <4>1, LeaveDeque
    <3>5. Detached(ph, gate)
      BY <1>g, <3>3 DEF Good, Detached
    <3>6. \A d \in Caps : SlotsIn(d, ph, gate) = SlotsIn(d, phase, gate)
      BY <3>2, <3>3 DEF SlotsIn
    <3>7. \A d \in Caps : Conserved(d, value[d], ph, gate)
      BY <2>3, <3>6 DEF Conserved
    <3>8. \A d \in Caps \ {c} : Remembered(d, value[d], ph, gate)
      BY <2>2, <2>3, <3>3 DEF Remembered
    <3>9. CASE value[c] > 0
      <4>1. WakeNext(c, ph, waiters'[c], value[c])
        BY <1>t, <2>1, <3>1, <3>9 DEF Typed
      <4>2. value[c] \in Nat \ {0}
        BY <2>2, <3>9
      <4> QED BY <2>1, <3>2, <3>4, <3>5, <3>7, <3>8, <4>1, <4>2, WakeNextGood
    <3>10. CASE ~(value[c] > 0)
      <4>1. phase' = ph /\ value' = value
        BY <3>1, <3>10
      <4>2. Remembered(c, value[c], ph, gate)
        BY <3>10 DEF Remembered
      <4> QED BY <3>2, <3>4, <3>5, <3>7, <3>8, <4>1, <4>2 DEF Good
    <3> QED BY <3>9, <3>10
  <2>5. ASSUME TimeOut(r) PROVE Good(value', phase', gate', waiters')
    <3> DEFINE ph == [phase EXCEPT ![r] = "refused"]
    <3>1. PICK k \in DOMAIN waiters[c] :
            /\ waiters[c][k] = r
            /\ waiters' = [waiters EXCEPT ![c] = RemoveAt(waiters[c], k)]
            /\ \/ phase[r] = "waiting" /\ phase' = ph /\ value' = value
               \/ /\ phase[r] = "granted"
                  /\ WakeNext(c, ph, RemoveAt(waiters[c], k), value[c] + 1)
      BY <2>5 DEF TimeOut, TimeOutWaiting, TimeOutGranted, c
    <3>2. gate' = [gate EXCEPT ![r] = Unlimited]
      BY <2>5 DEF TimeOut, TimeOutWaiting, TimeOutGranted
    <3>3. /\ ph \in [Requests -> Phases] /\ ph[r] = "refused"
          /\ gate' \in [Requests -> Gates] /\ gate'[r] = Unlimited
          /\ \A q \in Requests \ {r} : ph[q] = phase[q] /\ gate'[q] = gate[q]
      BY <1>t, <1>u, <3>2 DEF Typed, Phases
    <3> HIDE DEF ph
    <3>4. /\ Typed(value, ph, gate', waiters') /\ Listed(ph, gate', waiters')
          /\ Present(ph, gate', waiters')
      BY <1>g, <2>1, <2>2, <3>1, <3>3, LeaveDeque
    <3>5. Detached(ph, gate')
      BY <1>g, <3>3 DEF Good, Detached
    <3>6. ASSUME NEW d \in Caps \ {c}
          PROVE  Conserved(d, value[d], ph, gate') /\ Remembered(d, value[d], ph, gate')
      <4>1. gate[r] # d /\ gate'[r] # d
        BY <1>u, <2>2, <3>3
      <4>2. /\ \A q \in Requests \ {r} : ph[q] = phase[q]
            /\ \A q \in Requests \ {r} : gate'[q] = gate[q]
        BY <3>3
      <4> QED BY <1>g, <4>1, <4>2, OtherGates
    <3>7. CASE phase[r] = "waiting"
      <4>1. phase' = ph /\ value' = value
        BY <3>1, <3>7
      <4>2. SlotsIn(c, ph, gate') = SlotsIn(c, phase, gate)
        BY <3>3, <3>7 DEF SlotsIn
      <4>3. Conserved(c, value[c], ph, gate')
        BY <2>1, <2>3, <4>2 DEF Conserved
      <4>4. \A q \in Requests : phase[q] = "granted" /\ gate[q] = c
                               => ph[q] = "granted" /\ gate'[q] = c
        BY <3>3, <3>7
      <4>5. \A q \in Requests : ph[q] = "waiting" /\ gate'[q] = c
                               => phase[q] = "waiting" /\ gate[q] = c
        BY <3>3
      <4>6. Remembered(c, value[c], ph, gate')
        BY <2>1, <2>3, <4>4, <4>5 DEF Remembered
      <4> QED BY <3>4, <3>5, <3>6, <4>1, <4>3, <4>6 DEF Good
    <3>8. CASE phase[r] = "granted"
      <4>1. WakeNext(c, ph, waiters'[c], value[c] + 1)
        BY <1>t, <2>1, <3>1, <3>8 DEF Typed
      <4>2. Conserved(c, value[c] + 1, ph, gate')
        <5>1. r \in SlotsIn(c, phase, gate)
          BY <2>2, <3>8 DEF SlotsIn
        <5>2. SlotsIn(c, ph, gate') = SlotsIn(c, phase, gate) \ {r}
          BY <3>3 DEF SlotsIn
        <5>3. /\ Cardinality(SlotsIn(c, ph, gate')) = Cardinality(SlotsIn(c, phase, gate)) - 1
              /\ Cardinality(SlotsIn(c, phase, gate)) \in Nat
          BY <5>1, <5>2, LoseSlot
        <5>4. value[c] + Cardinality(SlotsIn(c, phase, gate)) = c
          BY <2>1, <2>3 DEF Conserved
        <5> QED BY <2>2, <5>3, <5>4 DEF Conserved
      <4>3. value[c] + 1 \in Nat \ {0}
        BY <2>2
      <4> QED BY <2>1, <3>4, <3>5, <3>6, <4>1, <4>2, <4>3, WakeNextGood
    <3> QED BY <2>1, <3>7, <3>8
  <2> QED BY <1>4, <1>g, <2>1, <2>4, <2>5 DEF AdInv
<1>5. ASSUME NEW r \in Requests, Release(r) PROVE AdInv'
  <2> DEFINE ph == [phase EXCEPT ![r] = "idle"]
  <2>1. /\ phase[r] = "running" /\ setting' = setting /\ waiters' = waiters
        /\ gate' = [gate EXCEPT ![r] = Unlimited]
        /\ IF gate[r] \in Caps
           THEN WakeNext(gate[r], ph, waiters[gate[r]], value[gate[r]] + 1)
           ELSE phase' = ph /\ UNCHANGED value
    BY <1>5 DEF Release
  <2>2. /\ ph \in [Requests -> Phases] /\ ph[r] = "idle"
        /\ gate' \in [Requests -> Gates] /\ gate'[r] = Unlimited
        /\ \A q \in Requests \ {r} : ph[q] = phase[q]
        /\ \A q \in Requests \ {r} : gate'[q] = gate[q]
    BY <1>t, <1>u, <2>1 DEF Typed, Phases
  <2> HIDE DEF ph
  <2>3. Typed(value, ph, gate', waiters')
    BY <1>t, <2>1, <2>2 DEF Typed
  <2>4. Listed(ph, gate', waiters')
    <3> SUFFICES ASSUME NEW d \in Caps, NEW i \in DOMAIN waiters[d]
                 PROVE  /\ ph[waiters[d][i]] = phase[waiters[d][i]]
                        /\ gate'[waiters[d][i]] = gate[waiters[d][i]]
      BY <1>g, <2>1 DEF Good, Listed
    <3>1. waiters[d][i] \in Requests /\ phase[waiters[d][i]] \in {"waiting", "granted"}
      BY <1>g DEF Good, Typed, Listed
    <3> QED BY <2>1, <2>2, <3>1
  <2>5. Present(ph, gate', waiters') /\ Detached(ph, gate')
    BY <1>g, <2>1, <2>2 DEF Good, Present, Detached
  <2>6. ASSUME NEW d \in Caps, d # gate[r]
        PROVE  Conserved(d, value[d], ph, gate') /\ Remembered(d, value[d], ph, gate')
    <3>1. gate[r] # d /\ gate'[r] # d
      BY <1>u, <2>2, <2>6
    <3> QED BY <1>g, <2>2, <3>1, OtherGates
  <2>7. CASE gate[r] \in Caps
    <3> DEFINE c == gate[r]
    <3>1. WakeNext(c, ph, waiters'[c], value[c] + 1) /\ value[c] + 1 \in Nat \ {0}
      BY <1>t, <2>1, <2>7 DEF Typed
    <3>2. Conserved(c, value[c] + 1, ph, gate')
      <4>1. r \in SlotsIn(c, phase, gate)
        BY <2>1 DEF SlotsIn
      <4>2. SlotsIn(c, ph, gate') = SlotsIn(c, phase, gate) \ {r}
        BY <2>2 DEF SlotsIn
      <4>3. /\ Cardinality(SlotsIn(c, ph, gate')) = Cardinality(SlotsIn(c, phase, gate)) - 1
            /\ Cardinality(SlotsIn(c, phase, gate)) \in Nat
        BY <4>1, <4>2, LoseSlot
      <4>4. value[c] + Cardinality(SlotsIn(c, phase, gate)) = c /\ value[c] \in Nat
        BY <1>g, <1>t, <2>7 DEF Good, Conserved, Typed
      <4> QED BY <4>3, <4>4 DEF Conserved
    <3>3. Good(value', phase', gate', waiters')
      <4>1. \A d \in Caps \ {c} : Conserved(d, value[d], ph, gate') /\ Remembered(d, value[d], ph, gate')
        BY <2>6
      <4> HIDE DEF c
      <4>2. c \in Caps
        BY <2>7 DEF c
      <4> QED BY <2>3, <2>4, <2>5, <3>1, <3>2, <4>1, <4>2, WakeNextGood
    <3> QED BY <1>g, <2>1, <3>3 DEF AdInv
  <2>8. CASE gate[r] \notin Caps
    <3>1. phase' = ph /\ value' = value
      BY <2>1, <2>8
    <3> QED BY <1>g, <2>1, <2>3, <2>4, <2>5, <2>6, <2>8, <3>1 DEF AdInv, Good
  <2> QED BY <2>7, <2>8
<1>6. ASSUME NEW s \in Settings, Reload(s) PROVE AdInv'
  BY <1>6, <1>g DEF Reload, AdInv
<1>7. ASSUME UNCHANGED adVars PROVE AdInv'
  BY <1>7, <1>g DEF adVars, AdInv
<1> QED BY <1>1, <1>2, <1>3, <1>4, <1>5, <1>6, <1>7 DEF AdNext, Acquire

\* The inductive invariant of admission control.
THEOREM AdmissionInvariant == AdSpec => []AdInv
<1> QED BY AdInitInv, AdNextInv, PTL DEF AdSpec

LEMMA AdInvImplies == AdInv => /\ AdTypeOK /\ DequeExact /\ SlotsConserved
                               /\ NoLostWakeup /\ CapPerGate
<1> SUFFICES ASSUME AdInv
             PROVE  /\ AdTypeOK /\ DequeExact /\ SlotsConserved
                    /\ NoLostWakeup /\ CapPerGate
  OBVIOUS
<1>1. AdTypeOK
  BY DEF AdInv, Good, Typed, AdTypeOK, Gates
<1>2. DequeExact
  BY DEF AdInv, Good, Listed, Present, DequeExact, InDeque
<1>3. \A c \in Caps : SlotsOf(c) = SlotsIn(c, phase, gate)
  BY DEF SlotsOf, SlotsIn
<1>4. SlotsConserved
  BY <1>3 DEF AdInv, Good, Conserved, SlotsConserved
<1>5. NoLostWakeup
  BY DEF AdInv, Good, Remembered, NoLostWakeup
<1>6. CapPerGate
  <2> SUFFICES ASSUME NEW c \in Caps
               PROVE  Cardinality({r \in SlotsOf(c) : phase[r] = "running"}) <= c
    BY DEF CapPerGate
  <2>1. IsFiniteSet(SlotsOf(c))
    BY SlotsAssumption, FS_Subset DEF SlotsOf
  <2>2. {r \in SlotsOf(c) : phase[r] = "running"} \subseteq SlotsOf(c)
    OBVIOUS
  <2>3. /\ Cardinality({r \in SlotsOf(c) : phase[r] = "running"}) <= Cardinality(SlotsOf(c))
        /\ IsFiniteSet({r \in SlotsOf(c) : phase[r] = "running"})
    BY <2>1, <2>2, FS_Subset
  <2>4. /\ Cardinality({r \in SlotsOf(c) : phase[r] = "running"}) \in Nat
        /\ Cardinality(SlotsOf(c)) \in Nat
    BY <2>1, <2>3, FS_CardinalityType
  <2>5. value[c] + Cardinality(SlotsOf(c)) = c /\ value[c] \in Nat
    BY <1>1, <1>4 DEF SlotsConserved, AdTypeOK
  <2> QED BY <2>3, <2>4, <2>5
<1> QED BY <1>1, <1>2, <1>4, <1>5, <1>6

\* Slots are neither lost nor invented by any order of grants, timeouts,
\* releases and reloads.
THEOREM SlotsAlwaysConserved == AdSpec => []SlotsConserved
<1> QED BY AdmissionInvariant, AdInvImplies, PTL

\* A waiter beside a free slot always has a granted task ahead of it that will
\* pass the slot on.
THEOREM WaitersRemembered == AdSpec => []NoLostWakeup
<1> QED BY AdmissionInvariant, AdInvImplies, PTL

\* Each gate keeps its cap, and its deque names exactly the waiting requests.
THEOREM GatesKeepTheirCap == AdSpec => [](AdTypeOK /\ CapPerGate /\ DequeExact)
<1> QED BY AdmissionInvariant, AdInvImplies, PTL

-----------------------------------------------------------------------------
(* First come, first served.                                               *)

\* Who is woken had nobody waiting before it in the deque.
LEMMA WakesTheFirst ==
  ASSUME NEW c \in Caps, NEW ph \in [Requests -> Phases], NEW q \in Seq(Requests), NEW v,
         WakeNext(c, ph, q, v),
         NEW r \in Requests, ph[r] \notin {"granted", "running"}, HasSlot(r)',
         NEW i \in DOMAIN q, NEW j \in DOMAIN q, i < j, q[j] = r,
         \A k \in DOMAIN q : q[k] = r => k = j
  PROVE  ph[r] = "waiting" /\ ph[q[i]] # "waiting"
<1>1. phase' # ph
  BY DEF HasSlot
<1>2. PICK n \in DOMAIN q : /\ ph[q[n]] = "waiting"
                            /\ \A m \in 1 .. n - 1 : ph[q[m]] # "waiting"
                            /\ phase' = [ph EXCEPT ![q[n]] = "granted"]
  BY <1>1 DEF WakeNext
<1>3. q[n] = r
  BY <1>2 DEF HasSlot
<1>. QED
  BY <1>2, <1>3

\* A waiter that leaves the deque changes nobody's turn.
LEMMA TurnsKept ==
  ASSUME NEW w \in Seq(Requests), NEW k \in DOMAIN w,
         \A m, n \in DOMAIN w : w[m] = w[n] => m = n,
         NEW i \in DOMAIN w, NEW j \in DOMAIN w, i < j, i # k, j # k
  PROVE  LET q == RemoveAt(w, k)
         IN  /\ q \in Seq(Requests)
             /\ \E a, b \in DOMAIN q : /\ a < b /\ q[a] = w[i] /\ q[b] = w[j]
                                       /\ \A n \in DOMAIN q : q[n] = w[j] => n = b
<1> DEFINE q == RemoveAt(w, k)
           a == IF i < k THEN i ELSE i - 1
           b == IF j < k THEN j ELSE j - 1
<1>0. k \in 1 .. Len(w)
  OBVIOUS
<1>1. /\ q \in Seq(Requests) /\ Len(q) = Len(w) - 1
      /\ \A n \in 1 .. Len(w) - 1 : q[n] = IF n < k THEN w[n] ELSE w[n + 1]
  BY <1>0, RemoveAtProperties
<1> HIDE DEF q
<1>2. a \in 1 .. Len(w) - 1 /\ b \in 1 .. Len(w) - 1 /\ a < b
  OBVIOUS
<1>3. q[a] = w[i] /\ q[b] = w[j]
  <2>1. /\ a < k => a = i
        /\ ~(a < k) => a + 1 = i
        /\ b < k => b = j
        /\ ~(b < k) => b + 1 = j
    BY <1>0
  <2> HIDE DEF a, b
  <2>2. /\ q[a] = IF a < k THEN w[a] ELSE w[a + 1]
        /\ q[b] = IF b < k THEN w[b] ELSE w[b + 1]
    BY <1>1, <1>2
  <2>3. q[a] = w[i]
    BY <2>1, <2>2
  <2>. QED
    BY <2>1, <2>2, <2>3
<1>4. ASSUME NEW n \in DOMAIN q, q[n] = w[j] PROVE n = b
  <2>1. n \in 1 .. Len(w) - 1
    BY <1>1, <1>4
  <2>2. CASE n < k
    <3>1. w[n] = w[j] /\ n \in DOMAIN w
      BY <1>1, <1>4, <2>1, <2>2
    <3>. QED
      BY <3>1, <2>2
  <2>3. CASE ~(n < k)
    <3>1. w[n + 1] = w[j] /\ n + 1 \in DOMAIN w
      BY <1>1, <1>4, <2>1, <2>3
    <3>. QED
      BY <3>1, <2>3, <2>1
  <2>. QED
    BY <2>2, <2>3
<1>5. a \in DOMAIN q /\ b \in DOMAIN q
  BY <1>1, <1>2
<1> HIDE DEF a, b
<1>6. /\ q \in Seq(Requests)
      /\ \E d, e \in DOMAIN q : /\ d < e /\ q[d] = w[i] /\ q[e] = w[j]
                               /\ \A n \in DOMAIN q : q[n] = w[j] => n = e
  BY <1>1, <1>2, <1>3, <1>4, <1>5
<1>. QED
  BY <1>6 DEF q

\* A request obtains a slot ahead of nobody who has been waiting longer: a new
\* one waits behind the others, and semaphores wake the oldest first.
LEMMA NobodyOvertakes ==
  ASSUME AdInv, [AdNext]_adVars,
         NEW r \in Requests, NEW q \in Requests,
         ~HasSlot(r), HasSlot(r)', phase[q] = "waiting", gate[q] = gate'[r], q # r,
         phase[r] = "idle" \/ Ahead(q, r)
  PROVE  phase'[q] # "waiting"
<1> USE DEF HasSlot
<1>g. Typed(value, phase, gate, waiters) /\ Listed(phase, gate, waiters)
      /\ Present(phase, gate, waiters) /\ Detached(phase, gate)
  BY DEF AdInv, Good
<1> USE DEF Typed
<1> DEFINE c == gate[q]  w == waiters[c]
<1>c. c \in Caps /\ w \in Seq(Requests) /\ \E i \in DOMAIN w : w[i] = q
  BY <1>g DEF Present
<1>u. \A m, n \in DOMAIN w : w[m] = w[n] => m = n
  BY <1>g, <1>c DEF Listed
<1>w. \A i \in DOMAIN w : gate[w[i]] = c /\ phase[w[i]] \in {"waiting", "granted"}
  BY <1>g, <1>c DEF Listed
<1>1. ASSUME NEW s \in Requests, Acquire(s) PROVE phase'[q] # "waiting"
  <2>1. CASE EnterUnlimited(s)
    BY <2>1, <1>g, <1>c, CapsAssumption DEF EnterUnlimited, Detached
  <2>2. CASE EnterAtOnce(s)
    <3>1. s = r /\ gate'[r] = setting.max /\ waiters[setting.max] = <<>>
      BY <2>2, <1>g DEF EnterAtOnce, Locked
    <3>. QED
      BY <3>1, <1>c
  <2>3. CASE RefuseAtOnce(s) \/ Enqueue(s)
    BY <2>3, <1>g DEF RefuseAtOnce, Enqueue
  <2>. QED
    BY <1>1, <2>1, <2>2, <2>3 DEF Acquire
<1>2. ASSUME NEW s \in Requests, Resume(s) \/ TimeOut(s) \/ Release(s) \/ Forget(s), Ahead(q, r)
      PROVE  phase'[q] # "waiting"
  <2>1. PICK i, j \in DOMAIN w : i < j /\ w[i] = q /\ w[j] = r
    BY <1>2 DEF Ahead
  <2>2. gate[r] = c /\ phase[r] = "waiting"
    BY <2>1, <1>w
  <2>3. ASSUME NEW k \in DOMAIN waiters[gate[s]], waiters[gate[s]][k] = s, phase[s] = "granted",
               NEW ph \in [Requests -> Phases], ph[r] = phase[r], ph[q] = phase[q], NEW v,
               WakeNext(gate[s], ph, RemoveAt(waiters[gate[s]], k), v)
        PROVE  FALSE
    <3>1. gate[s] \in Caps
      BY <2>3, <1>g DEF Present
    <3> DEFINE rest == RemoveAt(waiters[gate[s]], k)
    <3>2. PICK n \in DOMAIN rest : rest[n] = r
      <4>1. phase' # ph
        BY <2>2, <2>3
      <4>2. PICK n \in DOMAIN rest : phase' = [ph EXCEPT ![rest[n]] = "granted"]
        BY <4>1, <2>3 DEF WakeNext
      <4>. QED
        BY <4>2, <2>2, <2>3
    <3>3. gate[s] = c
      <4>1. waiters[gate[s]] \in Seq(Requests)
        BY <3>1, <1>g
      <4>2. /\ rest \in Seq(Requests) /\ Len(rest) = Len(waiters[gate[s]]) - 1
            /\ \A m \in 1 .. Len(waiters[gate[s]]) - 1 :
                 rest[m] = IF m < k THEN waiters[gate[s]][m] ELSE waiters[gate[s]][m + 1]
        <5>1. k \in 1 .. Len(waiters[gate[s]])
          BY <2>3, <4>1
        <5>. QED
          BY <4>1, <5>1, RemoveAtProperties
      <4> HIDE DEF rest
      <4>3. \E m \in DOMAIN waiters[gate[s]] : waiters[gate[s]][m] = r
        <5>1. n \in 1 .. Len(waiters[gate[s]]) - 1
          BY <4>1, <4>2
        <5>2. n \in DOMAIN waiters[gate[s]] /\ n + 1 \in DOMAIN waiters[gate[s]]
          BY <4>1, <5>1
        <5>. QED
          BY <4>2, <5>1, <5>2, <3>2
      <4>. QED
        BY <4>3, <3>1, <2>2, <1>g DEF Listed
    <3>4. k \in DOMAIN w /\ w[k] = s /\ k # i /\ k # j
      BY <3>3, <2>1, <2>2, <2>3
    <3>5. /\ rest \in Seq(Requests)
          /\ \E a, b \in DOMAIN rest : /\ a < b /\ rest[a] = q /\ rest[b] = r
                                       /\ \A m \in DOMAIN rest : rest[m] = r => m = b
      <4>1. w \in Seq(Requests) /\ rest = RemoveAt(w, k)
        BY <1>c, <3>3
      <4> HIDE DEF w, rest, c
      <4>2. /\ RemoveAt(w, k) \in Seq(Requests)
            /\ \E a, b \in DOMAIN RemoveAt(w, k) :
                 /\ a < b /\ RemoveAt(w, k)[a] = w[i] /\ RemoveAt(w, k)[b] = w[j]
                 /\ \A m \in DOMAIN RemoveAt(w, k) : RemoveAt(w, k)[m] = w[j] => m = b
        BY <3>4, <4>1, <1>u, <2>1, TurnsKept
      <4>. QED
        BY <4>1, <4>2, <2>1
    <3> HIDE DEF rest
    <3>6. WakeNext(c, ph, rest, v)
      BY <2>3, <3>3 DEF rest
    <3>7. PICK a, b \in DOMAIN rest : /\ a < b /\ rest[a] = q /\ rest[b] = r
                                      /\ \A m \in DOMAIN rest : rest[m] = r => m = b
      BY <3>5
    <3>8. ph[q] # "waiting"
      <4> HIDE DEF c
      <4>. QED
        BY <1>c, <3>5, <3>6, <3>7, <2>2, <2>3, WakesTheFirst
    <3>. QED
      BY <3>8, <2>3
  <2>4. CASE Resume(s)
    <3>1. PICK k \in DOMAIN waiters[gate[s]] :
            /\ waiters[gate[s]][k] = s
            /\ IF value[gate[s]] > 0
               THEN WakeNext(gate[s], [phase EXCEPT ![s] = "running"],
                             RemoveAt(waiters[gate[s]], k), value[gate[s]])
               ELSE phase' = [phase EXCEPT ![s] = "running"]
      BY <2>4 DEF Resume
    <3> DEFINE ph == [phase EXCEPT ![s] = "running"]
    <3>2. /\ phase[s] = "granted" /\ s # r /\ s # q /\ ph \in [Requests -> Phases]
          /\ ph[r] = phase[r] /\ ph[q] = phase[q]
      BY <2>4, <2>2, <1>g DEF Resume, Phases
    <3> HIDE DEF ph
    <3>3. phase' # ph
      BY <3>2, <2>2
    <3>. QED
      BY <3>1, <3>2, <3>3, <2>3 DEF ph
  <2>5. CASE TimeOutWaiting(s)
    BY <2>5, <2>2, <1>g DEF TimeOutWaiting
  <2>6. CASE TimeOutGranted(s)
    <3>1. PICK k \in DOMAIN waiters[gate[s]] :
            /\ waiters[gate[s]][k] = s
            /\ WakeNext(gate[s], [phase EXCEPT ![s] = "refused"],
                        RemoveAt(waiters[gate[s]], k), value[gate[s]] + 1)
      BY <2>6 DEF TimeOutGranted
    <3> DEFINE ph == [phase EXCEPT ![s] = "refused"]
    <3>2. /\ phase[s] = "granted" /\ s # r /\ s # q /\ ph \in [Requests -> Phases]
          /\ ph[r] = phase[r] /\ ph[q] = phase[q]
      BY <2>6, <2>2, <1>g DEF TimeOutGranted, Phases
    <3> HIDE DEF ph
    <3>. QED
      BY <3>1, <3>2, <2>3 DEF ph
  <2>7. CASE Release(s)
    <3> DEFINE ph == [phase EXCEPT ![s] = "idle"]
    <3>1. /\ s # r /\ s # q /\ ph \in [Requests -> Phases]
          /\ ph[r] = phase[r] /\ ph[q] = phase[q]
      BY <2>7, <2>2, <1>g DEF Release, Phases
    <3>2. phase' # ph
      BY <3>1, <2>2
    <3>3. gate[s] \in Caps /\ WakeNext(gate[s], ph, waiters[gate[s]], value[gate[s]] + 1)
      BY <2>7, <3>2 DEF Release
    <3> HIDE DEF ph
    <3>4. gate[s] = c
      <4>1. PICK n \in DOMAIN waiters[gate[s]] :
              phase' = [ph EXCEPT ![waiters[gate[s]][n]] = "granted"]
        BY <3>2, <3>3 DEF WakeNext
      <4>2. waiters[gate[s]][n] = r
        BY <4>1, <3>1, <2>2
      <4>. QED
        BY <4>2, <3>3, <2>2, <1>g DEF Listed
    <3>5. WakeNext(c, ph, w, value[gate[s]] + 1)
      BY <3>3, <3>4
    <3>6. ph[w[i]] # "waiting"
      <4> HIDE DEF c, w
      <4>. QED
        BY <1>c, <1>u, <2>1, <2>2, <3>1, <3>5, WakesTheFirst
    <3>. QED
      BY <3>1, <3>6, <2>1
  <2>8. CASE Forget(s)
    BY <2>8, <2>2, <1>g DEF Forget
  <2>. QED
    BY <1>2, <2>4, <2>5, <2>6, <2>7, <2>8 DEF TimeOut
<1>3. ASSUME NEW s \in Requests, Resume(s) \/ TimeOut(s) \/ Release(s) \/ Forget(s)
      PROVE  phase[r] # "idle"
  <2> SUFFICES ASSUME phase[r] = "idle" PROVE FALSE
    OBVIOUS
  <2>1. ASSUME NEW ph, NEW x, NEW d, NEW v, ph = [phase EXCEPT ![s] = x],
               x \in {"running", "refused", "idle"}, s = r => x # "running",
               WakeNext(gate[s], ph, d, v) \/ phase' = ph
        PROVE  FALSE
    <3>1. ph \in [Requests -> Phases] /\ ph[r] \notin {"waiting", "granted", "running"}
      BY <2>1, <1>g DEF Phases
    <3>. QED
      BY <2>1, <3>1 DEF WakeNext
  <2>2. CASE Resume(s)
    BY <2>1, <2>2 DEF Resume
  <2>3. CASE TimeOut(s)
    BY <2>1, <2>3 DEF TimeOut, TimeOutWaiting, TimeOutGranted
  <2>4. CASE Release(s)
    BY <2>1, <2>4 DEF Release
  <2>5. CASE Forget(s)
    BY <2>1, <2>5 DEF Forget
  <2>. QED
    BY <1>3, <2>2, <2>3, <2>4, <2>5
<1>4. ASSUME UNCHANGED phase PROVE FALSE
  BY <1>4
<1>. QED
  BY <1>1, <1>2, <1>3, <1>4 DEF AdNext, Reload, adVars

\* Nobody obtains a slot ahead of a request that has been waiting longer, in
\* any order of arrivals, releases and timeouts.
THEOREM FirstComeFirstServed == AdSpec => NoOvertaking
<1>1. ASSUME AdInv, [AdNext]_adVars
      PROVE  \A r, q \in Requests :
               /\ ~HasSlot(r) /\ HasSlot(r)'
               /\ phase[q] = "waiting" /\ gate[q] = gate'[r] /\ q # r
               /\ (phase[r] = "idle" \/ Ahead(q, r))
               => phase'[q] # "waiting"
  BY <1>1, NobodyOvertakes
<1>. QED
  BY <1>1, AdmissionInvariant, PTL DEF AdSpec, NoOvertaking

-----------------------------------------------------------------------------
(* The circuit.                                                            *)

USE CallersAssumption, ThresholdAssumption, RecoveryAssumption

\* The functions of the registry keep the circuit well-formed.
LEMMA CircuitClosure ==
  ASSUME NEW c \in Circuits
  PROVE  /\ AfterAllow(c) \in Circuits
         /\ AfterSuccess(c) \in Circuits
         /\ AfterFailure(c) \in Circuits
         /\ AfterTick(c) \in Circuits
<1>1. FailuresAfter(c) \in 0 .. FailureThreshold
  BY DEF FailuresAfter, Circuits
<1>2. AfterAllow(c) \in Circuits
  BY DEF AfterAllow, Circuits
<1>3. AfterSuccess(c) \in Circuits
  BY DEF AfterSuccess, ClosedCircuit, Circuits
<1>4. AfterFailure(c) \in Circuits
  <2>1. [c EXCEPT !.failures = FailuresAfter(c), !.probe = FALSE] \in Circuits
    BY <1>1 DEF Circuits
  <2>2. [state |-> "open", failures |-> FailuresAfter(c), openFor |-> 0,
         probe |-> FALSE] \in Circuits
    BY <1>1 DEF Circuits
  <2> QED BY <2>1, <2>2 DEF AfterFailure
<1>5. AfterTick(c) \in Circuits
  BY DEF AfterTick, Circuits
<1> QED BY <1>2, <1>3, <1>4, <1>5

\* A failure recorded on a closed circuit either stays below the threshold or
\* opens it; it never leaves the circuit half-open.
LEMMA FailureOutcome ==
  ASSUME NEW c \in Circuits
  PROVE  /\ AfterFailure(c).state # "half_open"
         /\ ~AfterFailure(c).probe
         /\ AfterFailure(c).state = "closed" =>
              AfterFailure(c).failures < FailureThreshold
<1>1. FailuresAfter(c) \in 0 .. FailureThreshold
  BY DEF FailuresAfter, Circuits
<1> QED BY <1>1 DEF AfterFailure, Circuits

LEMMA CBInitInv == CBInit => CBInv
  BY DEF CBInit, CBInv, CBTypeOK, HalfOpenMarked, ClosedBelowThreshold,
         ProbeFlagOnlyHalfOpen, ClosedCircuit, Circuits, AttemptKinds

LEMMA CBNextInv == CBInv /\ [CBNext]_cbVars => CBInv'
<1> SUFFICES ASSUME CBInv, [CBNext]_cbVars PROVE CBInv'
  OBVIOUS
<1>a. /\ circuit \in Circuits
      /\ attempt \in [Callers -> AttemptKinds]
  BY DEF CBInv, CBTypeOK
<1>1. ASSUME NEW r \in Callers, Allow(r) PROVE CBInv'
  <2>1. CBTypeOK'
    BY <1>a, <1>1, CircuitClosure DEF Allow, CBTypeOK, KindAllowed, AttemptKinds
  <2>2. HalfOpenMarked' /\ ClosedBelowThreshold' /\ ProbeFlagOnlyHalfOpen'
    <3>1. CASE circuit.state = "closed"
      <4>1. circuit' = circuit
        BY <1>1, <3>1 DEF Allow, AfterAllow, Expired
      <4> QED BY <4>1, <3>1
              DEF CBInv, HalfOpenMarked, ClosedBelowThreshold, ProbeFlagOnlyHalfOpen
    <3>2. CASE circuit.state # "closed"
      <4>1. circuit' = [circuit EXCEPT !.state = "half_open", !.probe = TRUE]
        BY <1>1, <3>2 DEF Allow, Allows, AfterAllow
      <4> QED BY <1>a, <4>1
              DEF Circuits, HalfOpenMarked, ClosedBelowThreshold, ProbeFlagOnlyHalfOpen
    <3> QED BY <3>1, <3>2
  <2> QED BY <2>1, <2>2 DEF CBInv
<1>2. ASSUME NEW r \in Callers, Refuse(r) \/ Leave(r) \/ Drop(r) PROVE CBInv'
  <2>1. circuit' = circuit
    BY <1>2 DEF Refuse, Leave, Drop
  <2>2. CBTypeOK'
    BY <1>a, <1>2 DEF Refuse, Leave, Drop, CBTypeOK, AttemptKinds
  <2> QED BY <2>1, <2>2
          DEF CBInv, HalfOpenMarked, ClosedBelowThreshold, ProbeFlagOnlyHalfOpen
<1>3. ASSUME NEW r \in Callers, RecordSuccess(r) PROVE CBInv'
  <2>1. CBTypeOK'
    BY <1>a, <1>3, CircuitClosure DEF RecordSuccess, CBTypeOK, AttemptKinds
  <2>2. circuit' = ClosedCircuit
    BY <1>3 DEF RecordSuccess, AfterSuccess
  <2> QED BY <2>1, <2>2
          DEF CBInv, HalfOpenMarked, ClosedBelowThreshold, ProbeFlagOnlyHalfOpen,
              ClosedCircuit
<1>4. ASSUME NEW r \in Callers, RecordFailure(r) PROVE CBInv'
  <2>1. CBTypeOK'
    BY <1>a, <1>4, CircuitClosure DEF RecordFailure, CBTypeOK, AttemptKinds
  <2>2. circuit' = AfterFailure(circuit)
    BY <1>4 DEF RecordFailure
  <2> QED BY <1>a, <2>1, <2>2, FailureOutcome
          DEF CBInv, HalfOpenMarked, ClosedBelowThreshold, ProbeFlagOnlyHalfOpen
<1>5. ASSUME Tick PROVE CBInv'
  <2>1. CBTypeOK'
    BY <1>a, <1>5, CircuitClosure DEF Tick, CBTypeOK
  <2>2. circuit'.state = "open" /\ circuit'.probe = circuit.probe
    BY <1>a, <1>5 DEF Tick, AfterTick, Circuits
  <2>3. circuit.state = "open"
    BY <1>5 DEF Tick
  <2> QED BY <2>1, <2>2, <2>3
          DEF CBInv, HalfOpenMarked, ClosedBelowThreshold, ProbeFlagOnlyHalfOpen
<1>6. ASSUME UNCHANGED cbVars PROVE CBInv'
  BY <1>6 DEF CBInv, CBTypeOK, HalfOpenMarked, ClosedBelowThreshold,
              ProbeFlagOnlyHalfOpen, cbVars
<1> QED BY <1>1, <1>2, <1>3, <1>4, <1>5, <1>6 DEF CBNext

\* The inductive invariant of the breaker, for every value of the constants.
THEOREM BreakerInvariant == CBSpec => []CBInv
<1> QED BY CBInitInv, CBNextInv, PTL DEF CBSpec

\* A half-open circuit comes to be without a probe in no other way than that
\* the probe's request ends and nobody reports its outcome: no report of another
\* request, no refusal and no passing of time takes the probe away.
THEOREM ProbeLostOnlyWhenDropped == CBSpec => ProbeLostOnlyByDrop
<1> DEFINE LostByDrop ==
      Stranded' =>
        /\ circuit' = circuit
        /\ Stranded \/ \E r \in Callers : attempt[r] = "probe" /\ attempt'[r] = "none"
<1>1. CBInv /\ [CBNext]_cbVars => [LostByDrop]_cbVars
  <2> SUFFICES ASSUME CBInv, CBNext, Stranded'
               PROVE  /\ circuit' = circuit
                      /\ \/ Stranded
                         \/ \E r \in Callers : attempt[r] = "probe" /\ attempt'[r] = "none"
    OBVIOUS
  <2>a. circuit \in Circuits /\ attempt \in [Callers -> AttemptKinds]
    BY DEF CBInv, CBTypeOK
  <2>b. circuit'.state = "half_open"
    BY DEF Stranded
  <2>1. ASSUME NEW r \in Callers, Allow(r) PROVE FALSE
    <3>1. CASE circuit.state = "closed"
      BY <2>1, <2>b, <3>1 DEF Allow, AfterAllow, Expired
    <3>2. CASE circuit.state # "closed"
      <4>1. circuit' = [circuit EXCEPT !.state = "half_open", !.probe = TRUE]
        BY <2>1, <3>2 DEF Allow, Allows, AfterAllow
      <4>2. attempt'[r] = "probe"
        BY <2>a, <2>1, <3>2 DEF Allow, KindAllowed
      <4>3. ProbeRunning'
        BY <2>a, <4>1, <4>2 DEF ProbeRunning, Circuits
      <4> QED BY <4>3 DEF Stranded
    <3> QED BY <3>1, <3>2
  <2>2. ASSUME NEW r \in Callers, RecordSuccess(r) \/ RecordFailure(r) PROVE FALSE
    BY <2>a, <2>b, <2>2, FailureOutcome
       DEF RecordSuccess, RecordFailure, AfterSuccess, ClosedCircuit
  <2>3. CASE Tick
    BY <2>a, <2>b, <2>3 DEF Tick, AfterTick, Circuits
  <2>4. ASSUME NEW r \in Callers, Refuse(r) \/ Leave(r) \/ Drop(r), attempt[r] # "probe"
        PROVE  circuit' = circuit /\ Stranded
    <3>1. circuit' = circuit
      BY <2>4 DEF Refuse, Leave, Drop
    <3>2. \A q \in Callers : attempt[q] = "probe" => attempt'[q] = "probe"
      BY <2>a, <2>4 DEF Refuse, Leave, Drop
    <3> QED BY <3>1, <3>2 DEF Stranded, ProbeRunning
  <2>5. ASSUME NEW r \in Callers, Refuse(r) \/ Leave(r) \/ Drop(r), attempt[r] = "probe"
        PROVE  circuit' = circuit /\ attempt'[r] = "none"
    BY <2>a, <2>5 DEF Refuse, Leave, Drop
  <2> QED BY <2>1, <2>2, <2>3, <2>4, <2>5 DEF CBNext
<1>2. CBSpec => [][LostByDrop]_cbVars
  BY <1>1, BreakerInvariant, PTL DEF CBSpec
<1> QED BY <1>2 DEF ProbeLostOnlyByDrop

\* A closed circuit has counted fewer failures than the threshold.
THEOREM ClosedIsHealthy == CBSpec => []ClosedBelowThreshold
<1>1. CBInv => ClosedBelowThreshold
  BY DEF CBInv
<1> QED BY <1>1, BreakerInvariant, PTL

\* Requests pass an open circuit only once recovery_timeout has elapsed, and
\* a half-open circuit admits no second request while it stays half-open.
THEOREM BreakerShelters == CBSpec => SheltersUpstream
<1> DEFINE Sheltered ==
      \A r \in Callers : AdmittedNow(r) =>
        /\ ~(circuit.state = "open" /\ circuit.openFor < RecoveryTimeout)
        /\ ~(circuit.state = "half_open")
<1>1. CBInv /\ [CBNext]_cbVars => [Sheltered]_cbVars
  <2> SUFFICES ASSUME CBInv, CBNext, NEW q \in Callers, AdmittedNow(q)
               PROVE  /\ ~(circuit.state = "open" /\ circuit.openFor < RecoveryTimeout)
                      /\ ~(circuit.state = "half_open")
    OBVIOUS
  <2>1. attempt \in [Callers -> AttemptKinds]
    BY DEF CBInv, CBTypeOK
  <2>2. Allow(q)
    BY <2>1 DEF CBNext, AdmittedNow, Allow, Refuse, Leave, RecordSuccess, RecordFailure,
                   Drop, Tick
  <2> QED BY <2>2 DEF Allow, Allows, Expired, CBInv, CBTypeOK, Circuits, HalfOpenMarked
<1>2. CBSpec => [][Sheltered]_cbVars
  BY <1>1, BreakerInvariant, PTL DEF CBSpec
<1> QED BY <1>2 DEF SheltersUpstream
=============================================================================
