------------------------- MODULE FinalizerChain_proofs -------------------------
(***************************************************************************)
(* What FinalizerChain promises of an attempt, proved for chains whose     *)
(* finalizers get along: the text reaches the client once and in order,    *)
(* calls arrive as the model made them, repeats are held back and nothing  *)
(* else is.                                                                *)
(*                                                                         *)
(* The invariant says of an attempt that goes on where each delta of text  *)
(* is (let out, in an open pseudo-call, in the tail) and where each call   *)
(* is (relayed, kept by the assembly, held by the stopper), and of one     *)
(* that has ended what came of it.                                         *)
(***************************************************************************)
EXTENDS FinalizerChain, SequenceTheorems, WellFoundedInduction, TLAPS

-----------------------------------------------------------------------------
(* Events one after the other.                                             *)

\* What is true of a list's places, and of the places of two lists joined.
LEMMA PlacesOfBoth ==
  ASSUME NEW S, NEW s \in Seq(S), NEW t \in Seq(S)
  PROVE  /\ s \o t \in Seq(S)
         /\ Len(s) \in Nat /\ DOMAIN s = 1 .. Len(s)
         /\ \A k \in DOMAIN s : k \in DOMAIN (s \o t) /\ (s \o t)[k] = s[k]
         /\ \A k \in DOMAIN t : Len(s) + k \in DOMAIN (s \o t) /\ (s \o t)[Len(s) + k] = t[k]
         /\ \A j \in DOMAIN (s \o t) : \/ j \in DOMAIN s
                                       \/ \E k \in DOMAIN t : j = Len(s) + k
<1>1. /\ s \o t \in Seq(S) /\ Len(s \o t) = Len(s) + Len(t)
      /\ \A k \in 1 .. Len(s) + Len(t) :
           (s \o t)[k] = IF k <= Len(s) THEN s[k] ELSE t[k - Len(s)]
  BY ConcatProperties
<1>2. /\ Len(s) \in Nat /\ DOMAIN s = 1 .. Len(s) /\ Len(t) \in Nat /\ DOMAIN t = 1 .. Len(t)
      /\ DOMAIN (s \o t) = 1 .. Len(s) + Len(t)
  BY <1>1, LenProperties
<1> DEFINE u == s \o t
<1> HIDE DEF u
<1>3. \A k \in DOMAIN s : k \in DOMAIN u /\ u[k] = s[k]
  BY <1>1, <1>2 DEF u
<1>4. \A k \in DOMAIN t : Len(s) + k \in DOMAIN u /\ u[Len(s) + k] = t[k]
  BY <1>1, <1>2 DEF u
<1>5. ASSUME NEW j \in DOMAIN u PROVE j \in DOMAIN s \/ \E k \in DOMAIN t : j = Len(s) + k
  <2>1. j \in 1 .. Len(s) + Len(t)
    BY <1>2 DEF u
  <2>2. CASE j <= Len(s)
    BY <1>2, <2>1, <2>2
  <2>3. CASE ~(j <= Len(s))
    <3>1. j - Len(s) \in DOMAIN t /\ j = Len(s) + (j - Len(s))
      BY <1>2, <2>1, <2>3
    <3>. QED
      BY <3>1
  <2>. QED
    BY <2>2, <2>3
<1>. QED
  BY <1>1, <1>2, <1>3, <1>4, <1>5 DEF u

LEMMA UnderBoth ==
  ASSUME NEW S, NEW s \in Seq(S), NEW t \in Seq(S), NEW i
  PROVE  Under(i, s \o t) = Under(i, s) \cup {Len(s) + k : k \in Under(i, t)}
<1> DEFINE u == s \o t
<1>1. /\ \A k \in DOMAIN s : k \in DOMAIN u /\ u[k] = s[k]
      /\ \A k \in DOMAIN t : Len(s) + k \in DOMAIN u /\ u[Len(s) + k] = t[k]
      /\ \A j \in DOMAIN u : j \in DOMAIN s \/ \E k \in DOMAIN t : j = Len(s) + k
  BY PlacesOfBoth
<1> HIDE DEF u
<1>2. Under(i, u) = Under(i, s) \cup {Len(s) + k : k \in Under(i, t)}
  BY <1>1 DEF Under
<1>. QED
  BY <1>2 DEF u

LEMMA IndicesUnder ==
  ASSUME NEW s, NEW i
  PROVE  i \in Indices(s) <=> Under(i, s) # {}
BY DEF Indices, Under

LEMMA IndicesBoth ==
  ASSUME NEW S, NEW s \in Seq(S), NEW t \in Seq(S)
  PROVE  Indices(s \o t) = Indices(s) \cup Indices(t)
<1>1. ASSUME NEW i PROVE i \in Indices(s \o t) <=> i \in Indices(s) \/ i \in Indices(t)
  <2>1. Under(i, s \o t) = Under(i, s) \cup {Len(s) + k : k \in Under(i, t)}
    BY UnderBoth
  <2>2. Under(i, s \o t) # {} <=> Under(i, s) # {} \/ Under(i, t) # {}
    BY <2>1
  <2>. QED
    BY <2>2, IndicesUnder
<1>. QED
  BY <1>1

\* A call stays as it is when what comes after has nothing of it, or when what
\* came before has nothing of it.
LEMMA CarriesFirst ==
  ASSUME NEW S, NEW s \in Seq(S), NEW t \in Seq(S), NEW i, NEW call,
         Under(i, t) = {}, Carries(s, i, call)
  PROVE  Carries(s \o t, i, call)
<1> DEFINE u == s \o t
<1>1. Under(i, u) = Under(i, s)
  <2>1. Under(i, u) = Under(i, s) \cup {Len(s) + k : k \in Under(i, t)}
    BY UnderBoth
  <2>. QED
    BY <2>1
<1>2. \A k \in Under(i, s) : u[k] = s[k]
  BY PlacesOfBoth DEF Under
<1> HIDE DEF u
<1>3. Carries(u, i, call)
  BY <1>1, <1>2 DEF Carries
<1>. QED
  BY <1>3 DEF u

LEMMA CarriesSecond ==
  ASSUME NEW S, NEW s \in Seq(S), NEW t \in Seq(S), NEW i, NEW call,
         Under(i, s) = {}, Carries(t, i, call)
  PROVE  Carries(s \o t, i, call)
<1> DEFINE u == s \o t
           n == Len(s)
<1>1. Under(i, u) = {n + k : k \in Under(i, t)}
  BY UnderBoth
<1>2. \A k \in Under(i, t) : u[n + k] = t[k] /\ k \in Nat
  <2>1. DOMAIN t = 1 .. Len(t) /\ Len(t) \in Nat
    BY LenProperties
  <2>. QED
    BY <2>1, PlacesOfBoth DEF Under
<1>3. n \in Nat
  BY PlacesOfBoth
<1> HIDE DEF u, n
<1>4. PICK first \in Under(i, t), at \in Under(i, t) :
         /\ t[first].name = call.name
         /\ \A k \in Under(i, t) \ {first} : first < k /\ t[k].name = "none"
         /\ t[at].pieces = call.pieces
         /\ \A k \in Under(i, t) \ {at} : t[k].pieces = <<>>
  BY DEF Carries
<1>5. n + first \in Under(i, u) /\ n + at \in Under(i, u)
  BY <1>1
<1>6. u[n + first].name = call.name /\ u[n + at].pieces = call.pieces
  BY <1>2, <1>4
<1>7. ASSUME NEW j \in Under(i, u) \ {n + first} PROVE n + first < j /\ u[j].name = "none"
  <2>1. PICK k \in Under(i, t) : j = n + k
    BY <1>1
  <2>2. k \in Under(i, t) \ {first}
    BY <2>1
  <2>3. first < k /\ first \in Nat /\ k \in Nat /\ t[k].name = "none"
    BY <1>2, <1>4, <2>2
  <2>4. n + first < n + k
    BY <1>3, <2>3
  <2>. QED
    BY <1>2, <2>1, <2>3, <2>4
<1>8. ASSUME NEW j \in Under(i, u) \ {n + at} PROVE u[j].pieces = <<>>
  <2>1. PICK k \in Under(i, t) : j = n + k
    BY <1>1
  <2>2. k \in Under(i, t) \ {at}
    BY <2>1
  <2>. QED
    BY <1>2, <1>4, <2>1, <2>2
<1>9. Carries(u, i, call)
  BY <1>5, <1>6, <1>7, <1>8 DEF Carries
<1>. QED
  BY <1>9 DEF u

LEMMA SaidBoth ==
  ASSUME NEW S, NEW s \in Seq(S), NEW t \in Seq(S)
  PROVE  Said(s \o t) = Said(s) \cup {Len(s) + k : k \in Said(t)}
<1> DEFINE u == s \o t
<1>1. /\ \A k \in DOMAIN s : k \in DOMAIN u /\ u[k] = s[k]
      /\ \A k \in DOMAIN t : Len(s) + k \in DOMAIN u /\ u[Len(s) + k] = t[k]
      /\ \A j \in DOMAIN u : j \in DOMAIN s \/ \E k \in DOMAIN t : j = Len(s) + k
  BY PlacesOfBoth
<1> HIDE DEF u
<1>2. Said(u) = Said(s) \cup {Len(s) + k : k \in Said(t)}
  BY <1>1 DEF Said
<1>. QED
  BY <1>2 DEF u

\* Text goes on with later deltas.
LEMMA ListsBoth ==
  ASSUME NEW S, NEW s \in Seq(S), NEW t \in Seq(S), NEW A, NEW B,
         Lists(s, A), Lists(t, B), \A a \in A, b \in B : a < b
  PROVE  Lists(s \o t, A \cup B)
<1> DEFINE u == s \o t
           n == Len(s)
<1>1. Said(u) = Said(s) \cup {n + k : k \in Said(t)}
  BY SaidBoth
<1>2. \A k \in Said(s) : u[k] = s[k] /\ k \in 1 .. n
  BY PlacesOfBoth DEF Said
<1>3. \A k \in Said(t) : u[n + k] = t[k] /\ k \in Nat \ {0}
  <2>1. DOMAIN t = 1 .. Len(t) /\ Len(t) \in Nat
    BY LenProperties
  <2>. QED
    BY <2>1, PlacesOfBoth DEF Said
<1>4. n \in Nat
  BY PlacesOfBoth
<1> HIDE DEF u, n
<1>5. {u[k].id : k \in Said(u)} = A \cup B
  <2>1. {s[k].id : k \in Said(s)} = A /\ {t[k].id : k \in Said(t)} = B
    BY DEF Lists
  <2>2. ASSUME NEW k \in Said(u) PROVE u[k].id \in A \cup B
    <3>1. CASE k \in Said(s)
      BY <1>2, <2>1, <3>1
    <3>2. CASE k \notin Said(s)
      <4>1. PICK j \in Said(t) : k = n + j
        BY <1>1, <3>2
      <4>. QED
        BY <1>3, <2>1, <4>1
    <3>. QED
      BY <3>1, <3>2
  <2>3. ASSUME NEW a \in A PROVE \E k \in Said(u) : u[k].id = a
    <3>1. PICK k \in Said(s) : s[k].id = a
      BY <2>1
    <3>. QED
      BY <1>1, <1>2, <3>1
  <2>4. ASSUME NEW b \in B PROVE \E k \in Said(u) : u[k].id = b
    <3>1. PICK k \in Said(t) : t[k].id = b
      BY <2>1
    <3>. QED
      BY <1>1, <1>3, <3>1
  <2>. QED
    BY <2>2, <2>3, <2>4
<1>6. ASSUME NEW j \in Said(u), NEW k \in Said(u), j < k PROVE u[j].id < u[k].id
  <2>1. CASE j \in Said(s) /\ k \in Said(s)
    BY <1>2, <1>6, <2>1 DEF Lists
  <2>2. CASE j \in Said(s) /\ k \notin Said(s)
    <3>1. PICK m \in Said(t) : k = n + m
      BY <1>1, <2>2
    <3>2. s[j].id \in A /\ t[m].id \in B
      BY <2>2 DEF Lists
    <3>. QED
      BY <1>2, <1>3, <2>2, <3>1, <3>2
  <2>3. CASE j \notin Said(s) /\ k \in Said(s)
    <3>1. PICK m \in Said(t) : j = n + m
      BY <1>1, <2>3
    <3>2. k \in 1 .. n /\ m \in Nat \ {0}
      BY <1>2, <1>3, <2>3
    <3>. QED
      BY <1>4, <1>6, <3>1, <3>2
  <2>4. CASE j \notin Said(s) /\ k \notin Said(s)
    <3>1. PICK m \in Said(t) : k = n + m
      BY <1>1, <2>4
    <3>2. PICK l \in Said(t) : j = n + l
      BY <1>1, <2>4
    <3>3. l < m
      BY <1>3, <1>4, <1>6, <3>1, <3>2
    <3>. QED
      BY <1>3, <3>1, <3>2, <3>3 DEF Lists
  <2>. QED
    BY <2>1, <2>2, <2>3, <2>4
<1>7. Lists(u, A \cup B)
  BY <1>5, <1>6 DEF Lists
<1>. QED
  BY <1>7 DEF u

-----------------------------------------------------------------------------
(* Single events.                                                          *)

LEMMA OneEvent ==
  ASSUME NEW e
  PROVE  /\ DOMAIN <<e>> = {1} /\ <<e>>[1] = e
         /\ e.kind = "text" => /\ \A i : Under(i, <<e>>) = {}
                               /\ Indices(<<e>>) = {} /\ Lists(<<e>>, {e.id})
         /\ e.kind # "text" => /\ Indices(<<e>>) = {e.index} /\ Lists(<<e>>, {})
                               /\ \A i : i # e.index => Under(i, <<e>>) = {}
                               /\ Carries(<<e>>, e.index, e)
<1> DEFINE s == <<e>>
<1>1. DOMAIN s = {1} /\ s[1] = e
  OBVIOUS
<1> HIDE DEF s
<1>2. ASSUME e.kind = "text"
      PROVE  (\A i : Under(i, s) = {}) /\ Indices(s) = {} /\ Lists(s, {e.id})
  <2>1. Said(s) = {1}
    BY <1>1, <1>2 DEF Said
  <2>. QED
    BY <1>1, <1>2, <2>1 DEF Under, Indices, Lists
<1>3. ASSUME e.kind # "text"
      PROVE  /\ Indices(s) = {e.index} /\ Lists(s, {})
             /\ \A i : i # e.index => Under(i, s) = {}
             /\ Carries(s, e.index, e)
  <2>1. Said(s) = {} /\ Under(e.index, s) = {1}
    BY <1>1, <1>3 DEF Said, Under
  <2>2. Indices(s) = {e.index} /\ Lists(s, {})
    BY <1>1, <1>3, <2>1 DEF Indices, Lists
  <2>3. \A i : i # e.index => Under(i, s) = {}
    BY <1>1 DEF Under
  <2>4. Carries(s, e.index, e)
    BY <1>1, <2>1 DEF Carries
  <2>. QED
    BY <2>2, <2>3, <2>4
<1>. QED
  BY <1>1, <1>2, <1>3 DEF s

-----------------------------------------------------------------------------
(* Recursion on numbers.                                                   *)

\* A set of naturals that is not empty has a least element.
LEMMA LeastNumber ==
  ASSUME NEW T \in SUBSET Nat, T # {}
  PROVE  \E x \in T : \A y \in T : x <= y
<1>1. PICK x \in T : \A y \in T : ~(<<y, x>> \in OpToRel(<, Nat))
  BY WFMin, NatLessThanWellFounded, ZenonT(60)
<1>2. \A y \in T : ~(y < x)
  BY <1>1, Zenon DEF OpToRel
<1>. QED
  BY <1>2

\* What a loop has computed after each of its rounds 1 .. N.
Results(N, V, init, step, f) ==
  f \in [0 .. N -> V] /\ f[0] = init /\ \A k \in 1 .. N : f[k] = step[k][f[k - 1]]

LEMMA LoopHasResults ==
  ASSUME NEW N \in Nat, NEW V, NEW init \in V, NEW step \in [1 .. N -> [V -> V]]
  PROVE  \E f : Results(N, V, init, step, f)
<1> DEFINE Upto(n, f) == f \in [0 .. n -> V] /\ f[0] = init /\ \A k \in 1 .. n : f[k] = step[k][f[k - 1]]
           T == {n \in Nat : n <= N /\ ~\E f : Upto(n, f)}
<1>1. ASSUME T # {} PROVE FALSE
  <2>1. PICK n \in T : \A y \in T : n <= y
    <3> HIDE DEF T
    <3>1. T \in SUBSET Nat
      BY DEF T
    <3>. QED
      BY <1>1, <3>1, LeastNumber
  <2>2. CASE n = 0
    <3>1. Upto(0, [k \in 0 .. 0 |-> init])
      OBVIOUS
    <3>. QED
      BY <2>1, <2>2, <3>1
  <2>3. CASE n # 0
    <3>1. n - 1 \in Nat /\ n - 1 \notin T /\ n - 1 <= N /\ n \in 1 .. N
      <4>1. n \in Nat /\ n <= N
        BY <2>1
      <4> HIDE DEF T
      <4>. QED
        BY <2>1, <2>3, <4>1
    <3>2. PICK f : Upto(n - 1, f)
      BY <3>1
    <3> DEFINE last == step[n][f[n - 1]]
               g == [k \in 0 .. n |-> IF k = n THEN last ELSE f[k]]
    <3>3. last \in V
      BY <3>1, <3>2
    <3> HIDE DEF last
    <3>4. g \in [0 .. n -> V] /\ g[0] = init
      BY <3>1, <3>2, <3>3
    <3>5. \A k \in 1 .. n : g[k] = step[k][g[k - 1]]
      <4> TAKE k \in 1 .. n
      <4>1. CASE k = n
        <5>1. g[k] = last /\ g[k - 1] = f[k - 1]
          BY <3>1, <4>1
        <5>. QED
          BY <4>1, <5>1 DEF last
      <4>2. CASE k # n
        <5>1. k \in 1 .. n - 1 /\ g[k] = f[k] /\ g[k - 1] = f[k - 1]
          BY <3>1, <4>2
        <5>. QED
          BY <3>2, <5>1
      <4>. QED
        BY <4>1, <4>2
    <3>. QED
      BY <2>1, <3>4, <3>5
  <2>. QED
    BY <2>2, <2>3
<1>2. N \notin T
  BY <1>1
<1>. QED
  BY <1>2 DEF Results

\* What every round of a loop keeps holds after each of them.
Stays(N, V, f) == f[0] \in V /\ \A k \in 1 .. N : f[k - 1] \in V => f[k] \in V

LEMMA LoopStays ==
  ASSUME NEW N \in Nat, NEW V, NEW f, Stays(N, V, f)
  PROVE  \A k \in 0 .. N : f[k] \in V
<1> DEFINE T == {k \in Nat : k <= N /\ f[k] \notin V}
<1>1. ASSUME T # {} PROVE FALSE
  <2>1. PICK k \in T : \A y \in T : k <= y
    <3> HIDE DEF T
    <3>1. T \in SUBSET Nat
      BY DEF T
    <3>. QED
      BY <1>1, <3>1, LeastNumber
  <2>2. k \in Nat /\ k <= N /\ f[k] \notin V /\ k # 0
    BY <2>1 DEF Stays
  <2>3. k - 1 \in Nat /\ k - 1 \notin T /\ k - 1 <= N /\ k \in 1 .. N
    <3> HIDE DEF T
    <3>. QED
      BY <2>1, <2>2
  <2>. QED
    BY <2>2, <2>3 DEF Stays
<1>. QED
  BY <1>1

\* A set of the numbers up to n that has 0, and with every number the next, has
\* them all.
LEMMA Reaches ==
  ASSUME NEW n \in Nat, NEW T, 0 \in T, \A j \in 1 .. n : j - 1 \in T => j \in T
  PROVE  \A j \in 0 .. n : j \in T
<1> DEFINE U == {j \in Nat : j <= n /\ j \notin T}
<1>1. ASSUME U # {} PROVE FALSE
  <2>1. PICK j \in U : \A y \in U : j <= y
    <3> HIDE DEF U
    <3>1. U \in SUBSET Nat
      BY DEF U
    <3>. QED
      BY <1>1, <3>1, LeastNumber
  <2>2. j - 1 \in Nat /\ j - 1 \notin U /\ j \in 1 .. n
    BY <2>1
  <2>. QED
    BY <2>1, <2>2
<1>. QED
  BY <1>1

-----------------------------------------------------------------------------
(* What is let out at the end.                                             *)

TextEvents == [kind : {"text"}, id : Nat]
CallEvents == [kind : {"delta", "complete"}, index : Nat, name : Names \cup {"none"}, pieces : Seq(Pieces)]
Events == TextEvents \cup CallEvents

\* The events of a list are calls, and of one index only.
OfOne(events, i, call) ==
  /\ events \in Seq(CallEvents)
  /\ Indices(events) = {i} /\ Lists(events, {}) /\ Carries(events, i, call)

Calls == [name : Names, pieces : Seq(Pieces)]

LEMMA CarriesAlike ==
  ASSUME NEW events, NEW i, NEW call, NEW other, Carries(events, i, call),
         call.name = other.name, call.pieces = other.pieces
  PROVE  Carries(events, i, other)
BY DEF Carries

LEMMA TextsInOrder ==
  ASSUME NEW ids \in Seq(Nat), \A i, j \in DOMAIN ids : i < j => ids[i] < ids[j]
  PROVE  /\ Texts(ids) \in Seq(TextEvents)
         /\ Lists(Texts(ids), Range(ids))
         /\ Indices(Texts(ids)) = {}
         /\ ~\E k \in DOMAIN Texts(ids) : Texts(ids)[k].kind # "text"
<1> DEFINE s == Texts(ids)
<1>1. DOMAIN ids = 1 .. Len(ids) /\ Len(ids) \in Nat
  BY LenProperties
<1>2. DOMAIN s = DOMAIN ids /\ \A k \in DOMAIN ids : s[k] = [kind |-> "text", id |-> ids[k]] /\ ids[k] \in Nat
  BY <1>1, ElementOfSeq DEF Texts, Text
<1>3. s \in Seq(TextEvents)
  <2>1. s = [k \in 1 .. Len(ids) |-> s[k]]
    BY <1>1 DEF Texts
  <2>2. \A k \in 1 .. Len(ids) : s[k] \in TextEvents
    BY <1>1, <1>2 DEF TextEvents
  <2> HIDE DEF s
  <2>. QED
    BY <1>1, <2>1, <2>2, IsASeq
<1> HIDE DEF s
<1>4. DOMAIN s = DOMAIN ids /\ \A k \in DOMAIN ids : s[k].kind = "text" /\ s[k].id = ids[k]
  BY <1>2
<1>5. Said(s) = DOMAIN ids
  BY <1>4 DEF Said
<1>6. Lists(s, Range(ids))
  BY <1>4, <1>5 DEF Lists, Range
<1>7. Indices(s) = {}
  BY <1>4 DEF Indices
<1>. QED
  BY <1>3, <1>4, <1>6, <1>7 DEF s

ValidRule(calls, v) ==
  [k \in 0 .. Len(calls) |->
     IF k = 0 THEN <<>>
     ELSE IF IsJson(calls[k].pieces) THEN Append(v[k - 1], Assembled(k, calls[k]))
     ELSE v[k - 1]]

\* The valid calls among the first ones.
Valids(calls, v) ==
  /\ v \in [0 .. Len(calls) -> Seq(CallEvents)] /\ v[0] = <<>>
  /\ \A k \in 1 .. Len(calls) : v[k] = IF IsJson(calls[k].pieces)
                                      THEN Append(v[k - 1], Assembled(k, calls[k]))
                                      ELSE v[k - 1]
  /\ ValidOnly(calls) = v[Len(calls)]

LEMMA ValidsInSteps ==
  ASSUME NEW calls \in Seq(Calls)
  PROVE  \E v : Valids(calls, v)
<1> DEFINE N == Len(calls)
           V == Seq(CallEvents)
           step == [k \in 1 .. N |-> [m \in V |-> IF IsJson(calls[k].pieces)
                                                  THEN Append(m, Assembled(k, calls[k])) ELSE m]]
<1>1. N \in Nat /\ \A k \in 1 .. N : calls[k] \in Calls
  BY LenProperties, ElementOfSeq
<1>2. <<>> \in V
  OBVIOUS
<1>3. \A k \in 1 .. N : Assembled(k, calls[k]) \in CallEvents
  <2> TAKE k \in 1 .. N
  <2>1. k \in Nat /\ calls[k].name \in Names /\ calls[k].pieces \in Seq(Pieces)
    BY <1>1 DEF Calls
  <2>. QED
    BY <2>1 DEF Assembled, CallEvents
<1>4. step \in [1 .. N -> [V -> V]]
  <2>1. \A k \in 1 .. N : \A m \in V : Append(m, Assembled(k, calls[k])) \in V
    BY <1>3, AppendProperties
  <2> HIDE DEF N, V
  <2>. QED
    BY <2>1
<1> HIDE DEF N, V, step
<1>5. PICK f : Results(N, V, <<>>, step, f)
  BY <1>1, <1>2, <1>4, LoopHasResults
<1>6. f = ValidRule(calls, f)
  <2>1. \A k \in 1 .. N : f[k] = IF IsJson(calls[k].pieces) THEN Append(f[k - 1], Assembled(k, calls[k]))
                                 ELSE f[k - 1]
    <3> TAKE k \in 1 .. N
    <3>1. f[k - 1] \in V
      BY <1>1, <1>5 DEF Results
    <3>. QED
      BY <1>5, <3>1 DEF step, Results
  <2>2. f = [k \in 0 .. N |-> f[k]]
    BY <1>5 DEF Results
  <2>3. \A k \in 0 .. N : k = 0 \/ k \in 1 .. N
    BY <1>1
  <2>. QED
    BY <1>5, <2>1, <2>2, <2>3 DEF ValidRule, N, Results
<1> DEFINE g == CHOOSE x : x = ValidRule(calls, x)
<1>7. g = ValidRule(calls, g)
  BY <1>6
<1>8. ValidOnly(calls) = g[N]
  BY DEF ValidOnly, ValidRule, N
<1> HIDE DEF g
<1>9. g[0] = <<>> /\ \A k \in 1 .. N : g[k] = IF IsJson(calls[k].pieces)
                                             THEN Append(g[k - 1], Assembled(k, calls[k]))
                                             ELSE g[k - 1]
  <2>1. \A k \in 0 .. N : g[k] = IF k = 0 THEN <<>>
                                 ELSE IF IsJson(calls[k].pieces) THEN Append(g[k - 1], Assembled(k, calls[k]))
                                 ELSE g[k - 1]
    BY <1>7 DEF ValidRule, N
  <2>2. 0 \in 0 .. N /\ \A k \in 1 .. N : k \in 0 .. N /\ k # 0
    BY <1>1
  <2>. QED
    BY <2>1, <2>2
<1>10. \A k \in 0 .. N : g[k] \in V
  <2>1. ASSUME NEW k \in 1 .. N, g[k - 1] \in V PROVE g[k] \in V
    BY <1>3, <1>9, <2>1, AppendProperties DEF V
  <2>2. Stays(N, V, g)
    BY <1>2, <1>9, <2>1 DEF Stays
  <2>. QED
    BY <1>1, <2>2, LoopStays
<1>11. g = [k \in 0 .. N |-> g[k]]
  BY <1>7 DEF ValidRule, N
<1>12. g \in [0 .. N -> V]
  BY <1>10, <1>11
<1>. QED
  BY <1>8, <1>9, <1>12 DEF Valids, N, V

\* The valid calls are delivered whole, the others not at all.
LEMMA ValidCalls ==
  ASSUME NEW calls \in Seq(Calls)
  PROVE  /\ ValidOnly(calls) \in Seq(CallEvents) /\ Lists(ValidOnly(calls), {})
         /\ Indices(ValidOnly(calls)) = {i \in 1 .. Len(calls) : IsJson(calls[i].pieces)}
         /\ \A i \in Indices(ValidOnly(calls)) : Carries(ValidOnly(calls), i, calls[i])
<1> DEFINE N == Len(calls)
<1>1. N \in Nat /\ \A k \in 1 .. N : calls[k] \in Calls
  BY LenProperties, ElementOfSeq
<1>2. PICK v : Valids(calls, v)
  BY ValidsInSteps
<1> DEFINE Json(k) == {i \in 1 .. k : IsJson(calls[i].pieces)}
           T == {k \in 0 .. N : /\ Lists(v[k], {}) /\ Indices(v[k]) = Json(k)
                                /\ \A i \in Json(k) : Carries(v[k], i, calls[i])}
<1>3. 0 \in T
  <2>1. v[0] = <<>> /\ Json(0) = {} /\ 0 \in 0 .. N
    BY <1>1, <1>2 DEF Valids
  <2>2. Lists(<<>>, {}) /\ Indices(<<>>) = {}
    BY DEF Lists, Said, Indices
  <2>. QED
    BY <2>1, <2>2
<1>4. ASSUME NEW k \in 1 .. N, k - 1 \in T PROVE k \in T
  <2> DEFINE e == Assembled(k, calls[k])
             s == v[k - 1]
  <2>1. /\ s \in Seq(CallEvents) /\ Lists(s, {}) /\ Indices(s) = Json(k - 1)
        /\ \A i \in Json(k - 1) : Carries(s, i, calls[i])
    <3>1. k - 1 \in 0 .. N
      BY <1>1
    <3>. QED
      BY <1>2, <1>4, <3>1 DEF Valids
  <2>2. e \in CallEvents /\ e.index = k /\ e.kind # "text" /\ e.name = calls[k].name /\ e.pieces = calls[k].pieces
    <3>1. k \in Nat /\ calls[k].name \in Names /\ calls[k].pieces \in Seq(Pieces)
      BY <1>1 DEF Calls
    <3>. QED
      BY <3>1 DEF Assembled, CallEvents
  <2>3. CASE ~IsJson(calls[k].pieces)
    <3>1. v[k] = s /\ Json(k) = Json(k - 1) /\ k \in 0 .. N
      BY <1>1, <1>2, <2>3 DEF Valids
    <3> HIDE DEF s, Json
    <3>. QED
      BY <2>1, <3>1
  <2>4. CASE IsJson(calls[k].pieces)
    <3> HIDE DEF e
    <3>1. v[k] = s \o <<e>> /\ <<e>> \in Seq(CallEvents)
      <4>1. v[k] = Append(s, e)
        BY <1>2, <2>4 DEF Valids, e
      <4>. QED
        BY <2>1, <2>2, <4>1, AppendIsConcat
    <3>2. Json(k) = Json(k - 1) \cup {k} /\ k \notin Json(k - 1) /\ k \in 0 .. N
      BY <1>1, <2>4
    <3>3. Indices(<<e>>) = {k} /\ Lists(<<e>>, {}) /\ Carries(<<e>>, k, e)
      BY <2>2, OneEvent
    <3> HIDE DEF Json
    <3>4. Indices(v[k]) = Json(k)
      <4> HIDE DEF s
      <4>1. Indices(s \o <<e>>) = Indices(s) \cup Indices(<<e>>)
        <5>1. s \in Seq(CallEvents) /\ <<e>> \in Seq(CallEvents)
          BY <2>1, <3>1
        <5>. QED
          BY <5>1, IndicesBoth
      <4>. QED
        BY <2>1, <3>1, <3>2, <3>3, <4>1
    <3>5. Lists(v[k], {})
      <4>1. Lists(s \o <<e>>, {} \cup {})
        BY <2>1, <3>1, <3>3, ListsBoth
      <4>. QED
        BY <3>1, <4>1
    <3>6. ASSUME NEW i \in Json(k) PROVE Carries(v[k], i, calls[i])
      <4>1. CASE i = k
        <5>1. Under(k, s) = {}
          BY <2>1, <3>2, IndicesUnder
        <5>2. Carries(<<e>>, k, calls[k])
          BY <2>2, <3>3, CarriesAlike
        <5>. QED
          BY <2>1, <3>1, <4>1, <5>1, <5>2, CarriesSecond
      <4>2. CASE i # k
        <5>1. i \in Json(k - 1)
          BY <3>2, <4>2
        <5>2. Under(i, <<e>>) = {}
          BY <3>3, <4>2, IndicesUnder
        <5>. QED
          BY <2>1, <3>1, <5>1, <5>2, CarriesFirst
      <4>. QED
        BY <4>1, <4>2
    <3>. QED
      BY <3>2, <3>4, <3>5, <3>6
  <2>. QED
    BY <2>3, <2>4
<1>5. N \in T
  <2> HIDE DEF T
  <2>1. \A k \in 0 .. N : k \in T
    BY <1>1, <1>3, <1>4, Reaches
  <2>. QED
    BY <1>1, <2>1
<1>6. ValidOnly(calls) = v[N] /\ v[N] \in Seq(CallEvents)
  BY <1>1, <1>2 DEF Valids
<1>. QED
  BY <1>5, <1>6

-----------------------------------------------------------------------------
(* What the stopper makes of the calls it holds.                           *)

Held == [name : Names, pieces : Seq(Pieces), events : Seq(CallEvents),
         state : {"pending", "accepted"}]

\* The signatures a call is compared with.
Compared(gate) == {HistorySignature} \cup {Signature(gate[j]) : j \in DOMAIN gate}
VerdictsOn(gate) == [prior : Compared(gate), repeats : BOOLEAN, released : Seq(CallEvents)]
NoVerdict == [prior |-> HistorySignature, repeats |-> FALSE, released |-> <<>>]

VerdictRule(gate, v) ==
  [k \in 0 .. Len(gate) |-> IF k = 0 THEN NoVerdict ELSE Resolve(v[k - 1], gate[k])]

\* The verdict after each call.
Verdicts(f, v) ==
  /\ v \in [0 .. Len(f.gate) -> VerdictsOn(f.gate)] /\ v[0] = NoVerdict
  /\ \A k \in 1 .. Len(f.gate) : v[k] = Resolve(v[k - 1], f.gate[k])
  /\ GateVerdict(f) = v[Len(f.gate)]

LEMMA ResolveTyped ==
  ASSUME NEW gate \in Seq(Held), NEW k \in DOMAIN gate, NEW r \in VerdictsOn(gate)
  PROVE  Resolve(r, gate[k]) \in VerdictsOn(gate)
<1> DEFINE sig == Signature(gate[k])
           P == Compared(gate)
<1>1. sig \in P
  BY DEF Compared
<1>2. gate[k].events \in Seq(CallEvents)
  <2>1. gate[k] \in Held
    BY ElementOfSeq
  <2>. QED
    BY <2>1 DEF Held
<1>3. r.prior \in P /\ r.repeats \in BOOLEAN /\ r.released \in Seq(CallEvents)
  BY DEF VerdictsOn
<1>4. r.released \o gate[k].events \in Seq(CallEvents)
  BY <1>2, <1>3, ConcatProperties
<1> DEFINE S == Seq(CallEvents)
           more == r.released \o gate[k].events
<1> HIDE DEF sig, P, S, more
<1>5. r \in [prior : P, repeats : BOOLEAN, released : S]
  BY DEF VerdictsOn, P, S
<1>6. /\ [r EXCEPT !.repeats = TRUE] \in [prior : P, repeats : BOOLEAN, released : S]
      /\ [r EXCEPT !.prior = sig] \in [prior : P, repeats : BOOLEAN, released : S]
      /\ [r EXCEPT !.prior = sig, !.released = more] \in [prior : P, repeats : BOOLEAN, released : S]
  BY <1>1, <1>4, <1>5 DEF S, more
<1>7. \/ Resolve(r, gate[k]) = r
      \/ Resolve(r, gate[k]) = [r EXCEPT !.repeats = TRUE]
      \/ Resolve(r, gate[k]) = [r EXCEPT !.prior = sig]
      \/ Resolve(r, gate[k]) = [r EXCEPT !.prior = sig, !.released = more]
  BY DEF Resolve, sig, more
<1>. QED
  BY <1>5, <1>6, <1>7 DEF VerdictsOn, P, S

LEMMA VerdictInSteps ==
  ASSUME NEW f, f.gate \in Seq(Held)
  PROVE  \E v : Verdicts(f, v)
<1> DEFINE gate == f.gate
           N == Len(gate)
           V == VerdictsOn(gate)
           step == [k \in 1 .. N |-> [r \in V |-> Resolve(r, gate[k])]]
<1>1. N \in Nat /\ DOMAIN gate = 1 .. N
  BY LenProperties
<1>2. NoVerdict \in V
  BY DEF NoVerdict, VerdictsOn, Compared
<1>3. \A k \in 1 .. N : \A r \in V : Resolve(r, gate[k]) \in V
  BY <1>1, ResolveTyped
<1>4. step \in [1 .. N -> [V -> V]]
  <2> HIDE DEF N, V, gate
  <2>. QED
    BY <1>3
<1>a. GateVerdict(f) = (CHOOSE x : x = VerdictRule(gate, x))[N]
  BY DEF GateVerdict, VerdictRule, NoVerdict
<1> HIDE DEF N, V, step
<1>5. PICK h : Results(N, V, NoVerdict, step, h)
  BY <1>1, <1>2, <1>4, LoopHasResults
<1>6. h = VerdictRule(gate, h)
  <2>1. \A k \in 1 .. N : h[k] = Resolve(h[k - 1], gate[k])
    <3> TAKE k \in 1 .. N
    <3>1. h[k - 1] \in V
      BY <1>1, <1>5 DEF Results
    <3>. QED
      BY <1>5, <3>1 DEF step, Results
  <2>2. h = [k \in 0 .. N |-> h[k]]
    BY <1>5 DEF Results
  <2>3. \A k \in 0 .. N : k = 0 \/ k \in 1 .. N
    BY <1>1
  <2>. QED
    BY <1>5, <2>1, <2>2, <2>3 DEF VerdictRule, N, Results
<1> DEFINE g == CHOOSE x : x = VerdictRule(gate, x)
<1>7. g = VerdictRule(gate, g)
  BY <1>6
<1>8. GateVerdict(f) = g[N]
  BY <1>a
<1> HIDE DEF g
<1>9. g[0] = NoVerdict /\ \A k \in 1 .. N : g[k] = Resolve(g[k - 1], gate[k])
  <2>1. \A k \in 0 .. N : g[k] = IF k = 0 THEN NoVerdict ELSE Resolve(g[k - 1], gate[k])
    BY <1>7 DEF VerdictRule, N
  <2>2. 0 \in 0 .. N /\ \A k \in 1 .. N : k \in 0 .. N /\ k # 0
    BY <1>1
  <2>. QED
    BY <2>1, <2>2
<1>10. \A k \in 0 .. N : g[k] \in V
  <2>1. ASSUME NEW k \in 1 .. N, g[k - 1] \in V PROVE g[k] \in V
    BY <1>3, <1>9, <2>1
  <2>2. Stays(N, V, g)
    BY <1>2, <1>9, <2>1 DEF Stays
  <2>. QED
    BY <1>1, <2>2, LoopStays
<1>11. g = [k \in 0 .. N |-> g[k]]
  BY <1>7 DEF VerdictRule, N
<1>12. g \in [0 .. N -> V]
  BY <1>10, <1>11
<1>. QED
  BY <1>8, <1>9, <1>12 DEF Verdicts, N, V

\* A call is let go of when it is held, complete and other than the one before.
Freed(gate, prior) ==
  {i \in DOMAIN gate : /\ gate[i].state = "pending" /\ IsJson(gate[i].pieces)
                       /\ Signature(gate[i]) # prior[i - 1]}

\* The signature that each call is compared with is the one before it.
Priors(gate, prior) ==
  /\ prior[0] = HistorySignature
  /\ \A k \in DOMAIN gate : IsJson(gate[k].pieces) => prior[k] = Signature(gate[k])
  /\ \A k \in 0 .. Len(gate) : \/ prior[k] = HistorySignature
                               \/ \E j \in 1 .. k : /\ IsJson(gate[j].pieces)
                                                    /\ prior[k] = Signature(gate[j])

Found(gate, prior, repeats) ==
  repeats => \E i \in DOMAIN gate : IsJson(gate[i].pieces) /\ Signature(gate[i]) = prior[i - 1]

LetOut(gate, prior, released) ==
  /\ released \in Seq(CallEvents) /\ Lists(released, {})
  /\ Indices(released) = Freed(gate, prior)
  /\ \A i \in Freed(gate, prior) : Carries(released, i, gate[i])

\* What one call adds.
LEMMA ResolveEffect ==
  ASSUME NEW r, NEW call, DOMAIN r = {"prior", "repeats", "released"}
  PROVE  LET h == Resolve(r, call)
             same == Signature(call) = r.prior
         IN  /\ h.prior = IF IsJson(call.pieces) THEN Signature(call) ELSE r.prior
             /\ h.repeats => r.repeats \/ (IsJson(call.pieces) /\ same)
             /\ h.released = IF IsJson(call.pieces) /\ ~same /\ call.state # "accepted"
                             THEN r.released \o call.events ELSE r.released
<1> DEFINE sig == Signature(call)
<1> HIDE DEF sig
<1>1. CASE ~IsJson(call.pieces)
  BY <1>1 DEF Resolve
<1>2. CASE IsJson(call.pieces) /\ sig = r.prior
  <2>1. Resolve(r, call) = [r EXCEPT !.repeats = TRUE]
    BY <1>2 DEF Resolve, sig
  <2>. QED
    BY <1>2, <2>1 DEF sig
<1>3. CASE IsJson(call.pieces) /\ sig # r.prior /\ call.state = "accepted"
  <2>1. Resolve(r, call) = [r EXCEPT !.prior = sig]
    BY <1>3 DEF Resolve, sig
  <2>. QED
    BY <1>3, <2>1 DEF sig
<1>4. CASE IsJson(call.pieces) /\ sig # r.prior /\ call.state # "accepted"
  <2>1. Resolve(r, call) = [r EXCEPT !.prior = sig, !.released = @ \o call.events]
    BY <1>4 DEF Resolve, sig
  <2>. QED
    BY <1>4, <2>1 DEF sig
<1>. QED
  BY <1>1, <1>2, <1>3, <1>4 DEF sig

LEMMA VerdictEffect ==
  ASSUME NEW f, f.gate \in Seq(Held),
         \A i \in DOMAIN f.gate : OfOne(f.gate[i].events, i, f.gate[i])
  PROVE  \E prior : /\ Priors(f.gate, prior)
                    /\ Found(f.gate, prior, GateVerdict(f).repeats)
                    /\ LetOut(f.gate, prior, GateVerdict(f).released)
<1> DEFINE gate == f.gate
           N == Len(gate)
<1>1. N \in Nat /\ DOMAIN gate = 1 .. N
  BY LenProperties
<1>2. PICK v : Verdicts(f, v)
  BY VerdictInSteps
<1> DEFINE prior == [k \in 0 .. N |-> v[k].prior]
           Free(k) == {i \in 1 .. k : i \in Freed(gate, prior)}
           T == {k \in 0 .. N :
                   /\ \/ v[k].prior = HistorySignature
                      \/ \E j \in 1 .. k : IsJson(gate[j].pieces) /\ v[k].prior = Signature(gate[j])
                   /\ v[k].repeats => \E i \in 1 .. k : /\ IsJson(gate[i].pieces)
                                                        /\ Signature(gate[i]) = v[i - 1].prior
                   /\ Lists(v[k].released, {}) /\ Indices(v[k].released) = Free(k)
                   /\ \A i \in Free(k) : Carries(v[k].released, i, gate[i])}
<1>3. /\ v \in [0 .. N -> VerdictsOn(gate)] /\ v[0] = NoVerdict
      /\ \A k \in 1 .. N : v[k] = Resolve(v[k - 1], gate[k])
      /\ GateVerdict(f) = v[N]
  BY <1>2 DEF Verdicts
<1>4. \A k \in 0 .. N : DOMAIN v[k] = {"prior", "repeats", "released"} /\ v[k].released \in Seq(CallEvents)
  BY <1>3 DEF VerdictsOn
<1>a. \A i \in 1 .. N : gate[i].state = "pending" <=> gate[i].state # "accepted"
  <2>1. \A i \in 1 .. N : gate[i] \in Held
    BY <1>1, ElementOfSeq
  <2>. QED
    BY <2>1 DEF Held
<1>b. \A i \in 1 .. N : OfOne(gate[i].events, i, gate[i])
  BY <1>1
<1> HIDE DEF gate
<1>c. \A i \in 1 .. N : i \in Freed(gate, prior) <=>
        /\ gate[i].state # "accepted" /\ IsJson(gate[i].pieces) /\ Signature(gate[i]) # v[i - 1].prior
  <2> TAKE i \in 1 .. N
  <2>1. prior[i - 1] = v[i - 1].prior
    BY <1>1
  <2> HIDE DEF prior
  <2>. QED
    BY <1>1, <1>a, <2>1 DEF Freed
<1> HIDE DEF prior, N
<1>5. 0 \in T
  <2>1. Free(0) = {} /\ 0 \in 0 .. N
    BY <1>1
  <2>2. Lists(<<>>, {}) /\ Indices(<<>>) = {}
    BY DEF Lists, Said, Indices
  <2>3. v[0].prior = HistorySignature /\ v[0].repeats = FALSE /\ v[0].released = <<>>
    BY <1>3 DEF NoVerdict
  <2> HIDE DEF Free
  <2>. QED
    BY <2>1, <2>2, <2>3
<1>6. ASSUME NEW k \in 1 .. N, k - 1 \in T PROVE k \in T
  <2> DEFINE r == v[k - 1]
             h == v[k]
             call == gate[k]
             same == Signature(call) = r.prior
  <2>1. k - 1 \in 0 .. N /\ k \in 0 .. N /\ k \in 1 .. k
    BY <1>1
  <2>2. h = Resolve(r, call)
    BY <1>3
  <2>3. /\ h.prior = IF IsJson(call.pieces) THEN Signature(call) ELSE r.prior
        /\ h.repeats => r.repeats \/ (IsJson(call.pieces) /\ same)
        /\ h.released = IF IsJson(call.pieces) /\ ~same /\ call.state # "accepted"
                        THEN r.released \o call.events ELSE r.released
    <3>1. DOMAIN r = {"prior", "repeats", "released"}
      BY <1>4, <2>1
    <3> HIDE DEF r, h, call
    <3>. QED
      BY <2>2, <3>1, ResolveEffect
  <2>4. /\ \/ r.prior = HistorySignature
           \/ \E j \in 1 .. k - 1 : IsJson(gate[j].pieces) /\ r.prior = Signature(gate[j])
        /\ r.repeats => \E i \in 1 .. k - 1 : /\ IsJson(gate[i].pieces)
                                              /\ Signature(gate[i]) = v[i - 1].prior
        /\ Lists(r.released, {}) /\ Indices(r.released) = Free(k - 1)
        /\ \A i \in Free(k - 1) : Carries(r.released, i, gate[i])
    BY <1>6
  <2>5. k \in Freed(gate, prior) <=> call.state # "accepted" /\ IsJson(call.pieces) /\ ~same
    BY <1>c
  <2>6. \A i \in 1 .. k - 1 : i \in 1 .. k
    BY <1>1
  <2>7. \/ h.prior = HistorySignature
        \/ \E j \in 1 .. k : IsJson(gate[j].pieces) /\ h.prior = Signature(gate[j])
    BY <2>1, <2>3, <2>4, <2>6
  <2>8. h.repeats => \E i \in 1 .. k : IsJson(gate[i].pieces) /\ Signature(gate[i]) = v[i - 1].prior
    BY <2>1, <2>3, <2>4, <2>6
  <2>9. /\ Lists(h.released, {}) /\ Indices(h.released) = Free(k)
        /\ \A i \in Free(k) : Carries(h.released, i, gate[i])
    <3>1. CASE k \notin Freed(gate, prior)
      <4>1. h.released = r.released
        BY <2>3, <2>5, <3>1
      <4>2. Free(k) = Free(k - 1)
        BY <1>1, <3>1
      <4> HIDE DEF Free, h, r
      <4>. QED
        BY <2>4, <4>1, <4>2
    <3>2. CASE k \in Freed(gate, prior)
      <4> DEFINE s == r.released
                 t == call.events
      <4>1. h.released = s \o t
        BY <2>3, <2>5, <3>2
      <4>2. Free(k) = Free(k - 1) \cup {k} /\ k \notin Free(k - 1)
        BY <1>1, <3>2
      <4>3. t \in Seq(CallEvents) /\ Indices(t) = {k} /\ Lists(t, {}) /\ Carries(t, k, gate[k])
        BY <1>b DEF OfOne
      <4>4. s \in Seq(CallEvents) /\ Lists(s, {}) /\ Indices(s) = Free(k - 1)
            /\ \A i \in Free(k - 1) : Carries(s, i, gate[i])
        BY <1>4, <2>1, <2>4
      <4> HIDE DEF Free, h, r, s, t, call
      <4>5. Indices(s \o t) = Free(k)
        <5>1. Indices(s \o t) = Indices(s) \cup Indices(t)
          BY <4>3, <4>4, IndicesBoth
        <5>. QED
          BY <4>2, <4>3, <4>4, <5>1
      <4>6. Lists(s \o t, {})
        <5>1. Lists(s \o t, {} \cup {})
          BY <4>3, <4>4, ListsBoth
        <5>. QED
          BY <5>1
      <4>7. ASSUME NEW i \in Free(k) PROVE Carries(s \o t, i, gate[i])
        <5>1. CASE i = k
          <6>1. Under(k, s) = {}
            BY <4>2, <4>4, IndicesUnder
          <6>. QED
            BY <4>3, <4>4, <5>1, <6>1, CarriesSecond
        <5>2. CASE i # k
          <6>1. i \in Free(k - 1)
            BY <4>2, <5>2
          <6>2. Under(i, t) = {}
            BY <4>3, <5>2, IndicesUnder
          <6>. QED
            BY <4>3, <4>4, <6>1, <6>2, CarriesFirst
        <5>. QED
          BY <5>1, <5>2
      <4>. QED
        BY <4>1, <4>5, <4>6, <4>7
    <3>. QED
      BY <3>1, <3>2
  <2> HIDE DEF Free
  <2>. QED
    BY <2>1, <2>7, <2>8, <2>9
<1>7. \A k \in 0 .. N : k \in T
  <2> HIDE DEF T
  <2>. QED
    BY <1>1, <1>5, <1>6, Reaches
<1>8. N \in T /\ N \in 0 .. N /\ 0 \in 0 .. N
  BY <1>1, <1>7
<1>9. \A k \in 0 .. N : prior[k] = v[k].prior
  BY DEF prior
<1>10. Priors(gate, prior)
  <2>1. prior[0] = HistorySignature
    BY <1>3, <1>8, <1>9 DEF NoVerdict
  <2>2. ASSUME NEW k \in DOMAIN gate, IsJson(gate[k].pieces) PROVE prior[k] = Signature(gate[k])
    <3>1. k \in 1 .. N /\ k - 1 \in 0 .. N /\ k \in 0 .. N
      BY <1>1 DEF N
    <3>2. v[k] = Resolve(v[k - 1], gate[k]) /\ DOMAIN v[k - 1] = {"prior", "repeats", "released"}
      BY <1>3, <1>4, <3>1
    <3>3. Resolve(v[k - 1], gate[k]).prior = Signature(gate[k])
      <4> DEFINE r == v[k - 1]
                 call == gate[k]
      <4>1. DOMAIN r = {"prior", "repeats", "released"} /\ IsJson(call.pieces)
        BY <2>2, <3>2
      <4> HIDE DEF r, call
      <4>2. Resolve(r, call).prior = Signature(call)
        BY <4>1, ResolveEffect
      <4>. QED
        BY <4>2 DEF r, call
    <3>. QED
      BY <1>9, <3>1, <3>2, <3>3
  <2>3. \A k \in 0 .. N : \/ prior[k] = HistorySignature
                          \/ \E j \in 1 .. k : IsJson(gate[j].pieces) /\ prior[k] = Signature(gate[j])
    BY <1>7, <1>9
  <2>. QED
    BY <2>1, <2>2, <2>3 DEF Priors, N
<1>11. Found(gate, prior, v[N].repeats)
  <2>1. \A i \in 1 .. N : i - 1 \in 0 .. N
    BY <1>1
  <2>. QED
    BY <1>1, <1>8, <1>9, <2>1 DEF Found
<1>12. LetOut(gate, prior, v[N].released)
  <2>1. Free(N) = Freed(gate, prior)
    BY <1>1 DEF Freed
  <2> HIDE DEF Free
  <2>. QED
    BY <1>4, <1>8, <2>1 DEF LetOut
<1>. QED
  BY <1>3, <1>10, <1>11, <1>12 DEF gate

-----------------------------------------------------------------------------
(* Deltas of calls.                                                        *)

Deltas == [kind : {"delta"}, index : Nat, name : Names \cup {"none"}, pieces : Seq(Pieces)]
Fields == {"state", "reason", "deltas", "natives", "texts", "made", "turned", "out", "hasTool",
           "xml", "skip", "tail", "calls", "gate", "signatures", "committed", "last"}

\* h is f but for some fields.
Keeps(f, h, S) == DOMAIN h = Fields /\ \A x \in Fields \ S : h[x] = f[x]

\* The calls the model has made: under one index each, complete or without
\* arguments.
Made(made) ==
  /\ made \in Seq(Deltas)
  /\ \A k \in DOMAIN made : /\ made[k].index = k /\ made[k].name \in Names
                            /\ made[k].pieces = <<>> \/ \E p \in Pieces : made[k].pieces = <<p>>

Alike(calls, made) ==
  /\ DOMAIN calls = DOMAIN made
  /\ \A k \in DOMAIN made : calls[k].name = made[k].name /\ calls[k].pieces = made[k].pieces

\* One delta more: the first of a call, or the arguments of a call without.
Grows(made, d, more) ==
  /\ Made(more) /\ d \in Deltas /\ d.index \in DOMAIN more
  /\ DOMAIN more = DOMAIN made \cup {d.index}
  /\ \A k \in DOMAIN made \ {d.index} : more[k] = made[k]
  /\ more[d.index].pieces = d.pieces
  /\ IF d.index \in DOMAIN made
     THEN /\ d.name = "none" /\ made[d.index].pieces = <<>>
          /\ more[d.index].name = made[d.index].name
     ELSE d.index = Len(made) + 1 /\ more[d.index].name = d.name

LEMMA CarriesMore ==
  ASSUME NEW S, NEW s \in Seq(S), NEW e \in S, NEW i, NEW call, NEW more,
         Carries(s, i, call), call.pieces = <<>>,
         e.kind # "text", e.index = i, e.name = "none",
         more.name = call.name, more.pieces = e.pieces
  PROVE  Carries(s \o <<e>>, i, more)
<1> DEFINE u == s \o <<e>>
           n == Len(s)
<1>1. <<e>> \in Seq(S) /\ <<e>>[1] = e
  OBVIOUS
<1>2. Under(i, u) = Under(i, s) \cup {n + 1}
  <2>1. Under(i, <<e>>) = {1}
    <3>1. DOMAIN <<e>> = {1} /\ <<e>>[1] = e
      BY OneEvent
    <3>. QED
      BY <3>1 DEF Under
  <2>2. Under(i, u) = Under(i, s) \cup {n + k : k \in Under(i, <<e>>)}
    BY <1>1, UnderBoth
  <2> HIDE DEF u
  <2>. QED
    BY <2>1, <2>2
<1>3. (\A k \in Under(i, s) : u[k] = s[k] /\ k \in 1 .. n) /\ u[n + 1] = e
  <2>1. /\ \A k \in DOMAIN s : u[k] = s[k]
        /\ \A k \in DOMAIN <<e>> : u[n + k] = <<e>>[k]
        /\ DOMAIN s = 1 .. n
    BY <1>1, PlacesOfBoth
  <2>2. 1 \in DOMAIN <<e>>
    OBVIOUS
  <2> HIDE DEF u
  <2>. QED
    BY <1>1, <2>1, <2>2 DEF Under
<1>4. n \in Nat
  BY PlacesOfBoth
<1> HIDE DEF u, n
<1>5. PICK first \in Under(i, s), at \in Under(i, s) :
         /\ s[first].name = call.name
         /\ \A k \in Under(i, s) \ {first} : first < k /\ s[k].name = "none"
         /\ s[at].pieces = call.pieces
         /\ \A k \in Under(i, s) \ {at} : s[k].pieces = <<>>
  BY DEF Carries
<1>6. \A k \in Under(i, s) : s[k].pieces = <<>>
  BY <1>5
<1>7. first \in Under(i, u) /\ n + 1 \in Under(i, u) /\ first < n + 1
  BY <1>2, <1>3, <1>4
<1>8. u[first].name = more.name /\ u[n + 1].pieces = more.pieces
  BY <1>3, <1>5
<1>9. \A k \in Under(i, u) \ {first} : first < k /\ u[k].name = "none"
  BY <1>2, <1>3, <1>5, <1>7
<1>10. \A k \in Under(i, u) \ {n + 1} : u[k].pieces = <<>>
  BY <1>2, <1>3, <1>6
<1>11. Carries(u, i, more)
  BY <1>7, <1>8, <1>9, <1>10 DEF Carries
<1>. QED
  BY <1>11 DEF u

\* The events of one call, with one delta more.
LEMMA OfOneMore ==
  ASSUME NEW events, NEW i, NEW call, OfOne(events, i, call), call.pieces = <<>>,
         NEW d \in Deltas, d.index = i, d.name = "none",
         NEW more, more.name = call.name, more.pieces = d.pieces
  PROVE  OfOne(Append(events, d), i, more)
<1>1. d \in CallEvents /\ d.kind # "text"
  BY DEF Deltas, CallEvents
<1>2. events \in Seq(CallEvents) /\ Indices(events) = {i} /\ Lists(events, {}) /\ Carries(events, i, call)
  BY DEF OfOne
<1>3. /\ <<d>> \in Seq(CallEvents) /\ Append(events, d) = events \o <<d>>
      /\ events \o <<d>> \in Seq(CallEvents)
  BY <1>1, <1>2, AppendIsConcat, ConcatProperties
<1>4. Indices(<<d>>) = {i} /\ Lists(<<d>>, {})
  BY <1>1, OneEvent
<1>5. Carries(events \o <<d>>, i, more)
  BY <1>1, <1>2, CarriesMore
<1>6. Indices(events \o <<d>>) = {i}
  <2>1. Indices(events \o <<d>>) = Indices(events) \cup Indices(<<d>>)
    BY <1>2, <1>3, IndicesBoth
  <2>. QED
    BY <1>2, <1>4, <2>1
<1>7. Lists(events \o <<d>>, {})
  <2>1. Lists(events \o <<d>>, {} \cup {})
    BY <1>2, <1>3, <1>4, ListsBoth
  <2>. QED
    BY <2>1
<1>. QED
  BY <1>3, <1>5, <1>6, <1>7 DEF OfOne

LEMMA OfOneFirst ==
  ASSUME NEW d \in Deltas, NEW call, call.name = d.name, call.pieces = d.pieces
  PROVE  OfOne(<<d>>, d.index, call)
<1>1. d \in CallEvents /\ d.kind # "text"
  BY DEF Deltas, CallEvents
<1>2. <<d>> \in Seq(CallEvents)
  BY <1>1
<1>3. Indices(<<d>>) = {d.index} /\ Lists(<<d>>, {}) /\ Carries(<<d>>, d.index, d)
  BY <1>1, OneEvent
<1>4. Carries(<<d>>, d.index, call)
  BY <1>3, CarriesAlike
<1>. QED
  BY <1>2, <1>3, <1>4 DEF OfOne

\* h has let out more events than f.
LetsOut(f, h, events) ==
  /\ h.out = f.out \o events /\ h.out \in Seq(Events)
  /\ h.hasTool = (Indices(h.out) # {})
  /\ Keeps(f, h, {"out", "hasTool"})

HasOut(f) == DOMAIN f = Fields /\ f.out \in Seq(Events) /\ f.hasTool = (Indices(f.out) # {})

LEMMA EmitLetsOut ==
  ASSUME NEW f, HasOut(f), NEW e \in Events
  PROVE  LetsOut(f, Emit(f, e), <<e>>)
<1> DEFINE h == Emit(f, e)
<1>1. h.out = Append(f.out, e) /\ h.hasTool = (f.hasTool \/ e.kind # "text")
      /\ Keeps(f, h, {"out", "hasTool"})
  BY DEF HasOut, Emit, Keeps, Fields
<1>2. f.out \in Seq(Events) /\ <<e>> \in Seq(Events)
  BY DEF HasOut
<1>3. Append(f.out, e) = f.out \o <<e>> /\ f.out \o <<e>> \in Seq(Events)
  BY <1>2, AppendIsConcat, ConcatProperties
<1>4. Indices(f.out \o <<e>>) = Indices(f.out) \cup Indices(<<e>>)
  BY <1>2, IndicesBoth
<1>5. Indices(<<e>>) # {} <=> e.kind # "text"
  BY OneEvent
<1>6. h.hasTool = (Indices(f.out \o <<e>>) # {})
  BY <1>1, <1>4, <1>5 DEF HasOut
<1> HIDE DEF h
<1>7. LetsOut(f, h, <<e>>)
  BY <1>1, <1>3, <1>6 DEF LetsOut
<1>. QED
  BY <1>7 DEF h

LEMMA EmitAllLetsOut ==
  ASSUME NEW f, HasOut(f), NEW events \in Seq(Events)
  PROVE  LetsOut(f, EmitAll(f, events), events)
<1> DEFINE h == EmitAll(f, events)
           tool == \E k \in DOMAIN events : events[k].kind # "text"
<1>1. h.out = f.out \o events /\ h.hasTool = (f.hasTool \/ tool)
      /\ Keeps(f, h, {"out", "hasTool"})
  BY DEF HasOut, EmitAll, Keeps, Fields
<1>2. f.out \in Seq(Events) /\ f.out \o events \in Seq(Events)
  BY ConcatProperties DEF HasOut
<1>3. Indices(f.out \o events) = Indices(f.out) \cup Indices(events)
  BY <1>2, IndicesBoth
<1>4. Indices(events) # {} <=> tool
  BY DEF Indices
<1> HIDE DEF tool
<1>5. h.hasTool = (Indices(f.out \o events) # {})
  BY <1>1, <1>3, <1>4 DEF HasOut
<1> HIDE DEF h
<1>6. LetsOut(f, h, events)
  BY <1>1, <1>2, <1>5 DEF LetsOut
<1>. QED
  BY <1>6 DEF h

HistoryName == IF history = <<>> THEN "none" ELSE Last(history).name
NameBefore(k, made) == IF k = 1 THEN HistoryName ELSE made[k - 1].name

FirstOnes(P, made) == P \subseteq DOMAIN made /\ \A k \in P : \A j \in 1 .. k : j \in P

\* The first calls have been let through, and differ in name from the one
\* before; nothing of the others has.
Passed(P, f, made) ==
  /\ FirstOnes(P, made) /\ Indices(f.out) = P /\ f.committed = (P # {})
  /\ \A k \in P : Carries(f.out, k, made[k]) /\ made[k].name # NameBefore(k, made)
  /\ \A k \in 1 .. Len(made) + 1 : (k \notin P /\ \A j \in 1 .. k - 1 : j \in P)
                                   => f.last = NameBefore(k, made)

\* The gate holds the calls of the model.
InGate(gate, made) ==
  /\ gate \in Seq(Held) /\ Alike(gate, made)
  /\ \A k \in DOMAIN made : OfOne(gate[k].events, k, made[k])

LetThrough(gate) == {k \in DOMAIN gate : gate[k].state = "accepted"}
GateFits(f, made) == InGate(f.gate, made) /\ Passed(LetThrough(f.gate), f, made)

\* A call of the gate has been replaced by one with a delta more.
Put(gate, more, i, call, d, state) ==
  /\ more \in Seq(Held) /\ DOMAIN more = DOMAIN gate \cup {i}
  /\ \A k \in DOMAIN gate \ {i} : more[k] = gate[k]
  /\ more[i].name = call.name /\ more[i].pieces = call.pieces \o d.pieces
  /\ more[i].events = Append(call.events, d) /\ more[i].state = state

Awaited(gate, d) ==
  IF d.index <= Len(gate) THEN gate[d.index]
  ELSE [name |-> d.name, pieces |-> <<>>, events |-> <<>>, state |-> "pending"]

GateStep(f, h, d) ==
  LET call == Awaited(f.gate, d)
  IN  \/ /\ call.state = "accepted" /\ Put(f.gate, h.gate, d.index, call, d, "accepted")
         /\ h.out = f.out \o <<d>> /\ h.last = f.last /\ h.committed = f.committed
      \/ /\ call.state = "pending" /\ Put(f.gate, h.gate, d.index, call, d, "accepted")
         /\ call.name # f.last /\ \A i \in 1 .. (d.index - 1) : f.gate[i].state # "pending"
         /\ h.out = f.out \o Append(call.events, d)
         /\ h.last = call.name /\ h.committed = TRUE
      \/ /\ call.state = "pending" /\ Put(f.gate, h.gate, d.index, call, d, "pending")
         /\ h.out = f.out /\ h.last = f.last /\ h.committed = f.committed

\* What the gate does with one delta.
LEMMA GateSteps ==
  ASSUME ~HoldsCalls, NEW f, HasOut(f), f.gate \in Seq(Held),
         NEW d \in Deltas, d.index \in 1 .. Len(f.gate) + 1, d.index <= Len(f.gate) \/ d.name \in Names
  PROVE  /\ GateStep(f, Gate(f, d), d) /\ HasOut(Gate(f, d))
         /\ Keeps(f, Gate(f, d), {"out", "hasTool", "gate", "last", "committed"})
<1> DEFINE i == d.index
           old == i <= Len(f.gate)
           call == IF old THEN f.gate[i]
                   ELSE [name |-> d.name, pieces |-> <<>>, events |-> <<>>, state |-> "pending"]
           grown == [call EXCEPT !.pieces = @ \o d.pieces, !.events = Append(@, d)]
           gate2 == IF old THEN [f.gate EXCEPT ![i] = grown] ELSE Append(f.gate, grown)
           open == [f EXCEPT !.gate = IF old THEN [@ EXCEPT ![i] = grown] ELSE Append(@, grown)]
           mayPass == /\ call.state = "pending" /\ Differs(f, call)
                      /\ \A j \in 1 .. (i - 1) : f.gate[j].state # "pending"
           through == [open EXCEPT !.gate[i].state = "accepted", !.last = call.name, !.committed = TRUE]
<1>1. Len(f.gate) \in Nat /\ DOMAIN f.gate = 1 .. Len(f.gate) /\ \A k \in DOMAIN f.gate : f.gate[k] \in Held
  BY LenProperties, ElementOfSeq
<1>2. call \in Held
  <2>1. CASE old
    BY <1>1, <2>1
  <2>2. CASE ~old
    BY <2>2 DEF Held
  <2>. QED
    BY <2>1, <2>2
<1>3. call.events \in Seq(CallEvents) /\ call.pieces \in Seq(Pieces) /\ call.state \in {"pending", "accepted"}
  <2> HIDE DEF call
  <2>. QED
    BY <1>2 DEF Held
<1>5. /\ d \in Events /\ Append(call.events, d) \in Seq(CallEvents) /\ Append(call.events, d) \in Seq(Events)
      /\ call.pieces \o d.pieces \in Seq(Pieces)
  <2>1. d \in CallEvents /\ d.pieces \in Seq(Pieces)
    BY DEF Deltas, CallEvents
  <2>2. \A s \in Seq(CallEvents) : s \in Seq(Events)
    BY DEF Events
  <2> HIDE DEF call
  <2>3. Append(call.events, d) \in Seq(CallEvents)
    BY <1>3, <2>1, AppendProperties
  <2>. QED
    BY <1>3, <2>1, <2>2, <2>3, ConcatProperties DEF Events
<1>4. /\ grown \in Held /\ grown.name = call.name /\ grown.pieces = call.pieces \o d.pieces
      /\ grown.events = Append(call.events, d) /\ grown.state = call.state
  <2> HIDE DEF call
  <2>. QED
    BY <1>2, <1>5 DEF Held
<1>6. Put(f.gate, gate2, i, call, d, call.state)
  <2> HIDE DEF call, grown
  <2>1. CASE old
    <3>1. i \in DOMAIN f.gate /\ gate2 = [f.gate EXCEPT ![i] = grown]
      BY <1>1, <2>1
    <3>2. gate2 \in Seq(Held) /\ DOMAIN gate2 = DOMAIN f.gate
      BY <1>4, <3>1, ExceptSeq
    <3>. QED
      BY <1>4, <3>1, <3>2 DEF Put
  <2>2. CASE ~old
    <3>1. i = Len(f.gate) + 1 /\ gate2 = Append(f.gate, grown)
      BY <1>1, <2>2
    <3>2. /\ gate2 \in Seq(Held) /\ Len(gate2) = Len(f.gate) + 1
          /\ gate2[i] = grown /\ \A k \in 1 .. Len(f.gate) : gate2[k] = f.gate[k]
      BY <1>4, <3>1, AppendProperties
    <3>3. DOMAIN gate2 = DOMAIN f.gate \cup {i}
      BY <1>1, <3>1, <3>2, LenProperties
    <3>. QED
      BY <1>1, <1>4, <3>2, <3>3 DEF Put
  <2>. QED
    BY <2>1, <2>2
<1>7. open.gate = gate2 /\ Keeps(f, open, {"gate"})
  <2> HIDE DEF call, grown
  <2>1. DOMAIN f = Fields
    BY DEF HasOut
  <2>. QED
    BY <2>1 DEF Keeps, Fields
<1> HIDE DEF gate2
<1>8. /\ Put(f.gate, through.gate, i, call, d, "accepted") /\ through.last = call.name /\ through.committed = TRUE
      /\ Keeps(f, through, {"gate", "last", "committed"})
  <2>1. /\ through.last = call.name /\ through.committed = TRUE
        /\ Keeps(f, through, {"gate", "last", "committed"})
        /\ through.gate = [gate2 EXCEPT ![i].state = "accepted"]
    <3> HIDE DEF call, open
    <3>. QED
      BY <1>7 DEF Keeps, Fields
  <2>2. Put(f.gate, [gate2 EXCEPT ![i].state = "accepted"], i, call, d, "accepted")
    <3> HIDE DEF call
    <3>1. gate2 \in Seq(Held) /\ i \in DOMAIN gate2 /\ gate2[i] \in Held
      <4>1. gate2 \in Seq(Held) /\ i \in DOMAIN gate2
        BY <1>6 DEF Put
      <4>2. DOMAIN gate2 = 1 .. Len(gate2)
        BY <4>1, LenProperties
      <4>. QED
        BY <4>1, <4>2, ElementOfSeq
    <3> DEFINE b == [gate2[i] EXCEPT !.state = "accepted"]
    <3>2. b \in Held /\ b.name = gate2[i].name /\ b.pieces = gate2[i].pieces
          /\ b.events = gate2[i].events /\ b.state = "accepted"
      BY <3>1 DEF Held
    <3>3. [gate2 EXCEPT ![i].state = "accepted"] = [gate2 EXCEPT ![i] = b]
      BY <3>1
    <3> HIDE DEF b
    <3>4. [gate2 EXCEPT ![i] = b] \in Seq(Held)
      BY <3>1, <3>2, ExceptSeq
    <3>. QED
      BY <1>6, <3>1, <3>2, <3>3, <3>4 DEF Put
  <2>. QED
    BY <2>1, <2>2
<1>9. HasOut(open) /\ HasOut(through)
  <2> HIDE DEF open, through
  <2>. QED
    BY <1>7, <1>8 DEF HasOut, Keeps, Fields
<1>10. Gate(f, d) = IF call.state = "accepted" THEN Emit(open, d)
                    ELSE IF mayPass THEN EmitAll(through, Append(call.events, d)) ELSE open
  <2>1. Gate(f, d) = IF call.state = "accepted" THEN (IF HoldsCalls THEN open ELSE Emit(open, d))
                     ELSE IF mayPass /\ (Len(grown.events) > 1 \/ ~HoldsCalls)
                          THEN EmitAll(through, grown.events)
                     ELSE IF mayPass THEN through
                     ELSE open
    BY Zenon DEF Gate
  <2> HIDE DEF call, open, through, grown, mayPass
  <2>. QED
    BY <1>4, <2>1
<1>11. Awaited(f.gate, d) = call
  BY DEF Awaited
<1> HIDE DEF open, through, grown
<1> DEFINE h == Gate(f, d)
<1>12. CASE call.state = "accepted"
  <2>1. h = Emit(open, d)
    BY <1>10, <1>12
  <2>2. LetsOut(open, h, <<d>>)
    BY <1>5, <1>9, <2>1, EmitLetsOut
  <2>3. h.gate = gate2 /\ h.out = f.out \o <<d>> /\ h.last = f.last /\ h.committed = f.committed
    <3> HIDE DEF call, h
    <3>. QED
      BY <1>7, <2>2 DEF LetsOut, Keeps, Fields
  <2>4. HasOut(h) /\ Keeps(f, h, {"out", "hasTool", "gate", "last", "committed"})
    <3> HIDE DEF h
    <3>. QED
      BY <1>7, <2>2 DEF LetsOut, HasOut, Keeps, Fields
  <2> HIDE DEF h, call
  <2>. QED
    BY <1>6, <1>11, <1>12, <2>3, <2>4 DEF GateStep, h
<1>13. CASE call.state # "accepted" /\ mayPass
  <2>1. h = EmitAll(through, Append(call.events, d))
    BY <1>10, <1>13
  <2>2. LetsOut(through, h, Append(call.events, d))
    BY <1>5, <1>9, <2>1, EmitAllLetsOut
  <2>3. /\ h.gate = through.gate /\ h.out = f.out \o Append(call.events, d)
        /\ h.last = call.name /\ h.committed = TRUE
    <3> HIDE DEF call, h
    <3>. QED
      BY <1>8, <2>2 DEF LetsOut, Keeps, Fields
  <2>4. HasOut(h) /\ Keeps(f, h, {"out", "hasTool", "gate", "last", "committed"})
    <3> HIDE DEF h, call
    <3>. QED
      BY <1>8, <2>2 DEF LetsOut, HasOut, Keeps, Fields
  <2>5. call.state = "pending" /\ call.name # f.last
        /\ \A j \in 1 .. (i - 1) : f.gate[j].state # "pending"
    BY <1>13 DEF Differs
  <2> HIDE DEF h, call
  <2>. QED
    BY <1>8, <1>11, <2>3, <2>4, <2>5 DEF GateStep, h
<1>14. CASE call.state # "accepted" /\ ~mayPass
  <2>1. h = open
    BY <1>10, <1>14
  <2>2. call.state = "pending"
    BY <1>3, <1>14
  <2>3. /\ h.gate = gate2 /\ h.out = f.out /\ h.last = f.last /\ h.committed = f.committed
        /\ HasOut(h) /\ Keeps(f, h, {"out", "hasTool", "gate", "last", "committed"})
    <3> HIDE DEF call, h
    <3>. QED
      BY <1>7, <1>9, <2>1 DEF Keeps, Fields
  <2> HIDE DEF h, call
  <2>. QED
    BY <1>6, <1>11, <2>2, <2>3 DEF GateStep, h
<1>. QED
  BY <1>12, <1>13, <1>14

\* What the gate has of the call that a delta belongs to.
Belongs(gate, made, d, more) ==
  /\ more[d.index].name = Awaited(gate, d).name
  /\ more[d.index].pieces = Awaited(gate, d).pieces \o d.pieces
  /\ OfOne(Append(Awaited(gate, d).events, d), d.index, more[d.index])
  /\ d.index \in 1 .. Len(gate) + 1 /\ (d.index <= Len(gate) \/ d.name \in Names)
  /\ (d.index \in LetThrough(gate)) = (Awaited(gate, d).state = "accepted")
  /\ (d.index \in LetThrough(gate) => made[d.index].pieces = <<>> /\ d.name = "none")

LEMMA AwaitedCall ==
  ASSUME NEW made, Made(made), NEW d, NEW more, Grows(made, d, more),
         NEW gate, InGate(gate, made)
  PROVE  Belongs(gate, made, d, more)
<1> DEFINE call == Awaited(gate, d)
           i == d.index
<1>1. /\ Len(gate) \in Nat /\ DOMAIN gate = 1 .. Len(gate) /\ DOMAIN made = DOMAIN gate
      /\ Len(made) = Len(gate)
  <2>1. gate \in Seq(Held) /\ made \in Seq(Deltas) /\ DOMAIN gate = DOMAIN made
    BY DEF InGate, Alike, Made
  <2>2. /\ DOMAIN gate = 1 .. Len(gate) /\ Len(gate) \in Nat
        /\ DOMAIN made = 1 .. Len(made) /\ Len(made) \in Nat
    BY <2>1, LenProperties
  <2>3. Len(made) = Len(gate)
    <3> DEFINE a == Len(made)
               b == Len(gate)
    <3>1. a \in Nat /\ b \in Nat /\ 1 .. a = 1 .. b
      BY <2>1, <2>2
    <3> HIDE DEF a, b
    <3>2. a = b
      BY <3>1
    <3>. QED
      BY <3>2 DEF a, b
  <2>. QED
    BY <2>1, <2>2, <2>3
<1>2. /\ d \in Deltas /\ d.pieces \in Seq(Pieces) /\ i \in DOMAIN more /\ more[i].name \in Names
      /\ more[i].pieces = d.pieces
  BY DEF Grows, Made, Deltas
<1>3. <<>> \o d.pieces = d.pieces
  BY <1>2, ConcatEmptySeq
<1>4. CASE i \in DOMAIN made
  <2>1. /\ d.name = "none" /\ made[i].pieces = <<>> /\ more[i].name = made[i].name
    BY <1>4 DEF Grows
  <2>2. call = gate[i] /\ gate[i].name = made[i].name /\ gate[i].pieces = made[i].pieces
        /\ OfOne(gate[i].events, i, made[i]) /\ i \in 1 .. Len(gate)
    BY <1>1, <1>4 DEF Awaited, InGate, Alike
  <2>3. OfOne(Append(gate[i].events, d), i, more[i])
    BY <1>2, <2>1, <2>2, OfOneMore
  <2>4. i \in LetThrough(gate) <=> gate[i].state = "accepted"
    BY <1>1, <2>2 DEF LetThrough
  <2>5. i \in 1 .. Len(gate) + 1 /\ i <= Len(gate)
    BY <1>1, <2>2
  <2>. QED
    BY <1>2, <1>3, <2>1, <2>2, <2>3, <2>4, <2>5 DEF Belongs
<1>5. CASE i \notin DOMAIN made
  <2>1. i = Len(made) + 1 /\ more[i].name = d.name
    BY <1>5 DEF Grows
  <2>2. /\ call = [name |-> d.name, pieces |-> <<>>, events |-> <<>>, state |-> "pending"]
        /\ i \in 1 .. Len(gate) + 1
    BY <1>1, <2>1 DEF Awaited
  <2>3. Append(<<>>, d) = <<d>>
    OBVIOUS
  <2>4. OfOne(<<d>>, i, more[i])
    BY <1>2, <2>1, OfOneFirst
  <2>5. i \notin LetThrough(gate)
    BY <1>1, <1>5 DEF LetThrough
  <2>6. /\ call.name = d.name /\ call.pieces = <<>> /\ call.events = <<>> /\ call.state = "pending"
    BY <2>2
  <2>7. OfOne(Append(call.events, d), i, more[i])
    BY <2>3, <2>4, <2>6
  <2>8. more[i].pieces = call.pieces \o d.pieces
    BY <1>2, <1>3, <2>6
  <2>9. call.state # "accepted" /\ d.name \in Names /\ more[i].name = call.name
    BY <1>2, <2>1, <2>6
  <2> HIDE DEF call
  <2>. QED
    BY <2>2, <2>5, <2>7, <2>8, <2>9 DEF call, Belongs
<1>. QED
  BY <1>4, <1>5

LEMMA PutInGate ==
  ASSUME NEW made, Made(made), NEW d, NEW more, Grows(made, d, more),
         NEW gate, InGate(gate, made), NEW gate2, NEW state,
         Put(gate, gate2, d.index, Awaited(gate, d), d, state)
  PROVE  /\ InGate(gate2, more)
         /\ state = "accepted" => LetThrough(gate2) = LetThrough(gate) \cup {d.index}
         /\ (state = "pending" /\ d.index \notin LetThrough(gate)) => LetThrough(gate2) = LetThrough(gate)
<1> DEFINE call == Awaited(gate, d)
           i == d.index
<1>1. /\ more[i].name = call.name /\ more[i].pieces = call.pieces \o d.pieces
      /\ OfOne(Append(call.events, d), i, more[i])
  <2>1. Belongs(gate, made, d, more)
    BY AwaitedCall
  <2>2. more[i].name = call.name
    BY <2>1 DEF Belongs
  <2>3. more[i].pieces = call.pieces \o d.pieces
    BY <2>1 DEF Belongs
  <2>4. OfOne(Append(call.events, d), i, more[i])
    BY <2>1 DEF Belongs
  <2>. QED
    BY <2>2, <2>3, <2>4
<1>2. /\ gate2 \in Seq(Held) /\ DOMAIN gate2 = DOMAIN gate \cup {i}
      /\ \A k \in DOMAIN gate \ {i} : gate2[k] = gate[k]
      /\ gate2[i].name = call.name /\ gate2[i].pieces = call.pieces \o d.pieces
      /\ gate2[i].events = Append(call.events, d) /\ gate2[i].state = state
  BY DEF Put
<1> HIDE DEF call
<1>3. /\ DOMAIN more = DOMAIN made \cup {i} /\ \A k \in DOMAIN made \ {i} : more[k] = made[k]
      /\ DOMAIN gate = DOMAIN made
      /\ \A k \in DOMAIN made : gate[k].name = made[k].name /\ gate[k].pieces = made[k].pieces
      /\ \A k \in DOMAIN made : OfOne(gate[k].events, k, made[k])
  BY DEF Grows, InGate, Alike
<1>4. Alike(gate2, more)
  BY <1>1, <1>2, <1>3 DEF Alike
<1>5. \A k \in DOMAIN more : OfOne(gate2[k].events, k, more[k])
  BY <1>1, <1>2, <1>3
<1>6. /\ state = "accepted" => LetThrough(gate2) = LetThrough(gate) \cup {i}
      /\ (state = "pending" /\ i \notin LetThrough(gate)) => LetThrough(gate2) = LetThrough(gate)
  BY <1>2 DEF LetThrough
<1>. QED
  BY <1>2, <1>4, <1>5, <1>6 DEF InGate

\* A call of one index follows what has been let out.
LEMMA CallFollows ==
  ASSUME NEW s \in Seq(Events), NEW t \in Seq(Events), NEW i, Indices(t) = {i}
  PROVE  /\ Indices(s \o t) = Indices(s) \cup {i}
         /\ \A k, call : k # i /\ Carries(s, k, call) => Carries(s \o t, k, call)
         /\ \A call : i \notin Indices(s) /\ Carries(t, i, call) => Carries(s \o t, i, call)
<1>1. Indices(s \o t) = Indices(s) \cup {i}
  <2>1. Indices(s \o t) = Indices(s) \cup Indices(t)
    BY IndicesBoth
  <2>. QED
    BY <2>1
<1>2. ASSUME NEW k, NEW call, k # i, Carries(s, k, call) PROVE Carries(s \o t, k, call)
  <2>1. Under(k, t) = {}
    BY <1>2, IndicesUnder
  <2>. QED
    BY <1>2, <2>1, CarriesFirst
<1>3. ASSUME NEW call, i \notin Indices(s), Carries(t, i, call) PROVE Carries(s \o t, i, call)
  <2>1. Under(i, s) = {}
    BY <1>3, IndicesUnder
  <2>. QED
    BY <1>3, <2>1, CarriesSecond
<1>. QED
  BY <1>1, <1>2, <1>3

LEMMA SeqOfCalls ==
  \A s \in Seq(CallEvents) : s \in Seq(Events)
BY DEF Events

LEMMA GateKeepsItsCalls ==
  ASSUME NEW made, Made(made), NEW d, NEW more, Grows(made, d, more),
         NEW f, HasOut(f), GateFits(f, made), NEW h, GateStep(f, h, d)
  PROVE  GateFits(h, more) /\ \A A : Lists(f.out, A) => Lists(h.out, A)
<1> DEFINE gate == f.gate
           call == Awaited(gate, d)
           i == d.index
           n == Len(made)
           P == LetThrough(gate)
           Q == LetThrough(h.gate)
<1>1. InGate(gate, made) /\ Passed(P, f, made)
  BY DEF GateFits
<1>2. /\ more[i].name = call.name
      /\ OfOne(Append(call.events, d), i, more[i])
      /\ i \in P <=> call.state = "accepted"
      /\ i \in P => made[i].pieces = <<>> /\ d.name = "none"
  <2>1. Belongs(gate, made, d, more)
    BY <1>1, AwaitedCall
  <2>2. more[i].name = call.name
    BY <2>1 DEF Belongs
  <2>3. OfOne(Append(call.events, d), i, more[i])
    BY <2>1 DEF Belongs
  <2>4. i \in P <=> call.state = "accepted"
    BY <2>1 DEF Belongs
  <2>5. i \in P => made[i].pieces = <<>> /\ d.name = "none"
    BY <2>1 DEF Belongs
  <2>. QED
    BY <2>2, <2>3, <2>4, <2>5
<1>3. /\ n \in Nat /\ DOMAIN made = 1 .. n
      /\ DOMAIN more = DOMAIN made \cup {i} /\ i \in 1 .. n + 1
      /\ \A k \in DOMAIN made \ {i} : more[k] = made[k]
      /\ \A k \in DOMAIN made : more[k].name = made[k].name
      /\ DOMAIN more = 1 .. Len(more) /\ Len(more) \in Nat
      /\ more[i].pieces = d.pieces /\ d \in Deltas
      /\ i \notin DOMAIN made => i = n + 1
  <2>1. made \in Seq(Deltas) /\ more \in Seq(Deltas)
    BY DEF Made, Grows
  <2>2. n \in Nat /\ DOMAIN made = 1 .. n /\ DOMAIN more = 1 .. Len(more) /\ Len(more) \in Nat
    BY <2>1, LenProperties
  <2>3. i \in DOMAIN made \/ i = n + 1
    BY DEF Grows
  <2>. QED
    BY <2>2, <2>3 DEF Grows
<1>4. \A k \in 1 .. n + 1 : NameBefore(k, more) = NameBefore(k, made)
  <2> TAKE k \in 1 .. n + 1
  <2>1. k = 1 \/ k - 1 \in DOMAIN made
    BY <1>3
  <2>. QED
    BY <1>3, <2>1 DEF NameBefore
<1>5. /\ P \subseteq DOMAIN made /\ Indices(f.out) = P
      /\ \A k \in P : \A j \in 1 .. k : j \in P
      /\ \A k \in P : Carries(f.out, k, made[k]) /\ made[k].name # NameBefore(k, made)
      /\ \A k \in 1 .. n + 1 : (k \notin P /\ \A j \in 1 .. k - 1 : j \in P) => f.last = NameBefore(k, made)
      /\ f.committed = (P # {})
  BY <1>1 DEF Passed, FirstOnes
<1>6. f.out \in Seq(Events)
  BY DEF HasOut
<1>7. /\ d \in CallEvents /\ d \in Events /\ d.kind # "text" /\ <<d>> \in Seq(Events)
      /\ Indices(<<d>>) = {i} /\ Lists(<<d>>, {})
  <2>1. d \in CallEvents /\ d.kind # "text"
    BY <1>3 DEF Deltas, CallEvents
  <2>2. d \in Events
    BY <2>1 DEF Events
  <2>3. Indices(<<d>>) = {i} /\ Lists(<<d>>, {})
    BY <2>1, OneEvent
  <2>4. <<d>> \in Seq(Events)
    BY <2>2
  <2>. QED
    BY <2>1, <2>2, <2>3, <2>4
<1>8. CASE /\ call.state = "accepted" /\ Put(gate, h.gate, i, call, d, "accepted")
           /\ h.out = f.out \o <<d>> /\ h.last = f.last /\ h.committed = f.committed
  <2>1. InGate(h.gate, more) /\ Q = P /\ i \in P
    <3>1. Put(gate, h.gate, i, call, d, "accepted")
      BY <1>8
    <3>2. InGate(h.gate, more) /\ Q = P \cup {i}
      BY <1>1, <3>1, PutInGate
    <3>3. i \in P
      BY <1>2, <1>8
    <3>. QED
      BY <3>2, <3>3
  <2>2. i \in DOMAIN made /\ made[i].pieces = <<>> /\ d.name = "none" /\ DOMAIN more = DOMAIN made
        /\ Len(more) = n
    BY <1>2, <1>3, <1>5, <2>1
  <2> HIDE DEF gate, call, P, Q, n
  <2>3. Indices(h.out) = P
    <3>1. Indices(f.out \o <<d>>) = Indices(f.out) \cup Indices(<<d>>)
      BY <1>6, <1>7, IndicesBoth, ZenonT(30)
    <3>. QED
      BY <1>5, <1>7, <1>8, <2>1, <3>1
  <2>4. ASSUME NEW k \in P PROVE Carries(h.out, k, more[k]) /\ more[k].name # NameBefore(k, more)
    <3>1. k \in DOMAIN made /\ k \in 1 .. n + 1
      BY <1>3, <1>5
    <3>2. more[k].name # NameBefore(k, more)
      BY <1>3, <1>4, <1>5, <3>1
    <3>3. CASE k = i
      <4>1. Carries(f.out, i, made[i]) /\ more[i].name = made[i].name
        BY <1>3, <1>5, <2>1, <2>2
      <4>2. Carries(f.out \o <<d>>, i, more[i])
        BY <1>3, <1>6, <1>7, <2>2, <4>1, CarriesMore
      <4>. QED
        BY <1>8, <3>2, <3>3, <4>2
    <3>4. CASE k # i
      <4>1. Carries(f.out, k, made[k]) /\ more[k] = made[k]
        BY <1>3, <1>5, <3>1, <3>4
      <4>2. Carries(f.out \o <<d>>, k, made[k])
        BY <1>6, <1>7, <3>4, <4>1, CallFollows
      <4>. QED
        BY <1>8, <3>2, <4>1, <4>2
    <3>. QED
      BY <3>3, <3>4
  <2>5. Passed(P, h, more)
    BY <1>4, <1>5, <1>8, <2>2, <2>3, <2>4 DEF Passed, FirstOnes
  <2>6. \A A : Lists(f.out, A) => Lists(h.out, A)
    <3> TAKE A
    <3> HAVE Lists(f.out, A)
    <3>1. Lists(f.out \o <<d>>, A \cup {})
      BY <1>6, <1>7, ListsBoth
    <3>. QED
      BY <1>8, <3>1
  <2>. QED
    BY <2>1, <2>5, <2>6 DEF GateFits, Q
<1>9. CASE /\ call.state = "pending" /\ Put(gate, h.gate, i, call, d, "accepted")
           /\ call.name # f.last /\ \A j \in 1 .. (i - 1) : gate[j].state # "pending"
           /\ h.out = f.out \o Append(call.events, d)
           /\ h.last = call.name /\ h.committed = TRUE
  <2> DEFINE t == Append(call.events, d)
  <2>1. InGate(h.gate, more) /\ Q = P \cup {i} /\ i \notin P
    <3>1. Put(gate, h.gate, i, call, d, "accepted")
      BY <1>9
    <3>2. InGate(h.gate, more) /\ Q = P \cup {i}
      BY <1>1, <3>1, PutInGate
    <3>3. i \notin P
      BY <1>2, <1>9
    <3>. QED
      BY <3>2, <3>3
  <2>2. t \in Seq(Events) /\ Indices(t) = {i} /\ Lists(t, {}) /\ Carries(t, i, more[i])
    BY <1>2, SeqOfCalls DEF OfOne
  <2>3. \A j \in 1 .. (i - 1) : j \in P
    <3>1. gate \in Seq(Held) /\ DOMAIN gate = DOMAIN made
      BY <1>1 DEF InGate, Alike
    <3>2. \A j \in DOMAIN gate : gate[j].state = "pending" \/ gate[j].state = "accepted"
      <4>1. \A j \in DOMAIN gate : gate[j] \in Held
        BY <1>3, <3>1, ElementOfSeq, LenProperties
      <4>. QED
        BY <4>1 DEF Held
    <3>3. \A j \in 1 .. (i - 1) : j \in DOMAIN gate
      BY <1>3, <3>1
    <3>. QED
      BY <1>9, <3>2, <3>3 DEF P, LetThrough
  <2>4. P = 1 .. (i - 1)
    <3>1. \A k \in P : k < i
      <4> TAKE k \in P
      <4>1. k \in 1 .. n /\ (i <= k => i \in 1 .. k)
        BY <1>3, <1>5
      <4> HIDE DEF P, Q, n
      <4>. QED
        BY <1>3, <1>5, <2>1, <4>1
    <3> HIDE DEF P, Q, n
    <3>2. \A k \in P : k \in 1 .. n
      BY <1>3, <1>5
    <3>3. \A k \in P : k \in 1 .. (i - 1)
      <4>1. i \in Nat
        BY <1>3
      <4> HIDE DEF i
      <4>. QED
        BY <1>3, <3>1, <3>2, <4>1
    <3>. QED
      BY <2>3, <3>3
  <2> HIDE DEF gate, call, P, Q, n, t
  <2>5. f.last = NameBefore(i, made)
    BY <1>3, <1>5, <2>1, <2>4
  <2>6. h.out = f.out \o t
    BY <1>9 DEF t
  <2>7. Indices(h.out) = P \cup {i}
    <3>1. Indices(f.out \o t) = Indices(f.out) \cup Indices(t)
      BY <1>6, <2>2, IndicesBoth
    <3>. QED
      BY <1>5, <2>2, <2>6, <3>1
  <2>8. ASSUME NEW k \in P \cup {i} PROVE Carries(h.out, k, more[k]) /\ more[k].name # NameBefore(k, more)
    <3>1. CASE k = i
      <4>1. Carries(f.out \o t, i, more[i])
        BY <1>5, <1>6, <2>1, <2>2, CallFollows
      <4>2. more[i].name # NameBefore(i, more)
        BY <1>2, <1>3, <1>4, <1>9, <2>5
      <4>. QED
        BY <2>6, <3>1, <4>1, <4>2
    <3>2. CASE k # i
      <4>1. k \in P /\ k \in DOMAIN made /\ k \in 1 .. n + 1
        BY <1>3, <1>5, <3>2
      <4>2. Carries(f.out, k, made[k]) /\ made[k].name # NameBefore(k, made) /\ more[k] = made[k]
        BY <1>3, <1>5, <3>2, <4>1
      <4>3. Carries(f.out \o t, k, made[k])
        BY <1>6, <2>2, <3>2, <4>2, CallFollows
      <4>. QED
        BY <1>4, <2>6, <4>1, <4>2, <4>3
    <3>. QED
      BY <3>1, <3>2
  <2>9. FirstOnes(P \cup {i}, more)
    <3>1. P \cup {i} = 1 .. i /\ P \cup {i} \subseteq DOMAIN more
      BY <1>3, <1>5, <2>4
    <3>2. \A k \in 1 .. i : \A j \in 1 .. k : j \in 1 .. i
      BY <1>3
    <3>. QED
      BY <3>1, <3>2 DEF FirstOnes
  <2>10. ASSUME NEW k \in 1 .. Len(more) + 1, k \notin P \cup {i}, \A j \in 1 .. k - 1 : j \in P \cup {i}
         PROVE  h.last = NameBefore(k, more)
    <3>1. P \cup {i} = 1 .. i
      BY <1>3, <2>4
    <3>2. k = i + 1
      <4>1. k > i /\ (k > i + 1 => i + 1 \in 1 .. k - 1)
        BY <1>3, <2>10, <3>1
      <4>. QED
        BY <1>3, <2>10, <3>1, <4>1
    <3>3. NameBefore(k, more) = more[i].name
      BY <1>3, <3>2 DEF NameBefore
    <3>. QED
      BY <1>2, <1>9, <3>3
  <2>11. Passed(P \cup {i}, h, more)
    BY <1>9, <2>7, <2>8, <2>9, <2>10 DEF Passed
  <2>12. \A A : Lists(f.out, A) => Lists(h.out, A)
    <3> TAKE A
    <3> HAVE Lists(f.out, A)
    <3>1. Lists(f.out \o t, A \cup {})
      BY <1>6, <2>2, ListsBoth
    <3>. QED
      BY <2>6, <3>1
  <2>. QED
    BY <2>1, <2>11, <2>12 DEF GateFits, Q
<1>10. CASE /\ call.state = "pending" /\ Put(gate, h.gate, i, call, d, "pending")
            /\ h.out = f.out /\ h.last = f.last /\ h.committed = f.committed
  <2>1. InGate(h.gate, more) /\ Q = P /\ i \notin P
    <3>1. i \notin P
      BY <1>2, <1>10
    <3>2. Put(gate, h.gate, i, call, d, "pending")
      BY <1>10
    <3>3. InGate(h.gate, more)
      BY <1>1, <3>2, PutInGate
    <3>4. Q = P
      BY <1>1, <3>1, <3>2, PutInGate
    <3>. QED
      BY <3>1, <3>3, <3>4
  <2> HIDE DEF gate, call, P, Q, n
  <2>2. FirstOnes(P, more)
    BY <1>3, <1>5 DEF FirstOnes
  <2>3. ASSUME NEW k \in P PROVE Carries(h.out, k, more[k]) /\ more[k].name # NameBefore(k, more)
    <3>1. k \in DOMAIN made /\ k \in 1 .. n + 1 /\ more[k] = made[k]
      BY <1>3, <1>5, <2>1
    <3>. QED
      BY <1>4, <1>5, <1>10, <3>1
  <2>4. ASSUME NEW k \in 1 .. Len(more) + 1, k \notin P, \A j \in 1 .. k - 1 : j \in P
        PROVE  h.last = NameBefore(k, more)
    <3>1. k \in 1 .. n + 1
      <4>1. i \notin 1 .. k - 1
        BY <2>1, <2>4
      <4>2. Len(more) <= n + 1 /\ (Len(more) = n + 1 => i = n + 1)
        <5> DEFINE m == Len(more)
        <5>1. m \in Nat /\ \A j \in 1 .. m : j \in 1 .. n \/ j = i
          BY <1>3
        <5>2. i \in 1 .. n + 1 /\ n \in Nat
          BY <1>3
        <5> HIDE DEF m, i, n
        <5>3. m > n => m = i \/ m \in 1 .. n
          BY <5>1, <5>2
        <5>4. m > n => m = n + 1
          BY <5>1, <5>2, <5>3
        <5>5. m = n + 1 => i = n + 1
          BY <5>1, <5>2, <5>3
        <5>. QED
          BY <5>1, <5>2, <5>4, <5>5 DEF m
      <4>. QED
        BY <1>3, <4>1, <4>2
    <3>. QED
      BY <1>4, <1>5, <1>10, <2>4, <3>1
  <2>5. Passed(P, h, more)
    BY <1>5, <1>10, <2>2, <2>3, <2>4 DEF Passed
  <2>. QED
    BY <1>10, <2>1, <2>5 DEF GateFits, Q
<1>. QED
  BY <1>8, <1>9, <1>10 DEF GateStep

-----------------------------------------------------------------------------
(* A delta of a call, through the assembly and the stopper.                *)

\* The finalizers that get along: no rewritten call before a timestamp, no
\* reasoning loop stopper beside a stopper in exact mode.
Sound(c) == ~(c.rewrite /\ c.stamp) /\ ~(c.rls /\ c.tls = "exact")

Assembles(f, made) == f.calls \in Seq(Calls) /\ Alike(f.calls, made)
Relayed(f, made) == /\ Indices(f.out) = DOMAIN made
                    /\ \A k \in DOMAIN made : Carries(f.out, k, made[k])

\* What an attempt has let out of the calls made: with the assembly holding
\* them, nothing; else all, or what the stopper let through.
CallsFit(f, made) ==
  /\ HasOut(f) /\ Assembles(f, made)
  /\ HoldsCalls => Indices(f.out) = {}
  /\ chain.tls = "exact" => GateFits(f, made)
  /\ (~HoldsCalls /\ chain.tls # "exact") => Relayed(f, made)

CallFields == {"out", "hasTool", "calls", "gate", "signatures", "committed", "last"}

LEMMA AssembleStep ==
  ASSUME NEW made, Made(made), NEW d, NEW more, Grows(made, d, more),
         NEW f, HasOut(f), Assembles(f, made)
  PROVE  Assembles(Assemble(f, d), more) /\ Keeps(f, Assemble(f, d), {"calls"})
<1> DEFINE calls == f.calls
           i == d.index
           g == Assemble(f, d)
<1>1. /\ calls \in Seq(Calls) /\ DOMAIN calls = DOMAIN made
      /\ \A k \in DOMAIN made : calls[k].name = made[k].name /\ calls[k].pieces = made[k].pieces
  BY DEF Assembles, Alike
<1>2. /\ DOMAIN calls = 1 .. Len(calls) /\ Len(calls) \in Nat
      /\ DOMAIN made = 1 .. Len(made) /\ Len(made) \in Nat
  <2>1. made \in Seq(Deltas)
    BY DEF Made
  <2>. QED
    BY <1>1, <2>1, LenProperties
<1>3. /\ i \in Nat /\ d.pieces \in Seq(Pieces) /\ more[i].name \in Names
      /\ DOMAIN more = DOMAIN made \cup {i} /\ \A k \in DOMAIN made \ {i} : more[k] = made[k]
      /\ more[i].pieces = d.pieces
  BY DEF Grows, Made, Deltas
<1>4. g.calls = Grown(calls, d) /\ Keeps(f, g, {"calls"})
  BY DEF Assemble, Keeps, HasOut, Fields
<1> HIDE DEF g
<1>5. Grown(calls, d) \in Seq(Calls) /\ Alike(Grown(calls, d), more)
  <2> HIDE DEF calls
  <2>1. CASE i \in DOMAIN made
    <3> DEFINE b == [calls[i] EXCEPT !.pieces = @ \o d.pieces]
    <3>1. i <= Len(calls) /\ i \in DOMAIN calls /\ made[i].pieces = <<>> /\ more[i].name = made[i].name
      BY <1>1, <1>2, <2>1 DEF Grows
    <3>2. calls[i] \in Calls /\ calls[i].pieces = <<>> /\ calls[i].name = made[i].name
      BY <1>1, <1>2, <3>1, ElementOfSeq
    <3>3. <<>> \o d.pieces = d.pieces
      BY <1>3, ConcatEmptySeq
    <3>4. b \in Calls /\ b.name = more[i].name /\ b.pieces = more[i].pieces
      BY <1>3, <3>1, <3>2, <3>3 DEF Calls
    <3>5. Grown(calls, d) = [calls EXCEPT ![i] = b]
      BY <3>1 DEF Grown
    <3> HIDE DEF b
    <3>6. Grown(calls, d) \in Seq(Calls)
      BY <1>1, <3>1, <3>4, <3>5, ExceptSeq
    <3>7. Alike(Grown(calls, d), more)
      BY <1>1, <1>3, <2>1, <3>1, <3>4, <3>5 DEF Alike
    <3>. QED
      BY <3>6, <3>7
  <2>2. CASE i \notin DOMAIN made
    <3> DEFINE b == [name |-> d.name, pieces |-> d.pieces]
    <3>1. i = Len(made) + 1 /\ more[i].name = d.name
      BY <2>2 DEF Grows
    <3>2. Len(made) = Len(calls)
      <4> DEFINE m == Len(made)
                 n == Len(calls)
      <4>1. m \in Nat /\ n \in Nat /\ 1 .. m = 1 .. n
        BY <1>1, <1>2
      <4> HIDE DEF m, n
      <4>2. m = n
        BY <4>1
      <4>. QED
        BY <4>2 DEF m, n
    <3>3. b \in Calls /\ b.name = more[i].name /\ b.pieces = more[i].pieces
      BY <1>3, <3>1 DEF Calls
    <3>4. Grown(calls, d) = Append(calls, b) /\ i = Len(calls) + 1
      <4>1. i = Len(calls) + 1 /\ ~(d.index <= Len(calls))
        BY <1>2, <3>1, <3>2
      <4> HIDE DEF b
      <4>. QED
        BY <4>1, Zenon DEF Grown, b
    <3> HIDE DEF b
    <3>5. /\ Append(calls, b) \in Seq(Calls) /\ Len(Append(calls, b)) = Len(calls) + 1
          /\ \A k \in 1 .. Len(calls) : Append(calls, b)[k] = calls[k]
          /\ Append(calls, b)[Len(calls) + 1] = b
      BY <1>1, <3>3, AppendProperties
    <3>6. DOMAIN Append(calls, b) = DOMAIN calls \cup {i}
      BY <1>2, <3>4, <3>5, LenProperties
    <3>7. Alike(Append(calls, b), more)
      BY <1>1, <1>2, <1>3, <2>2, <3>3, <3>4, <3>5, <3>6 DEF Alike
    <3>. QED
      BY <3>4, <3>5, <3>7
  <2>. QED
    BY <2>1, <2>2
<1>. QED
  BY <1>4, <1>5 DEF Assembles, g

\* Without the assembly and the stopper a delta goes to the client.
LEMMA RelayStep ==
  ASSUME NEW made, Made(made), NEW d, NEW more, Grows(made, d, more),
         NEW f, HasOut(f), Relayed(f, made), NEW h, h.out = f.out \o <<d>>
  PROVE  Relayed(h, more) /\ \A A : Lists(f.out, A) => Lists(h.out, A)
<1> DEFINE i == d.index
<1>1. /\ f.out \in Seq(Events) /\ Indices(f.out) = DOMAIN made
      /\ \A k \in DOMAIN made : Carries(f.out, k, made[k])
  BY DEF HasOut, Relayed
<1>2. /\ d \in Deltas /\ DOMAIN more = DOMAIN made \cup {i}
      /\ \A k \in DOMAIN made \ {i} : more[k] = made[k]
      /\ more[i].pieces = d.pieces
  BY DEF Grows
<1>3. /\ d \in Events /\ d.kind # "text" /\ <<d>> \in Seq(Events)
      /\ Indices(<<d>>) = {i} /\ Lists(<<d>>, {}) /\ Carries(<<d>>, i, d)
  <2>1. d \in CallEvents /\ d.kind # "text"
    BY <1>2 DEF Deltas, CallEvents
  <2>2. d \in Events
    BY <2>1 DEF Events
  <2>3. Indices(<<d>>) = {i} /\ Lists(<<d>>, {}) /\ Carries(<<d>>, i, d)
    BY <2>1, OneEvent
  <2>4. <<d>> \in Seq(Events)
    BY <2>2
  <2>. QED
    BY <2>1, <2>2, <2>3, <2>4
<1>4. Indices(h.out) = DOMAIN more
  <2>1. f.out \in Seq(Events) /\ <<d>> \in Seq(Events)
    BY <1>1, <1>3
  <2>2. Indices(f.out \o <<d>>) = Indices(f.out) \cup Indices(<<d>>)
    BY <2>1, IndicesBoth
  <2>. QED
    BY <1>1, <1>2, <1>3, <2>2
<1>5. ASSUME NEW k \in DOMAIN more PROVE Carries(f.out \o <<d>>, k, more[k])
  <2>1. CASE k # i
    <3>1. k \in DOMAIN made /\ more[k] = made[k] /\ Carries(f.out, k, made[k])
      BY <1>1, <1>2, <2>1
    <3>2. Under(k, <<d>>) = {}
      BY <1>3, <2>1, IndicesUnder
    <3>3. Carries(f.out \o <<d>>, k, made[k])
      BY <1>1, <1>3, <3>1, <3>2, CarriesFirst
    <3>. QED
      BY <3>1, <3>3
  <2>2. CASE k = i /\ i \in DOMAIN made
    <3>1. d.name = "none" /\ made[i].pieces = <<>> /\ more[i].name = made[i].name
      BY <2>2 DEF Grows
    <3>2. Carries(f.out, i, made[i])
      BY <1>1, <2>2
    <3>3. Carries(f.out \o <<d>>, i, more[i])
      BY <1>1, <1>2, <1>3, <3>1, <3>2, CarriesMore
    <3>. QED
      BY <2>2, <3>3
  <2>3. CASE k = i /\ i \notin DOMAIN made
    <3>1. more[i].name = d.name
      BY <2>3 DEF Grows
    <3>2. Carries(<<d>>, i, more[i])
      BY <1>2, <1>3, <3>1, CarriesAlike
    <3>3. Under(i, f.out) = {}
      BY <1>1, <2>3, IndicesUnder
    <3>4. Carries(f.out \o <<d>>, i, more[i])
      BY <1>1, <1>3, <3>2, <3>3, CarriesSecond
    <3>. QED
      BY <2>3, <3>4
  <2>. QED
    BY <2>1, <2>2, <2>3
<1>6. ASSUME NEW A, Lists(f.out, A) PROVE Lists(h.out, A)
  <2>1. Lists(f.out \o <<d>>, A \cup {})
    BY <1>1, <1>3, <1>6, ListsBoth
  <2>. QED
    BY <2>1
<1>. QED
  BY <1>4, <1>5, <1>6 DEF Relayed

\* A delta of a call, whatever the finalizers.
LEMMA CallDeltaStep ==
  ASSUME Sound(chain), NEW made, Made(made), NEW d, NEW more, Grows(made, d, more),
         NEW f, CallsFit(f, made)
  PROVE  /\ CallsFit(CallDelta(f, d), more) /\ Keeps(f, CallDelta(f, d), CallFields)
         /\ \A A : Lists(f.out, A) => Lists(CallDelta(f, d).out, A)
<1> DEFINE g == Assemble(f, d)
           h == CallDelta(f, d)
<1>1. HasOut(f) /\ Assembles(f, made)
  BY DEF CallsFit
<1>2. Assembles(g, more) /\ Keeps(f, g, {"calls"})
  BY <1>1, AssembleStep
<1>3. /\ chain.tls = "exact" => h = Gate(g, d)
      /\ chain.tls = "observer" => h = Watch(g, d)
      /\ (chain.tls # "exact" /\ chain.tls # "observer") => h = IF HoldsCalls THEN g ELSE Emit(g, d)
  BY DEF CallDelta
<1> HIDE DEF g, h
<1>4. /\ g.out = f.out /\ g.hasTool = f.hasTool /\ g.gate = f.gate /\ g.last = f.last
      /\ g.committed = f.committed /\ HasOut(g)
  BY <1>1, <1>2 DEF Keeps, Fields, HasOut
<1>5. d \in Deltas /\ d \in Events
  <2>1. d \in Deltas
    BY DEF Grows
  <2>2. d \in CallEvents
    BY <2>1 DEF Deltas, CallEvents
  <2>. QED
    BY <2>1, <2>2 DEF Events
<1>6. CASE chain.tls = "exact"
  <2>1. ~HoldsCalls /\ h = Gate(g, d)
    BY <1>3, <1>6 DEF Sound, HoldsCalls
  <2>2. GateFits(f, made)
    BY <1>6 DEF CallsFit
  <2>3. GateFits(g, made) /\ InGate(g.gate, made)
    BY <1>4, <2>2 DEF GateFits, Passed
  <2>4. g.gate \in Seq(Held) /\ d.index \in 1 .. Len(g.gate) + 1 /\ (d.index <= Len(g.gate) \/ d.name \in Names)
    <3>1. Belongs(g.gate, made, d, more)
      BY <2>3, AwaitedCall
    <3>2. d.index \in 1 .. Len(g.gate) + 1 /\ (d.index <= Len(g.gate) \/ d.name \in Names)
      BY <3>1 DEF Belongs
    <3>3. g.gate \in Seq(Held)
      BY <2>3 DEF InGate
    <3>. QED
      BY <3>2, <3>3
  <2>5. /\ GateStep(g, h, d) /\ HasOut(h)
        /\ Keeps(g, h, {"out", "hasTool", "gate", "last", "committed"})
    BY <1>4, <1>5, <2>1, <2>4, GateSteps
  <2>6. GateFits(h, more) /\ \A A : Lists(g.out, A) => Lists(h.out, A)
    BY <1>4, <2>3, <2>5, GateKeepsItsCalls
  <2>7. h.calls = g.calls /\ Keeps(f, h, CallFields)
    BY <1>2, <2>5 DEF Keeps, Fields, CallFields
  <2>8. CallsFit(h, more)
    BY <1>2, <1>6, <2>1, <2>5, <2>6, <2>7 DEF CallsFit, Assembles
  <2>. QED
    BY <1>4, <2>6, <2>7, <2>8 DEF h
<1>7. CASE chain.tls = "observer"
  <2>1. HoldsCalls /\ h = Watch(g, d)
    BY <1>3, <1>7 DEF HoldsCalls
  <2>2. Keeps(g, h, {"signatures"})
    <3>1. DOMAIN g = Fields
      BY <1>4 DEF HasOut
    <3>. QED
      BY <2>1, <3>1 DEF Watch, Keeps, Fields
  <2>3. h.calls = g.calls /\ h.out = f.out /\ Keeps(f, h, CallFields) /\ HasOut(h)
    BY <1>2, <1>4, <2>2 DEF Keeps, Fields, CallFields, HasOut
  <2>4. Indices(f.out) = {}
    BY <2>1 DEF CallsFit
  <2>5. CallsFit(h, more)
    BY <1>2, <1>7, <2>1, <2>3, <2>4 DEF CallsFit, Assembles
  <2>. QED
    BY <2>3, <2>5 DEF h
<1>8. CASE chain.tls # "exact" /\ chain.tls # "observer" /\ HoldsCalls
  <2>1. h = g
    BY <1>3, <1>8
  <2>2. Indices(f.out) = {}
    BY <1>8 DEF CallsFit
  <2>3. CallsFit(h, more)
    BY <1>2, <1>4, <1>8, <2>1, <2>2 DEF CallsFit
  <2>4. Keeps(f, h, CallFields)
    BY <1>2, <2>1 DEF Keeps, Fields, CallFields
  <2>. QED
    BY <1>4, <2>1, <2>3, <2>4 DEF h
<1>9. CASE chain.tls # "exact" /\ chain.tls # "observer" /\ ~HoldsCalls
  <2>1. h = Emit(g, d)
    BY <1>3, <1>9
  <2>2. LetsOut(g, h, <<d>>)
    BY <1>4, <1>5, <2>1, EmitLetsOut
  <2>3. /\ h.out = f.out \o <<d>> /\ h.calls = g.calls
        /\ HasOut(h) /\ Keeps(f, h, CallFields)
    BY <1>2, <1>4, <2>2 DEF LetsOut, Keeps, Fields, CallFields, HasOut
  <2>4. Relayed(f, made)
    BY <1>9 DEF CallsFit
  <2>5. Relayed(h, more) /\ \A A : Lists(f.out, A) => Lists(h.out, A)
    BY <1>1, <2>3, <2>4, RelayStep
  <2>6. CallsFit(h, more)
    BY <1>2, <1>9, <2>3, <2>5 DEF CallsFit, Assembles
  <2>. QED
    BY <2>3, <2>5, <2>6 DEF h
<1>. QED
  BY <1>6, <1>7, <1>8, <1>9

-----------------------------------------------------------------------------
(* Text.                                                                   *)

\* The numbers of the last deltas of n.
LastOf(ids, n) == /\ ids \in Seq(Nat) /\ Len(ids) <= n
                  /\ \A k \in DOMAIN ids : ids[k] = n - Len(ids) + k

LEMMA LastOfNone ==
  ASSUME NEW n \in Nat
  PROVE  LastOf(<<>>, n)
BY DEF LastOf

LEMMA LastOfMore ==
  ASSUME NEW n \in Nat, NEW ids, LastOf(ids, n)
  PROVE  LastOf(Append(ids, n + 1), n + 1) /\ Len(Append(ids, n + 1)) = Len(ids) + 1
<1> DEFINE all == Append(ids, n + 1)
<1>1. ids \in Seq(Nat) /\ Len(ids) <= n /\ \A k \in DOMAIN ids : ids[k] = n - Len(ids) + k
  BY DEF LastOf
<1>2. /\ all \in Seq(Nat) /\ Len(all) = Len(ids) + 1 /\ all[Len(ids) + 1] = n + 1
      /\ \A k \in 1 .. Len(ids) : all[k] = ids[k]
  BY <1>1, AppendProperties
<1> HIDE DEF all
<1>3. DOMAIN ids = 1 .. Len(ids) /\ Len(ids) \in Nat /\ DOMAIN all = 1 .. Len(all)
  BY <1>1, <1>2, LenProperties
<1>4. \A k \in DOMAIN all : all[k] = n + 1 - Len(all) + k
  BY <1>1, <1>2, <1>3
<1>5. Len(all) <= n + 1
  BY <1>1, <1>2, <1>3
<1>6. LastOf(all, n + 1)
  BY <1>2, <1>4, <1>5 DEF LastOf
<1>. QED
  BY <1>2, <1>6 DEF all

LEMMA LastOfTail ==
  ASSUME NEW n \in Nat, NEW ids, LastOf(ids, n), Len(ids) > 0
  PROVE  /\ LastOf(Tail(ids), n) /\ Len(Tail(ids)) = Len(ids) - 1
         /\ Head(ids) = n - Len(ids) + 1 /\ Head(ids) \in Nat
<1>1. ids \in Seq(Nat) /\ Len(ids) <= n /\ \A k \in DOMAIN ids : ids[k] = n - Len(ids) + k
  BY DEF LastOf
<1>2. DOMAIN ids = 1 .. Len(ids) /\ Len(ids) \in Nat /\ ids # <<>>
  BY <1>1, LenProperties, EmptySeq
<1>3. /\ Tail(ids) \in Seq(Nat) /\ Len(Tail(ids)) = Len(ids) - 1
      /\ \A k \in 1 .. Len(Tail(ids)) : Tail(ids)[k] = ids[k + 1]
      /\ Head(ids) = ids[1] /\ Head(ids) \in Nat
  BY <1>1, <1>2, HeadTailProperties
<1>4. DOMAIN Tail(ids) = 1 .. Len(Tail(ids))
  BY <1>3, LenProperties
<1>5. Head(ids) = n - Len(ids) + 1
  BY <1>1, <1>2, <1>3
<1>6. \A k \in DOMAIN Tail(ids) : Tail(ids)[k] = n - Len(Tail(ids)) + k
  <2> DEFINE m == Len(ids)
  <2> TAKE k \in DOMAIN Tail(ids)
  <2>1. k \in 1 .. m - 1 /\ m \in Nat /\ Len(Tail(ids)) = m - 1
    BY <1>2, <1>3, <1>4
  <2>2. Tail(ids)[k] = ids[k + 1] /\ k + 1 \in DOMAIN ids
    BY <1>2, <1>3, <1>4, <2>1
  <2>3. Tail(ids)[k] = n - m + (k + 1)
    BY <1>1, <2>2
  <2> DEFINE l == Len(Tail(ids))
  <2>4. l = m - 1 /\ m \in Nat /\ k \in Int
    BY <2>1
  <2> HIDE DEF m, l
  <2>5. n - m + (k + 1) = n - l + k
    BY <2>4
  <2>. QED
    BY <2>3, <2>5 DEF l
<1>. QED
  BY <1>1, <1>2, <1>3, <1>5, <1>6 DEF LastOf

LEMMA LastOfListed ==
  ASSUME NEW n \in Nat, NEW ids, LastOf(ids, n)
  PROVE  /\ Len(ids) \in 0 .. n /\ Range(ids) = (n - Len(ids) + 1) .. n
         /\ Texts(ids) \in Seq(Events) /\ Indices(Texts(ids)) = {}
         /\ Lists(Texts(ids), (n - Len(ids) + 1) .. n)
<1>1. ids \in Seq(Nat) /\ Len(ids) <= n /\ \A k \in DOMAIN ids : ids[k] = n - Len(ids) + k
  BY DEF LastOf
<1>2. DOMAIN ids = 1 .. Len(ids) /\ Len(ids) \in Nat
  BY <1>1, LenProperties
<1> DEFINE m == Len(ids)
<1>3. Range(ids) = (n - m + 1) .. n
  <2>1. Range(ids) = {ids[k] : k \in 1 .. m}
    BY <1>2 DEF Range
  <2>2. m \in Nat /\ m <= n /\ \A k \in 1 .. m : ids[k] = n - m + k
    BY <1>1, <1>2
  <2> HIDE DEF m
  <2>3. \A k \in 1 .. m : ids[k] \in (n - m + 1) .. n
    BY <2>2
  <2>4. ASSUME NEW a \in (n - m + 1) .. n PROVE \E k \in 1 .. m : ids[k] = a
    <3>1. a - (n - m) \in 1 .. m /\ n - m + (a - (n - m)) = a
      BY <2>2
    <3>. QED
      BY <2>2, <3>1
  <2>. QED
    BY <2>1, <2>3, <2>4
<1>4. \A i, j \in DOMAIN ids : i < j => ids[i] < ids[j]
  BY <1>1, <1>2
<1>5. /\ Texts(ids) \in Seq(TextEvents) /\ Lists(Texts(ids), Range(ids))
      /\ Indices(Texts(ids)) = {}
  BY <1>1, <1>4, TextsInOrder
<1>6. Texts(ids) \in Seq(Events)
  BY <1>5 DEF Events
<1>. QED
  BY <1>1, <1>2, <1>3, <1>5, <1>6

-----------------------------------------------------------------------------
(* What text does not disturb.                                             *)

SameCalls(f, h) == /\ h.out = f.out /\ h.hasTool = f.hasTool /\ h.calls = f.calls
                   /\ h.gate = f.gate /\ h.last = f.last /\ h.committed = f.committed

LEMMA CallsFrame ==
  ASSUME NEW f, NEW made, CallsFit(f, made), NEW h, DOMAIN h = Fields, SameCalls(f, h)
  PROVE  CallsFit(h, made)
<1>1. HasOut(h) /\ Assembles(h, made)
  BY DEF CallsFit, HasOut, Assembles, SameCalls
<1>2. HoldsCalls => Indices(h.out) = {}
  BY DEF CallsFit, SameCalls
<1>3. chain.tls = "exact" => GateFits(h, made)
  BY DEF CallsFit, SameCalls, GateFits, Passed
<1>4. (~HoldsCalls /\ chain.tls # "exact") => Relayed(h, made)
  BY DEF CallsFit, SameCalls, Relayed
<1>. QED
  BY <1>1, <1>2, <1>3, <1>4 DEF CallsFit

LEMMA TextLeavesCalls ==
  ASSUME NEW f, NEW made, CallsFit(f, made), NEW events \in Seq(Events), Indices(events) = {},
         NEW h, LetsOut(f, h, events)
  PROVE  CallsFit(h, made)
<1>1. HasOut(f) /\ Assembles(f, made) /\ f.out \in Seq(Events)
  BY DEF CallsFit, HasOut
<1>2. /\ h.out = f.out \o events /\ HasOut(h) /\ h.calls = f.calls /\ h.gate = f.gate
      /\ h.last = f.last /\ h.committed = f.committed
  BY DEF LetsOut, Keeps, Fields, HasOut
<1>3. Indices(h.out) = Indices(f.out)
  <2>1. Indices(f.out \o events) = Indices(f.out) \cup Indices(events)
    BY <1>1, IndicesBoth
  <2>. QED
    BY <1>2, <2>1
<1>4. ASSUME NEW k, NEW call, Carries(f.out, k, call) PROVE Carries(h.out, k, call)
  <2>1. Under(k, events) = {}
    BY IndicesUnder
  <2>2. Carries(f.out \o events, k, call)
    BY <1>1, <1>4, <2>1, CarriesFirst
  <2>. QED
    BY <1>2, <2>2
<1>5. Assembles(h, made)
  BY <1>1, <1>2 DEF Assembles
<1>6. HoldsCalls => Indices(h.out) = {}
  BY <1>3 DEF CallsFit
<1>7. chain.tls = "exact" => GateFits(h, made)
  <2> HAVE chain.tls = "exact"
  <2> DEFINE P == LetThrough(f.gate)
  <2>1. InGate(f.gate, made) /\ Passed(P, f, made)
    BY DEF CallsFit, GateFits
  <2> HIDE DEF P
  <2>2. Passed(P, h, made)
    BY <1>2, <1>3, <1>4, <2>1 DEF Passed
  <2>. QED
    BY <1>2, <2>1, <2>2 DEF GateFits, P
<1>8. (~HoldsCalls /\ chain.tls # "exact") => Relayed(h, made)
  BY <1>3, <1>4 DEF CallsFit, Relayed
<1>. QED
  BY <1>2, <1>5, <1>6, <1>7, <1>8 DEF CallsFit

LEMMA EmitText ==
  ASSUME NEW f, NEW made, CallsFit(f, made), NEW id \in Nat
  PROVE  /\ CallsFit(Emit(f, Text(id)), made)
         /\ Keeps(f, Emit(f, Text(id)), {"out", "hasTool"})
         /\ \A A : Lists(f.out, A) /\ (\A a \in A : a < id) => Lists(Emit(f, Text(id)).out, A \cup {id})
<1> DEFINE e == Text(id)
           h == Emit(f, e)
<1>1. e.kind = "text" /\ e.id = id /\ e \in TextEvents
  BY DEF Text, TextEvents
<1> HIDE DEF e
<1>2. e \in Events /\ <<e>> \in Seq(Events)
  BY <1>1 DEF Events
<1>3. Indices(<<e>>) = {} /\ Lists(<<e>>, {id})
  BY <1>1, OneEvent
<1>4. HasOut(f) /\ f.out \in Seq(Events)
  BY DEF CallsFit, HasOut
<1>5. LetsOut(f, h, <<e>>)
  BY <1>2, <1>4, EmitLetsOut
<1> HIDE DEF h
<1>6. CallsFit(h, made)
  BY <1>2, <1>3, <1>5, TextLeavesCalls
<1>7. ASSUME NEW A, Lists(f.out, A), \A a \in A : a < id PROVE Lists(h.out, A \cup {id})
  <2>1. \A a \in A, b \in {id} : a < b
    BY <1>7
  <2>2. Lists(f.out \o <<e>>, A \cup {id})
    BY <1>2, <1>3, <1>4, <1>7, <2>1, ListsBoth
  <2>. QED
    BY <1>5, <2>2 DEF LetsOut
<1>8. Keeps(f, h, {"out", "hasTool"})
  BY <1>5 DEF LetsOut
<1>. QED
  BY <1>6, <1>7, <1>8 DEF h, e

\* Of n deltas of text, what has been let out, and what is held: the last ones,
\* in an open pseudo-call or in the tail.
Listed(f, n) == IF chain.stamp /\ ~chain.nudge THEN 1 .. (n - Len(f.tail))
                ELSE (1 .. (n - Len(f.xml))) \ f.turned
Tailed(tail, n) == IF chain.stamp
                   THEN LastOf(tail, n) /\ Len(tail) = IF n <= TailSize THEN n ELSE TailSize
                   ELSE tail = <<>>
Shown(f, n) ==
  /\ LastOf(f.xml, n) /\ f.turned \subseteq 1 .. (n - Len(f.xml))
  /\ f.skip => f.xml = <<>>
  /\ ~chain.rewrite => f.xml = <<>> /\ f.turned = {}
  /\ f.xml # <<>> => f.made = <<>>
  /\ Tailed(f.tail, n)
  /\ Lists(f.out, Listed(f, n))

LEMMA TailStep ==
  ASSUME chain.stamp, NEW n \in Nat, NEW tail, Tailed(tail, n)
  PROVE  LET all == Append(tail, n + 1)
             full == Len(all) > TailSize
         IN  /\ Tailed(IF full THEN Tail(all) ELSE all, n + 1)
             /\ IF full THEN /\ Len(IF full THEN Tail(all) ELSE all) = Len(tail)
                             /\ Head(all) = n - Len(tail) + 1 /\ Head(all) \in Nat
                        ELSE Len(tail) = n /\ Len(IF full THEN Tail(all) ELSE all) = n + 1
<1> DEFINE all == Append(tail, n + 1)
           full == Len(all) > TailSize
<1>1. LastOf(tail, n) /\ Len(tail) = (IF n <= TailSize THEN n ELSE TailSize) /\ Len(tail) \in Nat
  BY LastOfListed DEF Tailed
<1>2. TailSize \in Nat \ {0, 1}
  BY SetupAssumption
<1>3. LastOf(all, n + 1) /\ Len(all) = Len(tail) + 1
  BY <1>1, LastOfMore
<1> HIDE DEF all
<1>4. CASE full
  <2>1. /\ LastOf(Tail(all), n + 1) /\ Len(Tail(all)) = Len(all) - 1
        /\ Head(all) = (n + 1) - Len(all) + 1 /\ Head(all) \in Nat
    <3>1. n + 1 \in Nat /\ Len(all) > 0
      BY <1>1, <1>3
    <3>. QED
      BY <1>3, <3>1, LastOfTail
  <2>2. Len(tail) = TailSize /\ ~(n + 1 <= TailSize)
    BY <1>1, <1>2, <1>3, <1>4
  <2>3. Len(Tail(all)) = Len(tail)
    BY <1>1, <1>3, <2>1
  <2>4. Head(all) = n - Len(tail) + 1
    BY <1>1, <1>3, <2>1
  <2>5. Tailed(Tail(all), n + 1)
    BY <2>1, <2>2, <2>3 DEF Tailed
  <2>. QED
    BY <1>4, <2>1, <2>3, <2>4, <2>5 DEF all
<1>5. CASE ~full
  <2>1. Len(tail) = n /\ n + 1 <= TailSize /\ Len(all) = n + 1
    BY <1>1, <1>2, <1>3, <1>5
  <2>2. Tailed(all, n + 1)
    BY <1>3, <2>1 DEF Tailed
  <2>. QED
    BY <1>5, <2>1, <2>2 DEF all
<1>. QED
  BY <1>4, <1>5

\* A delta that the timestamp sees.
LEMMA StampShown ==
  ASSUME Sound(chain), NEW n \in Nat, NEW f, NEW made, CallsFit(f, made),
         Shown(f, n), f.xml = <<>>
  PROVE  /\ Shown(Stamp(f, n + 1, FALSE), n + 1) /\ CallsFit(Stamp(f, n + 1, FALSE), made)
         /\ Keeps(f, Stamp(f, n + 1, FALSE), {"out", "hasTool", "tail"})
<1> DEFINE h == Stamp(f, n + 1, FALSE)
           all == Append(f.tail, n + 1)
           full == Len(all) > TailSize
           tail2 == IF full THEN Tail(all) ELSE all
           watched == [f EXCEPT !.tail = tail2]
<1>1. /\ f.turned \subseteq 1 .. n /\ (~chain.rewrite => f.turned = {})
      /\ Tailed(f.tail, n) /\ Lists(f.out, Listed(f, n)) /\ Len(f.xml) = 0
  BY DEF Shown
<1>2. /\ LastOf(<<>>, n + 1) /\ n + 1 \in Nat
  BY LastOfNone
<1>3. HasOut(f)
  BY DEF CallsFit
<1>4. \A g : (/\ Keeps(f, g, {"out", "hasTool", "tail"}) /\ Tailed(g.tail, n + 1)
              /\ Lists(g.out, Listed(g, n + 1)))
             => Shown(g, n + 1)
  <2> TAKE g
  <2> HAVE /\ Keeps(f, g, {"out", "hasTool", "tail"}) /\ Tailed(g.tail, n + 1)
           /\ Lists(g.out, Listed(g, n + 1))
  <2>1. g.xml = <<>> /\ g.turned = f.turned /\ Len(g.xml) = 0
    BY DEF Keeps, Fields
  <2>2. g.turned \subseteq 1 .. (n + 1 - Len(g.xml))
    BY <1>1, <2>1
  <2>3. ~chain.rewrite => g.xml = <<>> /\ g.turned = {}
    BY <1>1, <2>1
  <2>. QED
    BY <1>2, <2>1, <2>2, <2>3 DEF Shown
<1>5. h = IF chain.stamp /\ ~chain.nudge
          THEN IF full THEN Emit(watched, Text(Head(all))) ELSE watched
          ELSE IF chain.stamp THEN Emit(watched, Text(n + 1)) ELSE Emit(f, Text(n + 1))
  BY Zenon DEF Stamp
<1>6. CASE ~chain.stamp
  <2>1. h = Emit(f, Text(n + 1))
    BY <1>5, <1>6
  <2> HIDE DEF h
  <2>2. CallsFit(h, made) /\ Keeps(f, h, {"out", "hasTool"})
        /\ \A A : Lists(f.out, A) /\ (\A a \in A : a < n + 1) => Lists(h.out, A \cup {n + 1})
    BY <1>2, <2>1, EmitText
  <2>3. Listed(f, n) = (1 .. n) \ f.turned
    BY <1>1, <1>6 DEF Listed
  <2>4. Lists(h.out, ((1 .. n) \ f.turned) \cup {n + 1})
    <3>1. \A a \in (1 .. n) \ f.turned : a < n + 1
      OBVIOUS
    <3>. QED
      BY <1>1, <2>2, <2>3, <3>1
  <2>5. Keeps(f, h, {"out", "hasTool", "tail"}) /\ h.tail = f.tail /\ h.xml = f.xml /\ h.turned = f.turned
    BY <2>2 DEF Keeps, Fields
  <2>6. Listed(h, n + 1) = ((1 .. n) \ f.turned) \cup {n + 1}
    <3>1. Listed(h, n + 1) = (1 .. n + 1) \ f.turned
      BY <1>1, <1>6, <2>5 DEF Listed
    <3>2. n + 1 \notin f.turned
      BY <1>1
    <3>. QED
      BY <3>1, <3>2
  <2>7. Tailed(h.tail, n + 1)
    BY <1>1, <1>6, <2>5 DEF Tailed
  <2>. QED
    BY <1>4, <2>2, <2>4, <2>5, <2>6, <2>7 DEF h
<1>7. CASE chain.stamp
  <2>1. /\ Tailed(tail2, n + 1)
        /\ full => Len(tail2) = Len(f.tail) /\ Head(all) = n - Len(f.tail) + 1 /\ Head(all) \in Nat
        /\ ~full => Len(f.tail) = n /\ Len(tail2) = n + 1
    BY <1>1, <1>7, TailStep
  <2>2. Len(f.tail) \in 0 .. n
    BY <1>1, <1>7, LastOfListed DEF Tailed
  <2>3. f.turned = {}
    BY <1>1, <1>7 DEF Sound
  <2> HIDE DEF tail2
  <2>4. watched.tail = tail2 /\ Keeps(f, watched, {"tail"}) /\ SameCalls(f, watched)
        /\ DOMAIN watched = Fields
    BY <1>3 DEF HasOut, Keeps, Fields, SameCalls
  <2> HIDE DEF watched, full, all
  <2>5. CallsFit(watched, made) /\ watched.out = f.out
    BY <2>4, CallsFrame DEF SameCalls
  <2>6. CASE chain.nudge
    <3>1. h = Emit(watched, Text(n + 1))
      BY <1>5, <1>7, <2>6
    <3> HIDE DEF h
    <3>2. CallsFit(h, made) /\ Keeps(watched, h, {"out", "hasTool"})
          /\ \A A : Lists(watched.out, A) /\ (\A a \in A : a < n + 1) => Lists(h.out, A \cup {n + 1})
      BY <1>2, <2>5, <3>1, EmitText
    <3>3. Listed(f, n) = 1 .. n
      BY <1>1, <2>3, <2>6 DEF Listed
    <3>4. Lists(h.out, (1 .. n) \cup {n + 1})
      <4>1. \A a \in 1 .. n : a < n + 1
        OBVIOUS
      <4>. QED
        BY <1>1, <2>5, <3>2, <3>3, <4>1
    <3>5. Keeps(f, h, {"out", "hasTool", "tail"}) /\ h.tail = tail2 /\ h.xml = f.xml /\ h.turned = f.turned
      BY <2>4, <3>2 DEF Keeps, Fields
    <3>6. Listed(h, n + 1) = (1 .. n) \cup {n + 1}
      <4>1. Listed(h, n + 1) = 1 .. n + 1
        BY <1>1, <2>3, <2>6, <3>5 DEF Listed
      <4>. QED
        BY <4>1
    <3>. QED
      BY <1>4, <2>1, <3>2, <3>4, <3>5, <3>6 DEF h
  <2>7. CASE ~chain.nudge /\ full
    <3>1. h = Emit(watched, Text(Head(all)))
      BY <1>5, <1>7, <2>7
    <3> DEFINE m == Len(f.tail)
               id == n - m + 1
    <3>0. m \in 0 .. n
      BY <2>2
    <3>2. Head(all) = id /\ id \in Nat
      BY <2>1, <2>7
    <3> HIDE DEF h, id, m
    <3>3. CallsFit(h, made) /\ Keeps(watched, h, {"out", "hasTool"})
          /\ \A A : Lists(watched.out, A) /\ (\A a \in A : a < id) => Lists(h.out, A \cup {id})
      BY <2>5, <3>1, <3>2, EmitText
    <3>4. Listed(f, n) = 1 .. (n - m)
      BY <1>7, <2>7 DEF Listed, m
    <3>5. Lists(h.out, (1 .. (n - m)) \cup {id})
      <4>1. \A a \in 1 .. (n - m) : a < id
        BY <3>0 DEF id
      <4>. QED
        BY <1>1, <2>5, <3>3, <3>4, <4>1
    <3>6. Keeps(f, h, {"out", "hasTool", "tail"}) /\ h.tail = tail2
      BY <2>4, <3>3 DEF Keeps, Fields
    <3>7. Listed(h, n + 1) = (1 .. (n - m)) \cup {id}
      <4>1. Len(h.tail) = m
        BY <2>1, <2>7, <3>6 DEF m
      <4>2. Listed(h, n + 1) = 1 .. (n + 1 - Len(h.tail))
        BY <1>7, <2>7 DEF Listed
      <4>. QED
        BY <3>0, <4>1, <4>2 DEF id
    <3>. QED
      BY <1>4, <2>1, <3>3, <3>5, <3>6, <3>7 DEF h
  <2>8. CASE ~chain.nudge /\ ~full
    <3>1. h = watched
      BY <1>5, <1>7, <2>8
    <3> HIDE DEF h
    <3>2. Listed(f, n) = {} /\ Listed(h, n + 1) = {}
      <4>1. Len(f.tail) = n /\ Len(h.tail) = n + 1
        BY <2>1, <2>4, <2>8, <3>1
      <4>2. Listed(f, n) = 1 .. (n - Len(f.tail)) /\ Listed(h, n + 1) = 1 .. (n + 1 - Len(h.tail))
        BY <1>7, <2>8 DEF Listed
      <4>. QED
        BY <4>1, <4>2
    <3>3. Keeps(f, h, {"out", "hasTool", "tail"})
      BY <2>4, <3>1 DEF Keeps
    <3>. QED
      BY <1>1, <1>4, <2>1, <2>4, <2>5, <3>1, <3>2, <3>3 DEF h
  <2>. QED
    BY <2>6, <2>7, <2>8
<1>. QED
  BY <1>6, <1>7

-----------------------------------------------------------------------------
(* A delta of text, whatever the finalizers.                               *)

TextFields == CallFields \cup {"xml", "skip", "made", "turned", "tail"}

LEMMA ShownFrame ==
  ASSUME NEW n, NEW f, Shown(f, n), NEW h, Keeps(f, h, CallFields),
         \A A : Lists(f.out, A) => Lists(h.out, A)
  PROVE  Shown(h, n)
<1>1. /\ h.xml = f.xml /\ h.turned = f.turned /\ h.skip = f.skip /\ h.made = f.made /\ h.tail = f.tail
  BY DEF Keeps, Fields, CallFields
<1>2. Listed(h, n) = Listed(f, n)
  BY <1>1 DEF Listed
<1>. QED
  BY <1>1, <1>2 DEF Shown

LEMMA RewriteShown ==
  ASSUME Sound(chain), chain.rewrite, NEW n \in Nat, NEW f, CallsFit(f, f.made), f.made = <<>>,
         Shown(f, n)
  PROVE  LET h == Rewritten(f, Append(f.xml, n + 1))
         IN  /\ Shown(h, n + 1) /\ CallsFit(h, h.made) /\ Made(h.made)
             /\ Keeps(f, h, TextFields)
<1> DEFINE ids == Append(f.xml, n + 1)
           call == Delta(1, XmlName, <<XmlPiece>>)
           T == {id \in Range(ids) : Len(ids) > 1 \/ f.texts[id] # "mixed"}
           g == [f EXCEPT !.xml = <<>>, !.skip = TRUE, !.made = Append(@, call),
                          !.turned = @ \cup T]
           m == Len(f.xml)
           g2 == IF HasText(f, ids) THEN Stamp(g, Last(ids), FALSE) ELSE g
           h == Rewritten(f, ids)
<1>1. /\ LastOf(f.xml, n) /\ f.turned \subseteq 1 .. (n - m) /\ Tailed(f.tail, n)
      /\ Lists(f.out, Listed(f, n)) /\ m \in 0 .. n
  BY LastOfListed DEF Shown
<1>2. ~chain.stamp
  BY DEF Sound
<1>3. /\ Len(ids) = m + 1 /\ Range(ids) = ((n + 1) - Len(ids) + 1) .. (n + 1)
      /\ ids \in Seq(Nat) /\ LastOf(ids, n + 1)
  <2>1. LastOf(ids, n + 1) /\ Len(ids) = m + 1
    BY <1>1, LastOfMore
  <2> HIDE DEF ids, m
  <2>2. n + 1 \in Nat /\ ids \in Seq(Nat)
    BY <2>1 DEF LastOf
  <2>. QED
    BY <2>1, <2>2, LastOfListed
<1>4. /\ call \in Deltas /\ call.index = 1 /\ call.name = XmlName /\ XmlName \in Names
      /\ call.pieces = <<XmlPiece>> /\ XmlPiece \in Pieces
  <2>1. XmlName \in Names /\ XmlPiece \in Pieces
    BY SetupAssumption
  <2>2. <<XmlPiece>> \in Seq(Pieces)
    BY <2>1
  <2>. QED
    BY <2>1, <2>2 DEF Delta, Deltas
<1>5. h = CallDelta(g2, call)
  BY DEF Rewritten
<1> HIDE DEF ids, call, T, m
<1>6. Made(<<>>) /\ Made(<<call>>) /\ Grows(<<>>, call, <<call>>)
  <2> DEFINE more == <<call>>
  <2>1. DOMAIN more = {1} /\ more[1] = call /\ more \in Seq(Deltas)
    BY <1>4
  <2>2. Made(<<>>)
    BY DEF Made
  <2> HIDE DEF more
  <2>3. \E p \in Pieces : call.pieces = <<p>>
    BY <1>4
  <2>4. Made(more)
    BY <1>4, <2>1, <2>3 DEF Made
  <2>5. DOMAIN <<>> = {} /\ Len(<<>>) = 0
    OBVIOUS
  <2>6. Grows(<<>>, call, more)
    BY <1>4, <2>1, <2>4, <2>5 DEF Grows
  <2>. QED
    BY <2>2, <2>4, <2>6 DEF more
<1>7. HasOut(f) /\ DOMAIN f = Fields
  BY DEF CallsFit, HasOut
<1>8. /\ g.xml = <<>> /\ g.skip = TRUE /\ g.made = <<call>> /\ g.turned = f.turned \cup T
      /\ g.tail = f.tail /\ g.out = f.out /\ g.texts = f.texts /\ SameCalls(f, g) /\ DOMAIN g = Fields
      /\ Keeps(f, g, {"xml", "skip", "made", "turned"})
  <2>1. Append(<<>>, call) = <<call>>
    OBVIOUS
  <2>. QED
    BY <1>7, <2>1 DEF Fields, SameCalls, Keeps
<1> HIDE DEF g, h
<1>9. CallsFit(g, <<>>)
  BY <1>8, CallsFrame
<1>10. /\ Shown(g2, n + 1) /\ CallsFit(g2, <<>>) /\ Keeps(g, g2, {"out", "hasTool", "tail"})
  <2>1. CASE HasText(f, ids)
    <3>1. Len(ids) = 1 /\ f.texts[ids[1]] = "mixed"
      BY <2>1 DEF HasText
    <3>2. m = 0 /\ Len(f.xml) = 0
      <4>0. m \in Nat /\ m + 1 = 1
        <5>1. Len(ids) = m + 1 /\ m \in 0 .. n
          BY <1>1, <1>3
        <5>. QED
          BY <3>1, <5>1
      <4>1. m = 0
        BY <4>0
      <4>. QED
        BY <4>1 DEF m
    <3>3. Last(ids) = n + 1 /\ ids[1] = n + 1
      <4>1. f.xml \in Seq(Nat) /\ n + 1 \in Nat
        BY <1>1 DEF LastOf
      <4>2. ids[Len(f.xml) + 1] = n + 1
        BY <4>1, AppendProperties DEF ids
      <4>3. ids[1] = n + 1
        BY <3>2, <4>2
      <4>. QED
        BY <3>1, <4>3 DEF Last
    <3>4. Range(ids) = {n + 1}
      <4>1. (n + 1) - Len(ids) + 1 = n + 1
        BY <3>1
      <4>2. (n + 1) .. (n + 1) = {n + 1}
        OBVIOUS
      <4>. QED
        BY <1>3, <4>1, <4>2
    <3>5. T = {}
      BY <3>1, <3>3, <3>4 DEF T
    <3>6. Listed(g, n) = Listed(f, n) /\ g.turned = f.turned /\ f.turned \subseteq 1 .. n
      <4>1. g.turned = f.turned /\ Len(g.xml) = 0
        BY <1>8, <3>5
      <4>2. f.turned \subseteq 1 .. n
        BY <1>1, <3>2
      <4>. QED
        BY <1>2, <3>2, <4>1, <4>2 DEF Listed
    <3>7. LastOf(<<>>, n) /\ f.turned \subseteq 1 .. (n - Len(<<>>))
      BY <3>6, LastOfNone
    <3>8. Shown(g, n)
      BY <1>1, <1>8, <3>6, <3>7 DEF Shown
    <3>9. /\ Shown(Stamp(g, n + 1, FALSE), n + 1) /\ CallsFit(Stamp(g, n + 1, FALSE), <<>>)
          /\ Keeps(g, Stamp(g, n + 1, FALSE), {"out", "hasTool", "tail"})
      BY <1>8, <1>9, <3>8, StampShown
    <3>. QED
      BY <2>1, <3>3, <3>9
  <2>2. CASE ~HasText(f, ids)
    <3>1. T = Range(ids)
      <4>1. CASE Len(ids) > 1
        BY <4>1 DEF T
      <4>2. CASE ~(Len(ids) > 1)
        <5>1. Len(ids) = 1
          BY <1>1, <1>3, <4>2
        <5>2. f.texts[ids[1]] # "mixed"
          BY <2>2, <5>1 DEF HasText
        <5>3. DOMAIN ids = {1}
          <6>1. DOMAIN ids = 1 .. Len(ids)
            BY <1>3, LenProperties
          <6>. QED
            BY <5>1, <6>1
        <5>4. Range(ids) = {ids[1]}
          BY <5>3 DEF Range
        <5>. QED
          BY <5>2, <5>4 DEF T
      <4>. QED
        BY <4>1, <4>2
    <3>2. T = (n - m + 1) .. (n + 1)
      BY <1>1, <1>3, <3>1
    <3>3. g.turned \subseteq 1 .. (n + 1)
      BY <1>1, <1>8, <3>2
    <3>4. Listed(f, n) = (1 .. (n - m)) \ f.turned
      BY <1>2 DEF Listed, m
    <3>5. Listed(g, n + 1) = Listed(f, n)
      <4>1. Len(g.xml) = 0
        BY <1>8
      <4>2. Listed(g, n + 1) = (1 .. (n + 1 - 0)) \ (f.turned \cup T)
        BY <1>2, <1>8, <4>1 DEF Listed
      <4>. QED
        BY <1>1, <3>2, <3>4, <4>2
    <3>6. /\ LastOf(<<>>, n + 1) /\ g.turned \subseteq 1 .. (n + 1 - Len(<<>>))
      BY <3>3, LastOfNone
    <3>7. Tailed(g.tail, n + 1)
      BY <1>1, <1>2, <1>8 DEF Tailed
    <3>8. Shown(g, n + 1)
      BY <1>1, <1>8, <3>5, <3>6, <3>7 DEF Shown
    <3>9. g2 = g
      BY <2>2
    <3>. QED
      BY <1>8, <1>9, <3>8, <3>9 DEF Keeps
  <2>. QED
    BY <2>1, <2>2
<1> HIDE DEF g2
<1>11. /\ CallsFit(h, <<call>>) /\ Keeps(g2, h, CallFields)
       /\ \A A : Lists(g2.out, A) => Lists(h.out, A)
  BY <1>5, <1>6, <1>10, CallDeltaStep
<1>12. Shown(h, n + 1)
  BY <1>10, <1>11, ShownFrame
<1>13. h.made = <<call>> /\ Keeps(f, h, TextFields)
  <2>1. g2.made = <<call>> /\ Keeps(f, g2, TextFields)
    BY <1>8, <1>10 DEF Keeps, Fields, TextFields, CallFields
  <2>. QED
    BY <1>11, <2>1 DEF Keeps, Fields, TextFields, CallFields
<1>14. Shown(h, n + 1) /\ CallsFit(h, h.made) /\ Made(h.made) /\ Keeps(f, h, TextFields)
  BY <1>6, <1>11, <1>12, <1>13
<1>. QED
  BY <1>14 DEF h, ids

LEMMA TextDeltaStep ==
  ASSUME Sound(chain), NEW n \in Nat, NEW f, CallsFit(f, f.made), Made(f.made), Shown(f, n),
         f.texts[n + 1] \in XmlKinds => f.made = <<>> /\ f.xml = <<>>
  PROVE  LET h == TextDelta(f, n + 1)
         IN  /\ Shown(h, n + 1) /\ CallsFit(h, h.made) /\ Made(h.made)
             /\ Keeps(f, h, TextFields)
<1> DEFINE ids == Append(f.xml, n + 1)
           h == TextDelta(f, n + 1)
           balanced == Balanced([k \in DOMAIN ids |-> f.texts[ids[k]]])
           read == [f EXCEPT !.skip = FALSE]
           held == [f EXCEPT !.xml = ids]
<1>1. DOMAIN f = Fields
  BY DEF CallsFit, HasOut
<1>2. ASSUME NEW g, SameCalls(f, g), DOMAIN g = Fields, Shown(g, n), g.xml = <<>>, g.made = f.made,
             h = Stamp(g, n + 1, FALSE), Keeps(f, g, {"skip"})
      PROVE  Shown(h, n + 1) /\ CallsFit(h, h.made) /\ Made(h.made) /\ Keeps(f, h, TextFields)
  <2> HIDE DEF h
  <2>1. CallsFit(g, f.made)
    BY <1>2, CallsFrame
  <2>2. Shown(h, n + 1) /\ CallsFit(h, f.made) /\ Keeps(g, h, {"out", "hasTool", "tail"})
    BY <1>2, <2>1, StampShown
  <2>3. h.made = f.made /\ Keeps(f, h, TextFields)
    BY <1>2, <2>2 DEF Keeps, Fields, TextFields, CallFields
  <2>. QED
    BY <2>2, <2>3
<1>3. SameCalls(f, f) /\ Keeps(f, f, {"skip"})
  BY <1>1 DEF SameCalls, Keeps
<1>4. h = IF ~chain.rewrite THEN Stamp(f, n + 1, FALSE)
          ELSE IF f.skip THEN Stamp(read, n + 1, FALSE)
          ELSE IF f.xml = <<>> /\ f.texts[n + 1] \notin XmlKinds THEN Stamp(f, n + 1, FALSE)
          ELSE IF balanced THEN Rewritten(f, ids)
          ELSE Stamp(held, n + 1, TRUE)
  BY Zenon DEF TextDelta
<1> HIDE DEF h, balanced
<1>5. CASE ~chain.rewrite
  <2>1. f.xml = <<>> /\ h = Stamp(f, n + 1, FALSE)
    BY <1>4, <1>5 DEF Shown
  <2>. QED
    BY <1>1, <1>2, <1>3, <2>1 DEF h
<1>6. CASE chain.rewrite /\ f.skip
  <2>1. f.xml = <<>> /\ h = Stamp(read, n + 1, FALSE)
    BY <1>4, <1>6 DEF Shown
  <2>2. /\ read.xml = f.xml /\ read.turned = f.turned /\ read.made = f.made /\ read.tail = f.tail
        /\ read.out = f.out /\ read.skip = FALSE /\ SameCalls(f, read) /\ DOMAIN read = Fields
        /\ Keeps(f, read, {"skip"})
    BY <1>1 DEF Fields, SameCalls, Keeps
  <2> HIDE DEF read
  <2>3. Listed(read, n) = Listed(f, n)
    BY <2>2 DEF Listed
  <2>4. Shown(read, n)
    BY <2>2, <2>3 DEF Shown
  <2>. QED
    BY <1>2, <2>1, <2>2, <2>4 DEF h
<1>7. CASE chain.rewrite /\ ~f.skip /\ f.xml = <<>> /\ f.texts[n + 1] \notin XmlKinds
  <2>1. h = Stamp(f, n + 1, FALSE)
    BY <1>4, <1>7
  <2>. QED
    BY <1>1, <1>2, <1>3, <1>7, <2>1 DEF h
<1>8. CASE /\ chain.rewrite /\ ~f.skip /\ ~(f.xml = <<>> /\ f.texts[n + 1] \notin XmlKinds)
           /\ balanced
  <2>1. f.made = <<>>
    BY <1>8 DEF Shown
  <2>2. h = Rewritten(f, ids)
    BY <1>4, <1>8
  <2>. QED
    BY <1>8, <2>1, <2>2, RewriteShown DEF h
<1>9. CASE /\ chain.rewrite /\ ~f.skip /\ ~(f.xml = <<>> /\ f.texts[n + 1] \notin XmlKinds)
           /\ ~balanced
  <2>1. f.made = <<>>
    BY <1>9 DEF Shown
  <2>2. h = Stamp(held, n + 1, TRUE) /\ ~chain.stamp
    BY <1>4, <1>9 DEF Sound
  <2>3. h = held
    BY <2>2 DEF Stamp
  <2>4. /\ held.xml = ids /\ held.turned = f.turned /\ held.made = f.made /\ held.tail = f.tail
        /\ held.out = f.out /\ held.skip = f.skip /\ SameCalls(f, held) /\ DOMAIN held = Fields
        /\ Keeps(f, held, {"xml"})
    BY <1>1 DEF Fields, SameCalls, Keeps
  <2>5. /\ LastOf(ids, n + 1) /\ Len(ids) = Len(f.xml) + 1 /\ Len(f.xml) \in 0 .. n
        /\ f.turned \subseteq 1 .. (n - Len(f.xml)) /\ Lists(f.out, Listed(f, n)) /\ Tailed(f.tail, n)
    BY LastOfMore, LastOfListed DEF Shown
  <2> HIDE DEF held, ids
  <2>6. (n + 1) - Len(ids) = n - Len(f.xml)
    <3> DEFINE m == Len(f.xml)
    <3>1. m \in 0 .. n /\ Len(ids) = m + 1
      BY <2>5
    <3> HIDE DEF m
    <3>2. (n + 1) - Len(ids) = n - m
      BY <3>1
    <3>. QED
      BY <3>2 DEF m
  <2>7. Listed(held, n + 1) = Listed(f, n) /\ f.turned \subseteq 1 .. ((n + 1) - Len(ids))
    <3>1. /\ Listed(held, n + 1) = (1 .. ((n + 1) - Len(ids))) \ f.turned
          /\ Listed(f, n) = (1 .. (n - Len(f.xml))) \ f.turned
      BY <2>2, <2>4 DEF Listed
    <3>. QED
      BY <2>5, <2>6, <3>1
  <2>8. Tailed(f.tail, n + 1)
    BY <2>2, <2>5 DEF Tailed
  <2>9. Shown(held, n + 1)
    <3>1. LastOf(held.xml, n + 1) /\ held.turned \subseteq 1 .. ((n + 1) - Len(held.xml))
      BY <2>4, <2>5, <2>7
    <3>2. Tailed(held.tail, n + 1)
      BY <2>4, <2>8
    <3>3. Lists(held.out, Listed(held, n + 1))
      BY <2>4, <2>5, <2>7
    <3>4. /\ held.skip => held.xml = <<>>
          /\ ~chain.rewrite => held.xml = <<>> /\ held.turned = {}
          /\ held.xml # <<>> => held.made = <<>>
      BY <1>9, <2>1, <2>4
    <3>. QED
      BY <3>1, <3>2, <3>3, <3>4 DEF Shown
  <2>10. CallsFit(held, f.made)
    BY <2>4, CallsFrame
  <2>11. Keeps(f, held, TextFields)
    BY <2>4 DEF Keeps, TextFields
  <2>. QED
    BY <2>3, <2>4, <2>9, <2>10, <2>11 DEF h
<1>. QED
  BY <1>5, <1>6, <1>7, <1>8, <1>9

-----------------------------------------------------------------------------
(* The end of an attempt: its text.                                        *)

LEMMA GreatestNumber ==
  ASSUME NEW n \in Nat, NEW I \in SUBSET (1 .. n), I # {}
  PROVE  \E x \in I : \A y \in I : x >= y
<1> DEFINE T == {n - i : i \in I}
<1>1. T \in SUBSET Nat /\ T # {}
  <2>1. \A i \in I : i \in 1 .. n /\ n - i \in Nat
    OBVIOUS
  <2>2. PICK i \in I : TRUE
    OBVIOUS
  <2>3. n - i \in T
    OBVIOUS
  <2>. QED
    BY <2>1, <2>3
<1> HIDE DEF T
<1>2. PICK t \in T : \A u \in T : t <= u
  BY <1>1, LeastNumber
<1>3. PICK x \in I : t = n - x
  BY DEF T
<1>4. \A y \in I : n - x <= n - y
  BY <1>2, <1>3 DEF T
<1>. QED
  BY <1>4

\* The tail is cut after its last delta that is no footer.
LEMMA StaleCut ==
  ASSUME NEW f, NEW ids \in Seq(Nat)
  PROVE  \E p \in 0 .. Len(ids) :
           /\ WithoutStale(f, ids) = SubSeq(ids, 1, p)
           /\ p > 0 => f.texts[ids[p]] # "stamp"
           /\ \A k \in (p + 1) .. Len(ids) : f.texts[ids[k]] = "stamp"
<1> DEFINE I == {i \in 1 .. Len(ids) : f.texts[ids[i]] # "stamp"}
           p == IF I # {} THEN Max(I) ELSE 0
<1>1. WithoutStale(f, ids) = SubSeq(ids, 1, p)
  BY DEF WithoutStale, SelectLastInSeq
<1>2. Len(ids) \in Nat
  BY LenProperties
<1>3. CASE I = {}
  <2>1. p = 0
    BY <1>3
  <2>2. \A k \in (0 + 1) .. Len(ids) : f.texts[ids[k]] = "stamp"
    BY <1>3
  <2> HIDE DEF p, I
  <2>. QED
    BY <1>1, <1>2, <2>1, <2>2
<1>4. CASE I # {}
  <2>1. p = Max(I)
    BY <1>4
  <2>2. I \in SUBSET (1 .. Len(ids))
    OBVIOUS
  <2> HIDE DEF I
  <2>3. \E x \in I : \A y \in I : x >= y
    BY <1>2, <1>4, <2>2, GreatestNumber
  <2>4. p \in I /\ \A y \in I : p >= y
    BY <2>1, <2>3 DEF Max
  <2> HIDE DEF p
  <2>5. p \in 1 .. Len(ids)
    BY <2>2, <2>4
  <2>6. f.texts[ids[p]] # "stamp"
    BY <2>4 DEF I
  <2>7. ASSUME NEW k \in (p + 1) .. Len(ids) PROVE f.texts[ids[k]] = "stamp"
    <3>1. k \in 1 .. Len(ids) /\ ~(p >= k)
      BY <1>2, <2>5
    <3>2. k \notin I
      BY <2>4, <3>1
    <3>. QED
      BY <3>1, <3>2 DEF I
  <2>. QED
    BY <1>1, <1>2, <2>5, <2>6, <2>7
<1>. QED
  BY <1>3, <1>4

\* One footer at most.
Kinds(texts) ==
  /\ texts \in Seq(TextKinds)
  /\ \A a, b \in DOMAIN texts : texts[a] = "stamp" /\ texts[b] = "stamp" => a = b

FreshOf(f) == {id \in DOMAIN f.texts \ f.turned :
                 \E later \in DOMAIN f.texts \ f.turned : id <= later /\ f.texts[later] # "stamp"}
\* The text of an answer.
Due(f) == (IF chain.stamp /\ ~chain.nudge THEN FreshOf(f) ELSE DOMAIN f.texts \ f.turned)
            \cup (IF chain.stamp /\ FreshOf(f) # {} THEN {Footer} ELSE {})

\* What the tail keeps, and whether anything.
LEMMA TailKept ==
  ASSUME NEW f, Kinds(f.texts), NEW n \in Nat, n = Len(f.texts), f.turned = {},
         chain.stamp, Tailed(f.tail, n)
  PROVE  LET kept == WithoutStale(f, f.tail)
             j == Len(f.tail)
         IN  /\ j \in 0 .. n
             /\ kept = <<>> => FreshOf(f) = {} /\ j = n
             /\ kept # <<>> => \E m \in (n - j + 1) .. n :
                  /\ LastOf(kept, m) /\ m - Len(kept) = n - j /\ FreshOf(f) = 1 .. m
<1> DEFINE tail == f.tail
           kept == WithoutStale(f, tail)
           j == Len(tail)
<1>1. LastOf(tail, n) /\ j = (IF n <= TailSize THEN n ELSE TailSize) /\ j \in 0 .. n /\ tail \in Seq(Nat)
      /\ DOMAIN tail = 1 .. j
  <2>1. LastOf(tail, n) /\ j = (IF n <= TailSize THEN n ELSE TailSize) /\ tail \in Seq(Nat)
    BY DEF Tailed, LastOf
  <2>2. j \in 0 .. n
    BY <2>1, LastOfListed
  <2>. QED
    BY <2>1, <2>2, LenProperties
<1>2. \A k \in 1 .. j : tail[k] = n - j + k /\ tail[k] \in Nat
  BY <1>1, ElementOfSeq DEF LastOf
<1>3. f.texts \in Seq(TextKinds) /\ DOMAIN f.texts = 1 .. n
  BY LenProperties DEF Kinds
<1>4. TailSize \in Nat \ {0, 1}
  BY SetupAssumption
<1>5. FreshOf(f) = {id \in 1 .. n : \E later \in 1 .. n : id <= later /\ f.texts[later] # "stamp"}
  BY <1>3 DEF FreshOf
<1>6. PICK p \in 0 .. j :
         /\ kept = SubSeq(tail, 1, p)
         /\ p > 0 => f.texts[tail[p]] # "stamp"
         /\ \A k \in (p + 1) .. j : f.texts[tail[k]] = "stamp"
  <2> HIDE DEF tail
  <2>1. tail \in Seq(Nat)
    BY <1>1
  <2>. QED
    BY <2>1, StaleCut
<1> HIDE DEF kept, tail, j
<1>7. /\ kept \in Seq(Nat) /\ Len(kept) = p /\ \A k \in 1 .. p : kept[k] = tail[k]
  <2>1. \A k \in 1 .. p : tail[k] \in Nat
    BY <1>1, <1>2
  <2>2. 1 \in Int /\ p \in Int
    BY <1>1
  <2>3. /\ SubSeq(tail, 1, p) \in Seq(Nat) /\ Len(SubSeq(tail, 1, p)) = (IF 1 <= p THEN p - 1 + 1 ELSE 0)
        /\ \A k \in 1 .. p - 1 + 1 : SubSeq(tail, 1, p)[k] = tail[1 + k - 1]
    BY <2>1, <2>2, SubSeqProperties
  <2>4. Len(kept) = p
    BY <1>1, <1>6, <2>3
  <2>5. ASSUME NEW k \in 1 .. p PROVE kept[k] = tail[k]
    <3>1. k \in 1 .. p - 1 + 1 /\ 1 + k - 1 = k
      BY <2>2
    <3>. QED
      BY <1>6, <2>3, <3>1
  <2>. QED
    BY <1>6, <2>3, <2>4, <2>5
<1>8. kept = <<>> <=> p = 0
  BY <1>7, EmptySeq
<1>9. \A k \in (p + 1) .. j : f.texts[n - j + k] = "stamp"
  <2> TAKE k \in (p + 1) .. j
  <2>1. k \in 1 .. j
    BY <1>1
  <2>2. tail[k] = n - j + k /\ f.texts[tail[k]] = "stamp"
    BY <1>2, <1>6, <2>1
  <2>. QED
    BY <2>2
<1>10. CASE p = 0
  <2>1. j < 2
    <3>1. ASSUME j >= 2 PROVE FALSE
      <4>1. 1 \in (p + 1) .. j /\ 2 \in (p + 1) .. j
        BY <1>1, <1>10, <3>1
      <4>2. f.texts[n - j + 1] = "stamp" /\ f.texts[n - j + 2] = "stamp"
        BY <1>9, <4>1
      <4>3. n - j + 1 \in 1 .. n /\ n - j + 2 \in 1 .. n /\ n - j + 1 # n - j + 2
        BY <1>1, <3>1
      <4>. QED
        BY <1>3, <4>2, <4>3 DEF Kinds
    <3>. QED
      BY <1>1, <3>1
  <2>2. j = n
    BY <1>1, <1>4, <2>1
  <2>3. \A id \in 1 .. n : f.texts[id] = "stamp"
    <3> TAKE id \in 1 .. n
    <3>1. id \in (p + 1) .. j /\ n - j + id = id
      BY <1>1, <1>10, <2>2
    <3>. QED
      BY <1>9, <3>1
  <2>4. FreshOf(f) = {}
    BY <1>5, <2>3
  <2>. QED
    BY <1>1, <1>8, <1>10, <2>2, <2>4 DEF kept, tail, j
<1>11. CASE p # 0
  <2> DEFINE m == n - j + p
  <2>1. m \in (n - j + 1) .. n /\ m \in 1 .. n /\ m - p = n - j /\ p <= m
    BY <1>1, <1>11
  <2>2. f.texts[m] # "stamp"
    <3>1. p > 0 /\ p \in 1 .. j
      BY <1>1, <1>11
    <3>2. tail[p] = m
      BY <1>2, <3>1
    <3>. QED
      BY <1>6, <3>1, <3>2
  <2>3. \A later \in 1 .. n : later > m => f.texts[later] = "stamp"
    <3> TAKE later \in 1 .. n
    <3> HAVE later > m
    <3>1. later - (n - j) \in (p + 1) .. j /\ n - j + (later - (n - j)) = later
      BY <1>1
    <3>. QED
      BY <1>9, <3>1
  <2>4. LastOf(kept, m)
    <3>1. DOMAIN kept = 1 .. p
      BY <1>7, LenProperties
    <3>2. \A k \in 1 .. p : kept[k] = m - Len(kept) + k
      <4> TAKE k \in 1 .. p
      <4>1. k \in 1 .. j /\ kept[k] = tail[k] /\ tail[k] = n - j + k
        BY <1>1, <1>2, <1>7
      <4> HIDE DEF m
      <4>. QED
        BY <1>7, <2>1, <4>1
    <3>. QED
      BY <1>7, <2>1, <3>1, <3>2 DEF LastOf
  <2> HIDE DEF m
  <2>5. FreshOf(f) = 1 .. m
    <3>1. ASSUME NEW id \in 1 .. m PROVE id \in FreshOf(f)
      BY <1>5, <2>1, <2>2
    <3>2. ASSUME NEW id \in FreshOf(f) PROVE id \in 1 .. m
      <4>1. PICK later \in 1 .. n : id <= later /\ f.texts[later] # "stamp"
        BY <1>5
      <4>2. id \in 1 .. n /\ ~(later > m)
        BY <1>5, <2>3, <4>1
      <4>. QED
        BY <2>1, <4>1, <4>2
    <3>. QED
      BY <3>1, <3>2
  <2>6. kept # <<>> /\ m - Len(kept) = n - j
    BY <1>7, <1>8, <1>11, <2>1
  <2>. QED
    BY <1>1, <2>1, <2>4, <2>5, <2>6 DEF kept, tail, j
<1>. QED
  BY <1>10, <1>11

LEMMA EmitTexts ==
  ASSUME NEW f, NEW made, CallsFit(f, made), NEW events \in Seq(Events), Indices(events) = {}
  PROVE  /\ CallsFit(EmitAll(f, events), made) /\ Keeps(f, EmitAll(f, events), {"out", "hasTool"})
         /\ \A A, B : Lists(f.out, A) /\ Lists(events, B) /\ (\A a \in A, b \in B : a < b)
                        => Lists(EmitAll(f, events).out, A \cup B)
<1> DEFINE h == EmitAll(f, events)
<1>1. HasOut(f) /\ f.out \in Seq(Events)
  BY DEF CallsFit, HasOut
<1>2. LetsOut(f, h, events)
  BY <1>1, EmitAllLetsOut
<1> HIDE DEF h
<1>3. CallsFit(h, made)
  BY <1>2, TextLeavesCalls
<1>4. ASSUME NEW A, NEW B, Lists(f.out, A), Lists(events, B), \A a \in A, b \in B : a < b
      PROVE  Lists(h.out, A \cup B)
  <2>1. Lists(f.out \o events, A \cup B)
    BY <1>1, <1>4, ListsBoth
  <2>. QED
    BY <1>2, <2>1 DEF LetsOut
<1>. QED
  BY <1>2, <1>3, <1>4 DEF h, LetsOut

Texted(f) == DOMAIN f.texts \ f.turned

\* An open pseudo-call goes out as text.
LEMMA XmlFlushed ==
  ASSUME Sound(chain), NEW f, NEW n \in Nat, n = Len(f.texts), f.texts \in Seq(TextKinds),
         CallsFit(f, f.made), Shown(f, n)
  PROVE  /\ CallsFit(FlushXml(f), f.made) /\ Keeps(f, FlushXml(f), {"out", "hasTool"})
         /\ Lists(FlushXml(f).out, IF chain.stamp /\ ~chain.nudge THEN 1 .. (n - Len(f.tail)) ELSE Texted(f))
<1> DEFINE h == FlushXml(f)
           m == Len(f.xml)
<1>1. /\ LastOf(f.xml, n) /\ f.turned \subseteq 1 .. (n - m) /\ m \in 0 .. n
      /\ ~chain.rewrite => f.xml = <<>> /\ f.turned = {}
      /\ Lists(f.out, Listed(f, n))
  BY LastOfListed DEF Shown
<1>2. DOMAIN f.texts = 1 .. n /\ DOMAIN f = Fields
  BY LenProperties DEF CallsFit, HasOut
<1>3. Texted(f) = (1 .. n) \ f.turned
  BY <1>2 DEF Texted
<1>4. CASE f.xml = <<>>
  <2>1. h = f
    BY <1>4 DEF FlushXml
  <2>2. Len(f.xml) = 0
    BY <1>4
  <2>3. Listed(f, n) = IF chain.stamp /\ ~chain.nudge THEN 1 .. (n - Len(f.tail)) ELSE Texted(f)
    BY <1>3, <2>2 DEF Listed
  <2>4. Keeps(f, f, {"out", "hasTool"})
    BY <1>2 DEF Keeps
  <2>. QED
    BY <1>1, <2>1, <2>3, <2>4
<1>5. CASE f.xml # <<>>
  <2>1. ~chain.stamp
    BY <1>1, <1>5 DEF Sound
  <2>2. h = EmitAll(f, Texts(f.xml))
    BY <1>5, <2>1 DEF FlushXml
  <2>3. /\ Texts(f.xml) \in Seq(Events) /\ Indices(Texts(f.xml)) = {}
        /\ Lists(Texts(f.xml), (n - m + 1) .. n)
    BY <1>1, LastOfListed
  <2> HIDE DEF h
  <2>4. /\ CallsFit(h, f.made) /\ Keeps(f, h, {"out", "hasTool"})
        /\ \A A, B : Lists(f.out, A) /\ Lists(Texts(f.xml), B) /\ (\A a \in A, b \in B : a < b)
                       => Lists(h.out, A \cup B)
    BY <2>2, <2>3, EmitTexts
  <2>5. Listed(f, n) = (1 .. (n - m)) \ f.turned
    BY <2>1 DEF Listed
  <2> HIDE DEF m
  <2>6. \A a \in (1 .. (n - m)) \ f.turned, b \in (n - m + 1) .. n : a < b
    BY <1>1
  <2>7. Lists(h.out, ((1 .. (n - m)) \ f.turned) \cup ((n - m + 1) .. n))
    BY <1>1, <2>3, <2>4, <2>5, <2>6
  <2>8. ((1 .. (n - m)) \ f.turned) \cup ((n - m + 1) .. n) = Texted(f)
    BY <1>1, <1>3
  <2>. QED
    BY <2>1, <2>4, <2>7, <2>8 DEF h
<1>. QED
  BY <1>4, <1>5

\* The tail goes out with one footer.
LEMMA TextEnds ==
  ASSUME Sound(chain), NEW f, NEW n \in Nat, n = Len(f.texts), n <= MaxDeltas, Kinds(f.texts),
         CallsFit(f, f.made), Shown(f, n)
  PROVE  LET h == FlushTail(FlushXml(f))
         IN  /\ CallsFit(h, f.made) /\ Keeps(f, h, {"out", "hasTool"})
             /\ Lists(h.out, Due(f))
<1> DEFINE g == FlushXml(f)
           h == FlushTail(g)
           kept == WithoutStale(g, g.tail)
<1>1. /\ CallsFit(g, f.made) /\ Keeps(f, g, {"out", "hasTool"})
      /\ Lists(g.out, IF chain.stamp /\ ~chain.nudge THEN 1 .. (n - Len(f.tail)) ELSE Texted(f))
  BY XmlFlushed DEF Kinds
<1> HIDE DEF g
<1>2. /\ g.tail = f.tail /\ g.texts = f.texts /\ g.turned = f.turned /\ DOMAIN g = Fields
  BY <1>1 DEF Keeps, Fields
<1>3. kept = WithoutStale(f, f.tail)
  BY <1>2 DEF WithoutStale
<1>4. h = IF ~chain.stamp \/ kept = <<>> THEN g
          ELSE EmitAll(g, Texts(IF chain.nudge THEN <<Footer>> ELSE Append(kept, Footer)))
  BY DEF FlushTail
<1>5. DOMAIN f.texts = 1 .. n /\ Footer \in Nat /\ n < Footer
  <2>1. f.texts \in Seq(TextKinds) /\ MaxDeltas \in Nat
    BY SetupAssumption DEF Kinds
  <2>. QED
    BY <2>1, LenProperties DEF Footer
<1> HIDE DEF h, kept
<1>6. CASE ~chain.stamp
  <2>1. h = g
    BY <1>4, <1>6
  <2>2. Due(f) = Texted(f)
    BY <1>6 DEF Due, Texted
  <2>. QED
    BY <1>1, <1>6, <2>1, <2>2 DEF h, g
<1>7. CASE chain.stamp
  <2> DEFINE j == Len(f.tail)
  <2>1. f.turned = {} /\ Tailed(f.tail, n)
    BY <1>7 DEF Shown, Sound
  <2>2. /\ j \in 0 .. n
        /\ kept = <<>> => FreshOf(f) = {} /\ j = n
        /\ kept # <<>> => \E m \in (n - j + 1) .. n :
             /\ LastOf(kept, m) /\ m - Len(kept) = n - j /\ FreshOf(f) = 1 .. m
    BY <1>3, <1>7, <2>1, TailKept
  <2>3. Texted(f) = 1 .. n
    BY <1>5, <2>1 DEF Texted
  <2> HIDE DEF j
  <2>4. CASE kept = <<>>
    <3>1. h = g /\ FreshOf(f) = {} /\ j = n
      BY <1>4, <2>2, <2>4
    <3>2. Due(f) = IF chain.stamp /\ ~chain.nudge THEN 1 .. (n - j) ELSE Texted(f)
      BY <3>1 DEF Due, Texted
    <3>. QED
      BY <1>1, <3>1, <3>2 DEF h, g, j
  <2>5. CASE kept # <<>>
    <3>1. PICK m \in (n - j + 1) .. n : /\ LastOf(kept, m) /\ m - Len(kept) = n - j /\ FreshOf(f) = 1 .. m
      BY <2>2, <2>5
    <3>2. m \in Nat /\ m \in 1 .. n /\ FreshOf(f) # {}
      <4>1. m \in 1 .. n
        BY <2>2
      <4>2. 1 \in 1 .. m
        BY <4>1
      <4>. QED
        <5>1. FreshOf(f) = 1 .. m
          BY <3>1
        <5>2. FreshOf(f) # {}
          BY <4>2, <5>1
        <5>. QED
          BY <4>1, <5>2
    <3>3. CASE chain.nudge
      <4> DEFINE events == Texts(<<Footer>>)
      <4>1. h = EmitAll(g, events)
        BY <1>4, <1>7, <2>5, <3>3
      <4>2. events \in Seq(Events) /\ Indices(events) = {} /\ Lists(events, {Footer})
        <5>1. <<Footer>> \in Seq(Nat) /\ (\A i, k \in DOMAIN <<Footer>> : i < k => <<Footer>>[i] < <<Footer>>[k])
          BY <1>5
        <5>2. Range(<<Footer>>) = {Footer}
          BY DEF Range
        <5>3. Texts(<<Footer>>) \in Seq(TextEvents)
          BY <5>1, TextsInOrder
        <5>4. Lists(Texts(<<Footer>>), {Footer}) /\ Indices(Texts(<<Footer>>)) = {}
          BY <5>1, <5>2, TextsInOrder
        <5>. QED
          BY <5>3, <5>4 DEF Events
      <4> HIDE DEF events
      <4>3. /\ CallsFit(h, f.made) /\ Keeps(g, h, {"out", "hasTool"})
            /\ \A A, B : Lists(g.out, A) /\ Lists(events, B) /\ (\A a \in A, b \in B : a < b)
                       => Lists(h.out, A \cup B)
        BY <1>1, <4>1, <4>2, EmitTexts
      <4>4. Lists(g.out, 1 .. n) /\ \A a \in 1 .. n, b \in {Footer} : a < b
        BY <1>1, <1>5, <2>3, <3>3
      <4>5. Lists(h.out, (1 .. n) \cup {Footer})
        BY <4>2, <4>3, <4>4
      <4>6. Due(f) = (1 .. n) \cup {Footer}
        BY <1>7, <2>3, <3>2, <3>3 DEF Due, Texted
      <4>7. Keeps(f, h, {"out", "hasTool"})
        BY <1>1, <4>3 DEF Keeps
      <4>. QED
        BY <4>3, <4>5, <4>6, <4>7 DEF h, g
    <3>4. CASE ~chain.nudge
      <4> DEFINE ids == Append(kept, Footer)
                 events == Texts(ids)
      <4>1. h = EmitAll(g, events)
        BY <1>4, <1>7, <2>5, <3>4
      <4>2. events \in Seq(Events) /\ Indices(events) = {} /\ Lists(events, ((n - j + 1) .. m) \cup {Footer})
        <5>1. /\ kept \in Seq(Nat) /\ Len(kept) \in 0 .. m /\ Range(kept) = (n - j + 1) .. m
              /\ \A k \in DOMAIN kept : kept[k] = m - Len(kept) + k
          BY <3>1, <3>2, LastOfListed DEF LastOf
        <5>2. DOMAIN kept = 1 .. Len(kept) /\ Len(kept) \in Nat
          BY <5>1, LenProperties
        <5>3. /\ ids \in Seq(Nat) /\ Len(ids) = Len(kept) + 1 /\ ids[Len(kept) + 1] = Footer
              /\ \A k \in 1 .. Len(kept) : ids[k] = kept[k]
          BY <1>5, <5>1, AppendProperties
        <5>4. DOMAIN ids = 1 .. Len(kept) + 1
          BY <5>3, LenProperties
        <5> HIDE DEF ids
        <5>5. \A k \in 1 .. Len(kept) : ids[k] = m - Len(kept) + k /\ ids[k] < Footer
          <6> DEFINE l == Len(kept)
          <6> TAKE k \in 1 .. l
          <6>1. l \in 0 .. m /\ k \in 1 .. l /\ ids[k] = m - l + k
            BY <5>1, <5>2, <5>3
          <6> HIDE DEF l
          <6>2. m - l + k < Footer
            BY <1>5, <3>2, <6>1
          <6>. QED
            BY <6>1, <6>2 DEF l
        <5>6. \A i, k \in DOMAIN ids : i < k => ids[i] < ids[k]
          <6> TAKE i, k \in DOMAIN ids
          <6> HAVE i < k
          <6>1. i \in 1 .. Len(kept) /\ (k \in 1 .. Len(kept) \/ k = Len(kept) + 1)
            BY <5>2, <5>4
          <6>. QED
            BY <3>2, <5>1, <5>3, <5>5, <6>1
        <5>7. Range(ids) = Range(kept) \cup {Footer}
          <6>1. \A k \in DOMAIN ids : k \in DOMAIN kept \/ k = Len(kept) + 1
            BY <5>2, <5>4
          <6>2. \A k \in DOMAIN kept : k \in DOMAIN ids /\ ids[k] = kept[k]
            BY <5>2, <5>3, <5>4
          <6>3. Len(kept) + 1 \in DOMAIN ids
            BY <5>2, <5>4
          <6>. QED
            BY <5>3, <6>1, <6>2, <6>3 DEF Range
        <5>8. /\ Texts(ids) \in Seq(TextEvents) /\ Lists(Texts(ids), Range(ids))
              /\ Indices(Texts(ids)) = {}
          BY <5>3, <5>6, TextsInOrder
        <5>. QED
          BY <5>1, <5>7, <5>8 DEF Events
      <4> HIDE DEF events
      <4>3. /\ CallsFit(h, f.made) /\ Keeps(g, h, {"out", "hasTool"})
            /\ \A A, B : Lists(g.out, A) /\ Lists(events, B) /\ (\A a \in A, b \in B : a < b)
                       => Lists(h.out, A \cup B)
        BY <1>1, <4>1, <4>2, EmitTexts
      <4>4. /\ Lists(g.out, 1 .. (n - j))
            /\ \A a \in 1 .. (n - j), b \in ((n - j + 1) .. m) \cup {Footer} : a < b
        <5>1. Lists(g.out, 1 .. (n - j))
          BY <1>1, <1>7, <3>4 DEF j
        <5>2. \A a \in 1 .. (n - j), b \in ((n - j + 1) .. m) \cup {Footer} : a < b
          BY <1>5, <2>2, <3>2
        <5>. QED
          BY <5>1, <5>2
      <4>5. Lists(h.out, (1 .. (n - j)) \cup (((n - j + 1) .. m) \cup {Footer}))
        BY <4>2, <4>3, <4>4
      <4>6. (1 .. (n - j)) \cup (((n - j + 1) .. m) \cup {Footer}) = (1 .. m) \cup {Footer}
        BY <2>2, <3>1, <3>2
      <4>7. Due(f) = (1 .. m) \cup {Footer}
        BY <1>7, <3>1, <3>2, <3>4 DEF Due
      <4>8. Keeps(f, h, {"out", "hasTool"})
        BY <1>1, <4>3 DEF Keeps
      <4>. QED
        BY <4>3, <4>5, <4>6, <4>7, <4>8 DEF h, g
    <3>. QED
      BY <3>3, <3>4
  <2>. QED
    BY <2>4, <2>5
<1>. QED
  BY <1>6, <1>7

-----------------------------------------------------------------------------
(* The end of an attempt: its calls.                                       *)

\* What Repeated and IsNew say, of the calls of any attempt.
RepeatAmong(made, k) ==
  /\ IsJson(made[k].pieces)
  /\ Signature(made[k]) = IF k = 1 THEN HistorySignature ELSE Signature(made[k - 1])
NewAmong(made, k) ==
  /\ IsJson(made[k].pieces) /\ Signature(made[k]) # HistorySignature
  /\ \A j \in 1 .. (k - 1) : Signature(made[j]) # Signature(made[k])

\* What the client gets is the model's, the new calls are there, and in exact
\* mode no repeat is.
Answers(out, made) ==
  /\ \A i \in Indices(out) : i \in DOMAIN made /\ Carries(out, i, made[i])
  /\ \A k \in DOMAIN made : NewAmong(made, k) => k \in Indices(out)
  /\ chain.tls = "exact" => \A k \in DOMAIN made : RepeatAmong(made, k) => k \notin Indices(out)

LEMMA SameSignature ==
  ASSUME NEW call, NEW other
  PROVE  /\ Signature(call) = Signature(other) <=> call.name = other.name /\ call.pieces = other.pieces
         /\ Signature(call) = HistorySignature => call.name = HistoryName
<1>1. Signature(call) = Signature(other) <=> call.name = other.name /\ call.pieces = other.pieces
  BY DEF Signature
<1>2. ASSUME Signature(call) = HistorySignature PROVE call.name = HistoryName
  <2>1. Signature(call)[1] = call.name
    BY DEF Signature
  <2>2. HistorySignature[1] = HistoryName
    BY DEF HistorySignature, HistoryName
  <2>. QED
    BY <1>2, <2>1, <2>2
<1>. QED
  BY <1>1, <1>2

\* What a stopper in exact mode has let through is no repeat.
LEMMA PassedIsNoRepeat ==
  ASSUME NEW f, NEW made, Made(made), GateFits(f, made), NEW k \in DOMAIN made, RepeatAmong(made, k)
  PROVE  k \notin Indices(f.out)
<1> SUFFICES ASSUME k \in Indices(f.out) PROVE FALSE
  OBVIOUS
<1>1. made[k].name # NameBefore(k, made)
  BY DEF GateFits, Passed
<1>2. made[k].name = NameBefore(k, made)
  <2>1. CASE k = 1
    <3>1. Signature(made[k]) = HistorySignature
      BY <2>1 DEF RepeatAmong
    <3>2. made[k].name = HistoryName
      BY <3>1, SameSignature
    <3>. QED
      BY <2>1, <3>2 DEF NameBefore
  <2>2. CASE k # 1
    <3>1. Signature(made[k]) = Signature(made[k - 1])
      BY <2>2 DEF RepeatAmong
    <3>2. made[k].name = made[k - 1].name
      BY <3>1, SameSignature
    <3>. QED
      BY <2>2, <3>2 DEF NameBefore
  <2>. QED
    BY <2>1, <2>2
<1>. QED
  BY <1>1, <1>2

\* The verdict on the calls of the gate.
LEMMA VerdictOnMade ==
  ASSUME NEW f, NEW made, Made(made), InGate(f.gate, made)
  PROVE  \E prior : /\ Priors(f.gate, prior)
                    /\ Found(f.gate, prior, GateVerdict(f).repeats)
                    /\ LetOut(f.gate, prior, GateVerdict(f).released)
<1>1. f.gate \in Seq(Held) /\ DOMAIN f.gate = DOMAIN made
      /\ \A k \in DOMAIN made : /\ f.gate[k].name = made[k].name /\ f.gate[k].pieces = made[k].pieces
                                /\ OfOne(f.gate[k].events, k, made[k])
  BY DEF InGate, Alike
<1>2. \A k \in DOMAIN f.gate : OfOne(f.gate[k].events, k, f.gate[k])
  <2> TAKE k \in DOMAIN f.gate
  <2>1. /\ f.gate[k].events \in Seq(CallEvents) /\ Indices(f.gate[k].events) = {k}
        /\ Lists(f.gate[k].events, {}) /\ Carries(f.gate[k].events, k, made[k])
    BY <1>1 DEF OfOne
  <2>2. Carries(f.gate[k].events, k, f.gate[k])
    BY <1>1, <2>1, CarriesAlike
  <2>. QED
    BY <2>1, <2>2 DEF OfOne
<1>. QED
  BY <1>1, <1>2, VerdictEffect

\* The signatures of the gate are those of the calls made.
LEMMA PriorsOfMade ==
  ASSUME NEW gate, NEW made, Made(made), InGate(gate, made), NEW prior, Priors(gate, prior),
         NEW k \in DOMAIN made, IsJson(made[k].pieces)
  PROVE  /\ NewAmong(made, k) => Signature(gate[k]) # prior[k - 1]
         /\ RepeatAmong(made, k) => Signature(gate[k]) = prior[k - 1]
<1>1. gate \in Seq(Held) /\ DOMAIN gate = DOMAIN made /\ made \in Seq(Deltas)
      /\ \A j \in DOMAIN made : gate[j].name = made[j].name /\ gate[j].pieces = made[j].pieces
  BY DEF InGate, Alike, Made
<1>2. /\ DOMAIN made = 1 .. Len(gate) /\ Len(gate) \in Nat
  BY <1>1, LenProperties
<1>3. \A j \in DOMAIN made : Signature(gate[j]) = Signature(made[j])
  BY <1>1, SameSignature
<1>4. /\ prior[0] = HistorySignature
      /\ \A j \in DOMAIN made : IsJson(gate[j].pieces) => prior[j] = Signature(gate[j])
      /\ \A j \in 0 .. Len(gate) : \/ prior[j] = HistorySignature
                                   \/ \E i \in 1 .. j : prior[j] = Signature(gate[i])
  BY <1>1 DEF Priors
<1>5. k - 1 \in 0 .. Len(gate) /\ \A i \in 1 .. (k - 1) : i \in DOMAIN made
  BY <1>2
<1>6. NewAmong(made, k) => Signature(gate[k]) # prior[k - 1]
  <2> HAVE NewAmong(made, k)
  <2>1. Signature(made[k]) # HistorySignature
        /\ \A j \in 1 .. (k - 1) : Signature(made[j]) # Signature(made[k])
    BY DEF NewAmong
  <2>2. CASE prior[k - 1] = HistorySignature
    BY <1>3, <2>1, <2>2
  <2>3. CASE \E i \in 1 .. (k - 1) : prior[k - 1] = Signature(gate[i])
    <3>1. PICK i \in 1 .. (k - 1) : prior[k - 1] = Signature(gate[i])
      BY <2>3
    <3>. QED
      BY <1>3, <1>5, <2>1, <3>1
  <2>. QED
    BY <1>4, <1>5, <2>2, <2>3
<1>7. RepeatAmong(made, k) => Signature(gate[k]) = prior[k - 1]
  <2> HAVE RepeatAmong(made, k)
  <2>1. CASE k = 1
    <3>1. Signature(made[k]) = HistorySignature
      BY <2>1 DEF RepeatAmong
    <3>2. prior[k - 1] = HistorySignature
      BY <1>4, <2>1
    <3>. QED
      BY <1>3, <3>1, <3>2
  <2>2. CASE k # 1
    <3>1. Signature(made[k]) = Signature(made[k - 1]) /\ k - 1 \in DOMAIN made
      BY <1>2, <2>2 DEF RepeatAmong
    <3>2. made[k].pieces = made[k - 1].pieces
      BY <3>1, SameSignature
    <3>3. IsJson(gate[k - 1].pieces)
      BY <1>1, <3>1, <3>2
    <3>4. prior[k - 1] = Signature(gate[k - 1])
      BY <1>4, <3>1, <3>3
    <3>. QED
      BY <1>3, <3>1, <3>4
  <2>. QED
    BY <2>1, <2>2
<1>. QED
  BY <1>6, <1>7

\* A repeat that the stopper has found is one.
LEMMA RepeatIsOne ==
  ASSUME NEW f, NEW made, Made(made), InGate(f.gate, made), GateVerdict(f).repeats
  PROVE  \E k \in DOMAIN made : IsJson(made[k].pieces) /\ ~NewAmong(made, k)
<1>1. PICK prior : Priors(f.gate, prior) /\ Found(f.gate, prior, GateVerdict(f).repeats)
  BY VerdictOnMade
<1>2. PICK k \in DOMAIN f.gate : IsJson(f.gate[k].pieces) /\ Signature(f.gate[k]) = prior[k - 1]
  BY <1>1 DEF Found
<1>3. k \in DOMAIN made /\ IsJson(made[k].pieces)
  BY <1>2 DEF InGate, Alike
<1>4. ~NewAmong(made, k)
  BY <1>1, <1>2, <1>3, PriorsOfMade
<1>. QED
  BY <1>3, <1>4

LEMMA GateEnds ==
  ASSUME chain.tls = "exact", NEW f, NEW made, Made(made), HasOut(f), GateFits(f, made),
         NEW h, LetsOut(f, h, GateVerdict(f).released)
  PROVE  Answers(h.out, made) /\ \A A : Lists(f.out, A) => Lists(h.out, A)
<1> DEFINE gate == f.gate
           s == f.out
           t == GateVerdict(f).released
           P == LetThrough(gate)
<1>1. InGate(gate, made) /\ Passed(P, f, made)
  BY DEF GateFits
<1>2. PICK prior : Priors(gate, prior) /\ LetOut(gate, prior, t)
  BY <1>1, VerdictOnMade
<1> DEFINE F == Freed(gate, prior)
<1>3. gate \in Seq(Held) /\ DOMAIN gate = DOMAIN made
      /\ \A k \in DOMAIN made : gate[k].name = made[k].name /\ gate[k].pieces = made[k].pieces
  BY <1>1 DEF InGate, Alike
<1>4. /\ P \subseteq DOMAIN made /\ Indices(s) = P
      /\ \A k \in P : Carries(s, k, made[k])
  BY <1>1 DEF Passed, FirstOnes
<1>5. /\ t \in Seq(Events) /\ Lists(t, {}) /\ Indices(t) = F
      /\ \A k \in F : Carries(t, k, gate[k])
  BY <1>2, SeqOfCalls DEF LetOut
<1>6. /\ F \subseteq DOMAIN made /\ F \cap P = {}
      /\ \A k \in F : Signature(gate[k]) # prior[k - 1]
      /\ \A k \in DOMAIN made : (k \notin P /\ IsJson(made[k].pieces) /\ Signature(gate[k]) # prior[k - 1])
                                => k \in F
  <2>1. \A k \in DOMAIN gate : gate[k].state \in {"pending", "accepted"}
    <3>1. \A k \in DOMAIN gate : gate[k] \in Held
      BY <1>3, ElementOfSeq, LenProperties
    <3>. QED
      BY <3>1 DEF Held
  <2>. QED
    BY <1>3, <2>1 DEF Freed, LetThrough
<1>7. s \in Seq(Events) /\ h.out = s \o t
  BY DEF HasOut, LetsOut
<1> HIDE DEF gate, s, t, P, F
<1>8. Indices(h.out) = P \cup F
  <2>1. Indices(s \o t) = Indices(s) \cup Indices(t)
    BY <1>5, <1>7, IndicesBoth
  <2>. QED
    BY <1>4, <1>5, <1>7, <2>1
<1>9. ASSUME NEW i \in P \cup F PROVE i \in DOMAIN made /\ Carries(h.out, i, made[i])
  <2>1. CASE i \in P
    <3>1. Under(i, t) = {} /\ Carries(s, i, made[i])
      BY <1>4, <1>5, <1>6, <2>1, IndicesUnder
    <3>2. Carries(s \o t, i, made[i])
      BY <1>5, <1>7, <3>1, CarriesFirst
    <3>. QED
      BY <1>4, <1>7, <2>1, <3>2
  <2>2. CASE i \in F
    <3>1. i \in DOMAIN made /\ i \notin P
      BY <1>6, <2>2
    <3>2. Carries(t, i, made[i])
      BY <1>3, <1>5, <2>2, <3>1, CarriesAlike
    <3>3. Under(i, s) = {}
      BY <1>4, <3>1, IndicesUnder
    <3>4. Carries(s \o t, i, made[i])
      BY <1>5, <1>7, <3>2, <3>3, CarriesSecond
    <3>. QED
      BY <1>7, <3>1, <3>4
  <2>. QED
    BY <2>1, <2>2
<1>10. ASSUME NEW k \in DOMAIN made, NewAmong(made, k) PROVE k \in P \cup F
  <2>1. IsJson(made[k].pieces)
    BY <1>10 DEF NewAmong
  <2>2. Signature(gate[k]) # prior[k - 1]
    BY <1>1, <1>2, <1>10, <2>1, PriorsOfMade
  <2>. QED
    BY <1>6, <2>1, <2>2
<1>11. ASSUME NEW k \in DOMAIN made, RepeatAmong(made, k) PROVE k \notin P \cup F
  <2>1. k \notin P
    <3>1. k \notin Indices(f.out)
      BY <1>11, PassedIsNoRepeat
    <3>. QED
      BY <1>4, <3>1 DEF s
  <2>2. IsJson(made[k].pieces)
    BY <1>11 DEF RepeatAmong
  <2>3. Signature(gate[k]) = prior[k - 1]
    BY <1>1, <1>2, <1>11, <2>2, PriorsOfMade
  <2>. QED
    BY <1>6, <2>1, <2>3
<1>12. \A A : Lists(s, A) => Lists(h.out, A)
  <2> TAKE A
  <2> HAVE Lists(s, A)
  <2>1. Lists(s \o t, A \cup {})
    BY <1>5, <1>7, ListsBoth
  <2>. QED
    BY <1>7, <2>1
<1>. QED
  BY <1>8, <1>9, <1>10, <1>11, <1>12 DEF Answers, s

\* The assembled calls go out whole.
LEMMA AssembledEnds ==
  ASSUME HoldsCalls, chain.tls # "exact", NEW f, NEW made, Made(made), CallsFit(f, made),
         NEW h, LetsOut(f, h, ValidOnly(f.calls))
  PROVE  Answers(h.out, made) /\ \A A : Lists(f.out, A) => Lists(h.out, A)
<1> DEFINE s == f.out
           t == ValidOnly(f.calls)
           calls == f.calls
<1>1. /\ calls \in Seq(Calls) /\ DOMAIN calls = DOMAIN made
      /\ \A k \in DOMAIN made : calls[k].name = made[k].name /\ calls[k].pieces = made[k].pieces
      /\ Indices(s) = {} /\ s \in Seq(Events)
  BY DEF CallsFit, HasOut, Assembles, Alike
<1>2. DOMAIN made = 1 .. Len(calls)
  BY <1>1, LenProperties
<1>3. /\ t \in Seq(Events) /\ Lists(t, {})
      /\ Indices(t) = {i \in 1 .. Len(calls) : IsJson(calls[i].pieces)}
      /\ \A i \in Indices(t) : Carries(t, i, calls[i])
  BY <1>1, ValidCalls, SeqOfCalls
<1>4. h.out = s \o t
  BY DEF LetsOut
<1> HIDE DEF s, t, calls
<1>5. Indices(h.out) = Indices(t)
  <2>1. Indices(s \o t) = Indices(s) \cup Indices(t)
    BY <1>1, <1>3, IndicesBoth
  <2>. QED
    BY <1>1, <1>4, <2>1
<1>6. ASSUME NEW i \in Indices(t) PROVE i \in DOMAIN made /\ Carries(h.out, i, made[i])
  <2>1. i \in DOMAIN made
    BY <1>2, <1>3
  <2>2. Carries(t, i, made[i])
    BY <1>1, <1>3, <2>1, CarriesAlike
  <2>3. Under(i, s) = {}
    BY <1>1, IndicesUnder
  <2>4. Carries(s \o t, i, made[i])
    BY <1>1, <1>3, <2>2, <2>3, CarriesSecond
  <2>. QED
    BY <1>4, <2>1, <2>4
<1>7. ASSUME NEW k \in DOMAIN made, NewAmong(made, k) PROVE k \in Indices(t)
  <2>1. IsJson(calls[k].pieces)
    BY <1>1, <1>7 DEF NewAmong
  <2>. QED
    BY <1>2, <1>3, <2>1
<1>8. \A A : Lists(s, A) => Lists(h.out, A)
  <2> TAKE A
  <2> HAVE Lists(s, A)
  <2>1. Lists(s \o t, A \cup {})
    BY <1>1, <1>3, ListsBoth
  <2>. QED
    BY <1>4, <2>1
<1>. QED
  BY <1>5, <1>6, <1>7, <1>8 DEF Answers, s

LEMMA CallsEnd ==
  ASSUME Sound(chain), NEW f, NEW made, Made(made), CallsFit(f, made)
  PROVE  LET h == FlushGate(FlushCalls(f))
         IN  /\ HasOut(h) /\ Keeps(f, h, {"out", "hasTool"})
             /\ Answers(h.out, made) /\ \A A : Lists(f.out, A) => Lists(h.out, A)
<1> DEFINE h == FlushGate(FlushCalls(f))
<1>1. HasOut(f) /\ DOMAIN f = Fields /\ f.calls \in Seq(Calls)
  BY DEF CallsFit, HasOut, Assembles
<1>a. ASSUME NEW events, LetsOut(f, h, events) PROVE HasOut(h) /\ Keeps(f, h, {"out", "hasTool"})
  <2> HIDE DEF h
  <2>. QED
    BY <1>a DEF LetsOut, HasOut, Keeps
<1>2. CASE chain.tls = "exact"
  <2>1. ~HoldsCalls
    BY <1>2 DEF Sound, HoldsCalls
  <2>2. h = EmitAll(f, GateVerdict(f).released)
    BY <1>2, <2>1 DEF FlushGate, FlushCalls
  <2>3. GateFits(f, made)
    BY <1>2 DEF CallsFit
  <2>4. GateVerdict(f).released \in Seq(Events)
    <3>1. InGate(f.gate, made)
      BY <2>3 DEF GateFits
    <3>2. PICK prior : LetOut(f.gate, prior, GateVerdict(f).released)
      BY <3>1, VerdictOnMade
    <3>. QED
      BY <3>2, SeqOfCalls DEF LetOut
  <2>5. LetsOut(f, h, GateVerdict(f).released)
    BY <1>1, <2>2, <2>4, EmitAllLetsOut
  <2> HIDE DEF h
  <2>6. Answers(h.out, made) /\ \A A : Lists(f.out, A) => Lists(h.out, A)
    BY <1>1, <1>2, <2>3, <2>5, GateEnds
  <2>. QED
    BY <1>a, <2>5, <2>6 DEF h
<1>3. CASE chain.tls # "exact" /\ HoldsCalls
  <2>1. h = EmitAll(f, ValidOnly(f.calls))
    BY <1>3 DEF FlushGate, FlushCalls
  <2>2. ValidOnly(f.calls) \in Seq(Events)
    BY <1>1, ValidCalls, SeqOfCalls
  <2>3. LetsOut(f, h, ValidOnly(f.calls))
    BY <1>1, <2>1, <2>2, EmitAllLetsOut
  <2> HIDE DEF h
  <2>4. Answers(h.out, made) /\ \A A : Lists(f.out, A) => Lists(h.out, A)
    BY <1>3, <2>3, AssembledEnds
  <2>. QED
    BY <1>a, <2>3, <2>4 DEF h
<1>4. CASE chain.tls # "exact" /\ ~HoldsCalls
  <2>1. h = f
    BY <1>4 DEF FlushGate, FlushCalls
  <2>2. Relayed(f, made)
    BY <1>4 DEF CallsFit
  <2>3. Answers(f.out, made)
    BY <1>4, <2>2 DEF Answers, Relayed
  <2>4. Keeps(f, f, {"out", "hasTool"})
    BY <1>1 DEF Keeps
  <2>. QED
    BY <1>1, <2>1, <2>3, <2>4
<1>. QED
  BY <1>2, <1>3, <1>4

-----------------------------------------------------------------------------
(* The invariant.                                                          *)

AttemptFits(f) ==
  /\ CallsFit(f, f.made) /\ Made(f.made) /\ Kinds(f.texts) /\ Shown(f, Len(f.texts))
  /\ f.deltas \in 0 .. MaxDeltas /\ Len(f.texts) <= f.deltas

\* What is true of an attempt in any state.
Outcome(f) ==
  /\ f.state \in {"open", "accepted", "rejected", "fellback"} /\ Made(f.made)
  /\ f.state = "accepted" => /\ Lists(f.out, Due(f)) /\ Answers(f.out, f.made)
                             /\ Indices(f.out) # {} => f.reason = "tool_calls"
  /\ chain.tls = "exact" => \A k \in DOMAIN f.made : RepeatAmong(f.made, k) => k \notin Indices(f.out)
  /\ (chain.tls = "exact" /\ f.state = "rejected")
       => \E k \in DOMAIN f.made : IsJson(f.made[k].pieces) /\ ~NewAmong(f.made, k)

FinalizerInvariant ==
  /\ chain \in Chains /\ Outcome(attempt)
  /\ attempt.state = "open" => AttemptFits(attempt)

\* The invariant is about the attempt and what its finalizers and the
\* conversation are, which stay.
LEMMA FitsNext ==
  ASSUME chain' = chain, history' = history, AttemptFits(attempt')
  PROVE  AttemptFits(attempt)'
<1>1. HoldsCalls' = HoldsCalls /\ HistoryName' = HistoryName
  BY DEF HoldsCalls, HistoryName
<1>2. CallsFit(attempt, attempt.made)'
  <2>1. (Assembles(attempt, attempt.made) /\ HasOut(attempt))'
    BY DEF AttemptFits, CallsFit, Assembles, HasOut
  <2>2. (HoldsCalls => Indices(attempt.out) = {})'
    BY <1>1 DEF AttemptFits, CallsFit
  <2>3. (chain.tls = "exact" => GateFits(attempt, attempt.made))'
    BY <1>1 DEF AttemptFits, CallsFit, GateFits, Passed, NameBefore
  <2>4. (~HoldsCalls /\ chain.tls # "exact" => Relayed(attempt, attempt.made))'
    BY <1>1 DEF AttemptFits, CallsFit, Relayed
  <2>. QED
    BY <2>1, <2>2, <2>3, <2>4 DEF CallsFit
<1>3. Shown(attempt, Len(attempt.texts))'
  BY DEF AttemptFits, Shown, Listed, Tailed
<1>. QED
  BY <1>2, <1>3 DEF AttemptFits

LEMMA OutcomeNext ==
  ASSUME chain' = chain, history' = history, Outcome(attempt')
  PROVE  Outcome(attempt)'
<1>1. HistorySignature' = HistorySignature
  BY DEF HistorySignature
<1>. QED
  BY <1>1 DEF Outcome, Due, FreshOf, Answers, NewAmong, RepeatAmong

\* Of an attempt that goes on, the outcome is still open.
LEMMA OpenOutcome ==
  ASSUME NEW f, AttemptFits(f), f.state = "open"
  PROVE  Outcome(f)
<1>1. Made(f.made)
  BY DEF AttemptFits
<1>2. chain.tls = "exact" => \A k \in DOMAIN f.made : RepeatAmong(f.made, k) => k \notin Indices(f.out)
  <2> HAVE chain.tls = "exact"
  <2>1. GateFits(f, f.made)
    BY DEF AttemptFits, CallsFit
  <2>. QED
    BY <1>1, <2>1, PassedIsNoRepeat
<1>. QED
  BY <1>1, <1>2 DEF Outcome

\* A delta of a call.
LEMMA CallArrives ==
  ASSUME Sound(chain), NEW f, AttemptFits(f), f.xml = <<>>, NEW d, NEW more, Grows(f.made, d, more),
         NEW g, Keeps(f, g, {"deltas", "natives", "made"}), g.made = more,
         g.deltas = f.deltas + 1, f.deltas < MaxDeltas
  PROVE  AttemptFits(CallDelta(g, d)) /\ CallDelta(g, d).state = f.state
<1> DEFINE h == CallDelta(g, d)
           n == Len(f.texts)
<1>1. /\ CallsFit(f, f.made) /\ Made(f.made) /\ Kinds(f.texts) /\ Shown(f, n)
      /\ f.deltas \in 0 .. MaxDeltas /\ n <= f.deltas /\ MaxDeltas \in Nat /\ n \in Nat
  <2>1. f.texts \in Seq(TextKinds)
    BY DEF AttemptFits, Kinds
  <2>. QED
    BY <2>1, LenProperties, SetupAssumption DEF AttemptFits
<1>2. /\ SameCalls(f, g) /\ DOMAIN g = Fields /\ g.xml = f.xml /\ g.turned = f.turned /\ g.skip = f.skip
      /\ g.tail = f.tail /\ g.texts = f.texts /\ g.state = f.state /\ g.out = f.out
  BY DEF Keeps, Fields, SameCalls
<1>3. CallsFit(g, f.made)
  BY <1>1, <1>2, CallsFrame
<1>4. Shown(g, n)
  <2>1. Listed(g, n) = Listed(f, n)
    BY <1>2 DEF Listed
  <2>. QED
    BY <1>1, <1>2, <2>1 DEF Shown
<1>5. /\ CallsFit(h, more) /\ Keeps(g, h, CallFields)
      /\ \A A : Lists(g.out, A) => Lists(h.out, A)
  BY <1>1, <1>3, CallDeltaStep
<1> HIDE DEF h
<1>6. Shown(h, n)
  BY <1>4, <1>5, ShownFrame
<1>7. h.made = more /\ h.texts = f.texts /\ h.deltas = f.deltas + 1 /\ h.state = f.state
  BY <1>2, <1>5 DEF Keeps, Fields, CallFields
<1>8. Made(more)
  BY DEF Grows
<1>9. f.deltas + 1 \in 0 .. MaxDeltas /\ n <= f.deltas + 1
  BY <1>1
<1>. QED
  BY <1>1, <1>5, <1>6, <1>7, <1>8, <1>9 DEF AttemptFits, h

LEMMA FirstDelta ==
  ASSUME NEW made, Made(made), NEW name \in Names, NEW pieces,
         pieces = <<>> \/ \E p \in Pieces : pieces = <<p>>
  PROVE  LET d == Delta(Len(made) + 1, name, pieces)
         IN  Grows(made, d, Append(made, d))
<1> DEFINE i == Len(made) + 1
           d == Delta(i, name, pieces)
           more == Append(made, d)
<1>1. made \in Seq(Deltas) /\ DOMAIN made = 1 .. Len(made) /\ Len(made) \in Nat
  BY LenProperties DEF Made
<1>2. pieces \in Seq(Pieces)
  <2>1. CASE pieces = <<>>
    BY <2>1, EmptySeq
  <2>2. CASE \E p \in Pieces : pieces = <<p>>
    <3>1. PICK p \in Pieces : pieces = <<p>>
      BY <2>2
    <3>2. <<p>> \in Seq(Pieces)
      OBVIOUS
    <3>. QED
      BY <3>1, <3>2
  <2>. QED
    BY <2>1, <2>2
<1>3. d \in Deltas /\ d.index = i /\ d.name = name /\ d.pieces = pieces
  BY <1>1, <1>2 DEF Delta, Deltas
<1> HIDE DEF d
<1>4. /\ more \in Seq(Deltas) /\ Len(more) = i /\ more[i] = d
      /\ \A k \in 1 .. Len(made) : more[k] = made[k]
  BY <1>1, <1>3, AppendProperties
<1> HIDE DEF more
<1>5. DOMAIN more = DOMAIN made \cup {i} /\ i \notin DOMAIN made
  <2>1. DOMAIN more = 1 .. i
    BY <1>4, LenProperties
  <2>. QED
    BY <1>1, <2>1
<1>6. Made(more)
  <2>1. ASSUME NEW k \in DOMAIN more
        PROVE  /\ more[k].index = k /\ more[k].name \in Names
               /\ more[k].pieces = <<>> \/ \E p \in Pieces : more[k].pieces = <<p>>
    <3>1. CASE k = i
      BY <1>3, <1>4, <3>1
    <3>2. CASE k # i
      <4>1. k \in DOMAIN made /\ more[k] = made[k]
        BY <1>1, <1>4, <1>5, <3>2
      <4>. QED
        BY <4>1 DEF Made
    <3>. QED
      BY <3>1, <3>2
  <2>. QED
    BY <1>4, <2>1 DEF Made
<1>7. Grows(made, d, more)
  BY <1>1, <1>3, <1>4, <1>5, <1>6 DEF Grows
<1>. QED
  BY <1>7 DEF d, more

LEMMA NextDelta ==
  ASSUME NEW made, Made(made), NEW k \in DOMAIN made, made[k].pieces = <<>>, NEW p \in Pieces
  PROVE  Grows(made, Delta(made[k].index, "none", <<p>>), [made EXCEPT ![k].pieces = <<p>>])
<1> DEFINE d == Delta(made[k].index, "none", <<p>>)
           b == [made[k] EXCEPT !.pieces = <<p>>]
           more == [made EXCEPT ![k] = b]
<1>1. made \in Seq(Deltas) /\ DOMAIN made = 1 .. Len(made) /\ Len(made) \in Nat
  BY LenProperties DEF Made
<1>2. made[k] \in Deltas /\ made[k].index = k /\ made[k].name \in Names /\ k \in Nat
  BY <1>1, ElementOfSeq DEF Made
<1>3. <<p>> \in Seq(Pieces)
  OBVIOUS
<1>4. /\ d \in Deltas /\ d.index = k /\ d.name = "none" /\ d.pieces = <<p>>
      /\ b \in Deltas /\ b.index = k /\ b.name = made[k].name /\ b.pieces = <<p>>
  BY <1>2, <1>3 DEF Delta, Deltas
<1>5. [made EXCEPT ![k].pieces = <<p>>] = more
  BY <1>1
<1> HIDE DEF d, b
<1>6. more \in Seq(Deltas) /\ DOMAIN more = DOMAIN made /\ more[k] = b
      /\ \A j \in DOMAIN made \ {k} : more[j] = made[j]
  BY <1>1, <1>4, ExceptSeq
<1> HIDE DEF more
<1>7. Made(more)
  <2>1. ASSUME NEW j \in DOMAIN more
        PROVE  /\ more[j].index = j /\ more[j].name \in Names
               /\ more[j].pieces = <<>> \/ \E q \in Pieces : more[j].pieces = <<q>>
    <3>1. CASE j = k
      BY <1>2, <1>4, <1>6, <3>1
    <3>2. CASE j # k
      <4>1. j \in DOMAIN made /\ more[j] = made[j]
        BY <1>6, <3>2
      <4>. QED
        BY <4>1 DEF Made
    <3>. QED
      BY <3>1, <3>2
  <2>. QED
    BY <1>6, <2>1 DEF Made
<1>8. Grows(made, d, more)
  BY <1>4, <1>6, <1>7 DEF Grows
<1>. QED
  BY <1>5, <1>8 DEF d

\* A delta of text.
LEMMA TextArrived ==
  ASSUME Sound(chain), NEW f, AttemptFits(f), NEW kind \in TextKinds,
         kind = "stamp" => kind \notin Range(f.texts),
         kind \in XmlKinds => f.made = <<>> /\ f.xml = <<>>,
         NEW g, Keeps(f, g, {"deltas", "texts"}), g.texts = Append(f.texts, kind),
         g.deltas = f.deltas + 1, f.deltas < MaxDeltas
  PROVE  LET h == TextDelta(g, Len(f.texts) + 1)
         IN  AttemptFits(h) /\ h.state = f.state
<1> DEFINE n == Len(f.texts)
           h == TextDelta(g, n + 1)
<1>1. /\ CallsFit(f, f.made) /\ Made(f.made) /\ Kinds(f.texts) /\ Shown(f, n)
      /\ f.deltas \in 0 .. MaxDeltas /\ n <= f.deltas /\ MaxDeltas \in Nat
  BY SetupAssumption DEF AttemptFits
<1>2. f.texts \in Seq(TextKinds) /\ DOMAIN f.texts = 1 .. n /\ n \in Nat
  BY <1>1, LenProperties DEF Kinds
<1>3. /\ g.texts \in Seq(TextKinds) /\ Len(g.texts) = n + 1 /\ g.texts[n + 1] = kind
      /\ \A k \in 1 .. n : g.texts[k] = f.texts[k]
      /\ DOMAIN g.texts = 1 .. n + 1
  <2>1. /\ g.texts \in Seq(TextKinds) /\ Len(g.texts) = n + 1 /\ g.texts[n + 1] = kind
        /\ \A k \in 1 .. n : g.texts[k] = f.texts[k]
    BY <1>2, AppendProperties
  <2>. QED
    BY <2>1, LenProperties
<1> HIDE DEF n, h
<1>4. Kinds(g.texts)
  <2>1. ASSUME NEW a \in 1 .. n + 1, NEW b \in 1 .. n + 1, g.texts[a] = "stamp", g.texts[b] = "stamp"
        PROVE  a = b
    <3>1. \A k \in 1 .. n + 1 : k \in 1 .. n \/ k = n + 1
      BY <1>2
    <3>2. kind = "stamp" => \A k \in 1 .. n : f.texts[k] # "stamp"
      BY <1>2 DEF Range
    <3>3. CASE a \in 1 .. n /\ b \in 1 .. n
      BY <1>1, <1>2, <1>3, <2>1, <3>3 DEF Kinds
    <3>4. CASE a \in 1 .. n /\ b = n + 1
      BY <1>3, <2>1, <3>2, <3>4
    <3>5. CASE a = n + 1 /\ b \in 1 .. n
      BY <1>3, <2>1, <3>2, <3>5
    <3>. QED
      BY <3>1, <3>3, <3>4, <3>5
  <2>. QED
    BY <1>3, <2>1 DEF Kinds
<1>5. /\ SameCalls(f, g) /\ DOMAIN g = Fields /\ g.xml = f.xml /\ g.turned = f.turned /\ g.skip = f.skip
      /\ g.tail = f.tail /\ g.made = f.made /\ g.state = f.state /\ g.out = f.out
  BY DEF Keeps, Fields, SameCalls
<1>6. CallsFit(g, g.made) /\ Made(g.made)
  BY <1>1, <1>5, CallsFrame
<1>7. Shown(g, n)
  <2>1. Listed(g, n) = Listed(f, n)
    BY <1>5 DEF Listed
  <2>. QED
    BY <1>1, <1>5, <2>1 DEF Shown
<1>8. g.texts[n + 1] \in XmlKinds => g.made = <<>> /\ g.xml = <<>>
  BY <1>3, <1>5
<1>9. Shown(h, n + 1) /\ CallsFit(h, h.made) /\ Made(h.made) /\ Keeps(g, h, TextFields)
  BY <1>2, <1>6, <1>7, <1>8, TextDeltaStep DEF h
<1>10. h.texts = g.texts /\ h.deltas = f.deltas + 1 /\ h.state = f.state
  BY <1>5, <1>9 DEF Keeps, Fields, TextFields, CallFields
<1>11. f.deltas + 1 \in 0 .. MaxDeltas /\ n + 1 <= f.deltas + 1
  BY <1>1, <1>2
<1>. QED
  BY <1>3, <1>4, <1>9, <1>10, <1>11 DEF AttemptFits, h, n

\* What the theorems assume of the configuration and of the model: only chains
\* of finalizers that get along, and no pseudo-call beside another call.  What
\* goes wrong without is in the README.
Compatible == ~IndexReuse /\ \A c \in Chains : Sound(c)

LEMMA NoEvents ==
  /\ Indices(<<>>) = {} /\ Lists(<<>>, {}) /\ \A S : <<>> \in Seq(S)
  /\ DOMAIN <<>> = {} /\ Len(<<>>) = 0
<1>1. DOMAIN <<>> = {}
  OBVIOUS
<1>2. Indices(<<>>) = {} /\ Lists(<<>>, {})
  BY <1>1 DEF Indices, Lists, Said
<1>. QED
  BY <1>1, <1>2, EmptySeq

LEMMA InitFits ==
  ASSUME FcInit
  PROVE  FinalizerInvariant
<1>1. /\ attempt.state = "open" /\ attempt.deltas = 0 /\ attempt.texts = <<>> /\ attempt.made = <<>>
      /\ attempt.turned = {} /\ attempt.out = <<>> /\ attempt.hasTool = FALSE /\ attempt.xml = <<>>
      /\ attempt.skip = FALSE /\ attempt.tail = <<>> /\ attempt.calls = <<>> /\ attempt.gate = <<>>
      /\ attempt.committed = FALSE /\ attempt.last = HistoryName
  BY DEF FcInit, HistoryName
<1>2. DOMAIN attempt = Fields
  BY DEF FcInit, Fields
<1>3. HasOut(attempt)
  BY <1>1, <1>2, NoEvents DEF HasOut
<1>4. Made(attempt.made) /\ Assembles(attempt, attempt.made) /\ Relayed(attempt, attempt.made)
  BY <1>1, NoEvents DEF Made, Assembles, Alike, Relayed
<1>5. GateFits(attempt, attempt.made)
  <2>1. InGate(attempt.gate, attempt.made)
    BY <1>1, NoEvents DEF InGate, Alike
  <2>2. LetThrough(attempt.gate) = {}
    BY <1>1, NoEvents DEF LetThrough
  <2>3. \A k \in 1 .. Len(attempt.made) + 1 : NameBefore(k, attempt.made) = attempt.last
    <3>1. \A k \in 1 .. Len(attempt.made) + 1 : k = 1
      BY <1>1, NoEvents
    <3>. QED
      BY <1>1, <3>1 DEF NameBefore
  <2>4. Passed({}, attempt, attempt.made)
    BY <1>1, <2>3, NoEvents DEF Passed, FirstOnes
  <2>. QED
    BY <2>1, <2>2, <2>4 DEF GateFits
<1>6. CallsFit(attempt, attempt.made)
  BY <1>1, <1>3, <1>4, <1>5, NoEvents DEF CallsFit
<1>7. Shown(attempt, Len(attempt.texts))
  <2>1. LastOf(<<>>, 0)
    BY LastOfNone
  <2>2. TailSize \in Nat
    BY SetupAssumption
  <2>3. Tailed(<<>>, 0)
    BY <2>1, <2>2, NoEvents DEF Tailed
  <2>4. Listed(attempt, 0) = {}
    <3>1. 1 .. (0 - 0) = {}
      OBVIOUS
    <3>. QED
      BY <1>1, <3>1, NoEvents DEF Listed
  <2>. QED
    BY <1>1, <2>1, <2>3, <2>4, NoEvents DEF Shown
<1>8. Kinds(attempt.texts)
  BY <1>1, NoEvents DEF Kinds
<1>9. AttemptFits(attempt)
  <2>1. attempt.deltas \in 0 .. MaxDeltas /\ Len(attempt.texts) <= attempt.deltas
    BY <1>1, NoEvents, SetupAssumption
  <2>. QED
    BY <1>4, <1>6, <1>7, <1>8, <2>1 DEF AttemptFits
<1>10. Outcome(attempt)
  BY <1>1, <1>9, OpenOutcome
<1>. QED
  BY <1>9, <1>10 DEF FinalizerInvariant, FcInit

\* An attempt that goes on.
LEMMA GoesOn ==
  ASSUME chain \in Chains, UNCHANGED <<chain, history, budget>>,
         AttemptFits(attempt'), attempt'.state = "open"
  PROVE  FinalizerInvariant'
<1>1. AttemptFits(attempt)'
  BY FitsNext
<1>2. Outcome(attempt')
  BY OpenOutcome
<1>3. Outcome(attempt)'
  BY <1>2, OutcomeNext
<1>. QED
  BY <1>1, <1>3 DEF FinalizerInvariant

LEMMA EndFits ==
  ASSUME Sound(chain), NEW f, AttemptFits(f), f.state = "open", NEW reason
  PROVE  Outcome(Ended(f, reason)) /\ Ended(f, reason).state # "open"
<1> DEFINE h == Ended(f, reason)
           t == FlushTail(FlushXml(f))
           g == FlushGate(FlushCalls(t))
           n == Len(f.texts)
<1>1. /\ CallsFit(f, f.made) /\ Made(f.made) /\ Kinds(f.texts) /\ Shown(f, n) /\ DOMAIN f = Fields
      /\ n \in Nat /\ n <= MaxDeltas
  <2>1. f.texts \in Seq(TextKinds) /\ MaxDeltas \in Nat /\ f.deltas \in 0 .. MaxDeltas /\ n <= f.deltas
    BY SetupAssumption DEF AttemptFits, Kinds
  <2>2. n \in Nat
    BY <2>1, LenProperties
  <2>3. n <= MaxDeltas
    BY <2>1, <2>2
  <2>. QED
    BY <2>2, <2>3 DEF AttemptFits, CallsFit, HasOut
<1>2. chain.tls = "exact" => \A k \in DOMAIN f.made : RepeatAmong(f.made, k) => k \notin Indices(f.out)
  <2>1. Outcome(f)
    BY OpenOutcome
  <2>. QED
    BY <2>1 DEF Outcome
<1>3. ASSUME NEW state \in {"rejected", "fellback"}, h = Dropped(f, state),
             chain.tls = "exact" /\ state = "rejected" => GateVerdict(f).repeats
      PROVE  Outcome(h) /\ h.state # "open"
  <2>1. h.state = state /\ h.made = f.made /\ (~HoldsCalls => h.out = f.out)
    BY <1>1, <1>3 DEF Dropped, Fields
  <2>2. chain.tls = "exact" => ~HoldsCalls
    BY DEF Sound, HoldsCalls
  <2>3. ASSUME chain.tls = "exact", state = "rejected"
        PROVE  \E k \in DOMAIN f.made : IsJson(f.made[k].pieces) /\ ~NewAmong(f.made, k)
    <3>1. InGate(f.gate, f.made)
      BY <1>1, <2>3 DEF CallsFit, GateFits
    <3>. QED
      BY <1>1, <1>3, <2>3, <3>1, RepeatIsOne
  <2> HIDE DEF h
  <2>. QED
    BY <1>1, <1>2, <2>1, <2>2, <2>3 DEF Outcome
<1>4. CASE Decides(f)
  <2>1. h = Dropped(f, "rejected")
    BY <1>4 DEF Ended
  <2>2. chain.tls = "exact" => GateVerdict(f).repeats
    BY <1>4 DEF Decides
  <2> HIDE DEF h
  <2>3. Outcome(h) /\ h.state # "open"
    BY <1>3, <2>1, <2>2
  <2>. QED
    BY <2>3 DEF h
<1>5. CASE ~Decides(f) /\ Exhausted(f)
  <2>1. h = Dropped(f, "fellback")
    BY <1>5 DEF Ended
  <2> HIDE DEF h
  <2>2. Outcome(h) /\ h.state # "open"
    BY <1>3, <2>1
  <2>. QED
    BY <2>2 DEF h
<1>6. CASE ~Decides(f) /\ ~Exhausted(f)
  <2>1. h = [g EXCEPT !.state = "accepted", !.reason = IF g.hasTool THEN "tool_calls" ELSE reason]
    BY <1>6 DEF Ended
  <2>2. CallsFit(t, f.made) /\ Keeps(f, t, {"out", "hasTool"}) /\ Lists(t.out, Due(f))
    BY <1>1, TextEnds
  <2> HIDE DEF t
  <2>3. /\ HasOut(g) /\ Keeps(t, g, {"out", "hasTool"})
        /\ Answers(g.out, f.made) /\ \A A : Lists(t.out, A) => Lists(g.out, A)
    BY <1>1, <2>2, CallsEnd
  <2> HIDE DEF g, h
  <2>4. /\ g.made = f.made /\ g.texts = f.texts /\ g.turned = f.turned /\ DOMAIN g = Fields
    BY <2>2, <2>3 DEF Keeps, Fields
  <2>5. /\ h.state = "accepted" /\ h.made = f.made /\ h.texts = f.texts /\ h.turned = f.turned
        /\ h.out = g.out /\ (g.hasTool => h.reason = "tool_calls")
    BY <2>1, <2>4 DEF Fields
  <2>6. Due(h) = Due(f)
    BY <2>5 DEF Due, FreshOf
  <2>7. Lists(h.out, Due(h))
    BY <2>2, <2>3, <2>5, <2>6
  <2>8. Indices(h.out) # {} => h.reason = "tool_calls"
    BY <2>3, <2>5 DEF HasOut
  <2>9. Answers(h.out, h.made)
    BY <2>3, <2>5
  <2>10. chain.tls = "exact" => \A k \in DOMAIN h.made : RepeatAmong(h.made, k) => k \notin Indices(h.out)
    BY <2>9 DEF Answers
  <2>11. Outcome(h)
    BY <1>1, <2>5, <2>7, <2>8, <2>9, <2>10 DEF Outcome
  <2>. QED
    BY <2>5, <2>11 DEF h
<1>. QED
  BY <1>4, <1>5, <1>6

LEMMA TextArrivesKeeps ==
  ASSUME Compatible, FinalizerInvariant, NEW kind \in TextKinds, TextArrives(kind)
  PROVE  FinalizerInvariant'
<1> DEFINE g == [Sent EXCEPT !.texts = Append(@, kind)]
<1>1. /\ AttemptFits(attempt) /\ attempt.state = "open" /\ attempt.deltas < MaxDeltas
      /\ chain \in Chains /\ Sound(chain)
  BY DEF TextArrives, Sending, FinalizerInvariant, Compatible
<1>2. DOMAIN attempt = Fields
  BY <1>1 DEF AttemptFits, CallsFit, HasOut
<1>3. /\ Keeps(attempt, g, {"deltas", "texts"}) /\ g.texts = Append(attempt.texts, kind)
      /\ g.deltas = attempt.deltas + 1
  BY <1>2 DEF Keeps, Fields, Sent
<1>4. /\ kind = "stamp" => kind \notin Range(attempt.texts)
      /\ kind \in XmlKinds => attempt.made = <<>> /\ attempt.xml = <<>>
      /\ attempt' = TextDelta(g, Len(attempt.texts) + 1) /\ UNCHANGED <<chain, history, budget>>
  BY DEF TextArrives, Step, Compatible
<1> HIDE DEF g
<1>5. AttemptFits(attempt') /\ attempt'.state = "open"
  BY <1>1, <1>3, <1>4, TextArrived
<1>. QED
  BY <1>1, <1>4, <1>5, GoesOn

LEMMA CallStartsKeeps ==
  ASSUME Compatible, FinalizerInvariant, NEW name \in Names, NEW pieces,
         pieces = <<>> \/ \E p \in Pieces : pieces = <<p>>, CallStarts(name, pieces)
  PROVE  FinalizerInvariant'
<1> DEFINE d == Delta(attempt.natives + 1, name, pieces)
           g == [Sent EXCEPT !.natives = @ + 1, !.made = Append(@, d)]
<1>1. /\ AttemptFits(attempt) /\ attempt.state = "open" /\ attempt.deltas < MaxDeltas
      /\ chain \in Chains /\ Sound(chain)
  BY DEF CallStarts, Sending, FinalizerInvariant, Compatible
<1>2. DOMAIN attempt = Fields /\ Made(attempt.made)
  BY <1>1 DEF AttemptFits, CallsFit, HasOut
<1>3. attempt.natives = Len(attempt.made) /\ attempt.xml = <<>>
  BY DEF CallStarts, Compatible
<1>4. attempt' = CallDelta(g, d) /\ UNCHANGED <<chain, history, budget>>
  BY DEF CallStarts, Step
<1>5. Grows(attempt.made, d, Append(attempt.made, d))
  BY <1>2, <1>3, FirstDelta
<1> HIDE DEF d
<1>6. /\ Keeps(attempt, g, {"deltas", "natives", "made"}) /\ g.made = Append(attempt.made, d)
      /\ g.deltas = attempt.deltas + 1
  BY <1>2 DEF Keeps, Fields, Sent
<1> HIDE DEF g
<1>7. AttemptFits(attempt') /\ attempt'.state = "open"
  BY <1>1, <1>3, <1>4, <1>5, <1>6, CallArrives
<1>. QED
  BY <1>1, <1>4, <1>7, GoesOn

LEMMA CallGoesOnKeeps ==
  ASSUME Compatible, FinalizerInvariant, NEW k \in DOMAIN attempt.made, NEW p \in Pieces, CallGoesOn(k, p)
  PROVE  FinalizerInvariant'
<1> DEFINE d == Delta(attempt.made[k].index, "none", <<p>>)
           more == [attempt.made EXCEPT ![k].pieces = <<p>>]
           g == [Sent EXCEPT !.made[k].pieces = <<p>>]
<1>1. /\ AttemptFits(attempt) /\ attempt.state = "open" /\ attempt.deltas < MaxDeltas
      /\ chain \in Chains /\ Sound(chain) /\ attempt.made[k].pieces = <<>>
  BY DEF CallGoesOn, Sending, FinalizerInvariant, Compatible
<1>2. DOMAIN attempt = Fields /\ Made(attempt.made)
  BY <1>1 DEF AttemptFits, CallsFit, HasOut
<1>3. attempt.xml = <<>>
  <2>1. attempt.made # <<>>
    BY NoEvents
  <2>. QED
    BY <1>1, <2>1 DEF AttemptFits, Shown
<1>4. attempt' = CallDelta(g, d) /\ UNCHANGED <<chain, history, budget>>
  BY DEF CallGoesOn, Step
<1>5. Grows(attempt.made, d, more)
  BY <1>1, <1>2, NextDelta
<1>6. /\ Keeps(attempt, g, {"deltas", "natives", "made"}) /\ g.made = more
      /\ g.deltas = attempt.deltas + 1
  BY <1>2 DEF Keeps, Fields, Sent
<1> HIDE DEF g, more, d
<1>7. AttemptFits(attempt') /\ attempt'.state = "open"
  BY <1>1, <1>3, <1>4, <1>5, <1>6, CallArrives
<1>. QED
  BY <1>1, <1>4, <1>7, GoesOn

LEMMA AttemptEndsKeeps ==
  ASSUME Compatible, FinalizerInvariant, NEW reason, AttemptEnds(reason)
  PROVE  FinalizerInvariant'
<1>1. /\ AttemptFits(attempt) /\ attempt.state = "open" /\ chain \in Chains /\ Sound(chain)
  BY DEF AttemptEnds, FinalizerInvariant, Compatible
<1>2. attempt' = Ended(attempt, reason) /\ UNCHANGED <<chain, history, budget>>
  BY DEF AttemptEnds, Step
<1>3. Outcome(attempt') /\ attempt'.state # "open"
  BY <1>1, <1>2, EndFits
<1>4. Outcome(attempt)'
  BY <1>2, <1>3, OutcomeNext
<1>. QED
  BY <1>1, <1>2, <1>3, <1>4 DEF FinalizerInvariant

LEMMA StepFits ==
  ASSUME Compatible, FinalizerInvariant, [FcNext]_fcVars
  PROVE  FinalizerInvariant'
<1>1. CASE \E kind \in TextKinds : TextArrives(kind)
  BY <1>1, TextArrivesKeeps
<1>2. CASE \E name \in Names : CallStarts(name, <<>>) \/ \E p \in Pieces : CallStarts(name, <<p>>)
  BY <1>2, CallStartsKeeps
<1>3. CASE \E k \in DOMAIN attempt.made, p \in Pieces : CallGoesOn(k, p)
  BY <1>3, CallGoesOnKeeps
<1>4. CASE \E reason \in {"stop", "tool_calls"} : AttemptEnds(reason)
  BY <1>4, AttemptEndsKeeps
<1>5. CASE UNCHANGED fcVars
  <2>1. UNCHANGED <<chain, history, budget, attempt>>
    BY <1>5 DEF fcVars
  <2>2. Outcome(attempt)'
    <3>1. Outcome(attempt')
      BY <2>1 DEF FinalizerInvariant
    <3>. QED
      BY <2>1, <3>1, OutcomeNext
  <2>3. attempt'.state = "open" => AttemptFits(attempt)'
    <3> HAVE attempt'.state = "open"
    <3>1. AttemptFits(attempt')
      BY <2>1 DEF FinalizerInvariant
    <3>. QED
      BY <2>1, <3>1, FitsNext
  <2>. QED
    BY <2>1, <2>2, <2>3 DEF FinalizerInvariant
<1>. QED
  BY <1>1, <1>2, <1>3, <1>4, <1>5 DEF FcNext

-----------------------------------------------------------------------------
(* The theorems.                                                           *)

\* Every attempt keeps the invariant, however its upstream mixes text and
\* calls, as long as its finalizers get along.
THEOREM FinalizersFit ==
  ASSUME Compatible
  PROVE  FcSpec => []FinalizerInvariant
<1>1. FcInit => FinalizerInvariant
  BY InitFits
<1>2. FinalizerInvariant /\ [FcNext]_fcVars => FinalizerInvariant'
  BY StepFits
<1>. QED
  BY <1>1, <1>2, PTL DEF FcSpec

LEMMA InvariantImplies ==
  ASSUME FinalizerInvariant
  PROVE  TextExact /\ CallsAsMade /\ RepeatHeldBack /\ NewCallPasses
<1>1. Outcome(attempt) /\ Made(attempt.made)
  BY DEF FinalizerInvariant, Outcome
<1>2. \A k \in DOMAIN attempt.made : attempt.made[k].index = k
  BY <1>1 DEF Made
<1>3. \A k \in DOMAIN attempt.made : /\ Repeated(k) <=> RepeatAmong(attempt.made, k)
                                     /\ IsNew(k) <=> NewAmong(attempt.made, k)
  BY DEF Repeated, RepeatAmong, Before, IsNew, NewAmong
<1>4. Delivered = Indices(attempt.out)
  BY DEF Delivered
<1>5. TextExact
  <2> SUFFICES ASSUME Accepted
               PROVE  Lists(attempt.out, (IF chain.stamp /\ ~chain.nudge THEN Fresh ELSE Written)
                                           \cup (IF chain.stamp /\ Fresh # {} THEN {Footer} ELSE {}))
    BY DEF TextExact
  <2>1. Lists(attempt.out, Due(attempt))
    BY <1>1 DEF Outcome, Accepted
  <2>. QED
    BY <2>1 DEF Due, FreshOf, Fresh, Written
<1>6. CallsAsMade
  <2> SUFFICES ASSUME Accepted
               PROVE  /\ \A i \in Delivered : \E k \in DOMAIN attempt.made :
                           attempt.made[k].index = i /\ Carries(attempt.out, i, attempt.made[k])
                      /\ Delivered # {} => attempt.reason = "tool_calls"
    BY DEF CallsAsMade
  <2>1. Answers(attempt.out, attempt.made) /\ (Indices(attempt.out) # {} => attempt.reason = "tool_calls")
    BY <1>1 DEF Outcome, Accepted
  <2>2. \A i \in Indices(attempt.out) : i \in DOMAIN attempt.made /\ Carries(attempt.out, i, attempt.made[i])
    BY <2>1 DEF Answers
  <2>. QED
    BY <1>2, <1>4, <2>1, <2>2
<1>7. RepeatHeldBack
  BY <1>1, <1>2, <1>3, <1>4 DEF Outcome, RepeatHeldBack
<1>8. NewCallPasses
  <2>1. ASSUME Accepted, NEW k \in DOMAIN attempt.made, IsNew(k)
        PROVE  attempt.made[k].index \in Delivered
    <3>1. Answers(attempt.out, attempt.made)
      BY <1>1, <2>1 DEF Outcome, Accepted
    <3>. QED
      BY <1>2, <1>3, <1>4, <2>1, <3>1 DEF Answers
  <2>2. chain.tls = "exact" => RejectedForRepeat
    BY <1>1, <1>3 DEF Outcome, RejectedForRepeat
  <2>. QED
    BY <2>1, <2>2 DEF NewCallPasses
<1>. QED
  BY <1>5, <1>6, <1>7, <1>8

\* The client gets the text of an accepted answer once and in order, and one
\* footer.
THEOREM TextIsExact ==
  ASSUME Compatible
  PROVE  FcSpec => []TextExact
<1>1. FinalizerInvariant => TextExact
  BY InvariantImplies
<1>. QED
  BY <1>1, FinalizersFit, PTL

\* The calls that the client puts together are calls the model made.
THEOREM CallsAreAsMade ==
  ASSUME Compatible
  PROVE  FcSpec => []CallsAsMade
<1>1. FinalizerInvariant => CallsAsMade
  BY InvariantImplies
<1>. QED
  BY <1>1, FinalizersFit, PTL

\* In exact mode a call that repeats the one before it never reaches the client.
THEOREM RepeatsAreHeldBack ==
  ASSUME Compatible
  PROVE  FcSpec => []RepeatHeldBack
<1>1. FinalizerInvariant => RepeatHeldBack
  BY InvariantImplies
<1>. QED
  BY <1>1, FinalizersFit, PTL

\* A complete call unlike every other one is never lost, and in exact mode only
\* a repeat has an attempt rejected.
THEOREM NewCallsPass ==
  ASSUME Compatible
  PROVE  FcSpec => []NewCallPasses
<1>1. FinalizerInvariant => NewCallPasses
  BY InvariantImplies
<1>. QED
  BY <1>1, FinalizersFit, PTL
=============================================================================
