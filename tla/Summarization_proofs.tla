------------------------- MODULE Summarization_proofs -------------------------
(* One conversation and its summary, for every list of messages, any       *)
(* thresholds and sizes and whatever the upstream answers: the summary has *)
(* the pieces of the middle of the conversation, in its order and each     *)
(* once, but for those that are lost.                                      *)
(*                                                                         *)
(* Pieces are counted through lists that are joined (Flat): of texts cut   *)
(* and split (Split, Rendered), of texts gathered into chunks (Gather) and *)
(* of the calls that take another's place (Retry).  The work list is       *)
(* balanced: its calls, each finding the summaries the ones before it      *)
(* leave, end with one.  A retry has smaller calls: of the chunks that its *)
(* texts are gathered into one has them all only if it is the only one, or *)
(* begins with a part of a text that was too long for its prompt.  What    *)
(* the recursive functions of the model compute is unrolled step by step   *)
(* (LoopHasResults).                                                       *)
EXTENDS Summarization, SequenceTheorems, WellFoundedInduction, TLAPS

-----------------------------------------------------------------------------
(* Recursion on numbers.                                                   *)

\* A set of naturals that is not empty has a least element.
LEMMA LeastNumber ==
  ASSUME NEW T \in SUBSET Nat, T # {}
  PROVE  \E x \in T : \A y \in T : x <= y
<1>1. PICK x \in T : \A y \in T : ~(<<y, x>> \in OpToRel(<, Nat))
  BY WFMin, NatLessThanWellFounded, ZenonT(60)
<1>2. \A y \in T : ~(y < x)
  BY <1>1, Zenon DEF OpToRel
<1>. QED
  BY <1>2

\* What a loop has computed after each of its rounds 1 .. N.
Results(N, V, init, step, f) ==
  f \in [0 .. N -> V] /\ f[0] = init /\ \A k \in 1 .. N : f[k] = step[k][f[k - 1]]

LEMMA LoopHasResults ==
  ASSUME NEW N \in Nat, NEW V, NEW init \in V, NEW step \in [1 .. N -> [V -> V]]
  PROVE  \E f : Results(N, V, init, step, f)
<1> DEFINE Upto(n, f) == f \in [0 .. n -> V] /\ f[0] = init /\ \A k \in 1 .. n : f[k] = step[k][f[k - 1]]
           T == {n \in Nat : n <= N /\ ~\E f : Upto(n, f)}
<1>1. ASSUME T # {} PROVE FALSE
  <2>1. PICK n \in T : \A y \in T : n <= y
    <3> HIDE DEF T
    <3>1. T \in SUBSET Nat
      BY DEF T
    <3>. QED
      BY <1>1, <3>1, LeastNumber
  <2>2. CASE n = 0
    <3>1. Upto(0, [k \in 0 .. 0 |-> init])
      OBVIOUS
    <3>. QED
      BY <2>1, <2>2, <3>1
  <2>3. CASE n # 0
    <3>1. n - 1 \in Nat /\ n - 1 \notin T /\ n - 1 <= N /\ n \in 1 .. N
      <4>1. n \in Nat /\ n <= N
        BY <2>1
      <4> HIDE DEF T
      <4>. QED
        BY <2>1, <2>3, <4>1
    <3>2. PICK f : Upto(n - 1, f)
      BY <3>1
    <3> DEFINE last == step[n][f[n - 1]]
               g == [k \in 0 .. n |-> IF k = n THEN last ELSE f[k]]
    <3>3. last \in V
      BY <3>1, <3>2
    <3> HIDE DEF last
    <3>4. g \in [0 .. n -> V] /\ g[0] = init
      BY <3>1, <3>2, <3>3
    <3>5. \A k \in 1 .. n : g[k] = step[k][g[k - 1]]
      <4> TAKE k \in 1 .. n
      <4>1. CASE k = n
        <5>1. g[k] = last /\ g[k - 1] = f[k - 1]
          BY <3>1, <4>1
        <5>. QED
          BY <4>1, <5>1 DEF last
      <4>2. CASE k # n
        <5>1. k \in 1 .. n - 1 /\ g[k] = f[k] /\ g[k - 1] = f[k - 1]
          BY <3>1, <4>2
        <5>. QED
          BY <3>2, <5>1
      <4>. QED
        BY <4>1, <4>2
    <3>. QED
      BY <2>1, <3>4, <3>5
  <2>. QED
    BY <2>2, <2>3
<1>2. N \notin T
  BY <1>1
<1>. QED
  BY <1>2 DEF Results

\* What every round of a loop keeps holds after each of them.
Stays(N, V, f) == f[0] \in V /\ \A k \in 1 .. N : f[k - 1] \in V => f[k] \in V

LEMMA LoopStays ==
  ASSUME NEW N \in Nat, NEW V, NEW f, Stays(N, V, f)
  PROVE  \A k \in 0 .. N : f[k] \in V
<1> DEFINE T == {k \in Nat : k <= N /\ f[k] \notin V}
<1>1. ASSUME T # {} PROVE FALSE
  <2>1. PICK k \in T : \A y \in T : k <= y
    <3> HIDE DEF T
    <3>1. T \in SUBSET Nat
      BY DEF T
    <3>. QED
      BY <1>1, <3>1, LeastNumber
  <2>2. k \in Nat /\ k <= N /\ f[k] \notin V /\ k # 0
    BY <2>1 DEF Stays
  <2>3. k - 1 \in Nat /\ k - 1 \notin T /\ k - 1 <= N /\ k \in 1 .. N
    <3> HIDE DEF T
    <3>. QED
      BY <2>1, <2>2
  <2>. QED
    BY <2>2, <2>3 DEF Stays
<1>. QED
  BY <1>1

\* A set of the numbers up to n that has 0, and with every number the next, has
\* them all.
LEMMA Reaches ==
  ASSUME NEW n \in Nat, NEW T, 0 \in T, \A j \in 1 .. n : j - 1 \in T => j \in T
  PROVE  \A j \in 0 .. n : j \in T
<1> DEFINE U == {j \in Nat : j <= n /\ j \notin T}
<1>1. ASSUME U # {} PROVE FALSE
  <2>1. PICK j \in U : \A y \in U : j <= y
    <3> HIDE DEF U
    <3>1. U \in SUBSET Nat
      BY DEF U
    <3>. QED
      BY <1>1, <3>1, LeastNumber
  <2>2. j - 1 \in Nat /\ j - 1 \notin U /\ j \in 1 .. n
    BY <2>1
  <2>. QED
    BY <2>1, <2>2
<1>. QED
  BY <1>1

-----------------------------------------------------------------------------
(* Lists joined one after the other.                                       *)

JoinRule(seqs, f) == [i \in 0 .. Len(seqs) |-> IF i = 0 THEN <<>> ELSE f[i - 1] \o seqs[i]]

\* What has been joined after each list.
Joins(S, seqs, f) ==
  /\ f \in [0 .. Len(seqs) -> Seq(S)] /\ f[0] = <<>>
  /\ \A i \in 1 .. Len(seqs) : f[i] = f[i - 1] \o seqs[i]
  /\ Joined(seqs) = f[Len(seqs)]

LEMMA JoinedInSteps ==
  ASSUME NEW S, NEW seqs \in Seq(Seq(S))
  PROVE  \E f : Joins(S, seqs, f)
<1> DEFINE N == Len(seqs)
           V == Seq(S)
           step == [i \in 1 .. N |-> [m \in V |-> m \o seqs[i]]]
<1>1. N \in Nat /\ \A i \in 1 .. N : seqs[i] \in V
  OBVIOUS
<1>2. <<>> \in V
  OBVIOUS
<1>3. step \in [1 .. N -> [V -> V]]
  <2> HIDE DEF N
  <2>. QED
    BY <1>1
<1> HIDE DEF N, V, step
<1>4. PICK f : Results(N, V, <<>>, step, f)
  BY <1>1, <1>2, <1>3, LoopHasResults
<1>5. f = JoinRule(seqs, f)
  <2>1. \A i \in 1 .. N : f[i] = f[i - 1] \o seqs[i]
    <3> TAKE i \in 1 .. N
    <3>1. f[i - 1] \in V
      BY <1>1, <1>4 DEF Results
    <3>. QED
      BY <1>4, <3>1 DEF step, Results
  <2>2. f = [i \in 0 .. N |-> f[i]]
    BY <1>4 DEF Results
  <2>3. \A i \in 0 .. N : i = 0 \/ i \in 1 .. N
    BY <1>1
  <2>. QED
    BY <1>4, <2>1, <2>2, <2>3 DEF JoinRule, N, Results
<1> DEFINE g == CHOOSE x : x = JoinRule(seqs, x)
<1>6. g = JoinRule(seqs, g)
  BY <1>5
<1>7. Joined(seqs) = g[N]
  BY DEF Joined, JoinRule, N
<1> HIDE DEF g
<1>8. g[0] = <<>> /\ \A i \in 1 .. N : g[i] = g[i - 1] \o seqs[i]
  <2>1. \A i \in 0 .. N : g[i] = IF i = 0 THEN <<>> ELSE g[i - 1] \o seqs[i]
    BY <1>6 DEF JoinRule, N
  <2>2. 0 \in 0 .. N /\ \A i \in 1 .. N : i \in 0 .. N /\ i # 0
    BY <1>1
  <2>. QED
    BY <2>1, <2>2
<1>9. \A i \in 0 .. N : g[i] \in V
  <2>1. ASSUME NEW i \in 1 .. N, g[i - 1] \in V PROVE g[i] \in V
    <3>1. seqs[i] \in Seq(S) /\ g[i - 1] \in Seq(S)
      BY <1>1, <2>1 DEF V
    <3>2. g[i - 1] \o seqs[i] \in Seq(S)
      BY <3>1
    <3>. QED
      BY <1>8, <3>2 DEF V
  <2>2. Stays(N, V, g)
    BY <1>2, <1>8, <2>1 DEF Stays
  <2>. QED
    BY <1>1, <2>2, LoopStays
<1>10. g = [i \in 0 .. N |-> g[i]]
  BY <1>6 DEF JoinRule, N
<1>11. g \in [0 .. N -> V]
  BY <1>9, <1>10
<1>12. Joins(S, seqs, g)
  BY <1>7, <1>8, <1>11 DEF Joins, N, V
<1>. QED
  BY <1>12

LEMMA JoinedIsList ==
  ASSUME NEW S, NEW seqs \in Seq(Seq(S))
  PROVE  Joined(seqs) \in Seq(S)
<1>1. PICK f : Joins(S, seqs, f)
  BY JoinedInSteps
<1>. QED
  BY <1>1 DEF Joins

LEMMA JoinedNothing ==
  Joined(<<>>) = <<>>
<1>1. PICK f : Joins({}, <<>>, f)
  <2>1. <<>> \in Seq(Seq({}))
    OBVIOUS
  <2>. QED
    BY <2>1, JoinedInSteps, Zenon
<1>. QED
  BY <1>1 DEF Joins

\* The join of two lists of lists.
LEMMA JoinedOfBoth ==
  ASSUME NEW S, NEW s \in Seq(Seq(S)), NEW t \in Seq(Seq(S))
  PROVE  Joined(s \o t) = Joined(s) \o Joined(t)
<1> DEFINE u == s \o t
<1>1. /\ u \in Seq(Seq(S)) /\ Len(u) = Len(s) + Len(t) /\ Len(s) \in Nat /\ Len(t) \in Nat
      /\ \A j \in 1 .. Len(s) : u[j] = s[j]
      /\ \A j \in 1 .. Len(t) : u[Len(s) + j] = t[j] /\ t[j] \in Seq(S)
  OBVIOUS
<1> HIDE DEF u
<1>2. PICK f : Joins(S, s, f)
  BY JoinedInSteps
<1>3. PICK g : Joins(S, t, g)
  BY JoinedInSteps
<1>4. PICK h : Joins(S, u, h)
  BY <1>1, JoinedInSteps
<1> DEFINE m == Len(s)
           n == Len(t)
<1>7. m \in Nat /\ n \in Nat /\ Len(u) = m + n
  BY <1>1
<1>8. f[0] = <<>> /\ f[m] \in Seq(S) /\ \A j \in 1 .. m : f[j] = f[j - 1] \o s[j]
  <2>1. f \in [0 .. m -> Seq(S)] /\ f[0] = <<>> /\ \A j \in 1 .. m : f[j] = f[j - 1] \o s[j]
    BY <1>2 DEF Joins
  <2>2. m \in 0 .. m
    BY <1>7
  <2> HIDE DEF m
  <2>. QED
    BY <2>1, <2>2
<1>9. g[0] = <<>> /\ \A j \in 1 .. n : g[j] = g[j - 1] \o t[j] /\ g[j - 1] \in Seq(S) /\ t[j] \in Seq(S)
  <2>1. \A j \in 1 .. n : j - 1 \in 0 .. n
    BY <1>7
  <2>. QED
    BY <1>1, <1>3, <2>1 DEF Joins
<1>10. h[0] = <<>> /\ \A j \in 1 .. m + n : h[j] = h[j - 1] \o u[j]
  BY <1>4, <1>7 DEF Joins
<1>11. (\A j \in 1 .. m : u[j] = s[j]) /\ (\A j \in 1 .. n : u[m + j] = t[j])
  BY <1>1
<1> HIDE DEF m, n
<1>5. h[m] = f[m]
  <2> DEFINE T == {j \in 0 .. m : h[j] = f[j]}
  <2>1. ASSUME NEW j \in 1 .. m, j - 1 \in T PROVE j \in T
    <3>1. j \in 0 .. m /\ j \in 1 .. m + n
      BY <1>7
    <3>. QED
      BY <1>8, <1>10, <1>11, <2>1, <3>1
  <2>2. 0 \in T /\ m \in 0 .. m
    BY <1>7, <1>8, <1>10
  <2> HIDE DEF T
  <2>3. m \in T
    BY <1>7, <2>1, <2>2, Reaches
  <2>. QED
    BY <2>3 DEF T
<1>6. h[m + n] = f[m] \o g[n]
  <2> DEFINE T == {j \in 0 .. n : h[m + j] = f[m] \o g[j]}
  <2>1. ASSUME NEW j \in 1 .. n, j - 1 \in T PROVE j \in T
    <3>1. j \in 0 .. n /\ m + j \in 1 .. m + n /\ (m + j) - 1 = m + (j - 1)
      BY <1>7
    <3>2. h[m + j] = h[m + (j - 1)] \o t[j]
      BY <1>10, <1>11, <3>1
    <3>3. g[j] = g[j - 1] \o t[j] /\ g[j - 1] \in Seq(S) /\ t[j] \in Seq(S)
      BY <1>9
    <3>4. (f[m] \o g[j - 1]) \o t[j] = f[m] \o (g[j - 1] \o t[j])
      <4>1. \A x, y, z \in Seq(S) : (x \o y) \o z = x \o (y \o z)
        BY ConcatAssociative, SMTT(30)
      <4>. QED
        BY <1>8, <3>3, <4>1
    <3>5. h[m + (j - 1)] = f[m] \o g[j - 1]
      BY <2>1
    <3>. QED
      BY <3>1, <3>2, <3>3, <3>4, <3>5
  <2>2. 0 \in T
    <3>1. f[m] \o <<>> = f[m] /\ m + 0 = m /\ 0 \in 0 .. n
      BY <1>7, <1>8
    <3>. QED
      BY <1>5, <1>9, <3>1
  <2>3. n \in 0 .. n
    BY <1>7
  <2> HIDE DEF T
  <2>4. n \in T
    BY <1>7, <2>1, <2>2, <2>3, Reaches
  <2>. QED
    BY <2>4 DEF T
<1>. QED
  BY <1>2, <1>3, <1>4, <1>5, <1>6, <1>7 DEF Joins, m, n, u

LEMMA JoinedOfOne ==
  ASSUME NEW S, NEW s \in Seq(S)
  PROVE  Joined(<<s>>) = s
<1>1. <<s>> \in Seq(Seq(S)) /\ Len(<<s>>) = 1 /\ <<s>>[1] = s
  OBVIOUS
<1>2. PICK f : Joins(S, <<s>>, f)
  BY <1>1, JoinedInSteps
<1> DEFINE one == <<s>>
<1> HIDE DEF one
<1>3. f[1] = f[0] \o s /\ f[0] = <<>> /\ Joined(one) = f[1]
  <2>1. Joins(S, one, f) /\ Len(one) = 1 /\ one[1] = s
    BY <1>1, <1>2 DEF one
  <2>2. f[1] = f[1 - 1] \o one[1] /\ f[0] = <<>> /\ Joined(one) = f[1]
    BY <2>1 DEF Joins
  <2>. QED
    BY <2>1, <2>2
<1>4. <<>> \o s = s
  OBVIOUS
<1>. QED
  BY <1>3, <1>4 DEF one

IsMap(m, A, B) == m \in [A -> B]

\* What a function makes of the members of a list.
Mapped(m, s) == [i \in DOMAIN s |-> m[s[i]]]

LEMMA MappedIsList ==
  ASSUME NEW A, NEW B, NEW m, IsMap(m, A, B), NEW s \in Seq(A)
  PROVE  Mapped(m, s) \in Seq(B) /\ Len(Mapped(m, s)) = Len(s) /\ \A i \in 1 .. Len(s) : Mapped(m, s)[i] = m[s[i]]
BY DEF Mapped, IsMap

LEMMA MappedOfBoth ==
  ASSUME NEW A, NEW B, NEW m, IsMap(m, A, B), NEW s \in Seq(A), NEW t \in Seq(A)
  PROVE  Mapped(m, s \o t) = Mapped(m, s) \o Mapped(m, t)
<1> DEFINE u == s \o t
           x == Mapped(m, s)
           y == Mapped(m, t)
           z == Mapped(m, u)
           w == x \o y
<1>1. /\ u \in Seq(A) /\ Len(u) = Len(s) + Len(t) /\ Len(s) \in Nat /\ Len(t) \in Nat
      /\ \A j \in 1 .. Len(u) : u[j] = IF j <= Len(s) THEN s[j] ELSE t[j - Len(s)]
  BY ConcatProperties
<1> HIDE DEF u
<1>2. x \in Seq(B) /\ Len(x) = Len(s) /\ \A j \in 1 .. Len(s) : x[j] = m[s[j]]
  BY MappedIsList
<1>3. y \in Seq(B) /\ Len(y) = Len(t) /\ \A j \in 1 .. Len(t) : y[j] = m[t[j]]
  BY MappedIsList
<1>4. z \in Seq(B) /\ Len(z) = Len(u) /\ \A j \in 1 .. Len(u) : z[j] = m[u[j]]
  <2>1. u \in Seq(A)
    BY <1>1
  <2>. QED
    BY <2>1, MappedIsList
<1> HIDE DEF x, y, z
<1>5. /\ w \in Seq(B) /\ Len(w) = Len(u)
      /\ \A j \in 1 .. Len(u) : w[j] = IF j <= Len(s) THEN x[j] ELSE y[j - Len(s)]
  <2>1. /\ w \in Seq(B) /\ Len(w) = Len(x) + Len(y)
        /\ \A j \in 1 .. Len(x) + Len(y) : w[j] = IF j <= Len(x) THEN x[j] ELSE y[j - Len(x)]
    BY <1>2, <1>3, ConcatProperties
  <2>. QED
    BY <1>1, <1>2, <1>3, <2>1
<1> HIDE DEF w
<1>6. ASSUME NEW j \in 1 .. Len(u) PROVE w[j] = z[j]
  <2>1. CASE j <= Len(s)
    <3>1. j \in 1 .. Len(s)
      BY <1>1, <2>1
    <3>. QED
      BY <1>1, <1>2, <1>4, <1>5, <2>1, <3>1
  <2>2. CASE ~(j <= Len(s))
    <3>1. j - Len(s) \in 1 .. Len(t)
      BY <1>1, <2>2
    <3>. QED
      BY <1>1, <1>3, <1>4, <1>5, <2>2, <3>1
  <2>. QED
    BY <2>1, <2>2
<1>7. w = z
  BY <1>4, <1>5, <1>6, SeqEqual
<1>. QED
  BY <1>7 DEF u, x, y, z, w

\* The lists that a function makes of the members of a list, joined.
Flat(m, s) == Joined(Mapped(m, s))

LEMMA FlatIsList ==
  ASSUME NEW A, NEW S, NEW m, IsMap(m, A, Seq(S)), NEW s \in Seq(A)
  PROVE  Flat(m, s) \in Seq(S)
<1>1. Mapped(m, s) \in Seq(Seq(S))
  BY MappedIsList
<1>. QED
  BY <1>1, JoinedIsList DEF Flat

LEMMA FlatOfBoth ==
  ASSUME NEW A, NEW S, NEW m, IsMap(m, A, Seq(S)), NEW s \in Seq(A), NEW t \in Seq(A)
  PROVE  Flat(m, s \o t) = Flat(m, s) \o Flat(m, t)
<1>1. Mapped(m, s) \in Seq(Seq(S))
  BY MappedIsList
<1>2. Mapped(m, t) \in Seq(Seq(S))
  BY MappedIsList
<1>3. Mapped(m, s \o t) = Mapped(m, s) \o Mapped(m, t)
  BY MappedOfBoth
<1>. QED
  BY <1>1, <1>2, <1>3, JoinedOfBoth DEF Flat

LEMMA FlatOfOne ==
  ASSUME NEW A, NEW S, NEW m, IsMap(m, A, Seq(S)), NEW a \in A
  PROVE  Flat(m, <<a>>) = m[a]
<1>1. Mapped(m, <<a>>) = <<m[a]>>
  BY DEF Mapped
<1>2. m[a] \in Seq(S)
  BY DEF IsMap
<1>. QED
  BY <1>1, <1>2, JoinedOfOne DEF Flat

LEMMA FlatOfNothing ==
  ASSUME NEW m
  PROVE  Flat(m, <<>>) = <<>>
<1>1. Mapped(m, <<>>) = <<>>
  BY DEF Mapped
<1>. QED
  BY <1>1, JoinedNothing DEF Flat

LEMMA FlatOfJoined ==
  ASSUME NEW A, NEW S, NEW m, IsMap(m, A, Seq(S)), NEW seqs \in Seq(Seq(A))
  PROVE  Flat(m, Joined(seqs)) = Joined([i \in DOMAIN seqs |-> Flat(m, seqs[i])])
<1> DEFINE flats == [i \in DOMAIN seqs |-> Flat(m, seqs[i])]
           n == Len(seqs)
<1>1. n \in Nat /\ \A i \in 1 .. n : seqs[i] \in Seq(A) /\ flats[i] = Flat(m, seqs[i])
  OBVIOUS
<1>2. flats \in Seq(Seq(S)) /\ Len(flats) = n
  <2>1. \A i \in 1 .. n : Flat(m, seqs[i]) \in Seq(S)
    BY <1>1, FlatIsList
  <2>2. flats = [i \in 1 .. n |-> Flat(m, seqs[i])]
    OBVIOUS
  <2> HIDE DEF n, flats
  <2>. QED
    BY <1>1, <2>1, <2>2
<1>3. PICK f : Joins(A, seqs, f)
  BY JoinedInSteps
<1> HIDE DEF flats
<1>4. PICK g : Joins(S, flats, g)
  BY <1>2, JoinedInSteps
<1>5. /\ f \in [0 .. n -> Seq(A)] /\ f[0] = <<>>
      /\ \A i \in 1 .. n : f[i] = f[i - 1] \o seqs[i]
      /\ Joined(seqs) = f[n]
  BY <1>3 DEF Joins
<1>6. g[0] = <<>> /\ (\A i \in 1 .. n : g[i] = g[i - 1] \o flats[i]) /\ Joined(flats) = g[n]
  BY <1>2, <1>4 DEF Joins
<1> HIDE DEF n
<1> DEFINE T == {i \in 0 .. n : Flat(m, f[i]) = g[i]}
<1>7. ASSUME NEW j \in 1 .. n, j - 1 \in T PROVE j \in T
  <2>1. j \in 0 .. n /\ j - 1 \in 0 .. n
    BY <1>1
  <2>2. f[j - 1] \in Seq(A) /\ seqs[j] \in Seq(A) /\ f[j] = f[j - 1] \o seqs[j]
    BY <1>1, <1>5, <2>1
  <2>3. Flat(m, f[j - 1] \o seqs[j]) = Flat(m, f[j - 1]) \o Flat(m, seqs[j])
    <3>1. \A x, y \in Seq(A) : Flat(m, x \o y) = Flat(m, x) \o Flat(m, y)
      BY FlatOfBoth
    <3>. QED
      BY <2>2, <3>1
  <2>4. Flat(m, f[j - 1]) = g[j - 1] /\ g[j] = g[j - 1] \o Flat(m, seqs[j])
    BY <1>1, <1>6, <1>7
  <2>. QED
    BY <2>1, <2>2, <2>3, <2>4
<1>8. 0 \in T /\ n \in 0 .. n
  <2>1. Flat(m, f[0]) = g[0]
    BY <1>5, <1>6, FlatOfNothing
  <2>. QED
    BY <1>1, <2>1
<1> HIDE DEF T
<1>9. n \in T
  BY <1>1, <1>7, <1>8, Reaches
<1>. QED
  BY <1>5, <1>6, <1>9 DEF T, flats

-----------------------------------------------------------------------------
(* Texts: what is cut, split and gathered has the same pieces.             *)

TextSet(P) == [pieces : Seq(P), size : Nat]
PieceMap(P) == [t \in TextSet(P) |-> t.pieces]

LEMMA PieceMapIs ==
  ASSUME NEW P
  PROVE  IsMap(PieceMap(P), TextSet(P), Seq(P)) /\ \A t \in TextSet(P) : PieceMap(P)[t] = t.pieces
BY DEF PieceMap, IsMap, TextSet

LEMMA PiecesAreFlat ==
  ASSUME NEW P, NEW ts \in Seq(TextSet(P))
  PROVE  Pieces(ts) = Flat(PieceMap(P), ts)
<1>1. \A i \in DOMAIN ts : ts[i] \in TextSet(P)
  OBVIOUS
<1>2. [i \in DOMAIN ts |-> ts[i].pieces] = Mapped(PieceMap(P), ts)
  BY <1>1, PieceMapIs DEF Mapped
<1>. QED
  BY <1>2 DEF Pieces, Flat

LEMMA PiecesAreList ==
  ASSUME NEW P, NEW ts \in Seq(TextSet(P))
  PROVE  Pieces(ts) \in Seq(P)
BY PiecesAreFlat, PieceMapIs, FlatIsList

LEMMA PiecesOfBoth ==
  ASSUME NEW P, NEW ts \in Seq(TextSet(P)), NEW us \in Seq(TextSet(P))
  PROVE  Pieces(ts \o us) = Pieces(ts) \o Pieces(us)
<1>1. ts \o us \in Seq(TextSet(P))
  OBVIOUS
<1>2. Flat(PieceMap(P), ts \o us) = Flat(PieceMap(P), ts) \o Flat(PieceMap(P), us)
  BY PieceMapIs, FlatOfBoth
<1>3. Pieces(ts \o us) = Flat(PieceMap(P), ts \o us)
  BY <1>1, PiecesAreFlat
<1>. QED
  BY <1>2, <1>3, PiecesAreFlat

LEMMA PiecesOfOne ==
  ASSUME NEW P, NEW t \in TextSet(P)
  PROVE  Pieces(<<t>>) = t.pieces
<1>1. <<t>> \in Seq(TextSet(P))
  OBVIOUS
<1>2. Flat(PieceMap(P), <<t>>) = PieceMap(P)[t]
  BY PieceMapIs, FlatOfOne
<1>. QED
  BY <1>1, <1>2, PiecesAreFlat, PieceMapIs

LEMMA PiecesOfNothing ==
  Pieces(<<>>) = <<>>
<1>1. <<>> \in Seq(TextSet({}))
  OBVIOUS
<1>. QED
  BY <1>1, PiecesAreFlat, FlatOfNothing

\* Two parts of a list at a place.
LEMMA TwoParts ==
  ASSUME NEW S, NEW s \in Seq(S), NEW k \in 0 .. Len(s)
  PROVE  /\ First(s, k) \in Seq(S) /\ Final(s, Len(s) - k) \in Seq(S)
         /\ Len(First(s, k)) = k /\ Len(Final(s, Len(s) - k)) = Len(s) - k
         /\ s = First(s, k) \o Final(s, Len(s) - k)
<1>1. Len(s) \in Nat /\ Len(s) - (Len(s) - k) + 1 = k + 1
  OBVIOUS
<1>2. SubSeq(s, 1, k) \in Seq(S) /\ SubSeq(s, k + 1, Len(s)) \in Seq(S)
  OBVIOUS
<1>3. SubSeq(s, 1, k) \o SubSeq(s, k + 1, Len(s)) = SubSeq(s, 1, Len(s)) /\ SubSeq(s, 1, Len(s)) = s
  BY ConcatAdjacentSubSeq, SubSeqFull, 1 \in 1 .. Len(s) + 1, k \in 1 - 1 .. Len(s), Len(s) \in k .. Len(s)
<1>4. Len(SubSeq(s, 1, k)) = k /\ Len(SubSeq(s, k + 1, Len(s))) = Len(s) - k
  OBVIOUS
<1>. QED
  BY <1>1, <1>2, <1>3, <1>4 DEF First, Final

LEMMA ShareIsWithin ==
  ASSUME NEW k \in Nat, NEW l \in Nat, NEW n \in Nat, 0 < n, k <= n
  PROVE  (k * l) \div n \in 0 .. l
<1>1. k * l <= n * l /\ k * l \in Nat
  BY SMTT(30)
<1> DEFINE m == k * l
           q == m \div n
<1> HIDE DEF m
<1>2. m \in Nat /\ m <= n * l
  BY <1>1 DEF m
<1>3. q \in Nat /\ n * q <= m
  BY <1>2, SMTT(30)
<1> HIDE DEF q
<1>4. q <= l
  BY <1>2, <1>3, SMTT(30)
<1>. QED
  BY <1>3, <1>4 DEF q, m

LEMMA CutKeeps ==
  ASSUME NEW P, NEW t \in TextSet(P), NEW k \in Nat, 0 < k, k < t.size
  PROVE  /\ Cut(t, k)[1] \in TextSet(P) /\ Cut(t, k)[2] \in TextSet(P)
         /\ Cut(t, k)[2].size = t.size - k
         /\ Cut(t, k)[1].pieces \o Cut(t, k)[2].pieces = t.pieces
<1> DEFINE s == t.pieces
           p == (k * Len(t.pieces)) \div t.size
<1>1. s \in Seq(P) /\ t.size \in Nat /\ t.size - k \in Nat
  BY DEF TextSet
<1>2. p \in 0 .. Len(s)
  <2>1. Len(s) \in Nat /\ 0 < t.size /\ k <= t.size
    BY <1>1
  <2>. QED
    BY <1>1, <2>1, ShareIsWithin
<1>3. Cut(t, k) = <<[pieces |-> First(s, p), size |-> k], [pieces |-> Final(s, Len(s) - p), size |-> t.size - k]>>
  BY DEF Cut
<1> HIDE DEF s, p
<1>4. First(s, p) \in Seq(P) /\ Final(s, Len(s) - p) \in Seq(P) /\ s = First(s, p) \o Final(s, Len(s) - p)
  BY <1>1, <1>2, TwoParts
<1>. QED
  BY <1>1, <1>3, <1>4 DEF TextSet, s

\* The size of a text as a list, for what is known of lists that are joined.
UnitMap(P) == [t \in TextSet(P) |-> [j \in 1 .. t.size |-> 0]]

LEMMA UnitMapIs ==
  ASSUME NEW P
  PROVE  /\ IsMap(UnitMap(P), TextSet(P), Seq({0}))
         /\ \A t \in TextSet(P) : UnitMap(P)[t] \in Seq({0}) /\ Len(UnitMap(P)[t]) = t.size
<1>1. ASSUME NEW t \in TextSet(P) PROVE [j \in 1 .. t.size |-> 0] \in Seq({0}) /\ Len([j \in 1 .. t.size |-> 0]) = t.size
  <2>1. t.size \in Nat
    BY DEF TextSet
  <2>. QED
    BY <2>1
<1>. QED
  BY <1>1 DEF UnitMap, IsMap

LEMMA SameUnits ==
  ASSUME NEW s \in Seq({0}), NEW t \in Seq({0}), Len(s) = Len(t)
  PROVE  s = t
<1>1. \A i \in 1 .. Len(s) : s[i] = 0 /\ t[i] = 0
  OBVIOUS
<1>. QED
  BY <1>1, SeqEqual

TokensRule(ts, f) == [i \in 0 .. Len(ts) |-> IF i = 0 THEN 0 ELSE f[i - 1] + ts[i].size]

LEMMA TokensAreUnits ==
  ASSUME NEW P, NEW ts \in Seq(TextSet(P))
  PROVE  Tokens(ts) = Len(Flat(UnitMap(P), ts)) /\ Flat(UnitMap(P), ts) \in Seq({0})
<1> DEFINE seqs == Mapped(UnitMap(P), ts)
           n == Len(ts)
           g == CHOOSE f : f = TokensRule(ts, f)
<1>1. seqs \in Seq(Seq({0})) /\ Len(seqs) = n /\ \A i \in 1 .. n : seqs[i] = UnitMap(P)[ts[i]]
  BY UnitMapIs, MappedIsList
<1>2. n \in Nat /\ \A i \in 1 .. n : ts[i] \in TextSet(P)
  OBVIOUS
<1>3. \A i \in 1 .. n : seqs[i] \in Seq({0}) /\ Len(seqs[i]) = ts[i].size
  <2> HIDE DEF seqs, n
  <2>. QED
    BY <1>1, <1>2, UnitMapIs
<1>4. Tokens(ts) = g[n]
  BY DEF Tokens, TokensRule
<1> HIDE DEF seqs, n, g
<1>5. PICK h : Joins({0}, seqs, h)
  BY <1>1, JoinedInSteps
<1>6. /\ \A i \in 0 .. n : h[i] \in Seq({0})
      /\ h[0] = <<>> /\ \A i \in 1 .. n : h[i] = h[i - 1] \o seqs[i]
      /\ Joined(seqs) = h[n]
  BY <1>1, <1>5 DEF Joins
<1> DEFINE e == [i \in 0 .. n |-> Len(h[i])]
<1>7. \A i \in 0 .. n : e[i] = Len(h[i])
  OBVIOUS
<1>8. \A i \in 1 .. n : Len(h[i]) = Len(h[i - 1]) + ts[i].size
  <2> TAKE i \in 1 .. n
  <2>1. i - 1 \in 0 .. n
    BY <1>2
  <2>2. h[i - 1] \in Seq({0}) /\ seqs[i] \in Seq({0}) /\ h[i] = h[i - 1] \o seqs[i] /\ Len(seqs[i]) = ts[i].size
    BY <1>3, <1>6, <2>1
  <2>3. \A x, y \in Seq({0}) : Len(x \o y) = Len(x) + Len(y)
    OBVIOUS
  <2>4. Len(h[i - 1] \o seqs[i]) = Len(h[i - 1]) + Len(seqs[i])
    BY <2>2, <2>3, Zenon
  <2>. QED
    BY <2>2, <2>4
<1>9. e = TokensRule(ts, e)
  <2>1. \A i \in 0 .. n : e[i] = IF i = 0 THEN 0 ELSE e[i - 1] + ts[i].size
    <3> TAKE i \in 0 .. n
    <3>1. CASE i = 0
      BY <1>6, <1>7, <3>1
    <3>2. CASE i # 0
      <4>1. i \in 1 .. n /\ i - 1 \in 0 .. n
        BY <1>2, <3>2
      <4>2. e[i] = Len(h[i]) /\ e[i - 1] = Len(h[i - 1])
        BY <1>7, <4>1
      <4>. QED
        BY <1>8, <3>2, <4>1, <4>2
    <3>. QED
      BY <3>1, <3>2
  <2>2. e = [i \in 0 .. n |-> e[i]]
    OBVIOUS
  <2>. QED
    BY <2>1, <2>2 DEF TokensRule, n
<1>10. g = TokensRule(ts, g)
  BY <1>9 DEF g
<1> HIDE DEF e
<1> DEFINE T == {i \in 0 .. n : g[i] = Len(h[i])}
<1>11. \A i \in 0 .. n : g[i] = IF i = 0 THEN 0 ELSE g[i - 1] + ts[i].size
  BY <1>10 DEF TokensRule, n
<1>12. ASSUME NEW i \in 1 .. n, i - 1 \in T PROVE i \in T
  <2>1. i \in 0 .. n /\ i # 0
    BY <1>2
  <2>2. g[i] = g[i - 1] + ts[i].size /\ g[i - 1] = Len(h[i - 1])
    BY <1>11, <1>12, <2>1
  <2>. QED
    BY <1>8, <2>1, <2>2
<1>13. 0 \in T /\ n \in 0 .. n
  <2>1. 0 \in 0 .. n /\ n \in 0 .. n
    BY <1>2
  <2>2. g[0] = 0
    BY <1>11, <2>1
  <2>. QED
    BY <1>6, <2>1, <2>2
<1> HIDE DEF T
<1>14. n \in T
  BY <1>2, <1>12, <1>13, Reaches
<1>15. n \in 0 .. n
  BY <1>13
<1>. QED
  BY <1>4, <1>6, <1>14, <1>15 DEF T, Flat, seqs

LEMMA TokensOfBoth ==
  ASSUME NEW P, NEW s \in Seq(TextSet(P)), NEW t \in Seq(TextSet(P))
  PROVE  Tokens(s) \in Nat /\ Tokens(t) \in Nat /\ Tokens(s \o t) = Tokens(s) + Tokens(t)
<1> DEFINE u == s \o t
           m == UnitMap(P)
<1>1. u \in Seq(TextSet(P))
  OBVIOUS
<1>2. Flat(m, u) = Flat(m, s) \o Flat(m, t)
  BY UnitMapIs, FlatOfBoth
<1> HIDE DEF u, m
<1>3. /\ Tokens(s) = Len(Flat(m, s)) /\ Flat(m, s) \in Seq({0})
      /\ Tokens(t) = Len(Flat(m, t)) /\ Flat(m, t) \in Seq({0})
      /\ Tokens(u) = Len(Flat(m, u))
  BY <1>1, TokensAreUnits DEF m
<1>. QED
  BY <1>2, <1>3 DEF u

LEMMA TokensOfOne ==
  ASSUME NEW P, NEW t \in TextSet(P)
  PROVE  Tokens(<<t>>) = t.size
<1>1. <<t>> \in Seq(TextSet(P))
  OBVIOUS
<1>2. Tokens(<<t>>) = Len(Flat(UnitMap(P), <<t>>))
  BY <1>1, TokensAreUnits
<1>3. Flat(UnitMap(P), <<t>>) = UnitMap(P)[t]
  BY UnitMapIs, FlatOfOne
<1>. QED
  BY <1>2, <1>3, UnitMapIs

LEMMA TokensOfNothing ==
  Tokens(<<>>) = 0
<1>1. <<>> \in Seq(TextSet({}))
  OBVIOUS
<1>2. Tokens(<<>>) = Len(Flat(UnitMap({}), <<>>))
  BY <1>1, TokensAreUnits
<1>. QED
  BY <1>2, FlatOfNothing

LEMMA OneAlone ==
  ASSUME NEW S, NEW q \in Seq(S), Len(q) = 1
  PROVE  q = <<q[1]>>
OBVIOUS

\* A member of a list has no more tokens than the list.
LEMMA TokensOfMember ==
  ASSUME NEW P, NEW s \in Seq(TextSet(P)), NEW i \in 1 .. Len(s)
  PROVE  s[i].size \in Nat /\ s[i].size <= Tokens(s)
<1> DEFINE a == First(s, i)
           b == Final(s, Len(s) - i)
           c == First(a, i - 1)
           d == Final(a, Len(a) - (i - 1))
<1>1. i \in 0 .. Len(s) /\ i \in Nat /\ s[i] \in TextSet(P)
  OBVIOUS
<1>2. a \in Seq(TextSet(P)) /\ b \in Seq(TextSet(P)) /\ Len(a) = i /\ s = a \o b
  BY <1>1, TwoParts
<1>3. a[i] = s[i]
  BY <1>1 DEF First
<1> HIDE DEF a, b
<1>4. i - 1 \in 0 .. Len(a)
  BY <1>1, <1>2
<1>5. c \in Seq(TextSet(P)) /\ d \in Seq(TextSet(P)) /\ Len(d) = Len(a) - (i - 1) /\ a = c \o d /\ Len(c) = i - 1
  BY <1>2, <1>4, TwoParts, ZenonT(30)
<1>6. d = <<s[i]>>
  <2> HIDE DEF c, d
  <2>1. Len(d) = 1
    BY <1>2, <1>4, <1>5
  <2>3. \A j \in 1 .. Len(d) : (c \o d)[Len(c) + j] = d[j]
    BY <1>5
  <2>5. \A j \in Nat : (j - 1) + 1 = j
    OBVIOUS
  <2>4. Len(c) + 1 = i /\ 1 \in 1 .. Len(d)
    <3>1. Len(c) = i - 1
      BY <1>5
    <3>2. 1 \in 1 .. Len(d)
      BY <2>1
    <3>. QED
      BY <1>1, <2>5, <3>1, <3>2
  <2>2. d[1] = a[i]
    BY <1>5, <2>3, <2>4
  <2>. QED
    BY <1>3, <1>5, <2>1, <2>2, OneAlone
<1> HIDE DEF c, d
<1>7. Tokens(s) = Tokens(a) + Tokens(b) /\ Tokens(a) \in Nat /\ Tokens(b) \in Nat
  BY <1>2, TokensOfBoth
<1>8. Tokens(a) = Tokens(c) + Tokens(d) /\ Tokens(c) \in Nat
  BY <1>5, TokensOfBoth
<1>9. Tokens(d) = s[i].size /\ s[i].size \in Nat
  BY <1>1, <1>6, TokensOfOne DEF TextSet
<1>. QED
  BY <1>7, <1>8, <1>9

-----------------------------------------------------------------------------
(* A long text is split into parts that have its pieces in its order.      *)

LEMMA PartsCover ==
  ASSUME NEW n \in Nat, NEW k \in Nat, 0 < k, k < n
  PROVE  /\ (n + k - 1) \div k \in Nat \ {0}
         /\ ((n + k - 1) \div k) * k >= n
         /\ ((n + k - 1) \div k - 1) * k < n
<1> DEFINE m == n + k - 1
           q == m \div k
<1>1. m \in Nat /\ m = n + k - 1
  OBVIOUS
<1> HIDE DEF m
<1>2. q \in Nat /\ k * q <= m /\ m < k * q + k
  BY <1>1, SMTT(30)
<1> HIDE DEF q
<1>3. q # 0
  BY <1>1, <1>2
<1>4. q * k = k * q /\ (q - 1) * k = k * q - k
  BY <1>2, SMTT(30)
<1>5. q * k >= n /\ (q - 1) * k < n
  <2> DEFINE r == k * q
  <2>1. r \in Int
    BY <1>2
  <2> HIDE DEF r
  <2>2. r <= m /\ m < r + k /\ q * k = r /\ (q - 1) * k = r - k
    BY <1>2, <1>4 DEF r
  <2>. QED
    BY <1>1, <2>1, <2>2
<1>. QED
  BY <1>2, <1>3, <1>5 DEF q, m

\* One cut of what is left of a text.
CutStep(rest, k) == IF rest.size <= k THEN <<rest, rest>> ELSE Cut(rest, k)

LEMMA CutStepMakesTexts ==
  ASSUME NEW P, NEW t \in TextSet(P), NEW k \in Nat, 0 < k
  PROVE  CutStep(t, k) \in TextSet(P) \X TextSet(P)
<1>1. CASE t.size <= k
  BY <1>1 DEF CutStep
<1>2. CASE ~(t.size <= k)
  <2>1. k < t.size
    BY <1>2 DEF TextSet
  <2>2. Cut(t, k)[1] \in TextSet(P) /\ Cut(t, k)[2] \in TextSet(P)
    BY <2>1, CutKeeps
  <2>3. Cut(t, k) = <<Cut(t, k)[1], Cut(t, k)[2]>>
    BY DEF Cut
  <2>. QED
    BY <1>2, <2>2, <2>3 DEF CutStep
<1>. QED
  BY <1>1, <1>2

SplitRule(t, k, f) ==
  [i \in 1 .. (t.size + k - 1) \div k |-> CutStep(IF i = 1 THEN t ELSE f[i - 1][2], k)]

\* What is cut off and what is left after each cut.
Splits(P, t, k, n, f) ==
  /\ f \in [0 .. n -> TextSet(P) \X TextSet(P)]
  /\ f[0] = <<t, t>> /\ \A i \in 1 .. n : f[i] = CutStep(f[i - 1][2], k)
  /\ SplitOversized(t, k) = [i \in 1 .. n |-> f[i][1]]

LEMMA SplitInSteps ==
  ASSUME NEW P, NEW t \in TextSet(P), NEW k \in Nat, 0 < k, k < t.size
  PROVE  \E f : Splits(P, t, k, (t.size + k - 1) \div k, f)
<1> DEFINE N == (t.size + k - 1) \div k
           V == TextSet(P) \X TextSet(P)
           step == [i \in 1 .. N |-> [m \in V |-> CutStep(m[2], k)]]
<1>1. N \in Nat
  BY PartsCover DEF TextSet
<1>2. <<t, t>> \in V
  OBVIOUS
<1>3. step \in [1 .. N -> [V -> V]]
  <2>1. \A m \in V : CutStep(m[2], k) \in V
    BY CutStepMakesTexts
  <2> HIDE DEF N, V
  <2>. QED
    BY <2>1
<1> HIDE DEF N, V, step
<1>4. PICK f : Results(N, V, <<t, t>>, step, f)
  BY <1>1, <1>2, <1>3, LoopHasResults
<1> DEFINE e == [i \in 1 .. N |-> f[i]]
<1>5. e = SplitRule(t, k, e)
  <2>1. \A i \in 1 .. N : f[i] = CutStep(f[i - 1][2], k)
    <3> TAKE i \in 1 .. N
    <3>1. f[i - 1] \in V
      BY <1>1, <1>4 DEF Results
    <3>. QED
      BY <1>4, <3>1 DEF step, Results
  <2>2. f[0][2] = t
    BY <1>4 DEF Results
  <2>3. \A i \in 1 .. N : e[i] = CutStep(IF i = 1 THEN t ELSE e[i - 1][2], k)
    <3> TAKE i \in 1 .. N
    <3>1. CASE i = 1
      BY <2>1, <2>2, <3>1
    <3>2. CASE i # 1
      <4>1. i - 1 \in 1 .. N
        BY <1>1, <3>2
      <4>. QED
        BY <2>1, <3>2, <4>1
    <3>. QED
      BY <3>1, <3>2
  <2>4. e = [i \in 1 .. N |-> e[i]]
    OBVIOUS
  <2> HIDE DEF e
  <2>. QED
    BY <2>3, <2>4 DEF SplitRule, N
<1> DEFINE g == CHOOSE x : x = SplitRule(t, k, x)
<1>6. g = SplitRule(t, k, g)
  BY <1>5
<1>7. SplitOversized(t, k) = [i \in 1 .. N |-> g[i][1]]
  <2>1. ~(t.size <= k)
    BY DEF TextSet
  <2>. QED
    BY <2>1 DEF SplitOversized, SplitRule, CutStep, N
<1> HIDE DEF g
<1> DEFINE h == [i \in 0 .. N |-> IF i = 0 THEN <<t, t>> ELSE g[i]]
<1>8. h[0] = <<t, t>> /\ \A i \in 1 .. N : h[i] = CutStep(h[i - 1][2], k) /\ h[i] = g[i]
  <2>1. \A i \in 1 .. N : g[i] = CutStep(IF i = 1 THEN t ELSE g[i - 1][2], k)
    BY <1>6 DEF SplitRule, N
  <2>2. h[0] = <<t, t>> /\ \A i \in 1 .. N : h[i] = g[i]
    BY <1>1
  <2>3. \A i \in 1 .. N : h[i - 1][2] = IF i = 1 THEN t ELSE g[i - 1][2]
    <3> TAKE i \in 1 .. N
    <3>1. CASE i = 1
      BY <2>2, <3>1
    <3>2. CASE i # 1
      <4>1. i - 1 \in 1 .. N
        BY <1>1, <3>2
      <4>. QED
        BY <2>2, <3>2, <4>1
    <3>. QED
      BY <3>1, <3>2
  <2>. QED
    BY <2>1, <2>2, <2>3
<1>9. \A i \in 0 .. N : h[i] \in V
  <2>1. ASSUME NEW i \in 1 .. N, h[i - 1] \in V PROVE h[i] \in V
    <3>1. h[i - 1][2] \in TextSet(P)
      BY <2>1 DEF V
    <3>2. CutStep(h[i - 1][2], k) \in V
      <4> HIDE DEF h
      <4>. QED
        BY <3>1, CutStepMakesTexts DEF V
    <3>. QED
      BY <1>8, <3>2
  <2>2. Stays(N, V, h)
    BY <1>2, <1>8, <2>1 DEF Stays
  <2> HIDE DEF h
  <2>. QED
    BY <1>1, <2>2, LoopStays
<1>10. h \in [0 .. N -> V]
  BY <1>9
<1>11. SplitOversized(t, k) = [i \in 1 .. N |-> h[i][1]]
  BY <1>7, <1>8
<1> HIDE DEF h
<1>12. Splits(P, t, k, N, h)
  BY <1>8, <1>10, <1>11 DEF V, Splits
<1>. QED
  BY <1>12 DEF N

\* The parts of a split text are the text, and the first is as long as a part may be.
LEMMA SplitKeeps ==
  ASSUME NEW P, NEW t \in TextSet(P), NEW k \in Nat, 0 < k
  PROVE  /\ SplitOversized(t, k) \in Seq(TextSet(P)) /\ Pieces(SplitOversized(t, k)) = t.pieces
         /\ Tokens(SplitOversized(t, k)) = t.size
         /\ SplitOversized(t, k) # <<>>
         /\ k < t.size => SplitOversized(t, k)[1].size = k
<1>1. CASE t.size <= k
  <2>1. t.size \in Nat
    BY DEF TextSet
  <2>. QED
    BY <1>1, <2>1, PiecesOfOne, TokensOfOne DEF SplitOversized
<1>2. CASE ~(t.size <= k)
  <2> DEFINE n == (t.size + k - 1) \div k
             parts == SplitOversized(t, k)
  <2>1. t.size \in Nat /\ k < t.size
    BY <1>2 DEF TextSet
  <2>2. n \in Nat /\ n # 0 /\ n * k >= t.size /\ (n - 1) * k < t.size
    BY <2>1, PartsCover
  <2>16. PICK f : Splits(P, t, k, n, f)
    BY <2>1, SplitInSteps
  <2>3. /\ f \in [0 .. n -> TextSet(P) \X TextSet(P)]
        /\ f[0] = <<t, t>> /\ \A i \in 1 .. n : f[i] = CutStep(f[i - 1][2], k)
        /\ parts = [i \in 1 .. n |-> f[i][1]]
    BY <2>16 DEF Splits
  <2> HIDE DEF n, parts
  <2>4. \A i \in 0 .. n : f[i][1] \in TextSet(P) /\ f[i][2] \in TextSet(P) /\ f[i][2].size \in Nat
    BY <2>3 DEF TextSet
  <2> DEFINE upto(i) == [j \in 1 .. i |-> f[j][1]]
             T == {i \in 0 .. n - 1 : f[i][2].size = t.size - i * k /\ Pieces(upto(i)) \o f[i][2].pieces = t.pieces
                                  /\ Tokens(upto(i)) + f[i][2].size = t.size}
  <2>5. \A i \in 0 .. n : upto(i) \in Seq(TextSet(P)) /\ Len(upto(i)) = i
    BY <2>2, <2>4
  <2>6. \A i \in 1 .. n : upto(i) = upto(i - 1) \o <<f[i][1]>>
    <3> TAKE i \in 1 .. n
    <3>1. i - 1 \in 0 .. n /\ i \in 0 .. n
      BY <2>2
    <3>2. f[i][1] \in TextSet(P)
      BY <2>4, <3>1
    <3>3. /\ upto(i - 1) \o <<f[i][1]>> \in Seq(TextSet(P)) /\ Len(upto(i - 1) \o <<f[i][1]>>) = i
          /\ \A j \in 1 .. i : (upto(i - 1) \o <<f[i][1]>>)[j] = upto(i)[j]
      BY <2>2, <2>5, <3>1, <3>2
    <3>. QED
      BY <2>5, <3>1, <3>3, SeqEqual
  <2>7. \A i \in 1 .. n : /\ Pieces(upto(i)) = Pieces(upto(i - 1)) \o f[i][1].pieces
                          /\ Tokens(upto(i)) = Tokens(upto(i - 1)) + f[i][1].size /\ Tokens(upto(i - 1)) \in Nat
    <3> TAKE i \in 1 .. n
    <3>1. i - 1 \in 0 .. n /\ i \in 0 .. n
      BY <2>2
    <3>2. upto(i - 1) \in Seq(TextSet(P)) /\ f[i][1] \in TextSet(P) /\ <<f[i][1]>> \in Seq(TextSet(P))
      BY <2>4, <2>5, <3>1
    <3>3. upto(i) = upto(i - 1) \o <<f[i][1]>>
      BY <2>6
    <3> HIDE DEF upto
    <3>. QED
      BY <3>2, <3>3, PiecesOfBoth, PiecesOfOne, TokensOfBoth, TokensOfOne
  <2>8. \A i \in 1 .. n - 1 : i * k <= (n - 1) * k /\ i * k = (i - 1) * k + k /\ i * k \in Nat /\ (i - 1) * k \in Nat
    <3> TAKE i \in 1 .. n - 1
    <3>. QED
      BY <2>2, SMTT(30)
  <2>9. ASSUME NEW i \in 1 .. n - 1, i - 1 \in T PROVE i \in T
    <3> DEFINE rest == f[i - 1][2]
    <3>1. rest \in TextSet(P) /\ f[i] = CutStep(rest, k) /\ rest.size = t.size - (i - 1) * k
      <4>1. i - 1 \in 0 .. n /\ i \in 1 .. n
        BY <2>2
      <4>. QED
        BY <2>3, <2>4, <2>9, <4>1
    <3>2. Pieces(upto(i - 1)) \o rest.pieces = t.pieces /\ Tokens(upto(i - 1)) + rest.size = t.size
      BY <2>9
    <3> HIDE DEF rest, T, upto
    <3>3. k < rest.size
      <4> DEFINE a == i * k
                 b == (i - 1) * k
                 c == (n - 1) * k
      <4>1. a <= c /\ a = b + k /\ a \in Nat /\ b \in Nat /\ c \in Int /\ c < t.size /\ rest.size = t.size - b
        BY <2>2, <2>8, <3>1
      <4> HIDE DEF a, b, c
      <4>. QED
        BY <2>1, <4>1
    <3>4. f[i] = Cut(rest, k)
      BY <2>1, <3>1, <3>3 DEF CutStep
    <3>5. /\ f[i][1] \in TextSet(P) /\ f[i][2] \in TextSet(P) /\ f[i][2].size = rest.size - k
          /\ f[i][1].pieces \o f[i][2].pieces = rest.pieces /\ f[i][1].size = k
      <4>1. /\ f[i][1] \in TextSet(P) /\ f[i][2] \in TextSet(P) /\ f[i][2].size = rest.size - k
            /\ f[i][1].pieces \o f[i][2].pieces = rest.pieces
        BY <3>1, <3>3, <3>4, CutKeeps
      <4>2. f[i][1].size = k
        BY <3>4 DEF Cut
      <4>. QED
        BY <4>1, <4>2
    <3>6. f[i][2].size = t.size - i * k
      BY <2>1, <2>8, <3>1, <3>5
    <3>9. i \in 1 .. n /\ i - 1 \in 0 .. n /\ i \in 0 .. n - 1
      BY <2>2
    <3>7. /\ Pieces(upto(i)) = Pieces(upto(i - 1)) \o f[i][1].pieces
          /\ Tokens(upto(i)) = Tokens(upto(i - 1)) + f[i][1].size /\ Tokens(upto(i - 1)) \in Nat
      BY <2>7, <3>9
    <3>8. Pieces(upto(i)) \o f[i][2].pieces = t.pieces
      <4>1. Pieces(upto(i - 1)) \in Seq(P)
        BY <2>5, <3>9, PiecesAreList
      <4>2. f[i][1].pieces \in Seq(P) /\ f[i][2].pieces \in Seq(P)
        BY <3>5 DEF TextSet
      <4>3. \A x, y, z \in Seq(P) : (x \o y) \o z = x \o (y \o z)
        BY ConcatAssociative, SMTT(30)
      <4>4. (Pieces(upto(i - 1)) \o f[i][1].pieces) \o f[i][2].pieces
              = Pieces(upto(i - 1)) \o (f[i][1].pieces \o f[i][2].pieces)
        BY <4>1, <4>2, <4>3, Zenon
      <4>. QED
        BY <3>2, <3>5, <3>7, <4>4, Zenon
    <3>10. Tokens(upto(i)) + f[i][2].size = t.size
      <4>1. rest.size \in Nat
        BY <3>1 DEF TextSet
      <4>. QED
        BY <2>1, <3>2, <3>5, <3>7, <4>1
    <3>. QED
      BY <3>6, <3>8, <3>9, <3>10 DEF T
  <2>10. 0 \in T /\ n - 1 \in 0 .. n - 1
    <3>1. upto(0) = <<>> /\ f[0][2] = t /\ t.pieces \in Seq(P)
      BY <2>3 DEF TextSet
    <3>2. Pieces(upto(0)) \o t.pieces = t.pieces
      BY <3>1, PiecesOfNothing
    <3>4. Tokens(upto(0)) + t.size = t.size
      BY <2>1, <3>1, TokensOfNothing
    <3>3. t.size = t.size - 0 * k
      BY <2>1
    <3> HIDE DEF upto
    <3>. QED
      BY <2>2, <3>1, <3>2, <3>3, <3>4
  <2> HIDE DEF T, upto
  <2>11. n - 1 \in T
    BY <2>2, <2>9, <2>10, Reaches
  <2>12. f[n - 1][2].size = t.size - (n - 1) * k /\ Pieces(upto(n - 1)) \o f[n - 1][2].pieces = t.pieces
         /\ Tokens(upto(n - 1)) + f[n - 1][2].size = t.size
    BY <2>11 DEF T
  <2>13. f[n - 1][2].size <= k
    <3> DEFINE a == n * k
               c == (n - 1) * k
    <3>1. a = c + k /\ a \in Nat /\ c \in Nat
      BY <2>2, SMTT(30)
    <3> HIDE DEF a, c
    <3>2. a >= t.size /\ f[n - 1][2].size = t.size - c
      BY <2>2, <2>12 DEF a, c
    <3>. QED
      BY <2>1, <3>1, <3>2
  <2>14. f[n][1] = f[n - 1][2]
    <3>1. n \in 1 .. n
      BY <2>2
    <3>2. f[n] = CutStep(f[n - 1][2], k)
      BY <2>3, <3>1
    <3>. QED
      BY <2>13, <3>2 DEF CutStep
  <2>15. /\ Pieces(upto(n)) = t.pieces /\ upto(n) \in Seq(TextSet(P))
         /\ Tokens(upto(n)) = t.size /\ Len(upto(n)) = n
    <3>1. n \in 1 .. n /\ n \in 0 .. n
      BY <2>2
    <3>2. Pieces(upto(n)) = Pieces(upto(n - 1)) \o f[n][1].pieces
          /\ Tokens(upto(n)) = Tokens(upto(n - 1)) + f[n][1].size
      BY <2>7, <3>1
    <3>. QED
      BY <2>5, <2>12, <2>14, <3>1, <3>2
  <2>17. f[1][1].size = k
    <3>1. 1 \in 1 .. n /\ 1 - 1 = 0
      BY <2>2
    <3>2. f[1] = CutStep(t, k)
      BY <2>3, <3>1
    <3>3. f[1] = Cut(t, k)
      BY <2>1, <3>2 DEF CutStep
    <3>. QED
      BY <3>3 DEF Cut
  <2>18. parts = upto(n)
    BY <2>3 DEF upto
  <2>19. parts[1] = f[1][1] /\ parts # <<>>
    <3>1. 1 \in 1 .. n
      BY <2>2
    <3>2. Len(parts) = n
      BY <2>15, <2>18
    <3>. QED
      BY <2>2, <2>3, <3>1, <3>2
  <2>. QED
    BY <2>15, <2>17, <2>18, <2>19 DEF parts
<1>. QED
  BY <1>1, <1>2

-----------------------------------------------------------------------------
(* Chunks: texts gathered in their order, several only where a prompt fits.*)

PiecesMap(P) == [ts \in Seq(TextSet(P)) |-> Pieces(ts)]

LEMMA PiecesMapIs ==
  ASSUME NEW P
  PROVE  /\ IsMap(PiecesMap(P), Seq(TextSet(P)), Seq(P))
         /\ \A ts \in Seq(TextSet(P)) : PiecesMap(P)[ts] = Pieces(ts)
<1>1. \A ts \in Seq(TextSet(P)) : Pieces(ts) \in Seq(P)
  BY PiecesAreList
<1>. QED
  BY <1>1 DEF PiecesMap, IsMap

\* The pieces of several lists of texts are those of the lists joined.
LEMMA PiecesOfLists ==
  ASSUME NEW P, NEW cs \in Seq(Seq(TextSet(P)))
  PROVE  Flat(PiecesMap(P), cs) = Pieces(Joined(cs))
<1>1. Joined(cs) \in Seq(TextSet(P))
  BY JoinedIsList
<1>2. Pieces(Joined(cs)) = Flat(PieceMap(P), Joined(cs))
  BY <1>1, PiecesAreFlat
<1>3. Flat(PieceMap(P), Joined(cs)) = Joined([i \in DOMAIN cs |-> Flat(PieceMap(P), cs[i])])
  BY PieceMapIs, FlatOfJoined
<1>4. \A i \in DOMAIN cs : cs[i] \in Seq(TextSet(P))
  OBVIOUS
<1>5. \A i \in DOMAIN cs : Flat(PieceMap(P), cs[i]) = PiecesMap(P)[cs[i]]
  BY <1>4, PiecesAreFlat, PiecesMapIs
<1>6. [i \in DOMAIN cs |-> Flat(PieceMap(P), cs[i])] = Mapped(PiecesMap(P), cs)
  BY <1>5 DEF Mapped
<1>. QED
  BY <1>2, <1>3, <1>6 DEF Flat

Expanded(ts, k) == Joined([i \in DOMAIN ts |-> SplitOversized(ts[i], k)])

LEMMA ExpandedKeeps ==
  ASSUME NEW P, NEW ts \in Seq(TextSet(P)), NEW k \in Nat, 0 < k
  PROVE  Expanded(ts, k) \in Seq(TextSet(P)) /\ Pieces(Expanded(ts, k)) = Pieces(ts)
<1> DEFINE cs == [i \in DOMAIN ts |-> SplitOversized(ts[i], k)]
<1>1. \A i \in DOMAIN ts : ts[i] \in TextSet(P)
  OBVIOUS
<1>2. \A i \in DOMAIN ts : SplitOversized(ts[i], k) \in Seq(TextSet(P)) /\ Pieces(SplitOversized(ts[i], k)) = ts[i].pieces
  BY <1>1, SplitKeeps
<1>3. cs \in Seq(Seq(TextSet(P))) /\ DOMAIN cs = DOMAIN ts
  <2>1. Len(ts) \in Nat /\ DOMAIN ts = 1 .. Len(ts)
    OBVIOUS
  <2>. QED
    BY <1>2, <2>1
<1>4. \A i \in DOMAIN ts : cs[i] = SplitOversized(ts[i], k)
  OBVIOUS
<1> HIDE DEF cs
<1>5. Joined(cs) \in Seq(TextSet(P))
  BY <1>3, JoinedIsList
<1>6. Pieces(Joined(cs)) = Flat(PiecesMap(P), cs)
  BY <1>3, PiecesOfLists
<1>7. Mapped(PiecesMap(P), cs) = Mapped(PieceMap(P), ts)
  <2>1. \A i \in DOMAIN ts : PiecesMap(P)[cs[i]] = PieceMap(P)[ts[i]]
    BY <1>1, <1>2, <1>4, PiecesMapIs, PieceMapIs
  <2>. QED
    BY <1>3, <2>1 DEF Mapped
<1>8. Pieces(ts) = Flat(PieceMap(P), ts)
  BY PiecesAreFlat
<1>. QED
  BY <1>5, <1>6, <1>7, <1>8 DEF Flat, Expanded, cs

\* The next text goes into the last chunk or into one of its own.
GatherStep(existing, ctx, done, e) ==
  LET cur == IF done = <<>> THEN <<>> ELSE Append(Last(done), e)
  IN  IF cur = <<>> \/ PromptEstimate(existing, cur) > ctx THEN Append(done, <<e>>) ELSE Append(Front(done), cur)

LEMMA AppendedIsJoined ==
  ASSUME NEW S, NEW s \in Seq(S), NEW e \in S
  PROVE  Append(s, e) = s \o <<e>> /\ Append(s, e) \in Seq(S)
OBVIOUS

\* The chunks with one text more.
Grown(T, new, done, e) == new \in Seq(Seq(T)) /\ Joined(new) = Joined(done) \o <<e>>

LEMMA GatherStepKeeps ==
  ASSUME NEW T, NEW existing, NEW ctx, NEW done \in Seq(Seq(T)), NEW e \in T
  PROVE  Grown(T, GatherStep(existing, ctx, done, e), done, e)
<1> DEFINE new == GatherStep(existing, ctx, done, e)
<1>1. CASE new = Append(done, <<e>>)
  <2>1. <<e>> \in Seq(T) /\ <<<<e>>>> \in Seq(Seq(T))
    OBVIOUS
  <2>2. Append(done, <<e>>) = done \o <<<<e>>>> /\ Append(done, <<e>>) \in Seq(Seq(T))
    OBVIOUS
  <2>3. Joined(done \o <<<<e>>>>) = Joined(done) \o Joined(<<<<e>>>>) /\ Joined(<<<<e>>>>) = <<e>>
    BY <2>1, JoinedOfBoth, JoinedOfOne
  <2>. QED
    BY <1>1, <2>2, <2>3 DEF Grown
<1>2. CASE new = Append(Front(done), Append(Last(done), e)) /\ done # <<>>
  <2> DEFINE front == Front(done)
             last == Last(done)
             cur == Append(last, e)
  <2>1. front \in Seq(Seq(T)) /\ last \in Seq(T) /\ done = front \o <<last>>
    BY <1>2 DEF Front, Last
  <2> HIDE DEF front, last
  <2>2. <<e>> \in Seq(T) /\ cur \in Seq(T) /\ cur = last \o <<e>>
    BY <2>1
  <2> HIDE DEF cur
  <2>3. Append(front, cur) = front \o <<cur>> /\ Append(front, cur) \in Seq(Seq(T))
    BY <2>1, <2>2, AppendedIsJoined
  <2>7. <<cur>> \in Seq(Seq(T))
    BY <2>2
  <2>8. <<last>> \in Seq(Seq(T))
    BY <2>1
  <2>9. Joined(<<cur>>) = cur /\ Joined(<<last>>) = last
    BY <2>1, <2>2, JoinedOfOne
  <2>4. Joined(front \o <<cur>>) = Joined(front) \o cur
    <3>1. Joined(front \o <<cur>>) = Joined(front) \o Joined(<<cur>>)
      BY <2>1, <2>7, JoinedOfBoth
    <3>. QED
      BY <2>9, <3>1
  <2>5. Joined(done) = Joined(front) \o last
    <3>1. Joined(front \o <<last>>) = Joined(front) \o Joined(<<last>>)
      BY <2>1, <2>8, JoinedOfBoth
    <3>. QED
      BY <2>1, <2>9, <3>1
  <2>6. Joined(front) \o (last \o <<e>>) = (Joined(front) \o last) \o <<e>>
    <3>1. Joined(front) \in Seq(T)
      BY <2>1, JoinedIsList
    <3>. QED
      BY <2>1, <2>2, <3>1, ConcatAssociative
  <2>. QED
    BY <1>2, <2>2, <2>3, <2>4, <2>5, <2>6 DEF front, last, cur, Grown
<1>3. \/ new = Append(done, <<e>>)
      \/ new = Append(Front(done), Append(Last(done), e)) /\ done # <<>>
  BY DEF GatherStep
<1>. QED
  BY <1>1, <1>2, <1>3

\* Chunks that have a text, and several only when their prompt fits.
FitChunks(existing, ctx, cs) == \A i \in DOMAIN cs :
  cs[i] # <<>> /\ (Len(cs[i]) >= 2 => ~(PromptEstimate(existing, cs[i]) > ctx))

LEMMA OneMoreFits ==
  ASSUME NEW S, NEW existing, NEW ctx, NEW cs \in Seq(S), FitChunks(existing, ctx, cs),
         NEW c \in S, c # <<>>, Len(c) >= 2 => ~(PromptEstimate(existing, c) > ctx)
  PROVE  FitChunks(existing, ctx, Append(cs, c))
<1> DEFINE new == Append(cs, c)
<1>1. DOMAIN cs = 1 .. Len(cs) /\ Len(cs) \in Nat
  OBVIOUS
<1>2. DOMAIN new = 1 .. Len(cs) + 1 /\ new[Len(cs) + 1] = c /\ \A i \in 1 .. Len(cs) : new[i] = cs[i]
  OBVIOUS
<1> HIDE DEF new
<1>3. \A i \in 1 .. Len(cs) + 1 : i \in 1 .. Len(cs) \/ i = Len(cs) + 1
  BY <1>1
<1>. QED
  BY <1>1, <1>2, <1>3 DEF FitChunks, new

LEMMA GatherStepFits ==
  ASSUME NEW T, NEW existing, NEW ctx, NEW done \in Seq(Seq(T)), NEW e \in T, FitChunks(existing, ctx, done)
  PROVE  FitChunks(existing, ctx, GatherStep(existing, ctx, done, e))
<1> DEFINE cur == IF done = <<>> THEN <<>> ELSE Append(Last(done), e)
           new == GatherStep(existing, ctx, done, e)
<1>1. new = IF cur = <<>> \/ PromptEstimate(existing, cur) > ctx THEN Append(done, <<e>>) ELSE Append(Front(done), cur)
  BY DEF GatherStep
<1>2. CASE cur = <<>> \/ PromptEstimate(existing, cur) > ctx
  <2>1. <<e>> \in Seq(T) /\ <<e>> # <<>> /\ ~(Len(<<e>>) >= 2)
    OBVIOUS
  <2>2. FitChunks(existing, ctx, Append(done, <<e>>))
    BY <2>1, OneMoreFits
  <2>. QED
    BY <1>1, <1>2, <2>2
<1>3. CASE ~(cur = <<>> \/ PromptEstimate(existing, cur) > ctx)
  <2>1. done # <<>>
    BY <1>3
  <2>2. Front(done) \in Seq(Seq(T)) /\ \A i \in DOMAIN Front(done) : i \in DOMAIN done /\ Front(done)[i] = done[i]
    BY <2>1 DEF Front
  <2>3. Last(done) \in Seq(T)
    BY <2>1 DEF Last
  <2>4. cur \in Seq(T)
    BY <2>1, <2>3
  <2>5. FitChunks(existing, ctx, Front(done))
    BY <2>2 DEF FitChunks
  <2> HIDE DEF cur
  <2>6. FitChunks(existing, ctx, Append(Front(done), cur))
    BY <1>3, <2>2, <2>4, <2>5, OneMoreFits
  <2>. QED
    BY <1>1, <1>3, <2>6
<1>. QED
  BY <1>2, <1>3

GatherRule(existing, ctx, es, f) ==
  [i \in 0 .. Len(es) |-> IF i = 0 THEN <<>> ELSE GatherStep(existing, ctx, f[i - 1], es[i])]

Gathered(existing, ctx, es) == CHOOSE f : f = GatherRule(existing, ctx, es, f)

\* Gathered into chunks, the texts are in their order, each once.
LEMMA GatheringKeeps ==
  ASSUME NEW T, NEW existing, NEW ctx, NEW es \in Seq(T)
  PROVE  /\ Gathered(existing, ctx, es)[Len(es)] \in Seq(Seq(T))
         /\ Joined(Gathered(existing, ctx, es)[Len(es)]) = es
         /\ FitChunks(existing, ctx, Gathered(existing, ctx, es)[Len(es)])
<1> DEFINE g == Gathered(existing, ctx, es)
           N == Len(es)
           V == Seq(Seq(T))
           step == [i \in 1 .. N |-> [m \in V |-> GatherStep(existing, ctx, m, es[i])]]
<1>1. N \in Nat /\ \A i \in 1 .. N : es[i] \in T
  OBVIOUS
<1>2. <<>> \in V
  OBVIOUS
<1>3. step \in [1 .. N -> [V -> V]]
  <2>1. \A i \in 1 .. N : \A m \in V : GatherStep(existing, ctx, m, es[i]) \in V
    BY <1>1, GatherStepKeeps DEF Grown
  <2> HIDE DEF N, V
  <2>. QED
    BY <2>1
<1> HIDE DEF N, V, step
<1>4. PICK f : Results(N, V, <<>>, step, f)
  BY <1>1, <1>2, <1>3, LoopHasResults
<1>5. f = GatherRule(existing, ctx, es, f)
  <2>1. \A i \in 1 .. N : f[i] = GatherStep(existing, ctx, f[i - 1], es[i])
    <3> TAKE i \in 1 .. N
    <3>1. f[i - 1] \in V
      BY <1>1, <1>4 DEF Results
    <3>. QED
      BY <1>4, <3>1 DEF step, Results
  <2>2. f = [i \in 0 .. N |-> f[i]]
    BY <1>4 DEF Results
  <2>3. \A i \in 0 .. N : i = 0 \/ i \in 1 .. N
    BY <1>1
  <2>. QED
    BY <1>4, <2>1, <2>2, <2>3 DEF GatherRule, N, Results
<1>6. g = GatherRule(existing, ctx, es, g)
  BY <1>5 DEF Gathered
<1> HIDE DEF g
<1>7. g[0] = <<>> /\ \A i \in 1 .. N : g[i] = GatherStep(existing, ctx, g[i - 1], es[i])
  <2>1. \A i \in 0 .. N : g[i] = IF i = 0 THEN <<>> ELSE GatherStep(existing, ctx, g[i - 1], es[i])
    BY <1>6 DEF GatherRule, N
  <2>2. 0 \in 0 .. N /\ \A i \in 1 .. N : i \in 0 .. N /\ i # 0
    BY <1>1
  <2>. QED
    BY <2>1, <2>2
<1> DEFINE U == {i \in 0 .. N : g[i] \in Seq(Seq(T)) /\ Joined(g[i]) = SubSeq(es, 1, i)
                                  /\ FitChunks(existing, ctx, g[i])}
<1>8. ASSUME NEW i \in 1 .. N, i - 1 \in U PROVE i \in U
  <2>1. g[i - 1] \in Seq(Seq(T)) /\ Joined(g[i - 1]) = SubSeq(es, 1, i - 1)
        /\ FitChunks(existing, ctx, g[i - 1])
    BY <1>8
  <2>2. g[i] \in Seq(Seq(T)) /\ Joined(g[i]) = SubSeq(es, 1, i - 1) \o <<es[i]>>
    <3>1. g[i] = GatherStep(existing, ctx, g[i - 1], es[i]) /\ es[i] \in T
      BY <1>1, <1>7
    <3>2. \A done \in Seq(Seq(T)) : \A e \in T :
            Grown(T, GatherStep(existing, ctx, done, e), done, e)
      BY GatherStepKeeps
    <3>3. Grown(T, GatherStep(existing, ctx, g[i - 1], es[i]), g[i - 1], es[i])
      BY <2>1, <3>1, <3>2
    <3>. QED
      BY <2>1, <3>1, <3>3 DEF Grown
  <2>3. SubSeq(es, 1, i - 1) \o <<es[i]>> = SubSeq(es, 1, i)
    <3>1. 1 \in 1 .. Len(es) /\ i \in 1 .. Len(es)
      BY <1>1 DEF N
    <3>. QED
      BY <3>1, SubSeqRecursiveSecond
  <2>4. i \in 0 .. N
    BY <1>1
  <2>5. FitChunks(existing, ctx, g[i])
    <3>1. g[i] = GatherStep(existing, ctx, g[i - 1], es[i]) /\ es[i] \in T
      BY <1>1, <1>7
    <3>2. FitChunks(existing, ctx, GatherStep(existing, ctx, g[i - 1], es[i]))
      BY <2>1, <3>1, GatherStepFits
    <3>. QED
      BY <3>1, <3>2
  <2>. QED
    BY <2>2, <2>3, <2>4, <2>5
<1>9. 0 \in U
  <2>1. SubSeq(es, 1, 0) = <<>> /\ <<>> \in Seq(Seq(T)) /\ 0 \in 0 .. N
    BY <1>1
  <2>2. FitChunks(existing, ctx, <<>>)
    BY DEF FitChunks
  <2>. QED
    BY <1>7, <2>1, <2>2, JoinedNothing
<1>10. N \in 0 .. N
  BY <1>1
<1> HIDE DEF U
<1>11. N \in U
  BY <1>1, <1>8, <1>9, <1>10, Reaches
<1>12. SubSeq(es, 1, Len(es)) = es
  BY SubSeqFull
<1>. QED
  BY <1>11, <1>12 DEF U, N, g

LEMMA ChunksKeep ==
  ASSUME NEW P, NEW existing, NEW ts \in Seq(TextSet(P)), NEW ctx \in Nat, 0 < ctx
  PROVE  /\ Chunks(existing, ts, ctx) \in Seq(Seq(TextSet(P)))
         /\ Flat(PiecesMap(P), Chunks(existing, ts, ctx)) = Pieces(ts)
<1> DEFINE es == Expanded(ts, ctx)
           g == Gathered(existing, ctx, es)
           cs == Chunks(existing, ts, ctx)
<1>1. es \in Seq(TextSet(P)) /\ Pieces(es) = Pieces(ts)
  BY ExpandedKeeps
<1>2. cs = IF es = <<>> THEN <<es>> ELSE g[Len(es)]
  BY DEF Chunks, Expanded, Gathered, GatherRule, GatherStep
<1> HIDE DEF es, cs
<1>3. g[Len(es)] \in Seq(Seq(TextSet(P))) /\ Joined(g[Len(es)]) = es
  BY <1>1, GatheringKeeps
<1> HIDE DEF g
<1>4. <<es>> \in Seq(Seq(TextSet(P)))
  BY <1>1
<1>5. Joined(<<es>>) = es
  BY <1>1, JoinedOfOne
<1>6. cs \in Seq(Seq(TextSet(P))) /\ Joined(cs) = es
  BY <1>2, <1>3, <1>4, <1>5
<1>7. Flat(PiecesMap(P), cs) = Pieces(Joined(cs))
  BY <1>6, PiecesOfLists
<1>. QED
  BY <1>1, <1>6, <1>7 DEF cs

-----------------------------------------------------------------------------
(* What a call is replaced by, and what a prompt shows of the texts.       *)

\* Lists of texts that have, one after the other, the pieces of one list.
SameTexts(P, ts, cs) == cs \in Seq(Seq(TextSet(P))) /\ Flat(PiecesMap(P), cs) = Pieces(ts)

LEMMA ListsOfTwo ==
  ASSUME NEW S, NEW a \in S, NEW b \in S
  PROVE  /\ <<a>> \in Seq(S) /\ <<b>> \in Seq(S) /\ <<a, b>> \in Seq(S)
         /\ <<a, b>> = <<a>> \o <<b>>
<1>1. <<a>> \in Seq(S) /\ <<b>> \in Seq(S)
  OBVIOUS
<1>2. <<a, b>> \in Seq(S)
  OBVIOUS
<1>3. <<a, b>> = <<a>> \o <<b>>
  <2> DEFINE two == <<a>> \o <<b>>
  <2>1. two \in Seq(S) /\ Len(two) = 2 /\ two[1] = a /\ two[2] = b
    OBVIOUS
  <2> HIDE DEF two
  <2>2. two = <<a, b>>
    BY <2>1
  <2>. QED
    BY <2>2 DEF two
<1>. QED
  BY <1>1, <1>2, <1>3

LEMMA SameTextsOfTwo ==
  ASSUME NEW P, NEW ts \in Seq(TextSet(P)), NEW a \in Seq(TextSet(P)), NEW b \in Seq(TextSet(P)),
         Pieces(a) \o Pieces(b) = Pieces(ts)
  PROVE  SameTexts(P, ts, <<a, b>>)
<1> DEFINE T == Seq(TextSet(P))
           m == PiecesMap(P)
<1>1. <<a>> \in Seq(T) /\ <<b>> \in Seq(T) /\ <<a, b>> \in Seq(T)
  BY ListsOfTwo
<1>2. <<a, b>> = <<a>> \o <<b>>
  BY ListsOfTwo
<1>3. Flat(m, <<a>> \o <<b>>) = Flat(m, <<a>>) \o Flat(m, <<b>>)
  <2>1. IsMap(m, T, Seq(P))
    BY PiecesMapIs
  <2> DEFINE x == <<a>>
             y == <<b>>
  <2>2. x \in Seq(T) /\ y \in Seq(T)
    BY <1>1
  <2> HIDE DEF T, m, x, y
  <2>3. Flat(m, x \o y) = Flat(m, x) \o Flat(m, y)
    BY <2>1, <2>2, FlatOfBoth
  <2>. QED
    BY <2>3 DEF x, y
<1>4. Flat(PiecesMap(P), <<a>>) = Pieces(a) /\ Flat(PiecesMap(P), <<b>>) = Pieces(b)
  <2>1. Flat(PiecesMap(P), <<a>>) = PiecesMap(P)[a] /\ Flat(PiecesMap(P), <<b>>) = PiecesMap(P)[b]
    BY PiecesMapIs, FlatOfOne
  <2>. QED
    BY <2>1, PiecesMapIs
<1>. QED
  BY <1>1, <1>2, <1>3, <1>4 DEF SameTexts

LEMMA SameTextsOfOne ==
  ASSUME NEW P, NEW ts \in Seq(TextSet(P))
  PROVE  SameTexts(P, ts, <<ts>>)
<1>1. Flat(PiecesMap(P), <<ts>>) = PiecesMap(P)[ts]
  BY PiecesMapIs, FlatOfOne
<1>2. <<ts>> \in Seq(Seq(TextSet(P)))
  OBVIOUS
<1>. QED
  BY <1>1, <1>2, PiecesMapIs DEF SameTexts

LEMMA TwoPartsKeep ==
  ASSUME NEW P, NEW ts \in Seq(TextSet(P)), NEW k \in 0 .. Len(ts)
  PROVE  /\ First(ts, k) \in Seq(TextSet(P)) /\ Final(ts, Len(ts) - k) \in Seq(TextSet(P))
         /\ Pieces(First(ts, k)) \o Pieces(Final(ts, Len(ts) - k)) = Pieces(ts)
<1>1. /\ First(ts, k) \in Seq(TextSet(P)) /\ Final(ts, Len(ts) - k) \in Seq(TextSet(P))
      /\ ts = First(ts, k) \o Final(ts, Len(ts) - k)
  BY TwoParts
<1> DEFINE a == First(ts, k)
           b == Final(ts, Len(ts) - k)
<1> HIDE DEF a, b
<1>2. a \in Seq(TextSet(P)) /\ b \in Seq(TextSet(P)) /\ ts = a \o b
  BY <1>1 DEF a, b
<1>3. Pieces(a \o b) = Pieces(a) \o Pieces(b)
  BY <1>2, PiecesOfBoth
<1>. QED
  BY <1>2, <1>3 DEF a, b

LEMMA ForceSplitKeeps ==
  ASSUME NEW P, NEW ts \in Seq(TextSet(P)), ts # <<>>
  PROVE  SameTexts(P, ts, ForceSplit(ts))
<1>1. CASE Len(ts) > 1
  <2> DEFINE half == Most(1, Len(ts) \div 2)
  <2>1. half \in 0 .. Len(ts)
    BY <1>1 DEF Most
  <2> HIDE DEF half
  <2>2. SameTexts(P, ts, <<First(ts, half), Final(ts, Len(ts) - half)>>)
    BY <2>1, TwoPartsKeep, SameTextsOfTwo
  <2>. QED
    BY <1>1, <2>2 DEF ForceSplit, half
<1>4. ~(Len(ts) > 1) => ts = <<ts[1]>>
  OBVIOUS
<1>2. CASE ~(Len(ts) > 1) /\ ts[1].size > 1
  <2> DEFINE t == ts[1]
             k == ts[1].size \div 2
  <2>1. t \in TextSet(P) /\ ts = <<t>>
    <3>1. ts = <<ts[1]>>
      BY <1>2, <1>4
    <3>. QED
      BY <3>1
  <2>2. k \in Nat /\ 0 < k /\ k < t.size
    <3>1. t.size \in Nat
      BY <2>1 DEF TextSet
    <3>. QED
      BY <1>2, <3>1
  <2>3. ForceSplit(ts) = <<<<Cut(t, k)[1]>>, <<Cut(t, k)[2]>>>>
    BY <1>2 DEF ForceSplit
  <2> HIDE DEF t, k
  <2> DEFINE a == Cut(t, k)[1]
             b == Cut(t, k)[2]
  <2>4. a \in TextSet(P) /\ b \in TextSet(P) /\ a.pieces \o b.pieces = t.pieces
    BY <2>1, <2>2, CutKeeps
  <2> HIDE DEF a, b
  <2>5. Pieces(<<a>>) = a.pieces /\ Pieces(<<b>>) = b.pieces /\ Pieces(ts) = t.pieces
    BY <2>1, <2>4, PiecesOfOne
  <2>6. <<a>> \in Seq(TextSet(P)) /\ <<b>> \in Seq(TextSet(P))
    BY <2>4
  <2>7. SameTexts(P, ts, <<<<a>>, <<b>>>>)
    BY <2>4, <2>5, <2>6, SameTextsOfTwo
  <2>. QED
    BY <2>3, <2>7 DEF a, b
<1>3. CASE ~(Len(ts) > 1) /\ ~(ts[1].size > 1)
  BY <1>3, SameTextsOfOne DEF ForceSplit
<1>. QED
  BY <1>1, <1>2, <1>3

\* What a call is replaced by has its pieces.
LEMMA RetryKeeps ==
  ASSUME NEW P, NEW existing, NEW ts \in Seq(TextSet(P)), NEW ctx \in Nat, 0 < ctx,
         Normalize(ts, Chunks(existing, ts, ctx)) # <<>>
  PROVE  SameTexts(P, ts, Normalize(ts, Chunks(existing, ts, ctx)))
<1>1. SameTexts(P, ts, Chunks(existing, ts, ctx))
  BY ChunksKeep DEF SameTexts
<1>2. CASE ts = <<>>
  <2>1. ~(Len(ForceSplit(ts)) > 1)
    BY <1>2 DEF ForceSplit
  <2>. QED
    BY <1>1, <2>1 DEF Normalize
<1>3. CASE ts # <<>>
  BY <1>1, <1>3, ForceSplitKeeps DEF Normalize
<1>. QED
  BY <1>2, <1>3

\* What of the texts goes into a prompt, and what is cut off.
LEMMA RenderedIsFirst ==
  ASSUME NEW P, NEW ts \in Seq(TextSet(P))
  PROVE  \E k \in 0 .. Len(ts) : Rendered(ts) = First(ts, k)
<1> DEFINE past == {k \in DOMAIN ts : Tokens(First(ts, k)) > RenderCap}
<1>1. CASE past = {}
  <2>1. First(ts, Len(ts)) = ts
    BY SubSeqFull DEF First
  <2>. QED
    BY <1>1, <2>1 DEF Rendered
<1>2. CASE past # {}
  <2>1. past \subseteq Nat /\ past \subseteq 0 .. Len(ts)
    OBVIOUS
  <2>2. Rendered(ts) = First(ts, CHOOSE k \in past : \A j \in past : k <= j)
    BY <1>2 DEF Rendered
  <2> HIDE DEF past
  <2>3. \E k \in past : \A j \in past : k <= j
    BY <1>2, <2>1, LeastNumber
  <2>4. (CHOOSE k \in past : \A j \in past : k <= j) \in past
    BY <2>3
  <2>. QED
    BY <2>1, <2>2, <2>4
<1>. QED
  BY <1>1, <1>2

LEMMA RenderedAndRest ==
  ASSUME NEW P, NEW ts \in Seq(TextSet(P))
  PROVE  \E rest \in Seq(P) : Pieces(Rendered(ts)) \in Seq(P) /\ Pieces(ts) = Pieces(Rendered(ts)) \o rest
<1>1. PICK k \in 0 .. Len(ts) : Rendered(ts) = First(ts, k)
  BY RenderedIsFirst
<1>2. /\ First(ts, k) \in Seq(TextSet(P)) /\ Final(ts, Len(ts) - k) \in Seq(TextSet(P))
      /\ Pieces(First(ts, k)) \o Pieces(Final(ts, Len(ts) - k)) = Pieces(ts)
  BY TwoPartsKeep
<1>3. Pieces(First(ts, k)) \in Seq(P) /\ Pieces(Final(ts, Len(ts) - k)) \in Seq(P)
  BY <1>2, PiecesAreList
<1>. QED
  BY <1>1, <1>2, <1>3

-----------------------------------------------------------------------------
(* What a call is replaced by is smaller.                                  *)

\* A list between what comes before and after it, which is all when nothing does.
Beside(S, cs, i, a, b) ==
  /\ a \in Seq(S) /\ b \in Seq(S) /\ Joined(cs) = a \o (cs[i] \o b)
  /\ a = <<>> /\ b = <<>> => cs = <<cs[i]>>

LEMMA JoinedSomething ==
  ASSUME NEW S, NEW cs \in Seq(Seq(S)), cs # <<>>, \A i \in DOMAIN cs : cs[i] # <<>>
  PROVE  Joined(cs) # <<>>
<1>1. /\ cs[1] \in Seq(S) /\ cs[1] # <<>> /\ Tail(cs) \in Seq(Seq(S)) /\ cs = <<cs[1]>> \o Tail(cs)
      /\ <<cs[1]>> \in Seq(Seq(S))
  OBVIOUS
<1> DEFINE c == cs[1]
           d == Tail(cs)
<1> HIDE DEF c, d
<1>2. Joined(<<c>> \o d) = Joined(<<c>>) \o Joined(d) /\ Joined(<<c>>) = c
  BY <1>1, JoinedOfBoth, JoinedOfOne DEF c, d
<1>3. Joined(d) \in Seq(S)
  BY <1>1, JoinedIsList DEF d
<1>4. Joined(cs) = c \o Joined(d)
  BY <1>1, <1>2 DEF c, d
<1>5. c \in Seq(S) /\ c # <<>>
  BY <1>1 DEF c
<1>6. Len(c) > 0 /\ Len(c \o Joined(d)) = Len(c) + Len(Joined(d)) /\ Len(Joined(d)) \in Nat
  BY <1>3, <1>5
<1>. QED
  BY <1>4, <1>6

LEMMA ChunkIsBeside ==
  ASSUME NEW S, NEW cs \in Seq(Seq(S)), \A i \in DOMAIN cs : cs[i] # <<>>, NEW i \in DOMAIN cs
  PROVE  \E a, b : Beside(S, cs, i, a, b)
<1> DEFINE x == First(cs, i - 1)
           r == Final(cs, Len(cs) - (i - 1))
           y == Tail(r)
<1>1. i \in 1 .. Len(cs) /\ i - 1 \in 0 .. Len(cs) /\ cs[i] \in Seq(S) /\ Len(cs) \in Nat
  OBVIOUS
<1>2. /\ x \in Seq(Seq(S)) /\ r \in Seq(Seq(S)) /\ Len(x) = i - 1 /\ Len(r) = Len(cs) - (i - 1)
      /\ cs = x \o r
  BY <1>1, TwoParts
<1>3. \A j \in DOMAIN x : x[j] = cs[j]
  BY <1>1 DEF First
<1>4. \A j \in 1 .. Len(r) : r[j] = cs[(i - 1) + j]
  <2> HIDE DEF x, r
  <2>0. x \in Seq(Seq(S)) /\ r \in Seq(Seq(S))
    BY <1>2
  <2>1. \A j \in 1 .. Len(r) : (x \o r)[Len(x) + j] = r[j]
    BY <2>0, SMTT(30)
  <2>. QED
    BY <1>2, <2>1
<1> HIDE DEF x, r
<1>5. r # <<>> /\ Len(r) \in Nat /\ r[1] = cs[i]
  BY <1>1, <1>2, <1>4
<1>6. r = <<cs[i]>> \o y /\ y \in Seq(Seq(S)) /\ <<cs[i]>> \in Seq(Seq(S)) /\ Len(y) = Len(r) - 1
      /\ \A j \in 1 .. Len(y) : y[j] = r[j + 1]
  BY <1>1, <1>2, <1>5, SMTT(30)
<1> HIDE DEF y
<1>7. Joined(cs) = Joined(x) \o Joined(r) /\ Joined(r) = Joined(<<cs[i]>>) \o Joined(y)
  BY <1>2, <1>6, JoinedOfBoth
<1>8. Joined(<<cs[i]>>) = cs[i] /\ Joined(x) \in Seq(S) /\ Joined(y) \in Seq(S)
  BY <1>1, <1>2, <1>6, JoinedOfOne, JoinedIsList
<1>9. ASSUME Joined(x) = <<>>, Joined(y) = <<>> PROVE cs = <<cs[i]>>
  <2>1. \A j \in DOMAIN x : x[j] # <<>>
    <3>1. \A j \in DOMAIN x : j \in DOMAIN cs
      BY <1>1, <1>2
    <3>. QED
      BY <1>3, <3>1
  <2>2. \A j \in DOMAIN y : y[j] # <<>>
    <3>0. DOMAIN y = 1 .. Len(y) /\ DOMAIN cs = 1 .. Len(cs) /\ Len(y) = Len(r) - 1 /\ Len(r) = Len(cs) - (i - 1)
      BY <1>1, <1>2, <1>6
    <3>1. \A j \in DOMAIN y : j \in 1 .. Len(y) /\ j + 1 \in 1 .. Len(r) /\ (i - 1) + (j + 1) \in DOMAIN cs
      <4>1. \A m, n \in Nat, j \in Int : m = n - (i - 1) /\ j \in 1 .. m - 1
              => j + 1 \in 1 .. m /\ (i - 1) + (j + 1) \in 1 .. n
        <5>1. i \in Nat /\ i >= 1
          BY <1>1
        <5>. QED
          BY <5>1, SMTT(30)
      <4>2. \A j \in DOMAIN y : j \in Int /\ j \in 1 .. Len(r) - 1
        BY <3>0
      <4>. QED
        BY <1>1, <1>5, <3>0, <4>1, <4>2
    <3>2. \A j \in DOMAIN y : y[j] = cs[(i - 1) + (j + 1)]
      BY <1>4, <1>6, <3>1
    <3>. QED
      BY <3>1, <3>2
  <2>3. x = <<>> /\ y = <<>>
    BY <1>2, <1>6, <1>9, <2>1, <2>2, JoinedSomething
  <2>4. x \o r = r /\ <<cs[i]>> \o y = <<cs[i]>>
    BY <1>2, <1>6, <2>3
  <2>. QED
    BY <1>2, <1>6, <2>4
<1>10. Beside(S, cs, i, Joined(x), Joined(y))
  BY <1>7, <1>8, <1>9 DEF Beside
<1>. QED
  BY <1>10

\* The chunks are the split texts in their order, none empty, and several texts
\* only where their prompt fits.
LEMMA ChunksFit ==
  ASSUME NEW P, NEW existing, NEW ts \in Seq(TextSet(P)), NEW ctx \in Nat, 0 < ctx,
         Expanded(ts, ctx) # <<>>
  PROVE  /\ Chunks(existing, ts, ctx) \in Seq(Seq(TextSet(P)))
         /\ Joined(Chunks(existing, ts, ctx)) = Expanded(ts, ctx)
         /\ FitChunks(existing, ctx, Chunks(existing, ts, ctx))
<1> DEFINE es == Expanded(ts, ctx)
           g == Gathered(existing, ctx, es)
<1>1. es \in Seq(TextSet(P)) /\ es # <<>>
  BY ExpandedKeeps
<1>2. Chunks(existing, ts, ctx) = g[Len(es)]
  BY <1>1 DEF Chunks, Expanded, Gathered, GatherRule, GatherStep
<1> HIDE DEF es
<1>3. /\ g[Len(es)] \in Seq(Seq(TextSet(P))) /\ Joined(g[Len(es)]) = es
      /\ FitChunks(existing, ctx, g[Len(es)])
  BY <1>1, GatheringKeeps
<1>. QED
  BY <1>2, <1>3 DEF es

SplitMap(P, k) == [t \in TextSet(P) |-> SplitOversized(t, k)]

LEMMA SplitMapIs ==
  ASSUME NEW P, NEW k \in Nat, 0 < k
  PROVE  IsMap(SplitMap(P, k), TextSet(P), Seq(TextSet(P)))
<1>1. \A t \in TextSet(P) : SplitOversized(t, k) \in Seq(TextSet(P))
  BY SplitKeeps
<1>. QED
  BY <1>1 DEF SplitMap, IsMap

LEMMA ExpandedIsFlat ==
  ASSUME NEW P, NEW ts \in Seq(TextSet(P)), NEW k \in Nat
  PROVE  Expanded(ts, k) = Flat(SplitMap(P, k), ts)
<1>1. \A i \in DOMAIN ts : ts[i] \in TextSet(P)
  OBVIOUS
<1>2. \A i \in DOMAIN ts : SplitMap(P, k)[ts[i]] = SplitOversized(ts[i], k)
  BY <1>1 DEF SplitMap
<1>3. [i \in DOMAIN ts |-> SplitOversized(ts[i], k)] = [i \in DOMAIN ts |-> SplitMap(P, k)[ts[i]]]
  BY <1>2
<1>. QED
  BY <1>3 DEF Expanded, Flat, Mapped

\* Splitting changes no size.
LEMMA ExpandedTokens ==
  ASSUME NEW P, NEW ts \in Seq(TextSet(P)), NEW k \in Nat, 0 < k
  PROVE  Tokens(Expanded(ts, k)) = Tokens(ts)
<1> DEFINE m == SplitMap(P, k)
           u == UnitMap(P)
           cs == Mapped(m, ts)
           D == [i \in DOMAIN cs |-> Flat(u, cs[i])]
<1>1. IsMap(m, TextSet(P), Seq(TextSet(P))) /\ IsMap(u, TextSet(P), Seq({0}))
  BY SplitMapIs, UnitMapIs
<1>2. \A i \in DOMAIN ts : ts[i] \in TextSet(P)
  OBVIOUS
<1>3. \A i \in DOMAIN ts : m[ts[i]] = SplitOversized(ts[i], k)
  BY <1>2 DEF SplitMap
<1>4. /\ cs \in Seq(Seq(TextSet(P))) /\ DOMAIN cs = DOMAIN ts
      /\ \A i \in DOMAIN ts : cs[i] = SplitOversized(ts[i], k)
  <2> HIDE DEF m
  <2>1. cs \in Seq(Seq(TextSet(P)))
    BY <1>1, MappedIsList
  <2>2. DOMAIN cs = DOMAIN ts /\ \A i \in DOMAIN ts : cs[i] = m[ts[i]]
    BY DEF Mapped
  <2>. QED
    BY <1>3, <2>1, <2>2
<1>5. \A i \in DOMAIN ts : Flat(u, cs[i]) = u[ts[i]]
  <2> SUFFICES ASSUME NEW i \in DOMAIN ts PROVE Flat(u, cs[i]) = u[ts[i]]
    OBVIOUS
  <2>1. cs[i] \in Seq(TextSet(P)) /\ Tokens(cs[i]) = ts[i].size
    BY <1>2, <1>4, SplitKeeps
  <2>2. Tokens(cs[i]) = Len(Flat(u, cs[i])) /\ Flat(u, cs[i]) \in Seq({0})
    <3> HIDE DEF cs
    <3>. QED
      BY <2>1, TokensAreUnits
  <2>3. u[ts[i]] \in Seq({0}) /\ Len(u[ts[i]]) = ts[i].size
    BY <1>2, UnitMapIs
  <2> HIDE DEF cs, u
  <2>. QED
    BY <2>1, <2>2, <2>3, SameUnits
<1>6. D = Mapped(u, ts)
  <2> HIDE DEF cs, u
  <2>. QED
    BY <1>4, <1>5 DEF Mapped
<1>7. Flat(u, Joined(cs)) = Joined(D)
  <2> HIDE DEF cs, u
  <2>. QED
    BY <1>1, <1>4, FlatOfJoined
<1>8. Flat(u, Expanded(ts, k)) = Flat(u, ts)
  BY <1>6, <1>7, ExpandedIsFlat DEF Flat
<1>9. Expanded(ts, k) \in Seq(TextSet(P))
  BY ExpandedKeeps
<1>10. /\ Tokens(Expanded(ts, k)) = Len(Flat(u, Expanded(ts, k)))
       /\ Tokens(ts) = Len(Flat(u, ts))
  <2> HIDE DEF u
  <2>. QED
    BY <1>9, TokensAreUnits DEF u
<1>. QED
  BY <1>8, <1>10

LEMMA OneMoreOfFirst ==
  ASSUME NEW S, NEW s \in Seq(S), NEW j \in 1 .. Len(s)
  PROVE  First(s, j) = First(s, j - 1) \o <<s[j]>>
<1>1. j - 1 \in 0 .. Len(s) /\ j \in 0 .. Len(s) /\ s[j] \in S
  OBVIOUS
<1> DEFINE x == First(s, j)
           y == First(s, j - 1)
           e == s[j]
           z == y \o <<e>>
<1>2. x \in Seq(S) /\ Len(x) = j /\ y \in Seq(S) /\ Len(y) = j - 1
  BY <1>1, TwoParts
<1>3. /\ \A i \in 1 .. j : x[i] = s[i]
      /\ \A i \in 1 .. j - 1 : y[i] = s[i]
  BY <1>1 DEF First
<1> HIDE DEF x, y
<1>4. <<e>> \in Seq(S) /\ Len(<<e>>) = 1 /\ <<e>>[1] = e
  BY <1>1
<1>5. z \in Seq(S) /\ Len(z) = Len(y) + 1
  BY <1>2, <1>4
<1>6. \A i \in 1 .. Len(z) : z[i] = IF i <= Len(y) THEN y[i] ELSE <<e>>[i - Len(y)]
  BY <1>2, <1>4, ConcatProperties
<1> HIDE DEF z
<1>7. \A i \in 1 .. j : z[i] = x[i]
  <2> SUFFICES ASSUME NEW i \in 1 .. j PROVE z[i] = x[i]
    OBVIOUS
  <2>1. j \in Nat
    OBVIOUS
  <2>2. CASE i = j
    <3>1. ~(i <= Len(y)) /\ i - Len(y) = 1 /\ i \in 1 .. Len(z)
      BY <1>2, <1>5, <2>1, <2>2
    <3>2. z[i] = <<e>>[1]
      BY <1>6, <3>1
    <3>. QED
      BY <1>3, <1>4, <2>2, <3>2 DEF e
  <2>3. CASE i # j
    <3>1. i \in 1 .. j - 1 /\ i <= Len(y) /\ i \in 1 .. Len(z)
      BY <1>2, <1>5, <2>1, <2>3
    <3>. QED
      BY <1>3, <1>6, <3>1
  <2>. QED
    BY <2>2, <2>3
<1>8. Len(z) = j
  BY <1>2, <1>5
<1>9. z = x
  BY <1>2, <1>5, <1>7, <1>8
<1>. QED
  BY <1>9 DEF x, y, z, e

LEMMA SinglesJoined ==
  ASSUME NEW S, NEW s \in Seq(S)
  PROVE  Joined([i \in DOMAIN s |-> <<s[i]>>]) = s
<1> DEFINE cs == [i \in DOMAIN s |-> <<s[i]>>]
<1>1. cs \in Seq(Seq(S)) /\ Len(cs) = Len(s) /\ Len(s) \in Nat
  <2>1. \A i \in 1 .. Len(s) : s[i] \in S
    OBVIOUS
  <2>2. \A i \in 1 .. Len(s) : <<s[i]>> \in Seq(S)
    BY <2>1
  <2>3. DOMAIN s = 1 .. Len(s) /\ Len(s) \in Nat
    OBVIOUS
  <2>. QED
    BY <2>2, <2>3
<1>2. \A i \in 1 .. Len(s) : cs[i] = <<s[i]>>
  OBVIOUS
<1> HIDE DEF cs
<1>3. PICK f : Joins(S, cs, f)
  BY <1>1, JoinedInSteps
<1> DEFINE T == {j \in 0 .. Len(s) : f[j] = First(s, j)}
<1>4. 0 \in T
  <2>1. First(s, 0) = <<>>
    BY DEF First
  <2>. QED
    BY <1>1, <1>3, <2>1 DEF Joins
<1>5. \A j \in 1 .. Len(s) : j - 1 \in T => j \in T
  <2> SUFFICES ASSUME NEW j \in 1 .. Len(s), j - 1 \in T PROVE j \in T
    OBVIOUS
  <2>1. f[j] = f[j - 1] \o <<s[j]>>
    BY <1>1, <1>2, <1>3 DEF Joins
  <2>2. First(s, j) = First(s, j - 1) \o <<s[j]>>
    BY OneMoreOfFirst
  <2>3. j \in 0 .. Len(s)
    BY <1>1
  <2>. QED
    BY <2>1, <2>2, <2>3
<1> HIDE DEF T
<1>6. Len(s) \in T
  <2>1. \A j \in 0 .. Len(s) : j \in T
    BY <1>1, <1>4, <1>5, Reaches
  <2>. QED
    BY <1>1, <2>1
<1>7. f[Len(s)] = First(s, Len(s))
  BY <1>6 DEF T
<1>8. First(s, Len(s)) = s
  BY SubSeqFull DEF First
<1>. QED
  BY <1>1, <1>3, <1>7, <1>8 DEF Joins, cs

Fitting(ts, k) == \A i \in DOMAIN ts : ts[i].size <= k

LEMMA FittingStays ==
  ASSUME NEW P, NEW ts \in Seq(TextSet(P)), NEW k \in Nat, Fitting(ts, k)
  PROVE  Expanded(ts, k) = ts
<1>1. [i \in DOMAIN ts |-> SplitOversized(ts[i], k)] = [i \in DOMAIN ts |-> <<ts[i]>>]
  BY DEF Fitting, SplitOversized
<1>2. Joined([i \in DOMAIN ts |-> <<ts[i]>>]) = ts
  BY SinglesJoined
<1>. QED
  BY <1>1, <1>2 DEF Expanded

\* The texts up to the first that is too long, and those after it.
Around(P, ts, k, p, a, q) ==
  /\ p \in Seq(TextSet(P)) /\ a \in TextSet(P) /\ q \in Seq(TextSet(P))
  /\ ts = p \o (<<a>> \o q) /\ Fitting(p, k) /\ k < a.size

LEMMA FirstOversized ==
  ASSUME NEW P, NEW ts \in Seq(TextSet(P)), NEW k \in Nat, ~Fitting(ts, k)
  PROVE  \E p, a, q : Around(P, ts, k, p, a, q)
<1> DEFINE T == {i \in DOMAIN ts : ~(ts[i].size <= k)}
<1>1. T # {} /\ T \subseteq Nat
  BY DEF Fitting
<1> HIDE DEF T
<1>2. PICK i \in T : \A j \in T : i <= j
  BY <1>1, LeastNumber
<1>3. i \in 1 .. Len(ts) /\ ~(ts[i].size <= k) /\ ts[i] \in TextSet(P) /\ i \in Nat /\ Len(ts) \in Nat
  BY <1>2 DEF T
<1>4. k < ts[i].size
  BY <1>3 DEF TextSet
<1> DEFINE p == First(ts, i - 1)
           r == Final(ts, Len(ts) - (i - 1))
<1>5. i - 1 \in 0 .. Len(ts)
  BY <1>3
<1>6. p \in Seq(TextSet(P)) /\ Len(p) = i - 1 /\ \A j \in 1 .. i - 1 : p[j] = ts[j]
  <2>1. p \in Seq(TextSet(P)) /\ Len(p) = i - 1
    BY <1>5, TwoParts
  <2>2. \A j \in 1 .. i - 1 : p[j] = ts[j]
    BY <1>3, <1>5 DEF First
  <2>. QED
    BY <2>1, <2>2
<1>7. Fitting(p, k)
  <2>1. \A j \in 1 .. i - 1 : j \in DOMAIN ts /\ ~(i <= j)
    BY <1>3
  <2>2. \A j \in 1 .. i - 1 : ts[j].size <= k
    BY <1>2, <2>1 DEF T
  <2> HIDE DEF p
  <2>3. DOMAIN p = 1 .. i - 1
    BY <1>6
  <2>. QED
    BY <1>6, <2>2, <2>3 DEF Fitting
<1>8. r \in Seq(TextSet(P)) /\ Len(r) = Len(ts) - (i - 1) /\ ts = p \o r
  BY <1>5, TwoParts
<1> HIDE DEF p, r
<1>9. r # <<>> /\ Len(r) \in Nat
  BY <1>3, <1>8
<1>10. r = <<r[1]>> \o Tail(r) /\ Tail(r) \in Seq(TextSet(P))
  BY <1>8, <1>9
<1>11. r[1] = ts[i]
  <2>1. p \in Seq(TextSet(P)) /\ r \in Seq(TextSet(P))
    BY <1>6, <1>8
  <2>2. \A j \in 1 .. Len(r) : (p \o r)[Len(p) + j] = r[j]
    BY <2>1
  <2>3. 1 \in 1 .. Len(r)
    BY <1>3, <1>8
  <2>4. (p \o r)[Len(p) + 1] = r[1]
    BY <2>2, <2>3
  <2>5. Len(p) + 1 = i
    BY <1>3, <1>6
  <2>. QED
    BY <1>8, <2>4, <2>5
<1>12. Around(P, ts, k, p, ts[i], Tail(r))
  BY <1>3, <1>4, <1>6, <1>7, <1>8, <1>10, <1>11 DEF Around
<1>. QED
  BY <1>12

BeginsWith(P, es, p, k, b, w) ==
  b \in TextSet(P) /\ w \in Seq(TextSet(P)) /\ b.size = k /\ es = p \o (<<b>> \o w)

\* Split, the first that is too long begins with a text as long as may be.
LEMMA ExpandedAround ==
  ASSUME NEW P, NEW k \in Nat, 0 < k, NEW ts, NEW p, NEW a, NEW q, Around(P, ts, k, p, a, q)
  PROVE  \E b, w : BeginsWith(P, Expanded(ts, k), p, k, b, w)
<1> DEFINE m == SplitMap(P, k)
           sa == SplitOversized(a, k)
           eq == Flat(m, q)
           rest == <<a>> \o q
           one == <<a>>
<1>1. /\ p \in Seq(TextSet(P)) /\ a \in TextSet(P) /\ q \in Seq(TextSet(P))
      /\ ts = p \o rest /\ Fitting(p, k) /\ k < a.size /\ one \in Seq(TextSet(P))
  BY DEF Around
<1>2. IsMap(m, TextSet(P), Seq(TextSet(P))) /\ m[a] = sa
  BY <1>1, SplitMapIs DEF SplitMap
<1>3. sa \in Seq(TextSet(P)) /\ sa # <<>> /\ sa[1].size = k
  BY <1>1, SplitKeeps
<1>4. rest \in Seq(TextSet(P)) /\ p \o rest \in Seq(TextSet(P))
  BY <1>1
<1>5. Expanded(ts, k) = Flat(m, p \o rest) /\ Expanded(p, k) = Flat(m, p)
  BY <1>1, <1>4, ExpandedIsFlat
<1>6. Expanded(p, k) = p
  BY <1>1, FittingStays
<1> HIDE DEF m
<1>7. Flat(m, one) = sa
  BY <1>1, <1>2, FlatOfOne
<1> HIDE DEF one
<1>8. Flat(m, p \o rest) = Flat(m, p) \o Flat(m, rest)
  <2> HIDE DEF rest
  <2>. QED
    BY <1>1, <1>2, <1>4, FlatOfBoth
<1>9. Flat(m, one \o q) = Flat(m, one) \o eq
  BY <1>1, <1>2, FlatOfBoth
<1>10. eq \in Seq(TextSet(P))
  BY <1>1, <1>2, FlatIsList
<1> HIDE DEF eq, sa
<1>11. sa = <<sa[1]>> \o Tail(sa) /\ sa[1] \in TextSet(P) /\ Tail(sa) \in Seq(TextSet(P)) /\ <<sa[1]>> \in Seq(TextSet(P))
  BY <1>3
<1>12. \A x, y, z \in Seq(TextSet(P)) : (x \o y) \o z = x \o (y \o z)
  BY ConcatAssociative
<1>13. (<<sa[1]>> \o Tail(sa)) \o eq = <<sa[1]>> \o (Tail(sa) \o eq)
  BY <1>10, <1>11, <1>12, Zenon
<1>14. Tail(sa) \o eq \in Seq(TextSet(P))
  BY <1>10, <1>11
<1>15. Expanded(ts, k) = p \o (<<sa[1]>> \o (Tail(sa) \o eq))
  <2>1. Flat(m, rest) = sa \o eq
    BY <1>7, <1>9 DEF rest, one
  <2>2. sa \o eq = <<sa[1]>> \o (Tail(sa) \o eq)
    BY <1>11, <1>13
  <2>. QED
    BY <1>5, <1>6, <1>8, <2>1, <2>2
<1>16. BeginsWith(P, Expanded(ts, k), p, k, sa[1], Tail(sa) \o eq)
  BY <1>3, <1>11, <1>14, <1>15 DEF BeginsWith
<1>. QED
  BY <1>16

LEMMA ShorterHasNoMore ==
  ASSUME NEW P, NEW s \in Seq(TextSet(P)), NEW k \in 0 .. Len(s), NEW j \in 0 .. k
  PROVE  Tokens(First(s, j)) \in Nat /\ Tokens(First(s, k)) \in Nat /\ Tokens(First(s, j)) <= Tokens(First(s, k))
<1> DEFINE u == First(s, k)
           v == First(u, j)
           w == Final(u, Len(u) - j)
<1>1. u \in Seq(TextSet(P)) /\ Len(u) = k
  BY TwoParts
<1>2. v = First(s, j)
  BY DEF First
<1> HIDE DEF u
<1>3. j \in 0 .. Len(u)
  BY <1>1
<1>4. v \in Seq(TextSet(P)) /\ w \in Seq(TextSet(P)) /\ u = v \o w
  BY <1>1, <1>3, TwoParts
<1> HIDE DEF v, w
<1>5. Tokens(v) \in Nat /\ Tokens(w) \in Nat /\ Tokens(v \o w) = Tokens(v) + Tokens(w)
  BY <1>4, TokensOfBoth
<1>6. Tokens(u) = Tokens(v) + Tokens(w)
  BY <1>4, <1>5
<1>. QED
  BY <1>2, <1>5, <1>6 DEF u

\* Where the texts before fit in the transcript, a text is seen.
LEMMA SeenInPrompt ==
  ASSUME NEW P, NEW c \in Seq(TextSet(P)), NEW j \in 1 .. Len(c), Tokens(First(c, j - 1)) <= RenderCap
  PROVE  Tokens(Rendered(c)) \in Nat /\ c[j].size <= Tokens(Rendered(c))
<1> DEFINE past == {k \in DOMAIN c : Tokens(First(c, k)) > RenderCap}
<1>0. RenderCap \in Nat
  BY SizeAssumption
<1>1. CASE past = {}
  <2>1. Rendered(c) = c
    BY <1>1 DEF Rendered
  <2>2. Tokens(c) \in Nat
    BY TokensOfBoth
  <2>. QED
    BY <2>1, <2>2, TokensOfMember
<1>2. CASE past # {}
  <2> DEFINE n == CHOOSE k \in past : \A i \in past : k <= i
  <2>1. past \subseteq Nat
    OBVIOUS
  <2>2. Rendered(c) = First(c, n)
    BY <1>2 DEF Rendered
  <2> HIDE DEF past
  <2>3. n \in past
    <3>1. \E k \in past : \A i \in past : k <= i
      BY <1>2, <2>1, LeastNumber
    <3>. QED
      BY <3>1
  <2> HIDE DEF n
  <2>4. n \in 1 .. Len(c) /\ Tokens(First(c, n)) > RenderCap
    BY <2>3 DEF past
  <2>5. ASSUME n < j PROVE FALSE
    <3>1. j - 1 \in 0 .. Len(c) /\ n \in 0 .. j - 1
      BY <2>4, <2>5
    <3>2. Tokens(First(c, n)) \in Nat /\ Tokens(First(c, j - 1)) \in Nat /\ Tokens(First(c, n)) <= Tokens(First(c, j - 1))
      BY <3>1, ShorterHasNoMore
    <3>. QED
      BY <1>0, <2>4, <3>2
  <2> DEFINE u == First(c, n)
  <2>6. u \in Seq(TextSet(P)) /\ Len(u) = n
    BY <2>4, TwoParts
  <2>7. j \in 1 .. n
    BY <2>4, <2>5
  <2>8. u[j] = c[j]
    BY <2>4, <2>7 DEF First
  <2> HIDE DEF u
  <2>9. j \in 1 .. Len(u)
    BY <2>6, <2>7
  <2>10. u[j].size <= Tokens(u)
    BY <2>6, <2>9, TokensOfMember
  <2>11. Tokens(u) \in Nat
    BY <2>6, TokensOfBoth
  <2>. QED
    BY <2>2, <2>8, <2>10, <2>11 DEF u
<1>. QED
  BY <1>1, <1>2

\* A transcript that has all of the texts has room for what comes before the last.
LEMMA RoomBeforeTheRest ==
  ASSUME NEW P, NEW p \in Seq(TextSet(P)), NEW r \in Seq(TextSet(P)), r # <<>>, Rendered(p \o r) = p \o r
  PROVE  Tokens(p) \in Nat /\ Tokens(p) <= RenderCap
<1> DEFINE ts == p \o r
           past == {k \in DOMAIN ts : Tokens(First(ts, k)) > RenderCap}
<1>0. RenderCap \in Nat /\ Tokens(p) \in Nat
  BY SizeAssumption, TokensOfBoth
<1>1. ts \in Seq(TextSet(P)) /\ Len(ts) = Len(p) + Len(r) /\ Len(p) \in Nat /\ Len(r) \in Nat /\ Len(r) > 0
  OBVIOUS
<1>2. First(ts, Len(p)) = p
  <2> DEFINE u == First(ts, Len(p))
  <2>1. Len(p) \in 0 .. Len(ts)
    BY <1>1
  <2>2. u \in Seq(TextSet(P)) /\ Len(u) = Len(p)
    <3> HIDE DEF ts
    <3>. QED
      BY <1>1, <2>1, TwoParts
  <2>3. \A i \in 1 .. Len(p) : u[i] = ts[i]
    <3> HIDE DEF ts
    <3>. QED
      BY <1>1, <2>1 DEF First
  <2>4. \A i \in 1 .. Len(p) : ts[i] = p[i]
    OBVIOUS
  <2> HIDE DEF u
  <2>. QED
    BY <2>2, <2>3, <2>4 DEF u
<1>3. Rendered(ts) = ts
  OBVIOUS
<1> HIDE DEF ts
<1>4. ASSUME Tokens(p) > RenderCap PROVE FALSE
  <2>1. Len(p) > 0
    <3>1. ASSUME p = <<>> PROVE FALSE
      BY <1>0, <1>4, <3>1, TokensOfNothing
    <3>. QED
      BY <1>1, <3>1
  <2>2. Len(p) \in past
    BY <1>1, <1>2, <1>4, <2>1
  <2> DEFINE n == CHOOSE k \in past : \A i \in past : k <= i
  <2>3. past \subseteq Nat
    BY <1>1
  <2>4. Rendered(ts) = First(ts, n)
    BY <2>2 DEF Rendered
  <2> HIDE DEF past
  <2>5. n \in past /\ \A i \in past : n <= i
    <3>1. past # {}
      BY <2>2
    <3>2. \E k \in past : \A i \in past : k <= i
      BY <2>3, <3>1, LeastNumber
    <3>. QED
      BY <3>2
  <2> HIDE DEF n
  <2>6. n \in Nat /\ n <= Len(p)
    BY <2>2, <2>3, <2>5
  <2>7. n \in 0 .. Len(ts)
    BY <1>1, <2>6
  <2>8. Len(First(ts, n)) = n
    BY <1>1, <2>7, TwoParts
  <2>9. Len(ts) = n
    BY <1>3, <2>4, <2>8
  <2>. QED
    BY <1>1, <2>6, <2>9
<1>. QED
  BY <1>0, <1>4

After(c, j, b, n) == j \in 1 .. Len(c) /\ c[j] = b /\ Tokens(First(c, j - 1)) = n

\* A list of texts that has all tokens of a longer one has the one text that has some.
LEMMA HasTheLongOne ==
  ASSUME NEW P, NEW p \in Seq(TextSet(P)), NEW b \in TextSet(P), NEW w \in Seq(TextSet(P)),
         NEW x \in Seq(TextSet(P)), NEW c \in Seq(TextSet(P)), NEW y \in Seq(TextSet(P)),
         p \o (<<b>> \o w) = x \o (c \o y), Tokens(x) = 0, Tokens(y) = 0, b.size > 0
  PROVE  \E j : After(c, j, b, Tokens(p))
<1> DEFINE es == x \o (c \o y)
           m == Len(p) + 1
<1>1. /\ Len(p) \in Nat /\ Len(x) \in Nat /\ Len(c) \in Nat /\ Len(y) \in Nat /\ Len(w) \in Nat
      /\ b.size \in Nat
  BY DEF TextSet
<1>2. es = p \o (<<b>> \o w)
  OBVIOUS
<1>3. <<b>> \in Seq(TextSet(P)) /\ <<b>> \o w \in Seq(TextSet(P)) /\ (<<b>> \o w)[1] = b /\ Len(<<b>> \o w) = 1 + Len(w)
  OBVIOUS
<1> DEFINE r == <<b>> \o w
           cy == c \o y
<1>4. /\ Len(p \o r) = Len(p) + Len(r)
      /\ \A i \in 1 .. Len(p) : (p \o r)[i] = p[i]
      /\ \A i \in 1 .. Len(r) : (p \o r)[Len(p) + i] = r[i]
  <2>1. r \in Seq(TextSet(P))
    BY <1>3
  <2> HIDE DEF r
  <2>. QED
    BY <2>1
<1>5. /\ Len(es) = Len(p) + (1 + Len(w)) /\ es[m] = b
      /\ \A i \in 1 .. Len(p) : es[i] = p[i]
  <2>1. 1 \in 1 .. Len(r)
    BY <1>1, <1>3
  <2>. QED
    BY <1>2, <1>3, <1>4, <2>1
<1>6. /\ cy \in Seq(TextSet(P)) /\ Len(cy) = Len(c) + Len(y)
      /\ \A i \in 1 .. Len(c) : cy[i] = c[i]
      /\ \A i \in 1 .. Len(y) : cy[Len(c) + i] = y[i]
  OBVIOUS
<1> HIDE DEF cy, r
<1>7. /\ Len(x \o cy) = Len(x) + Len(cy)
      /\ \A i \in 1 .. Len(x) : (x \o cy)[i] = x[i]
      /\ \A i \in 1 .. Len(cy) : (x \o cy)[Len(x) + i] = cy[i]
  <2>1. cy \in Seq(TextSet(P))
    BY <1>6
  <2>. QED
    BY <2>1
<1>8. es = x \o cy
  BY DEF cy
<1> HIDE DEF es
<1>9. /\ Len(es) = Len(x) + (Len(c) + Len(y))
      /\ \A i \in 1 .. Len(x) : es[i] = x[i]
      /\ \A i \in 1 .. Len(c) : es[Len(x) + i] = c[i]
      /\ \A i \in 1 .. Len(y) : es[Len(x) + (Len(c) + i)] = y[i]
  <2>1. \A i \in 1 .. Len(c) : i \in 1 .. Len(cy)
    BY <1>1, <1>6
  <2>2. \A i \in 1 .. Len(y) : Len(c) + i \in 1 .. Len(cy)
    BY <1>1, <1>6
  <2>. QED
    BY <1>6, <1>7, <1>8, <2>1, <2>2
<1>10. ASSUME m <= Len(x) PROVE FALSE
  <2>1. m \in 1 .. Len(x)
    BY <1>1, <1>10
  <2>2. x[m] = b /\ x[m].size <= Tokens(x)
    BY <1>5, <1>9, <2>1, TokensOfMember
  <2>. QED
    BY <1>1, <2>2
<1>11. ASSUME m > Len(x) + Len(c) PROVE FALSE
  <2> DEFINE i == m - (Len(x) + Len(c))
  <2>1. i \in 1 .. Len(y) /\ Len(x) + (Len(c) + i) = m
    BY <1>1, <1>5, <1>9, <1>11
  <2> HIDE DEF i
  <2>2. y[i] = b /\ y[i].size <= Tokens(y)
    BY <1>5, <1>9, <2>1, TokensOfMember
  <2>. QED
    BY <1>1, <2>2
<1> DEFINE j == m - Len(x)
           u == First(c, j - 1)
<1>12. j \in 1 .. Len(c) /\ j - 1 \in 0 .. Len(c) /\ Len(x) + j = m
  BY <1>1, <1>10, <1>11
<1> HIDE DEF j
<1>13. c[j] = b
  BY <1>5, <1>9, <1>12
<1>14. u \in Seq(TextSet(P)) /\ Len(u) = j - 1
  BY <1>12, TwoParts
<1>15. \A i \in 1 .. j - 1 : u[i] = c[i]
  BY <1>12 DEF First
<1> HIDE DEF u
<1>16. p = x \o u
  <2> DEFINE z == x \o u
  <2>0. u \in Seq(TextSet(P))
    BY <1>14
  <2>1. z \in Seq(TextSet(P)) /\ Len(z) = Len(x) + Len(u)
    BY <2>0
  <2>2. \A i \in 1 .. Len(x) : z[i] = x[i]
    BY <2>0
  <2>3. \A i \in 1 .. Len(u) : z[Len(x) + i] = u[i]
    BY <2>0
  <2> HIDE DEF z
  <2>4. Len(z) = Len(p)
    BY <1>1, <1>12, <1>14, <2>1
  <2>5. ASSUME NEW i \in 1 .. Len(p) PROVE z[i] = p[i]
    <3>1. CASE i <= Len(x)
      <4>1. i \in 1 .. Len(x)
        BY <1>1, <3>1
      <4>. QED
        BY <1>5, <1>9, <2>2, <4>1
    <3>2. CASE i > Len(x)
      <4> DEFINE k == i - Len(x)
      <4>1. k \in 1 .. Len(u) /\ k \in 1 .. j - 1 /\ k \in 1 .. Len(c) /\ Len(x) + k = i
        BY <1>1, <1>12, <1>14, <3>2
      <4> HIDE DEF k
      <4>2. z[i] = c[k] /\ es[i] = c[k]
        BY <1>9, <1>15, <2>3, <4>1
      <4>. QED
        BY <1>5, <4>2
    <3>. QED
      BY <1>1, <3>1, <3>2
  <2>6. \A i \in 1 .. Len(p) : z[i] = p[i]
    BY <2>5
  <2>7. z \in Seq(TextSet(P))
    BY <2>1
  <2>8. z = p
    BY <2>4, <2>6, <2>7
  <2>. QED
    BY <2>8 DEF z
<1>17. Tokens(u) \in Nat /\ Tokens(x \o u) = Tokens(x) + Tokens(u)
  BY <1>14, TokensOfBoth
<1>18. Tokens(u) = Tokens(p)
  BY <1>16, <1>17
<1>19. After(c, j, b, Tokens(p))
  BY <1>12, <1>13, <1>18 DEF u, After
<1>. QED
  BY <1>19

LEMMA TokensAround ==
  ASSUME NEW P, NEW x \in Seq(TextSet(P)), NEW c \in Seq(TextSet(P)), NEW y \in Seq(TextSet(P))
  PROVE  /\ Tokens(x) \in Nat /\ Tokens(c) \in Nat /\ Tokens(y) \in Nat
         /\ Tokens(x \o (c \o y)) = Tokens(x) + (Tokens(c) + Tokens(y))
<1> DEFINE cy == c \o y
<1>1. cy \in Seq(TextSet(P)) /\ Tokens(cy) = Tokens(c) + Tokens(y) /\ Tokens(c) \in Nat /\ Tokens(y) \in Nat
  BY TokensOfBoth
<1> HIDE DEF cy
<1>2. Tokens(x \o cy) = Tokens(x) + Tokens(cy) /\ Tokens(x) \in Nat
  BY <1>1, TokensOfBoth
<1>. QED
  BY <1>1, <1>2 DEF cy

LEMMA EstimateCounts ==
  ASSUME NEW P, NEW existing, NEW c, Tokens(Rendered(c)) \in Nat
  PROVE  /\ PromptEstimate(existing, c) \in Nat
         /\ PromptEstimate(existing, c) > Tokens(Rendered(c))
BY SizeAssumption DEF PromptEstimate

\* A chunk is all the texts, or smaller than they are.
LEMMA ChunkIsSmaller ==
  ASSUME NEW P, NEW existing, NEW ts \in Seq(TextSet(P)), NEW ctx \in Nat, 0 < ctx, Rendered(ts) = ts,
         Chunks(existing, ts, ctx) # <<ts>>, NEW i \in DOMAIN Chunks(existing, ts, ctx)
  PROVE  Smaller(Chunks(existing, ts, ctx)[i], ts)
<1> DEFINE es == Expanded(ts, ctx)
           cs == Chunks(existing, ts, ctx)
           c == cs[i]
<1>1. es \in Seq(TextSet(P)) /\ Tokens(es) = Tokens(ts)
  BY ExpandedKeeps, ExpandedTokens
<1>2. CASE es = <<>>
  <2>1. cs = <<<<>>>>
    BY <1>2 DEF Chunks, Expanded
  <2>2. c = <<>> /\ ts # <<>>
    BY <2>1
  <2>3. Tokens(c) = 0 /\ Tokens(ts) = 0 /\ Len(c) = 0 /\ Len(ts) > 0
    <3>1. Tokens(es) = 0
      BY <1>2, TokensOfNothing
    <3>2. Tokens(c) = 0
      BY <2>2, TokensOfNothing
    <3>3. Len(c) = 0 /\ Len(ts) > 0
      BY <2>2
    <3>. QED
      BY <1>1, <3>1, <3>2, <3>3
  <2> HIDE DEF c
  <2>4. Smaller(c, ts)
    BY <2>3 DEF Smaller
  <2>. QED
    BY <2>4 DEF c
<1>3. CASE es # <<>>
  <2>1. cs \in Seq(Seq(TextSet(P))) /\ Joined(cs) = es /\ FitChunks(existing, ctx, cs)
    <3> HIDE DEF cs
    <3>. QED
      BY <1>3, ChunksFit DEF cs
  <2>2. cs # <<ts>> /\ i \in DOMAIN cs
    OBVIOUS
  <2> HIDE DEF cs
  <2>3. c \in Seq(TextSet(P)) /\ c # <<>> /\ (Len(c) >= 2 => ~(PromptEstimate(existing, c) > ctx))
    BY <2>1, <2>2 DEF FitChunks
  <2>4. \A k \in DOMAIN cs : cs[k] # <<>>
    BY <2>1 DEF FitChunks
  <2>5. PICK x, y : Beside(TextSet(P), cs, i, x, y)
    BY <2>1, <2>2, <2>4, ChunkIsBeside
  <2>6. x \in Seq(TextSet(P)) /\ y \in Seq(TextSet(P)) /\ es = x \o (c \o y) /\ (x = <<>> /\ y = <<>> => cs = <<c>>)
    BY <2>1, <2>5 DEF Beside
  <2> HIDE DEF c
  <2>7. /\ Tokens(x) \in Nat /\ Tokens(c) \in Nat /\ Tokens(y) \in Nat
        /\ Tokens(ts) = Tokens(x) + (Tokens(c) + Tokens(y))
    BY <1>1, <2>3, <2>6, TokensAround
  <2>8. ASSUME ~Smaller(c, ts) PROVE FALSE
    <3>1. Tokens(x) = 0 /\ Tokens(y) = 0 /\ ~(Len(c) < Len(ts)) /\ Tokens(c) = Tokens(ts)
      BY <2>7, <2>8 DEF Smaller
    <3>2. CASE Fitting(ts, ctx)
      <4>1. ts = x \o (c \o y)
        BY <2>6, <3>2, FittingStays
      <4>2. Len(c \o y) = Len(c) + Len(y) /\ c \o y \in Seq(TextSet(P)) /\ Len(x) \in Nat /\ Len(c) \in Nat /\ Len(y) \in Nat
        BY <2>3, <2>6
      <4>3. Len(x \o (c \o y)) = Len(x) + Len(c \o y)
        BY <2>6, <4>2
      <4>4. Len(x) = 0 /\ Len(y) = 0
        BY <3>1, <4>1, <4>2, <4>3
      <4>5. x = <<>> /\ y = <<>>
        BY <2>6, <4>4
      <4>6. <<>> \o (c \o <<>>) = c
        BY <2>3
      <4>7. ts = c
        BY <4>1, <4>5, <4>6
      <4>. QED
        BY <2>2, <2>6, <4>5, <4>7
    <3>3. CASE ~Fitting(ts, ctx)
      <4>1. PICK p, a, q : Around(P, ts, ctx, p, a, q)
        BY <3>3, FirstOversized
      <4>2. PICK b, w : b \in TextSet(P) /\ w \in Seq(TextSet(P)) /\ b.size = ctx /\ es = p \o (<<b>> \o w)
        <5>1. \E b, w : BeginsWith(P, es, p, ctx, b, w)
          BY <4>1, ExpandedAround
        <5>. QED
          BY <5>1 DEF BeginsWith
      <4>3. p \in Seq(TextSet(P)) /\ a \in TextSet(P) /\ q \in Seq(TextSet(P)) /\ ts = p \o (<<a>> \o q) /\ ctx < a.size
        BY <4>1 DEF Around
      <4>4. Tokens(p) \in Nat /\ Tokens(p) <= RenderCap
        <5> DEFINE r == <<a>> \o q
        <5>1. r \in Seq(TextSet(P)) /\ r # <<>>
          BY <4>3
        <5>2. ts = p \o r
          BY <4>3
        <5> HIDE DEF r
        <5>3. Rendered(p \o r) = p \o r
          BY <5>2
        <5>. QED
          BY <4>3, <5>1, <5>3, RoomBeforeTheRest
      <4>5. p \o (<<b>> \o w) = x \o (c \o y) /\ b.size > 0
        BY <2>6, <4>2
      <4>6. PICK j : After(c, j, b, Tokens(p))
        BY <2>3, <2>6, <3>1, <4>2, <4>3, <4>5, HasTheLongOne
      <4>7. Tokens(Rendered(c)) \in Nat /\ ctx <= Tokens(Rendered(c))
        BY <2>3, <4>2, <4>4, <4>6, SeenInPrompt DEF After
      <4>8. PromptEstimate(existing, c) > ctx
        BY <4>7, EstimateCounts
      <4>9. Len(c) = 1 /\ c = <<b>>
        <5>1. Len(c) \in Nat /\ Len(c) < 2 /\ Len(c) >= 1
          BY <2>3, <4>8 DEF After
        <5>0. \A n \in Nat : n < 2 /\ n >= 1 => n = 1
          OBVIOUS
        <5>3. Len(c) = 1
          BY <5>0, <5>1, Zenon
        <5>4. j \in 1 .. Len(c) /\ c[j] = b
          BY <4>6 DEF After
        <5>2. j = 1 /\ Len(c) = 1 /\ c[j] = b
          BY <5>3, <5>4
        <5>. QED
          BY <2>3, <5>2
      <4>10. Tokens(c) = ctx
        BY <4>2, <4>9, TokensOfOne
      <4>11. <<a>> \in Seq(TextSet(P)) /\ Tokens(<<a>>) = a.size
        BY <4>3, TokensOfOne
      <4>12. Tokens(p) \in Nat /\ Tokens(q) \in Nat /\ Tokens(p \o (<<a>> \o q)) = Tokens(p) + (Tokens(<<a>>) + Tokens(q))
        <5> DEFINE one == <<a>>
        <5>1. one \in Seq(TextSet(P))
          BY <4>11
        <5> HIDE DEF one
        <5>2. Tokens(p) \in Nat /\ Tokens(q) \in Nat /\ Tokens(p \o (one \o q)) = Tokens(p) + (Tokens(one) + Tokens(q))
          BY <4>3, <5>1, TokensAround
        <5>. QED
          BY <5>2 DEF one
      <4>13. a.size \in Nat
        BY <4>3 DEF TextSet
      <4>14. Tokens(ts) = Tokens(p) + (a.size + Tokens(q))
        BY <4>3, <4>11, <4>12
      <4>. QED
        BY <3>1, <4>3, <4>10, <4>12, <4>13, <4>14
    <3>. QED
      BY <3>2, <3>3
  <2>. QED
    BY <2>8 DEF c, cs
<1>. QED
  BY <1>2, <1>3

AllSmaller(cs, ts) == \A i \in DOMAIN cs : Smaller(cs[i], ts)

LEMMA HalvesAreSmaller ==
  ASSUME NEW P, NEW ts \in Seq(TextSet(P)), Len(ForceSplit(ts)) > 1
  PROVE  AllSmaller(ForceSplit(ts), ts)
<1>1. CASE Len(ts) > 1
  <2> DEFINE half == Most(1, Len(ts) \div 2)
             x == First(ts, half)
             y == Final(ts, Len(ts) - half)
  <2>1. half \in 0 .. Len(ts) /\ 0 < half /\ half < Len(ts) /\ Len(ts) \in Nat
    BY <1>1 DEF Most
  <2>2. ForceSplit(ts) = <<x, y>>
    BY <1>1 DEF ForceSplit
  <2> HIDE DEF half
  <2>3. x \in Seq(TextSet(P)) /\ y \in Seq(TextSet(P)) /\ Len(x) = half /\ Len(y) = Len(ts) - half /\ ts = x \o y
    BY <2>1, TwoParts
  <2> HIDE DEF x, y
  <2>4. Tokens(x) \in Nat /\ Tokens(y) \in Nat /\ Tokens(ts) = Tokens(x) + Tokens(y)
    BY <2>3, TokensOfBoth
  <2>5. Smaller(x, ts) /\ Smaller(y, ts)
    BY <2>1, <2>3, <2>4 DEF Smaller
  <2>. QED
    BY <2>2, <2>5 DEF AllSmaller
<1>2. CASE ~(Len(ts) > 1)
  <2> DEFINE t == ts[1]
             k == t.size \div 2
             a == Cut(t, k)[1]
             b == Cut(t, k)[2]
  <2>1. ts # <<>> /\ t.size > 1 /\ ForceSplit(ts) = <<<<a>>, <<b>>>>
    BY <1>2 DEF ForceSplit
  <2>2. t \in TextSet(P) /\ ts = <<t>>
    BY <1>2, <2>1
  <2>3. t.size \in Nat
    BY <2>2 DEF TextSet
  <2> HIDE DEF t
  <2>4. k \in Nat /\ 0 < k /\ k < t.size
    BY <2>1, <2>3
  <2>5. a.size = k /\ b.size = t.size - k
    BY DEF Cut
  <2> HIDE DEF k
  <2>6. a \in TextSet(P) /\ b \in TextSet(P)
    BY <2>2, <2>4, CutKeeps
  <2> HIDE DEF a, b
  <2>7. Tokens(<<a>>) = k /\ Tokens(<<b>>) = t.size - k /\ Tokens(<<t>>) = t.size
    BY <2>2, <2>5, <2>6, TokensOfOne
  <2>8. Smaller(<<a>>, ts) /\ Smaller(<<b>>, ts)
    BY <2>2, <2>3, <2>4, <2>7 DEF Smaller
  <2>. QED
    BY <2>1, <2>8 DEF AllSmaller
<1>. QED
  BY <1>1, <1>2

\* What a call is replaced by is smaller.
LEMMA RetryIsSmaller ==
  ASSUME NEW P, NEW existing, NEW ts \in Seq(TextSet(P)), NEW ctx \in Nat, 0 < ctx, Rendered(ts) = ts
  PROVE  AllSmaller(Normalize(ts, Chunks(existing, ts, ctx)), ts)
<1>1. CASE Chunks(existing, ts, ctx) # <<ts>>
  BY <1>1, ChunkIsSmaller DEF Normalize, AllSmaller
<1>2. CASE Chunks(existing, ts, ctx) = <<ts>>
  <2>1. CASE Len(ForceSplit(ts)) > 1
    BY <1>2, <2>1, HalvesAreSmaller DEF Normalize
  <2>2. CASE ~(Len(ForceSplit(ts)) > 1)
    BY <1>2, <2>2 DEF Normalize, AllSmaller
  <2>. QED
    BY <2>1, <2>2
<1>. QED
  BY <1>1, <1>2

-----------------------------------------------------------------------------
(* The order of the pieces of a conversation.                              *)

MessageSet == [id : Nat, role : {"system", "user", "assistant", "tool"}, size : Nat]
Piece == Nat \X Nat

IsConversation(ms) ==
  /\ ms \in Seq(MessageSet)
  /\ \A i, j \in DOMAIN ms : ms[i].id = ms[j].id => i = j

Earlier(ms, p, q) == \E i, j \in DOMAIN ms :
  /\ ms[i].id = p[1] /\ ms[j].id = q[1]
  /\ i < j \/ (i = j /\ p[2] < q[2])

Ordered(ms, s) == \A i, j \in DOMAIN s : i < j => Earlier(ms, s[i], s[j])

LEMMA NotEarlierThanItself ==
  ASSUME NEW ms, IsConversation(ms), NEW p \in Piece
  PROVE  ~Earlier(ms, p, p)
<1>1. SUFFICES ASSUME Earlier(ms, p, p) PROVE FALSE
  OBVIOUS
<1>2. PICK i \in DOMAIN ms, j \in DOMAIN ms :
        /\ ms[i].id = p[1] /\ ms[j].id = p[1]
        /\ i < j \/ (i = j /\ p[2] < p[2])
  BY <1>1 DEF Earlier
<1>3. i = j
  BY <1>2 DEF IsConversation
<1>4. p[2] \in Nat /\ i \in Nat
  BY DEF Piece, IsConversation
<1>. QED
  BY <1>2, <1>3, <1>4

LEMMA MembersOfBoth ==
  ASSUME NEW S, NEW s \in Seq(S), NEW t \in Seq(S)
  PROVE  ToSet(s \o t) = ToSet(s) \union ToSet(t)
<1> DEFINE u == s \o t
<1>1. /\ Len(u) = Len(s) + Len(t)
      /\ \A i \in 1 .. Len(s) : u[i] = s[i]
      /\ \A j \in 1 .. Len(t) : u[Len(s) + j] = t[j]
      /\ DOMAIN u = 1 .. Len(u) /\ DOMAIN s = 1 .. Len(s) /\ DOMAIN t = 1 .. Len(t)
      /\ Len(s) \in Nat /\ Len(t) \in Nat
  OBVIOUS
<1> HIDE DEF u
<1>2. \A i \in 1 .. Len(u) : i \in 1 .. Len(s) \/ (i - Len(s) \in 1 .. Len(t) /\ u[i] = t[i - Len(s)])
  <2> TAKE i \in 1 .. Len(u)
  <2>1. i \in 1 .. Len(s) \/ i - Len(s) \in 1 .. Len(t)
    BY <1>1
  <2>2. Len(s) + (i - Len(s)) = i
    BY <1>1
  <2>. QED
    BY <1>1, <2>1, <2>2
<1>3. \A x : x \in ToSet(u) <=> \E i \in 1 .. Len(u) : u[i] = x
  BY <1>1 DEF ToSet
<1>4. \A x : x \in ToSet(s) <=> \E i \in 1 .. Len(s) : s[i] = x
  BY <1>1 DEF ToSet
<1>5. \A x : x \in ToSet(t) <=> \E i \in 1 .. Len(t) : t[i] = x
  BY <1>1 DEF ToSet
<1>6. \A i \in 1 .. Len(s) : i \in 1 .. Len(u)
  BY <1>1
<1>7. \A i \in 1 .. Len(t) : Len(s) + i \in 1 .. Len(u)
  BY <1>1
<1>8. \A x : x \in ToSet(u) => x \in ToSet(s) \/ x \in ToSet(t)
  BY <1>1, <1>2, <1>3, <1>4, <1>5
<1>9. \A x : x \in ToSet(s) \/ x \in ToSet(t) => x \in ToSet(u)
  BY <1>1, <1>3, <1>4, <1>5, <1>6, <1>7
<1>. QED
  BY <1>8, <1>9 DEF u

LEMMA OrderedOfBoth ==
  ASSUME NEW S, NEW ms, NEW s \in Seq(S), NEW t \in Seq(S)
  PROVE  Ordered(ms, s \o t) <=> /\ Ordered(ms, s) /\ Ordered(ms, t)
                                 /\ \A p \in ToSet(s), q \in ToSet(t) : Earlier(ms, p, q)
<1> DEFINE u == s \o t
           l == Len(s)
<1>1. /\ Len(u) = l + Len(t)
      /\ \A i \in 1 .. l : u[i] = s[i]
      /\ \A j \in 1 .. Len(t) : u[l + j] = t[j]
      /\ DOMAIN u = 1 .. Len(u) /\ DOMAIN s = 1 .. l /\ DOMAIN t = 1 .. Len(t)
      /\ l \in Nat /\ Len(t) \in Nat
  OBVIOUS
<1> HIDE DEF u, l
<1>2. ASSUME Ordered(ms, u)
      PROVE  /\ Ordered(ms, s) /\ Ordered(ms, t)
             /\ \A p \in ToSet(s), q \in ToSet(t) : Earlier(ms, p, q)
  <2>1. \A i, j \in 1 .. Len(u) : i < j => Earlier(ms, u[i], u[j])
    BY <1>1, <1>2 DEF Ordered
  <2>2. \A i, j \in 1 .. l : i < j => Earlier(ms, s[i], s[j])
    BY <1>1, <2>1
  <2>3. \A i, j \in 1 .. Len(t) : i < j => Earlier(ms, t[i], t[j])
    <3> TAKE i, j \in 1 .. Len(t)
    <3>1. l + i \in 1 .. Len(u) /\ l + j \in 1 .. Len(u) /\ (i < j => l + i < l + j)
      BY <1>1
    <3>. QED
      BY <1>1, <2>1, <3>1
  <2>4. \A i \in 1 .. l, j \in 1 .. Len(t) : Earlier(ms, s[i], t[j])
    <3> TAKE i \in 1 .. l, j \in 1 .. Len(t)
    <3>1. i \in 1 .. Len(u) /\ l + j \in 1 .. Len(u) /\ i < l + j
      BY <1>1
    <3>. QED
      BY <1>1, <2>1, <3>1
  <2>. QED
    BY <1>1, <2>2, <2>3, <2>4 DEF Ordered, ToSet
<1>3. ASSUME Ordered(ms, s), Ordered(ms, t), \A p \in ToSet(s), q \in ToSet(t) : Earlier(ms, p, q)
      PROVE  Ordered(ms, u)
  <2>1. \A i, j \in 1 .. l : i < j => Earlier(ms, s[i], s[j])
    BY <1>1, <1>3 DEF Ordered
  <2>2. \A i, j \in 1 .. Len(t) : i < j => Earlier(ms, t[i], t[j])
    BY <1>1, <1>3 DEF Ordered
  <2>3. \A i \in 1 .. l, j \in 1 .. Len(t) : Earlier(ms, s[i], t[j])
    BY <1>1, <1>3 DEF ToSet
  <2>4. SUFFICES ASSUME NEW i \in 1 .. Len(u), NEW j \in 1 .. Len(u), i < j PROVE Earlier(ms, u[i], u[j])
    BY <1>1 DEF Ordered
  <2>5. CASE j <= l
    <3>1. i \in 1 .. l /\ j \in 1 .. l
      BY <1>1, <2>4, <2>5
    <3>. QED
      BY <1>1, <2>1, <2>4, <3>1
  <2>6. CASE i <= l /\ ~(j <= l)
    <3>1. i \in 1 .. l /\ j - l \in 1 .. Len(t) /\ l + (j - l) = j
      BY <1>1, <2>6
    <3>2. u[i] = s[i] /\ u[j] = t[j - l]
      BY <1>1, <3>1
    <3>. QED
      BY <2>3, <3>1, <3>2
  <2>7. CASE ~(i <= l)
    <3>1. i - l \in 1 .. Len(t) /\ l + (i - l) = i /\ j - l \in 1 .. Len(t) /\ l + (j - l) = j /\ i - l < j - l
      BY <1>1, <2>4, <2>7
    <3>2. u[i] = t[i - l] /\ u[j] = t[j - l]
      BY <1>1, <3>1
    <3>. QED
      BY <2>2, <3>1, <3>2
  <2>. QED
    BY <1>1, <2>5, <2>6, <2>7
<1>. QED
  BY <1>2, <1>3 DEF u

\* Leaving pieces out of an ordered list keeps it ordered and loses just them.
LEMMA LeftOut ==
  ASSUME NEW ms, IsConversation(ms), NEW a \in Seq(Piece), NEW t \in Seq(Piece), NEW d \in Seq(Piece),
         NEW b \in Seq(Piece), Ordered(ms, a \o ((t \o d) \o b))
  PROVE  /\ Ordered(ms, a \o (t \o b))
         /\ ToSet(a \o (t \o b)) = ToSet(a \o ((t \o d) \o b)) \ ToSet(d)
         /\ ToSet(d) \intersect ToSet(t) = {}
<1> DEFINE td == t \o d
           tdb == td \o b
           tb == t \o b
<1>1. td \in Seq(Piece) /\ tb \in Seq(Piece)
  OBVIOUS
<1>2. tdb \in Seq(Piece)
  BY <1>1
<1>3. /\ Ordered(ms, td) <=> /\ Ordered(ms, t) /\ Ordered(ms, d)
                             /\ \A p \in ToSet(t), q \in ToSet(d) : Earlier(ms, p, q)
      /\ Ordered(ms, tb) <=> /\ Ordered(ms, t) /\ Ordered(ms, b)
                             /\ \A p \in ToSet(t), q \in ToSet(b) : Earlier(ms, p, q)
      /\ ToSet(td) = ToSet(t) \union ToSet(d) /\ ToSet(tb) = ToSet(t) \union ToSet(b)
  BY OrderedOfBoth, MembersOfBoth
<1> HIDE DEF td, tb
<1>4. /\ Ordered(ms, tdb) <=> /\ Ordered(ms, td) /\ Ordered(ms, b)
                              /\ \A p \in ToSet(td), q \in ToSet(b) : Earlier(ms, p, q)
      /\ ToSet(tdb) = ToSet(td) \union ToSet(b)
  BY <1>1, OrderedOfBoth, MembersOfBoth
<1> HIDE DEF tdb
<1>5. /\ Ordered(ms, a \o tdb) <=> /\ Ordered(ms, a) /\ Ordered(ms, tdb)
                                   /\ \A p \in ToSet(a), q \in ToSet(tdb) : Earlier(ms, p, q)
      /\ ToSet(a \o tdb) = ToSet(a) \union ToSet(tdb)
  BY <1>2, OrderedOfBoth, MembersOfBoth
<1>6. /\ Ordered(ms, a \o tb) <=> /\ Ordered(ms, a) /\ Ordered(ms, tb)
                                  /\ \A p \in ToSet(a), q \in ToSet(tb) : Earlier(ms, p, q)
      /\ ToSet(a \o tb) = ToSet(a) \union ToSet(tb)
  BY <1>1, OrderedOfBoth, MembersOfBoth
<1>7. Ordered(ms, a \o tdb)
  BY DEF tdb, td
<1>8. Ordered(ms, a \o tb)
  BY <1>3, <1>4, <1>5, <1>6, <1>7
<1>9. ToSet(d) \subseteq Piece
  BY DEF ToSet
<1>10. \A p \in ToSet(d) : p \notin ToSet(a) /\ p \notin ToSet(t) /\ p \notin ToSet(b)
  <2> TAKE p \in ToSet(d)
  <2>1. ~Earlier(ms, p, p)
    BY <1>9, NotEarlierThanItself
  <2>. QED
    BY <1>3, <1>4, <1>5, <1>7, <2>1
<1>11. ToSet(a \o tb) = ToSet(a \o tdb) \ ToSet(d)
  BY <1>3, <1>4, <1>5, <1>6, <1>10
<1>. QED
  BY <1>8, <1>10, <1>11 DEF tb, tdb, td

-----------------------------------------------------------------------------
(* The pieces of the texts of a conversation are in its order.             *)

TextMap == [m \in MessageSet |-> Text(m)]

LEMMA TextIsText ==
  ASSUME NEW m \in MessageSet
  PROVE  /\ Text(m) \in TextSet(Piece)
         /\ Len(Text(m).pieces) = m.size /\ \A j \in 1 .. m.size : Text(m).pieces[j] = <<m.id, j>>
<1>1. m.size \in Nat /\ m.id \in Nat
  BY DEF MessageSet
<1> DEFINE ps == [j \in 1 .. m.size |-> <<m.id, j>>]
<1>2. \A j \in 1 .. m.size : <<m.id, j>> \in Piece
  BY <1>1 DEF Piece
<1>3. ps \in Seq(Piece) /\ Len(ps) = m.size /\ \A j \in 1 .. m.size : ps[j] = <<m.id, j>>
  BY <1>1, <1>2
<1>4. Text(m) = [pieces |-> ps, size |-> m.size]
  BY DEF Text
<1> HIDE DEF ps
<1>5. [pieces |-> ps, size |-> m.size] \in TextSet(Piece)
  BY <1>1, <1>3 DEF TextSet
<1>6. [pieces |-> ps, size |-> m.size].pieces = ps
  OBVIOUS
<1>. QED
  BY <1>3, <1>4, <1>5, <1>6

LEMMA TextMapIs ==
  /\ IsMap(TextMap, MessageSet, TextSet(Piece))
  /\ \A ms \in Seq(MessageSet) : TextsOf(ms) = Mapped(TextMap, ms)
<1>1. \A m \in MessageSet : Text(m) \in TextSet(Piece)
  BY TextIsText
<1>2. IsMap(TextMap, MessageSet, TextSet(Piece))
  BY <1>1 DEF TextMap, IsMap
<1>3. ASSUME NEW ms \in Seq(MessageSet) PROVE TextsOf(ms) = Mapped(TextMap, ms)
  <2>1. \A i \in DOMAIN ms : ms[i] \in MessageSet
    OBVIOUS
  <2>2. \A i \in DOMAIN ms : TextMap[ms[i]] = Text(ms[i])
    BY <2>1 DEF TextMap
  <2>. QED
    BY <2>2 DEF TextsOf, Mapped
<1>. QED
  BY <1>2, <1>3

LEMMA TextsOfBoth ==
  ASSUME NEW s \in Seq(MessageSet), NEW t \in Seq(MessageSet)
  PROVE  /\ TextsOf(s) \in Seq(TextSet(Piece)) /\ Pieces(TextsOf(s)) \in Seq(Piece)
         /\ Pieces(TextsOf(s \o t)) = Pieces(TextsOf(s)) \o Pieces(TextsOf(t))
<1>1. s \o t \in Seq(MessageSet)
  OBVIOUS
<1>2. Mapped(TextMap, s) \in Seq(TextSet(Piece)) /\ Mapped(TextMap, t) \in Seq(TextSet(Piece))
  BY TextMapIs, MappedIsList
<1>3. Mapped(TextMap, s \o t) = Mapped(TextMap, s) \o Mapped(TextMap, t)
  BY TextMapIs, MappedOfBoth
<1>4. TextsOf(s) = Mapped(TextMap, s) /\ TextsOf(t) = Mapped(TextMap, t) /\ TextsOf(s \o t) = Mapped(TextMap, s \o t)
  BY <1>1, TextMapIs
<1>. QED
  BY <1>2, <1>3, <1>4, PiecesAreList, PiecesOfBoth

LEMMA TextsOfOne ==
  ASSUME NEW m \in MessageSet
  PROVE  Pieces(TextsOf(<<m>>)) = Text(m).pieces
<1>1. TextsOf(<<m>>) = <<Text(m)>>
  BY DEF TextsOf
<1>. QED
  BY <1>1, TextIsText, PiecesOfOne

SpokenStep(done, m) == IF m.role = "system" THEN done ELSE Append(done, m)

SpokenRule(ms, f) == [i \in 0 .. Len(ms) |-> IF i = 0 THEN <<>> ELSE SpokenStep(f[i - 1], ms[i])]

\* The messages up to each place of a conversation that nobody but the system said.
Speaks(ms, f) ==
  /\ f \in [0 .. Len(ms) -> Seq(MessageSet)] /\ f[0] = <<>>
  /\ \A i \in 1 .. Len(ms) : f[i] = SpokenStep(f[i - 1], ms[i])
  /\ Spoken(ms) = f[Len(ms)]

LEMMA SpokenInSteps ==
  ASSUME NEW ms \in Seq(MessageSet)
  PROVE  \E f : Speaks(ms, f)
<1> DEFINE N == Len(ms)
           V == Seq(MessageSet)
           step == [i \in 1 .. N |-> [m \in V |-> SpokenStep(m, ms[i])]]
           g == CHOOSE f : f = SpokenRule(ms, f)
<1>1. N \in Nat /\ \A i \in 1 .. N : ms[i] \in MessageSet
  OBVIOUS
<1>2. <<>> \in V
  OBVIOUS
<1>3. step \in [1 .. N -> [V -> V]]
  <2>1. \A i \in 1 .. N : \A m \in V : SpokenStep(m, ms[i]) \in V
    BY <1>1, AppendedIsJoined DEF SpokenStep
  <2> HIDE DEF N, V
  <2>. QED
    BY <2>1
<1>4. Spoken(ms) = g[Len(ms)]
  BY DEF Spoken, SpokenRule, SpokenStep
<1> HIDE DEF N, V, step
<1>5. PICK f : Results(N, V, <<>>, step, f)
  BY <1>1, <1>2, <1>3, LoopHasResults
<1>6. f = SpokenRule(ms, f)
  <2>1. \A i \in 1 .. N : f[i] = SpokenStep(f[i - 1], ms[i])
    <3> TAKE i \in 1 .. N
    <3>1. f[i - 1] \in V
      BY <1>1, <1>5 DEF Results
    <3>. QED
      BY <1>5, <3>1 DEF step, Results
  <2>2. f = [i \in 0 .. N |-> f[i]]
    BY <1>5 DEF Results
  <2>3. \A i \in 0 .. N : i = 0 \/ i \in 1 .. N
    BY <1>1
  <2>. QED
    BY <1>5, <2>1, <2>2, <2>3 DEF SpokenRule, N, Results
<1>7. g = SpokenRule(ms, g)
  BY <1>6
<1> HIDE DEF g
<1>8. DOMAIN g = 0 .. N /\ g = [i \in 0 .. N |-> g[i]] /\ g[0] = <<>>
      /\ \A i \in 1 .. N : g[i] = SpokenStep(g[i - 1], ms[i])
  <2>1. \A i \in 0 .. N : g[i] = IF i = 0 THEN <<>> ELSE SpokenStep(g[i - 1], ms[i])
    BY <1>7 DEF SpokenRule, N
  <2>2. 0 \in 0 .. N /\ \A i \in 1 .. N : i \in 0 .. N /\ i # 0
    BY <1>1
  <2>3. g = [i \in 0 .. N |-> g[i]] /\ DOMAIN g = 0 .. N
    BY <1>7 DEF SpokenRule, N
  <2>. QED
    BY <2>1, <2>2, <2>3
<1> DEFINE T == {i \in 0 .. N : g[i] \in V}
<1>9. \A i \in 0 .. N : i \in T
  <2>1. \A i \in 1 .. N : i - 1 \in T => i \in T
    <3> TAKE i \in 1 .. N
    <3> SUFFICES ASSUME i - 1 \in T PROVE i \in T
      OBVIOUS
    <3>1. g[i - 1] \in V /\ ms[i] \in MessageSet
      BY <1>1
    <3>2. SpokenStep(g[i - 1], ms[i]) \in V
      BY <3>1, AppendedIsJoined DEF SpokenStep, V
    <3>3. i \in 0 .. N
      BY <1>1
    <3>. QED
      BY <1>8, <3>2, <3>3
  <2>2. 0 \in T
    BY <1>1, <1>2, <1>8
  <2> HIDE DEF T
  <2>. QED
    BY <1>1, <2>1, <2>2, Reaches
<1>10. g \in [0 .. N -> V]
  BY <1>8, <1>9
<1>. QED
  BY <1>4, <1>8, <1>10 DEF Speaks, N, V

\* The messages said up to a place have pieces of the messages up to it, in order.
SaidUpTo(ms, k, s) ==
  LET ps == Pieces(TextsOf(s))
  IN  Ordered(ms, ps) /\ \A p \in ToSet(ps) : \E i \in 1 .. k : ms[i].id = p[1]

LEMMA TextIsOrdered ==
  ASSUME NEW ms, IsConversation(ms), NEW k \in DOMAIN ms
  PROVE  /\ Ordered(ms, Text(ms[k]).pieces)
         /\ \A p \in ToSet(Text(ms[k]).pieces) : ms[k].id = p[1]
<1>1. ms[k] \in MessageSet
  BY DEF IsConversation
<1>2. /\ DOMAIN Text(ms[k]).pieces = 1 .. ms[k].size
      /\ \A j \in 1 .. ms[k].size : Text(ms[k]).pieces[j] = <<ms[k].id, j>>
  <2>1. Text(ms[k]).pieces \in Seq(Piece)
    BY <1>1, TextIsText DEF TextSet
  <2>. QED
    BY <1>1, <2>1, TextIsText
<1>3. \A j \in 1 .. ms[k].size : j \in Nat
  BY <1>1 DEF MessageSet
<1>. QED
  BY <1>2, <1>3 DEF Ordered, Earlier, ToSet

LEMMA SpokenIsOrdered ==
  ASSUME NEW ms, IsConversation(ms)
  PROVE  Spoken(ms) \in Seq(MessageSet) /\ Ordered(ms, Pieces(TextsOf(Spoken(ms))))
<1>1. ms \in Seq(MessageSet) /\ Len(ms) \in Nat /\ DOMAIN ms = 1 .. Len(ms) /\ \A i \in 1 .. Len(ms) : ms[i] \in MessageSet
  BY DEF IsConversation
<1>2. PICK f : Speaks(ms, f)
  BY <1>1, SpokenInSteps
<1>3. /\ \A i \in 0 .. Len(ms) : f[i] \in Seq(MessageSet)
      /\ f[0] = <<>> /\ \A i \in 1 .. Len(ms) : f[i] = SpokenStep(f[i - 1], ms[i])
      /\ Spoken(ms) = f[Len(ms)]
  BY <1>2 DEF Speaks
<1> DEFINE N == Len(ms)
           T == {i \in 0 .. N : SaidUpTo(ms, i, f[i])}
<1>4. ASSUME NEW i \in 1 .. N, i - 1 \in T PROVE i \in T
  <2> DEFINE before == f[i - 1]
             ps == Pieces(TextsOf(before))
             qs == Text(ms[i]).pieces
  <2>1. /\ i - 1 \in 0 .. N /\ i \in 0 .. N /\ i \in DOMAIN ms /\ \A j \in 1 .. i - 1 : j \in 1 .. i /\ j < i /\ j \in DOMAIN ms
        /\ i \in 1 .. i
    BY <1>1
  <2>2. before \in Seq(MessageSet) /\ f[i] = SpokenStep(before, ms[i]) /\ ms[i] \in MessageSet
    BY <1>1, <1>3, <2>1
  <2>3. Ordered(ms, ps) /\ \A p \in ToSet(ps) : \E j \in 1 .. i - 1 : ms[j].id = p[1]
    BY <1>4 DEF SaidUpTo
  <2>4. Ordered(ms, qs) /\ \A p \in ToSet(qs) : ms[i].id = p[1]
    BY <2>1, TextIsOrdered
  <2>5. CASE ms[i].role = "system"
    BY <2>1, <2>2, <2>3, <2>5 DEF SpokenStep, SaidUpTo
  <2>6. CASE ms[i].role # "system"
    <3>1. f[i] = before \o <<ms[i]>> /\ <<ms[i]>> \in Seq(MessageSet)
      BY <2>2, <2>6, AppendedIsJoined DEF SpokenStep
    <3>2. Pieces(TextsOf(before \o <<ms[i]>>)) = ps \o qs /\ ps \in Seq(Piece)
      BY <2>2, <3>1, TextsOfBoth, TextsOfOne
    <3>3. qs \in Seq(Piece)
      BY <2>2, TextIsText DEF TextSet
    <3> HIDE DEF ps, qs, before
    <3>4. \A p \in ToSet(ps), q \in ToSet(qs) : Earlier(ms, p, q)
      BY <2>1, <2>3, <2>4 DEF Earlier
    <3>5. Ordered(ms, ps \o qs)
      BY <2>3, <2>4, <3>2, <3>3, <3>4, OrderedOfBoth
    <3>6. \A p \in ToSet(ps \o qs) : \E j \in 1 .. i : ms[j].id = p[1]
      BY <2>1, <2>3, <2>4, <3>2, <3>3, MembersOfBoth, SMTT(30)
    <3>7. SaidUpTo(ms, i, f[i])
      BY <3>1, <3>2, <3>5, <3>6 DEF SaidUpTo
    <3>. QED
      BY <2>1, <3>7
  <2>. QED
    BY <2>5, <2>6
<1>5. 0 \in T
  <2>1. Pieces(TextsOf(<<>>)) = <<>>
    BY PiecesOfNothing DEF TextsOf
  <2>2. Ordered(ms, <<>>) /\ ToSet(<<>>) = {}
    BY DEF Ordered, ToSet
  <2>. QED
    BY <1>1, <1>3, <2>1, <2>2 DEF SaidUpTo
<1>6. N \in 0 .. N
  BY <1>1
<1> HIDE DEF T
<1>7. N \in T
  BY <1>1, <1>4, <1>5, <1>6, Reaches
<1>. QED
  BY <1>1, <1>3, <1>6, <1>7 DEF T, SaidUpTo

-----------------------------------------------------------------------------
(* The middle of a conversation is a part of what was said.                *)

\* Three parts of a list at two places.
IsPartOf(S, part, s) == part \in Seq(S) /\ \E a, b \in Seq(S) : s = a \o (part \o b)

LEMMA ThreeParts ==
  ASSUME NEW S, NEW s \in Seq(S), NEW h \in Nat, NEW t \in Nat, h + t <= Len(s)
  PROVE  IsPartOf(S, SubSeq(s, h + 1, Len(s) - t), s)
<1> DEFINE n == Len(s)
<1>1. n \in Nat
  OBVIOUS
<1>2. /\ SubSeq(s, 1, h) \in Seq(S) /\ SubSeq(s, h + 1, n - t) \in Seq(S)
      /\ SubSeq(s, (n - t) + 1, n) \in Seq(S) /\ SubSeq(s, h + 1, n) \in Seq(S)
  OBVIOUS
<1>3. SubSeq(s, 1, h) \o SubSeq(s, h + 1, n) = SubSeq(s, 1, n)
  BY ConcatAdjacentSubSeq, 1 \in 1 .. Len(s) + 1, h \in 1 - 1 .. Len(s), Len(s) \in h .. Len(s)
<1>4. SubSeq(s, h + 1, n - t) \o SubSeq(s, (n - t) + 1, n) = SubSeq(s, h + 1, n)
  <2>1. h + 1 \in 1 .. Len(s) + 1 /\ n - t \in (h + 1) - 1 .. Len(s) /\ Len(s) \in n - t .. Len(s)
    BY <1>1
  <2>. QED
    BY <2>1, ConcatAdjacentSubSeq
<1>5. SubSeq(s, 1, n) = s
  BY SubSeqFull
<1>. QED
  BY <1>2, <1>3, <1>4, <1>5 DEF IsPartOf

LEMMA MiddleIsOrdered ==
  ASSUME NEW ms, IsConversation(ms), NEW p, p.head \in Nat, p.tail \in Nat, p.pinned \in Nat
  PROVE  /\ MiddleOf(ms, p) \in Seq(MessageSet)
         /\ Ordered(ms, Pieces(TextsOf(MiddleOf(ms, p))))
<1> DEFINE spoken == Spoken(ms)
           h == Most(p.head, p.pinned)
           mid == SubSeq(spoken, h + 1, Len(spoken) - p.tail)
<1>1. spoken \in Seq(MessageSet) /\ Ordered(ms, Pieces(TextsOf(spoken)))
  BY SpokenIsOrdered
<1>2. h \in Nat
  BY DEF Most
<1>3. MiddleOf(ms, p) = IF h + p.tail < Len(spoken) THEN mid ELSE <<>>
  BY DEF MiddleOf
<1> HIDE DEF spoken, h
<1>4. CASE h + p.tail < Len(spoken)
  <2>1. PICK a \in Seq(MessageSet), b \in Seq(MessageSet) :
          mid \in Seq(MessageSet) /\ spoken = a \o (mid \o b)
    <3>1. h + p.tail <= Len(spoken)
      BY <1>1, <1>2, <1>4
    <3>2. IsPartOf(MessageSet, mid, spoken)
      BY <1>1, <1>2, <3>1, ThreeParts
    <3>. QED
      BY <3>2 DEF IsPartOf
  <2> HIDE DEF mid
  <2>2. mid \o b \in Seq(MessageSet)
    BY <2>1
  <2> DEFINE x == Pieces(TextsOf(a))
             y == Pieces(TextsOf(mid))
             z == Pieces(TextsOf(b))
             rest == mid \o b
             yz == Pieces(TextsOf(rest))
  <2>3. yz = y \o z /\ x \in Seq(Piece) /\ y \in Seq(Piece) /\ z \in Seq(Piece)
    BY <2>1, TextsOfBoth
  <2>4. yz \in Seq(Piece)
    BY <2>2, TextsOfBoth
  <2>5. Pieces(TextsOf(a \o rest)) = x \o yz
    <3> HIDE DEF rest
    <3>1. rest \in Seq(MessageSet)
      BY <2>2 DEF rest
    <3>. QED
      BY <2>1, <3>1, TextsOfBoth
  <2>6. Ordered(ms, x \o yz)
    BY <1>1, <2>1, <2>5
  <2> HIDE DEF x, y, z, yz
  <2>7. Ordered(ms, yz)
    BY <2>3, <2>4, <2>6, OrderedOfBoth
  <2>8. Ordered(ms, y)
    BY <2>3, <2>7, OrderedOfBoth
  <2>. QED
    BY <1>3, <1>4, <2>1, <2>8 DEF y
<1>5. CASE ~(h + p.tail < Len(spoken))
  <2>1. Pieces(TextsOf(<<>>)) = <<>>
    BY PiecesOfNothing DEF TextsOf
  <2>. QED
    BY <1>3, <1>5, <2>1 DEF Ordered
<1>. QED
  BY <1>4, <1>5

LEMMA FirstUserIsThere ==
  ASSUME NEW spoken \in Seq(MessageSet)
  PROVE  PinnedHead(spoken) \in Nat
<1> DEFINE users == {i \in DOMAIN spoken : spoken[i].role = "user"}
<1>1. users \subseteq Nat
  OBVIOUS
<1>2. PinnedHead(spoken) = IF users = {} THEN 0 ELSE CHOOSE i \in users : \A j \in users : i <= j
  BY DEF PinnedHead
<1> HIDE DEF users
<1>3. ASSUME users # {} PROVE \E i \in users : \A j \in users : i <= j
  BY <1>1, <1>3, LeastNumber
<1>4. CASE users # {}
  <2>1. (CHOOSE i \in users : \A j \in users : i <= j) \in users
    BY <1>3, <1>4
  <2>. QED
    BY <1>1, <1>2, <1>4, <2>1
<1>. QED
  BY <1>2, <1>4

\* Among pairs of bounded numbers there is one of the greatest sum, and of
\* those one of the greatest first number.
Greatest(c, pairs) ==
  \A d \in pairs : \/ c[1] + c[2] > d[1] + d[2]
                   \/ (c[1] + c[2] = d[1] + d[2] /\ c[1] >= d[1])

LEMMA GreatestPair ==
  ASSUME NEW m \in Nat, NEW n \in Nat, NEW pairs \in SUBSET ((0 .. m) \X (0 .. n)), pairs # {}
  PROVE  \E c \in pairs : Greatest(c, pairs)
<1>1. \A c \in pairs : c[1] \in Nat /\ c[2] \in Nat /\ m + n - (c[1] + c[2]) \in Nat /\ m - c[1] \in Nat
  OBVIOUS
<1> DEFINE room == {m + n - (c[1] + c[2]) : c \in pairs}
<1>2. room \in SUBSET Nat /\ room # {}
  BY <1>1
<1>3. PICK r \in room : \A q \in room : r <= q
  BY <1>2, LeastNumber
<1>4. PICK b \in pairs : r = m + n - (b[1] + b[2])
  OBVIOUS
<1>5. \A d \in pairs : r <= m + n - (d[1] + d[2])
  BY <1>3
<1> DEFINE best == {c \in pairs : c[1] + c[2] = b[1] + b[2]}
           left == {m - c[1] : c \in best}
<1>6. left \in SUBSET Nat /\ left # {}
  BY <1>1, <1>4
<1>7. PICK l \in left : \A q \in left : l <= q
  BY <1>6, LeastNumber
<1>8. PICK c \in best : l = m - c[1]
  OBVIOUS
<1>9. \A d \in best : m - c[1] <= m - d[1]
  BY <1>7, <1>8
<1>10. ASSUME NEW d \in pairs
       PROVE  \/ c[1] + c[2] > d[1] + d[2]
              \/ (c[1] + c[2] = d[1] + d[2] /\ c[1] >= d[1])
  <2>1. c \in pairs /\ c[1] + c[2] = b[1] + b[2]
    BY <1>8
  <2>2. d[1] \in Nat /\ d[2] \in Nat /\ c[1] \in Nat /\ c[2] \in Nat
    BY <1>1, <2>1
  <2>3. d[1] + d[2] <= c[1] + c[2]
    BY <1>1, <1>4, <1>5, <2>1, <2>2
  <2>4. CASE d[1] + d[2] = c[1] + c[2]
    <3>1. d \in best
      BY <2>1, <2>4
    <3>. QED
      BY <1>9, <2>2, <2>4, <3>1
  <2>. QED
    BY <2>2, <2>3, <2>4
<1>. QED
  BY <1>8, <1>10 DEF Greatest

LEMMA ChosenAreNumbers ==
  ASSUME NEW sys, NEW spoken \in Seq(MessageSet), NEW limit, NEW pinned \in Nat, Len(spoken) >= 3
  PROVE  /\ ChooseHeadTail(sys, spoken, limit, pinned)[1] \in Nat
         /\ ChooseHeadTail(sys, spoken, limit, pinned)[2] \in Nat
<1> DEFINE n == Len(spoken)
           least == Least(pinned, n - 1)
           fitting == {c \in (least .. MaxHead) \X (1 .. MaxTail) :
                         /\ c[1] + c[2] >= 2
                         /\ c[1] + c[2] < n
                         /\ RepackedEstimate(sys, spoken, c[1], c[2]) <= limit}
           h == Least(Least(Most(least, 1), MaxHead), n - 1)
           t == Least(1, n - h)
           chosen == ChooseHeadTail(sys, spoken, limit, pinned)
<1>1. n \in Nat /\ n >= 3 /\ MaxHead \in Nat /\ MaxTail \in Nat
  BY PlanAssumption
<1>2. least \in Nat /\ least <= n - 1
  BY <1>1 DEF Least
<1>3. h \in Nat /\ h <= n - 1
  <2> HIDE DEF least, n
  <2>. QED
    BY <1>1, <1>2 DEF Least, Most
<1>4. t \in Nat
  BY <1>1, <1>3 DEF Least
<1>5. Least(1, Most(0, n - least - 1)) \in Nat
  <2> HIDE DEF least, n
  <2>. QED
    BY <1>1, <1>2 DEF Least, Most
<1>6. chosen = IF fitting # {} THEN CHOOSE c \in fitting : Greatest(c, fitting)
               ELSE IF h + t >= n THEN <<least, Least(1, Most(0, n - least - 1))>> ELSE <<h, t>>
  BY DEF ChooseHeadTail, Greatest
<1>7. fitting \in SUBSET ((0 .. MaxHead) \X (0 .. MaxTail))
  <2> HIDE DEF least, n
  <2>. QED
    BY <1>1, <1>2
<1> HIDE DEF fitting, h, t, least, n
<1>8. CASE fitting # {}
  <2>1. \E c \in fitting : Greatest(c, fitting)
    BY <1>1, <1>7, <1>8, GreatestPair
  <2>2. chosen \in fitting
    BY <1>6, <1>8, <2>1
  <2> HIDE DEF chosen
  <2>. QED
    BY <1>1, <1>7, <2>2 DEF chosen
<1>9. CASE fitting = {}
  BY <1>2, <1>3, <1>4, <1>5, <1>6, <1>9
<1>. QED
  BY <1>8, <1>9

LEMMA PlanHasNumbers ==
  ASSUME NEW ms, IsConversation(ms), NEW limit, NEW p, p = ShouldSummarise(ms, limit), p.should
  PROVE  p.head \in Nat /\ p.tail \in Nat /\ p.pinned \in Nat
<1> DEFINE spoken == Spoken(ms)
           pinned == PinnedHead(spoken)
           kept == ChooseHeadTail(SystemOf(ms), spoken, limit, pinned)
<1>1. spoken \in Seq(MessageSet)
  BY SpokenIsOrdered
<1>2. pinned \in Nat
  BY <1>1, FirstUserIsThere
<1>3. /\ ~(Len(spoken) < 3)
      /\ p = [should |-> TRUE, head |-> kept[1], tail |-> kept[2],
              middle |-> Len(spoken) - kept[1] - kept[2], pinned |-> pinned]
  BY DEF ShouldSummarise, NoPlan
<1> HIDE DEF spoken, pinned
<1>4. Len(spoken) >= 3
  BY <1>1, <1>3
<1>5. kept[1] \in Nat /\ kept[2] \in Nat
  BY <1>1, <1>2, <1>4, ChosenAreNumbers
<1>. QED
  BY <1>2, <1>3, <1>5

-----------------------------------------------------------------------------
(* The work list: how many summaries its calls find and leave.             *)

SummarySet == [said : BOOLEAN, pieces : Seq(Piece)]
AnyJob == [do : {"incremental", "middle", "merge"}, texts : Seq(TextSet(Piece)), attempt : Nat, parts : Nat]
JobSet == {j \in AnyJob : j.do = "merge" => j.texts = <<>>}

\* A call that finds a summaries leaves b.
Leaves(job, a, b) ==
  \/ job.do = "incremental" /\ a >= 1 /\ b = a
  \/ job.do = "middle" /\ b = a + 1
  \/ job.do = "merge" /\ job.parts >= 1 /\ job.parts <= a /\ b = a - job.parts + 1

Counts(jobs, a, b, h) ==
  /\ h \in [0 .. Len(jobs) -> Nat] /\ h[0] = a /\ h[Len(jobs)] = b
  /\ \A i \in 1 .. Len(jobs) : Leaves(jobs[i], h[i - 1], h[i])

Balanced(jobs, a, b) == \E h : Counts(jobs, a, b, h)

LEMMA BalancedOfNothing ==
  ASSUME NEW a \in Nat, NEW b, Balanced(<<>>, a, b)
  PROVE  a = b
BY DEF Balanced, Counts

LEMMA BalancedOfOne ==
  ASSUME NEW job, NEW a \in Nat, NEW b \in Nat, Leaves(job, a, b)
  PROVE  Balanced(<<job>>, a, b)
<1> DEFINE h == [i \in 0 .. 1 |-> IF i = 0 THEN a ELSE b]
<1>1. h \in [0 .. 1 -> Nat] /\ h[0] = a /\ h[1] = b
  OBVIOUS
<1>2. Len(<<job>>) = 1 /\ <<job>>[1] = job
  OBVIOUS
<1> HIDE DEF h
<1>3. \A i \in 1 .. 1 : Leaves(<<job>>[i], h[i - 1], h[i])
  BY <1>1, <1>2
<1>4. Counts(<<job>>, a, b, h)
  BY <1>1, <1>2, <1>3 DEF Counts
<1>. QED
  BY <1>4 DEF Balanced

LEMMA BalancedOfBoth ==
  ASSUME NEW S, NEW s \in Seq(S), NEW t \in Seq(S), NEW a \in Nat, NEW b, NEW c,
         Balanced(s, a, b), Balanced(t, b, c)
  PROVE  Balanced(s \o t, a, c)
<1> DEFINE u == s \o t
           l == Len(s)
           k == Len(t)
<1>1. /\ Len(u) = l + k /\ l \in Nat /\ k \in Nat
      /\ \A i \in 1 .. l : u[i] = s[i]
      /\ \A j \in 1 .. k : u[l + j] = t[j]
  OBVIOUS
<1>2. PICK f : Counts(s, a, b, f)
  BY DEF Balanced
<1>3. PICK g : Counts(t, b, c, g)
  BY DEF Balanced
<1>4. /\ f \in [0 .. l -> Nat] /\ f[0] = a /\ f[l] = b /\ \A i \in 1 .. l : Leaves(s[i], f[i - 1], f[i])
      /\ g \in [0 .. k -> Nat] /\ g[0] = b /\ g[k] = c /\ \A i \in 1 .. k : Leaves(t[i], g[i - 1], g[i])
  BY <1>2, <1>3 DEF Counts
<1> HIDE DEF u, l, k
<1> DEFINE h == [i \in 0 .. l + k |-> IF i <= l THEN f[i] ELSE g[i - l]]
<1>5. h \in [0 .. l + k -> Nat]
  <2>1. \A i \in 0 .. l + k : (i <= l => i \in 0 .. l) /\ (~(i <= l) => i - l \in 0 .. k)
    BY <1>1
  <2>. QED
    BY <1>4, <2>1
<1>11. \A i \in 0 .. l + k : ~(i <= l) => h[i] = g[i - l]
  OBVIOUS
<1>6. \A i \in 0 .. l : h[i] = f[i]
  BY <1>1
<1> HIDE DEF h
<1>7. \A j \in 0 .. k : h[l + j] = g[j]
  <2> TAKE j \in 0 .. k
  <2>1. l + j \in 0 .. l + k /\ (l + j) - l = j /\ (l + j <= l <=> j = 0)
    BY <1>1
  <2>2. j = 0 => l + j = l
    BY <1>1
  <2>4. CASE j = 0
    <3>1. h[l] = f[l]
      BY <1>1, <1>6
    <3>. QED
      BY <1>4, <2>2, <2>4, <3>1
  <2>5. CASE j # 0
    <3> DEFINE i == l + j
    <3>1. i \in 0 .. l + k /\ i - l = j /\ ~(i <= l)
      BY <2>1, <2>5
    <3> HIDE DEF i
    <3>2. h[i] = g[i - l]
      BY <1>11, <3>1
    <3>. QED
      BY <3>1, <3>2 DEF i
  <2>. QED
    BY <2>4, <2>5
<1> HIDE DEF h
<1>8. h[0] = a /\ h[l + k] = c
  BY <1>1, <1>4, <1>6, <1>7
<1>9. ASSUME NEW i \in 1 .. l + k PROVE Leaves(u[i], h[i - 1], h[i])
  <2>1. CASE i <= l
    <3>1. i \in 1 .. l /\ i \in 0 .. l /\ i - 1 \in 0 .. l
      BY <1>1, <2>1
    <3>. QED
      BY <1>1, <1>4, <1>6, <3>1
  <2>2. CASE ~(i <= l)
    <3> DEFINE j == i - l
    <3>1. j \in 1 .. k /\ j \in 0 .. k /\ j - 1 \in 0 .. k /\ l + j = i /\ l + (j - 1) = i - 1
      BY <1>1, <2>2
    <3> HIDE DEF j
    <3>2. h[i] = g[j] /\ h[i - 1] = g[j - 1] /\ u[i] = t[j]
      BY <1>1, <1>7, <3>1
    <3>. QED
      BY <1>4, <3>1, <3>2
  <2>. QED
    BY <2>1, <2>2
<1>10. Counts(u, a, c, h)
  BY <1>1, <1>5, <1>8, <1>9 DEF Counts
<1>. QED
  BY <1>10 DEF Balanced, u

\* After the first call of a balanced list the rest is balanced.
LEMMA BalancedAfterFirst ==
  ASSUME NEW S, NEW s \in Seq(S), s # <<>>, NEW a \in Nat, NEW c, Balanced(s, a, c)
  PROVE  \E b \in Nat : Leaves(s[1], a, b) /\ Balanced(Tail(s), b, c)
<1> DEFINE t == Tail(s)
           k == Len(t)
<1>1. /\ Len(s) = k + 1 /\ k \in Nat
      /\ \A i \in 1 .. k : t[i] = s[i + 1]
  BY HeadTailProperties
<1>2. PICK f : Counts(s, a, c, f)
  BY DEF Balanced
<1>3. f \in [0 .. k + 1 -> Nat] /\ f[0] = a /\ f[k + 1] = c /\ \A i \in 1 .. k + 1 : Leaves(s[i], f[i - 1], f[i])
  BY <1>1, <1>2 DEF Counts
<1> HIDE DEF t, k
<1> DEFINE h == [i \in 0 .. k |-> f[i + 1]]
<1>4. h \in [0 .. k -> Nat] /\ h[0] = f[1] /\ h[k] = c /\ \A i \in 0 .. k : h[i] = f[i + 1]
  BY <1>1, <1>3
<1> HIDE DEF h
<1>5. ASSUME NEW i \in 1 .. k PROVE Leaves(t[i], h[i - 1], h[i])
  <2>1. i + 1 \in 1 .. k + 1 /\ i - 1 \in 0 .. k /\ i \in 0 .. k /\ i + 1 - 1 = i /\ i - 1 + 1 = i
    BY <1>1
  <2>2. Leaves(s[i + 1], f[i], f[i + 1])
    BY <1>3, <2>1
  <2>3. h[i - 1] = f[i] /\ h[i] = f[i + 1]
    BY <1>4, <2>1
  <2>. QED
    BY <1>1, <2>2, <2>3
<1>6. Counts(t, f[1], c, h)
  BY <1>4, <1>5 DEF Counts, k
<1>7. f[1] \in Nat /\ Leaves(s[1], a, f[1])
  <2>1. 1 \in 1 .. k + 1 /\ 1 \in 0 .. k + 1 /\ 1 - 1 = 0
    BY <1>1
  <2>. QED
    BY <1>3, <2>1
<1>. QED
  BY <1>6, <1>7 DEF Balanced, t

-----------------------------------------------------------------------------
(* The pieces of the summaries made and of the texts still to be sent.     *)

SumMap == [s \in SummarySet |-> s.pieces]
JobMap == [j \in JobSet |-> Pieces(j.texts)]
Flow(ss, js) == Flat(SumMap, ss) \o Flat(JobMap, js)

LEMMA SumMapIs ==
  IsMap(SumMap, SummarySet, Seq(Piece)) /\ \A s \in SummarySet : SumMap[s] = s.pieces
BY DEF SumMap, SummarySet, IsMap

LEMMA JobMapIs ==
  IsMap(JobMap, JobSet, Seq(Piece)) /\ \A j \in JobSet : JobMap[j] = Pieces(j.texts)
<1>1. \A j \in JobSet : Pieces(j.texts) \in Seq(Piece)
  BY PiecesAreList DEF JobSet, AnyJob
<1>. QED
  BY <1>1 DEF JobMap, IsMap

LEMMA FlatOfSums ==
  ASSUME NEW s \in Seq(SummarySet), NEW t \in Seq(SummarySet)
  PROVE  Flat(SumMap, s) \in Seq(Piece) /\ Flat(SumMap, s \o t) = Flat(SumMap, s) \o Flat(SumMap, t)
BY SumMapIs, FlatIsList, FlatOfBoth

LEMMA FlatOfOneSum ==
  ASSUME NEW s \in SummarySet
  PROVE  Flat(SumMap, <<s>>) = s.pieces
BY SumMapIs, FlatOfOne

LEMMA FlatOfJobs ==
  ASSUME NEW s \in Seq(JobSet), NEW t \in Seq(JobSet)
  PROVE  Flat(JobMap, s) \in Seq(Piece) /\ Flat(JobMap, s \o t) = Flat(JobMap, s) \o Flat(JobMap, t)
BY JobMapIs, FlatIsList, FlatOfBoth

LEMMA FlatOfOneJob ==
  ASSUME NEW j \in JobSet
  PROVE  Flat(JobMap, <<j>>) = Pieces(j.texts) /\ Pieces(j.texts) \in Seq(Piece)
<1>1. Flat(JobMap, <<j>>) = JobMap[j]
  BY JobMapIs, FlatOfOne
<1>. QED
  BY <1>1, JobMapIs, PiecesAreList DEF JobSet, AnyJob

-----------------------------------------------------------------------------
(* Calls that take the place of another call.                              *)

\* Calls that have the pieces of a job and leave as many summaries as it does.
InPlaceOf(job, calls) ==
  /\ calls \in Seq(JobSet) /\ Flat(JobMap, calls) = Pieces(job.texts)
  /\ \A a, b \in Nat : Leaves(job, a, b) => Balanced(calls, a, b)

LEMMA FirstAndRest ==
  ASSUME NEW w \in Seq(JobSet), w # <<>>
  PROVE  /\ w[1] \in JobSet /\ Tail(w) \in Seq(JobSet) /\ w = <<w[1]>> \o Tail(w)
         /\ Flat(JobMap, w) = Pieces(w[1].texts) \o Flat(JobMap, Tail(w))
<1>1. w[1] \in JobSet /\ Tail(w) \in Seq(JobSet) /\ w = <<w[1]>> \o Tail(w) /\ <<w[1]>> \in Seq(JobSet)
  OBVIOUS
<1>2. Flat(JobMap, <<w[1]>> \o Tail(w)) = Flat(JobMap, <<w[1]>>) \o Flat(JobMap, Tail(w))
  BY <1>1, FlatOfJobs
<1>3. Flat(JobMap, <<w[1]>>) = Pieces(w[1].texts)
  BY <1>1, FlatOfOneJob
<1>. QED
  BY <1>1, <1>2, <1>3

LEMMA Replaced ==
  ASSUME NEW w \in Seq(JobSet), w # <<>>, NEW calls, InPlaceOf(w[1], calls), NEW a \in Nat, NEW c, Balanced(w, a, c)
  PROVE  /\ calls \o Tail(w) \in Seq(JobSet)
         /\ Flat(JobMap, calls \o Tail(w)) = Flat(JobMap, w)
         /\ Balanced(calls \o Tail(w), a, c)
<1> DEFINE rest == Tail(w)
<1>1. rest \in Seq(JobSet) /\ Flat(JobMap, w) = Pieces(w[1].texts) \o Flat(JobMap, rest)
  BY FirstAndRest
<1>2. calls \in Seq(JobSet) /\ Flat(JobMap, calls) = Pieces(w[1].texts)
  BY DEF InPlaceOf
<1>3. PICK b \in Nat : Leaves(w[1], a, b) /\ Balanced(rest, b, c)
  BY BalancedAfterFirst
<1>4. Balanced(calls, a, b)
  BY <1>3 DEF InPlaceOf
<1> HIDE DEF rest
<1>5. calls \o rest \in Seq(JobSet)
  BY <1>1, <1>2
<1>6. Flat(JobMap, calls \o rest) = Flat(JobMap, calls) \o Flat(JobMap, rest)
  BY <1>1, <1>2, FlatOfJobs
<1>7. Balanced(calls \o rest, a, c)
  BY <1>1, <1>2, <1>3, <1>4, BalancedOfBoth
<1>. QED
  BY <1>1, <1>2, <1>5, <1>6, <1>7 DEF rest

\* As many calls of one kind as there are chunks.
LEMMA AllLeave ==
  ASSUME NEW S, NEW calls \in Seq(S), NEW a \in Nat, NEW d \in {0, 1},
         \A i \in 1 .. Len(calls) : \A x \in Nat : x >= a => Leaves(calls[i], x, x + d)
  PROVE  Balanced(calls, a, a + (IF d = 0 THEN 0 ELSE Len(calls)))
<1> DEFINE n == Len(calls)
           h == [i \in 0 .. n |-> a + (IF d = 0 THEN 0 ELSE i)]
<1>1. n \in Nat
  OBVIOUS
<1> HIDE DEF n
<1>6. \A i \in 0 .. n : a + (IF d = 0 THEN 0 ELSE i) \in Nat
  BY <1>1
<1>7. h \in [0 .. n -> Nat]
  BY <1>6
<1>8. \A i \in 0 .. n : h[i] = a + (IF d = 0 THEN 0 ELSE i)
  OBVIOUS
<1> HIDE DEF h
<1>2. h[0] = a /\ h[n] = a + (IF d = 0 THEN 0 ELSE n)
  <2>1. 0 \in 0 .. n /\ n \in 0 .. n
    BY <1>1
  <2>2. h[0] = a + (IF d = 0 THEN 0 ELSE 0) /\ h[n] = a + (IF d = 0 THEN 0 ELSE n)
    BY <1>8, <2>1
  <2>. QED
    BY <2>2
<1>3. \A i \in 1 .. n : h[i - 1] \in Nat /\ h[i - 1] >= a /\ h[i] = h[i - 1] + d
  <2> TAKE i \in 1 .. n
  <2>1. i \in 0 .. n /\ i - 1 \in 0 .. n
    BY <1>1
  <2>2. h[i] = a + (IF d = 0 THEN 0 ELSE i) /\ h[i - 1] = a + (IF d = 0 THEN 0 ELSE i - 1)
    BY <1>8, <2>1
  <2>. QED
    BY <2>1, <2>2
<1>4. \A i \in 1 .. n : Leaves(calls[i], h[i - 1], h[i])
  BY <1>3 DEF n
<1>5. Counts(calls, a, a + (IF d = 0 THEN 0 ELSE n), h)
  BY <1>2, <1>4, <1>7 DEF Counts, n
<1>. QED
  BY <1>5 DEF Balanced, n

CallsFor(job, chunks) == [i \in DOMAIN chunks |-> Call(job.do, chunks[i], job.attempt + 1)]

LEMMA CallsForChunks ==
  ASSUME NEW job \in JobSet, job.do # "merge", NEW chunks, SameTexts(Piece, job.texts, chunks)
  PROVE  /\ CallsFor(job, chunks) \in Seq(JobSet) /\ Len(CallsFor(job, chunks)) = Len(chunks)
         /\ \A i \in 1 .. Len(chunks) : CallsFor(job, chunks)[i].do = job.do
         /\ Flat(JobMap, CallsFor(job, chunks)) = Pieces(job.texts)
<1> DEFINE calls == CallsFor(job, chunks)
           T == Seq(TextSet(Piece))
<1>1. chunks \in Seq(T) /\ Flat(PiecesMap(Piece), chunks) = Pieces(job.texts)
  BY DEF SameTexts
<1>2. /\ job.do \in {"incremental", "middle", "merge"} /\ job.attempt + 1 \in Nat
      /\ AnyJob = [do : {"incremental", "middle", "merge"}, texts : T, attempt : Nat, parts : Nat]
  BY DEF JobSet, AnyJob
<1>3. \A i \in DOMAIN chunks : chunks[i] \in T
  <2> HIDE DEF T
  <2>. QED
    BY <1>1
<1> HIDE DEF T
<1>4. \A i \in DOMAIN chunks : /\ Call(job.do, chunks[i], job.attempt + 1) \in JobSet
                               /\ Call(job.do, chunks[i], job.attempt + 1).texts = chunks[i]
                               /\ Call(job.do, chunks[i], job.attempt + 1).do = job.do
  BY <1>2, <1>3 DEF Call, JobSet
<1>5. Len(chunks) \in Nat /\ DOMAIN chunks = 1 .. Len(chunks)
  BY <1>1
<1>6. calls \in Seq(JobSet) /\ Len(calls) = Len(chunks) /\ DOMAIN calls = DOMAIN chunks
      /\ \A i \in DOMAIN chunks : calls[i] = Call(job.do, chunks[i], job.attempt + 1)
  <2> HIDE DEF JobSet
  <2>1. \A i \in 1 .. Len(chunks) : Call(job.do, chunks[i], job.attempt + 1) \in JobSet
    BY <1>4, <1>5
  <2>2. calls = [i \in 1 .. Len(chunks) |-> Call(job.do, chunks[i], job.attempt + 1)]
    BY <1>5 DEF CallsFor
  <2>3. calls \in Seq(JobSet)
    BY <1>5, <2>1, <2>2
  <2>. QED
    BY <1>5, <2>2, <2>3
<1> HIDE DEF calls
<1>7. Mapped(JobMap, calls) = Mapped(PiecesMap(Piece), chunks)
  <2>1. \A i \in DOMAIN chunks : JobMap[calls[i]] = PiecesMap(Piece)[chunks[i]]
    BY <1>3, <1>4, <1>6, JobMapIs, PiecesMapIs DEF T
  <2>. QED
    BY <1>6, <2>1 DEF Mapped
<1>. QED
  BY <1>1, <1>4, <1>5, <1>6, <1>7 DEF Flat, calls

LEMMA ChunkedInPlace ==
  ASSUME Job \in JobSet, Job.do \in {"incremental", "middle"},
         NEW chunks, SameTexts(Piece, Job.texts, chunks), chunks # <<>>
  PROVE  InPlaceOf(Job, Chunked(chunks))
<1> DEFINE calls == CallsFor(Job, chunks)
           n == Len(chunks)
           merge == [do |-> "merge", texts |-> <<>>, attempt |-> Job.attempt + 1, parts |-> Len(chunks)]
<1>1. /\ calls \in Seq(JobSet) /\ Len(calls) = n
      /\ \A i \in 1 .. n : calls[i].do = Job.do
      /\ Flat(JobMap, calls) = Pieces(Job.texts)
  BY CallsForChunks
<1>2. n \in Nat \ {0}
  <2>1. chunks \in Seq(Seq(TextSet(Piece)))
    BY DEF SameTexts
  <2>. QED
    BY <2>1
<1>3. Chunked(chunks) = IF Job.do = "incremental" THEN calls ELSE Append(calls, merge)
  BY DEF Chunked, CallsFor
<1>4. merge \in JobSet /\ merge.do = "merge" /\ merge.parts = n /\ merge.texts = <<>>
  <2>1. Job.attempt + 1 \in Nat
    BY DEF JobSet, AnyJob
  <2>. QED
    BY <1>2, <2>1 DEF JobSet, AnyJob
<1> HIDE DEF calls, merge, n
<1>5. CASE Job.do = "incremental"
  <2>1. ASSUME NEW a \in Nat, NEW b \in Nat, Leaves(Job, a, b) PROVE Balanced(calls, a, b)
    <3>1. a >= 1 /\ b = a
      BY <1>5, <2>1 DEF Leaves
    <3>2. \A i \in 1 .. Len(calls) : \A x \in Nat : x >= a => Leaves(calls[i], x, x + 0)
      BY <1>1, <1>5, <3>1 DEF Leaves
    <3>3. Balanced(calls, a, a + (IF 0 = 0 THEN 0 ELSE Len(calls)))
      BY <1>1, <3>2, AllLeave
    <3>. QED
      BY <3>1, <3>3
  <2>. QED
    BY <1>1, <1>3, <1>5, <2>1 DEF InPlaceOf
<1>6. CASE Job.do = "middle"
  <2>1. Append(calls, merge) = calls \o <<merge>> /\ <<merge>> \in Seq(JobSet) /\ Append(calls, merge) \in Seq(JobSet)
    BY <1>1, <1>4, AppendedIsJoined
  <2>2. Flat(JobMap, calls \o <<merge>>) = Pieces(Job.texts)
    <3>1. Flat(JobMap, calls \o <<merge>>) = Flat(JobMap, calls) \o Flat(JobMap, <<merge>>)
      BY <1>1, <2>1, FlatOfJobs
    <3>2. Flat(JobMap, <<merge>>) = <<>>
      BY <1>4, FlatOfOneJob, PiecesOfNothing
    <3>3. Pieces(Job.texts) \in Seq(Piece)
      BY PiecesAreList DEF JobSet, AnyJob
    <3>. QED
      BY <1>1, <3>1, <3>2, <3>3
  <2>3. ASSUME NEW a \in Nat, NEW b \in Nat, Leaves(Job, a, b) PROVE Balanced(calls \o <<merge>>, a, b)
    <3>1. b = a + 1
      BY <1>6, <2>3 DEF Leaves
    <3>2. \A i \in 1 .. Len(calls) : \A x \in Nat : x >= a => Leaves(calls[i], x, x + 1)
      BY <1>1, <1>6 DEF Leaves
    <3>3. Balanced(calls, a, a + n)
      <4>1. Balanced(calls, a, a + (IF 1 = 0 THEN 0 ELSE Len(calls)))
        BY <1>1, <3>2, AllLeave
      <4>. QED
        BY <1>1, <4>1
    <3>4. Leaves(merge, a + n, a + 1)
      BY <1>2, <1>4 DEF Leaves
    <3>5. Balanced(<<merge>>, a + n, a + 1)
      BY <1>2, <3>4, BalancedOfOne
    <3>. QED
      BY <1>1, <2>1, <3>1, <3>3, <3>5, BalancedOfBoth
  <2>. QED
    BY <1>3, <1>6, <2>1, <2>2, <2>3 DEF InPlaceOf
<1>. QED
  BY <1>5, <1>6

-----------------------------------------------------------------------------
(* What a reply and a retry do to the summaries and the work left.         *)

\* Summaries that have been told of some pieces more.
ToldMore(ss, more, told, n) ==
  /\ more \in Seq(SummarySet) /\ Len(more) = n
  /\ Flat(SumMap, more) = Flat(SumMap, ss) \o told

LEMMA UpdatedIsSum ==
  ASSUME NEW s \in SummarySet, NEW told \in Seq(Piece)
  PROVE  Updated(s, told) \in SummarySet /\ Updated(s, told).pieces = s.pieces \o told
BY DEF Updated, SummarySet

LEMMA LastToldMore ==
  ASSUME NEW ss \in Seq(SummarySet), Len(ss) >= 1, NEW told \in Seq(Piece)
  PROVE  ToldMore(ss, Append(Front(ss), Updated(Last(ss), told)), told, Len(ss))
<1> DEFINE front == Front(ss)
           last == Last(ss)
           new == Updated(last, told)
<1>1. front \in Seq(SummarySet) /\ last \in SummarySet /\ ss = front \o <<last>> /\ Len(front) + 1 = Len(ss)
  BY DEF Front, Last
<1> HIDE DEF front, last
<1>2. new \in SummarySet /\ new.pieces = last.pieces \o told
  BY <1>1, UpdatedIsSum
<1> HIDE DEF new
<1>3. Append(front, new) = front \o <<new>> /\ Append(front, new) \in Seq(SummarySet) /\ Len(Append(front, new)) = Len(ss)
      /\ <<new>> \in Seq(SummarySet) /\ <<last>> \in Seq(SummarySet)
  BY <1>1, <1>2, AppendedIsJoined
<1>4. Flat(SumMap, front \o <<new>>) = Flat(SumMap, front) \o (last.pieces \o told)
  BY <1>1, <1>2, <1>3, FlatOfSums, FlatOfOneSum
<1>5. Flat(SumMap, front \o <<last>>) = Flat(SumMap, front) \o last.pieces
  BY <1>1, <1>3, FlatOfSums, FlatOfOneSum
<1>6. Flat(SumMap, front) \in Seq(Piece) /\ last.pieces \in Seq(Piece)
  BY <1>1, FlatOfSums DEF SummarySet
<1>7. \A x, y, z \in Seq(Piece) : (x \o y) \o z = x \o (y \o z)
  BY ConcatAssociative
<1>8. (Flat(SumMap, front) \o last.pieces) \o told = Flat(SumMap, front) \o (last.pieces \o told)
  BY <1>6, <1>7, Zenon
<1>. QED
  BY <1>1, <1>3, <1>4, <1>5, <1>8 DEF ToldMore, front, last, new

LEMMA NewToldMore ==
  ASSUME NEW ss \in Seq(SummarySet), NEW told \in Seq(Piece)
  PROVE  ToldMore(ss, Append(ss, Updated(NoSummary, told)), told, Len(ss) + 1)
<1> DEFINE new == Updated(NoSummary, told)
<1>1. NoSummary \in SummarySet /\ NoSummary.pieces = <<>>
  BY DEF NoSummary, SummarySet
<1>2. new \in SummarySet /\ new.pieces = told
  <2>1. <<>> \o told = told
    OBVIOUS
  <2>. QED
    BY <1>1, <2>1, UpdatedIsSum
<1> HIDE DEF new
<1>3. Append(ss, new) = ss \o <<new>> /\ Append(ss, new) \in Seq(SummarySet) /\ Len(Append(ss, new)) = Len(ss) + 1
      /\ <<new>> \in Seq(SummarySet)
  BY <1>2, AppendedIsJoined
<1>4. Flat(SumMap, ss \o <<new>>) = Flat(SumMap, ss) \o told
  BY <1>2, <1>3, FlatOfSums, FlatOfOneSum
<1>. QED
  BY <1>3, <1>4 DEF ToldMore, new

\* What is sent of a call's texts, or nothing, and what nobody is told of.
LEMMA ToldAndLost ==
  ASSUME NEW ts \in Seq(TextSet(Piece)), NEW told, told \in {<<>>, Pieces(Rendered(ts))}
  PROVE  told \in Seq(Piece) /\ \E d \in Seq(Piece) : Pieces(ts) = told \o d
<1>1. PICK rest \in Seq(Piece) : Pieces(Rendered(ts)) \in Seq(Piece) /\ Pieces(ts) = Pieces(Rendered(ts)) \o rest
  BY RenderedAndRest
<1>2. Pieces(ts) \in Seq(Piece)
  BY PiecesAreList
<1> DEFINE all == Pieces(ts)
<1> HIDE DEF all
<1>3. all \in Seq(Piece) => <<>> \in Seq(Piece) /\ all = <<>> \o all
  OBVIOUS
<1>4. CASE told = <<>>
  BY <1>2, <1>3, <1>4 DEF all
<1>5. CASE told = Pieces(Rendered(ts))
  BY <1>1, <1>5
<1>. QED
  BY <1>4, <1>5

-----------------------------------------------------------------------------
(* The summaries made and the texts still to be sent have all the pieces   *)
(* of the middle, each once and in its order, but the lost ones.           *)

WorkInvariant ==
  /\ work \in Seq(JobSet) /\ sums \in Seq(SummarySet)
  /\ Balanced(work, Len(sums), 1)
  /\ Ordered(request, Flow(sums, work))
  /\ ToSet(Flow(sums, work)) = Middle \ lost

LEMMA RetryKeepsWork ==
  ASSUME WorkInvariant, work # <<>>, Job.do \in {"incremental", "middle"}, phase = "work",
         NEW ctx \in Nat \ {0}, Retry(ctx), phase' # "failed"
  PROVE  WorkInvariant'
<1> DEFINE chunks == Normalize(Job.texts, Chunks(Existing, Job.texts, ctx))
<1>1. /\ chunks # <<>> /\ work' = Chunked(chunks) \o Tail(work)
      /\ UNCHANGED <<request, plan, sums, lost>>
  BY DEF Retry, Unchanged
<1>2. Job \in JobSet /\ Job = work[1] /\ Job.texts \in Seq(TextSet(Piece))
  <2>1. work[1] \in JobSet
    BY FirstAndRest DEF WorkInvariant
  <2>. QED
    BY <2>1 DEF Job, JobSet, AnyJob
<1>3. SameTexts(Piece, Job.texts, chunks)
  BY <1>1, <1>2, RetryKeeps
<1> HIDE DEF chunks
<1>4. InPlaceOf(work[1], Chunked(chunks))
  BY <1>1, <1>2, <1>3, ChunkedInPlace
<1>5. Len(sums) \in Nat
  BY DEF WorkInvariant
<1>6. work' \in Seq(JobSet) /\ Flat(JobMap, work') = Flat(JobMap, work) /\ Balanced(work', Len(sums), 1)
  BY <1>1, <1>4, <1>5, Replaced DEF WorkInvariant
<1>7. Flow(sums', work') = Flow(sums, work) /\ Middle' = Middle
  BY <1>1, <1>6 DEF Flow, Middle
<1>. QED
  BY <1>1, <1>6, <1>7 DEF WorkInvariant

LEMMA RepliesKeepsWork ==
  ASSUME WorkInvariant, IsConversation(request), NEW empty \in BOOLEAN, Replies(empty)
  PROVE  WorkInvariant'
<1> DEFINE told == IF empty THEN <<>> ELSE Pieces(Rendered(Job.texts))
           made == Flat(SumMap, sums)
           rest == Flat(JobMap, Tail(work))
<1>1. /\ work # <<>> /\ Job.do \in {"incremental", "middle"} /\ work' = Tail(work)
      /\ UNCHANGED <<request, plan>>
      /\ lost' = lost \union (Told(Job.texts) \ ToSet(told))
      /\ sums' = IF Job.do = "incremental" THEN Append(Front(sums), Updated(Existing, told))
                 ELSE Append(sums, Updated(Existing, told))
  BY DEF Replies, Sendable, AttemptLeft, Calling
<1>2. /\ Job \in JobSet /\ Job = work[1] /\ Tail(work) \in Seq(JobSet)
      /\ Flat(JobMap, work) = Pieces(Job.texts) \o rest
      /\ sums \in Seq(SummarySet) /\ work \in Seq(JobSet) /\ Balanced(work, Len(sums), 1)
  BY <1>1, FirstAndRest DEF WorkInvariant, Job
<1>3. Job.texts \in Seq(TextSet(Piece)) /\ Len(sums) \in Nat
  BY <1>2 DEF JobSet, AnyJob
<1>4. told \in {<<>>, Pieces(Rendered(Job.texts))}
  OBVIOUS
<1> HIDE DEF told
<1>5. PICK d \in Seq(Piece) : told \in Seq(Piece) /\ Pieces(Job.texts) = told \o d
  BY <1>3, <1>4, ToldAndLost
<1>6. PICK b \in Nat : Leaves(Job, Len(sums), b) /\ Balanced(Tail(work), b, 1)
  BY <1>1, <1>2, <1>3, BalancedAfterFirst
<1>7. ToldMore(sums, sums', told, b)
  <2>1. CASE Job.do = "incremental"
    <3>1. Len(sums) >= 1 /\ b = Len(sums)
      BY <1>6, <2>1 DEF Leaves
    <3>. QED
      BY <1>1, <1>2, <1>5, <2>1, <3>1, LastToldMore DEF Existing
  <2>2. CASE Job.do = "middle"
    <3>1. b = Len(sums) + 1
      BY <1>6, <2>2 DEF Leaves
    <3>. QED
      BY <1>1, <1>2, <1>5, <2>2, <3>1, NewToldMore DEF Existing
  <2>. QED
    BY <1>1, <2>1, <2>2
<1>8. made \in Seq(Piece) /\ rest \in Seq(Piece)
  BY <1>2, FlatOfSums, FlatOfJobs
<1>9. Flow(sums, work) = made \o ((told \o d) \o rest)
  BY <1>2, <1>5 DEF Flow
<1> HIDE DEF made, rest
<1>10. /\ Ordered(request, made \o (told \o rest))
       /\ ToSet(made \o (told \o rest)) = ToSet(Flow(sums, work)) \ ToSet(d)
       /\ ToSet(d) \intersect ToSet(told) = {}
  <2>1. Ordered(request, made \o ((told \o d) \o rest))
    BY <1>9 DEF WorkInvariant
  <2>2. /\ Ordered(request, made \o (told \o rest))
        /\ ToSet(made \o (told \o rest)) = ToSet(made \o ((told \o d) \o rest)) \ ToSet(d)
        /\ ToSet(d) \intersect ToSet(told) = {}
    BY <1>5, <1>8, <2>1, LeftOut
  <2>. QED
    BY <1>9, <2>2
<1>11. Flow(sums', work') = made \o (told \o rest)
  <2>1. Flow(sums', work') = (made \o told) \o rest
    BY <1>1, <1>7 DEF Flow, ToldMore, made, rest
  <2>2. \A x, y, z \in Seq(Piece) : (x \o y) \o z = x \o (y \o z)
    BY ConcatAssociative
  <2>3. (made \o told) \o rest = made \o (told \o rest)
    BY <1>5, <1>8, <2>2, Zenon
  <2>. QED
    BY <2>1, <2>3
<1>12. lost' = lost \union ToSet(d)
  <2>1. Told(Job.texts) = ToSet(told) \union ToSet(d)
    BY <1>5, MembersOfBoth DEF Told
  <2>. QED
    BY <1>1, <1>10, <2>1
<1>13. ToSet(Flow(sums', work')) = Middle' \ lost'
  <2>1. Middle' = Middle
    BY <1>1 DEF Middle
  <2>2. ToSet(Flow(sums, work)) = Middle \ lost
    BY DEF WorkInvariant
  <2>. QED
    BY <1>10, <1>11, <1>12, <2>1, <2>2
<1>. QED
  BY <1>1, <1>2, <1>6, <1>7, <1>10, <1>11, <1>13 DEF WorkInvariant, ToldMore

-----------------------------------------------------------------------------
(* Partial summaries are merged.                                           *)

LEMMA PartialsKeep ==
  ASSUME NEW ss \in Seq(SummarySet), NEW n \in 1 .. Len(ss), NEW partials,
         partials = [i \in 1 .. n |-> [pieces |-> Final(ss, n)[i].pieces, size |-> SummarySize]]
  PROVE  /\ First(ss, Len(ss) - n) \in Seq(SummarySet) /\ Len(First(ss, Len(ss) - n)) = Len(ss) - n
         /\ partials \in Seq(TextSet(Piece))
         /\ Flat(SumMap, ss) = Flat(SumMap, First(ss, Len(ss) - n)) \o Pieces(partials)
<1> DEFINE k == Len(ss) - n
           first == First(ss, k)
           final == Final(ss, n)
<1>1. k \in 0 .. Len(ss) /\ Len(ss) - k = n /\ n \in Nat
  OBVIOUS
<1>2. /\ first \in Seq(SummarySet) /\ final \in Seq(SummarySet) /\ Len(first) = k /\ Len(final) = n
      /\ ss = first \o final
  <2>2. first = First(ss, k) /\ final = Final(ss, n)
    OBVIOUS
  <2> HIDE DEF k, first, final
  <2>1. /\ First(ss, k) \in Seq(SummarySet) /\ Final(ss, Len(ss) - k) \in Seq(SummarySet)
        /\ Len(First(ss, k)) = k /\ Len(Final(ss, Len(ss) - k)) = Len(ss) - k
        /\ ss = First(ss, k) \o Final(ss, Len(ss) - k)
    BY <1>1, TwoParts
  <2>. QED
    BY <1>1, <2>1, <2>2
<1> HIDE DEF k, first, final
<1>3. \A i \in 1 .. n : final[i] \in SummarySet
  BY <1>2
<1>4. SummarySize \in Nat
  BY SizeAssumption
<1>5. \A i \in 1 .. n : [pieces |-> final[i].pieces, size |-> SummarySize] \in TextSet(Piece)
  BY <1>3, <1>4 DEF SummarySet, TextSet
<1>6. partials = [i \in 1 .. n |-> [pieces |-> final[i].pieces, size |-> SummarySize]]
  BY DEF final
<1>7. partials \in Seq(TextSet(Piece)) /\ DOMAIN partials = 1 .. n /\ DOMAIN final = 1 .. n
  <2>1. partials \in Seq(TextSet(Piece))
    <3> HIDE DEF TextSet
    <3>. QED
      BY <1>1, <1>5, <1>6
  <2>2. DOMAIN final = 1 .. n
    BY <1>2
  <2>. QED
    BY <1>6, <2>1, <2>2
<1>8. \A i \in 1 .. n : PieceMap(Piece)[partials[i]] = SumMap[final[i]]
  <2> TAKE i \in 1 .. n
  <2>1. partials[i] = [pieces |-> final[i].pieces, size |-> SummarySize]
    BY <1>6
  <2>2. partials[i] \in TextSet(Piece) /\ partials[i].pieces = final[i].pieces
    BY <1>5, <2>1
  <2>. QED
    BY <1>3, <2>2, PieceMapIs, SumMapIs
<1>9. Mapped(PieceMap(Piece), partials) = Mapped(SumMap, final)
  BY <1>7, <1>8 DEF Mapped
<1>10. Pieces(partials) = Flat(SumMap, final)
  BY <1>7, <1>9, PiecesAreFlat DEF Flat
<1>11. Flat(SumMap, first \o final) = Flat(SumMap, first) \o Flat(SumMap, final)
  BY <1>2, FlatOfSums
<1>. QED
  BY <1>2, <1>7, <1>10, <1>11 DEF first, k

LEMMA MergeKeepsWork ==
  ASSUME WorkInvariant, MergePartials
  PROVE  WorkInvariant'
<1> DEFINE n == Job.parts
           partials == [i \in 1 .. n |-> [pieces |-> Final(sums, n)[i].pieces, size |-> SummarySize]]
           merged == Call("middle", partials, Job.attempt)
           rest == Tail(work)
           flat == Flat(JobMap, rest)
<1>1. /\ work # <<>> /\ Job.do = "merge" /\ UNCHANGED <<request, plan, lost>>
      /\ IF n = 1 THEN sums' = sums /\ work' = rest
         ELSE sums' = First(sums, Len(sums) - n) /\ work' = <<merged>> \o rest
  BY DEF MergePartials, Calling
<1>2. /\ Job \in JobSet /\ Job = work[1] /\ rest \in Seq(JobSet)
      /\ Flat(JobMap, work) = Pieces(Job.texts) \o flat
      /\ sums \in Seq(SummarySet) /\ work \in Seq(JobSet) /\ Balanced(work, Len(sums), 1)
  BY <1>1, FirstAndRest DEF WorkInvariant, Job
<1>3. n \in Nat /\ Job.attempt \in Nat /\ Len(sums) \in Nat
  BY <1>2 DEF JobSet, AnyJob
<1>4. PICK b \in Nat : Leaves(Job, Len(sums), b) /\ Balanced(rest, b, 1)
  BY <1>1, <1>2, <1>3, BalancedAfterFirst
<1>5. n >= 1 /\ n <= Len(sums) /\ b = Len(sums) - n + 1
  BY <1>1, <1>4 DEF Leaves
<1>6. Middle' = Middle
  BY <1>1 DEF Middle
<1> HIDE DEF rest, flat
<1>7. flat \in Seq(Piece)
  BY <1>2, FlatOfJobs DEF flat
<1>10. Balanced(rest, b, 1)
  BY <1>4
<1>8. CASE n = 1
  <2>1. Flat(JobMap, work) = flat
    <3>1. Pieces(Job.texts) = <<>>
      BY <1>1, <1>2, PiecesOfNothing DEF JobSet
    <3>. QED
      BY <1>2, <1>7, <3>1
  <2>2. Flow(sums', work') = Flow(sums, work)
    BY <1>1, <1>8, <2>1 DEF Flow, flat
  <2>3. b = Len(sums')
    BY <1>1, <1>3, <1>5, <1>8
  <2>. QED
    BY <1>1, <1>2, <1>6, <1>8, <1>10, <2>2, <2>3 DEF WorkInvariant
<1>9. CASE n # 1
  <2> HIDE DEF partials
  <2> DEFINE first == First(sums, Len(sums) - n)
  <2>1. /\ first \in Seq(SummarySet) /\ Len(first) = Len(sums) - n
        /\ partials \in Seq(TextSet(Piece))
        /\ Flat(SumMap, sums) = Flat(SumMap, first) \o Pieces(partials)
    <3>1. n \in 1 .. Len(sums)
      BY <1>3, <1>5
    <3>. QED
      BY <1>2, <3>1, PartialsKeep DEF partials
  <2>2. merged \in JobSet /\ merged.do = "middle" /\ merged.texts = partials
    BY <1>3, <2>1 DEF Call, JobSet, AnyJob
  <2>3. sums' = first /\ work' = <<merged>> \o rest
    BY <1>1, <1>9
  <2> HIDE DEF merged, first
  <2>4. <<merged>> \in Seq(JobSet) /\ <<merged>> \o rest \in Seq(JobSet)
    BY <1>2, <2>2
  <2>5. Flat(JobMap, <<merged>> \o rest) = Pieces(partials) \o flat
    BY <1>2, <2>2, <2>4, FlatOfJobs, FlatOfOneJob DEF flat
  <2>6. Flat(SumMap, first) \in Seq(Piece) /\ Pieces(partials) \in Seq(Piece)
    BY <2>1, FlatOfSums, PiecesAreList
  <2>7. Flow(sums', work') = Flow(sums, work)
    <3>1. \A x, y, z \in Seq(Piece) : (x \o y) \o z = x \o (y \o z)
      BY ConcatAssociative
    <3>2. (Flat(SumMap, first) \o Pieces(partials)) \o flat = Flat(SumMap, first) \o (Pieces(partials) \o flat)
      BY <1>7, <2>6, <3>1, Zenon
    <3>3. Flat(JobMap, work) = flat
      <4>1. Pieces(Job.texts) = <<>>
        BY <1>1, <1>2, PiecesOfNothing DEF JobSet
      <4>. QED
        BY <1>2, <1>7, <4>1
    <3>. QED
      BY <2>1, <2>3, <2>5, <3>2, <3>3 DEF Flow
  <2>8. Balanced(work', Len(sums'), 1)
    <3>1. Len(sums') \in Nat /\ b \in Nat /\ b = Len(sums') + 1
      BY <1>3, <1>5, <2>1, <2>3
    <3>2. Leaves(merged, Len(sums'), b)
      BY <2>2, <3>1 DEF Leaves
    <3>3. Balanced(<<merged>>, Len(sums'), b)
      BY <3>1, <3>2, BalancedOfOne
    <3>. QED
      BY <1>2, <1>10, <2>3, <2>4, <3>1, <3>3, BalancedOfBoth
  <2>. QED
    BY <1>1, <1>6, <2>1, <2>3, <2>4, <2>7, <2>8 DEF WorkInvariant
<1>. QED
  BY <1>8, <1>9

-----------------------------------------------------------------------------
(* The invariant.                                                          *)

LEMMA DecideStartsWork ==
  ASSUME request \in Conversations, sums = <<>>, lost = {}, Decide, phase' = "work"
  PROVE  WorkInvariant' /\ request' = request
<1> DEFINE mid == MiddleOf(request, plan')
           ts == TextsOf(mid)
<1>1. /\ plan' = ShouldSummarise(request, threshold) /\ plan'.should
      /\ \/ work' = <<Call("incremental", ts, 0)>> /\ sums' = <<NoSummary>>
         \/ work' = <<Call("middle", ts, 0)>> /\ sums' = <<>>
      /\ request' = request /\ lost' = {}
  BY DEF Decide, Unchanged
<1>2. IsConversation(request)
  BY ConversationsAssumption DEF IsConversation, MessageSet
<1>3. plan'.head \in Nat /\ plan'.tail \in Nat /\ plan'.pinned \in Nat
  BY <1>1, <1>2, PlanHasNumbers
<1>4. mid \in Seq(MessageSet) /\ Ordered(request, Pieces(ts))
  BY <1>2, <1>3, MiddleIsOrdered
<1>5. Middle' = ToSet(Pieces(ts))
  BY <1>1 DEF Middle, Told
<1> HIDE DEF mid
<1>6. ts \in Seq(TextSet(Piece)) /\ Pieces(ts) \in Seq(Piece)
  BY <1>4, TextsOfBoth
<1> HIDE DEF ts
<1>7. ASSUME NEW d \in {"incremental", "middle"}, NEW ss \in Seq(SummarySet), Flat(SumMap, ss) = <<>>,
             work' = <<Call(d, ts, 0)>>, sums' = ss, Leaves(Call(d, ts, 0), Len(ss), 1)
      PROVE  WorkInvariant'
  <2> DEFINE job == Call(d, ts, 0)
  <2>1. job \in JobSet /\ job.texts = ts
    BY <1>6 DEF Call, JobSet, AnyJob
  <2>2. Len(ss) \in Nat
    OBVIOUS
  <2>3. Balanced(<<job>>, Len(ss), 1)
    BY <1>7, <2>2, BalancedOfOne
  <2> HIDE DEF job
  <2>4. Flat(JobMap, <<job>>) = Pieces(ts) /\ <<job>> \in Seq(JobSet)
    BY <2>1, FlatOfOneJob
  <2>5. Flow(ss, <<job>>) = Pieces(ts)
    BY <1>6, <1>7, <2>4 DEF Flow
  <2>6. work' = <<job>>
    BY <1>7 DEF job
  <2>. QED
    BY <1>1, <1>4, <1>5, <1>7, <2>3, <2>4, <2>5, <2>6 DEF WorkInvariant
<1>8. CASE work' = <<Call("incremental", ts, 0)>> /\ sums' = <<NoSummary>>
  <2>1. NoSummary \in SummarySet /\ NoSummary.pieces = <<>>
    BY DEF NoSummary, SummarySet
  <2>2. <<NoSummary>> \in Seq(SummarySet) /\ Len(<<NoSummary>>) = 1 /\ Flat(SumMap, <<NoSummary>>) = <<>>
    BY <2>1, FlatOfOneSum
  <2>3. Leaves(Call("incremental", ts, 0), 1, 1)
    BY DEF Leaves, Call
  <2>. QED
    BY <1>1, <1>7, <1>8, <2>2, <2>3
<1>9. CASE work' = <<Call("middle", ts, 0)>> /\ sums' = <<>>
  <2>1. <<>> \in Seq(SummarySet) /\ Len(<<>>) = 0 /\ Flat(SumMap, <<>>) = <<>>
    BY FlatOfNothing
  <2>2. Leaves(Call("middle", ts, 0), 0, 1)
    BY DEF Leaves, Call
  <2>. QED
    BY <1>1, <1>7, <1>9, <2>1, <2>2
<1>. QED
  BY <1>1, <1>8, <1>9

LEMMA NothingLeftIsExact ==
  ASSUME WorkInvariant, work = <<>>
  PROVE  /\ Len(sums) = 1
         /\ \A i \in 1 .. Len(Summary) - 1 : Before(Summary[i], Summary[i + 1])
         /\ ToSet(Summary) = Middle \ lost
<1>1. sums \in Seq(SummarySet) /\ Len(sums) \in Nat /\ Balanced(<<>>, Len(sums), 1)
  BY DEF WorkInvariant
<1>2. Len(sums) = 1
  BY <1>1, BalancedOfNothing
<1>3. sums = <<sums[1]>> /\ sums[1] \in SummarySet /\ Last(sums) = sums[1]
  BY <1>1, <1>2 DEF Last
<1>4. Summary \in Seq(Piece) /\ Flat(SumMap, sums) = Summary
  <2>1. Flat(SumMap, <<sums[1]>>) = sums[1].pieces
    BY <1>3, FlatOfOneSum
  <2>2. sums[1].pieces \in Seq(Piece)
    BY <1>3 DEF SummarySet
  <2>. QED
    BY <1>3, <2>1, <2>2 DEF Summary
<1>5. Flow(sums, work) = Summary
  BY <1>4, FlatOfNothing DEF Flow
<1>6. Ordered(request, Summary) /\ ToSet(Summary) = Middle \ lost
  BY <1>5 DEF WorkInvariant
<1>7. ASSUME NEW i \in 1 .. Len(Summary) - 1 PROVE Before(Summary[i], Summary[i + 1])
  <2>1. i \in DOMAIN Summary /\ i + 1 \in DOMAIN Summary /\ i < i + 1
    BY <1>4
  <2>. QED
    BY <1>6, <2>1 DEF Ordered, Earlier, Before
<1>. QED
  BY <1>2, <1>6, <1>7

-----------------------------------------------------------------------------

SummaryInvariant ==
  /\ request \in Conversations
  /\ phase = "decide" => sums = <<>> /\ lost = {}
  /\ phase = "work" => WorkInvariant
  /\ SummaryExact

LEMMA SummaryStep ==
  ASSUME SummaryInvariant, Next
  PROVE  SummaryInvariant'
<1>1. IsConversation(request)
  BY ConversationsAssumption DEF SummaryInvariant, IsConversation, MessageSet
<1>2. ASSUME phase' = "failed", request' = request PROVE SummaryInvariant'
  BY <1>2 DEF SummaryInvariant, SummaryExact, Summarized
<1>3. ASSUME phase' = "work", request' = request, WorkInvariant' PROVE SummaryInvariant'
  BY <1>3 DEF SummaryInvariant, SummaryExact, Summarized
<1>4. CASE Decide
  <2>1. CASE phase' = "work"
    BY <1>3, <1>4, <2>1, DecideStartsWork DEF SummaryInvariant, Decide
  <2>2. CASE phase' = "failed"
    BY <1>2, <1>4, <2>2 DEF Decide, Unchanged
  <2>3. CASE phase' = "done"
    BY <1>4, <2>3 DEF SummaryInvariant, Decide, Unchanged, SummaryExact, Summarized
  <2>. QED
    BY <1>4, <2>1, <2>2, <2>3 DEF Decide, Unchanged
<1>5. CASE Exhausted \/ FailsFatally
  BY <1>2, <1>5 DEF Exhausted, FailsFatally, Unchanged
<1>6. ASSUME Calling({"incremental", "middle"}), NEW ctx \in Nat \ {0}, Retry(ctx) PROVE SummaryInvariant'
  <2>1. phase = "work" /\ work # <<>> /\ Job.do \in {"incremental", "middle"} /\ WorkInvariant
    BY <1>6 DEF Calling, SummaryInvariant
  <2>2. request' = request /\ (phase' = "failed" \/ phase' = "work")
    BY <1>6, <2>1 DEF Retry, Unchanged
  <2>3. ASSUME phase' # "failed" PROVE WorkInvariant'
    BY <1>6, <2>1, <2>3, RetryKeepsWork
  <2>. QED
    BY <1>2, <1>3, <2>2, <2>3
<1>7. CASE Prechunk \/ Overflows \/ HttpFails
  <2>1. FullCtx \in Nat \ {0} /\ HalfCtx \in Nat \ {0}
    BY SizeAssumption
  <2>. QED
    BY <1>6, <1>7, <2>1 DEF Prechunk, Overflows, HttpFails, Sendable, AttemptLeft
<1>8. ASSUME NEW empty \in BOOLEAN, Replies(empty) PROVE SummaryInvariant'
  <2>1. phase = "work" /\ phase' = "work" /\ request' = request
    BY <1>8 DEF Replies, Sendable, AttemptLeft, Calling
  <2>2. WorkInvariant'
    BY <1>1, <1>8, <2>1, RepliesKeepsWork DEF SummaryInvariant
  <2>. QED
    BY <1>3, <2>1, <2>2
<1>9. CASE MergePartials
  <2>1. phase = "work" /\ phase' = "work" /\ request' = request
    BY <1>9 DEF MergePartials, Calling
  <2>2. WorkInvariant'
    BY <1>9, <2>1, MergeKeepsWork DEF SummaryInvariant
  <2>. QED
    BY <1>3, <2>1, <2>2
<1>10. CASE Repack
  <2>1. phase = "work" /\ work = <<>> /\ phase' = "done" /\ UNCHANGED <<request, plan, sums, lost>>
    BY <1>10 DEF Repack
  <2>2. /\ Len(sums) = 1
        /\ \A i \in 1 .. Len(Summary) - 1 : Before(Summary[i], Summary[i + 1])
        /\ ToSet(Summary) = Middle \ lost
    BY <2>1, NothingLeftIsExact DEF SummaryInvariant
  <2>3. SummaryExact'
    BY <2>1, <2>2 DEF SummaryExact, Summary, Before, Middle
  <2>. QED
    BY <2>1, <2>3 DEF SummaryInvariant
<1>. QED
  BY <1>4, <1>5, <1>7, <1>8, <1>9, <1>10 DEF Next

LEMMA SummaryInit ==
  Init => SummaryInvariant
BY DEF Init, SummaryInvariant, SummaryExact, Summarized

\* At every step of summarize_incremental the summaries made and the texts left
\* have, once and in order, what of the middle is not lost, and the calls left
\* end with one summary (_summarize_with_forced_chunking, _merge_partials).
THEOREM SummaryAlways ==
  Spec => []SummaryInvariant
<1>1. SummaryInvariant /\ [Next]_vars => SummaryInvariant'
  <2>1. ASSUME SummaryInvariant, UNCHANGED vars PROVE SummaryInvariant'
    BY <2>1 DEF SummaryInvariant, SummaryExact, Summarized, WorkInvariant, Flow, Middle, Summary, Before, vars
  <2>. QED
    BY <2>1, SummaryStep
<1>. QED
  BY <1>1, SummaryInit, PTL DEF Spec

\* However often a middle is split, retried and merged, the summary put in its
\* place has every piece of it once and in order, but those that the cap of the
\* rendered transcript cut off or an empty answer swallowed.
THEOREM SummaryIsExact ==
  Spec => []SummaryExact
<1>1. SummaryInvariant => SummaryExact
  BY DEF SummaryInvariant
<1>. QED
  BY <1>1, SummaryAlways, PTL

-----------------------------------------------------------------------------
(* What a retry replaces a call by.                                        *)

LEMMA RetryReplaces ==
  ASSUME WorkInvariant, work # <<>>, Job.do \in {"incremental", "middle"}, phase = "work",
         NEW ctx \in Nat \ {0}, Retry(ctx), Rendered(Job.texts) = Job.texts
  PROVE  ReplacedBySmaller
<1> DEFINE ts == Job.texts
           chunks == Normalize(ts, Chunks(Existing, ts, ctx))
           w == Chunked(chunks)
           n == Len(chunks)
<1>1. work \in Seq(JobSet) /\ Job = work[1] /\ ts \in Seq(TextSet(Piece)) /\ Len(work) \in Nat /\ Len(work) > 0
  <2>1. work \in Seq(JobSet) /\ work[1] \in JobSet
    BY FirstAndRest DEF WorkInvariant
  <2>. QED
    BY <2>1 DEF Job, JobSet, AnyJob
<1>2. CASE phase' = "failed"
  <2>1. chunks = <<>> /\ work' = <<>>
    BY <1>2 DEF Retry, Unchanged
  <2>2. \A i \in 1 .. (Len(work') - Len(work) + 1) : FALSE
    BY <1>1, <2>1
  <2>. QED
    BY <2>2 DEF ReplacedBySmaller
<1>3. CASE phase' # "failed"
  <2>1. chunks # <<>> /\ work' = w \o Tail(work)
    BY <1>3 DEF Retry, Unchanged
  <2>2. chunks \in Seq(Seq(TextSet(Piece)))
    BY <1>1, <2>1, RetryKeeps DEF SameTexts
  <2>3. AllSmaller(chunks, ts)
    BY <1>1, RetryIsSmaller
  <2> HIDE DEF chunks
  <2>4. n \in Nat /\ DOMAIN chunks = 1 .. n
    BY <2>2
  <2>5. InPlaceOf(work[1], w)
    <3>1. SameTexts(Piece, ts, chunks) /\ work[1] \in JobSet
      BY <1>1, <2>1, RetryKeeps, FirstAndRest DEF chunks
    <3>. QED
      BY <1>1, <2>1, <3>1, ChunkedInPlace
  <2>6. w \in Seq(JobSet) /\ Len(w) \in Nat /\ Tail(work) \in Seq(JobSet) /\ Len(Tail(work)) = Len(work) - 1
    BY <1>1, <2>5 DEF InPlaceOf
  <2>7. ASSUME NEW i \in 1 .. Len(w) PROVE w[i].do # "merge" => Smaller(w[i].texts, ts)
    <3> DEFINE calls == [k \in DOMAIN chunks |-> Call(Job.do, chunks[k], Job.attempt + 1)]
               last == [do |-> "merge", texts |-> <<>>, attempt |-> Job.attempt + 1, parts |-> n]
    <3>1. w = IF Job.do = "incremental" THEN calls ELSE Append(calls, last)
      BY DEF Chunked
    <3>2. Len(calls) = n /\ \A k \in 1 .. n : calls[k].texts = chunks[k]
      BY <2>4 DEF Call
    <3>3. \A k \in 1 .. n : Smaller(calls[k].texts, ts)
      BY <2>3, <2>4, <3>2 DEF AllSmaller
    <3>4. last.do = "merge"
      OBVIOUS
    <3>5. \E S : calls \in Seq(S)
      <4>1. calls \in Seq({calls[k] : k \in 1 .. n})
        BY <2>4
      <4>. QED
        BY <4>1
    <3> HIDE DEF calls, last, w
    <3>6. CASE Job.do = "incremental"
      BY <3>1, <3>2, <3>3, <3>6
    <3>7. CASE Job.do # "incremental"
      <4>1. Len(Append(calls, last)) = n + 1 /\ \A k \in 1 .. n + 1 : Append(calls, last)[k] = IF k = n + 1 THEN last ELSE calls[k]
        BY <2>4, <3>2, <3>5
      <4>2. i \in 1 .. n + 1 /\ w[i] = IF i = n + 1 THEN last ELSE calls[i]
        BY <3>1, <3>7, <4>1
      <4>3. i # n + 1 => i \in 1 .. n
        BY <2>4, <4>2
      <4>. QED
        BY <3>3, <3>4, <4>2, <4>3
    <3>. QED
      BY <3>6, <3>7
  <2> HIDE DEF w, n, ts
  <2>8. Len(work') = Len(w) + Len(Tail(work)) /\ \A i \in 1 .. Len(w) : work'[i] = w[i]
    <3>1. w \in Seq(JobSet) /\ Tail(work) \in Seq(JobSet)
      BY <2>6
    <3>2. Len(w \o Tail(work)) = Len(w) + Len(Tail(work)) /\ \A i \in 1 .. Len(w) : (w \o Tail(work))[i] = w[i]
      BY <3>1
    <3>. QED
      BY <2>1, <3>2
  <2>9. Len(work') - Len(work) + 1 = Len(w)
    BY <1>1, <2>6, <2>8
  <2>10. \A i \in 1 .. Len(w) : work'[i].do # "merge" => Smaller(work'[i].texts, ts)
    BY <2>7, <2>8
  <2>. QED
    BY <2>9, <2>10 DEF ReplacedBySmaller, ts
<1>. QED
  BY <1>2, <1>3

LEMMA StepReplaces ==
  ASSUME SummaryInvariant, Next, Calling({"incremental", "middle"}), Rendered(Job.texts) = Job.texts
  PROVE  ReplacedBySmaller
<1>1. phase = "work" /\ work # <<>> /\ Job.do \in {"incremental", "middle"} /\ WorkInvariant
  BY DEF Calling, SummaryInvariant
<1>2. work \in Seq(JobSet) /\ Len(work) \in Nat /\ Len(work) > 0
  BY <1>1 DEF WorkInvariant
<1>3. ASSUME Len(work') < Len(work), Len(work') \in Nat PROVE ReplacedBySmaller
  <2>1. \A i \in 1 .. (Len(work') - Len(work) + 1) : FALSE
    BY <1>2, <1>3
  <2>. QED
    BY <2>1 DEF ReplacedBySmaller
<1>4. CASE Exhausted \/ FailsFatally
  <2>1. work' = <<>>
    BY <1>4 DEF Exhausted, FailsFatally, Unchanged
  <2>. QED
    BY <1>2, <1>3, <2>1
<1>5. CASE \E empty \in BOOLEAN : Replies(empty)
  <2>1. work' = Tail(work)
    BY <1>5 DEF Replies
  <2>2. Len(work') = Len(work) - 1
    BY <1>1, <1>2, <2>1
  <2>. QED
    BY <1>2, <1>3, <2>2
<1>6. CASE Prechunk \/ Overflows \/ HttpFails
  <2>1. FullCtx \in Nat \ {0} /\ HalfCtx \in Nat \ {0}
    BY SizeAssumption
  <2>2. \E ctx \in {FullCtx, HalfCtx} : Retry(ctx)
    BY <1>6 DEF Prechunk, Overflows, HttpFails
  <2>. QED
    BY <1>1, <2>1, <2>2, RetryReplaces
<1>7. ~Decide /\ ~Repack /\ ~MergePartials
  BY <1>1 DEF Decide, Repack, MergePartials, Calling
<1>. QED
  BY <1>4, <1>5, <1>6, <1>7 DEF Next

\* A call that overflows, fails or is split before it is sent is replaced by
\* calls of fewer texts or tokens, wherever its transcript shows all of them
\* (_chunk_messages_for_summary, _normalize_retry_chunks).
THEOREM RetriesShrink == Spec => RetryShrinks
<1> DEFINE Shrinks == Calling({"incremental", "middle"}) /\ Rendered(Job.texts) = Job.texts => ReplacedBySmaller
<1>1. SummaryInvariant /\ [Next]_vars => [Shrinks]_vars
  BY StepReplaces
<1>2. Spec => [][Shrinks]_vars
  BY <1>1, SummaryAlways, PTL DEF Spec
<1>. QED
  BY <1>2 DEF RetryShrinks
===============================================================================
