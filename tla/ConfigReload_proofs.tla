------------------------- MODULE ConfigReload_proofs -------------------------
(* The configuration for every set of texts, tables of any length and any  *)
(* inheritance: what a reload makes live is one text, whole and validated; *)
(* a setting is inherited from the nearest ancestor that gives it; and a   *)
(* request is let in as the live text says.                                *)
(*                                                                         *)
(* The first part is about the table of routes.  Both the values a route   *)
(* has (Resolved) and the list of its ancestors (Ancestry) are defined by  *)
(* recursion on the names not yet visited; they are compared for every set *)
(* of visited names, the largest first.                                    *)
EXTENDS ConfigReload, FiniteSetTheorems, SequenceTheorems, WellFoundedInduction, TLAPS

\* A set of naturals that is not empty has a least element.
LEMMA LeastNumber ==
  ASSUME NEW T \in SUBSET Nat, T # {}
  PROVE  \E x \in T : \A y \in T : x <= y
<1>1. PICK x \in T : \A y \in T : ~(<<y, x>> \in OpToRel(<, Nat))
  BY WFMin, NatLessThanWellFounded, ZenonT(60)
<1>2. \A y \in T : ~(y < x)
  BY <1>1, Zenon DEF OpToRel
<1>. QED
  BY <1>2

\* What a loop has computed after each of its rounds 1 .. N.
Results(N, V, init, step, f) ==
  f \in [0 .. N -> V] /\ f[0] = init /\ \A k \in 1 .. N : f[k] = step[k][f[k - 1]]

LEMMA LoopHasResults ==
  ASSUME NEW N \in Nat, NEW V, NEW init \in V, NEW step \in [1 .. N -> [V -> V]]
  PROVE  \E f : Results(N, V, init, step, f)
<1> DEFINE Upto(n, f) == f \in [0 .. n -> V] /\ f[0] = init /\ \A k \in 1 .. n : f[k] = step[k][f[k - 1]]
           T == {n \in Nat : n <= N /\ ~\E f : Upto(n, f)}
<1>1. ASSUME T # {} PROVE FALSE
  <2>1. PICK n \in T : \A y \in T : n <= y
    <3> HIDE DEF T
    <3>1. T \in SUBSET Nat
      BY DEF T
    <3>. QED
      BY <1>1, <3>1, LeastNumber
  <2>2. CASE n = 0
    <3>1. Upto(0, [k \in 0 .. 0 |-> init])
      OBVIOUS
    <3>. QED
      BY <2>1, <2>2, <3>1
  <2>3. CASE n # 0
    <3>1. n - 1 \in Nat /\ n - 1 \notin T /\ n - 1 <= N /\ n \in 1 .. N
      <4>1. n \in Nat /\ n <= N
        BY <2>1
      <4> HIDE DEF T
      <4>. QED
        BY <2>1, <2>3, <4>1
    <3>2. PICK f : Upto(n - 1, f)
      BY <3>1
    <3> DEFINE last == step[n][f[n - 1]]
               g == [k \in 0 .. n |-> IF k = n THEN last ELSE f[k]]
    <3>3. last \in V
      BY <3>1, <3>2
    <3> HIDE DEF last
    <3>4. g \in [0 .. n -> V] /\ g[0] = init
      BY <3>1, <3>2, <3>3
    <3>5. \A k \in 1 .. n : g[k] = step[k][g[k - 1]]
      <4> TAKE k \in 1 .. n
      <4>1. CASE k = n
        <5>1. g[k] = last /\ g[k - 1] = f[k - 1]
          BY <3>1, <4>1
        <5>. QED
          BY <4>1, <5>1 DEF last
      <4>2. CASE k # n
        <5>1. k \in 1 .. n - 1 /\ g[k] = f[k] /\ g[k - 1] = f[k - 1]
          BY <3>1, <4>2
        <5>. QED
          BY <3>2, <5>1
      <4>. QED
        BY <4>1, <4>2
    <3>. QED
      BY <2>1, <3>4, <3>5
  <2>. QED
    BY <2>2, <2>3
<1>2. N \notin T
  BY <1>1
<1>. QED
  BY <1>2 DEF Results

\* What every round of a loop keeps holds after each of them.
Stays(N, V, f) == f[0] \in V /\ \A k \in 1 .. N : f[k - 1] \in V => f[k] \in V

LEMMA LoopStays ==
  ASSUME NEW N \in Nat, NEW V, NEW f, Stays(N, V, f)
  PROVE  \A k \in 0 .. N : f[k] \in V
<1> DEFINE T == {k \in Nat : k <= N /\ f[k] \notin V}
<1>1. ASSUME T # {} PROVE FALSE
  <2>1. PICK k \in T : \A y \in T : k <= y
    <3> HIDE DEF T
    <3>1. T \in SUBSET Nat
      BY DEF T
    <3>. QED
      BY <1>1, <3>1, LeastNumber
  <2>2. k \in Nat /\ k <= N /\ f[k] \notin V /\ k # 0
    BY <2>1 DEF Stays
  <2>3. k - 1 \in Nat /\ k - 1 \notin T /\ k - 1 <= N /\ k \in 1 .. N
    <3> HIDE DEF T
    <3>. QED
      BY <2>1, <2>2
  <2>. QED
    BY <2>2, <2>3 DEF Stays
<1>. QED
  BY <1>1

-----------------------------------------------------------------------------
(* What a list of routes says of a setting.                                *)

LEMMA SaidAt ==
  ASSUME NEW R, NEW s \in Seq(R), NEW k, NEW i \in 1 .. Len(s), s[i].own[k] # Unset,
         \A j \in 1 .. Len(s) : j < i => s[j].own[k] = Unset
  PROVE  Said(s, k) = s[i].own[k]
<1> DEFINE gives == {j \in DOMAIN s : s[j].own[k] # Unset}
           first == CHOOSE m \in gives : \A j \in gives : m <= j
<1>1. i \in gives /\ \A j \in gives : i <= j
  OBVIOUS
<1>2. \A m \in gives : (\A j \in gives : m <= j) => m = i
  BY <1>1
<1>3. first = i
  <2> HIDE DEF gives
  <2>. QED
    BY <1>1, <1>2, Zenon
<1>. QED
  BY <1>1, <1>3 DEF Said

LEMMA SaidNowhere ==
  ASSUME NEW R, NEW s \in Seq(R), NEW k, \A j \in 1 .. Len(s) : s[j].own[k] = Unset
  PROVE  Said(s, k) = Unset
<1>1. {j \in DOMAIN s : s[j].own[k] # Unset} = {}
  OBVIOUS
<1>. QED
  BY <1>1 DEF Said

\* It is said by some route, before which none gives the setting, or by none.
LEMMA SaidSomewhere ==
  ASSUME NEW R, NEW s \in Seq(R), NEW k
  PROVE  \/ Said(s, k) = Unset /\ \A j \in 1 .. Len(s) : s[j].own[k] = Unset
         \/ \E i \in 1 .. Len(s) : /\ s[i].own[k] # Unset /\ Said(s, k) = s[i].own[k]
                                   /\ \A j \in 1 .. Len(s) : j < i => s[j].own[k] = Unset
<1> DEFINE T == {j \in 1 .. Len(s) : s[j].own[k] # Unset}
<1>1. CASE T = {}
  BY <1>1, SaidNowhere
<1>2. CASE T # {}
  <2>1. PICK i \in T : \A y \in T : i <= y
    <3>1. T \in SUBSET Nat
      OBVIOUS
    <3> HIDE DEF T
    <3>. QED
      BY <1>2, <3>1, LeastNumber
  <2>2. i \in 1 .. Len(s) /\ s[i].own[k] # Unset /\ \A j \in 1 .. Len(s) : j < i => s[j].own[k] = Unset
    BY <2>1
  <2>3. Said(s, k) = s[i].own[k]
    BY <2>2, SaidAt
  <2>. QED
    BY <2>2, <2>3
<1>. QED
  BY <1>1, <1>2

LEMMA SaidByOne == ASSUME NEW r, NEW k PROVE Said(<<r>>, k) = r.own[k]
<1> DEFINE s == <<r>>
<1>1. s \in Seq({r}) /\ Len(s) = 1 /\ s[1] = r /\ \A j \in 1 .. Len(s) : j = 1
  OBVIOUS
<1> HIDE DEF s
<1>2. CASE r.own[k] = Unset
  <2>1. \A j \in 1 .. Len(s) : s[j].own[k] = Unset
    BY <1>1, <1>2
  <2>. QED
    BY <1>1, <1>2, <2>1, SaidNowhere DEF s
<1>3. CASE r.own[k] # Unset
  <2>1. 1 \in 1 .. Len(s) /\ s[1].own[k] # Unset /\ \A j \in 1 .. Len(s) : j < 1 => s[j].own[k] = Unset
    BY <1>1, <1>3
  <2>2. Said(s, k) = s[1].own[k]
    BY <1>1, <2>1, SaidAt
  <2>. QED
    BY <1>1, <2>2 DEF s
<1>. QED
  BY <1>2, <1>3

LEMMA SaidByEither ==
  ASSUME NEW R, NEW s \in Seq(R), NEW t \in Seq(R), NEW k
  PROVE  Said(s \o t, k) = IF Said(s, k) # Unset THEN Said(s, k) ELSE Said(t, k)
<1> DEFINE u == s \o t
<1>1. /\ u \in Seq(R) /\ Len(u) = Len(s) + Len(t) /\ Len(s) \in Nat /\ Len(t) \in Nat
      /\ \A j \in 1 .. Len(s) : u[j] = s[j]
      /\ \A j \in 1 .. Len(t) : u[Len(s) + j] = t[j]
      /\ \A j \in 1 .. Len(u) : j \notin 1 .. Len(s) => j - Len(s) \in 1 .. Len(t) /\ u[j] = t[j - Len(s)]
  OBVIOUS
<1> HIDE DEF u
<1>2. ASSUME NEW i \in 1 .. Len(s), s[i].own[k] # Unset, Said(s, k) = s[i].own[k],
             \A j \in 1 .. Len(s) : j < i => s[j].own[k] = Unset
      PROVE  Said(u, k) = Said(s, k)
  <2>1. i \in 1 .. Len(u) /\ u[i] = s[i]
    BY <1>1
  <2>2. ASSUME NEW j \in 1 .. Len(u), j < i PROVE u[j].own[k] = Unset
    <3>1. j \in 1 .. Len(s) /\ u[j] = s[j]
      BY <1>1, <2>2
    <3>. QED
      BY <1>2, <2>2, <3>1
  <2>3. u[i].own[k] # Unset
    BY <1>2, <2>1
  <2>4. Said(u, k) = u[i].own[k]
    BY <1>1, <2>1, <2>2, <2>3, SaidAt, ZenonT(30)
  <2>. QED
    BY <1>2, <2>1, <2>4
<1>3. ASSUME \A j \in 1 .. Len(s) : s[j].own[k] = Unset
      PROVE  Said(u, k) = Said(t, k)
  <2>1. ASSUME \A j \in 1 .. Len(t) : t[j].own[k] = Unset
        PROVE  Said(u, k) = Unset
    <3>1. \A j \in 1 .. Len(u) : u[j].own[k] = Unset
      BY <1>1, <1>3, <2>1
    <3>. QED
      BY <1>1, <3>1, SaidNowhere
  <2>2. ASSUME NEW i \in 1 .. Len(t), t[i].own[k] # Unset, Said(t, k) = t[i].own[k],
               \A j \in 1 .. Len(t) : j < i => t[j].own[k] = Unset
        PROVE  Said(u, k) = Said(t, k)
    <3> DEFINE m == Len(s) + i
    <3>1. m \in 1 .. Len(u) /\ u[m] = t[i]
      BY <1>1
    <3>2. ASSUME NEW j \in 1 .. Len(u), j < m PROVE u[j].own[k] = Unset
      <4>1. CASE j \in 1 .. Len(s)
        <5>1. u[j] = s[j]
          BY <1>1, <4>1
        <5>. QED
          BY <1>3, <4>1, <5>1
      <4>2. CASE j \notin 1 .. Len(s)
        <5>1. j - Len(s) \in 1 .. Len(t) /\ u[j] = t[j - Len(s)] /\ j - Len(s) < i
          BY <1>1, <3>2, <4>2
        <5>. QED
          BY <2>2, <5>1
      <4>. QED
        BY <4>1, <4>2
    <3>3. u[m].own[k] # Unset
      BY <2>2, <3>1
    <3> HIDE DEF m
    <3>4. m \in 1 .. Len(u) /\ u[m].own[k] # Unset /\ \A j \in 1 .. Len(u) : j < m => u[j].own[k] = Unset
      BY <3>1, <3>2, <3>3
    <3>5. Said(u, k) = u[m].own[k]
      BY <1>1, <3>4, SaidAt, ZenonT(30)
    <3>. QED
      BY <2>2, <3>1, <3>5
  <2>. QED
    BY <2>1, <2>2, SaidSomewhere
<1>. QED
  BY <1>2, <1>3, SaidSomewhere DEF u

-----------------------------------------------------------------------------
(* The loop over the parents of one route.                                 *)

MergedRule(route, above, f) ==
  [k \in 0 .. Len(route.extends) |->
     IF k = 0 THEN route.own
     ELSE IF route.extends[k] \in DOMAIN above
          THEN Merge(route.own, f[k - 1], above[route.extends[k]])
     ELSE f[k - 1]]

LEMMA ListFacts ==
  ASSUME NEW s, IsList(s)
  PROVE  Len(s) \in Nat /\ DOMAIN s = 1 .. Len(s)
BY DEF IsList

LEMMA ParentsMerge ==
  ASSUME NEW route, IsList(route.extends), NEW above
  PROVE  \E f : f = MergedRule(route, above, f) /\ MergeParents(route, above) = f[Len(route.extends)]
<1> DEFINE N == Len(route.extends)
           W == {x[k] : x \in {route.own} \cup {above[n] : n \in DOMAIN above}, k \in Settings}
           V == [Settings -> W] \cup {route.own}
           step == [k \in 1 .. N |-> [m \in V |->
                      IF route.extends[k] \in DOMAIN above
                      THEN Merge(route.own, m, above[route.extends[k]]) ELSE m]]
<1>1. N \in Nat
  BY ListFacts
<1>2. route.own \in V
  OBVIOUS
<1>3. step \in [1 .. N -> [V -> V]]
  <2>1. ASSUME NEW m \in V, NEW n \in DOMAIN above PROVE Merge(route.own, m, above[n]) \in V
    <3>1. \A k \in Settings : route.own[k] \in W /\ above[n][k] \in W
      OBVIOUS
    <3>2. \A k \in Settings : m[k] \in W
      BY <3>1
    <3> HIDE DEF W
    <3>. QED
      BY <3>1, <3>2 DEF Merge
  <2> HIDE DEF V, N
  <2>. QED
    BY <2>1
<1> HIDE DEF N, V, W, step
<1>4. PICK f : Results(N, V, route.own, step, f)
  BY <1>1, <1>2, <1>3, LoopHasResults
<1>5. f = MergedRule(route, above, f)
  <2>1. \A k \in 1 .. N : f[k] = IF route.extends[k] \in DOMAIN above
                                 THEN Merge(route.own, f[k - 1], above[route.extends[k]]) ELSE f[k - 1]
    <3> TAKE k \in 1 .. N
    <3>1. f[k - 1] \in V
      BY <1>1, <1>4 DEF Results
    <3>. QED
      BY <1>4, <3>1 DEF step, Results
  <2>2. f = [k \in 0 .. N |-> f[k]]
    BY <1>4 DEF Results
  <2>3. \A k \in 0 .. N : k = 0 \/ k \in 1 .. N
    BY <1>1
  <2>. QED
    BY <1>4, <2>1, <2>2, <2>3 DEF MergedRule, N, Results
<1> DEFINE g == CHOOSE x : x = MergedRule(route, above, x)
<1>6. g = MergedRule(route, above, g)
  BY <1>5
<1>7. MergeParents(route, above) = g[N]
  BY DEF MergeParents, MergedRule, N
<1>. QED
  BY <1>6, <1>7 DEF N

LineageRule(route, above, f) ==
  [k \in 0 .. Len(route.extends) |->
     IF k = 0 THEN <<>>
     ELSE IF route.extends[k] \in DOMAIN above THEN above[route.extends[k]] \o f[k - 1]
     ELSE f[k - 1]]

LEMMA ParentsPrecede ==
  ASSUME NEW route, IsList(route.extends), NEW R, NEW above, \A n \in DOMAIN above : above[n] \in Seq(R)
  PROVE  \E f : /\ f = LineageRule(route, above, f) /\ \A k \in 0 .. Len(route.extends) : f[k] \in Seq(R)
                /\ Lineage(route, above) = <<route>> \o f[Len(route.extends)]
<1> DEFINE N == Len(route.extends)
           V == Seq(R)
           step == [k \in 1 .. N |-> [m \in V |->
                      IF route.extends[k] \in DOMAIN above THEN above[route.extends[k]] \o m ELSE m]]
<1>1. N \in Nat
  BY ListFacts
<1>2. <<>> \in V
  OBVIOUS
<1>3. step \in [1 .. N -> [V -> V]]
  <2> HIDE DEF N
  <2>. QED
    OBVIOUS
<1> HIDE DEF N, V, step
<1>4. PICK f : Results(N, V, <<>>, step, f)
  BY <1>1, <1>2, <1>3, LoopHasResults
<1>5. f = LineageRule(route, above, f)
  <2>1. \A k \in 1 .. N : f[k] = IF route.extends[k] \in DOMAIN above
                                 THEN above[route.extends[k]] \o f[k - 1] ELSE f[k - 1]
    <3> TAKE k \in 1 .. N
    <3>1. f[k - 1] \in V
      BY <1>1, <1>4 DEF Results
    <3>. QED
      BY <1>4, <3>1 DEF step, Results
  <2>2. f = [k \in 0 .. N |-> f[k]]
    BY <1>4 DEF Results
  <2>3. \A k \in 0 .. N : k = 0 \/ k \in 1 .. N
    BY <1>1
  <2>. QED
    BY <1>4, <2>1, <2>2, <2>3 DEF LineageRule, N, Results
<1> DEFINE g == CHOOSE x : x = LineageRule(route, above, x)
<1>6. g = LineageRule(route, above, g)
  BY <1>5
<1>7. Lineage(route, above) = <<route>> \o g[N]
  BY DEF Lineage, LineageRule, N
<1> HIDE DEF g
<1>8. \A k \in 0 .. N : g[k] \in Seq(R)
  <2>1. g[0] = <<>> /\ \A k \in 1 .. N : g[k] = IF route.extends[k] \in DOMAIN above
                                               THEN above[route.extends[k]] \o g[k - 1] ELSE g[k - 1]
    BY <1>1, <1>6 DEF LineageRule, N
  <2>2. ASSUME NEW k \in 1 .. N, g[k - 1] \in Seq(R) PROVE g[k] \in Seq(R)
    <3>1. CASE route.extends[k] \in DOMAIN above
      <4>1. g[k] = above[route.extends[k]] \o g[k - 1] /\ above[route.extends[k]] \in Seq(R)
        BY <2>1, <3>1
      <4>. QED
        BY <2>2, <4>1
    <3>2. CASE route.extends[k] \notin DOMAIN above
      BY <2>1, <2>2, <3>2
    <3>. QED
      BY <3>1, <3>2
  <2>3. Stays(N, Seq(R), g)
    BY <2>1, <2>2 DEF Stays
  <2>. QED
    BY <1>1, <2>3, LoopStays
<1>. QED
  BY <1>6, <1>7, <1>8 DEF N

\* Where the parents agree, so does the route that extends them.
LEMMA RouteAgrees ==
  ASSUME NEW route, IsList(route.extends), NEW values, NEW lists, DOMAIN values = DOMAIN lists,
         NEW R, route \in R, \A n \in DOMAIN lists : lists[n] \in Seq(R),
         NEW k \in Settings, \A n \in DOMAIN lists : values[n][k] = Said(lists[n], k)
  PROVE  /\ Lineage(route, lists) \in Seq(R)
         /\ MergeParents(route, values)[k] = Said(Lineage(route, lists), k)
<1> DEFINE N == Len(route.extends)
<1>1. N \in Nat
  BY ListFacts
<1>2. PICK f : f = MergedRule(route, values, f) /\ MergeParents(route, values) = f[N]
  BY ParentsMerge
<1>3. PICK g : /\ g = LineageRule(route, lists, g) /\ \A j \in 0 .. N : g[j] \in Seq(R)
               /\ Lineage(route, lists) = <<route>> \o g[N]
  BY ParentsPrecede
<1>4. <<route>> \in Seq(R) /\ g[N] \in Seq(R)
  BY <1>1, <1>3
<1> DEFINE Agree(j) == f[j][k] = IF route.own[k] # Unset THEN route.own[k] ELSE Said(g[j], k)
           T == {j \in Nat : j <= N /\ ~Agree(j)}
<1> HIDE DEF N
<1>5. ASSUME T # {} PROVE FALSE
  <2>1. PICK j \in T : \A y \in T : j <= y
    <3> HIDE DEF T
    <3>1. T \in SUBSET Nat
      BY DEF T
    <3>. QED
      BY <1>5, <3>1, LeastNumber
  <2>2. j \in 0 .. N /\ ~Agree(j) /\ j \in Nat
    BY <2>1
  <2>3. j # 0 => j - 1 \in 0 .. N /\ Agree(j - 1)
    <3> HIDE DEF Agree
    <3>. QED
      BY <1>1, <2>1
  <2>4. CASE j = 0
    <3>1. f[j] = route.own /\ g[j] = <<>>
      BY <1>2, <1>3, <2>2, <2>4 DEF MergedRule, LineageRule, N
    <3>2. <<>> \in Seq(R) /\ \A m \in 1 .. Len(<<>>) : <<>>[m].own[k] = Unset
      OBVIOUS
    <3>3. Said(<<>>, k) = Unset
      BY <3>2, SaidNowhere, Zenon
    <3>. QED
      BY <2>2, <3>1, <3>3
  <2>5. CASE j # 0 /\ route.extends[j] \notin DOMAIN lists
    <3>1. f[j] = f[j - 1] /\ g[j] = g[j - 1]
      BY <1>2, <1>3, <2>2, <2>5 DEF MergedRule, LineageRule, N
    <3>. QED
      BY <2>2, <2>3, <2>5, <3>1
  <2>6. CASE j # 0 /\ route.extends[j] \in DOMAIN lists
    <3> DEFINE n == route.extends[j]
    <3>1. /\ f[j] = Merge(route.own, f[j - 1], values[n])
          /\ g[j] = lists[n] \o g[j - 1]
      BY <1>2, <1>3, <2>2, <2>6 DEF MergedRule, LineageRule, N
    <3>2. lists[n] \in Seq(R) /\ g[j - 1] \in Seq(R) /\ values[n][k] = Said(lists[n], k)
      BY <1>3, <2>3, <2>6
    <3>3. Said(g[j], k) = IF Said(lists[n], k) # Unset THEN Said(lists[n], k) ELSE Said(g[j - 1], k)
      BY <3>1, <3>2, SaidByEither
    <3>4. f[j][k] = IF route.own[k] # Unset THEN route.own[k]
                    ELSE IF values[n][k] # Unset THEN values[n][k] ELSE f[j - 1][k]
      BY <3>1 DEF Merge
    <3>. QED
      BY <2>2, <2>3, <2>6, <3>2, <3>3, <3>4
  <2>. QED
    BY <2>4, <2>5, <2>6
<1>6. Agree(N)
  <2> HIDE DEF Agree
  <2>. QED
    BY <1>1, <1>5
<1>7. Said(<<route>> \o g[N], k) = IF route.own[k] # Unset THEN route.own[k] ELSE Said(g[N], k)
  <2>1. Said(<<route>>, k) = route.own[k]
    BY SaidByOne
  <2> DEFINE s == <<route>>  t == g[N]
  <2>2. s \in Seq(R) /\ t \in Seq(R)
    BY <1>4
  <2> HIDE DEF s, t
  <2>3. Said(s \o t, k) = IF Said(s, k) # Unset THEN Said(s, k) ELSE Said(t, k)
    BY <2>2, SaidByEither
  <2>. QED
    BY <2>1, <2>3 DEF s, t
<1>8. <<route>> \o g[N] \in Seq(R)
  BY <1>4
<1>. QED
  BY <1>2, <1>3, <1>6, <1>7, <1>8

-----------------------------------------------------------------------------
(* The routes of a table, by name.                                         *)

LEMMA NamedRoute ==
  ASSUME NEW routes, IsTable(routes), NEW n \in Names(routes)
  PROVE  /\ ByName(routes, n) \in {routes[i] : i \in DOMAIN routes}
         /\ IsList(ByName(routes, n).extends)
<1> DEFINE N == Len(routes)
           T == {j \in Nat : \E i \in 1 .. N : routes[i].name = n /\ j = N - i}
<1>1. N \in Nat /\ DOMAIN routes = 1 .. N
  BY ListFacts DEF IsTable
<1>2. T \in SUBSET Nat /\ T # {}
  <2>1. PICK i \in 1 .. N : routes[i].name = n
    BY <1>1 DEF Names
  <2>2. N - i \in T
    BY <1>1, <2>1
  <2>. QED
    BY <2>2
<1>3. PICK j \in T : \A y \in T : j <= y
  <2> HIDE DEF T
  <2>. QED
    BY <1>2, LeastNumber
<1>4. PICK i \in 1 .. N : routes[i].name = n /\ j = N - i
  BY <1>3
<1>5. \A m \in DOMAIN routes : routes[m].name = n => m <= i
  <2> SUFFICES ASSUME NEW m \in 1 .. N, routes[m].name = n PROVE m <= i
    BY <1>1
  <2>1. N - m \in Nat
    <3> HIDE DEF N
    <3>. QED
      BY <1>1
  <2>2. N - m \in T
    BY <2>1
  <2>3. j <= N - m
    <3> HIDE DEF T
    <3>. QED
      BY <1>3, <2>2
  <2>4. N \in Int /\ i \in Int /\ m \in Int /\ j = N - i
    BY <1>1, <1>4
  <2>. QED
    BY <2>3, <2>4
<1> DEFINE last == CHOOSE m \in DOMAIN routes :
                     routes[m].name = n /\ \A x \in DOMAIN routes : routes[x].name = n => x <= m
<1>6. last \in DOMAIN routes
  BY <1>1, <1>4, <1>5
<1>7. ByName(routes, n) = routes[last]
  BY DEF ByName
<1>. QED
  BY <1>6, <1>7 DEF IsTable

LEMMA FewNames ==
  ASSUME NEW routes, IsTable(routes)
  PROVE  IsFiniteSet(Names(routes))
<1>1. Len(routes) \in Nat /\ DOMAIN routes = 1 .. Len(routes)
  BY ListFacts DEF IsTable
<1>2. IsFiniteSet(1 .. Len(routes))
  BY <1>1, FS_Interval
<1> DEFINE f == [i \in 1 .. Len(routes) |-> routes[i].name]
<1>3. f \in Surjection(1 .. Len(routes), Names(routes))
  BY <1>1 DEF Surjection, Names
<1>. QED
  BY <1>2, <1>3, FS_Surjection

-----------------------------------------------------------------------------
(* The way up: the values and the ancestors of every parent, for every set *)
(* of names visited.                                                       *)
Tops(route, routes) == SUBSET (Names(routes) \cup {route.name})

ValuesAt(routes, f, visited) ==
  [n \in Names(routes) |-> IF n \in visited THEN ByName(routes, n).own
                           ELSE MergeParents(ByName(routes, n), f[visited \cup {n}])]

LinesAt(routes, f, visited) ==
  [n \in Names(routes) |-> IF n \in visited THEN <<ByName(routes, n)>>
                           ELSE Lineage(ByName(routes, n), f[visited \cup {n}])]

\* Both at once, so that their existence is shown once.
Both(routes, f, visited) ==
  <<ValuesAt(routes, [v \in DOMAIN f |-> f[v][1]], visited), LinesAt(routes, [v \in DOMAIN f |-> f[v][2]], visited)>>

SameAbove(routes, f, g, visited) ==
  \A n \in Names(routes) \ visited :
    /\ visited \cup {n} \in DOMAIN f /\ visited \cup {n} \in DOMAIN g
    /\ f[visited \cup {n}] = g[visited \cup {n}]

LEMMA BothDependOn ==
  ASSUME NEW routes, NEW f, NEW g, NEW visited, SameAbove(routes, f, g, visited)
  PROVE  Both(routes, f, visited) = Both(routes, g, visited)
BY DEF Both, ValuesAt, LinesAt, SameAbove

\* A name that is visited is one fewer to visit.
LEMMA OneFewer ==
  ASSUME NEW All, IsFiniteSet(All), NEW v \in SUBSET All
  PROVE  /\ Cardinality(All \ v) \in Nat /\ Cardinality(All \ v) <= Cardinality(All)
         /\ \A n \in All \ v : /\ v \cup {n} \in SUBSET All
                              /\ Cardinality(All \ (v \cup {n})) = Cardinality(All \ v) - 1
<1>1. All \ v \in SUBSET All
  OBVIOUS
<1>2. /\ IsFiniteSet(All \ v) /\ Cardinality(All \ v) \in Nat
      /\ Cardinality(All \ v) <= Cardinality(All)
  BY <1>1, FS_Subset, FS_CardinalityType
<1>3. ASSUME NEW n \in All \ v
      PROVE  v \cup {n} \in SUBSET All /\ Cardinality(All \ (v \cup {n})) = Cardinality(All \ v) - 1
  <2>1. All \ (v \cup {n}) = (All \ v) \ {n} /\ v \cup {n} \in SUBSET All
    OBVIOUS
  <2>2. Cardinality((All \ v) \ {n}) = Cardinality(All \ v) - 1
    BY <1>2, FS_RemoveElement
  <2>. QED
    BY <2>1, <2>2
<1>. QED
  BY <1>2, <1>3

\* Of some sets of names one is such that no name can be added to it.
Topmost(All, T, v) == v \in T /\ \A n \in All \ v : v \cup {n} \notin T

LEMMA MostVisited ==
  ASSUME NEW All, IsFiniteSet(All), NEW T \in SUBSET SUBSET All, T # {}
  PROVE  \E v : Topmost(All, T, v)
<1> DEFINE C == {Cardinality(All \ v) : v \in T}
<1>1. C \in SUBSET Nat /\ C # {}
  <2>1. \A v \in T : Cardinality(All \ v) \in Nat
    BY OneFewer
  <2>. QED
    BY <2>1
<1>2. PICK c \in C : \A y \in C : c <= y
  <2> HIDE DEF C
  <2>. QED
    BY <1>1, LeastNumber
<1>3. PICK v \in T : c = Cardinality(All \ v)
  BY <1>2
<1>4. ASSUME NEW n \in All \ v, v \cup {n} \in T PROVE FALSE
  <2>1. Cardinality(All \ (v \cup {n})) = c - 1 /\ c \in Nat
    BY <1>3, OneFewer
  <2>2. Cardinality(All \ (v \cup {n})) \in C
    BY <1>4
  <2> HIDE DEF C
  <2>. QED
    BY <1>2, <2>1, <2>2
<1>. QED
  BY <1>3, <1>4 DEF Topmost

LEMMA BothExist ==
  ASSUME NEW routes, IsTable(routes), NEW route
  PROVE  \E f : f = [v \in Tops(route, routes) |-> Both(routes, f, v)]
<1> DEFINE names == Names(routes)
           All == names \cup {route.name}
           Left(v) == Cardinality(All \ v)
           Upper(m) == {v \in SUBSET All : Left(v) < m}
           Solved(m) == \E f : f = [v \in Upper(m) |-> Both(routes, f, v)]
<1>1. IsFiniteSet(All)
  BY FewNames, FS_AddElement
<1>2. \A v \in SUBSET All : Left(v) \in Nat /\ Left(v) <= Cardinality(All)
  BY <1>1, OneFewer
<1>3. ASSUME NEW v \in SUBSET All, NEW n \in names \ v
      PROVE  v \cup {n} \in SUBSET All /\ Left(v \cup {n}) = Left(v) - 1
  <2>1. n \in All \ v
    OBVIOUS
  <2> HIDE DEF All
  <2>. QED
    BY <1>1, <2>1, OneFewer
<1> DEFINE T == {m \in Nat : ~Solved(m)}
<1>4. ASSUME T # {} PROVE FALSE
  <2>1. PICK m \in T : \A y \in T : m <= y
    <3> HIDE DEF T
    <3>1. T \in SUBSET Nat
      BY DEF T
    <3>. QED
      BY <1>4, <3>1, LeastNumber
  <2>2. m \in Nat /\ ~Solved(m)
    BY <2>1
  <2>3. CASE m = 0
    <3>1. Upper(0) = {}
      BY <1>2
    <3> DEFINE f == [v \in {} |-> Both(routes, {}, v)]
    <3>2. f = [v \in Upper(0) |-> Both(routes, f, v)]
      BY <3>1
    <3>. QED
      BY <2>2, <2>3, <3>2
  <2>4. CASE m # 0
    <3>1. m - 1 \in Nat /\ Solved(m - 1)
      <4> HIDE DEF Solved
      <4>. QED
        BY <2>1, <2>2, <2>4
    <3>2. PICK f : f = [v \in Upper(m - 1) |-> Both(routes, f, v)]
      BY <3>1
    <3> DEFINE g == [v \in Upper(m) |-> Both(routes, f, v)]
    <3>3. ASSUME NEW v \in Upper(m), NEW n \in names \ v
          PROVE  v \cup {n} \in Upper(m - 1) /\ v \cup {n} \in Upper(m)
      <4>1. v \in SUBSET All /\ Left(v) < m
        OBVIOUS
      <4>2. v \cup {n} \in SUBSET All /\ Left(v \cup {n}) = Left(v) - 1 /\ Left(v) \in Nat
        BY <1>2, <1>3, <4>1
      <4> HIDE DEF Left, All
      <4>. QED
        BY <2>2, <4>1, <4>2
    <3>4. \A v \in Upper(m - 1) : v \in Upper(m) /\ f[v] = Both(routes, f, v)
      <4>1. \A v \in Upper(m - 1) : f[v] = Both(routes, f, v)
        <5> HIDE DEF Upper
        <5>. QED
          BY <3>2
      <4>2. \A v \in Upper(m - 1) : v \in Upper(m)
        <5> HIDE DEF Left, All
        <5>. QED
          BY <1>2, <2>2
      <4>. QED
        BY <4>1, <4>2
    <3>5. DOMAIN f = Upper(m - 1) /\ DOMAIN g = Upper(m)
      <4> HIDE DEF Upper
      <4>. QED
        BY <3>2
    <3>6. ASSUME NEW v \in Upper(m) PROVE Both(routes, f, v) = Both(routes, g, v)
      <4>1. ASSUME NEW n \in names \ v
            PROVE  /\ v \cup {n} \in DOMAIN f /\ v \cup {n} \in DOMAIN g
                   /\ f[v \cup {n}] = g[v \cup {n}]
        <5>1. v \cup {n} \in Upper(m - 1) /\ v \cup {n} \in Upper(m)
          BY <3>3
        <5> DEFINE w == v \cup {n}
        <5> HIDE DEF w, Upper
        <5>. QED
          BY <3>4, <3>5, <5>1 DEF w
      <4> HIDE DEF g
      <4>2. SameAbove(routes, f, g, v)
        BY <4>1 DEF SameAbove
      <4>. QED
        BY <4>2, BothDependOn
    <3>7. g = [v \in Upper(m) |-> Both(routes, g, v)]
      <4> DEFINE h == [v \in Upper(m) |-> Both(routes, g, v)]
      <4>1. \A v \in Upper(m) : g[v] = h[v]
        <5> HIDE DEF Upper
        <5>. QED
          BY <3>6
      <4>. QED
        BY <4>1
    <3>. QED
      BY <2>2, <3>7
  <2>. QED
    BY <2>3, <2>4
<1>5. Solved(Cardinality(All) + 1)
  <2> HIDE DEF Solved
  <2>1. Cardinality(All) + 1 \in Nat
    BY <1>1, FS_CardinalityType
  <2>. QED
    BY <1>4, <2>1
<1>6. Upper(Cardinality(All) + 1) = Tops(route, routes)
  <2>1. Cardinality(All) \in Nat
    BY <1>1, FS_CardinalityType
  <2>2. \A v \in SUBSET All : Left(v) < Cardinality(All) + 1
    <3> HIDE DEF Left, All
    <3>. QED
      BY <1>2, <2>1
  <2>. QED
    BY <2>2 DEF Tops
<1>. QED
  BY <1>5, <1>6

ValueRule(route, routes, f) ==
  [visited \in SUBSET (Names(routes) \cup {route.name}) |->
     [n \in Names(routes) |-> IF n \in visited THEN ByName(routes, n).own
                              ELSE MergeParents(ByName(routes, n), f[visited \cup {n}])]]

LineRule(route, routes, f) ==
  [visited \in SUBSET (Names(routes) \cup {route.name}) |->
     [n \in Names(routes) |-> IF n \in visited THEN <<ByName(routes, n)>>
                              ELSE Lineage(ByName(routes, n), f[visited \cup {n}])]]

LEMMA RulesHaveSolutions ==
  ASSUME NEW routes, IsTable(routes), NEW route
  PROVE  (\E f : f = ValueRule(route, routes, f)) /\ (\E f : f = LineRule(route, routes, f))
<1> DEFINE D == Tops(route, routes)
<1>1. PICK h : h = [v \in D |-> Both(routes, h, v)]
  BY BothExist
<1> DEFINE a == [v \in D |-> h[v][1]]
           b == [v \in D |-> h[v][2]]
<1>2. DOMAIN h = D /\ \A v \in D : h[v] = Both(routes, h, v)
  <2> HIDE DEF D
  <2>. QED
    BY <1>1
<1>3. \A v \in D : h[v] = <<ValuesAt(routes, a, v), LinesAt(routes, b, v)>>
  <2> HIDE DEF D
  <2>1. a = [v \in DOMAIN h |-> h[v][1]] /\ b = [v \in DOMAIN h |-> h[v][2]]
    BY <1>2
  <2> HIDE DEF a, b
  <2>. QED
    BY <1>2, <2>1 DEF Both
<1>4. \A v \in D : a[v] = ValuesAt(routes, a, v) /\ b[v] = LinesAt(routes, b, v)
  <2> TAKE v \in D
  <2>1. a[v] = h[v][1] /\ b[v] = h[v][2]
    OBVIOUS
  <2> HIDE DEF a, b, D
  <2>. QED
    BY <1>3, <2>1
<1>5. DOMAIN a = D /\ DOMAIN b = D /\ a = [v \in D |-> a[v]] /\ b = [v \in D |-> b[v]]
  OBVIOUS
<1>6. a = [v \in D |-> ValuesAt(routes, a, v)] /\ b = [v \in D |-> LinesAt(routes, b, v)]
  <2> HIDE DEF a, b, D
  <2>. QED
    BY <1>4, <1>5
<1>7. a = ValueRule(route, routes, a) /\ b = LineRule(route, routes, b)
  <2> HIDE DEF a, b
  <2>. QED
    BY <1>6 DEF ValueRule, LineRule, ValuesAt, LinesAt, Tops
<1>. QED
  BY <1>7

\* A setting of a route of a table, or of one that stands beside it, is what
\* the nearest of its ancestors that gives it says.
LEMMA NearestIsInherited ==
  ASSUME NEW routes, IsTable(routes), NEW route, IsList(route.extends), NEW k \in Settings
  PROVE  Resolved(route, routes)[k] = Said(Ancestry(route, routes), k)
<1> DEFINE names == Names(routes)
           D == Tops(route, routes)
           R == {routes[i] : i \in DOMAIN routes} \cup {route}
           a == CHOOSE f : f = ValueRule(route, routes, f)
           b == CHOOSE f : f = LineRule(route, routes, f)
<1>1. a = ValueRule(route, routes, a) /\ b = LineRule(route, routes, b)
  BY RulesHaveSolutions
<1>2. Resolved(route, routes) = MergeParents(route, a[{route.name}])
  BY DEF Resolved, ValueRule
<1>3. Ancestry(route, routes) = Lineage(route, b[{route.name}])
  BY DEF Ancestry, LineRule
<1> HIDE DEF a, b
<1>4. \A v \in D : /\ DOMAIN a[v] = names /\ DOMAIN b[v] = names
                   /\ \A n \in names :
                        /\ a[v][n] = IF n \in v THEN ByName(routes, n).own
                                     ELSE MergeParents(ByName(routes, n), a[v \cup {n}])
                        /\ b[v][n] = IF n \in v THEN <<ByName(routes, n)>>
                                     ELSE Lineage(ByName(routes, n), b[v \cup {n}])
  <2> TAKE v \in D
  <2>1. a[v] = ValuesAt(routes, a, v)
    BY <1>1 DEF ValueRule, ValuesAt, Tops
  <2>2. b[v] = LinesAt(routes, b, v)
    BY <1>1 DEF LineRule, LinesAt, Tops
  <2>. QED
    BY <2>1, <2>2 DEF ValuesAt, LinesAt
<1> DEFINE Agree(v) == \A n \in names : b[v][n] \in Seq(R) /\ a[v][n][k] = Said(b[v][n], k)
<1>5. ASSUME NEW v \in D, \A n \in names \ v : Agree(v \cup {n})
      PROVE  Agree(v)
  <2> SUFFICES ASSUME NEW n \in names
               PROVE  b[v][n] \in Seq(R) /\ a[v][n][k] = Said(b[v][n], k)
    OBVIOUS
  <2>1. ByName(routes, n) \in R /\ IsList(ByName(routes, n).extends)
    BY NamedRoute
  <2>2. CASE n \in v
    <3> DEFINE r == ByName(routes, n)
    <3> HIDE DEF r, R
    <3>1. a[v][n] = r.own /\ b[v][n] = <<r>> /\ r \in R
      BY <1>4, <2>1, <2>2 DEF r
    <3>2. Said(<<r>>, k) = r.own[k] /\ <<r>> \in Seq(R)
      BY <3>1, SaidByOne
    <3>. QED
      BY <3>1, <3>2
  <2>3. CASE n \notin v
    <3> DEFINE r == ByName(routes, n)  x == a[v \cup {n}]  y == b[v \cup {n}]
    <3>1. Agree(v \cup {n}) /\ v \cup {n} \in D
      BY <1>5, <2>3 DEF Tops
    <3>2. DOMAIN x = names /\ DOMAIN y = names
      BY <1>4, <3>1
    <3>3. \A m \in names : y[m] \in Seq(R) /\ x[m][k] = Said(y[m], k)
      BY <3>1
    <3>4. a[v][n] = MergeParents(r, x) /\ b[v][n] = Lineage(r, y)
      BY <1>4, <2>3
    <3> HIDE DEF r, x, y, R, names
    <3>5. r \in R /\ IsList(r.extends)
      BY <2>1 DEF r
    <3>6. Lineage(r, y) \in Seq(R) /\ MergeParents(r, x)[k] = Said(Lineage(r, y), k)
      BY <3>2, <3>3, <3>5, RouteAgrees, ZenonT(30)
    <3>. QED
      BY <3>4, <3>6
  <2>. QED
    BY <2>2, <2>3
<1>6. Agree({route.name})
  <2> DEFINE T == {v \in D : ~Agree(v)}
  <2>1. ASSUME T # {} PROVE FALSE
    <3> DEFINE All == names \cup {route.name}
    <3>1. IsFiniteSet(All)
      BY FewNames, FS_AddElement
    <3>2. T \in SUBSET SUBSET All
      BY DEF Tops
    <3> HIDE DEF Agree
    <3>3. PICK v : Topmost(All, T, v)
      <4> HIDE DEF T, All
      <4>. QED
        BY <2>1, <3>1, <3>2, MostVisited
    <3>4. \A n \in names \ v : v \cup {n} \in D
      BY <3>3 DEF Topmost, Tops
    <3>5. \A n \in names \ v : Agree(v \cup {n})
      BY <3>3, <3>4 DEF Topmost
    <3>. QED
      BY <1>5, <3>3, <3>5 DEF Topmost
  <2>2. {route.name} \in D
    BY DEF Tops
  <2> HIDE DEF Agree
  <2>. QED
    BY <2>1, <2>2
<1>7. {route.name} \in D
  BY DEF Tops
<1>. QED
  <2> DEFINE x == a[{route.name}]  y == b[{route.name}]
  <2>1. DOMAIN x = names /\ DOMAIN y = names
    BY <1>4, <1>7
  <2>2. \A m \in names : y[m] \in Seq(R) /\ x[m][k] = Said(y[m], k)
    BY <1>6
  <2>3. route \in R
    OBVIOUS
  <2> HIDE DEF x, y, R, names
  <2>4. MergeParents(route, x)[k] = Said(Lineage(route, y), k)
    BY <2>1, <2>2, <2>3, RouteAgrees
  <2>. QED
    BY <1>2, <1>3, <2>4 DEF x, y

-----------------------------------------------------------------------------
(* The tables that texts make.                                             *)
AllTexts == Texts \cup {Empty, Unreadable}

KeptRule(text, f) ==
  [i \in 0 .. Len(text.routes) |->
     IF i = 0 THEN <<>>
     ELSE IF text.routes[i].wellFormed THEN Append(f[i - 1], Loaded(text.routes[i]))
     ELSE f[i - 1]]

LEMMA TextsMakeTables ==
  ASSUME NEW text \in AllTexts
  PROVE  IsTable(Table(text))
<1> DEFINE N == Len(text.routes)
           L == {Loaded(text.routes[i]) : i \in 1 .. N}
           V == Seq(L)
           step == [i \in 1 .. N |-> [m \in V |->
                      IF text.routes[i].wellFormed THEN Append(m, Loaded(text.routes[i])) ELSE m]]
<1>0. IsTable(text.routes)
  BY TextsAssumption DEF AllTexts
<1>1. N \in Nat /\ DOMAIN text.routes = 1 .. N
  BY <1>0, ListFacts DEF IsTable
<1>2. <<>> \in V
  OBVIOUS
<1>3. step \in [1 .. N -> [V -> V]]
  <2>1. \A i \in 1 .. N : Loaded(text.routes[i]) \in L
    OBVIOUS
  <2> HIDE DEF N, L
  <2>. QED
    BY <2>1
<1>9. \A i \in 1 .. N : Loaded(text.routes[i]) \in L
  OBVIOUS
<1> HIDE DEF N, V, L, step
<1>4. PICK f : Results(N, V, <<>>, step, f)
  BY <1>1, <1>2, <1>3, LoopHasResults
<1>5. f = KeptRule(text, f)
  <2>1. \A i \in 1 .. N : f[i] = IF text.routes[i].wellFormed
                                 THEN Append(f[i - 1], Loaded(text.routes[i])) ELSE f[i - 1]
    <3> TAKE i \in 1 .. N
    <3>1. f[i - 1] \in V
      BY <1>1, <1>4 DEF Results
    <3>. QED
      BY <1>4, <3>1 DEF step, Results
  <2>2. f = [i \in 0 .. N |-> f[i]]
    BY <1>4 DEF Results
  <2>3. \A i \in 0 .. N : i = 0 \/ i \in 1 .. N
    BY <1>1
  <2>. QED
    BY <1>4, <2>1, <2>2, <2>3 DEF KeptRule, N, Results
<1> DEFINE g == CHOOSE x : x = KeptRule(text, x)
<1>6. g = KeptRule(text, g)
  BY <1>5
<1>7. Table(text) = g[N]
  BY DEF Table, LoadUserRoutes, KeptRule, N
<1> HIDE DEF g
<1>8. g[N] \in Seq(L)
  <2>1. \A i \in 0 .. N : g[i] = IF i = 0 THEN <<>>
                                ELSE IF text.routes[i].wellFormed
                                     THEN Append(g[i - 1], Loaded(text.routes[i])) ELSE g[i - 1]
    BY <1>6 DEF KeptRule, N
  <2>2. ASSUME NEW i \in 1 .. N, g[i - 1] \in Seq(L) PROVE g[i] \in Seq(L)
    <3>1. i \in 0 .. N /\ i # 0
      BY <1>1
    <3>2. CASE text.routes[i].wellFormed
      <4>1. g[i] = Append(g[i - 1], Loaded(text.routes[i])) /\ Loaded(text.routes[i]) \in L
        BY <1>9, <2>1, <3>1, <3>2
      <4>. QED
        BY <2>2, <4>1
    <3>3. CASE ~text.routes[i].wellFormed
      BY <2>1, <2>2, <3>1, <3>3
    <3>. QED
      BY <3>2, <3>3
  <2>3. 0 \in 0 .. N /\ N \in 0 .. N
    BY <1>1
  <2>4. Stays(N, Seq(L), g)
    <3>1. g[0] = <<>> /\ <<>> \in Seq(L)
      BY <2>1, <2>3
    <3>. QED
      BY <2>2, <3>1 DEF Stays
  <2>. QED
    BY <1>1, <2>3, <2>4, LoopStays
<1>10. \A e \in L : IsList(e.extends)
  BY <1>0, <1>1 DEF L, Loaded, IsTable
<1> DEFINE t == g[N]
<1>11. t \in Seq({t[i] : i \in DOMAIN t}) /\ \A i \in DOMAIN t : t[i] \in L
  BY <1>8
<1>. QED
  BY <1>7, <1>10, <1>11 DEF IsTable, IsList

-----------------------------------------------------------------------------
(* The invariant.  Wherever a check of the file stops, what is live is one *)
(* text that passed validation; before the first one there are no routes.  *)
Whole == /\ Acceptable(live.config)
         /\ live.routes = Table(live.config) /\ live.defaults = DefaultsOf(live.config)

CrTypes ==
  /\ DOMAIN file = {"format", "text", "mtime", "rest", "saves"}
  /\ file.text \in Texts \cup {Empty} /\ file.rest \in Texts \cup {Empty}
  /\ DOMAIN process = {"pc", "mtime", "text"} /\ process.text \in AllTexts
  /\ process.pc \in {"load", "stamp", "failed", "idle", "reload", "apply"}
  /\ DOMAIN live = {"config", "routes", "defaults", "imported", "mtime"}
  /\ live.config \in AllTexts
  /\ live.routes = <<>> \/ \E t \in AllTexts : live.routes = Table(t)
  /\ DOMAIN req = Requests
  /\ \A r \in Requests : DOMAIN req[r] = {"pc", "asked", "keys", "route", "plan"}

CrInv == CrTypes /\ (process.pc \in {"idle", "reload", "apply"} => Whole)

LEMMA CrInitInv == CrInit => CrInv
BY DEF CrInit, CrInv, CrTypes, AllTexts, Unreadable

LEMMA ContentIsAText ==
  ASSUME CrTypes
  PROVE  Content(file) \in AllTexts
BY DEF CrTypes, Content, AllTexts

LEMMA OperatorKeeps ==
  ASSUME CrInv, SaveByRename \/ SaveInPlace \/ FinishSave
  PROVE  CrInv'
<1>1. PICK t \in Texts \cup {Empty}, u \in Texts \cup {Empty} : \E m : Written(t, u, m)
  BY DEF CrInv, CrTypes, SaveByRename, SaveInPlace, FinishSave
<1>2. CrTypes'
  BY <1>1 DEF CrInv, CrTypes, Written
<1>. QED
  BY <1>1, <1>2 DEF CrInv, Written, Whole

LEMMA ProcessKeeps ==
  ASSUME CrInv, BootLoad \/ BootStamp \/ Restart \/ CheckMtime \/ LoadCandidate \/ ApplyCandidate
  PROVE  CrInv'
<1> USE DEF CrInv, CrTypes, GoTo
<1>1. CASE BootLoad
  BY <1>1, ContentIsAText DEF BootLoad, Whole
<1>2. CASE BootStamp
  BY <1>2, ZenonT(30) DEF BootStamp, Whole
<1>3. CASE Restart
  BY <1>3 DEF Restart, Whole
<1>4. CASE CheckMtime
  BY <1>4 DEF CheckMtime, Whole
<1>5. CASE LoadCandidate
  BY <1>5, ContentIsAText DEF LoadCandidate, Whole
<1>6. CASE ApplyCandidate
  BY <1>6 DEF ApplyCandidate, Whole
<1>. QED
  BY <1>1, <1>2, <1>3, <1>4, <1>5, <1>6

LEMMA RequestsKeep ==
  ASSUME CrInv, NEW r \in Requests, Arrive(r) \/ Admitted(r)
  PROVE  CrInv'
<1>1. UNCHANGED <<file, process, live>>
  BY DEF Arrive, Admitted
<1>2. DOMAIN req' = Requests /\ \A q \in Requests : DOMAIN req'[q] = {"pc", "asked", "keys", "route", "plan"}
  BY DEF CrInv, CrTypes, Arrive, Admitted
<1>. QED
  BY <1>1, <1>2 DEF CrInv, CrTypes, Whole

LEMMA CrNextInv == CrInv /\ [CrNext]_crVars => CrInv'
<1>1. ASSUME CrInv, UNCHANGED crVars PROVE CrInv'
  BY <1>1 DEF CrInv, CrTypes, Whole, crVars
<1>. QED
  BY <1>1, OperatorKeeps, ProcessKeeps, RequestsKeep DEF CrNext

\* The inductive invariant of the configuration, for every set of texts.
THEOREM ReloadInvariant == CrSpec => []CrInv
BY CrInitInv, CrNextInv, PTL DEF CrSpec

\* A reload that fails at any of its steps changes nothing: whenever a request
\* may look, the tables come from one text, and it passed validation.
THEOREM LiveAlwaysWhole == CrSpec => []LiveIsWhole
<1>1. CrInv => LiveIsWhole
  BY DEF CrInv, LiveIsWhole, Whole
<1>. QED
  BY <1>1, ReloadInvariant, PTL

\* A setting a route does not give is that of its nearest ancestor that gives
\* it, whatever the routes extend: missing parents, circles and all.
THEOREM SettingsAreInherited == CrSpec => []InheritsNearest
<1>1. ASSUME CrInv, NEW i \in DOMAIN live.routes, NEW k \in Settings \ Defaulted
      PROVE  Resolved(live.routes[i], live.routes)[k] = Said(Ancestry(live.routes[i], live.routes), k)
  <2>1. IsTable(live.routes)
    BY <1>1, TextsMakeTables DEF CrInv, CrTypes
  <2>2. IsList(live.routes[i].extends)
    BY <1>1, <2>1 DEF IsTable
  <2>. QED
    BY <2>1, <2>2, NearestIsInherited
<1>2. CrInv => InheritsNearest
  BY <1>1 DEF InheritsNearest
<1>. QED
  BY <1>2, ReloadInvariant, PTL

-----------------------------------------------------------------------------
(* Who is let in.                                                          *)
LEMMA MatchedRoute ==
  ASSUME NEW routes, IsTable(routes), NEW asked
  PROVE  IsList(MatchRoute(routes, asked).extends)
<1> DEFINE matching == {i \in DOMAIN routes : asked \in routes[i].accepts}
           first == CHOOSE i \in matching : \A j \in matching : i <= j
<1>1. CASE matching = {}
  <2>1. MatchRoute(routes, asked) = DefaultRoute
    BY <1>1 DEF MatchRoute
  <2>2. DefaultRoute.extends = <<>>
    BY DEF DefaultRoute, Loaded
  <2>3. IsList(<<>>)
    BY DEF IsList
  <2>. QED
    BY <2>1, <2>2, <2>3
<1>2. CASE matching # {}
  <2>1. MatchRoute(routes, asked) = routes[first]
    BY <1>2 DEF MatchRoute
  <2>2. matching \in SUBSET Nat
    BY ListFacts DEF IsTable
  <2>3. \E i \in matching : \A j \in matching : i <= j
    <3> HIDE DEF matching
    <3>. QED
      BY <1>2, <2>2, LeastNumber
  <2>4. first \in matching
    <3> HIDE DEF matching
    <3>. QED
      BY <2>3
  <2>. QED
    BY <2>1, <2>4 DEF IsTable
<1>. QED
  BY <1>1, <1>2

KeysSaid(route, routes, defaults) ==
  LET said == Said(Ancestry(route, routes), "api_keys")
  IN  IF said = Unset THEN defaults.api_keys ELSE said

LEMMA KeysAreSaid ==
  ASSUME NEW routes, IsTable(routes), NEW route, IsList(route.extends), NEW defaults
  PROVE  RouteKeys(Resolved(route, routes), defaults) = KeysSaid(route, routes, defaults)
<1>1. "api_keys" \in Settings
  BY TableAssumption
<1>2. Resolved(route, routes)["api_keys"] = Said(Ancestry(route, routes), "api_keys")
  BY <1>1, NearestIsInherited
<1>. QED
  BY <1>2 DEF RouteKeys, OrDefault, KeysSaid

\* The step that a request is let in or refused by.
LEMMA ArrivalsDecide ==
  ASSUME CrInv, CrNext, NEW r \in Requests, req[r].pc = "new", req'[r].pc # "new"
  PROVE  /\ process.pc = "idle"
         /\ \E k : /\ req'[r].keys = {k}
                   /\ (req'[r].pc # "refused") = IsAuthorized(k, KeysFor(req'[r].asked))
<1>1. Arrive(r)
  <2>1. ASSUME SaveByRename \/ SaveInPlace \/ FinishSave \/ BootLoad \/ BootStamp \/ Restart
               \/ CheckMtime \/ LoadCandidate \/ ApplyCandidate
        PROVE  req' = req
    BY <2>1 DEF SaveByRename, SaveInPlace, FinishSave, Written, BootLoad, BootStamp, Restart,
       CheckMtime, LoadCandidate, ApplyCandidate
  <2>2. ASSUME NEW q \in Requests, q # r, Arrive(q) \/ Admitted(q) PROVE req'[r] = req[r]
    BY <2>2 DEF Arrive, Admitted, CrInv, CrTypes
  <2>3. ~Admitted(r)
    BY DEF Admitted
  <2>. QED
    BY <2>1, <2>2, <2>3 DEF CrNext
<1>2. PICK asked \in Asked, k \in Keys, waits \in BOOLEAN :
        LET values == Resolved(MatchRoute(live.routes, asked), live.routes)
            came   == [req[r] EXCEPT !.asked = asked, !.keys = {k},
                                     !.route = [values |-> values, table |-> live.routes]]
        IN  req' = [req EXCEPT ![r] =
              IF ~IsAuthorized(k, KeysFor(asked)) THEN [came EXCEPT !.pc = "refused"]
              ELSE IF waits THEN [came EXCEPT !.pc = "queued"]
              ELSE [came EXCEPT !.pc = "done", !.plan = Plan(asked, values)]]
  BY <1>1 DEF Arrive
<1>3. /\ req'[r].asked = asked /\ req'[r].keys = {k}
      /\ req'[r].pc = IF ~IsAuthorized(k, KeysFor(asked)) THEN "refused"
                      ELSE IF waits THEN "queued" ELSE "done"
  BY <1>2 DEF CrInv, CrTypes
<1>4. (req'[r].pc # "refused") = IsAuthorized(k, KeysFor(req'[r].asked))
  BY <1>3 DEF IsAuthorized
<1>. QED
  BY <1>1, <1>3, <1>4 DEF Arrive

\* A request is let in exactly when its key is one the text that is live gives
\* its route, and the list of models shows the route to the same callers.
THEOREM LetInAsConfigured == CrSpec => AcceptedAsConfigured
<1> DEFINE Decided ==
      \A r \in Requests : req[r].pc = "new" /\ req'[r].pc # "new" =>
       LET routes == Table(live.config)
           route  == MatchRoute(routes, req'[r].asked)
           said   == Said(Ancestry(route, routes), "api_keys")
           keys   == IF said = Unset THEN live.config.defaults.api_keys ELSE said
           let_in == keys = {} \/ req'[r].keys \subseteq keys
       IN  /\ (req'[r].pc # "refused") = let_in
           /\ \A i \in DOMAIN routes, k \in req'[r].keys : routes[i] = route =>
                (i \in Listed(live.routes, live.defaults, k)) = let_in
<1>1. ASSUME CrInv, CrNext, NEW r \in Requests, req[r].pc = "new", req'[r].pc # "new"
      PROVE  LET routes == Table(live.config)
                 route  == MatchRoute(routes, req'[r].asked)
                 said   == Said(Ancestry(route, routes), "api_keys")
                 keys   == IF said = Unset THEN live.config.defaults.api_keys ELSE said
                 let_in == keys = {} \/ req'[r].keys \subseteq keys
             IN  /\ (req'[r].pc # "refused") = let_in
                 /\ \A i \in DOMAIN routes, k \in req'[r].keys : routes[i] = route =>
                      (i \in Listed(live.routes, live.defaults, k)) = let_in
  <2> DEFINE routes == Table(live.config)
             route == MatchRoute(routes, req'[r].asked)
             keys == KeysSaid(route, routes, live.config.defaults)
  <2>1. PICK k : /\ req'[r].keys = {k}
                 /\ (req'[r].pc # "refused") = IsAuthorized(k, KeysFor(req'[r].asked))
    BY <1>1, ArrivalsDecide
  <2>2. Whole /\ IsTable(routes)
    BY <1>1, ArrivalsDecide, TextsMakeTables DEF CrInv, CrTypes
  <2>3. IsList(route.extends)
    BY <2>2, MatchedRoute
  <2>4. RouteKeys(Resolved(route, routes), live.defaults) = keys
    BY <2>2, <2>3, KeysAreSaid DEF Whole, DefaultsOf
  <2>5. KeysFor(req'[r].asked) = keys
    BY <2>2, <2>4 DEF KeysFor, Whole
  <2>6. IsAuthorized(k, keys) = (keys = {} \/ req'[r].keys \subseteq keys)
    <3> HIDE DEF keys
    <3>. QED
      BY <2>1 DEF IsAuthorized
  <2>7. ASSUME NEW i \in DOMAIN routes, routes[i] = route
        PROVE  (i \in Listed(live.routes, live.defaults, k)) = IsAuthorized(k, keys)
    BY <2>2, <2>4, <2>7 DEF Listed, Whole, IsAuthorized
  <2>8. keys = IF Said(Ancestry(route, routes), "api_keys") = Unset THEN live.config.defaults.api_keys
               ELSE Said(Ancestry(route, routes), "api_keys")
    BY DEF KeysSaid
  <2> HIDE DEF keys, route, routes
  <2>9. /\ (req'[r].pc # "refused") = (keys = {} \/ req'[r].keys \subseteq keys)
        /\ \A i \in DOMAIN routes, q \in req'[r].keys : routes[i] = route =>
             (i \in Listed(live.routes, live.defaults, q)) = (keys = {} \/ req'[r].keys \subseteq keys)
    BY <2>1, <2>5, <2>6, <2>7
  <2>. QED
    BY <2>8, <2>9 DEF route, routes
<1>2. CrInv /\ [CrNext]_crVars => [Decided]_crVars
  BY <1>1
<1>3. CrSpec => [][Decided]_crVars
  BY <1>2, ReloadInvariant, PTL DEF CrSpec
<1>. QED
  BY <1>3 DEF AcceptedAsConfigured
=============================================================================
