------------------------ MODULE ResponseFilters_proofs ------------------------
(* Safety of the response filters for any number of conversations, filters *)
(* and replies: what the stoppers look at and what they let through, and   *)
(* that the answer is put together from the replies.                       *)
(*                                                                         *)
(* Statements about sequences of any length are proved by looking at a     *)
(* shortest counterexample (LeastNumber).                                  *)
EXTENDS ResponseFilters, SequenceTheorems, WellFoundedInduction, TLAPS

Spoken == UNION {Range(r.text) : r \in Replies}
Called == UNION {Range(r.calls) : r \in Replies}
Thought == {r.why : r \in Replies}
Pieces == Spoken \cup {"fallback", "footer"}
Calls == Called \cup {XmlCall}
Whys == Thought \cup {""}

Fields == {"at", "attempt", "looping", "base", "eff", "sent", "main", "left", "resp", "body",
           "stopped", "nudged", "tries", "acc", "nCalls", "nWhy", "said"}
Places == {"idle", "calling", "failed", "filtering", "rls", "tls", "nudge", "answered"}

IsResponse(m) == /\ DOMAIN m = {"text", "calls", "why", "finish"}
                 /\ m.text \in Seq(Pieces) /\ m.calls \in Seq(Calls) /\ m.why \in Whys

Typed(q) == /\ DOMAIN q = Fields /\ q.at \in Places
            /\ q.left \subseteq Enabled /\ q.nudged \in BOOLEAN
            /\ IsResponse(q.main) /\ IsResponse(q.resp) /\ IsResponse(q.body)
            /\ q.acc \in Seq(Pieces) /\ q.said \in Seq(Pieces)
            /\ q.nCalls \in Seq(Calls) /\ q.nWhy \in Whys

\* Filters run in order: one that is to run leaves all later ones to run.  A
\* filter that waits for its retry is the one whose turn it is.
InTurn(q) ==
  /\ \A f \in q.left, g \in Enabled : Priority[f] <= Priority[g] => g \in q.left
  /\ q.at \in {"rls", "tls", "nudge"} =>
       q.at \in q.left /\ \A g \in q.left : Priority[q.at] <= Priority[g]
  /\ q.at \in {"idle", "calling", "failed"} => q.left = Enabled /\ q.stopped = {} /\ ~q.nudged
  /\ q.at = "answered" => q.left = {}

Sound(q) == Typed(q) /\ InTurn(q)

\* What the tool loop stopper has stopped, and what it has let through.
Stopping(q, sigs) ==
  /\ q.at = "tls" => q.stopped # {}
  /\ q.stopped # {} => q.at = "tls" \/ "tls" \notin q.left
  /\ "tls" \in Enabled /\ "tls" \notin q.left /\ ~q.nudged =>
       \A i \in DOMAIN q.resp.calls :
         /\ q.resp.calls[i] \notin q.stopped
         /\ q.stopped = {} => ~IsLoop(sigs, q.resp.calls[i])

\* What the answer is made of: the words of the replies.  As long as a nudge may
\* cut the text at its first footer, only footers come behind that one; and text
\* that a retry may still be added to has none.
Plain == Pieces \ {"footer"}
Ended(text) == \E n \in 0 .. Len(text) : /\ \A i \in 1 .. n : text[i] # "footer"
                                        /\ \A i \in n + 1 .. Len(text) : text[i] = "footer"
Footed(m, left) ==
  /\ Ended(m.text)
  /\ \/ m.text \in Seq(Plain)
     \/ "timestamp" \in Enabled \ left
     \/ m.calls = <<>> /\ m.why = "" /\ ("tool_rewrite" \in left => ~HasXml(m.text))
Speaking(q) ==
  /\ "nudge" \in q.left => /\ Footed(q.resp, q.left)
                           /\ q.at \in {"rls", "tls"} => q.resp.text \in Seq(Plain)
  /\ q.at \in {"filtering", "rls", "tls"} => Words(q.resp.text) = q.said
  /\ q.at = "nudge" => Words(q.acc) = q.said
  /\ q.at = "answered" => Words(q.body.text) = q.said

\* The filters that bring calls run before the stopper (as their default
\* priorities have it).
StopperLast == "tls" \in Enabled =>
  \A f \in {"rls", "tool_rewrite"} \cap Enabled : Priority[f] < Priority["tls"]

\* Where there is a nudge, which cuts a text at its first footer: the model writes
\* a footer only at the end of an answer that no stopper looks at (without calls and
\* without reasoning), and calls in the text become calls, retries are made and the
\* timestamp is set in this order (as the default priorities have it).
Quotable ==
  /\ ~FallbackMessage
  /\ "nudge" \in Enabled =>
       /\ \A r \in Replies :
            /\ Ended(r.text)
            /\ r.calls # <<>> \/ r.why # "" \/ HasXml(r.text) => "footer" \notin Range(r.text)
       /\ \A f \in {"rls", "tls"} \cap Enabled :
            /\ "timestamp" \in Enabled => Priority[f] < Priority["timestamp"]
            /\ "tool_rewrite" \in Enabled => Priority["tool_rewrite"] < Priority[f]
       /\ {"timestamp", "tool_rewrite"} \subseteq Enabled =>
            Priority["tool_rewrite"] < Priority["timestamp"]

Good(q, sigs) == /\ Sound(q)
                 /\ StopperLast => Stopping(q, sigs)
                 /\ Quotable => Speaking(q)

-----------------------------------------------------------------------------
(* Sequences.                                                              *)

\* A set of naturals that is not empty has a least element.
LEMMA LeastNumber ==
  ASSUME NEW T \in SUBSET Nat, T # {}
  PROVE  \E x \in T : \A y \in T : x <= y
<1>1. PICK x \in T : \A y \in T : ~(<<y, x>> \in OpToRel(<, Nat))
  BY WFMin, NatLessThanWellFounded, Zenon
<1>2. \A y \in T : ~(y < x)
  BY <1>1, Zenon DEF OpToRel
<1>. QED
  BY <1>2

\* The recursion of Without: what f says of the first m elements of s.
Value(s, D, f, m) == IF m = 0 THEN <<>>
                     ELSE IF s[m] \in D THEN f[m - 1] ELSE Append(f[m - 1], s[m])
Rule(s, D, n, f) == [m \in 0 .. n |-> Value(s, D, f, m)]

LEMMA RuleValues ==
  ASSUME NEW s, NEW D, NEW N \in Nat, NEW f, f = Rule(s, D, N, f)
  PROVE  \A m \in 0 .. N : f[m] = Value(s, D, f, m)
BY DEF Rule

LEMMA RuleHasASolution ==
  ASSUME NEW s, NEW D, NEW N \in Nat
  PROVE  \E f : f = Rule(s, D, N, f)
<1> DEFINE T == {n \in Nat : ~\E f : f = Rule(s, D, n, f)}
<1> SUFFICES ASSUME T # {} PROVE FALSE
  OBVIOUS
<1>1. PICK n \in T : \A y \in T : n <= y
  <2> HIDE DEF T
  <2>1. T \in SUBSET Nat
    BY DEF T
  <2>. QED
    BY <2>1, LeastNumber
<1>2. CASE n = 0
  <2> DEFINE g == [m \in 0 .. 0 |-> <<>>]
  <2>1. g = Rule(s, D, 0, g)
    BY DEF Rule, Value
  <2>. QED
    BY <1>1, <1>2, <2>1
<1>3. CASE n # 0
  <2>1. n - 1 \in Nat /\ n - 1 \notin T
    BY <1>1, <1>3
  <2>2. PICK f : f = Rule(s, D, n - 1, f)
    BY <2>1
  <2> DEFINE last == IF s[n] \in D THEN f[n - 1] ELSE Append(f[n - 1], s[n])
             g == [m \in 0 .. n |-> IF m = n THEN last ELSE f[m]]
  <2>3. \A m \in 0 .. n - 1 : f[m] = Value(s, D, f, m)
    BY <2>2, <2>1, RuleValues
  <2>4. \A m \in 0 .. n : g[m] = Value(s, D, g, m)
    <3> USE DEF Value
    <3> TAKE m \in 0 .. n
    <3>1. CASE m = 0
      BY <3>1, <1>3, <2>3
    <3>2. CASE m = n
      BY <3>2, <1>3, <2>1
    <3>3. CASE m # 0 /\ m # n
      <4>1. m \in 0 .. n - 1 /\ m - 1 \in 0 .. n - 1 /\ m - 1 # n
        BY <3>3, <1>1
      <4>2. g[m] = f[m] /\ g[m - 1] = f[m - 1]
        BY <4>1, <3>3
      <4>. QED
        BY <4>1, <4>2, <2>3
    <3>. QED
      BY <3>1, <3>2, <3>3
  <2>5. g = Rule(s, D, n, g)
    <3> HIDE DEF last
    <3>1. DOMAIN g = 0 .. n /\ g = [m \in 0 .. n |-> g[m]]
      OBVIOUS
    <3>. QED
      BY <2>4, <3>1 DEF Rule
  <2>. QED
    BY <1>1, <2>5
<1>. QED
  BY <1>2, <1>3

LEMMA WithoutRule ==
  ASSUME NEW S, NEW s \in Seq(S), NEW D
  PROVE  \E f : f = Rule(s, D, Len(s), f) /\ Without(s, D) = f[Len(s)]
<1> DEFINE k == CHOOSE f : f = Rule(s, D, Len(s), f)
<1>1. k = Rule(s, D, Len(s), k)
  BY RuleHasASolution
<1>2. Without(s, D) = k[Len(s)]
  BY DEF Without, Rule, Value
<1>. QED
  BY <1>1, <1>2

\* Without looks at one element after the other.
LEMMA WithoutEmpty == ASSUME NEW D PROVE Without(<<>>, D) = <<>>
<1>1. \E f : f = Rule(<<>>, D, 0, f) /\ Without(<<>>, D) = f[0]
  <2>1. <<>> \in Seq({}) /\ Len(<<>>) = 0
    OBVIOUS
  <2>. QED
    BY <2>1, WithoutRule
<1>. QED
  BY <1>1 DEF Rule, Value

LEMMA WithoutAppend ==
  ASSUME NEW S, NEW s \in Seq(S), NEW x \in S, NEW D
  PROVE  Without(Append(s, x), D) = IF x \in D THEN Without(s, D) ELSE Append(Without(s, D), x)
<1> DEFINE t == Append(s, x)  n == Len(s)
<1>1. t \in Seq(S) /\ Len(t) = n + 1 /\ n \in Nat /\ t[n + 1] = x /\ \A m \in 1 .. n : t[m] = s[m]
  OBVIOUS
<1>2. PICK f : f = Rule(s, D, n, f) /\ Without(s, D) = f[n]
  BY WithoutRule
<1> HIDE DEF t
<1>3. PICK g : g = Rule(t, D, n + 1, g) /\ Without(t, D) = g[n + 1]
  BY <1>1, WithoutRule
<1>f. \A m \in 0 .. n : f[m] = Value(s, D, f, m)
  BY <1>1, <1>2, RuleValues
<1>g. \A m \in 0 .. n + 1 : g[m] = Value(t, D, g, m)
  BY <1>1, <1>3, RuleValues
<1>4. f[n] = g[n]
  <2> DEFINE T == {m \in Nat : m <= n /\ f[m] # g[m]}
  <2> SUFFICES ASSUME T # {} PROVE FALSE
    BY <1>1
  <2>1. PICK m \in T : \A y \in T : m <= y
    <3> HIDE DEF T
    <3>1. T \in SUBSET Nat
      BY DEF T
    <3>. QED
      BY <3>1, LeastNumber
  <2>2. f[m] = Value(s, D, f, m) /\ g[m] = Value(t, D, g, m)
    BY <2>1, <1>f, <1>g
  <2>3. CASE m = 0
    BY <2>1, <2>2, <2>3 DEF Value
  <2>4. CASE m # 0
    <3>1. m - 1 \in Nat /\ m - 1 <= n /\ m - 1 \notin T
      BY <2>1, <2>4, <1>1
    <3>2. f[m - 1] = g[m - 1] /\ s[m] = t[m]
      BY <3>1, <2>1, <2>4, <1>1
    <3>. QED
      BY <2>1, <2>2, <2>4, <3>2 DEF Value
  <2>. QED
    BY <2>3, <2>4
<1>5. g[n + 1] = IF t[n + 1] \in D THEN g[n] ELSE Append(g[n], t[n + 1])
  BY <1>1, <1>g DEF Value
<1>. QED
  BY <1>1, <1>2, <1>3, <1>4, <1>5 DEF t

\* What is left comes from the sequence and is not in the set.
LEMMA WithoutElements ==
  ASSUME NEW S, NEW s \in Seq(S), NEW D
  PROVE  Without(s, D) \in Seq(S) /\ \A i \in DOMAIN Without(s, D) : Without(s, D)[i] \notin D
<1> DEFINE P(t) == Without(t, D) \in Seq(S) /\ \A i \in DOMAIN Without(t, D) : Without(t, D)[i] \notin D
           T == {n \in Nat : \E t \in Seq(S) : Len(t) = n /\ ~P(t)}
<1> SUFFICES ASSUME T # {} PROVE FALSE
  BY LenProperties
<1>1. PICK n \in T : \A y \in T : n <= y
  <2> HIDE DEF T
  <2>1. T \in SUBSET Nat
    BY DEF T
  <2>. QED
    BY <2>1, LeastNumber
<1>2. PICK t \in Seq(S) : Len(t) = n /\ ~P(t)
  BY <1>1
<1>3. t # <<>>
  BY <1>2, WithoutEmpty
<1>4. PICK u \in Seq(S), x \in S : t = Append(u, x) /\ Len(u) = n - 1
  <2>1. PICK u \in Seq(S), x \in S : t = Append(u, x)
    BY <1>3, SequenceEmptyOrAppend
  <2>2. Len(t) = Len(u) + 1 /\ Len(u) \in Nat
    BY <2>1, AppendProperties
  <2>3. Len(u) = n - 1
    BY <1>2, <2>2
  <2>. QED
    BY <2>1, <2>3
<1>5. P(u)
  BY <1>1, <1>4
<1>6. Without(t, D) = IF x \in D THEN Without(u, D) ELSE Append(Without(u, D), x)
  BY <1>4, WithoutAppend
<1>. QED
  BY <1>2, <1>4, <1>5, <1>6

LEMMA AppendOfConcat ==
  ASSUME NEW S, NEW a \in Seq(S), NEW b \in Seq(S), NEW x \in S
  PROVE  a \o b \in Seq(S) /\ a \o Append(b, x) = Append(a \o b, x)
<1>1. <<x>> \in Seq(S) /\ a \o b \in Seq(S)
  OBVIOUS
<1>2. Append(b, x) = b \o <<x>> /\ Append(a \o b, x) = (a \o b) \o <<x>>
  BY <1>1, AppendIsConcat
<1>. QED
  BY <1>1, <1>2, ConcatAssociative

LEMMA WithoutConcat ==
  ASSUME NEW S, NEW a \in Seq(S), NEW b \in Seq(S), NEW D
  PROVE  Without(a \o b, D) = Without(a, D) \o Without(b, D)
<1> DEFINE P(t) == Without(a \o t, D) = Without(a, D) \o Without(t, D)
           T == {n \in Nat : \E t \in Seq(S) : Len(t) = n /\ ~P(t)}
<1> SUFFICES ASSUME T # {} PROVE FALSE
  BY LenProperties
<1>1. PICK n \in T : \A y \in T : n <= y
  <2> HIDE DEF T
  <2>1. T \in SUBSET Nat
    BY DEF T
  <2>. QED
    BY <2>1, LeastNumber
<1>2. PICK t \in Seq(S) : Len(t) = n /\ ~P(t)
  BY <1>1
<1>0. Without(a, D) \in Seq(S)
  BY WithoutElements
<1>3. t # <<>>
  <2>1. a \o <<>> = a /\ Without(a, D) \o <<>> = Without(a, D)
    BY <1>0
  <2>. QED
    BY <1>2, <2>1, WithoutEmpty
<1>4. PICK u \in Seq(S), x \in S : t = Append(u, x) /\ Len(u) = n - 1
  <2>1. PICK u \in Seq(S), x \in S : t = Append(u, x)
    BY <1>3, SequenceEmptyOrAppend
  <2>2. Len(t) = Len(u) + 1 /\ Len(u) \in Nat
    BY <2>1, AppendProperties
  <2>3. Len(u) = n - 1
    BY <1>2, <2>2
  <2>. QED
    BY <2>1, <2>3
<1>5. P(u)
  BY <1>1, <1>4
<1> HIDE DEF P, T
<1>6. Without(t, D) = IF x \in D THEN Without(u, D) ELSE Append(Without(u, D), x)
  BY <1>4, WithoutAppend
<1>7. Without(a \o t, D) = IF x \in D THEN Without(a \o u, D) ELSE Append(Without(a \o u, D), x)
  <2>1. a \o u \in Seq(S) /\ a \o t = Append(a \o u, x)
    BY <1>4, AppendOfConcat
  <2> DEFINE v == a \o u
  <2>v. v \in Seq(S)
    BY <2>1
  <2> HIDE DEF v
  <2>2. Without(Append(v, x), D) = IF x \in D THEN Without(v, D) ELSE Append(Without(v, D), x)
    BY <2>v, WithoutAppend
  <2>. QED
    BY <2>1, <2>2 DEF v
<1>8. Without(u, D) \in Seq(S)
  BY WithoutElements
<1>9. Without(a, D) \o Append(Without(u, D), x) = Append(Without(a, D) \o Without(u, D), x)
  <2> DEFINE v == Without(a, D)  w == Without(u, D)
  <2>1. v \in Seq(S) /\ w \in Seq(S)
    BY <1>0, <1>8
  <2> HIDE DEF v, w
  <2>2. v \o Append(w, x) = Append(v \o w, x)
    BY <2>1, <1>4, AppendOfConcat
  <2>. QED
    BY <2>2 DEF v, w
<1>. QED
  BY <1>2, <1>5, <1>6, <1>7, <1>9 DEF P

LEMMA PrefixOf ==
  ASSUME NEW S, NEW s \in Seq(S), NEW n \in 0 .. Len(s)
  PROVE  /\ SubSeq(s, 1, n) \in Seq(S) /\ Len(SubSeq(s, 1, n)) = n
         /\ \A i \in 1 .. n : SubSeq(s, 1, n)[i] = s[i]
<1>1. \A i \in 1 .. n : s[i] \in S
  OBVIOUS
<1>. QED
  BY <1>1, SubSeqProperties

\* The pieces before the first x.
LEMMA BeforeIsPrefix ==
  ASSUME NEW S, NEW s \in Seq(S), NEW x
  PROVE  \E n \in 0 .. Len(s) : /\ Before(s, x) = IF n = Len(s) THEN s ELSE SubSeq(s, 1, n)
                                /\ n < Len(s) => s[n + 1] = x
                                /\ \A i \in 1 .. n : s[i] # x
<1> DEFINE cut == {i \in DOMAIN s : s[i] = x}
           first == CHOOSE i \in cut : \A j \in cut : i <= j
<1>1. CASE cut = {}
  <2>1. Before(s, x) = s
    BY <1>1 DEF Before
  <2>2. Len(s) \in 0 .. Len(s) /\ \A i \in 1 .. Len(s) : s[i] # x
    BY <1>1
  <2>. QED
    BY <2>1, <2>2
<1>2. CASE cut # {}
  <2>1. cut \in SUBSET Nat
    OBVIOUS
  <2>2. Before(s, x) = SubSeq(s, 1, first - 1)
    BY <1>2 DEF Before
  <2>3. first \in cut /\ \A j \in cut : first <= j
    <3> HIDE DEF cut
    <3>1. \E i \in cut : \A j \in cut : i <= j
      BY <1>2, <2>1, LeastNumber
    <3>. QED
      BY <3>1
  <2> HIDE DEF first
  <2>4. first \in 1 .. Len(s) /\ s[first] = x /\ \A i \in 1 .. first - 1 : s[i] # x
    BY <2>3
  <2>5. first - 1 \in 0 .. Len(s) /\ first - 1 < Len(s) /\ (first - 1) + 1 = first
    BY <2>4
  <2>. QED
    BY <2>2, <2>4, <2>5
<1>. QED
  BY <1>1, <1>2

LEMMA BeforeType ==
  ASSUME NEW S, NEW s \in Seq(S), NEW x
  PROVE  Before(s, x) \in Seq(S) /\ \A i \in DOMAIN Before(s, x) : Before(s, x)[i] # x
<1>1. PICK n \in 0 .. Len(s) : /\ Before(s, x) = IF n = Len(s) THEN s ELSE SubSeq(s, 1, n)
                               /\ \A i \in 1 .. n : s[i] # x
  BY BeforeIsPrefix
<1>2. CASE n = Len(s)
  BY <1>1, <1>2
<1>3. CASE n # Len(s)
  BY <1>1, <1>3, PrefixOf
<1>. QED
  BY <1>2, <1>3

\* The text without its last footers.
LEMMA UnstampedIsPrefix ==
  ASSUME NEW S, NEW text \in Seq(S)
  PROVE  \E n \in 0 .. Len(text) : /\ Unstamped(text) = SubSeq(text, 1, n)
                                   /\ \A i \in n + 1 .. Len(text) : text[i] = "footer"
<1> DEFINE Last1(n) == /\ \A i \in n + 1 .. Len(text) : text[i] = "footer"
                       /\ n > 0 => text[n] # "footer"
           T == {n \in 0 .. Len(text) : \A i \in n + 1 .. Len(text) : text[i] = "footer"}
           last == CHOOSE n \in 0 .. Len(text) : Last1(n)
<1>1. PICK n \in T : \A m \in T : n <= m
  <2>1. Len(text) \in T /\ T \in SUBSET Nat
    OBVIOUS
  <2> HIDE DEF T
  <2>. QED
    BY <2>1, LeastNumber
<1>2. Last1(n)
  <2>0. n \in 0 .. Len(text) /\ \A i \in n + 1 .. Len(text) : text[i] = "footer"
    BY <1>1
  <2> SUFFICES ASSUME n > 0, text[n] = "footer" PROVE FALSE
    BY <2>0
  <2>1. n - 1 \in 0 .. Len(text) /\ n - 1 \notin T
    <3>1. n - 1 \in 0 .. Len(text)
      BY <2>0
    <3> HIDE DEF T
    <3>. QED
      BY <3>1, <2>0, <1>1
  <2>2. \A i \in (n - 1) + 1 .. Len(text) : text[i] = "footer"
    <3> SUFFICES ASSUME NEW i \in n .. Len(text) PROVE text[i] = "footer"
      BY <2>0
    <3>1. i = n \/ i \in n + 1 .. Len(text)
      BY <2>0
    <3>. QED
      BY <3>1, <2>0
  <2>. QED
    BY <2>1, <2>2
<1>3. \E m \in 0 .. Len(text) : Last1(m)
  BY <1>1, <1>2
<1>4. last \in 0 .. Len(text) /\ Last1(last)
  <2> HIDE DEF Last1
  <2>. QED
    BY <1>3
<1>5. Unstamped(text) = SubSeq(text, 1, last)
  BY DEF Unstamped
<1>. QED
  BY <1>4, <1>5

-----------------------------------------------------------------------------
(* Replies, and what is made of them.                                      *)
LEMMA SeqOfMore == ASSUME NEW S, NEW T, S \subseteq T, NEW s \in Seq(S) PROVE s \in Seq(T)
OBVIOUS

LEMMA RepliesAre == \A r \in Replies : IsResponse(r)
<1> SUFFICES ASSUME NEW r \in Replies PROVE IsResponse(r)
  OBVIOUS
<1>1. Range(r.text) \subseteq Pieces /\ Range(r.calls) \subseteq Calls /\ r.why \in Whys
  BY DEF Pieces, Calls, Whys, Spoken, Called, Thought
<1>. QED
  BY <1>1, RepliesAssumption, SeqOfMore DEF RepliesAssumption, IsResponse

LEMMA Texts ==
  ASSUME NEW S, NEW text \in Seq(S)
  PROVE  /\ Words(text) \in Seq(S) /\ WithoutXml(text) \in Seq(S)
         /\ CutAtXml(text) \in Seq(S) /\ Unfooted(text) \in Seq(S)
         /\ Unstamped(text) \in Seq(S)
<1>1. Unstamped(text) \in Seq(S)
  BY UnstampedIsPrefix, PrefixOf
<1>. QED
  BY <1>1, WithoutElements, BeforeType DEF Words, WithoutXml, CutAtXml, Unfooted

LEMMA Marked ==
  ASSUME NEW text \in Seq(Pieces)
  PROVE  Append(text, "footer") \in Seq(Pieces) /\ Append(text, "fallback") \in Seq(Pieces)
<1>1. "footer" \in Pieces /\ "fallback" \in Pieces
  BY DEF Pieces
<1>. QED
  BY <1>1, AppendProperties

LEMMA OneElement == ASSUME NEW S, NEW x \in S PROVE <<x>> \in Seq(S)
OBVIOUS

LEMMA SmallTexts ==
  /\ <<>> \in Seq(Pieces) /\ <<"fallback">> \in Seq(Pieces)
  /\ <<>> \in Seq(Calls) /\ <<XmlCall>> \in Seq(Calls) /\ "" \in Whys
<1>1. "fallback" \in Pieces /\ XmlCall \in Calls /\ "" \in Whys
  BY DEF Pieces, Calls, Whys
<1>2. <<>> \in Seq(Pieces) /\ <<>> \in Seq(Calls)
  OBVIOUS
<1>3. <<"fallback">> \in Seq(Pieces)
  BY <1>1, OneElement
<1>4. <<XmlCall>> \in Seq(Calls)
  BY <1>1, OneElement
<1>. QED
  BY <1>1, <1>2, <1>3, <1>4

LEMMA Made == IsResponse(Nothing) /\ IsResponse(FellBack)
BY SmallTexts DEF Nothing, FellBack, IsResponse

LEMMA JoinedIs ==
  ASSUME NEW m, IsResponse(m), NEW text \in Seq(Pieces), NEW calls \in Seq(Calls), NEW why \in Whys
  PROVE  /\ IsResponse(Joined(m, text, calls, why))
         /\ Joined(m, text, calls, why).calls = calls
         /\ Joined(m, text, calls, why).text = m.text \o text
BY DEF Joined, IsResponse

LEMMA MergedIs == ASSUME NEW q, Typed(q)
                  PROVE  IsResponse(Merged(q)) /\ Merged(q).text = q.resp.text
BY DEF Merged, Typed, IsResponse

\* A filter that is done with its turn.
MyTurn(q, f) == f \in q.left /\ \A g \in q.left : Priority[f] <= Priority[g]
Passed(q, p, f, m) == /\ Sound(p) /\ p.at = "filtering" /\ p.left = q.left \ {f} /\ p.resp = m
                      /\ p.stopped = q.stopped /\ p.acc = q.acc

LEMMA OthersAreLeft ==
  ASSUME NEW q, NEW f, Sound(q), MyTurn(q, f)
  PROVE  \A h \in q.left \ {f}, g \in Enabled : Priority[h] <= Priority[g] => g \in q.left \ {f}
<1> TAKE h \in q.left \ {f}, g \in Enabled
<1> HAVE Priority[h] <= Priority[g]
<1>1. f \in Enabled /\ h \in Enabled /\ g \in q.left
  BY DEF Sound, Typed, InTurn, MyTurn
<1>2. Priority[f] <= Priority[h] /\ Priority[f] # Priority[h]
  BY <1>1, FiltersAssumption DEF MyTurn, FiltersAssumption
<1>3. Priority[f] \in Int /\ Priority[h] \in Int /\ Priority[g] \in Int
  BY <1>1, FiltersAssumption DEF FiltersAssumption
<1>4. g # f
  BY <1>2, <1>3
<1>. QED
  BY <1>1, <1>4

LEMMA PassPasses ==
  ASSUME NEW q, NEW f, NEW m, Sound(q), MyTurn(q, f), IsResponse(m)
  PROVE  Passed(q, Pass(q, f, m), f, m) /\ Pass(q, f, m).said = q.said
                                        /\ Pass(q, f, m).nudged = q.nudged
<1> DEFINE p == Pass(q, f, m)
<1>1. /\ DOMAIN p = Fields /\ p.at = "filtering" /\ p.left = q.left \ {f} /\ p.resp = m
      /\ p.stopped = q.stopped /\ p.nudged = q.nudged /\ p.main = q.main /\ p.body = q.body
      /\ p.acc = q.acc /\ p.said = q.said /\ p.nCalls = q.nCalls /\ p.nWhy = q.nWhy
  BY DEF Pass, Sound, Typed, Fields
<1> HIDE DEF p
<1>2. Typed(p)
  BY <1>1 DEF Typed, Sound, Places
<1>3. InTurn(p)
  BY <1>1, OthersAreLeft DEF InTurn
<1>4. Passed(q, p, f, m) /\ p.said = q.said /\ p.nudged = q.nudged
  BY <1>1, <1>2, <1>3 DEF Passed, Sound
<1>. QED
  BY <1>4 DEF p

LEMMA PassSaying ==
  ASSUME NEW q, NEW f, NEW m, Sound(q), MyTurn(q, f), IsResponse(m), NEW x \in Seq(Pieces)
  PROVE  LET p == [Pass(q, f, m) EXCEPT !.said = x]
         IN  Passed(q, p, f, m) /\ p.said = x /\ p.nudged = q.nudged
<1> DEFINE o == Pass(q, f, m)  p == [o EXCEPT !.said = x]
<1>1. Passed(q, o, f, m) /\ o.nudged = q.nudged
  BY PassPasses
<1> HIDE DEF o
<1>2. /\ DOMAIN p = Fields /\ p.at = o.at /\ p.left = o.left /\ p.resp = o.resp
      /\ p.stopped = o.stopped /\ p.nudged = o.nudged /\ p.main = o.main /\ p.body = o.body
      /\ p.acc = o.acc /\ p.said = x /\ p.nCalls = o.nCalls /\ p.nWhy = o.nWhy
  BY <1>1 DEF Passed, Sound, Typed, Fields
<1> HIDE DEF p
<1>3. Typed(p) /\ InTurn(p)
  BY <1>1, <1>2 DEF Passed, Sound, Typed, InTurn
<1>4. Passed(q, p, f, m) /\ p.said = x /\ p.nudged = q.nudged
  BY <1>1, <1>2, <1>3 DEF Passed, Sound
<1>. QED
  BY <1>4 DEF p, o

LEMMA NudgedIs ==
  ASSUME NEW q, Sound(q), MyTurn(q, "nudge"), NEW text \in Seq(Pieces)
  PROVE  LET p == Nudged(q, text)
         IN  /\ Sound(p) /\ p.at = "filtering" /\ p.left = q.left \ {"nudge"}
             /\ p.resp.text = text /\ p.nudged /\ p.said = q.said /\ p.stopped = q.stopped
<1> DEFINE m == [text |-> text, calls |-> q.nCalls, why |-> q.nWhy,
                 finish |-> IF q.nCalls = <<>> THEN "stop" ELSE "tool_calls"]
           o == Pass(q, "nudge", m)  p == [o EXCEPT !.nudged = TRUE]
<1>0. IsResponse(m) /\ m.text = text
  BY DEF IsResponse, Sound, Typed
<1> HIDE DEF m
<1>1. Passed(q, o, "nudge", m) /\ o.said = q.said
  BY <1>0, PassPasses
<1> HIDE DEF o
<1>2. /\ DOMAIN p = Fields /\ p.at = o.at /\ p.left = o.left /\ p.resp = o.resp
      /\ p.stopped = o.stopped /\ p.nudged /\ p.main = o.main /\ p.body = o.body
      /\ p.acc = o.acc /\ p.said = o.said /\ p.nCalls = o.nCalls /\ p.nWhy = o.nWhy
  BY <1>1 DEF Passed, Sound, Typed, Fields
<1>b. p.nudged \in BOOLEAN
  BY <1>1 DEF Passed, Sound, Typed, Fields
<1>e. p = Nudged(q, text)
  BY DEF Nudged, p, o, m
<1> HIDE DEF p
<1>3. Typed(p) /\ InTurn(p)
  BY <1>1, <1>2, <1>b DEF Passed, Sound, Typed, InTurn
<1>. QED
  BY <1>0, <1>1, <1>2, <1>3, <1>e DEF Passed, Sound

-----------------------------------------------------------------------------
(* Words.                                                                  *)

\* What is taken out first need not be taken out later.
LEMMA WithoutTwice ==
  ASSUME NEW S, NEW s \in Seq(S), NEW D, NEW E, D \subseteq E
  PROVE  Without(Without(s, D), E) = Without(s, E)
<1> DEFINE P(t) == Without(Without(t, D), E) = Without(t, E)
           T == {n \in Nat : \E t \in Seq(S) : Len(t) = n /\ ~P(t)}
<1> SUFFICES ASSUME T # {} PROVE FALSE
  BY LenProperties
<1>1. PICK n \in T : \A y \in T : n <= y
  <2> HIDE DEF T
  <2>1. T \in SUBSET Nat
    BY DEF T
  <2>. QED
    BY <2>1, LeastNumber
<1>2. PICK t \in Seq(S) : Len(t) = n /\ ~P(t)
  BY <1>1
<1>3. t # <<>>
  BY <1>2, WithoutEmpty
<1>4. PICK u \in Seq(S), x \in S : t = Append(u, x) /\ Len(u) = n - 1
  <2>1. PICK u \in Seq(S), x \in S : t = Append(u, x)
    BY <1>3, SequenceEmptyOrAppend
  <2>2. Len(t) = Len(u) + 1 /\ Len(u) \in Nat
    BY <2>1, AppendProperties
  <2>. QED
    BY <1>2, <2>1, <2>2
<1>5. P(u)
  BY <1>1, <1>4
<1> HIDE DEF P, T
<1> DEFINE v == Without(u, D)
<1>6. v \in Seq(S) /\ Without(t, D) = IF x \in D THEN v ELSE Append(v, x)
  BY <1>4, WithoutAppend, WithoutElements
<1>7. Without(t, E) = IF x \in E THEN Without(u, E) ELSE Append(Without(u, E), x)
  BY <1>4, WithoutAppend
<1>8. Without(v, E) = Without(u, E)
  BY <1>5 DEF P
<1> HIDE DEF v
<1>9. Without(Append(v, x), E) = IF x \in E THEN Without(v, E) ELSE Append(Without(v, E), x)
  BY SMTT(30), <1>4, <1>6, WithoutAppend
<1>10. Without(Without(t, D), E) = Without(t, E)
  <2>1. CASE x \in D
    BY <2>1, <1>6, <1>7, <1>8
  <2>2. CASE x \notin D
    BY <2>2, <1>6, <1>7, <1>8, <1>9
  <2>. QED
    BY <2>1, <2>2
<1>. QED
  BY <1>2, <1>10 DEF P

LEMMA WordsOf ==
  ASSUME NEW a \in Seq(Pieces), NEW b \in Seq(Pieces)
  PROVE  /\ Words(a \o b) = Words(a) \o Words(b) /\ a \o b \in Seq(Pieces)
         /\ Words(Append(a, "footer")) = Words(a) /\ Words(WithoutXml(a)) = Words(a)
         /\ Words(<<>>) = <<>> /\ Words(<<"fallback">>) = <<"fallback">>
<1>1. "footer" \in Pieces /\ "fallback" \in Pieces
  BY DEF Pieces
<1>2. Words(a \o b) = Words(a) \o Words(b) /\ a \o b \in Seq(Pieces)
  BY WithoutConcat, ConcatProperties DEF Words
<1>3. Words(Append(a, "footer")) = Words(a)
  BY <1>1, WithoutAppend DEF Words
<1>4. Words(WithoutXml(a)) = Words(a)
  <2>1. {"xml"} \subseteq {"xml", "footer"}
    OBVIOUS
  <2>. QED
    BY <2>1, WithoutTwice DEF Words, WithoutXml
<1>5. Words(<<>>) = <<>>
  BY WithoutEmpty DEF Words
<1>6. Words(<<"fallback">>) = <<"fallback">>
  <2>1. <<>> \in Seq(Pieces) /\ <<"fallback">> = Append(<<>>, "fallback")
    OBVIOUS
  <2>2. "fallback" \notin {"xml", "footer"}
    OBVIOUS
  <2> DEFINE none == <<>>
  <2> HIDE DEF none
  <2>4. none \in Seq(Pieces)
    BY <2>1 DEF none
  <2>5. Without(Append(none, "fallback"), {"xml", "footer"})
          = IF "fallback" \in {"xml", "footer"} THEN Without(none, {"xml", "footer"})
            ELSE Append(Without(none, {"xml", "footer"}), "fallback")
    BY <1>1, <2>4, WithoutAppend
  <2>3. Words(Append(<<>>, "fallback")) = Append(Words(<<>>), "fallback")
    BY <2>2, <2>5 DEF Words, none
  <2>. QED
    BY <1>5, <2>1, <2>3
<1>. QED
  BY <1>2, <1>3, <1>4, <1>5, <1>6

LEMMA PlainTexts ==
  /\ Plain \subseteq Pieces /\ <<>> \in Seq(Plain) /\ <<"fallback">> \in Seq(Plain)
  /\ \A t \in Seq(Pieces) : "footer" \notin Range(t) => t \in Seq(Plain)
  /\ \A t \in Seq(Plain) : Ended(t)
<1>1. Plain \subseteq Pieces /\ "fallback" \in Plain
  BY DEF Plain, Pieces
<1>2. ASSUME NEW t \in Seq(Pieces), "footer" \notin Range(t) PROVE t \in Seq(Plain)
  <2>1. DOMAIN t = 1 .. Len(t) /\ Len(t) \in Nat /\ \A i \in 1 .. Len(t) : t[i] \in Pieces
    OBVIOUS
  <2>2. \A i \in 1 .. Len(t) : t[i] \in Plain
    BY <1>2, <2>1 DEF Plain, Range
  <2>. QED
    BY <2>1, <2>2
<1>3. ASSUME NEW t \in Seq(Plain) PROVE Ended(t)
  <2>1. Len(t) \in 0 .. Len(t) /\ \A i \in 1 .. Len(t) : t[i] # "footer"
    BY DEF Plain
  <2>. QED
    BY <2>1 DEF Ended
<1>. QED
  BY <1>1, <1>2, <1>3, OneElement

\* What is taken out at the end of a sequence may be cut off it as well.
LEMMA WithoutTail ==
  ASSUME NEW S, NEW s \in Seq(S), NEW D, NEW k \in 0 .. Len(s),
         \A i \in k + 1 .. Len(s) : s[i] \in D
  PROVE  Without(SubSeq(s, 1, k), D) = Without(s, D)
<1> DEFINE T == {n \in Nat : k <= n /\ n <= Len(s)
                             /\ Without(SubSeq(s, 1, n), D) # Without(SubSeq(s, 1, k), D)}
<1>1. SubSeq(s, 1, Len(s)) = s
  <2>1. /\ SubSeq(s, 1, Len(s)) \in Seq(S) /\ Len(SubSeq(s, 1, Len(s))) = Len(s)
        /\ \A i \in 1 .. Len(s) : SubSeq(s, 1, Len(s))[i] = s[i]
    BY PrefixOf
  <2>. QED
    BY <2>1, SeqEqual
<1>0. T = {} => Without(SubSeq(s, 1, Len(s)), D) = Without(SubSeq(s, 1, k), D)
  <2>1. Len(s) \in Nat /\ k <= Len(s) /\ Len(s) <= Len(s)
    OBVIOUS
  <2>. QED
    BY <2>1
<1> SUFFICES ASSUME T # {} PROVE FALSE
  BY <1>0, <1>1
<1>2. PICK n \in T : \A y \in T : n <= y
  <2> HIDE DEF T
  <2>1. T \in SUBSET Nat
    BY DEF T
  <2>. QED
    BY <2>1, LeastNumber
<1>3. n # k /\ n \in Nat /\ n <= Len(s) /\ k <= n
  BY <1>2
<1>4. n - 1 \in 0 .. Len(s) /\ n \in 0 .. Len(s) /\ n - 1 \notin T /\ n \in k + 1 .. Len(s)
  BY <1>2, <1>3
<1> DEFINE a == SubSeq(s, 1, n - 1)  b == SubSeq(s, 1, n)
<1>5. b = Append(a, s[n]) /\ a \in Seq(S) /\ s[n] \in S
  <2>1. /\ a \in Seq(S) /\ Len(a) = n - 1 /\ \A i \in 1 .. n - 1 : a[i] = s[i]
        /\ b \in Seq(S) /\ Len(b) = n /\ \A i \in 1 .. n : b[i] = s[i]
    BY <1>4, PrefixOf
  <2>2. s[n] \in S
    BY <1>4
  <2> HIDE DEF a, b
  <2>3. /\ Append(a, s[n]) \in Seq(S) /\ Len(Append(a, s[n])) = n
        /\ \A i \in 1 .. n : Append(a, s[n])[i] = s[i]
    BY <1>4, <2>1, <2>2, AppendProperties
  <2>. QED
    BY <2>1, <2>2, <2>3, SeqEqual
<1>6. Without(b, D) = Without(a, D)
  <2> HIDE DEF a, b
  <2>1. Without(Append(a, s[n]), D)
          = IF s[n] \in D THEN Without(a, D) ELSE Append(Without(a, D), s[n])
    BY <1>5, WithoutAppend
  <2>. QED
    BY <1>4, <1>5, <2>1
<1>. QED
  BY <1>2, <1>3, <1>4, <1>6

LEMMA UnstampedSays ==
  ASSUME NEW text \in Seq(Pieces)
  PROVE  /\ Unstamped(text) \in Seq(Pieces) /\ Words(Unstamped(text)) = Words(text)
         /\ Words(Append(Unstamped(text), "footer")) = Words(text)
<1>1. PICK n \in 0 .. Len(text) : /\ Unstamped(text) = SubSeq(text, 1, n)
                                  /\ \A i \in n + 1 .. Len(text) : text[i] = "footer"
  BY UnstampedIsPrefix
<1>2. \A i \in n + 1 .. Len(text) : text[i] \in {"xml", "footer"}
  BY <1>1
<1>3. Words(Unstamped(text)) = Words(text)
  BY <1>1, <1>2, WithoutTail DEF Words
<1>4. Unstamped(text) \in Seq(Pieces)
  BY Texts
<1>5. Words(Append(Unstamped(text), "footer")) = Words(Unstamped(text))
  BY <1>4, WordsOf
<1>. QED
  BY <1>3, <1>4, <1>5

\* What ends in footers may be cut, cut at its first footer, get one more, or be
\* added to a text without any.
LEMMA EndedPrefix ==
  ASSUME NEW t \in Seq(Pieces), Ended(t), NEW k \in 0 .. Len(t)
  PROVE  Ended(SubSeq(t, 1, k))
<1>1. PICK n \in 0 .. Len(t) : /\ \A i \in 1 .. n : t[i] # "footer"
                               /\ \A i \in n + 1 .. Len(t) : t[i] = "footer"
  BY DEF Ended
<1> DEFINE u == SubSeq(t, 1, k)  m == IF n <= k THEN n ELSE k
<1>2. Len(u) = k /\ \A i \in 1 .. k : u[i] = t[i]
  BY PrefixOf
<1> HIDE DEF u
<1>3. m \in 0 .. Len(u) /\ (\A i \in 1 .. m : u[i] # "footer")
      /\ \A i \in m + 1 .. Len(u) : u[i] = "footer"
  BY <1>1, <1>2
<1>4. Ended(u)
  BY <1>3 DEF Ended
<1>. QED
  BY <1>4 DEF u

LEMMA EndedBefore ==
  ASSUME NEW t \in Seq(Pieces), Ended(t), NEW x
  PROVE  Ended(Before(t, x)) /\ (x = "footer" => Words(Before(t, x)) = Words(t))
<1>1. PICK k \in 0 .. Len(t) : /\ Before(t, x) = IF k = Len(t) THEN t ELSE SubSeq(t, 1, k)
                               /\ k < Len(t) => t[k + 1] = x
                               /\ \A i \in 1 .. k : t[i] # x
  BY BeforeIsPrefix
<1>2. CASE k = Len(t)
  BY <1>1, <1>2
<1>3. CASE k # Len(t)
  <2>1. Before(t, x) = SubSeq(t, 1, k) /\ k < Len(t)
    BY <1>1, <1>3
  <2>2. ASSUME x = "footer" PROVE Words(SubSeq(t, 1, k)) = Words(t)
    <3>1. PICK n \in 0 .. Len(t) : /\ \A i \in 1 .. n : t[i] # "footer"
                                   /\ \A i \in n + 1 .. Len(t) : t[i] = "footer"
      BY DEF Ended
    <3>2. k = n
      BY <1>1, <2>1, <2>2, <3>1
    <3>3. \A i \in k + 1 .. Len(t) : t[i] \in {"xml", "footer"}
      BY <3>1, <3>2
    <3>. QED
      BY <3>3, WithoutTail DEF Words
  <2>. QED
    BY <2>1, <2>2, EndedPrefix
<1>. QED
  BY <1>2, <1>3

LEMMA EndedAppend ==
  ASSUME NEW t \in Seq(Pieces), Ended(t) PROVE Ended(Append(t, "footer"))
<1>1. PICK n \in 0 .. Len(t) : /\ \A i \in 1 .. n : t[i] # "footer"
                               /\ \A i \in n + 1 .. Len(t) : t[i] = "footer"
  BY DEF Ended
<1> DEFINE u == Append(t, "footer")
<1>2. Len(u) = Len(t) + 1 /\ u[Len(t) + 1] = "footer" /\ \A i \in 1 .. Len(t) : u[i] = t[i]
  <2>1. "footer" \in Pieces
    BY DEF Pieces
  <2>. QED
    BY <2>1, AppendProperties
<1> HIDE DEF u
<1>3. n \in 0 .. Len(u) /\ (\A i \in 1 .. n : u[i] # "footer")
      /\ \A i \in n + 1 .. Len(u) : u[i] = "footer"
  BY <1>1, <1>2
<1>4. Ended(u)
  BY <1>3 DEF Ended
<1>. QED
  BY <1>4 DEF u

LEMMA EndedConcat ==
  ASSUME NEW s \in Seq(Plain), NEW t \in Seq(Pieces), Ended(t) PROVE Ended(s \o t)
<1>1. PICK n \in 0 .. Len(t) : /\ \A i \in 1 .. n : t[i] # "footer"
                               /\ \A i \in n + 1 .. Len(t) : t[i] = "footer"
  BY DEF Ended
<1> DEFINE u == s \o t
<1>2. /\ Len(u) = Len(s) + Len(t) /\ Len(s) \in Nat /\ Len(t) \in Nat
      /\ \A i \in 1 .. Len(u) : u[i] = IF i <= Len(s) THEN s[i] ELSE t[i - Len(s)]
  BY ConcatProperties
<1>3. \A i \in 1 .. Len(s) : s[i] # "footer"
  BY DEF Plain
<1> HIDE DEF u
<1> DEFINE k == Len(s) + n
<1>4. k \in 0 .. Len(u)
  BY <1>1, <1>2
<1>5. ASSUME NEW i \in 1 .. k PROVE u[i] # "footer"
  <2>1. CASE i <= Len(s)
    BY <1>2, <1>3, <1>4, <2>1
  <2>2. CASE i > Len(s)
    <3>1. i - Len(s) \in 1 .. n /\ i \in 1 .. Len(u)
      BY <1>1, <1>2, <1>4, <2>2
    <3>. QED
      BY <1>1, <1>2, <2>2, <3>1
  <2>. QED
    BY <1>2, <1>4, <2>1, <2>2
<1>6. ASSUME NEW i \in k + 1 .. Len(u) PROVE u[i] = "footer"
  <2>1. i - Len(s) \in n + 1 .. Len(t) /\ i \in 1 .. Len(u) /\ i > Len(s)
    BY <1>1, <1>2, <1>4
  <2>. QED
    BY <1>1, <1>2, <2>1
<1>7. Ended(u)
  BY <1>4, <1>5, <1>6 DEF Ended
<1>. QED
  BY <1>7 DEF u

\* What the replies bring.
LEMMA Ends ==
  ASSUME Quotable, "nudge" \in Enabled, NEW r \in Replies
  PROVE  /\ Ended(r.text)
         /\ r.calls # <<>> \/ r.why # "" \/ HasXml(r.text) => r.text \in Seq(Plain)
BY RepliesAre, PlainTexts DEF Quotable, IsResponse

-----------------------------------------------------------------------------
(* One step of one conversation.                                           *)
LetThrough(calls, stopped, sigs) ==
  \A i \in DOMAIN calls : /\ calls[i] \notin stopped
                          /\ stopped = {} => ~IsLoop(sigs, calls[i])

\* A filter other than the stopper brings calls before the stopper runs, or not at all.
LEMMA StillStopping ==
  ASSUME NEW q, NEW p, NEW f, NEW sigs, StopperLast, Sound(q), MyTurn(q, f), Stopping(q, sigs),
         q.at \in {"filtering", f},
         Sound(p), p.at = "filtering", p.left = q.left \ {f}, p.stopped = q.stopped,
         \/ f = "tls" /\ LetThrough(p.resp.calls, q.stopped, sigs)
         \/ f \in {"rls", "tool_rewrite"}
         \/ f # "tls" /\ p.nudged
         \/ f # "tls" /\ p.resp.calls = q.resp.calls /\ p.nudged = q.nudged
  PROVE  Stopping(p, sigs)
<1>1. CASE f = "tls"
  BY <1>1 DEF Stopping, LetThrough
<1>2. CASE f \in {"rls", "tool_rewrite"}
  <2>1. ASSUME "tls" \in Enabled PROVE "tls" \in q.left
    <3>1. f \in q.left /\ f \in Enabled
      BY DEF MyTurn, Sound, Typed
    <3>2. Priority[f] < Priority["tls"] /\ Priority[f] \in Int /\ Priority["tls"] \in Int
      BY <1>2, <2>1, <3>1, FiltersAssumption DEF StopperLast, FiltersAssumption
    <3>3. Priority[f] <= Priority["tls"]
      BY <3>2
    <3>. QED
      BY <2>1, <3>1, <3>3 DEF Sound, InTurn
  <2>2. "tls" \in Enabled => "tls" \in p.left
    BY <1>2, <2>1
  <2>3. p.left \subseteq Enabled /\ q.left \subseteq Enabled
    BY DEF Sound, Typed
  <2>4. p.stopped # {} => "tls" \notin p.left
    BY <1>2, <2>2 DEF Stopping
  <2>. QED
    BY <2>2, <2>4 DEF Stopping
<1>3. CASE f # "tls" /\ p.nudged
  BY <1>3 DEF Stopping
<1>4. CASE f # "tls" /\ p.resp.calls = q.resp.calls /\ p.nudged = q.nudged
  BY <1>4 DEF Stopping
<1>. QED
  BY <1>1, <1>2, <1>3, <1>4

LEMMA AtMost ==
  ASSUME NEW f \in Enabled, NEW g \in Enabled, Priority[f] < Priority[g]
  PROVE  Priority[f] <= Priority[g]
BY FiltersAssumption DEF FiltersAssumption

\* What a stopper answers, or the rewriter cuts, has no footer.
LEMMA NotFooted ==
  ASSUME NEW q, NEW f \in {"rls", "tls", "tool_rewrite"}, Quotable, Sound(q), MyTurn(q, f),
         "nudge" \in q.left,
         Footed(q.resp, q.left),
         \/ f = "rls" /\ q.resp.why # ""
         \/ f = "tls" /\ q.resp.calls # <<>>
         \/ f = "tool_rewrite" /\ HasXml(q.resp.text)
  PROVE  q.resp.text \in Seq(Plain)
<1>1. f \in q.left /\ f \in Enabled /\ "nudge" \in Enabled
  BY DEF MyTurn, Sound, Typed
<1>2. ASSUME "timestamp" \in Enabled PROVE "timestamp" \in q.left
  <2>1. Priority[f] < Priority["timestamp"]
    BY <1>1, <1>2 DEF Quotable
  <2>2. Priority[f] <= Priority["timestamp"]
    BY <1>1, <1>2, <2>1, AtMost
  <2>. QED
    BY <1>1, <1>2, <2>2 DEF Sound, InTurn
<1>. QED
  BY <1>1, <1>2 DEF Footed

\* When a stopper or the timestamp filter has its turn, the rewriter had it.
LEMMA Rewritten ==
  ASSUME NEW q, NEW f \in {"rls", "tls", "timestamp"}, Quotable, Sound(q), MyTurn(q, f),
         "nudge" \in q.left
  PROVE  "tool_rewrite" \notin q.left
<1>1. f \in q.left /\ f \in Enabled /\ "nudge" \in Enabled /\ q.left \subseteq Enabled
  BY DEF MyTurn, Sound, Typed
<1>2. ASSUME "tool_rewrite" \in q.left PROVE FALSE
  <2>1. /\ Priority["tool_rewrite"] < Priority[f] /\ Priority[f] <= Priority["tool_rewrite"]
        /\ Priority[f] \in Int /\ Priority["tool_rewrite"] \in Int
    BY <1>1, <1>2, FiltersAssumption DEF Quotable, FiltersAssumption, MyTurn
  <2>. QED
    BY <2>1
<1>. QED
  BY <1>2

LEMMA StillFooted ==
  ASSUME NEW m, NEW left, NEW f, Footed(m, left) PROVE Footed(m, left \ {f})
BY DEF Footed

Moves(c) == \E q : Good(q, Signatures(c)) /\ Set(c, q)
AllGood == /\ DOMAIN req = Convs /\ DOMAIN history = Convs
           /\ \A c \in Convs : Good(req[c], Signatures(c))

\* The filter f returns m: the response before, or one that says as much.
LEMMA PassIsGood ==
  ASSUME NEW q, NEW f, NEW m, NEW sigs, Good(q, sigs), MyTurn(q, f), q.at = "filtering",
         IsResponse(m),
         StopperLast => \/ f = "tls" /\ LetThrough(m.calls, q.stopped, sigs)
                        \/ f = "tool_rewrite"
                        \/ f # "tls" /\ m.calls = q.resp.calls,
         Words(m.text) = Words(q.resp.text),
         Quotable /\ "nudge" \in q.left \ {f} => Footed(m, q.left \ {f})
  PROVE  Good(Pass(q, f, m), sigs)
<1> DEFINE p == Pass(q, f, m)
<1>1. /\ Passed(q, p, f, m) /\ p.said = q.said /\ p.nudged = q.nudged
  BY PassPasses DEF Good
<1> HIDE DEF p
<1>2. StopperLast => Stopping(p, sigs)
  BY <1>1, StillStopping DEF Good, Passed
<1>3. Quotable => Speaking(p)
  BY <1>1 DEF Good, Speaking, Passed
<1>4. Good(p, sigs)
  BY <1>1, <1>2, <1>3 DEF Good, Passed
<1>. QED
  BY <1>4 DEF p

\* The filter f, which waited for its retry, returns m and has said x.
LEMMA RetryIsGood ==
  ASSUME NEW q, NEW f, NEW m, NEW sigs, Good(q, sigs), MyTurn(q, f), q.at = f, IsResponse(m),
         NEW x \in Seq(Pieces),
         StopperLast => \/ f = "tls" /\ LetThrough(m.calls, q.stopped, sigs)
                        \/ f = "rls"
                        \/ f # "tls" /\ m.calls = q.resp.calls,
         Quotable => Words(m.text) = x,
         Quotable /\ "nudge" \in q.left \ {f} => Footed(m, q.left \ {f})
  PROVE  /\ Good([Pass(q, f, m) EXCEPT !.said = x], sigs)
         /\ x = q.said => Good(Pass(q, f, m), sigs)
<1>0. ASSUME x = q.said PROVE Good(Pass(q, f, m), sigs)
  <2> DEFINE o == Pass(q, f, m)
  <2>1. Passed(q, o, f, m) /\ o.said = q.said /\ o.nudged = q.nudged
    BY PassPasses DEF Good
  <2> HIDE DEF o
  <2>2. StopperLast => Stopping(o, sigs)
    BY <2>1, StillStopping DEF Good, Passed
  <2>3. Quotable => Speaking(o)
    BY <1>0, <2>1 DEF Good, Speaking, Passed
  <2>4. Good(o, sigs)
    BY <2>1, <2>2, <2>3 DEF Good, Passed
  <2>. QED
    BY <2>4 DEF o
<1> DEFINE p == [Pass(q, f, m) EXCEPT !.said = x]
<1>1. Passed(q, p, f, m) /\ p.said = x /\ p.nudged = q.nudged
  BY PassSaying DEF Good
<1> HIDE DEF p
<1>2. StopperLast => Stopping(p, sigs)
  BY <1>1, StillStopping DEF Good, Passed
<1>3. Quotable => Speaking(p)
  BY <1>1 DEF Good, Speaking, Passed
<1>4. Good(p, sigs)
  BY <1>1, <1>2, <1>3 DEF Good, Passed
<1>. QED
  BY <1>0, <1>4 DEF p

LEMMA TurnOf ==
  ASSUME NEW q, Sound(q)
  PROVE  /\ q.at \in {"rls", "tls", "nudge"} => MyTurn(q, q.at)
         /\ IsResponse(q.resp) /\ q.said \in Seq(Pieces) /\ q.resp.text \in Seq(Pieces)
         /\ q.resp.calls \in Seq(Calls)
BY DEF Sound, Typed, InTurn, MyTurn, IsResponse

\* Only the place and the counters of the request change.
Same(p, q) == /\ DOMAIN p = Fields /\ p.left = q.left /\ p.main = q.main /\ p.resp = q.resp
              /\ p.body = q.body /\ p.nudged = q.nudged /\ p.said = q.said
              /\ p.nCalls = q.nCalls /\ p.nWhy = q.nWhy

LEMMA IdleIsGood == ASSUME NEW sigs PROVE Good(Idle, sigs)
<1>1. Typed(Idle)
  BY Made, SmallTexts DEF Typed, Idle, Fields, Places
<1>2. InTurn(Idle)
  BY DEF InTurn, Idle
<1>3. Stopping(Idle, sigs)
  BY DEF Stopping, Idle
<1>4. Speaking(Idle)
  BY PlainTexts DEF Speaking, Footed, Idle, Nothing
<1>. QED
  BY <1>1, <1>2, <1>3, <1>4 DEF Good, Sound

LEMMA BeforeTheFilters ==
  ASSUME NEW q, NEW p, NEW sigs, Good(q, sigs), q.at \in {"idle", "calling"},
         Same(p, q), p.acc = q.acc, p.stopped = q.stopped, p.at \in {"calling", "failed"}
  PROVE  Good(p, sigs)
<1>1. Typed(p)
  BY DEF Typed, Same, Good, Sound, Places
<1>2. InTurn(p)
  BY DEF InTurn, Same, Good, Sound
<1>3. StopperLast => Stopping(p, sigs)
  BY DEF Stopping, Same, Good
<1>4. Quotable => Speaking(p)
  BY DEF Speaking, Same, Good
<1>. QED
  BY <1>1, <1>2, <1>3, <1>4 DEF Good, Sound

LEMMA BeginMoves == ASSUME NEW c \in Convs, AllGood, Begin(c) PROVE Moves(c)
<1> DEFINE p == [Idle EXCEPT !.at = "calling", !.eff = Prompted(0), !.sent = Prompted(0)]
<1>1. Set(c, p)
  BY DEF Begin
<1>2. /\ Same(p, Idle) /\ p.acc = Idle.acc /\ p.stopped = Idle.stopped /\ p.at = "calling"
      /\ Idle.at = "idle"
  BY DEF Same, Idle, Fields
<1> HIDE DEF p
<1>3. Good(p, Signatures(c))
  BY <1>2, IdleIsGood, BeforeTheFilters
<1>. QED
  BY <1>1, <1>3 DEF Moves

LEMMA StatusFailsMoves == ASSUME NEW c \in Convs, AllGood, StatusFails(c) PROVE Moves(c)
<1> DEFINE q == req[c]
<1>1. q.at = "calling" /\ Good(q, Signatures(c)) /\ DOMAIN q = Fields
  BY DEF StatusFails, AllGood, Good, Sound, Typed
<1>2. PICK p \in {[q EXCEPT !.attempt = @ + 1, !.looping = TRUE], [q EXCEPT !.at = "failed"]} :
         Set(c, p)
  BY DEF StatusFails
<1> HIDE DEF q
<1>3. Same(p, q) /\ p.acc = q.acc /\ p.stopped = q.stopped /\ p.at \in {"calling", "failed"}
  <2>1. CASE p = [q EXCEPT !.attempt = @ + 1, !.looping = TRUE]
    BY <1>1, <2>1 DEF Same, Fields
  <2>2. CASE p = [q EXCEPT !.at = "failed"]
    BY <1>1, <2>2 DEF Same, Fields
  <2>. QED
    BY <1>2, <2>1, <2>2
<1>4. Good(p, Signatures(c))
  BY <1>1, <1>3, BeforeTheFilters
<1>. QED
  BY <1>2, <1>4 DEF Moves

LEMMA TransportFailsMoves == ASSUME NEW c \in Convs, AllGood, TransportFails(c) PROVE Moves(c)
<1> DEFINE q == req[c]  again == Prompted(q.eff)
<1>1. q.at = "calling" /\ Good(q, Signatures(c)) /\ DOMAIN q = Fields
  BY DEF TransportFails, AllGood, Good, Sound, Typed
<1>2. PICK p \in {[q EXCEPT !.attempt = @ + 1, !.base = q.eff, !.eff = again, !.sent = again],
                  [q EXCEPT !.at = "failed"]} :
         Set(c, p)
  BY DEF TransportFails
<1> HIDE DEF q, again
<1>3. Same(p, q) /\ p.acc = q.acc /\ p.stopped = q.stopped /\ p.at \in {"calling", "failed"}
  <2>1. CASE p = [q EXCEPT !.attempt = @ + 1, !.base = q.eff, !.eff = again, !.sent = again]
    BY <1>1, <2>1 DEF Same, Fields
  <2>2. CASE p = [q EXCEPT !.at = "failed"]
    BY <1>1, <2>2 DEF Same, Fields
  <2>. QED
    BY <1>2, <2>1, <2>2
<1>4. Good(p, Signatures(c))
  BY <1>1, <1>3, BeforeTheFilters
<1>. QED
  BY <1>2, <1>4 DEF Moves

LEMMA UpstreamAnswersMoves == ASSUME NEW c \in Convs, AllGood, UpstreamAnswers(c) PROVE Moves(c)
<1> DEFINE q == req[c]
<1>1. q.at = "calling" /\ Good(q, Signatures(c)) /\ DOMAIN q = Fields
  BY DEF UpstreamAnswers, AllGood, Good, Sound, Typed
<1>2. PICK r \in Replies : Set(c, [q EXCEPT !.at = "filtering", !.main = r, !.resp = r,
                                            !.said = Words(r.text)])
  BY DEF UpstreamAnswers
<1> DEFINE p == [q EXCEPT !.at = "filtering", !.main = r, !.resp = r, !.said = Words(r.text)]
<1> HIDE DEF q
<1>3. IsResponse(r) /\ Words(r.text) \in Seq(Pieces)
  BY <1>2, RepliesAre, Texts DEF IsResponse
<1>4. /\ DOMAIN p = Fields /\ p.at = "filtering" /\ p.main = r /\ p.resp = r
      /\ p.said = Words(r.text) /\ p.left = q.left /\ p.body = q.body /\ p.nudged = q.nudged
      /\ p.nCalls = q.nCalls /\ p.nWhy = q.nWhy /\ p.acc = q.acc /\ p.stopped = q.stopped
  BY <1>1 DEF Fields
<1>5. q.left = Enabled /\ q.stopped = {} /\ ~q.nudged
  BY <1>1 DEF Good, Sound, InTurn
<1>p. Set(c, p)
  BY <1>2
<1> HIDE DEF p
<1>6. Sound(p)
  BY <1>1, <1>3, <1>4, <1>5 DEF Good, Sound, Typed, InTurn, Places
<1>7. Stopping(p, Signatures(c))
  BY <1>4, <1>5 DEF Stopping
<1>8. Quotable => Speaking(p)
  <2>1. p.left \subseteq Enabled
    BY <1>4, <1>5
  <2>. QED
    BY <1>2, <1>4, <2>1, Ends DEF Speaking, Footed
<1>. QED
  BY <1>6, <1>7, <1>8, <1>p DEF Moves, Good

-----------------------------------------------------------------------------
(* The filters that call nobody.                                           *)
LEMMA CurrentIs ==
  ASSUME NEW c \in Convs, NEW f, AllGood, Current(c, f)
  PROVE  /\ req[c].at = "filtering" /\ MyTurn(req[c], f) /\ Good(req[c], Signatures(c))
         /\ Sound(req[c]) /\ f \in Enabled
BY DEF AllGood, Current, MyTurn, Good, Sound, Typed

\* A filter that returns what it got.
LEMMA LeaveIt ==
  ASSUME NEW c \in Convs, NEW f, AllGood, Current(c, f), Set(c, Pass(req[c], f, req[c].resp)),
         f = "tls" => Looping(c) = {}
  PROVE  Moves(c)
<1> DEFINE q == req[c]
<1>1. q.at = "filtering" /\ MyTurn(q, f) /\ Good(q, Signatures(c)) /\ Sound(q) /\ f \in Enabled
  BY CurrentIs
<1>2. ASSUME StopperLast, f = "tls" PROVE LetThrough(q.resp.calls, q.stopped, Signatures(c))
  <2>1. q.stopped = {}
    BY <1>1, <1>2 DEF Good, Stopping, MyTurn
  <2>2. {i \in DOMAIN q.resp.calls : IsLoop(Signatures(c), q.resp.calls[i])} = {}
    BY <1>2 DEF Looping
  <2>. QED
    BY <2>1, <2>2 DEF LetThrough
<1>3. Quotable /\ "nudge" \in q.left \ {f} => Footed(q.resp, q.left \ {f})
  BY <1>1, StillFooted DEF Good, Speaking
<1>s. Set(c, Pass(q, f, q.resp))
  OBVIOUS
<1> HIDE DEF q
<1>4. IsResponse(q.resp)
  BY <1>1, TurnOf
<1>5. Good(Pass(q, f, q.resp), Signatures(c))
  BY <1>1, <1>2, <1>3, <1>4, PassIsGood
<1>. QED
  BY <1>5, <1>s DEF Moves

LEMMA PassFilterMoves == ASSUME NEW c \in Convs, AllGood, PassFilter(c) PROVE Moves(c)
BY LeaveIt DEF PassFilter

LEMMA RlsPassesMoves == ASSUME NEW c \in Convs, AllGood, RlsPasses(c) PROVE Moves(c)
BY LeaveIt DEF RlsPasses

LEMMA TlsPassesMoves == ASSUME NEW c \in Convs, AllGood, TlsPasses(c) PROVE Moves(c)
BY LeaveIt DEF TlsPasses

LEMMA NudgePassesMoves == ASSUME NEW c \in Convs, AllGood, NudgePasses(c) PROVE Moves(c)
BY LeaveIt DEF NudgePasses

LEMMA RunRewriteMoves == ASSUME NEW c \in Convs, AllGood, RunRewrite(c) PROVE Moves(c)
<1> DEFINE q == req[c]  f == "tool_rewrite"
           m == [q.resp EXCEPT !.text = WithoutXml(@), !.calls = <<XmlCall>>]
<1>1. q.at = "filtering" /\ MyTurn(q, f) /\ Good(q, Signatures(c)) /\ Sound(q) /\ f \in Enabled
  BY CurrentIs DEF RunRewrite
<1>2. CASE ~HasXml(q.resp.text)
  BY <1>2, LeaveIt DEF RunRewrite
<1>3. CASE HasXml(q.resp.text)
  <2>s. Set(c, Pass(q, f, m))
    BY <1>3 DEF RunRewrite
  <2>1. Quotable /\ "nudge" \in q.left => q.resp.text \in Seq(Plain)
    BY <1>1, <1>3, NotFooted DEF Good, Speaking
  <2> HIDE DEF q
  <2>2. IsResponse(q.resp) /\ q.resp.text \in Seq(Pieces)
    BY <1>1, TurnOf
  <2>3. WithoutXml(q.resp.text) \in Seq(Pieces) /\ Words(WithoutXml(q.resp.text)) = Words(q.resp.text)
    BY <2>2, Texts, WordsOf
  <2>4. IsResponse(m) /\ m.text = WithoutXml(q.resp.text)
    BY <2>2, <2>3, SmallTexts DEF IsResponse
  <2>5. Quotable /\ "nudge" \in q.left \ {f} => Footed(m, q.left \ {f})
    <3>1. Quotable /\ "nudge" \in q.left => m.text \in Seq(Plain)
      BY <2>1, <2>4, Texts
    <3>. QED
      BY <3>1, PlainTexts DEF Footed
  <2> HIDE DEF m
  <2>6. Good(Pass(q, f, m), Signatures(c))
    BY <1>1, <2>3, <2>4, <2>5, PassIsGood
  <2>. QED
    BY <2>6, <2>s DEF Moves
<1>. QED
  BY <1>2, <1>3

LEMMA RunTimestampMoves == ASSUME NEW c \in Convs, AllGood, RunTimestamp(c) PROVE Moves(c)
<1> DEFINE q == req[c]  f == "timestamp"  t == Unstamped(q.resp.text)
           m == [q.resp EXCEPT !.text = Append(t, "footer")]
<1>1. q.at = "filtering" /\ MyTurn(q, f) /\ Good(q, Signatures(c)) /\ Sound(q) /\ f \in Enabled
  BY CurrentIs DEF RunTimestamp
<1>2. CASE t = <<>> /\ (q.resp.calls # <<>> \/ q.resp.text = <<>>)
  BY <1>2, LeaveIt DEF RunTimestamp
<1>3. CASE ~(t = <<>> /\ (q.resp.calls # <<>> \/ q.resp.text = <<>>))
  <2>s. Set(c, Pass(q, f, m))
    BY <1>3 DEF RunTimestamp
  <2>1. Quotable /\ "nudge" \in q.left => Ended(q.resp.text)
    BY <1>1 DEF Good, Speaking, Footed
  <2> HIDE DEF q
  <2>2. IsResponse(q.resp) /\ q.resp.text \in Seq(Pieces)
    BY <1>1, TurnOf
  <2>3. t \in Seq(Pieces) /\ Words(Append(t, "footer")) = Words(q.resp.text)
    BY <2>2, UnstampedSays
  <2>a. Append(t, "footer") \in Seq(Pieces)
    BY <2>3, Marked
  <2>b. Quotable /\ "nudge" \in q.left => Ended(Append(t, "footer"))
    <3>1. PICK n \in 0 .. Len(q.resp.text) : t = SubSeq(q.resp.text, 1, n)
      BY <2>2, UnstampedIsPrefix
    <3>2. Quotable /\ "nudge" \in q.left => Ended(t)
      BY <2>1, <2>2, <3>1, EndedPrefix
    <3> HIDE DEF t
    <3>. QED
      BY <2>3, <3>2, EndedAppend
  <2> HIDE DEF t
  <2>4. IsResponse(m) /\ m.text = Append(t, "footer") /\ m.calls = q.resp.calls
    BY <2>2, <2>a DEF IsResponse
  <2>5. Quotable /\ "nudge" \in q.left \ {f} => Footed(m, q.left \ {f})
    BY <1>1, <2>b, <2>4 DEF Footed
  <2> HIDE DEF m
  <2>6. Good(Pass(q, f, m), Signatures(c))
    BY <1>1, <2>3, <2>4, <2>5, PassIsGood
  <2>. QED
    BY <2>6, <2>s DEF Moves
<1>. QED
  BY <1>2, <1>3

-----------------------------------------------------------------------------
(* The filters that call upstream again.                                   *)
Asking == {"rls", "tls", "nudge"}

\* A filter waits for its (next) retry.
LEMMA WaitIsGood ==
  ASSUME NEW q, NEW p, NEW f \in Asking, NEW sigs, Good(q, sigs), MyTurn(q, f),
         q.at \in {"filtering", f}, p.at = f,
         DOMAIN p = Fields, p.left = q.left, p.main = q.main, p.resp = q.resp, p.body = q.body,
         p.nudged = q.nudged, p.nCalls \in Seq(Calls), p.nWhy \in Whys,
         p.acc \in Seq(Pieces), p.said \in Seq(Pieces),
         f = "tls" => p.stopped # {}, f # "tls" => p.stopped = q.stopped,
         f # "nudge" => p.said = q.said,
         Quotable /\ f = "nudge" => Words(p.acc) = p.said,
         Quotable /\ f # "nudge" /\ "nudge" \in q.left => q.resp.text \in Seq(Plain)
  PROVE  Good(p, sigs)
<1>1. Typed(p)
  BY DEF Typed, Good, Sound, Places, Asking
<1>2. InTurn(p)
  BY DEF InTurn, Good, Sound, MyTurn, Asking
<1>3. StopperLast => Stopping(p, sigs)
  BY DEF Stopping, Good, MyTurn, Asking
<1>4. Quotable => Speaking(p)
  BY DEF Speaking, Good, Asking
<1>. QED
  BY <1>1, <1>2, <1>3, <1>4 DEF Good, Sound

LEMMA RlsDetectsMoves == ASSUME NEW c \in Convs, AllGood, RlsDetects(c) PROVE Moves(c)
<1> DEFINE q == req[c]  p == Retrying(q, "rls")
<1>1. q.at = "filtering" /\ MyTurn(q, "rls") /\ Good(q, Signatures(c)) /\ Sound(q)
  BY CurrentIs DEF RlsDetects
<1>p. Quotable /\ "nudge" \in q.left => q.resp.text \in Seq(Plain)
  BY <1>1, NotFooted DEF Good, Speaking, RlsDetects
<1>s. Set(c, p)
  BY DEF RlsDetects
<1> HIDE DEF q
<1>2. /\ DOMAIN p = Fields /\ p.at = "rls" /\ p.left = q.left /\ p.main = q.main
      /\ p.resp = q.resp /\ p.body = q.body /\ p.nudged = q.nudged /\ p.nCalls = q.nCalls
      /\ p.nWhy = q.nWhy /\ p.acc = q.acc /\ p.said = q.said /\ p.stopped = q.stopped
  BY <1>1 DEF Retrying, Sound, Typed, Fields
<1> HIDE DEF p
<1>3. Good(p, Signatures(c))
  BY <1>1, <1>2, <1>p, WaitIsGood DEF Asking, Sound, Typed
<1>. QED
  BY <1>3, <1>s DEF Moves

LEMMA TlsDetectsMoves == ASSUME NEW c \in Convs, AllGood, TlsDetects(c) PROVE Moves(c)
<1> DEFINE q == req[c]  loops == Looping(c)  p == [Retrying(q, "tls") EXCEPT !.stopped = loops]
<1>1. q.at = "filtering" /\ MyTurn(q, "tls") /\ Good(q, Signatures(c)) /\ Sound(q)
      /\ loops # {}
  BY CurrentIs DEF TlsDetects
<1>p. Quotable /\ "nudge" \in q.left => q.resp.text \in Seq(Plain)
  <2>1. q.resp.calls # <<>>
    <3>1. PICK i \in DOMAIN q.resp.calls : TRUE
      BY <1>1 DEF Looping
    <3>. QED
      BY <3>1
  <2>. QED
    BY <1>1, <2>1, NotFooted DEF Good, Speaking
<1>s. Set(c, p)
  BY DEF TlsDetects
<1> HIDE DEF q, loops
<1>2. /\ DOMAIN p = Fields /\ p.at = "tls" /\ p.left = q.left /\ p.main = q.main
      /\ p.resp = q.resp /\ p.body = q.body /\ p.nudged = q.nudged /\ p.nCalls = q.nCalls
      /\ p.nWhy = q.nWhy /\ p.acc = q.acc /\ p.said = q.said /\ p.stopped = loops
  BY <1>1 DEF Retrying, Sound, Typed, Fields
<1> HIDE DEF p
<1>3. Good(p, Signatures(c))
  BY <1>1, <1>2, <1>p, WaitIsGood DEF Asking, Sound, Typed
<1>. QED
  BY <1>3, <1>s DEF Moves

LEMMA NudgeMoves == ASSUME NEW c \in Convs, AllGood, Nudge(c) PROVE Moves(c)
<1> DEFINE q == req[c]  t == Unfooted(q.resp.text)  p == [Retrying(q, "nudge") EXCEPT !.acc = t]
<1>1. q.at = "filtering" /\ MyTurn(q, "nudge") /\ Good(q, Signatures(c)) /\ Sound(q)
      /\ "nudge" \in Enabled
  BY CurrentIs DEF Nudge
<1>s. Set(c, p)
  BY DEF Nudge
<1> HIDE DEF q
<1>t. t \in Seq(Pieces)
  BY <1>1, TurnOf, Texts
<1>u. Quotable => Words(t) = q.said
  <2>1. "nudge" \in q.left /\ q.resp.text \in Seq(Pieces)
    BY <1>1, TurnOf DEF MyTurn
  <2>2. Quotable => Ended(q.resp.text) /\ Words(q.resp.text) = q.said
    BY <1>1, <2>1 DEF Good, Speaking, Footed
  <2>. QED
    BY <2>1, <2>2, EndedBefore DEF Unfooted
<1> HIDE DEF t
<1>2. /\ DOMAIN p = Fields /\ p.at = "nudge" /\ p.left = q.left /\ p.main = q.main
      /\ p.resp = q.resp /\ p.body = q.body /\ p.nudged = q.nudged /\ p.nCalls = q.nCalls
      /\ p.nWhy = q.nWhy /\ p.acc = t /\ p.said = q.said /\ p.stopped = q.stopped
  BY <1>1 DEF Retrying, Sound, Typed, Fields
<1> HIDE DEF p
<1>3. Good(p, Signatures(c))
  BY <1>1, <1>2, <1>t, <1>u, WaitIsGood DEF Asking, Sound, Typed
<1>. QED
  BY <1>3, <1>s DEF Moves

\* Words of the stopper's message, which has no calls.
LEMMA FellBackIs ==
  ASSUME NEW q, NEW f, NEW sigs, Good(q, sigs), f \in {"rls", "tls"}, q.at = f
  PROVE  Good([Pass(q, f, FellBack) EXCEPT !.said = <<"fallback">>], sigs)
<1>1. Sound(q) /\ MyTurn(q, f)
  BY TurnOf DEF Good
<1>2. /\ IsResponse(FellBack) /\ <<"fallback">> \in Seq(Pieces)
      /\ Words(<<"fallback">>) = <<"fallback">>
  BY Made, SmallTexts, WordsOf
<1>3. FellBack.calls = <<>> /\ FellBack.text = <<"fallback">> /\ <<"fallback">> \in Seq(Plain)
  BY PlainTexts DEF FellBack
<1>4. LetThrough(FellBack.calls, q.stopped, sigs) /\ Footed(FellBack, q.left \ {f})
  <2>1. DOMAIN FellBack.calls = {}
    BY <1>3
  <2>2. Ended(FellBack.text) /\ FellBack.text \in Seq(Plain)
    BY <1>3, PlainTexts
  <2>. QED
    BY <2>1, <2>2 DEF LetThrough, Footed
<1> DEFINE m == FellBack  x == <<"fallback">>
<1>5. m.text = x
  BY <1>3
<1> HIDE DEF m, x
<1>6. Good([Pass(q, f, m) EXCEPT !.said = x], sigs)
  BY <1>1, <1>2, <1>4, <1>5, RetryIsGood DEF m, x
<1>. QED
  BY <1>6 DEF m, x

LEMMA RlsFailsMoves == ASSUME NEW c \in Convs, AllGood, RlsFails(c) PROVE Moves(c)
<1>1. Good(req[c], Signatures(c)) /\ req[c].at = "rls"
      /\ Set(c, [Pass(req[c], "rls", FellBack) EXCEPT !.said = <<"fallback">>])
  BY DEF RlsFails, AllGood
<1>. QED
  BY <1>1, FellBackIs DEF Moves

\* What a retry adds to the response: its text, and the calls it may bring.
LEMMA JoinIsGood ==
  ASSUME NEW q, NEW f \in {"rls", "tls"}, NEW sigs, Good(q, sigs), q.at = f,
         NEW text \in Seq(Pieces), NEW calls \in Seq(Calls), NEW why \in Whys,
         f = "tls" /\ StopperLast => LetThrough(calls, q.stopped, sigs),
         Quotable /\ "nudge" \in Enabled =>
           Ended(text) /\ (calls # <<>> \/ why # "" => text \in Seq(Plain))
  PROVE  LET m == Joined(q.resp, text, calls, why)
             x == q.said \o Words(text)
         IN  /\ Good([Pass(q, f, m) EXCEPT !.said = x], sigs)
             /\ x = q.said => Good(Pass(q, f, m), sigs)
<1> DEFINE m == Joined(q.resp, text, calls, why)  x == q.said \o Words(text)
<1>1. /\ Sound(q) /\ MyTurn(q, f) /\ IsResponse(q.resp) /\ q.said \in Seq(Pieces)
      /\ q.resp.text \in Seq(Pieces)
  BY TurnOf DEF Good
<1>2. IsResponse(m) /\ m.calls = calls /\ m.text = q.resp.text \o text
  <2> DEFINE before == q.resp
  <2>1. IsResponse(before)
    BY <1>1
  <2> HIDE DEF before
  <2>2. LET n == Joined(before, text, calls, why)
        IN  IsResponse(n) /\ n.calls = calls /\ n.text = before.text \o text
    BY <2>1, JoinedIs
  <2>. QED
    BY <2>2 DEF before
<1>3. Words(m.text) = Words(q.resp.text) \o Words(text) /\ Words(text) \in Seq(Pieces)
  BY <1>1, <1>2, WordsOf, Texts, ZenonT(30)
<1>4. x \in Seq(Pieces) /\ (Quotable => Words(m.text) = x)
  BY <1>1, <1>3, ConcatProperties DEF Good, Speaking
<1>5. ASSUME Quotable, "nudge" \in q.left \ {f} PROVE Footed(m, q.left \ {f})
  <2>1. q.resp.text \in Seq(Plain) /\ "nudge" \in Enabled /\ "tool_rewrite" \notin q.left
    BY <1>1, <1>5, Rewritten DEF Good, Speaking, Sound, Typed
  <2>2. Ended(text) /\ (calls # <<>> \/ why # "" => text \in Seq(Plain))
    BY <1>5, <2>1
  <2>3. Ended(m.text) /\ (calls # <<>> \/ why # "" => m.text \in Seq(Plain))
    BY <1>2, <2>1, <2>2, EndedConcat, ConcatProperties
  <2>4. m.why = why
    BY DEF Joined
  <2>. QED
    BY <1>2, <2>1, <2>3, <2>4 DEF Footed
<1> HIDE DEF m, x
<1>6. /\ Good([Pass(q, f, m) EXCEPT !.said = x], sigs)
      /\ x = q.said => Good(Pass(q, f, m), sigs)
  BY <1>1, <1>2, <1>4, <1>5, RetryIsGood
<1>. QED
  BY <1>6 DEF m, x

LEMMA RlsReturnsMoves == ASSUME NEW c \in Convs, AllGood, RlsReturns(c) PROVE Moves(c)
<1> DEFINE q == req[c]
<1>1. Good(q, Signatures(c)) /\ q.at = "rls"
  BY DEF RlsReturns, AllGood
<1>2. PICK r \in Replies :
        Set(c, [Pass(q, "rls", Joined(q.resp, r.text, r.calls, r.why))
                  EXCEPT !.said = @ \o Words(r.text)])
  BY DEF RlsReturns
<1>3. /\ IsResponse(r)
      /\ Quotable /\ "nudge" \in Enabled =>
           Ended(r.text) /\ (r.calls # <<>> \/ r.why # "" => r.text \in Seq(Plain))
  BY <1>2, RepliesAre, Ends
<1> HIDE DEF q
<1> DEFINE m == Joined(q.resp, r.text, r.calls, r.why)  o == Pass(q, "rls", m)
           p == [o EXCEPT !.said = q.said \o Words(r.text)]
<1>4. Good(p, Signatures(c))
  BY <1>1, <1>3, JoinIsGood DEF IsResponse
<1>5. o.said = q.said /\ DOMAIN o = Fields
  BY <1>1 DEF Pass, Good, Sound, Typed, Fields
<1>6. Set(c, [o EXCEPT !.said = @ \o Words(r.text)])
  BY <1>2
<1> HIDE DEF o
<1>7. Set(c, p)
  BY <1>5, <1>6
<1>. QED
  BY <1>4, <1>7 DEF Moves

\* The new calls of a retry, and its text.
LEMMA RetryOfTheStopper ==
  ASSUME NEW q, NEW r \in Replies
  PROVE  /\ NewCalls(q, AsCalls(r)) \in Seq(Calls) /\ AsText(r) \in Seq(Pieces) /\ r.why \in Whys
         /\ \A i \in DOMAIN NewCalls(q, AsCalls(r)) : NewCalls(q, AsCalls(r))[i] \notin q.stopped
         /\ Quotable /\ "nudge" \in Enabled =>
              /\ Ended(AsText(r))
              /\ NewCalls(q, AsCalls(r)) # <<>> \/ r.why # "" => AsText(r) \in Seq(Plain)
<1>1. IsResponse(r)
  BY RepliesAre
<1>2. AsCalls(r) \in Seq(Calls)
  BY <1>1, SmallTexts DEF AsCalls, IsResponse
<1>3. AsText(r) \in Seq(Pieces)
  BY <1>1, Texts DEF AsText, IsResponse
<1>4. ASSUME Quotable, "nudge" \in Enabled
      PROVE  /\ Ended(AsText(r))
             /\ AsCalls(r) # <<>> \/ r.why # "" => AsText(r) \in Seq(Plain)
  <2>1. /\ Ended(r.text) /\ r.text \in Seq(Pieces)
        /\ r.calls # <<>> \/ r.why # "" \/ HasXml(r.text) => r.text \in Seq(Plain)
    BY <1>1, <1>4, Ends DEF IsResponse
  <2>2. Ended(CutAtXml(r.text)) /\ (r.text \in Seq(Plain) => CutAtXml(r.text) \in Seq(Plain))
    BY <2>1, EndedBefore, Texts DEF CutAtXml
  <2>. QED
    BY <2>1, <2>2 DEF AsText, AsCalls
<1>6. AsCalls(r) = <<>> => NewCalls(q, AsCalls(r)) = <<>>
  BY WithoutEmpty DEF NewCalls
<1> DEFINE calls == AsCalls(r)  stopped == q.stopped
<1> HIDE DEF calls, stopped
<1>5. /\ Without(calls, stopped) \in Seq(Calls)
      /\ \A i \in DOMAIN Without(calls, stopped) : Without(calls, stopped)[i] \notin stopped
  BY <1>2, WithoutElements DEF calls
<1>. QED
  BY <1>1, <1>3, <1>4, <1>5, <1>6 DEF NewCalls, IsResponse, calls, stopped

LEMMA TlsReturnsMoves == ASSUME NEW c \in Convs, AllGood, TlsReturns(c) PROVE Moves(c)
<1> DEFINE q == req[c]
<1>1. Good(q, Signatures(c)) /\ q.at = "tls"
  BY DEF TlsReturns, AllGood
<1>2. PICK r \in Replies :
        LET calls == AsCalls(r)
            new == NewCalls(q, calls)
        IN  Set(c, IF calls # <<>> /\ new = <<>>
                   THEN [Pass(q, "tls", FellBack) EXCEPT !.said = <<"fallback">>]
                   ELSE [Pass(q, "tls", Joined(q.resp, AsText(r), new, r.why))
                           EXCEPT !.said = @ \o Words(AsText(r))])
  BY DEF TlsReturns
<1> HIDE DEF q
<1> DEFINE new == NewCalls(q, AsCalls(r))  text == AsText(r)
           m == Joined(q.resp, text, new, r.why)  o == Pass(q, "tls", m)
           p == [o EXCEPT !.said = q.said \o Words(text)]
<1>3. /\ new \in Seq(Calls) /\ text \in Seq(Pieces) /\ r.why \in Whys
      /\ \A i \in DOMAIN new : new[i] \notin q.stopped
      /\ Quotable /\ "nudge" \in Enabled =>
           Ended(text) /\ (new # <<>> \/ r.why # "" => text \in Seq(Plain))
  BY <1>2, RetryOfTheStopper
<1>4. CASE AsCalls(r) # <<>> /\ new = <<>>
  <2>1. Set(c, [Pass(q, "tls", FellBack) EXCEPT !.said = <<"fallback">>])
    BY <1>2, <1>4
  <2>. QED
    BY <1>1, <2>1, FellBackIs DEF Moves
<1>5. CASE ~(AsCalls(r) # <<>> /\ new = <<>>)
  <2>1. StopperLast => LetThrough(new, q.stopped, Signatures(c))
    BY <1>1, <1>3 DEF LetThrough, Good, Stopping
  <2>s. Set(c, [o EXCEPT !.said = @ \o Words(text)])
    BY <1>2, <1>5
  <2>2. o.said = q.said /\ DOMAIN o = Fields
    BY <1>1 DEF Pass, Good, Sound, Typed, Fields
  <2> HIDE DEF new, text
  <2>3. Good(p, Signatures(c))
    BY <1>1, <1>3, <2>1, JoinIsGood
  <2> HIDE DEF o
  <2>4. Set(c, p)
    BY <2>s, <2>2
  <2>. QED
    BY <2>3, <2>4 DEF Moves
<1>. QED
  BY <1>4, <1>5

LEMMA TlsFailsMoves == ASSUME NEW c \in Convs, AllGood, TlsFails(c) PROVE Moves(c)
<1> DEFINE q == req[c]
<1>1. Good(q, Signatures(c)) /\ q.at = "tls"
  BY DEF TlsFails, AllGood
<1>2. CASE Set(c, [Pass(q, "tls", FellBack) EXCEPT !.said = <<"fallback">>])
  BY <1>1, <1>2, FellBackIs DEF Moves
<1>3. CASE Set(c, Pass(q, "tls", Joined(q.resp, <<>>, <<>>, "")))
  <2> HIDE DEF q
  <2> DEFINE none == <<>>
  <2>1. /\ none \in Seq(Pieces) /\ none \in Seq(Calls) /\ none \in Seq(Plain) /\ "" \in Whys
        /\ Ended(none) /\ LetThrough(none, q.stopped, Signatures(c))
    <3>1. DOMAIN none = {}
      OBVIOUS
    <3>2. /\ none \in Seq(Pieces) /\ none \in Seq(Calls) /\ none \in Seq(Plain) /\ "" \in Whys
          /\ Ended(none)
      BY SmallTexts, PlainTexts
    <3> HIDE DEF none
    <3>3. LetThrough(none, q.stopped, Signatures(c))
      BY <3>1 DEF LetThrough
    <3>. QED
      BY <3>2, <3>3
  <2>2. q.said \o Words(none) = q.said
    <3>1. Words(none) = <<>> /\ q.said \in Seq(Pieces)
      BY <1>1, <2>1, WordsOf DEF Good, Sound, Typed
    <3>. QED
      BY <3>1
  <2>s. Set(c, Pass(q, "tls", Joined(q.resp, none, none, "")))
    BY <1>3
  <2> HIDE DEF none
  <2>3. Good(Pass(q, "tls", Joined(q.resp, none, none, "")), Signatures(c))
    BY <1>1, <2>1, <2>2, JoinIsGood
  <2>. QED
    BY <2>3, <2>s DEF Moves
<1>. QED
  BY <1>2, <1>3 DEF TlsFails

-----------------------------------------------------------------------------
(* Nudge.                                                                  *)
LEMMA NudgedIsGood ==
  ASSUME NEW q, NEW sigs, Good(q, sigs), q.at = "nudge", NEW text \in Seq(Pieces),
         Quotable => Words(text) = q.said
  PROVE  Good(Nudged(q, text), sigs)
<1> DEFINE p == Nudged(q, text)
<1>1. Sound(q) /\ MyTurn(q, "nudge")
  BY TurnOf DEF Good
<1>2. /\ Sound(p) /\ p.at = "filtering" /\ p.left = q.left \ {"nudge"}
      /\ p.resp.text = text /\ p.nudged /\ p.said = q.said /\ p.stopped = q.stopped
  BY <1>1, NudgedIs
<1> HIDE DEF p
<1>3. StopperLast => Stopping(p, sigs)
  BY <1>1, <1>2, StillStopping DEF Good
<1>4. Quotable => Speaking(p)
  BY <1>2 DEF Speaking
<1>5. Good(p, sigs)
  BY <1>2, <1>3, <1>4 DEF Good
<1>. QED
  BY <1>5 DEF p

LEMMA GaveUpIsGood ==
  ASSUME NEW q, NEW sigs, Good(q, sigs), q.at = "nudge", NEW text \in Seq(Pieces),
         Quotable => Words(text) = q.said
  PROVE  Good(GaveUp(q, text), sigs)
<1>1. CASE FallbackMessage
  <2> DEFINE more == Append(text, "fallback")
  <2>1. more \in Seq(Pieces) /\ ~Quotable
    BY <1>1, Marked DEF Quotable
  <2>2. GaveUp(q, text) = Nudged(q, more)
    BY <1>1 DEF GaveUp
  <2> HIDE DEF more
  <2>3. Good(Nudged(q, more), sigs)
    BY <2>1, NudgedIsGood
  <2>. QED
    BY <2>2, <2>3
<1>2. CASE ~FallbackMessage
  <2>1. GaveUp(q, text) = Nudged(q, text)
    BY <1>2 DEF GaveUp
  <2>. QED
    BY <2>1, NudgedIsGood
<1>. QED
  BY <1>1, <1>2

LEMMA NudgeReturnsMoves == ASSUME NEW c \in Convs, AllGood, NudgeReturns(c) PROVE Moves(c)
<1> DEFINE q == req[c]
           text(r) == IF XmlAtEnd(q, r) THEN CutAtXml(r.text) ELSE r.text
           calls(r) == IF XmlAtEnd(q, r) THEN <<XmlCall>> ELSE r.calls
           q1(r) == [q EXCEPT !.tries = @ + 1,
                              !.nCalls = IF calls(r) # <<>> THEN calls(r) ELSE @,
                              !.nWhy = IF r.why # "" THEN r.why ELSE @,
                              !.acc = q.acc \o text(r),
                              !.said = @ \o Words(text(r))]
           out(r) == IF text(r) = <<>> /\ calls(r) = <<>> THEN GaveUp(q1(r), q.acc)
                     ELSE IF ~Lazy(text(r)) THEN Nudged(q1(r), q1(r).acc)
                     ELSE IF q1(r).tries = MaxAttempts THEN GaveUp(q1(r), q1(r).acc)
                     ELSE Retrying(q1(r), "nudge")
<1>1. Good(q, Signatures(c)) /\ q.at = "nudge" /\ DOMAIN q = Fields
  BY DEF NudgeReturns, AllGood, Good, Sound, Typed
<1>2. PICK r \in Replies : Set(c, out(r))
  BY DEF NudgeReturns
<1>3. IsResponse(r)
  BY <1>2, RepliesAre
<1> HIDE DEF q
<1> DEFINE t == text(r)  k == calls(r)  u == q1(r)
<1>4. t \in Seq(Pieces) /\ k \in Seq(Calls)
  BY <1>3, Texts, SmallTexts DEF IsResponse
<1>e. u = [q EXCEPT !.tries = @ + 1,
                    !.nCalls = IF k # <<>> THEN k ELSE @,
                    !.nWhy = IF r.why # "" THEN r.why ELSE @,
                    !.acc = q.acc \o t,
                    !.said = @ \o Words(t)]
  OBVIOUS
<1>s. Set(c, IF t = <<>> /\ k = <<>> THEN GaveUp(u, q.acc)
             ELSE IF ~Lazy(t) THEN Nudged(u, u.acc)
             ELSE IF u.tries = MaxAttempts THEN GaveUp(u, u.acc)
             ELSE Retrying(u, "nudge"))
  BY <1>2
<1> HIDE DEF text, calls, q1, out, t, k, u
<1>5. /\ DOMAIN u = Fields /\ u.at = "nudge" /\ u.left = q.left /\ u.main = q.main
      /\ u.resp = q.resp /\ u.body = q.body /\ u.nudged = q.nudged
      /\ u.nCalls = (IF k # <<>> THEN k ELSE q.nCalls)
      /\ u.nWhy = (IF r.why # "" THEN r.why ELSE q.nWhy)
      /\ u.acc = q.acc \o t /\ u.said = q.said \o Words(t) /\ u.stopped = q.stopped
  BY <1>1, <1>e DEF Fields
<1>6. u.nCalls \in Seq(Calls) /\ u.nWhy \in Whys
  BY <1>1, <1>3, <1>4, <1>5 DEF IsResponse, Good, Sound, Typed
<1>7. q.acc \in Seq(Pieces) /\ q.said \in Seq(Pieces) /\ "nudge" \in Enabled /\ MyTurn(q, "nudge")
  BY <1>1, TurnOf DEF Good, Sound, Typed, MyTurn
<1>8. /\ u.acc \in Seq(Pieces) /\ Words(u.acc) = Words(q.acc) \o Words(t)
      /\ Words(t) \in Seq(Pieces) /\ u.said \in Seq(Pieces)
  <2>1. Words(t) \in Seq(Pieces)
    BY <1>4, Texts
  <2> DEFINE acc == q.acc
  <2> HIDE DEF acc
  <2>2. Words(acc \o t) = Words(acc) \o Words(t) /\ acc \o t \in Seq(Pieces)
    BY <1>4, <1>7, WordsOf DEF acc
  <2>3. q.said \o Words(t) \in Seq(Pieces)
    BY <1>7, <2>1, ConcatProperties
  <2>. QED
    BY <1>5, <2>1, <2>2, <2>3 DEF acc
<1>9. Quotable => Words(u.acc) = u.said /\ Words(q.acc) = q.said
  BY <1>1, <1>5, <1>8 DEF Good, Speaking
<1>10. Good(u, Signatures(c))
  BY <1>1, <1>5, <1>6, <1>7, <1>8, <1>9, WaitIsGood DEF Asking
<1>11. CASE t = <<>> /\ k = <<>>
  <2>1. u.said = q.said
    <3>1. Words(t) = <<>>
      BY <1>4, <1>11, WordsOf
    <3>2. q.said \o <<>> = q.said
      BY <1>7
    <3>. QED
      BY <1>5, <3>1, <3>2
  <2>2. Good(GaveUp(u, q.acc), Signatures(c))
    BY <1>5, <1>7, <1>9, <1>10, <2>1, GaveUpIsGood
  <2>. QED
    BY <1>11, <1>s, <2>2 DEF Moves
<1>12. CASE ~(t = <<>> /\ k = <<>>) /\ ~Lazy(t)
  <2>1. Good(Nudged(u, u.acc), Signatures(c))
    BY <1>5, <1>8, <1>9, <1>10, NudgedIsGood
  <2>. QED
    BY <1>12, <1>s, <2>1 DEF Moves
<1>13. CASE ~(t = <<>> /\ k = <<>>) /\ Lazy(t) /\ u.tries = MaxAttempts
  <2>1. Good(GaveUp(u, u.acc), Signatures(c))
    BY <1>5, <1>8, <1>9, <1>10, GaveUpIsGood
  <2>. QED
    BY <1>13, <1>s, <2>1 DEF Moves
<1>14. CASE ~(t = <<>> /\ k = <<>>) /\ Lazy(t) /\ u.tries # MaxAttempts
  <2> DEFINE p == Retrying(u, "nudge")
  <2>1. /\ DOMAIN p = Fields /\ p.at = "nudge" /\ p.left = u.left /\ p.main = u.main
        /\ p.resp = u.resp /\ p.body = u.body /\ p.nudged = u.nudged /\ p.nCalls = u.nCalls
        /\ p.nWhy = u.nWhy /\ p.acc = u.acc /\ p.said = u.said /\ p.stopped = u.stopped
    BY <1>5 DEF Retrying, Fields
  <2> HIDE DEF p
  <2>2. MyTurn(u, "nudge")
    BY <1>5, <1>7 DEF MyTurn
  <2>3. Good(p, Signatures(c))
    BY <1>5, <1>6, <1>8, <1>9, <1>10, <2>1, <2>2, WaitIsGood DEF Asking
  <2>4. Good(Retrying(u, "nudge"), Signatures(c))
    BY <2>3 DEF p
  <2>. QED
    BY <1>14, <1>s, <2>4 DEF Moves
<1>. QED
  BY <1>11, <1>12, <1>13, <1>14

LEMMA NudgeFailsMoves == ASSUME NEW c \in Convs, AllGood, NudgeFails(c) PROVE Moves(c)
<1> DEFINE q == req[c]
<1>1. Good(q, Signatures(c)) /\ q.at = "nudge"
  BY DEF NudgeFails, AllGood
<1>2. Sound(q) /\ MyTurn(q, "nudge") /\ IsResponse(q.resp) /\ q.resp.text \in Seq(Pieces)
  BY <1>1, TurnOf DEF Good
<1>3. CASE Set(c, GaveUp(q, q.acc))
  <2>1. Good(GaveUp(q, q.acc), Signatures(c))
    BY <1>1, <1>2, GaveUpIsGood DEF Good, Speaking, Sound, Typed
  <2>. QED
    BY <1>3, <2>1 DEF Moves
<1>4. CASE Set(c, [Pass(q, "nudge", q.resp) EXCEPT !.said = Words(q.resp.text)])
  <2> DEFINE x == Words(q.resp.text)
  <2>1. x \in Seq(Pieces)
    BY <1>2, Texts
  <2> HIDE DEF q
  <2>3. Good([Pass(q, "nudge", q.resp) EXCEPT !.said = x], Signatures(c))
    BY <1>1, <1>2, <2>1, RetryIsGood
  <2>. QED
    BY <1>4, <2>3 DEF Moves
<1>. QED
  BY <1>3, <1>4 DEF NudgeFails

LEMMA AnswerMoves == ASSUME NEW c \in Convs, AllGood, Answer(c) PROVE Moves(c)
<1> DEFINE q == req[c]  m == Merged(q)  p == [q EXCEPT !.at = "answered", !.body = m]
<1>1. Good(q, Signatures(c)) /\ Typed(q) /\ q.at = "filtering" /\ q.left = {} /\ Set(c, p)
  BY DEF Answer, AllGood, Good, Sound
<1>2. IsResponse(m) /\ m.text = q.resp.text
  BY <1>1, MergedIs
<1> HIDE DEF q, m
<1>3. /\ DOMAIN p = Fields /\ p.at = "answered" /\ p.left = q.left /\ p.main = q.main
      /\ p.resp = q.resp /\ p.body = m /\ p.nudged = q.nudged /\ p.nCalls = q.nCalls
      /\ p.nWhy = q.nWhy /\ p.acc = q.acc /\ p.said = q.said /\ p.stopped = q.stopped
  BY <1>1 DEF Typed, Fields
<1>s. Set(c, p)
  BY <1>1
<1> HIDE DEF p
<1>4. Sound(p)
  BY <1>1, <1>2, <1>3 DEF Good, Sound, Typed, InTurn, Places
<1>5. StopperLast => Stopping(p, Signatures(c))
  BY <1>1, <1>3 DEF Good, Stopping
<1>6. Quotable => Speaking(p)
  BY <1>1, <1>2, <1>3 DEF Good, Speaking
<1>. QED
  BY <1>4, <1>5, <1>6, <1>s DEF Good, Moves

-----------------------------------------------------------------------------
(* The requests of all conversations.                                      *)
LEMMA StepOfOne == ASSUME NEW c \in Convs, AllGood, Moves(c), UNCHANGED history PROVE AllGood'
<1>1. PICK q : Good(q, Signatures(c)) /\ req' = [req EXCEPT ![c] = q]
  BY DEF Moves, Set
<1>2. DOMAIN req' = Convs /\ req'[c] = q /\ \A d \in Convs \ {c} : req'[d] = req[d]
  BY <1>1 DEF AllGood
<1>3. \A d \in Convs : Signatures(d)' = Signatures(d)
  BY DEF Signatures
<1>4. \A d \in Convs : Good(req'[d], Signatures(d))
  BY <1>1, <1>2 DEF AllGood
<1>. QED
  BY <1>2, <1>3, <1>4 DEF AllGood

LEMMA NextTurnStep == ASSUME NEW c \in Convs, AllGood, NextTurn(c) PROVE AllGood'
<1>1. req' = [req EXCEPT ![c] = Idle]
  BY DEF NextTurn, Set
<1>2. DOMAIN req' = Convs /\ req'[c] = Idle /\ \A d \in Convs \ {c} : req'[d] = req[d]
  BY <1>1 DEF AllGood
<1>3. DOMAIN history' = Convs /\ \A d \in Convs \ {c} : history'[d] = history[d]
  BY DEF NextTurn, AllGood
<1>4. \A d \in Convs \ {c} : Signatures(d)' = Signatures(d)
  BY <1>3 DEF Signatures
<1>5. Good(Idle, Signatures(c)')
  BY IdleIsGood
<1>6. \A d \in Convs : Good(req'[d], Signatures(d)')
  BY <1>2, <1>4, <1>5 DEF AllGood
<1>. QED
  BY <1>2, <1>3, <1>6 DEF AllGood

LEMMA AllGoodHolds == Spec => []AllGood
<1>1. Init => AllGood
  BY IdleIsGood DEF Init, AllGood
<1>2. AllGood /\ [Next]_vars => AllGood'
  <2> SUFFICES ASSUME AllGood, [Next]_vars PROVE AllGood'
    OBVIOUS
  <2>1. CASE UNCHANGED vars
    BY <2>1 DEF vars, AllGood, Signatures
  <2>2. CASE Next
    <3>1. PICK c \in Convs :
             \/ Begin(c) \/ UpstreamAnswers(c) \/ StatusFails(c) \/ TransportFails(c)
             \/ PassFilter(c) \/ RunRewrite(c) \/ RunTimestamp(c)
             \/ RlsPasses(c) \/ RlsDetects(c) \/ RlsReturns(c) \/ RlsFails(c)
             \/ TlsPasses(c) \/ TlsDetects(c) \/ TlsReturns(c) \/ TlsFails(c)
             \/ NudgePasses(c) \/ Nudge(c) \/ NudgeReturns(c) \/ NudgeFails(c)
             \/ Answer(c) \/ NextTurn(c)
      BY <2>2 DEF Next
    <3>2. CASE NextTurn(c)
      BY <3>2, NextTurnStep
    <3>3. CASE \/ Begin(c) \/ UpstreamAnswers(c) \/ StatusFails(c) \/ TransportFails(c)
               \/ PassFilter(c) \/ RunRewrite(c) \/ RunTimestamp(c)
      <4>1. Moves(c)
        BY <3>3, BeginMoves, UpstreamAnswersMoves, StatusFailsMoves, TransportFailsMoves,
           PassFilterMoves, RunRewriteMoves, RunTimestampMoves, Zenon
      <4>2. UNCHANGED history
        BY <3>3 DEF Begin, UpstreamAnswers, StatusFails, TransportFails, PassFilter,
                    RunRewrite, RunTimestamp, Only
      <4>. QED
        BY <4>1, <4>2, StepOfOne
    <3>4. CASE \/ RlsPasses(c) \/ RlsDetects(c) \/ RlsReturns(c) \/ RlsFails(c)
               \/ TlsPasses(c) \/ TlsDetects(c) \/ TlsReturns(c) \/ TlsFails(c)
      <4>1. Moves(c)
        BY <3>4, RlsPassesMoves, RlsDetectsMoves, RlsReturnsMoves, RlsFailsMoves,
           TlsPassesMoves, TlsDetectsMoves, TlsReturnsMoves, TlsFailsMoves, Zenon
      <4>2. UNCHANGED history
        BY <3>4 DEF RlsPasses, RlsDetects, RlsReturns, RlsFails, TlsPasses, TlsDetects,
                    TlsReturns, TlsFails, Only
      <4>. QED
        BY <4>1, <4>2, StepOfOne
    <3>5. CASE \/ NudgePasses(c) \/ Nudge(c) \/ NudgeReturns(c) \/ NudgeFails(c) \/ Answer(c)
      <4>1. Moves(c)
        BY <3>5, NudgePassesMoves, NudgeMoves, NudgeReturnsMoves, NudgeFailsMoves,
           AnswerMoves, Zenon
      <4>2. UNCHANGED history
        BY <3>5 DEF NudgePasses, Nudge, NudgeReturns, NudgeFails, Answer, Only
      <4>. QED
        BY <4>1, <4>2, StepOfOne
    <3>. QED
      BY <3>1, <3>2, <3>3, <3>4, <3>5
  <2>. QED
    BY <2>1, <2>2
<1>. QED
  BY <1>1, <1>2, PTL DEF Spec

\* Where the stopper runs after the filters that bring calls, no call that it
\* stopped, and no looping call at all, is in what the filters hand over.
THEOREM LoopsAreStopped == StopperLast => (Spec => []NoLoopGetsThrough)
<1> SUFFICES ASSUME StopperLast PROVE Spec => []NoLoopGetsThrough
  OBVIOUS
<1>1. AllGood => NoLoopGetsThrough
  <2> SUFFICES ASSUME AllGood, NEW c \in Convs, req[c].at = "answered",
                      "tls" \in Enabled, ~req[c].nudged
               PROVE  \A i \in DOMAIN req[c].resp.calls :
                         /\ req[c].resp.calls[i] \notin req[c].stopped
                         /\ req[c].stopped = {} => ~IsLoop(Signatures(c), req[c].resp.calls[i])
    BY DEF NoLoopGetsThrough
  <2>1. Stopping(req[c], Signatures(c)) /\ "tls" \notin req[c].left
    BY DEF AllGood, Good, Sound, InTurn
  <2>. QED
    BY <2>1 DEF Stopping
<1>2. Spec => []AllGood
  BY AllGoodHolds
<1>. QED
  BY <1>1, <1>2, PTL

\* Where a nudge finds nothing behind a footer, the answer is the replies that were
\* accepted, each once and in their order.
THEOREM AnswersAreQuoted == Quotable => (Spec => []SaidOnceInOrder)
<1> SUFFICES ASSUME Quotable PROVE Spec => []SaidOnceInOrder
  OBVIOUS
<1>1. AllGood => SaidOnceInOrder
  BY DEF AllGood, Good, Speaking, SaidOnceInOrder
<1>2. Spec => []AllGood
  BY AllGoodHolds
<1>. QED
  BY <1>1, <1>2, PTL

-----------------------------------------------------------------------------
(* The reasoning cache.                                                    *)

\* What the stopper compares with was said: the turns of a conversation by itself,
\* and the entries of the cache by one that had their key then.
Entries(saids) == {[key |-> KeyOf(s.opening), why |-> s.why] : s \in saids}
SaidBy(c, why, saids) == \E s \in saids : s.conv = c /\ s.why = why
Reasoned ==
  /\ opening \in [Convs -> Seq(Messages)]
  /\ \A s \in seen : s.opening \in Seq(Messages)
  /\ \A c \in Convs : /\ history[c] \in Seq(Range(history[c]))
                       /\ \A i \in DOMAIN history[c] : SaidBy(c, history[c][i].why, seen)
  /\ cache \in Seq(Entries(seen))

LEMMA GreatestNumber ==
  ASSUME NEW n \in Nat, NEW T \in SUBSET (1 .. n), T # {}
  PROVE  \E x \in T : \A y \in T : y <= x
<1> DEFINE R == {m \in Nat : n - m \in T}
<1>1. PICK t \in T : t \in 1 .. n
  OBVIOUS
<1>2. n - t \in R
  BY <1>1
<1>3. PICK m \in R : \A y \in R : m <= y
  <2>1. R \in SUBSET Nat /\ R # {}
    BY <1>2
  <2> HIDE DEF R
  <2>. QED
    BY <2>1, LeastNumber
<1>4. n - m \in T /\ m \in Nat
  BY <1>3
<1>5. ASSUME NEW y \in T PROVE y <= n - m
  <2>1. y \in 1 .. n /\ n - y \in R
    BY <1>5
  <2>2. m <= n - y
    BY <1>3, <2>1
  <2>. QED
    BY <1>4, <2>1, <2>2
<1>. QED
  BY <1>4, <1>5

LEMMA LongerSeq ==
  ASSUME NEW h, h \in Seq(Range(h)), NEW x
  PROVE  /\ Append(h, x) \in Seq(Range(Append(h, x)))
         /\ \A i \in DOMAIN Append(h, x) : \/ i \in DOMAIN h /\ Append(h, x)[i] = h[i]
                                           \/ Append(h, x)[i] = x
<1> DEFINE S == Range(h) \cup {x}  t == Append(h, x)
<1>1. h \in Seq(S) /\ x \in S
  BY SeqOfMore
<1> HIDE DEF S
<1>2. /\ t \in Seq(S) /\ Len(t) = Len(h) + 1 /\ t[Len(h) + 1] = x
      /\ \A i \in 1 .. Len(h) : t[i] = h[i]
  BY <1>1, AppendProperties
<1> HIDE DEF t
<1>3. DOMAIN t = 1 .. Len(t) /\ DOMAIN h = 1 .. Len(h) /\ Len(h) \in Nat /\ Len(t) \in Nat
  BY <1>1, <1>2
<1>4. t \in Seq(Range(t))
  <2>1. \A i \in 1 .. Len(t) : t[i] \in Range(t)
    BY <1>3 DEF Range
  <2>. QED
    BY <1>2, <1>3, <2>1
<1>5. \A i \in DOMAIN t : \/ i \in DOMAIN h /\ t[i] = h[i]
                          \/ t[i] = x
  BY <1>2, <1>3
<1>. QED
  BY <1>4, <1>5 DEF t

LEMMA IndicesOf ==
  ASSUME NEW S, NEW s \in Seq(S)
  PROVE  DOMAIN s = 1 .. Len(s) /\ Len(s) \in Nat /\ \A i \in DOMAIN s : s[i] \in S
OBVIOUS

LEMMA EntriesAre ==
  ASSUME NEW saids
  PROVE  /\ \A e \in Entries(saids) : \E s \in saids : KeyOf(s.opening) = e.key /\ s.why = e.why
         /\ \A s \in saids : [key |-> KeyOf(s.opening), why |-> s.why] \in Entries(saids)
         /\ \A more : saids \subseteq more => Entries(saids) \subseteq Entries(more)
BY DEF Entries

\* The key is the start of the conversation, if it has one.
LEMMA KeyIsStart ==
  ASSUME NEW o, \A i \in DOMAIN o : i \in Nat
  PROVE  \/ Start(o) = {} /\ KeyOf(o) = "default"
         \/ Start(o) = {KeyOf(o)}
<1> DEFINE told == {i \in DOMAIN o : HeadOf[o[i]] # ""}
           first == CHOOSE i \in told : \A j \in told : i <= j
<1>1. CASE told = {}
  BY <1>1 DEF Start, KeyOf
<1>2. CASE told # {}
  <2>1. told \in SUBSET Nat
    OBVIOUS
  <2>2. first \in told /\ \A j \in told : first <= j
    <3> HIDE DEF told
    <3>1. \E i \in told : \A j \in told : i <= j
      BY <1>2, <2>1, LeastNumber
    <3>. QED
      BY <3>1
  <2>3. KeyOf(o) = HeadOf[o[first]]
    BY <1>2 DEF KeyOf
  <2> HIDE DEF first
  <2>4. \A i \in DOMAIN o :
          (HeadOf[o[i]] # "" /\ \A j \in DOMAIN o : j < i => HeadOf[o[j]] = "") <=> i = first
    <3> SUFFICES ASSUME NEW i \in DOMAIN o
                 PROVE  (HeadOf[o[i]] # "" /\ \A j \in DOMAIN o : j < i => HeadOf[o[j]] = "")
                          <=> i = first
      OBVIOUS
    <3>1. first \in DOMAIN o /\ HeadOf[o[first]] # ""
      BY <2>2
    <3>2. \A j \in DOMAIN o : HeadOf[o[j]] # "" => first <= j
      BY <2>2
    <3> HIDE DEF told
    <3>3. i \in Nat /\ first \in Nat
      BY <3>1
    <3>4. ASSUME HeadOf[o[i]] # "", \A j \in DOMAIN o : j < i => HeadOf[o[j]] = ""
          PROVE  i = first
      <4>1. first <= i
        BY <3>2, <3>4
      <4>2. ~ (first < i)
        BY <3>1, <3>4
      <4>. QED
        BY <3>3, <4>1, <4>2
    <3>5. ASSUME i = first PROVE HeadOf[o[i]] # "" /\ \A j \in DOMAIN o : j < i => HeadOf[o[j]] = ""
      <4>1. ASSUME NEW j \in DOMAIN o, j < i PROVE HeadOf[o[j]] = ""
        <5>1. j \in Nat
          OBVIOUS
        <5>2. HeadOf[o[j]] # "" => i <= j
          BY <3>2, <3>5
        <5>3. ~ (i <= j)
          BY <3>3, <4>1, <5>1
        <5>. QED
          BY <5>2, <5>3
      <4>. QED
        BY <3>1, <3>5, <4>1
    <3>. QED
      BY <3>4, <3>5
  <2>5. first \in DOMAIN o
    BY <2>2
  <2>. QED
    BY <2>3, <2>4, <2>5 DEF Start
<1>. QED
  BY <1>1, <1>2

LEMMA SameKeyIsAlike ==
  ASSUME NEW o \in Seq(Messages), NEW p \in Seq(Messages), KeyOf(o) = KeyOf(p)
  PROVE  Alike(o, p)
<1>0. (\A i \in DOMAIN o : i \in Nat) /\ (\A i \in DOMAIN p : i \in Nat)
  <2>1. ASSUME NEW q \in Seq(Messages), NEW i \in DOMAIN q PROVE i \in Nat
    BY <2>1, IndicesOf
  <2>. QED
    BY <2>1
<1>1. CASE Start(o) = {KeyOf(o)} /\ Start(p) = {KeyOf(p)}
  BY <1>1 DEF Alike
<1>2. CASE Start(o) = {} /\ KeyOf(o) = "default" /\ Start(p) = {KeyOf(p)}
  BY <1>2 DEF Alike
<1>3. CASE Start(o) = {KeyOf(o)} /\ Start(p) = {} /\ KeyOf(p) = "default"
  BY <1>3 DEF Alike
<1>4. CASE Start(o) = {} /\ Start(p) = {}
  BY <1>4 DEF Alike
<1>. QED
  BY <1>0, <1>1, <1>2, <1>3, <1>4, KeyIsStart

\* Reasoning that was said by this conversation, or by one that had begun alike.
Own(c, why, saids) == \E s \in saids : s.why = why /\ (s.conv = c \/ Alike(s.opening, opening[c]))

\* What the stopper finds was said there.
LEMMA FoundIsOwn ==
  ASSUME NEW c \in Convs, Reasoned, LastReasoning(c) # ""
  PROVE  Own(c, LastReasoning(c), seen)
<1> DEFINE h == history[c]  said == {i \in DOMAIN h : h[i].why # ""}
<1>0. h \in Seq(Range(h)) /\ \A i \in DOMAIN h : SaidBy(c, h[i].why, seen)
  BY DEF Reasoned
<1>1. CASE said # {}
  <2> DEFINE last == CHOOSE i \in said : \A j \in said : j <= i
  <2>1. LastReasoning(c) = h[last].why
    BY <1>1 DEF LastReasoning
  <2>2. said \in SUBSET (1 .. Len(h)) /\ Len(h) \in Nat
    <3> DEFINE S == Range(h)
    <3> HIDE DEF S
    <3>0. h \in Seq(S)
      BY <1>0 DEF S
    <3>1. DOMAIN h = 1 .. Len(h) /\ Len(h) \in Nat
      BY <3>0, IndicesOf
    <3>. QED
      BY <3>1
  <2>3. last \in said
    <3> HIDE DEF said
    <3>1. \E i \in said : \A j \in said : j <= i
      BY <1>1, <2>2, GreatestNumber
    <3>. QED
      BY <3>1
  <2>. QED
    BY <1>0, <2>1, <2>3 DEF SaidBy, Own
<1>2. CASE said = {}
  <2> DEFINE hits == {i \in DOMAIN cache : cache[i].key = KeyOf(opening[c])}
             hit == CHOOSE i \in hits : TRUE
  <2>1. LastReasoning(c) = IF hits = {} THEN "" ELSE cache[hit].why
    BY <1>2 DEF LastReasoning, Cached
  <2>2. hits # {}
    BY <2>1
  <2>3. hit \in hits
    BY <2>2
  <2>4. cache[hit] \in Entries(seen) /\ cache[hit].key = KeyOf(opening[c])
    <3>1. hit \in DOMAIN cache /\ cache[hit].key = KeyOf(opening[c])
      BY <2>3
    <3> HIDE DEF hit, hits
    <3>2. cache \in Seq(Entries(seen))
      BY DEF Reasoned
    <3>. QED
      BY <3>1, <3>2, IndicesOf
  <2>5. PICK s \in seen : KeyOf(s.opening) = cache[hit].key /\ s.why = cache[hit].why
    <3> DEFINE e == cache[hit]
    <3>1. e \in Entries(seen)
      BY <2>4
    <3> HIDE DEF e
    <3>2. \E s \in seen : KeyOf(s.opening) = e.key /\ s.why = e.why
      BY <3>1, EntriesAre
    <3>. QED
      BY <3>2 DEF e
  <2>6. Alike(s.opening, opening[c])
    <3>1. s.opening \in Seq(Messages) /\ opening[c] \in Seq(Messages)
      BY DEF Reasoned
    <3>. QED
      BY <2>4, <2>5, <3>1, SameKeyIsAlike
  <2>. QED
    BY <2>1, <2>2, <2>5, <2>6 DEF Own
<1>. QED
  BY <1>1, <1>2

\* The cache keeps to what was said, whatever it forgets.
LEMMA CacheKeeps ==
  ASSUME NEW more, NEW key, NEW why, seen \subseteq more,
         [key |-> key, why |-> why] \in Entries(more), cache \in Seq(Entries(seen))
  PROVE  CacheWith(key, why) \in Seq(Entries(more))
<1> DEFINE S == Entries(more)  e == [key |-> key, why |-> why]
<1>1. cache \in Seq(S) /\ e \in S
  BY EntriesAre, SeqOfMore
<1>2. CASE \E i \in DOMAIN cache : cache[i].key = key
  <2>1. CacheWith(key, why) = [i \in DOMAIN cache |-> IF cache[i].key = key THEN e ELSE cache[i]]
    BY <1>2 DEF CacheWith
  <2> HIDE DEF S, e
  <2>2. DOMAIN cache = 1 .. Len(cache) /\ Len(cache) \in Nat /\ \A i \in 1 .. Len(cache) : cache[i] \in S
    BY <1>1
  <2>. QED
    BY <1>1, <2>1, <2>2 DEF S
<1>3. CASE ~\E i \in DOMAIN cache : cache[i].key = key
  <2> DEFINE t == Append(cache, e)
  <2>1. CacheWith(key, why) = Bounded(t)
    BY <1>3 DEF CacheWith
  <2> HIDE DEF S, e
  <2>2. t \in Seq(S) /\ Len(t) \in Nat
    BY <1>1, AppendProperties
  <2> HIDE DEF t
  <2>3. CASE Len(t) > CacheLimit
    <3>1. Len(t) - CacheKeep + 1 \in 1 .. Len(t) + 1
      BY <2>2, <2>3, CacheAssumption DEF CacheAssumption
    <3>2. \A i \in Len(t) - CacheKeep + 1 .. Len(t) : t[i] \in S
      BY <2>2, <3>1
    <3>3. SubSeq(t, Len(t) - CacheKeep + 1, Len(t)) \in Seq(S)
      BY <2>2, <3>1, <3>2, SubSeqProperties
    <3>. QED
      BY <2>1, <2>3, <3>3 DEF Bounded, S
  <2>4. CASE ~(Len(t) > CacheLimit)
    BY <2>1, <2>2, <2>4 DEF Bounded, S
  <2>. QED
    BY <2>3, <2>4
<1>. QED
  BY <1>2, <1>3

\* A request waits for the reasoning stopper's retry only where it detected a loop.
Elsewhere(c) == \E q : q.at # "rls" /\ Set(c, q)

LEMMA PlacesOf ==
  ASSUME NEW q, DOMAIN q = Fields
  PROVE  /\ \A f, m, x : /\ Pass(q, f, m).at = "filtering"
                         /\ [Pass(q, f, m) EXCEPT !.said = x].at = "filtering"
         /\ \A x : Retrying(q, x).at = x
         /\ \A text : Nudged(q, text).at = "filtering" /\ GaveUp(q, text).at = "filtering"
<1>1. \A f, m, x : /\ Pass(q, f, m).at = "filtering"
                   /\ [Pass(q, f, m) EXCEPT !.said = x].at = "filtering"
  BY DEF Pass, Fields
<1>2. \A x : Retrying(q, x).at = x
  BY DEF Retrying, Fields
<1>3. \A text : Nudged(q, text).at = "filtering"
  BY DEF Nudged, Pass, Fields
<1>4. \A text : GaveUp(q, text).at = "filtering"
  BY <1>3 DEF GaveUp
<1>. QED
  BY <1>1, <1>2, <1>3, <1>4

LEMMA OnlyWhereDetected ==
  ASSUME NEW c \in Convs, AllGood,
         \/ Begin(c) \/ UpstreamAnswers(c) \/ StatusFails(c) \/ TransportFails(c)
         \/ PassFilter(c) \/ RunRewrite(c) \/ RunTimestamp(c)
         \/ RlsPasses(c) \/ RlsReturns(c) \/ RlsFails(c)
         \/ TlsPasses(c) \/ TlsDetects(c) \/ TlsReturns(c) \/ TlsFails(c)
         \/ NudgePasses(c) \/ Nudge(c) \/ NudgeReturns(c) \/ NudgeFails(c)
         \/ Answer(c) \/ NextTurn(c)
  PROVE  Elsewhere(c)
<1> DEFINE q == req[c]
<1>0. DOMAIN q = Fields
  BY DEF AllGood, Good, Sound, Typed
<1>1. CASE Begin(c)
  <2>1. [Idle EXCEPT !.at = "calling", !.eff = Prompted(0), !.sent = Prompted(0)].at # "rls"
    BY DEF Idle
  <2>. QED
    BY <1>1, <2>1 DEF Begin, Elsewhere
<1>2. CASE UpstreamAnswers(c)
  <2>1. PICK r \in Replies : Set(c, [q EXCEPT !.at = "filtering", !.main = r, !.resp = r,
                                              !.said = Words(r.text)])
    BY <1>2 DEF UpstreamAnswers
  <2> HIDE DEF q
  <2>2. [q EXCEPT !.at = "filtering", !.main = r, !.resp = r, !.said = Words(r.text)].at # "rls"
    BY <1>0 DEF Fields
  <2>. QED
    BY <2>1, <2>2 DEF Elsewhere
<1>3. CASE StatusFails(c)
  <2>1. /\ [q EXCEPT !.attempt = @ + 1, !.looping = TRUE].at = q.at
        /\ [q EXCEPT !.at = "failed"].at = "failed"
    BY <1>0 DEF Fields
  <2>. QED
    BY <1>3, <2>1 DEF StatusFails, Elsewhere
<1>4. CASE TransportFails(c)
  <2> DEFINE again == Prompted(q.eff)
  <2>1. Set(c, [q EXCEPT !.attempt = @ + 1, !.base = q.eff, !.eff = again, !.sent = again])
        \/ Set(c, [q EXCEPT !.at = "failed"])
    BY <1>4 DEF TransportFails
  <2>2. q.at # "rls"
    BY <1>4 DEF TransportFails
  <2> HIDE DEF q, again
  <2>3. /\ [q EXCEPT !.attempt = @ + 1, !.base = q.eff, !.eff = again, !.sent = again].at = q.at
        /\ [q EXCEPT !.at = "failed"].at = "failed"
    BY <1>0 DEF Fields
  <2>. QED
    BY <2>1, <2>2, <2>3 DEF Elsewhere
<1>5. ASSUME NEW f, NEW m, Set(c, Pass(q, f, m)) PROVE Elsewhere(c)
  BY <1>0, <1>5, PlacesOf DEF Elsewhere
<1>6. CASE PassFilter(c) \/ RunRewrite(c) \/ RunTimestamp(c) \/ RlsPasses(c) \/ TlsPasses(c)
           \/ NudgePasses(c)
  BY <1>5, <1>6 DEF PassFilter, RunRewrite, RunTimestamp, RlsPasses, TlsPasses, NudgePasses
<1>7. ASSUME NEW f, NEW m, NEW x, Set(c, [Pass(q, f, m) EXCEPT !.said = x]) PROVE Elsewhere(c)
  BY <1>0, <1>7, PlacesOf DEF Elsewhere
<1>8. CASE RlsFails(c) \/ TlsFails(c)
  BY <1>5, <1>7, <1>8 DEF RlsFails, TlsFails
<1>9. ASSUME NEW f, NEW m, NEW w, Set(c, [Pass(q, f, m) EXCEPT !.said = @ \o w])
      PROVE  Elsewhere(c)
  <2> DEFINE o == Pass(q, f, m)
  <2>1. Set(c, [o EXCEPT !.said = o.said \o w])
    BY <1>9
  <2>. QED
    BY <1>7, <2>1
<1>10. CASE RlsReturns(c)
  BY <1>9, <1>10 DEF RlsReturns
<1>11. CASE TlsReturns(c)
  BY <1>7, <1>9, <1>11 DEF TlsReturns
<1>12. CASE TlsDetects(c)
  <2> DEFINE o == Retrying(q, "tls")  loops == Looping(c)
  <2>1. Set(c, [o EXCEPT !.stopped = loops])
    BY <1>12 DEF TlsDetects
  <2>2. [o EXCEPT !.stopped = loops].at = "tls"
    BY <1>0 DEF Retrying, Fields
  <2>. QED
    BY <2>1, <2>2 DEF Elsewhere
<1>13. CASE Nudge(c)
  <2> DEFINE o == Retrying(q, "nudge")  t == Unfooted(q.resp.text)
  <2>1. Set(c, [o EXCEPT !.acc = t])
    BY <1>13 DEF Nudge
  <2>2. [o EXCEPT !.acc = t].at = "nudge"
    BY <1>0 DEF Retrying, Fields
  <2>. QED
    BY <2>1, <2>2 DEF Elsewhere
<1>14. CASE NudgeFails(c)
  BY <1>0, <1>7, <1>14, PlacesOf DEF NudgeFails, Elsewhere
<1>15. CASE NudgeReturns(c)
  <2>1. PICK u, x : DOMAIN u = Fields /\ (\/ Set(c, GaveUp(u, x)) \/ Set(c, Nudged(u, x))
                                         \/ Set(c, Retrying(u, "nudge")))
    <3> DEFINE text(r) == IF XmlAtEnd(q, r) THEN CutAtXml(r.text) ELSE r.text
               calls(r) == IF XmlAtEnd(q, r) THEN <<XmlCall>> ELSE r.calls
               q1(r) == [q EXCEPT !.tries = @ + 1,
                                  !.nCalls = IF calls(r) # <<>> THEN calls(r) ELSE @,
                                  !.nWhy = IF r.why # "" THEN r.why ELSE @,
                                  !.acc = q.acc \o text(r),
                                  !.said = @ \o Words(text(r))]
               out(r) == IF text(r) = <<>> /\ calls(r) = <<>> THEN GaveUp(q1(r), q.acc)
                         ELSE IF ~Lazy(text(r)) THEN Nudged(q1(r), q1(r).acc)
                         ELSE IF q1(r).tries = MaxAttempts THEN GaveUp(q1(r), q1(r).acc)
                         ELSE Retrying(q1(r), "nudge")
    <3>1. PICK r \in Replies : Set(c, out(r))
      BY <1>15 DEF NudgeReturns
    <3>2. DOMAIN q1(r) = Fields
      BY <1>0
    <3> HIDE DEF q1, text, calls
    <3>. QED
      BY <3>1, <3>2
  <2>. QED
    BY <2>1, PlacesOf DEF Elsewhere
<1>16. CASE Answer(c)
  <2> DEFINE m == Merged(q)
  <2>1. Set(c, [q EXCEPT !.at = "answered", !.body = m])
    BY <1>16 DEF Answer
  <2> HIDE DEF q, m
  <2>2. [q EXCEPT !.at = "answered", !.body = m].at = "answered"
    BY <1>0 DEF Fields
  <2>. QED
    BY <2>1, <2>2 DEF Elsewhere
<1>17. CASE NextTurn(c)
  <2>1. Idle.at # "rls"
    BY DEF Idle
  <2>. QED
    BY <1>17, <2>1 DEF NextTurn, Elsewhere
<1>. QED
  BY <1>1, <1>2, <1>3, <1>4, <1>6, <1>8, <1>10, <1>11, <1>12, <1>13, <1>14, <1>15, <1>16, <1>17

LEMMA ElsewhereStays ==
  ASSUME NEW c \in Convs, AllGood, StaysInItsConversation, Elsewhere(c),
         \A d \in Convs \ {c} : opening'[d] = opening[d], seen \subseteq seen'
  PROVE  StaysInItsConversation'
<1>1. PICK q : q.at # "rls" /\ req' = [req EXCEPT ![c] = q]
  BY DEF Elsewhere, Set
<1>2. req'[c] = q /\ \A d \in Convs \ {c} : req'[d] = req[d]
  BY <1>1 DEF AllGood
<1>. QED
  BY <1>1, <1>2 DEF StaysInItsConversation

LEMMA DetectionStays ==
  ASSUME NEW c \in Convs, AllGood, Reasoned, StaysInItsConversation, RlsDetects(c)
  PROVE  StaysInItsConversation'
<1> DEFINE q == req[c]  p == Retrying(q, "rls")
<1>1. Own(c, q.resp.why, seen)
  BY FoundIsOwn DEF RlsDetects
<1>2. req' = [req EXCEPT ![c] = p] /\ UNCHANGED <<opening, seen>>
  BY DEF RlsDetects, Set, Only
<1>3. p.resp = q.resp
  <2>1. DOMAIN q = Fields
    BY DEF AllGood, Good, Sound, Typed
  <2> HIDE DEF q
  <2>. QED
    BY <2>1 DEF Retrying, Fields
<1> HIDE DEF p
<1>4. req'[c] = p /\ \A d \in Convs \ {c} : req'[d] = req[d]
  BY <1>2 DEF AllGood
<1>. QED
  BY <1>1, <1>2, <1>3, <1>4 DEF StaysInItsConversation, Own

\* Another turn may bring the first text.
LEMMA NextTurnOpening ==
  ASSUME NEW c \in Convs, Reasoned, NextTurn(c)
  PROVE  /\ opening' \in [Convs -> Seq(Messages)]
         /\ \A d \in Convs \ {c} : opening'[d] = opening[d]
<1>1. PICK more \in Further(c) : opening' = [opening EXCEPT ![c] = @ \o more]
  BY DEF NextTurn
<1>2. more \in Seq(Messages)
  <2>1. CASE more = << >>
    BY <2>1
  <2>2. CASE \E m \in Messages : more = <<m>>
    <3>1. PICK m \in Messages : more = <<m>>
      BY <2>2
    <3>2. <<m>> \in Seq(Messages)
      OBVIOUS
    <3>. QED
      BY <3>1, <3>2
  <2>. QED
    BY <2>1, <2>2 DEF Further
<1>3. opening \in [Convs -> Seq(Messages)] /\ opening[c] \o more \in Seq(Messages)
  BY <1>2, ConcatProperties DEF Reasoned
<1>. QED
  BY <1>1, <1>3

LEMMA NextTurnReasoned ==
  ASSUME NEW c \in Convs, AllGood, Reasoned, NextTurn(c) PROVE Reasoned' /\ seen \subseteq seen'
<1>1. CASE UNCHANGED <<history, seen>>
  BY <1>1, NextTurnOpening DEF NextTurn, Reasoned
<1>2. CASE \E why \in {"", req[c].body.why} :
              /\ history' = [history EXCEPT ![c] =
                               Append(@, [calls |-> req[c].body.calls, why |-> why])]
              /\ seen' = seen \cup {Said(c, why)}
  <2>1. PICK why : /\ history' = [history EXCEPT ![c] =
                                     Append(@, [calls |-> req[c].body.calls, why |-> why])]
                   /\ seen' = seen \cup {Said(c, why)}
    BY <1>2
  <2> DEFINE h == history[c]  x == [calls |-> req[c].body.calls, why |-> why]
  <2>2. x.why = why
    OBVIOUS
  <2> HIDE DEF x
  <2>3. history'[c] = Append(h, x) /\ \A d \in Convs \ {c} : history'[d] = history[d]
    BY <2>1 DEF AllGood, x
  <2>4. cache' = cache /\ \A d, w : SaidBy(d, w, seen) => SaidBy(d, w, seen')
    BY <2>1 DEF NextTurn, SaidBy
  <2>5. h \in Seq(Range(h)) /\ \A i \in DOMAIN h : SaidBy(c, h[i].why, seen)
    BY DEF Reasoned
  <2> DEFINE t == Append(h, x)
  <2>6. /\ t \in Seq(Range(t))
        /\ \A i \in DOMAIN t : (i \in DOMAIN h /\ t[i] = h[i]) \/ t[i] = x
    BY <2>5, LongerSeq
  <2>7. history'[c] = t
    BY <2>3
  <2> HIDE DEF t, h
  <2>8. \A i \in DOMAIN t : SaidBy(c, t[i].why, seen')
    <3>1. SaidBy(c, why, seen')
      <4>1. Said(c, why) \in seen' /\ Said(c, why).conv = c /\ Said(c, why).why = why
        BY <2>1 DEF Said
      <4>. QED
        BY <4>1 DEF SaidBy
    <3>. QED
      BY <2>2, <2>4, <2>5, <2>6, <3>1
  <2>9. cache' \in Seq(Entries(seen'))
    <3>1. Entries(seen) \subseteq Entries(seen')
      BY <2>1, EntriesAre
    <3>. QED
      BY <2>4, <3>1, SeqOfMore DEF Reasoned
  <2>10. ASSUME NEW d \in Convs
         PROVE  /\ history'[d] \in Seq(Range(history'[d]))
                /\ \A i \in DOMAIN history'[d] : SaidBy(d, history'[d][i].why, seen')
    <3>1. CASE d = c
      BY <2>6, <2>7, <2>8, <3>1
    <3>2. CASE d # c
      BY <2>3, <2>4, <3>2 DEF Reasoned
    <3>. QED
      BY <3>1, <3>2
  <2>11. \A s \in seen' : s.opening \in Seq(Messages)
    BY <2>1 DEF Reasoned, Said
  <2>. QED
    BY <2>1, <2>9, <2>10, <2>11, NextTurnOpening DEF Reasoned
<1>. QED
  BY <1>1, <1>2 DEF NextTurn

LEMMA RlsPassesReasoned ==
  ASSUME NEW c \in Convs, AllGood, Reasoned, RlsPasses(c) PROVE Reasoned' /\ seen \subseteq seen'
<1>1. UNCHANGED <<opening, history>>
  BY DEF RlsPasses
<1>2. CASE UNCHANGED <<cache, seen>>
  BY <1>1, <1>2 DEF Reasoned
<1>3. CASE cache' = CacheWith(KeyOf(opening[c]), req[c].resp.why)
           /\ seen' = seen \cup {Said(c, req[c].resp.why)}
  <2> DEFINE key == KeyOf(opening[c])  why == req[c].resp.why  s == Said(c, why)
  <2>1. s \in seen' /\ seen \subseteq seen' /\ s.opening = opening[c] /\ s.why = why
    BY <1>3 DEF Said
  <2>2. [key |-> key, why |-> why] \in Entries(seen')
    BY <2>1, EntriesAre
  <2>3. cache' \in Seq(Entries(seen'))
    BY <1>3, <2>1, <2>2, CacheKeeps DEF Reasoned
  <2>4. \A d, w : SaidBy(d, w, seen) => SaidBy(d, w, seen')
    BY <2>1 DEF SaidBy
  <2>5. \A x \in seen' : x.opening \in Seq(Messages)
    BY <1>3 DEF Reasoned, Said
  <2>. QED
    BY <1>1, <2>1, <2>3, <2>4, <2>5 DEF Reasoned
<1>. QED
  BY <1>2, <1>3 DEF RlsPasses

\* The reasoning stopper interrupts nobody for what was only said in conversations
\* that began in another way.
THEOREM ReasoningIsOwn == Spec => []StaysInItsConversation
<1>1. Init => Reasoned /\ StaysInItsConversation
  <2> SUFFICES ASSUME Init PROVE Reasoned /\ StaysInItsConversation
    OBVIOUS
  <2>1. StaysInItsConversation
    BY DEF Init, StaysInItsConversation, Idle
  <2>2. \A c \in Convs : history[c] \in Seq(Range(history[c]))
    BY TurnsAssumption DEF Init, TurnsAssumption
  <2>3. \A c \in Convs : \A i \in DOMAIN history[c] : SaidBy(c, history[c][i].why, seen)
    <3> SUFFICES ASSUME NEW c \in Convs, NEW i \in DOMAIN history[c]
                 PROVE  SaidBy(c, history[c][i].why, seen)
      OBVIOUS
    <3> DEFINE s == Said(c, history[c][i].why)
    <3>1. s \in seen
      BY DEF Init
    <3>2. s.conv = c /\ s.why = history[c][i].why
      BY DEF Said
    <3> HIDE DEF s
    <3>. QED
      BY <3>1, <3>2 DEF SaidBy
  <2>5. opening \in [Convs -> Seq(Messages)] /\ \A s \in seen : s.opening \in Seq(Messages)
    BY OpeningsAssumption DEF Init, Said, OpeningsAssumption
  <2>4. cache \in Seq(Entries(seen))
    BY DEF Init
  <2>. QED
    BY <2>1, <2>2, <2>3, <2>4, <2>5 DEF Reasoned
<1>2. AllGood /\ Reasoned /\ StaysInItsConversation /\ [Next]_vars
        => Reasoned' /\ StaysInItsConversation'
  <2> SUFFICES ASSUME AllGood, Reasoned, StaysInItsConversation, [Next]_vars
               PROVE  Reasoned' /\ StaysInItsConversation'
    OBVIOUS
  <2>1. CASE UNCHANGED vars
    BY <2>1 DEF vars, Reasoned, StaysInItsConversation
  <2>2. CASE Next
    <3>1. PICK c \in Convs :
             \/ Begin(c) \/ UpstreamAnswers(c) \/ StatusFails(c) \/ TransportFails(c)
             \/ PassFilter(c) \/ RunRewrite(c) \/ RunTimestamp(c)
             \/ RlsPasses(c) \/ RlsDetects(c) \/ RlsReturns(c) \/ RlsFails(c)
             \/ TlsPasses(c) \/ TlsDetects(c) \/ TlsReturns(c) \/ TlsFails(c)
             \/ NudgePasses(c) \/ Nudge(c) \/ NudgeReturns(c) \/ NudgeFails(c)
             \/ Answer(c) \/ NextTurn(c)
      BY <2>2 DEF Next
    <3>2. CASE NextTurn(c)
      <4>1. (\A d \in Convs \ {c} : opening'[d] = opening[d]) /\ Elsewhere(c)
        BY <3>2, OnlyWhereDetected, NextTurnOpening
      <4>. QED
        BY <3>2, <4>1, NextTurnReasoned, ElsewhereStays
    <3>3. CASE RlsPasses(c)
      <4>1. UNCHANGED opening /\ Elsewhere(c)
        BY <3>3, OnlyWhereDetected DEF RlsPasses
      <4>. QED
        BY <3>3, <4>1, RlsPassesReasoned, ElsewhereStays
    <3>4. CASE RlsDetects(c)
      <4>1. UNCHANGED <<opening, history, cache, seen>>
        BY <3>4 DEF RlsDetects, Only
      <4>. QED
        BY <3>4, <4>1, DetectionStays DEF Reasoned
    <3>5. CASE \/ Begin(c) \/ UpstreamAnswers(c) \/ StatusFails(c) \/ TransportFails(c)
               \/ PassFilter(c) \/ RunRewrite(c) \/ RunTimestamp(c)
               \/ RlsReturns(c) \/ RlsFails(c)
               \/ TlsPasses(c) \/ TlsDetects(c) \/ TlsReturns(c) \/ TlsFails(c)
               \/ NudgePasses(c) \/ Nudge(c) \/ NudgeReturns(c) \/ NudgeFails(c) \/ Answer(c)
      <4>1. UNCHANGED <<opening, history, cache, seen>>
        BY <3>5 DEF Begin, UpstreamAnswers, StatusFails, TransportFails, PassFilter,
                    RunRewrite, RunTimestamp, RlsReturns, RlsFails, TlsPasses, TlsDetects,
                    TlsReturns, TlsFails, NudgePasses, Nudge, NudgeReturns, NudgeFails,
                    Answer, Only
      <4>2. Elsewhere(c)
        BY <3>5, OnlyWhereDetected, Zenon
      <4>. QED
        BY <4>1, <4>2, ElsewhereStays DEF Reasoned
    <3>. QED
      BY <3>1, <3>2, <3>3, <3>4, <3>5
  <2>. QED
    BY <2>1, <2>2
<1>3. Spec => []AllGood
  BY AllGoodHolds
<1>. QED
  BY <1>1, <1>2, <1>3, PTL DEF Spec
=============================================================================
