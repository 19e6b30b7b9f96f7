----------------------------- MODULE SummaryPlan -----------------------------
(***************************************************************************)
(* Whether a conversation is summarized and what is kept verbatim:         *)
(* keeprollming/summary/decision_engine.py and repacker.py.  A message is  *)
(* [id, role, size], size being its token estimate with its overhead.      *)
(***************************************************************************)
EXTENDS Integers, Sequences, FiniteSets, SequencesExt

CONSTANTS MaxHead,        \* messages a head may have (MAX_HEAD)
          MaxTail,        \* messages a tail may have (MAX_TAIL)
          InsertBudget    \* tokens reserved for the summary and its message

ASSUME PlanAssumption == MaxHead \in Nat /\ MaxTail \in Nat \ {0} /\ InsertBudget \in Nat

Tokens(ms) ==
  LET upto[i \in 0 .. Len(ms)] == IF i = 0 THEN 0 ELSE upto[i - 1] + ms[i].size
  IN  upto[Len(ms)]
Least(a, b) == IF a < b THEN a ELSE b
Most(a, b) == IF a < b THEN b ELSE a
First(ms, k) == SubSeq(ms, 1, k)
Final(ms, k) == SubSeq(ms, Len(ms) - k + 1, Len(ms))

\* The system messages, merged into one, and the others in order.
SystemOf(ms) ==
  LET said == SelectSeq(ms, LAMBDA m : m.role = "system")
  IN  IF said = << >> THEN << >> ELSE <<[id |-> 0, role |-> "system", size |-> Tokens(said)]>>
Spoken(ms) ==
  LET upto[i \in 0 .. Len(ms)] == IF i = 0 THEN << >>
                                  ELSE IF ms[i].role = "system" THEN upto[i - 1]
                                  ELSE Append(upto[i - 1], ms[i])
  IN  upto[Len(ms)]

\* Everything up to the first user message is pinned; nothing when there is none.
PinnedHead(spoken) ==
  LET users == {i \in DOMAIN spoken : spoken[i].role = "user"}
  IN  IF users = {} THEN 0 ELSE CHOOSE i \in users : \A j \in users : i <= j

RepackedEstimate(sys, spoken, h, t) ==
  Tokens(sys) + Tokens(First(spoken, h)) + Tokens(Final(spoken, t)) + InsertBudget

\* The head and tail that keep most messages, then most of the head, among those
\* that leave a middle and fit; when none fits, one message or the pinned ones, and one.
ChooseHeadTail(sys, spoken, threshold, pinned) ==
  LET n == Len(spoken)
      least == Least(pinned, n - 1)
      fitting == {c \in (least .. MaxHead) \X (1 .. MaxTail) :
                    /\ c[1] + c[2] >= 2
                    /\ c[1] + c[2] < n
                    /\ RepackedEstimate(sys, spoken, c[1], c[2]) <= threshold}
      h == Least(Least(Most(least, 1), MaxHead), n - 1)
      t == Least(1, n - h)
  IN  IF fitting # {}
      THEN CHOOSE c \in fitting : \A d \in fitting :
             \/ c[1] + c[2] > d[1] + d[2]
             \/ (c[1] + c[2] = d[1] + d[2] /\ c[1] >= d[1])
      ELSE IF h + t >= n THEN <<least, Least(1, Most(0, n - least - 1))>> ELSE <<h, t>>

NoPlan == [should |-> FALSE, head |-> 0, tail |-> 0, middle |-> 0, pinned |-> 0]

\* Summarize when the prompt exceeds the threshold and has a middle.
ShouldSummarise(ms, threshold) ==
  LET spoken == Spoken(ms)
      pinned == PinnedHead(spoken)
      kept == ChooseHeadTail(SystemOf(ms), spoken, threshold, pinned)
      middle == Len(spoken) - kept[1] - kept[2]
  IN  IF Tokens(ms) <= threshold \/ Len(spoken) < 3 \/ middle <= 0
      THEN NoPlan
      ELSE [should |-> TRUE, head |-> kept[1], tail |-> kept[2], middle |-> middle, pinned |-> pinned]

\* What the endpoint summarizes of a planned conversation.
MiddleOf(ms, plan) ==
  LET spoken == Spoken(ms)
      h == Most(plan.head, plan.pinned)
  IN  IF h + plan.tail < Len(spoken) THEN SubSeq(spoken, h + 1, Len(spoken) - plan.tail) ELSE << >>

Archive(size) == [id |-> -1, role |-> "user", size |-> size]

\* The repacked prompt.  It takes no plan: its head has at most the pinned
\* messages, and its tail is every later message but the first.  The archived
\* summary is a user message, so ensure_repacked_has_user_message changes nothing.
BuildRepacked(ms, size) ==
  LET spoken == Spoken(ms)
      n == Len(spoken)
      h == Least(MaxHead, Least(Most(1, PinnedHead(spoken)), n - 1))
  IN  SystemOf(ms) \o First(spoken, h) \o <<Archive(size)>> \o Final(spoken, n - h - 1)
=============================================================================
