---------------------------- MODULE Summarization ----------------------------
(***************************************************************************)
(* The summary of the middle of a conversation, as one request builds it:  *)
(* processing/summarization.py, summary/summary_orchestrator.py and        *)
(* summary/chunking_strategy.py.  The recursion of summarize_incremental   *)
(* and summarize_middle is a work list; its calls run one at a time.       *)
(*                                                                         *)
(* A text is a sequence of pieces with a size; a summary says in order     *)
(* which pieces it has been told of.  Sizes of transcripts, thresholds and *)
(* summaries are in one unit of tokens.                                    *)
(***************************************************************************)
EXTENDS SummaryPlan

CONSTANTS Conversations,  \* the conversations a request may carry
          Thresholds,     \* prompt thresholds of the routes
          FullCtx,        \* tokens a summary prompt may have at the full context
          HalfCtx,        \* the same at the reduced context of an HTTP retry
          RenderCap,      \* length past which a transcript is cut (max_chars)
          PromptSize,     \* size of the prompt without transcript and summary
          SummarySize,    \* size of a summary
          MaxAttempts     \* MAX_SUMMARY_BACKEND_ATTEMPTS

ASSUME SizeAssumption ==
  /\ {FullCtx, HalfCtx, RenderCap, PromptSize, SummarySize, MaxAttempts} \subseteq Nat \ {0}
  /\ HalfCtx <= FullCtx

\* A conversation is a list of messages, which have different identities.
ASSUME ConversationsAssumption ==
  \A c \in Conversations :
    /\ c \in Seq([id : Nat, role : {"system", "user", "assistant", "tool"}, size : Nat])
    /\ \A i, j \in DOMAIN c : c[i].id = c[j].id => i = j

VARIABLES phase,      \* "decide", "work", "done" or "failed" (nothing summarized)
          request,    \* the messages of the request
          threshold,  \* the threshold of its route
          cached,     \* does the cache directory hold entries of the conversation?
          entry,      \* "endpoint", or "package" for a caller of summarize_middle,
                      \* which the package exports and the endpoint calls with
                      \* an empty middle only
          plan,       \* the summarization plan
          work,       \* calls still to be made, first one next
          sums,       \* summaries made and not yet merged, the running one last
          lost,       \* pieces that were sent to be summarized and told to nobody
          out         \* the messages sent upstream
vars == <<phase, request, threshold, cached, entry, plan, work, sums, lost, out>>

\* ----- texts --------------------------------------------------------------
Text(m) == [pieces |-> [j \in 1 .. m.size |-> <<m.id, j>>], size |-> m.size]
TextsOf(ms) == [i \in DOMAIN ms |-> Text(ms[i])]
Joined(seqs) ==
  LET upto[i \in 0 .. Len(seqs)] == IF i = 0 THEN << >> ELSE upto[i - 1] \o seqs[i]
  IN  upto[Len(seqs)]
Pieces(ts) == Joined([i \in DOMAIN ts |-> ts[i].pieces])
Told(ts) == ToSet(Pieces(ts))

\* A text cut after k of its units, and cut into parts of k.
Cut(t, k) ==
  LET p == (k * Len(t.pieces)) \div t.size
  IN  <<[pieces |-> First(t.pieces, p), size |-> k],
        [pieces |-> Final(t.pieces, Len(t.pieces) - p), size |-> t.size - k]>>
SplitOversized(t, k) ==
  LET parts == (t.size + k - 1) \div k
      part[i \in 1 .. parts] ==
        LET rest == IF i = 1 THEN t ELSE part[i - 1][2]
        IN  IF rest.size <= k THEN <<rest, rest>> ELSE Cut(rest, k)
  IN  IF t.size <= k THEN <<t>> ELSE [i \in 1 .. parts |-> part[i][1]]

\* The transcript of a prompt: texts are added until they exceed the cap.
Rendered(ts) ==
  LET past == {k \in DOMAIN ts : Tokens(First(ts, k)) > RenderCap}
  IN  IF past = {} THEN ts ELSE First(ts, CHOOSE k \in past : \A j \in past : k <= j)

\* ----- chunks -------------------------------------------------------------
NoSummary == [said |-> FALSE, pieces |-> << >>]
PromptEstimate(existing, ts) ==
  PromptSize + (IF existing.said THEN SummarySize ELSE 0) + Tokens(Rendered(ts))
ShouldPrechunk(existing, ts) == PromptEstimate(existing, ts) > FullCtx

\* Texts are gathered into a chunk while its prompt fits the threshold.
Chunks(existing, ts, ctx) ==
  LET expanded == Joined([i \in DOMAIN ts |-> SplitOversized(ts[i], ctx)])
      gathered[i \in 0 .. Len(expanded)] ==
        IF i = 0 THEN << >>
        ELSE LET done == gathered[i - 1]
                 cur == IF done = << >> THEN << >> ELSE Append(Last(done), expanded[i])
             IN  IF cur = << >> \/ PromptEstimate(existing, cur) > ctx
                 THEN Append(done, <<expanded[i]>>)
                 ELSE Append(Front(done), cur)
  IN  IF expanded = << >> THEN <<expanded>> ELSE gathered[Len(expanded)]

\* Slip: the left half takes the middle text as well.
ForceSplitOverlapping(ts) ==
  LET half == Most(1, Len(ts) \div 2)
  IN  IF Len(ts) > 1 THEN <<First(ts, Least(Len(ts), half + 1)), Final(ts, Len(ts) - half)>>
      ELSE IF ts = << >> THEN << >> ELSE <<ts>>

\* Two halves of a list of texts or of its only text; the list itself when it
\* cannot be split.
ForceSplit(ts) ==
  LET half == Most(1, Len(ts) \div 2)
  IN  IF Len(ts) > 1 THEN <<First(ts, half), Final(ts, Len(ts) - half)>>
      ELSE IF ts = << >> THEN << >>
      ELSE IF ts[1].size > 1
           THEN LET two == Cut(ts[1], ts[1].size \div 2) IN <<<<two[1]>>, <<two[2]>>>>
           ELSE <<ts>>

\* Slip: a chunk that cannot get smaller is tried again as it is.
NormalizeNever(ts, chunks) == chunks

\* A single chunk that is the list again made no progress: it is split in two;
\* << >> when it cannot be.
Normalize(ts, chunks) ==
  IF chunks # <<ts>> THEN chunks
  ELSE IF Len(ForceSplit(ts)) > 1 THEN ForceSplit(ts) ELSE << >>

\* ----- the request --------------------------------------------------------
Init ==
  /\ phase = "decide"
  /\ request \in Conversations
  /\ threshold \in Thresholds
  /\ cached \in BOOLEAN
  /\ entry \in {"endpoint", "package"} /\ (entry = "package" => ~cached)
  /\ plan = NoPlan
  /\ work = << >> /\ sums = << >> /\ lost = {}
  /\ out = << >>

Call(kind, ts, attempt) == [do |-> kind, texts |-> ts, attempt |-> attempt, parts |-> 0]

\* The request goes upstream as it came.
Unchanged(ph) ==
  /\ phase' = ph
  /\ out' = request
  /\ work' = << >>
  /\ UNCHANGED <<request, threshold, cached, entry, sums, lost>>

\* Cache entries of the conversation end the attempt: their lookup is called
\* without its second argument and raises.
LookupRaises == entry = "endpoint" /\ cached

\* The plan is made, and the middle it leaves is to be summarized.
Decide ==
  /\ phase = "decide"
  /\ plan' = ShouldSummarise(request, threshold)
  /\ LET middle == TextsOf(MiddleOf(request, plan'))
     IN  \/ ~plan'.should /\ Unchanged("done")
         \/ plan'.should /\ LookupRaises /\ Unchanged("failed")
         \/ /\ plan'.should /\ ~LookupRaises
            /\ phase' = "work"
            /\ IF entry = "endpoint" /\ middle # << >>
               THEN work' = <<Call("incremental", middle, 0)>> /\ sums' = <<NoSummary>>
               ELSE work' = <<Call("middle", middle, 0)>> /\ sums' = << >>
            /\ UNCHANGED <<request, threshold, cached, entry, lost, out>>

Job == work[1]
Calling(kinds) == phase = "work" /\ work # << >> /\ Job.do \in kinds
Existing == IF Job.do = "incremental" THEN Last(sums) ELSE NoSummary

\* The calls that take the place of one: its chunks in order, and for summarize_middle the
\* merge of their summaries.
Chunked(chunks) ==
  LET next == Job.attempt + 1
      calls == [i \in DOMAIN chunks |-> Call(Job.do, chunks[i], next)]
  IN  IF Job.do = "incremental" THEN calls
      ELSE Append(calls, [do |-> "merge", texts |-> << >>, attempt |-> next, parts |-> Len(chunks)])

Retry(ctx) ==
  LET chunks == Normalize(Job.texts, Chunks(Existing, Job.texts, ctx))
  IN  IF chunks = << >> THEN Unchanged("failed") /\ UNCHANGED plan
      ELSE /\ work' = Chunked(chunks) \o Tail(work)
           /\ UNCHANGED <<phase, request, threshold, cached, entry, plan, sums, lost, out>>

\* summarize_incremental and summarize_middle: too many attempts raise.
Exhausted ==
  /\ Calling({"incremental", "middle"})
  /\ Job.attempt >= MaxAttempts
  /\ Unchanged("failed") /\ UNCHANGED plan

AttemptLeft == Calling({"incremental", "middle"}) /\ Job.attempt < MaxAttempts

\* The prompt is too long before it is sent.
Prechunk == AttemptLeft /\ ShouldPrechunk(Existing, Job.texts) /\ Retry(FullCtx)

Sendable == AttemptLeft /\ ~ShouldPrechunk(Existing, Job.texts)

\* What an answer makes of a summary: an empty one leaves the existing summary,
\* or a placeholder where there is none.
Updated(existing, told) == [said |-> TRUE, pieces |-> existing.pieces \o told]

\* The backend answers.
Replies(empty) ==
  /\ Sendable
  /\ LET told == IF empty THEN << >> ELSE Pieces(Rendered(Job.texts))
         sum == Updated(Existing, told)
     IN  /\ sums' = IF Job.do = "incremental" THEN Append(Front(sums), sum) ELSE Append(sums, sum)
         /\ lost' = lost \union (Told(Job.texts) \ ToSet(told))
  /\ work' = Tail(work)
  /\ UNCHANGED <<phase, request, threshold, cached, entry, plan, out>>

\* The backend fails: a context overflow, an HTTP 400 or 5xx, anything else.
Overflows == Sendable /\ Retry(FullCtx)
HttpFails == Sendable /\ Retry(HalfCtx)
FailsFatally == Sendable /\ Unchanged("failed") /\ UNCHANGED plan

\* Slip: the merge starts counting its attempts anew.
MergePartialsAfresh ==
  /\ Calling({"merge"})
  /\ LET n == Job.parts
         partials == [i \in 1 .. n |->
           [pieces |-> Final(sums, n)[i].pieces, size |-> SummarySize]]
     IN  IF n = 1 THEN sums' = sums /\ work' = Tail(work)
         ELSE /\ sums' = First(sums, Len(sums) - n)
              /\ work' = <<Call("middle", partials, 0)>> \o Tail(work)
  /\ UNCHANGED <<phase, request, threshold, cached, entry, plan, lost, out>>

\* summarize_middle merges the summaries of its chunks by summarizing them.
MergePartials ==
  /\ Calling({"merge"})
  /\ LET n == Job.parts
         partials == [i \in 1 .. n |->
           [pieces |-> Final(sums, n)[i].pieces, size |-> SummarySize]]
     IN  IF n = 1 THEN sums' = sums /\ work' = Tail(work)
         ELSE /\ sums' = First(sums, Len(sums) - n)
              /\ work' = <<Call("middle", partials, Job.attempt)>> \o Tail(work)
  /\ UNCHANGED <<phase, request, threshold, cached, entry, plan, lost, out>>

Repack ==
  /\ phase = "work" /\ work = << >>
  /\ phase' = "done"
  /\ out' = IF entry = "endpoint" THEN BuildRepacked(request, SummarySize) ELSE request
  /\ UNCHANGED <<request, threshold, cached, entry, plan, work, sums, lost>>

Next ==
  \/ Decide \/ Exhausted \/ Prechunk
  \/ \E empty \in BOOLEAN : Replies(empty)
  \/ Overflows \/ HttpFails \/ FailsFatally
  \/ MergePartials \/ Repack

\* The request's task runs while there is something to do: the weak fairness of
\* Next, with Running for its ENABLED.
Running == phase \in {"decide", "work"}
Spec == Init /\ [][Next]_vars /\ ([]<>~Running \/ []<><<Next>>_vars)

\* ----- properties ---------------------------------------------------------
Summarized == phase = "done" /\ plan.should
Middle == Told(TextsOf(MiddleOf(request, plan)))
Summary == Last(sums).pieces
Before(p, q) == \E i, j \in DOMAIN request :
  /\ request[i].id = p[1] /\ request[j].id = q[1]
  /\ i < j \/ (i = j /\ p[2] < q[2])

\* However often a middle had to be split, its summary has been told of every
\* piece once and in order, but for the pieces a prompt cut off or an empty
\* answer swallowed, and a summary that is used is of the whole middle.
SummaryExact == Summarized =>
  /\ Len(sums) = 1
  /\ \A i \in 1 .. Len(Summary) - 1 : Before(Summary[i], Summary[i + 1])
  /\ ToSet(Summary) = Middle \ lost

\* A call that is retried or split before it is sent is replaced by smaller
\* ones, when its prompt shows all of its texts.
Smaller(ts, us) == Tokens(ts) <= Tokens(us) /\ (Len(ts) < Len(us) \/ Tokens(ts) < Tokens(us))
ReplacedBySmaller == \A i \in 1 .. (Len(work') - Len(work) + 1) :
  work'[i].do # "merge" => Smaller(work'[i].texts, Job.texts)
RetryShrinks == [][
  Calling({"incremental", "middle"}) /\ Rendered(Job.texts) = Job.texts => ReplacedBySmaller]_vars

\* The summary ends whatever the backend answers: every path through splits,
\* retries and merges runs into its attempts.
SummarizationEnds == <>(phase \in {"done", "failed"})

\* Repacking keeps a message or has summarized it ("[head messages] + [summary] +
\* [tail messages from append_until_idx]").
KeptOrSummarized == Summarized /\ entry = "endpoint" =>
  \A i \in DOMAIN request : \/ request[i].role = "system"
                            \/ request[i] \in ToSet(out)
                            \/ request[i] \in ToSet(MiddleOf(request, plan))

\* The repacked prompt fits the threshold when the plan found a head and a tail
\* that do ("optimal head/tail sizes that fit within threshold").
RepackedFits == Summarized /\ entry = "endpoint" =>
  \/ RepackedEstimate(SystemOf(request), Spoken(request), plan.head, plan.tail) > threshold
  \/ Tokens(out) <= threshold

\* The newest message, the question to be answered, goes upstream.
QuestionKept == phase = "done" => Last(request) \in ToSet(out)

\* The summary of the middle leaves no message out when no answer was empty and
\* the chunks "fit within the summary model's context".
NothingCutOff == [][Sendable /\ work' = Tail(work) /\ phase' = "work" =>
                      Rendered(Job.texts) = Job.texts]_vars

\* No call is tried again as it is ("detect if chunking made progress").
EveryRetryShrinks == [][Calling({"incremental", "middle"}) => ReplacedBySmaller]_vars

\* A cached summary is used or a new one is made.
CacheIsNoObstacle == phase = "failed" => plan.should /\ ~(cached /\ entry = "endpoint")
=============================================================================
