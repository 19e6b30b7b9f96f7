------------------------- MODULE MCResponseFilters -------------------------
(* Two conversations that begin alike or not, two requests in all, a chain  *)
(* of every filter in its usual order, and a model that answers with a      *)
(* call, a promise, an announced call or a repeated thought.                *)
EXTENDS ResponseFilters

CONSTANTS c1, c2
MCConvs == {c1, c2}
MCSymmetry == Permutations(MCConvs)

\* Two long texts that differ behind their first 120 characters, and a picture.
MCMessages == {"hello1", "hello2", "picture"}
MCHeadOf == [m \in MCMessages |-> IF m = "picture" THEN "" ELSE "hello"]
MCOpenings == {<<"hello1">>, <<"picture">>}

Turn(calls) == [calls |-> calls, why |-> ""]
MCHistories == {<<>>, <<Turn(<<"a1", "b">>), Turn(<<"a1">>)>>}

Reply(text, calls, why, finish) ==
    [text |-> text, calls |-> calls, why |-> why, finish |-> finish]
MCReplies ==
    {Reply(<<"fine">>, <<"a1">>, "thought", "tool_calls"),
     Reply(<<"lazy", "footer">>, <<>>, "", "length"),
     Reply(<<"lazy", "xml">>, <<>>, "thought", "stop"),
     Reply(<<>>, <<"a2", "b">>, "", "tool_calls")}

\* A model that repeats a thought and, from the history, a footer.
MCEchoingReplies == MCReplies \cup {Reply(<<"lazy", "footer">>, <<>>, "thought", "stop")}

MCNameOf == [call \in {"a1", "a2", "b"} |-> IF call = "b" THEN "g" ELSE "f"]

MCPriority == [f \in {"system_prompt", "tool_rewrite", "rls", "tls", "nudge", "timestamp"} |->
                 CASE f = "system_prompt" -> 10 [] f = "tool_rewrite" -> 15 [] f = "rls" -> 20
                   [] f = "tls" -> 25 [] f = "nudge" -> 50 [] f = "timestamp" -> 100]
=============================================================================
