--------------------------- MODULE MCSummarization ---------------------------
EXTENDS Summarization

\* Conversations of three to five messages whose first user message is the
\* first, second or fourth, with short and long messages in every place.
Roles == {<<"user", "assistant", "user">>,
          <<"user", "assistant", "user", "assistant", "user">>,
          <<"system", "assistant", "user", "assistant", "user">>,
          <<"assistant", "assistant", "user", "user">>,
          <<"assistant", "assistant", "assistant", "user", "user">>}
Said(r, z) == [i \in 1 .. Len(r) |-> [id |-> i, role |-> r[i], size |-> z[i]]]
\* The last two have a message that does not fit a prompt behind one past the cap.
MCConversations == UNION {{Said(r, z) : z \in [1 .. Len(r) -> {1, 5}]} : r \in Roles}
  \union {Said(<<"user", "assistant", "user", "assistant", "user">>, z) : z \in {<<1, 1, 5, 9, 1>>, <<1, 5, 9, 1, 1>>}}
\* Those whose first message is a user's.
MCQuestions == {c \in MCConversations : c[1].role = "user"}
MCThresholds == {5, 11}
=============================================================================
