---------------------------- MODULE MCConfigReload ----------------------------
(* A small instance of ConfigReload. *)
EXTENDS ConfigReload, TLC

CONSTANTS none, k1, k2, r1

MCSettings == {"api_keys", "model", "max_concurrent", "fallback_chain", "ctx_len", "failure_threshold"}
MCDefaulted == {"failure_threshold"}

\* A written route: settings that are given, the rest absent.
Entry(name, extends, given) ==
  [name |-> name, extends |-> extends, accepts |-> {name}, wellFormed |-> TRUE, own |-> given @@ [k \in MCSettings |-> none]]

Text(routes, keys, ctx) == [loads |-> TRUE, routes |-> routes, defaults |-> [api_keys |-> keys, ctx_len |-> ctx]]

Base == Entry("base", <<>>, [api_keys |-> {k1}, model |-> "m1", max_concurrent |-> "valid", failure_threshold |-> "5"])

MCEmpty == Text(<<>>, {}, 8)

MCTexts == {
  \* a chain of three
  Text(<<Entry("leaf", <<"mid">>, [fallback_chain |-> <<"base", "m9">>]), Base,
         [Entry("any", <<>>, <<>>) EXCEPT !.accepts = {"leaf", "mid", "other"}],
         Entry("mid", <<"base">>, [ctx_len |-> 1, model |-> "m2"])>>, {k2}, 8),
  \* two parents, of which the second opens the route, and an entry that is dropped
  Text(<<Entry("leaf", <<"base", "mid">>, [max_concurrent |-> "other"]), Base,
         [Entry("bad", <<>>, <<>>) EXCEPT !.wellFormed = FALSE],
         Entry("mid", <<>>, [api_keys |-> {}, ctx_len |-> 2])>>, {k2}, 4),
  \* two routes of one name, of which the first is in a circle with the second
  Text(<<Entry("leaf", <<"mid">>, <<>>), Entry("mid", <<"leaf">>, [ctx_len |-> 3]),
         Entry("leaf", <<>>, [api_keys |-> {k2}])>>, {k1}, 8),
  \* a circle, a missing parent, no keys but the root's
  Text(<<Entry("leaf", <<"mid", "gone">>, [fallback_chain |-> <<"mid", "leaf">>]),
         Entry("mid", <<"leaf">>, [ctx_len |-> 3])>>, {k1}, 4),
  \* an invalid limit that is inherited
  Text(<<Entry("mid", <<"base">>, <<>>), [Base EXCEPT !.own["max_concurrent"] = "invalid"]>>, {}, 8),
  [MCEmpty EXCEPT !.loads = FALSE]}

MCAsked == {"leaf", "mid", "other"}
MCFormats == {"yaml", "json"}
=============================================================================
