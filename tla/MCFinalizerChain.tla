-------------------------- MODULE MCFinalizerChain --------------------------
EXTENDS FinalizerChain

MCChains == {[rewrite |-> r, stamp |-> s, nudge |-> n, tls |-> t, rls |-> l] :
  r, s, n, l \in BOOLEAN, t \in {"off", "exact", "observer"}}
\* Chains in which no two finalizers deliver the same delta; a live nudge
\* matters beside the timestamp only.
MCSoundChains == {c \in MCChains : /\ ~(c.rewrite /\ c.stamp) /\ ~(c.rls /\ c.tls = "exact")
                                   /\ c.nudge => c.stamp}
MCStampChains == {c \in MCChains : c.tls = "off" /\ ~c.rls /\ c.rewrite /\ c.stamp}
MCTwoStoppers == {c \in MCChains : c.rls /\ c.tls = "exact" /\ ~c.stamp /\ ~c.rewrite /\ ~c.nudge}
MCExactChain == {[rewrite |-> FALSE, stamp |-> FALSE, nudge |-> FALSE, tls |-> "exact", rls |-> FALSE]}
MCObserverChain == {[rewrite |-> FALSE, stamp |-> FALSE, nudge |-> FALSE, tls |-> "observer", rls |-> FALSE]}
MCRewriteChain == {[rewrite |-> TRUE, stamp |-> FALSE, nudge |-> FALSE, tls |-> "off", rls |-> FALSE]}

Past(n, p) == [name |-> n, piece |-> p, spaced |-> FALSE]
MCHistories == {<<>>, <<Past("read", "x")>>, <<Past("list", "y")>>}
MCRepeatedHistories == {<<Past("read", "x"), Past("read", "x")>>}
MCSpacedHistories == {<<[name |-> "read", piece |-> "x", spaced |-> TRUE]>>}
=============================================================================
