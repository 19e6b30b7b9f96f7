--------------------------- MODULE MCFallbackChain ---------------------------
EXTENDS FallbackChain

\* Three images, each with its marker, <__media__> once more beside the first,
\* and one orphan in an earlier answer; or no image at all.
Picture(m, n) == [msg |-> m, id |-> n]
Text(list, media, marks) == [list |-> list, media |-> media, marks |-> marks]
TwoTurns == [texts  |-> <<Text(TRUE, 1, 1), Text(FALSE, 0, 1), Text(TRUE, 0, 2)>>,
             images |-> <<Picture(1, 1), Picture(3, 2), Picture(3, 3)>>]
OneOrphan == [texts |-> <<Text(TRUE, 1, 1)>>, images |-> <<>>]
MCPayloads == {TwoTurns, OneOrphan}

\* The primary keeps its two newest images, a fallback one; the primary has no
\* validator, a fallback keeps the two oldest images; the primary only reports
\* orphans, a fallback shows no image.
Validator(max, all) ==
  [enabled |-> TRUE, strip |-> TRUE, max |-> max, policy |-> "strip_first", all |-> all]
PrimaryAndRest(primary, rest) == [t \in Targets |-> IF t = Primary THEN primary ELSE rest]
MCValidators ==
  { PrimaryAndRest(Validator(2, FALSE), Validator(1, FALSE)),
    PrimaryAndRest([Validator(0, FALSE) EXCEPT !.enabled = FALSE],
                   [Validator(2, FALSE) EXCEPT !.policy = "strip_latest"]),
    PrimaryAndRest([Validator(0, FALSE) EXCEPT !.strip = FALSE], Validator(0, TRUE)) }

\* docs/CONFIGURATION.md: "a fallback uses its own upstream URL, model,
\* authentication headers, and request timeout".
OwnTransport == \A i \in DOMAIN req.calls : req.calls[i].transport = req.calls[i].target

\* docs/CONFIGURATION.md: on an HTTP 400 KRM "does not try the fallback chain".
NoFallbackAfter400 == \A i \in 1 .. Count - 1 :
  req.calls[i].result = "400" /\ ~req.calls[i].again => req.calls[i + 1].target = req.calls[i].target

\* docs/FILTER_PIPELINE.md: the multimodal validator's purpose is to "Repair
\* image marker/payload mismatches". Where it strips orphaned markers, no
\* message reaches the route's upstream with more markers than images.
NoOrphanedMarkers ==
  config.validator[Primary].enabled /\ config.validator[Primary].strip /\ Count > 0 =>
    LET messages == req.calls[1].messages
    IN  \A m \in DOMAIN messages.texts : Markers(messages.texts[m]) <= ImagesIn(messages, m)
=============================================================================
