------------------------------ MODULE RouteTable ------------------------------
(***************************************************************************)
(* What a configuration text means: how load_config and load_user_routes   *)
(* (config.py) read it, how resolve_inherited_route (routing/router.py)    *)
(* merges a route with the routes it extends, what validation refuses, and *)
(* the settings, keys and fallback targets a request gets from the result. *)
(*                                                                         *)
(* A text is a record: whether it parses, the root defaults, and the       *)
(* entries of "routes" in order.  A written route gives values to some of  *)
(* the settings below; Unset stands for a key that is absent or null.      *)
(* A pattern is the set of client-facing model names it matches.           *)
(***************************************************************************)
EXTENDS Integers, Sequences

CONSTANTS
  Unset,     \* None
  Settings,  \* the settings a route may give
  Defaulted  \* those load_user_routes fills in itself when they are absent

\* What the loader writes for a setting of Defaulted that a route leaves out.
LoaderValue == "loader default"

ASSUME TableAssumption ==
  /\ Defaulted \subseteq Settings
  /\ {"api_keys", "model", "max_concurrent", "fallback_chain", "ctx_len"} \subseteq Settings \ Defaulted

-----------------------------------------------------------------------------
\* get_or_unset: a null is an absent key, and some keys have a value of their own.
Loaded(entry) ==
  [name |-> entry.name, extends |-> entry.extends, accepts |-> entry.accepts,
   own |-> [k \in Settings |-> IF k \in Defaulted /\ entry.own[k] = Unset THEN LoaderValue
                                                                         ELSE entry.own[k]]]

\* load_user_routes: an entry that is not a mapping, or that a Route refuses,
\* is dropped with a warning.
LoadUserRoutes(text) ==
  LET Kept[i \in 0 .. Len(text.routes)] ==
        IF i = 0 THEN <<>>
        ELSE IF text.routes[i].wellFormed THEN Append(Kept[i - 1], Loaded(text.routes[i]))
        ELSE Kept[i - 1]
  IN  Kept[Len(text.routes)]

Names(routes) == {routes[i].name : i \in DOMAIN routes}

\* routes_by_name: of two entries with one name the later one.
ByName(routes, n) == routes[CHOOSE i \in DOMAIN routes :
                              routes[i].name = n /\ \A j \in DOMAIN routes : routes[j].name = n => j <= i]

\* Slip: the accumulated value is taken for the child's own.
MergeFirstParentWins(own, merged, parent) ==
  [k \in Settings |-> IF merged[k] # Unset THEN merged[k] ELSE parent[k]]

\* The merge of one more parent: what the child says itself stays, what the
\* parent says replaces what an earlier parent said.
Merge(own, merged, parent) ==
  [k \in Settings |-> IF own[k] # Unset THEN own[k]
                      ELSE IF parent[k] # Unset THEN parent[k] ELSE merged[k]]

\* The loop over the parents: those that are missing are skipped.  `above` gives
\* the values of every route a parent may be.
MergeParents(route, above) ==
  LET Merged[k \in 0 .. Len(route.extends)] ==
        IF k = 0 THEN route.own
        ELSE IF route.extends[k] \in DOMAIN above
             THEN Merge(route.own, Merged[k - 1], above[route.extends[k]])
        ELSE Merged[k - 1]
  IN  Merged[Len(route.extends)]

\* resolve_inherited_route: a route met again on the way up, that is, one of a
\* name already visited, gives what it says itself.
Resolved(route, routes) ==
  LET names == Names(routes)
      Above[visited \in SUBSET (names \cup {route.name})] ==
        [n \in names |-> IF n \in visited THEN ByName(routes, n).own
                         ELSE MergeParents(ByName(routes, n), Above[visited \cup {n}])]
  IN  MergeParents(route, Above[{route.name}])

\* validate_resolved_route_admission (and _filters, of the same form): a limit
\* that is no positive integer anywhere in the resolved table.
ValidTable(routes) ==
  \A i \in DOMAIN routes : Resolved(routes[i], routes)["max_concurrent"] # "invalid"

\* load_config raises for a text that does not parse, whose root is no mapping
\* or whose key declarations or prompt files are invalid.
Loads(text) == text.loads

Acceptable(text) == Loads(text) /\ ValidTable(LoadUserRoutes(text))

-----------------------------------------------------------------------------
\* DEFAULT_FALLBACK_ROUTE, for a model no route matches.
DefaultRoute ==
  Loaded([name |-> "default", extends |-> <<>>, accepts |-> {},
          own |-> [k \in Settings |-> IF k = "ctx_len" THEN 8192 ELSE Unset]])

\* _match_route: the first route whose pattern matches.
MatchRoute(routes, asked) ==
  LET matching == {i \in DOMAIN routes : asked \in routes[i].accepts}
  IN  IF matching = {} THEN DefaultRoute
      ELSE routes[CHOOSE i \in matching : \A j \in matching : i <= j]

\* _extract_model, once the route is resolved: its own model, or the one asked for.
UpstreamModel(values, asked) == IF values["model"] = Unset THEN asked ELSE values["model"]

\* RouteSettings.resolve, resolve_route_settings and config.resolve_route: what
\* the route says, or else the root default; an empty list of keys is a value.
OrDefault(value, default) == IF value = Unset THEN default ELSE value

RouteKeys(values, defaults) == OrDefault(values["api_keys"], defaults.api_keys)

\* is_authorized: no accepted keys, no check.
IsAuthorized(key, accepted) == accepted = {} \/ key \in accepted

\* list_models shows a route, by its place in the table, to the callers it
\* would accept (private routes and templates, which it skips, are left out).
Listed(routes, defaults, key) ==
  {i \in DOMAIN routes : IsAuthorized(key, RouteKeys(Resolved(routes[i], routes), defaults))}

\* resolve_fallback_chain: an entry that names a route is that route with its
\* own model, skipped when it has none; any other entry is the name of a model
\* at the primary's endpoint.
Fallbacks(values, routes) ==
  LET Target(o) == IF o \in Names(routes)
                   THEN [kind |-> "route", name |-> o,
                         model |-> Resolved(ByName(routes, o), routes)["model"]]
                   ELSE [kind |-> "model", name |-> o, model |-> o]
      chain == OrDefault(values["fallback_chain"], <<>>)
  IN  SelectSeq([i \in DOMAIN chain |-> Target(chain[i])], LAMBDA t : t.model # Unset)
=============================================================================
