----------------------------- MODULE ConfigReload -----------------------------
(***************************************************************************)
(* The configuration file, the process that loads and watches it, and the  *)
(* requests that read what it loaded (config.py, the watcher of app.py and *)
(* process_chat_request).                                                  *)
(*                                                                         *)
(* The file belongs to somebody else: it may change between any two steps  *)
(* of the process, in place (it is empty for a while) or by a rename.  The *)
(* process has one thread: a check of the file runs without letting a      *)
(* request in, so requests see the tables only between two checks.         *)
(***************************************************************************)
EXTENDS RouteTable

CONSTANTS
  Texts,     \* the contents the operator saves
  Empty,     \* the file between its truncation and its first bytes
  Requests,  \* chat requests
  Asked,     \* the model names a request may ask for
  Keys,      \* the credentials a request may present
  Formats,   \* the file is YAML or JSON
  MaxSaves,  \* bound: how often the file is written
  MaxMtime   \* bound: the clock of the file system

ASSUME ReloadAssumption ==
  /\ Formats \subseteq {"yaml", "json"} /\ MaxSaves \in Nat /\ MaxMtime \in Nat
  /\ Empty \notin Texts

\* What yaml and json make of a list.
IsList(s) == s \in Seq({s[i] : i \in DOMAIN s})

IsTable(routes) == IsList(routes) /\ \A i \in DOMAIN routes : IsList(routes[i].extends)

\* The file as json.load sees it while it is empty.
Unreadable == [Empty EXCEPT !.loads = FALSE]

ASSUME TextsAssumption == \A t \in Texts \cup {Empty, Unreadable} : IsTable(t.routes)

VARIABLES
  file,     \* its format, text, mtime; what is still to be written; the saves so far
  process,  \* where the process is, the mtime it read and the text it loaded
  live,     \* CONFIG, USER_ROUTES, DEFAULTS, _CONFIG_LAST_MTIME; the DEFAULTS others imported
  missed,   \* history: the file was changed where no check can tell
  req       \* what each request has read

crVars == <<file, process, live, missed, req>>

\* yaml.safe_load of nothing is null, which load_config makes an empty mapping;
\* json.load of nothing raises.
Content(f) == IF f.text = Empty /\ f.format = "json" THEN Unreadable ELSE f.text

\* DEFAULTS as check_config_reload and the module's last lines build it.
DefaultsOf(text) == text.defaults

Table(text) == LoadUserRoutes(text)

CrInit ==
  /\ \E f \in Formats, t \in Texts :
       file = [format |-> f, text |-> t, mtime |-> 0, rest |-> Empty, saves |-> 0]
  /\ process = [pc |-> "load", mtime |-> 0, text |-> Empty]
  /\ live = [config |-> Empty, routes |-> <<>>, defaults |-> DefaultsOf(Empty),
             imported |-> DefaultsOf(Empty), mtime |-> 0]
  /\ missed = FALSE
  /\ req = [r \in Requests |-> [pc |-> "new", asked |-> Unset, keys |-> {}, route |-> Unset, plan |-> Unset]]

-----------------------------------------------------------------------------
(* The operator.                                                           *)

\* A change goes unnoticed when it is made after the text was read at import and
\* before its mtime was, or when its mtime is not later than the one recorded,
\* or about to be recorded for a text that was already read.
Unnoticed(mtime) ==
  \/ process.pc = "stamp"
  \/ process.pc = "idle" /\ mtime <= live.mtime
  \/ process.pc \in {"reload", "apply"} /\ mtime <= process.mtime

Written(text, rest, mtime) ==
  /\ file' = [file EXCEPT !.text = text, !.mtime = mtime, !.rest = rest,
                          !.saves = IF rest = Empty THEN @ + 1 ELSE @]
  /\ missed' = Unnoticed(mtime)
  /\ UNCHANGED <<process, live, req>>

\* A save by rename; its mtime is that of the file that was prepared.
SaveByRename ==
  /\ file.saves < MaxSaves /\ file.rest = Empty
  /\ \E t \in Texts, m \in 0 .. MaxMtime : m <= file.mtime + 1 /\ Written(t, Empty, m)

\* A save in place: truncated, then written.
SaveInPlace ==
  /\ file.saves < MaxSaves /\ file.rest = Empty
  /\ \E t \in Texts, m \in {file.mtime, file.mtime + 1} : m <= MaxMtime /\ Written(Empty, t, m)

FinishSave ==
  /\ file.rest # Empty
  /\ \E m \in {file.mtime, file.mtime + 1} : m <= MaxMtime /\ Written(file.rest, Empty, m)

-----------------------------------------------------------------------------
(* The process.                                                            *)

GoTo(pc) == process' = [process EXCEPT !.pc = pc]

\* CONFIG = load_config() at import; an exception ends the process.
BootLoad ==
  /\ process.pc = "load"
  /\ IF Loads(Content(file))
     THEN GoTo("stamp") /\ live' = [live EXCEPT !.config = Content(file)]
     ELSE GoTo("failed") /\ UNCHANGED live
  /\ UNCHANGED <<file, missed, req>>

\* _CONFIG_LAST_MTIME, then USER_ROUTES and DEFAULTS, which the endpoints import.
BootStamp ==
  /\ process.pc = "stamp"
  /\ IF Acceptable(live.config)
     THEN /\ GoTo("idle")
          /\ live' = [live EXCEPT !.routes = Table(live.config), !.mtime = file.mtime,
                                  !.defaults = DefaultsOf(live.config), !.imported = DefaultsOf(live.config)]
     ELSE GoTo("failed") /\ UNCHANGED live
  /\ UNCHANGED <<file, missed, req>>

\* The process is started again.
Restart ==
  /\ process.pc = "failed" /\ GoTo("load")
  /\ missed' = FALSE
  /\ UNCHANGED <<file, live, req>>

\* check_config_reload, at start-up and every two seconds: the file is newer.
CheckMtime ==
  /\ process.pc = "idle" /\ file.mtime > live.mtime
  /\ process' = [process EXCEPT !.pc = "reload", !.mtime = file.mtime]
  /\ UNCHANGED <<file, live, missed, req>>

\* load_config of the candidate.
LoadCandidate ==
  /\ process.pc = "reload"
  /\ process' = IF Loads(Content(file)) THEN [process EXCEPT !.pc = "apply", !.text = Content(file)]
                                        ELSE [process EXCEPT !.pc = "idle"]
  /\ UNCHANGED <<file, live, missed, req>>

\* Slip: the tables are replaced before the routes are validated.
ApplyCandidateFirst ==
  /\ process.pc = "apply" /\ GoTo("idle")
  /\ live' = [live EXCEPT !.config = process.text, !.routes = Table(process.text),
                          !.defaults = IF Acceptable(process.text) THEN DefaultsOf(process.text) ELSE @,
                          !.mtime = process.mtime]
  /\ UNCHANGED <<file, missed, req>>

\* Slip: the mtime is read again when the candidate is applied.
ApplyCandidateRestamps ==
  /\ process.pc = "apply" /\ GoTo("idle")
  /\ live' = IF Acceptable(process.text)
             THEN [live EXCEPT !.config = process.text, !.routes = Table(process.text),
                               !.defaults = DefaultsOf(process.text), !.mtime = file.mtime]
             ELSE live
  /\ UNCHANGED <<file, missed, req>>

\* The candidate is parsed and validated, then every table is replaced.  A
\* refused one is tried again at the next check: its mtime is not recorded.
ApplyCandidate ==
  /\ process.pc = "apply" /\ GoTo("idle")
  /\ live' = IF Acceptable(process.text)
             THEN [live EXCEPT !.config = process.text, !.routes = Table(process.text),
                               !.defaults = DefaultsOf(process.text), !.mtime = process.mtime]
             ELSE live
  /\ UNCHANGED <<file, missed, req>>

-----------------------------------------------------------------------------
(* The requests: between two checks of the file.                           *)

\* Slip: the root keys are the imported ones.
KeysForImported(asked) == RouteKeys(Resolved(MatchRoute(live.routes, asked), live.routes), live.imported)

\* process_chat_request: the route is resolved and its keys checked.
KeysFor(asked) == RouteKeys(Resolved(MatchRoute(live.routes, asked), live.routes), live.defaults)

\* _resolve_route_context: the primary from the route the request came with, the
\* context default from the DEFAULTS that were imported, the fallbacks from the
\* table of now.
Plan(asked, values) ==
  [model |-> UpstreamModel(values, asked),
   ctx_len |-> OrDefault(values["ctx_len"], live.imported.ctx_len),
   fallbacks |-> Fallbacks(values, live.routes)]

\* A route with a limit may make the request wait; nothing else does.
Arrive(r) ==
  /\ process.pc = "idle" /\ req[r].pc = "new"
  /\ \E asked \in Asked, k \in Keys, waits \in BOOLEAN :
       LET values == Resolved(MatchRoute(live.routes, asked), live.routes)
           came   == [req[r] EXCEPT !.asked = asked, !.keys = {k},
                                    !.route = [values |-> values, table |-> live.routes]]
       IN  /\ waits => values["max_concurrent"] # Unset
           /\ req' = [req EXCEPT ![r] =
                IF ~IsAuthorized(k, KeysFor(asked)) THEN [came EXCEPT !.pc = "refused"]
                ELSE IF waits THEN [came EXCEPT !.pc = "queued"]
                ELSE [came EXCEPT !.pc = "done", !.plan = Plan(asked, values)]]
  /\ UNCHANGED <<file, process, live, missed>>

Admitted(r) ==
  /\ process.pc = "idle" /\ req[r].pc = "queued"
  /\ req' = [req EXCEPT ![r].pc = "done", ![r].plan = Plan(req[r].asked, req[r].route.values)]
  /\ UNCHANGED <<file, process, live, missed>>

CrNext ==
  \/ SaveByRename \/ SaveInPlace \/ FinishSave
  \/ BootLoad \/ BootStamp \/ Restart \/ CheckMtime \/ LoadCandidate \/ ApplyCandidate
  \/ \E r \in Requests : Arrive(r) \/ Admitted(r)

\* The watcher looks again every two seconds, a failed start is repeated, and a
\* save that was begun is finished.
CrSpec == CrInit /\ [][CrNext]_crVars
CrFairSpec ==
  /\ CrSpec /\ WF_crVars(FinishSave)
  /\ WF_crVars(BootLoad) /\ WF_crVars(BootStamp) /\ WF_crVars(Restart)
  /\ WF_crVars(CheckMtime) /\ WF_crVars(LoadCandidate) /\ WF_crVars(ApplyCandidate)

-----------------------------------------------------------------------------
(* Properties                                                              *)

\* Whenever a request may look, the routes, the defaults and the configuration
\* come from one text, and that text passed validation: a reload that fails at
\* any of its steps changes nothing.
LiveIsWhole ==
  process.pc = "idle" =>
    /\ Acceptable(live.config)
    /\ live.routes = Table(live.config) /\ live.defaults = DefaultsOf(live.config)

\* The routes a setting may come from, the nearest first: the route itself,
\* then its parents from the last to the first, each before its own parents; the
\* way up ends at a route whose name was met before.
Lineage(route, above) ==
  LET From[k \in 0 .. Len(route.extends)] ==
        IF k = 0 THEN <<>>
        ELSE IF route.extends[k] \in DOMAIN above THEN above[route.extends[k]] \o From[k - 1]
        ELSE From[k - 1]
  IN  <<route>> \o From[Len(route.extends)]

Ancestry(route, routes) ==
  LET names == Names(routes)
      Above[visited \in SUBSET (names \cup {route.name})] ==
        [n \in names |-> IF n \in visited THEN <<ByName(routes, n)>>
                         ELSE Lineage(ByName(routes, n), Above[visited \cup {n}])]
  IN  Lineage(route, Above[{route.name}])

\* What the first route of a list that gives a setting says.
Said(list, k) ==
  LET gives == {i \in DOMAIN list : list[i].own[k] # Unset}
  IN  IF gives = {} THEN Unset ELSE list[CHOOSE i \in gives : \A j \in gives : i <= j].own[k]

\* A setting a route does not give is the one its nearest ancestor gives, for
\* chains and for several parents, and also when a parent is missing or the
\* routes extend each other in a circle.  (The settings of Defaulted are filled
\* in before inheritance and are left out here.)
InheritsNearest ==
  \A i \in DOMAIN live.routes, k \in Settings \ Defaulted :
    Resolved(live.routes[i], live.routes)[k] = Said(Ancestry(live.routes[i], live.routes), k)

\* A request is let in exactly when the key it presents is one the text that is
\* live gives the first route that matches, by itself, through an ancestor or at
\* the root; a route with an empty list is open whatever its ancestors say; and
\* the list of models shows that route to the same callers.
AcceptedAsConfigured ==
  [][\A r \in Requests : req[r].pc = "new" /\ req'[r].pc # "new" =>
       LET routes == Table(live.config)
           route  == MatchRoute(routes, req'[r].asked)
           said   == Said(Ancestry(route, routes), "api_keys")
           keys   == IF said = Unset THEN live.config.defaults.api_keys ELSE said
           let_in == keys = {} \/ req'[r].keys \subseteq keys
       IN  /\ (req'[r].pc # "refused") = let_in
           /\ \A i \in DOMAIN routes, k \in req'[r].keys : routes[i] = route =>
                (i \in Listed(live.routes, live.defaults, k)) = let_in]_crVars

\* When the operator has stopped saving, a text that is acceptable becomes the
\* live one, unless its mtime cannot show that it is new: a save that falls
\* between the read of a text and the end of its reload is not lost.
SavedIsServed == <>[](Acceptable(Content(file)) /\ ~missed /\ file.rest = Empty => live.config = Content(file))

\* An entry of a fallback chain that named a route when the request was let in
\* is that route in its plan (router.py: "A configured route name is the normal
\* public contract.").
NamedFallbackIsARoute ==
  \A r \in Requests : req[r].pc = "done" =>
    \A i \in DOMAIN req[r].plan.fallbacks :
      LET t == req[r].plan.fallbacks[i]
      IN  t.name \in Names(req[r].route.table) => t.kind = "route"
=============================================================================
