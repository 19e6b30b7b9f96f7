-------------------------- MODULE MCRequestLifecycle --------------------------
(* TLC instance of RequestLifecycle, and what the code's comments and the    *)
(* documentation say of it.                                                  *)
EXTENDS RequestLifecycle

\* _release_admission_after_stream: "Keep an admission lease until the client
\* stream is terminal or closed."  So a request that is over holds no slot.
EverySlotReturned == \A r \in Requests :
  stage[r] \in {"new", "answered"} => gate[r] \notin Caps

\* docs/CONFIGURATION.md: "An upstream HTTP `400` is considered a
\* client-request error, not an unhealthy route".
ClientErrorsAreNotFailures ==
  [][ \A r \in Requests :
        reply[r] # "client_error" /\ reply'[r] = "client_error"
          => circuit'.failures <= circuit.failures ]_vars
=============================================================================
