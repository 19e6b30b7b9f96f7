--------------------------- MODULE MCObservability ---------------------------
(* Instances of Observability for TLC.  A request is asked for once, so    *)
(* its identity also names its record.                                     *)
EXTENDS Observability, TLC

MCProjectors == <<"main", "structured">>
MCAccepted == {"upstream_error", "handler_error", "request_complete",
               "overflow"}
MCSymmetry == Permutations(Requests)
=============================================================================
