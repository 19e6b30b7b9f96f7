----------------------------- MODULE MCStreamBody -----------------------------
(* One streamed answer of up to three chunks with two keepalives.          *)
EXTENDS StreamBody
=============================================================================
