-------------------------- MODULE MCCircuitBreaker --------------------------
(* TLC instance of CircuitBreaker, and what the documentation says of it.  *)
EXTENDS CircuitBreaker

\* docs/CONFIGURATION.md: "`recovery_timeout` is the number of seconds before
\* one half-open probe is permitted. A successful probe closes and resets the
\* breaker".  So an open circuit does not become closed without a probe.
StaysOpenUntilProbe ==
  [][circuit.state = "open" => circuit'.state # "closed"]_cbVars
=============================================================================
