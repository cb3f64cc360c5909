---------------------------- MODULE MCTelemetry ----------------------------
(* Two calls of Init, the second embedded in a host that owns tracing.     *)
EXTENDS Telemetry

CONSTANTS i1, i2

MCTracing == [i \in Inits |-> i # i2]
============================================================================
