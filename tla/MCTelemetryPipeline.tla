------------------------ MODULE MCTelemetryPipeline ------------------------
(* TelemetryPipeline for TLC: up to five attempts, two trades each, over   *)
(* several windows and two streams, either of which may break.               *)
EXTENDS TelemetryPipeline
=============================================================================
