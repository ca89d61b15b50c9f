------------------------------ MODULE MCTelemetry ------------------------------
(* Telemetry with a short period. *)
EXTENDS Telemetry
===============================================================================
