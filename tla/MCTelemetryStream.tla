-------------------------- MODULE MCTelemetryStream -------------------------
(***************************************************************************)
(* The instance of TelemetryStream for TLC.                                *)
(***************************************************************************)
EXTENDS TelemetryStream
=============================================================================
