----------------------------- MODULE MCMetrics -----------------------------
(* Metrics for TLC, with the assumptions of Percentiles; the Metrics_*.cfg *)
(* files give the constants.                                               *)
EXTENDS Metrics, Percentiles, TLC

=============================================================================
