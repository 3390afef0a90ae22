---------------------------- MODULE MCRateLimit ----------------------------
(* RateLimit for TLC; the RateLimit_*.cfg files give the constants. *)
EXTENDS RateLimit, TLC

=============================================================================
