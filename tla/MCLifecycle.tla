---------------------------- MODULE MCLifecycle ----------------------------
(* Lifecycle for TLC; the Lifecycle_*.cfg files give the constants. *)
EXTENDS Lifecycle, TLC

=============================================================================
