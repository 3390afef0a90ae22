----------------------------- MODULE MCListener -----------------------------
(* Listener for TLC.  No symmetry: the run checks liveness.                *)
EXTENDS Listener, TLC

=============================================================================
