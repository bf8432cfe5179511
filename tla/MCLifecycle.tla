---------------------------- MODULE MCLifecycle ----------------------------
(* Lifecycle with two signals and two fires of the tick loop. *)
EXTENDS Lifecycle
=============================================================================
