---------------------------- MODULE MCTickTiming ----------------------------
(* Bounded instances of TickTiming. *)
EXTENDS TickTiming
=============================================================================
