------------------------------ MODULE MCCadence ------------------------------
(* The engine's calculators and, before its first fire, the comparison. *)
EXTENDS ShadowComparator
=============================================================================
