------------------------- MODULE MCCadenceMismatch -------------------------
(* Constants of the CadenceMismatch runs. *)
EXTENDS CadenceMismatch, TLC

Symmetric == Permutations(Token) \cup Permutations(Schedule)
=============================================================================
