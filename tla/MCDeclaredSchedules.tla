------------------------- MODULE MCDeclaredSchedules -------------------------
EXTENDS DeclaredSchedules, TLC

CONSTANT n1, n2

(* none; one; the same one changed, and another *)
MCDicts == {<< >>, n1 :> "on", n1 :> "off" @@ n2 :> "on"}

Symmetry == Permutations(Clients)
=============================================================================
