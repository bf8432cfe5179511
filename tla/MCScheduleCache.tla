-------------------------- MODULE MCScheduleCache --------------------------
(* Constants of the ScheduleCache runs. *)
EXTENDS ScheduleCache, TLC

CONSTANTS s1, s2, p1, p2

Alone == [i \in {s1} |-> p1]
Apart == (s1 :> p1) @@ (s2 :> p2)

Symmetric == Permutations(Token)
=============================================================================
