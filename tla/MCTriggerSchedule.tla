------------------------- MODULE MCTriggerSchedule -------------------------
(* TriggerSchedule for one replica, one schedule and two keys, and, in the *)
(* second instance, for two replicas.                                      *)
EXTENDS TriggerSchedule
CONSTANTS r1, r2, s1, k1, k2
=============================================================================
