-------------------------- MODULE MCLeaderElection --------------------------
(* Constants of the LeaderElection runs. *)
EXTENDS LeaderElection
=============================================================================
