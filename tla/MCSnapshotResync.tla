-------------------------- MODULE MCSnapshotResync --------------------------
(* Constants of the SnapshotResync runs. *)
EXTENDS SnapshotResync, TLC

Symmetric == Permutations(Project)
=============================================================================
