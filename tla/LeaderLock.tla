----------------------------- MODULE LeaderLock ------------------------------
(***************************************************************************)
(* What the leader gates promise the tick engine: for each key a lock that *)
(* at most one instance has.  It is taken only when it is free, so it goes *)
(* from one instance to another through a moment in which nobody leads.    *)
(* One instance takes a key and gives others up in the same step, when the *)
(* answer to one query lets it send the next.                              *)
(***************************************************************************)
CONSTANTS
    Instance,
    Key

VARIABLE leader     \* leader[k]: the instance that leads k, in a set

LockInit == leader = [k \in Key |-> {}]

Takes(i, k) == leader[k] = {} /\ leader'[k] = {i}

GivesUp(i, k) == leader[k] = {i} /\ leader'[k] = {}

LockNext ==
    /\ leader' \in [Key -> SUBSET Instance]
    /\ \E i \in Instance : \A k \in Key :
          Takes(i, k) \/ GivesUp(i, k) \/ leader'[k] = leader[k]

LockSpec == LockInit /\ [][LockNext]_leader
=============================================================================
