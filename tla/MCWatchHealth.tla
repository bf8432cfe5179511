--------------------------- MODULE MCWatchHealth ---------------------------
(* WatchHealth with a grace shorter, and a re-sync interval longer, than   *)
(* the longest back-off.                                                   *)
EXTENDS WatchHealth
=============================================================================
