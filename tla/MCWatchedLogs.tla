---------------------------- MODULE MCWatchedLogs ----------------------------
(* Instances of WatchedLogs for TLC; callers, connections and paths are      *)
(* model values, of which the callers and the connections are symmetric.     *)
EXTENDS WatchedLogs, TLC

Symmetric == Permutations(Caller) \cup Permutations(Conn)
=============================================================================
