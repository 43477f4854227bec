------------------------------ MODULE MCDaemon ------------------------------
(* Instances of Daemon for TLC.                                            *)
EXTENDS Daemon, TLC

CONSTANTS d1, d2

Sql(vs) == {[name |-> ToString(v), version |-> v] : v \in vs}

\* The two files of migrations/ in one program, and a program with one more in between.
TwoPrograms == (d1 :> Sql({1, 3})) @@ (d2 :> Sql({1, 2, 3}))
=============================================================================
