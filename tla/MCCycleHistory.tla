---------------------------- MODULE MCCycleHistory ----------------------------
(* Instances of CycleHistory for TLC.                                      *)
EXTENDS CycleHistory, TLC

One == {1}
Two == {1, 2}
OneExpand == [w \in One |-> {1}]

\* The glob of log 1 takes in the file of log 2.
GlobAndFile == (1 :> Two) @@ (2 :> {2})

Script2x1 == <<  <<"report">>, <<"report">>  >>
Script2x2 == <<  <<"report", "ignore">>, <<"part", "report">>  >>
=============================================================================
