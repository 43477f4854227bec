----------------------------- MODULE MCLogIngest -----------------------------
(* Instances of LogIngest for TLC.                                         *)
EXTENDS LogIngestInv

\* One watched file.
One == {1}
OneExpand == [w \in One |-> {1}]

\* A glob over a log and its rotated predecessor, app.log and app.log.1.
Two == {1, 2}
GlobExpand == [w \in One |-> Two]

\* Contents, one tuple per generation: a line in two chunks, adjacent lines, every
\* verdict, and a line left open at the end.
Script1x2 == <<  <<"part", "report">>  >>
Script2x2 == <<  <<"report", "ignore">>, <<"part", "report">>  >>
Script2x3 == <<  <<"part", "report", "ignore">>, <<"report", "plain", "report">>  >>
=============================================================================
