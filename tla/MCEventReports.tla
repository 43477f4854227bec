---------------------------- MODULE MCEventReports ----------------------------
(* Instances of EventReports for TLC.                                        *)
EXTENDS EventReports, TLC

\* Half seconds: "12:00:00.5Z" comes before "12:00:00Z".
Halves == (0 :> <<>>) @@ (1 :> <<5>>)
=============================================================================
