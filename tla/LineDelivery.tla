---------------------------- MODULE LineDelivery ----------------------------
(***************************************************************************)
(* What the tailing part of yllmlogd promises to whoever reads the events: *)
(* every source (a watched log and one of its files) has a cursor, a line  *)
(* that calls for an event is delivered while the cursor stands right      *)
(* before it, and the cursor never moves past such a line that was not     *)
(* delivered.  Delivery is at least once: a rewound or re-created cursor   *)
(* delivers again.                                                         *)
(*                                                                         *)
(* The files' contents are not part of the state: Text[g] is what          *)
(* generation g of a file holds, one chunk per position, and the module    *)
(* says nothing of which generation is on disk.  LogIngest implements this *)
(* specification whatever happens to the files.                            *)
(***************************************************************************)
EXTENDS Integers

CONSTANTS Source,   \* what has a cursor
          Gen,      \* file generations
          Pos,      \* positions of a file, 1..n
          Text      \* [Gen -> [Pos -> chunk]], the chunk "part" ends no line

VARIABLES cursor,   \* [Source -> Nat \cup {Untracked}], the persisted offset
          count     \* [Source -> [Gen -> [Pos -> Nat]]], deliveries of a line

vars == <<cursor, count>>

Untracked == -1

EndsLine(g, n) == Text[g][n] # "part"

\* Position n of generation g ends the first line at or after offset o.
Head(g, o, n) == /\ n > o /\ EndsLine(g, n)
                 /\ \A k \in Pos : o < k /\ k < n => ~EndsLine(g, k)

\* A cursor inside a line (it was left there by another generation of the
\* file) leaves the tail of that line to be judged on its own.
Torn(g, o) == o \in Pos /\ ~EndsLine(g, o)

Init == /\ cursor = [s \in Source |-> Untracked]
        /\ count = [s \in Source |-> [g \in Gen |-> [n \in Pos |-> 0]]]

\* A file is seen for the first time.
Track(s) == /\ cursor[s] = Untracked
            /\ cursor' = [cursor EXCEPT ![s] = 0]
            /\ UNCHANGED count

\* The log is no longer watched.
Forget(S) == /\ cursor' = [s \in Source |-> IF s \in S THEN Untracked ELSE cursor[s]]
             /\ UNCHANGED count

\* The file was rotated: start over.
Rewind(s) == /\ cursor[s] > 0
             /\ cursor' = [cursor EXCEPT ![s] = 0]
             /\ UNCHANGED count

\* The line right after the cursor is delivered; only a tracked source delivers.
Deliver(s, g, n) == /\ cursor[s] # Untracked /\ Head(g, cursor[s], n)
                    /\ count' = [count EXCEPT ![s][g][n] = @ + 1]
                    /\ UNCHANGED cursor

\* The cursor moves past one line, which was delivered if it calls for it.
Pass(s, g, n) == /\ cursor[s] # Untracked /\ Head(g, cursor[s], n)
                 /\ \/ Torn(g, cursor[s])
                    \/ Text[g][n] # "report"
                    \/ count[s][g][n] > 0
                 /\ cursor' = [cursor EXCEPT ![s] = n]
                 /\ UNCHANGED count

Next == \/ \E s \in Source : Track(s) \/ Rewind(s)
        \/ \E S \in SUBSET Source : Forget(S)
        \/ \E s \in Source, g \in Gen, n \in Pos : Deliver(s, g, n) \/ Pass(s, g, n)

Spec == Init /\ [][Next]_vars
=============================================================================
