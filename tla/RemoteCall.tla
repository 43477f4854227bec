----------------------------- MODULE RemoteCall -----------------------------
(***************************************************************************)
(* What a command promises to whoever ran it, daemons and sockets aside:   *)
(* its change is made at most once, its exit code is final, 0 comes only   *)
(* after the change, and a command that was told "no" changes nothing, now *)
(* or later.  Where the answer is lost the exit code is 1 and nothing is   *)
(* promised: the change may have been made, or be made after the command   *)
(* has ended.  Daemon implements this specification.                       *)
(***************************************************************************)
EXTENDS Integers

CONSTANTS Calls,      \* runs of the CLI
          Commands,   \* what they may run
          Local,      \* answered without a daemon
          Changes,    \* with a change to make
          Loose,      \* may be told "no" although the change was made
          Running,    \* in place of an exit code
          None

VARIABLES cmd,    \* [Calls -> Commands \cup {None}]
          done,   \* [Calls -> {0, 1}], the change
          told,   \* [Calls -> {None, "ok", "error"}], what the call was answered
          exit    \* [Calls -> exit code, or Running]

vars == <<cmd, done, told, exit>>

Init == /\ cmd = [c \in Calls |-> None] /\ done = [c \in Calls |-> 0]
        /\ told = [c \in Calls |-> None] /\ exit = [c \in Calls |-> Running]

Exits(c, n) == exit[c] = Running /\ exit' = [exit EXCEPT ![c] = n]

\* Refused before anything is sent.
Refuse(c) == /\ cmd[c] = None
             /\ \E n \in {1, 2} : Exits(c, n)
             /\ UNCHANGED <<cmd, done, told>>

PrintLocal(c, k) == /\ cmd[c] = None /\ k \in Local
                    /\ cmd' = [cmd EXCEPT ![c] = k] /\ Exits(c, 0)
                    /\ UNCHANGED <<done, told>>

Send(c, k) == /\ cmd[c] = None /\ exit[c] = Running /\ k \notin Local
              /\ cmd' = [cmd EXCEPT ![c] = k]
              /\ UNCHANGED <<done, told, exit>>

\* The change, also of a call that has given up, but of none that was answered.
Apply(c) == /\ cmd[c] \in Changes /\ done[c] = 0 /\ told[c] = None /\ exit[c] \in {Running, 1}
            /\ done' = [done EXCEPT ![c] = 1]
            /\ UNCHANGED <<cmd, told, exit>>

Confirm(c) == /\ cmd[c] # None /\ (cmd[c] \in Changes => done[c] = 1)
              /\ told' = [told EXCEPT ![c] = "ok"] /\ Exits(c, 0)
              /\ UNCHANGED <<cmd, done>>

Reject(c) == /\ cmd[c] # None /\ (cmd[c] \notin Loose => done[c] = 0)
             /\ told' = [told EXCEPT ![c] = "error"] /\ Exits(c, 1)
             /\ UNCHANGED <<cmd, done>>

\* The connection breaks, the answer is too long, or nobody waits for it.
Lose(c) == /\ cmd[c] # None
           /\ Exits(c, 1)
           /\ UNCHANGED <<cmd, done, told>>

Next == \E c \in Calls :
          \/ Refuse(c) \/ Apply(c) \/ Confirm(c) \/ Reject(c) \/ Lose(c)
          \/ \E k \in Commands : PrintLocal(c, k) \/ Send(c, k)

Spec == Init /\ [][Next]_vars
=============================================================================
