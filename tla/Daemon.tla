------------------------------- MODULE Daemon -------------------------------
(***************************************************************************)
(* The life of yllmlogd processes that share a database and a socket path, *)
(* and the requests of CLI processes: cmd/yllmlogd/main.go,                *)
(* internal/daemon/daemon.go, internal/socket and internal/cli.            *)
(*                                                                         *)
(* New up to the migrations is module Migrations.  A process then removes  *)
(* what is at the socket path, binds, serves, and on a signal takes itself *)
(* apart step by step, its handlers still running.  A call is one run of   *)
(* the CLI: one connection with one request.                               *)
(***************************************************************************)
EXTENDS Migrations

CONSTANTS
  Calls,      \* runs of the CLI
  Commands,   \* what they may run
  MaxStarts,  \* bound: processes started
  Stale       \* the socket of a process that is gone

\* The commands by what they need and do.
Local == {"version"}                              \* printed without a daemon
Changes == {"logs add", "logs remove", "reports"}  \* one committed change each
Unbounded == {"logs list", "issues", "issue", "reports"}  \* may answer more than 64 KB
Queries == {"logs list", "issues", "issue", "status"}

ASSUME CommandsAssumption == Commands \subseteq Local \cup Changes \cup Queries
ASSUME StaleAssumption == Stale \notin Daemons \cup {None}
ASSUME NoReplyAssumption == None \notin Commands \cup {"ok", "error", "long"}

VARIABLES
  serve,   \* where Listen or Close stands: "no", "found", "prepared", "bound", "failing",
           \* "serving", "draining", "stopped", "unlistened", "removed", "closed"
  cycle,   \* the processor goroutine: "none", "idle", "running"
  sock,    \* whose socket is at the path: a process, Stale or None
  call,    \* [Calls -> [cmd, at, srv, done, reply, got, exit]]
  starts,  \* processes started so far
  alone    \* history: no other process has been there since this one started

sockVars == <<serve, cycle, sock, call, starts, alone>>
vars == <<bootVars, sockVars>>

Up(d) == boot[d] # "off"
Listening(d) == serve[d] \in {"bound", "serving", "draining", "stopped"}
DbOpen(d) == Up(d) /\ serve[d] # "closed"
Running == 3      \* in place of an exit code
Waiting(c) == call[c].exit = Running /\ call[c].at # "none"

NoCall == [cmd |-> None, at |-> "none", srv |-> None, done |-> 0, reply |-> None,
           got |-> None, exit |-> Running]

Init ==
  /\ BootInit
  /\ serve = [d \in Daemons |-> "no"] /\ cycle = [d \in Daemons |-> "none"]
  /\ sock = None /\ call = [c \in Calls |-> NoCall]
  /\ starts = 0 /\ alone = [d \in Daemons |-> FALSE]

-----------------------------------------------------------------------------
(* The process.                                                            *)

Start(d) ==
  /\ starts < MaxStarts /\ starts' = starts + 1
  /\ Open(d)
  /\ alone' = IF \E e \in Daemons : Up(e) THEN [e \in Daemons |-> FALSE]
              ELSE [alone EXCEPT ![d] = TRUE]
  /\ UNCHANGED <<serve, cycle, sock, call>>

Boot(d) == BootStep(d) /\ UNCHANGED sockVars

\* Connections that nobody will answer any more.
Broken(d, stages) ==
  [c \in Calls |-> IF call[c].srv = d /\ call[c].at \in stages
                   THEN [call[c] EXCEPT !.at = "broken"] ELSE call[c]]

\* The process ends: its goroutines with it, and a socket left at the path is stale.
Gone(d) ==
  /\ serve' = [serve EXCEPT ![d] = "no"] /\ cycle' = [cycle EXCEPT ![d] = "none"]
  /\ call' = Broken(d, {"queued", "handling", "handled"})
  /\ UNCHANGED <<starts, alone>>

Crash(d) == Fail(d) /\ Gone(d) /\ sock' = IF sock = d THEN Stale ELSE sock

\* A slip: whatever is at the path is left there.
PrepareMutant_Keep(d) ==
  /\ boot[d] = "ready" /\ serve[d] = "no"
  /\ serve' = [serve EXCEPT ![d] = "prepared"]
  /\ UNCHANGED <<bootVars, sock, cycle, call, starts, alone>>

\* prepareSocket up to its Lstat: is there something at the path
Prepare(d) ==
  /\ boot[d] = "ready" /\ serve[d] = "no"
  /\ serve' = [serve EXCEPT ![d] = IF sock = None THEN "prepared" ELSE "found"]
  /\ UNCHANGED <<bootVars, sock, cycle, call, starts, alone>>

\* Its Remove, of whatever is there by now.
RemoveFound(d) ==
  /\ serve[d] = "found" /\ sock # None
  /\ serve' = [serve EXCEPT ![d] = "prepared"] /\ sock' = None
  /\ UNCHANGED <<bootVars, cycle, call, starts, alone>>

\* Another process removed it meanwhile: ENOENT, and main exits.
RemoveFails(d) ==
  /\ serve[d] = "found" /\ sock = None
  /\ Leave(d) /\ Gone(d) /\ UNCHANGED sock

\* net.Listen
Bind(d) ==
  /\ serve[d] = "prepared" /\ sock = None
  /\ serve' = [serve EXCEPT ![d] = "bound"] /\ sock' = d
  /\ UNCHANGED <<bootVars, cycle, call, starts, alone>>

\* A path that was taken meanwhile: main exits, without Close.
BindFails(d) ==
  /\ serve[d] = "prepared" /\ sock # None
  /\ Leave(d) /\ Gone(d) /\ UNCHANGED sock

\* chmod, whatever is at the path by now; the accept loop and the processor.
Serve(d) ==
  /\ serve[d] = "bound" /\ sock # None
  /\ serve' = [serve EXCEPT ![d] = "serving"] /\ cycle' = [cycle EXCEPT ![d] = "idle"]
  /\ UNCHANGED <<bootVars, sock, call, starts, alone>>

\* chmod of a path that is gone.
ChmodFails(d) ==
  /\ serve[d] = "bound" /\ sock = None
  /\ serve' = [serve EXCEPT ![d] = "failing"]
  /\ UNCHANGED <<bootVars, sock, cycle, call, starts, alone>>

\* The listener is closed, which removes what is at the path by now, and main exits.
ListenFails(d) == serve[d] = "failing" /\ Leave(d) /\ Gone(d) /\ sock' = None

BeginCycle(d) ==
  /\ serve[d] = "serving" /\ cycle[d] = "idle"
  /\ cycle' = [cycle EXCEPT ![d] = "running"]
  /\ UNCHANGED <<bootVars, serve, sock, call, starts, alone>>

\* A slip: a cycle whose context is cancelled does not return.
EndCycleMutant_Retries(d) ==
  /\ cycle[d] = "running" /\ serve[d] = "serving"
  /\ cycle' = [cycle EXCEPT ![d] = "idle"]
  /\ UNCHANGED <<bootVars, serve, sock, call, starts, alone>>

EndCycle(d) ==
  /\ cycle[d] = "running"
  /\ cycle' = [cycle EXCEPT ![d] = "idle"]
  /\ UNCHANGED <<bootVars, serve, sock, call, starts, alone>>

\* A slip: the file is removed before the listener is closed.
SignalMutant_RemovesFirst(d) ==
  /\ serve[d] = "serving"
  /\ serve' = [serve EXCEPT ![d] = "draining"] /\ sock' = None
  /\ UNCHANGED <<bootVars, cycle, call, starts, alone>>

\* SIGINT or SIGTERM: Close begins, with cancel.
Signal(d) ==
  /\ serve[d] = "serving"
  /\ serve' = [serve EXCEPT ![d] = "draining"]
  /\ UNCHANGED <<bootVars, cycle, sock, call, starts, alone>>

\* A slip: Close does not wait for the processor.
StopProcessorMutant_NoWait(d) ==
  /\ serve[d] = "draining"
  /\ serve' = [serve EXCEPT ![d] = "stopped"]
  /\ UNCHANGED <<bootVars, cycle, sock, call, starts, alone>>

\* wg.Wait: the processor sees the cancellation between two cycles.
StopProcessor(d) ==
  /\ serve[d] = "draining" /\ cycle[d] = "idle"
  /\ serve' = [serve EXCEPT ![d] = "stopped"] /\ cycle' = [cycle EXCEPT ![d] = "none"]
  /\ UNCHANGED <<bootVars, sock, call, starts, alone>>

\* A slip: the listener is closed without its file (SetUnlinkOnClose(false)).
CloseListenerMutant_Keeps(d) ==
  /\ serve[d] = "stopped"
  /\ serve' = [serve EXCEPT ![d] = "unlistened"] /\ call' = Broken(d, {"queued"})
  /\ UNCHANGED <<bootVars, cycle, sock, starts, alone>>

\* Server.Close: listener.Close removes what is at the path and resets the connections
\* that were not accepted.
CloseListener(d) ==
  /\ serve[d] = "stopped"
  /\ serve' = [serve EXCEPT ![d] = "unlistened"] /\ sock' = None
  /\ call' = Broken(d, {"queued"})
  /\ UNCHANGED <<bootVars, cycle, starts, alone>>

\* It then removes what is at the path once more.
RemoveSocket(d) ==
  /\ serve[d] = "unlistened"
  /\ serve' = [serve EXCEPT ![d] = "removed"] /\ sock' = None
  /\ UNCHANGED <<bootVars, cycle, call, starts, alone>>

CloseDb(d) ==
  /\ serve[d] = "removed"
  /\ serve' = [serve EXCEPT ![d] = "closed"]
  /\ UNCHANGED <<bootVars, cycle, sock, call, starts, alone>>

Exit(d) == serve[d] = "closed" /\ Leave(d) /\ Gone(d) /\ UNCHANGED sock

Process(d) ==
  \/ Boot(d) \/ Prepare(d) \/ RemoveFound(d) \/ RemoveFails(d) \/ Bind(d) \/ BindFails(d)
  \/ Serve(d) \/ ChmodFails(d) \/ ListenFails(d)
  \/ EndCycle(d) \/ StopProcessor(d) \/ CloseListener(d) \/ RemoveSocket(d)
  \/ CloseDb(d) \/ Exit(d)

-----------------------------------------------------------------------------
(* The calls.                                                              *)

Exits(c, n) == call' = [call EXCEPT ![c].exit = n]
UnchangedButCall == UNCHANGED <<bootVars, serve, cycle, sock, starts, alone>>

\* cli.Run and socket.Do up to the request: bad arguments end the call with 2, a
\* configuration that does not load or a socket nobody listens on with 1.
Run(c, cmd) ==
  /\ call[c] = NoCall
  /\ \/ \E n \in {1, 2} : Exits(c, n)
     \/ /\ cmd \in Local
        /\ call' = [call EXCEPT ![c].cmd = cmd, ![c].exit = 0]
     \/ /\ cmd \notin Local /\ sock \in Daemons
        /\ call' = [call EXCEPT ![c].cmd = cmd, ![c].at = "queued", ![c].srv = sock]
  /\ UnchangedButCall

\* The accept loop and handleConn: a goroutine reads the request.
Accept(c) ==
  /\ call[c].at = "queued" /\ serve[call[c].srv] \in {"serving", "draining", "stopped"}
  /\ call' = [call EXCEPT ![c].at = "handling"]
  /\ UnchangedButCall

\* A slip: the answer does not depend on what became of the change.
HandleMutant_Apart(c) ==
  /\ call[c].at = "handling"
  /\ \E r \in {"ok", "error"}, n \in {0, 1} :
       call' = [call EXCEPT ![c].at = "handled", ![c].reply = r, ![c].done = n]
  /\ UnchangedButCall

\* Daemon.handle, rejected or failed, or done.  logs.add may also fail after its
\* change, in its second query.
Handle(c) ==
  LET cmd == call[c].cmd
      Replies(r, n) ==
        call' = [call EXCEPT ![c].at = "handled", ![c].reply = r, ![c].done = n]
  IN
  /\ call[c].at = "handling"
  /\ \/ cmd # "status" /\ Replies("error", 0)
     \/ cmd = "status" /\ Replies("ok", 0)
     \/ /\ cmd # "status" /\ DbOpen(call[c].srv)
        /\ \/ Replies("ok", IF cmd \in Changes THEN 1 ELSE 0)
           \/ cmd \in Unbounded /\ Replies("long", IF cmd \in Changes THEN 1 ELSE 0)
           \/ cmd = "logs add" /\ Replies("error", 1)
  /\ UnchangedButCall

\* A slip: handleConn goes on to the next request without writing the error.
AnswerMutant_OnlyResults(c) ==
  /\ call[c].at = "handled" /\ call[c].reply # "error"
  /\ call' = [call EXCEPT ![c].at = "answered"]
  /\ UnchangedButCall

\* writeResponse
Answer(c) ==
  /\ call[c].at = "handled"
  /\ call' = [call EXCEPT ![c].at = "answered"]
  /\ UnchangedButCall

\* A slip: logs.remove does not look at OK.
ExitCodeMutant_Plain(cmd, reply) == IF reply = "ok" \/ cmd = "logs remove" THEN 0 ELSE 1

\* The end of the commands: logs.remove looks at OK, the others call DecodeResult; an
\* answer that does not fit the scanner is an error of Do.
ExitCode(cmd, reply) == IF reply = "ok" THEN 0 ELSE 1

Receive(c) ==
  /\ Waiting(c)
  /\ \/ /\ call[c].at = "answered"
        /\ call' = [call EXCEPT ![c].got = IF call[c].reply = "long" THEN None ELSE call[c].reply,
                                ![c].exit = ExitCode(call[c].cmd, call[c].reply)]
     \/ call[c].at = "broken" /\ Exits(c, 1)
  /\ UnchangedButCall

\* The user does not wait: Do itself waits without a deadline.
GiveUp(c) == Waiting(c) /\ Exits(c, 1) /\ UnchangedButCall

Handler(c) == Accept(c) \/ Handle(c) \/ Answer(c)

Next ==
  \/ \E d \in Daemons : Start(d) \/ Process(d) \/ BeginCycle(d) \/ Signal(d) \/ Crash(d)
  \/ \E c \in Calls : \/ \E cmd \in Commands : Run(c, cmd)
                      \/ Handler(c) \/ Receive(c) \/ GiveUp(c)

Spec == Init /\ [][Next]_vars

\* Every goroutine goes on, and so does the CLI when there is something to read.
\* Nothing starts a process, sends a signal or makes the ticker fire.
FairSpec == /\ Spec
            /\ \A d \in Daemons : WF_vars(Process(d))
            /\ \A c \in Calls : WF_vars(Handler(c)) /\ WF_vars(Receive(c))

-----------------------------------------------------------------------------
(* Properties.                                                             *)

Stages == {"none", "queued", "handling", "handled", "answered", "broken"}
Replies == {None, "ok", "error", "long"}
CallType == [cmd : Commands \cup {None}, at : Stages, srv : Daemons \cup {None},
             done : {0, 1}, reply : Replies, got : Replies, exit : {0, 1, 2, Running}]

TypeOK ==
  /\ BootInv
  /\ serve \in [Daemons -> {"no", "found", "prepared", "bound", "failing", "serving",
                            "draining", "stopped", "unlistened", "removed", "closed"}]
  /\ cycle \in [Daemons -> {"none", "idle", "running"}]
  /\ sock \in Daemons \cup {None, Stale}
  /\ call \in [Calls -> CallType]
  /\ starts \in Nat /\ alone \in [Daemons -> BOOLEAN]

\* The processor runs only while the database of its process is open: Close waits for
\* it before it closes anything (daemon.Close).
NoCycleAfterClose ==
  \A d \in Daemons : cycle[d] # "none" => DbOpen(d) /\ serve[d] \in {"serving", "draining"}

\* A command that ends with 0 had its change committed, once; one that was answered ends
\* with what the answer says; and one that was answered with an error, or refused before
\* it was sent, changed nothing and may be repeated (logs.add is the exception), however
\* many processes came and went meanwhile.  Of a command that lost its answer nothing is
\* known.
ExitIsTrue ==
  \A c \in Calls :
    /\ call[c].exit = 0 /\ call[c].cmd \in Changes => call[c].done = 1
    /\ call[c].got = "ok" <=> call[c].exit = 0 /\ call[c].cmd \notin Local
    /\ (call[c].got = "error" /\ call[c].cmd # "logs add") \/ call[c].exit = 2
         => call[c].done = 0

\* The promise of RemoteCall: what a call was told stays true, its exit code is final,
\* and a change that comes after the client has gone is the only late one.
Promise == INSTANCE RemoteCall WITH
  Loose <- {"logs add"},
  cmd <- [c \in Calls |-> call[c].cmd],
  done <- [c \in Calls |-> call[c].done],
  told <- [c \in Calls |-> call[c].got],
  exit <- [c \in Calls |-> call[c].exit]

CallSpec == Promise!Spec

\* A socket at the path that is not stale is one somebody listens on: a call that
\* connects is not left with a process that will never look at it.
SocketIsHeard == \A d \in Daemons : sock = d => Listening(d)

\* The socket of a process that has had no other beside it is at the path as long as
\* it listens, whatever earlier processes left there or removed.
AloneIsReachable == \A d \in Daemons : alone[d] /\ Listening(d) => sock = d

\* Once failures have stopped, a process that starts with no other beside it gets to
\* serve, whatever a crash left of a migration or at the socket path.
AloneServes ==
  \A d \in Daemons :
    Booting(d) /\ alone[d] /\ faults = MaxFaults ~> serve[d] = "serving" \/ ~alone[d]

\* A call that has connected ends: it is answered, or its connection is closed.
Answered == \A c \in Calls : call[c].at = "queued" ~> call[c].exit # Running

\* A signal ends the process: nothing that Close waits for is stuck.
CloseEnds == \A d \in Daemons : serve[d] = "draining" ~> ~Up(d)
=============================================================================
