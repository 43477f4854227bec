---------------------------- MODULE DaemonProofs ----------------------------
(* Theorems about Migrations and Daemon, for any number of processes, files  *)
(* and calls.                                                                *)
EXTENDS Daemon, TLAPS

-----------------------------------------------------------------------------
(* Migrations: the schema is the ledger.                                     *)

\* db.Open to the last commit: the invariant holds when no process has started.
LEMMA BootInitial == BootInit => BootInv
  BY NoneAssumption DEF BootInit, BootInv, SchemaIsLedger

\* A process that goes takes its transaction along.
LEMMA QuitKeeps ==
  ASSUME BootInv, NEW d \in Daemons, Quit(d)
  PROVE  BootInv'
  BY NoneAssumption DEF BootInv, Quit, SchemaIsLedger

\* Every step of a process keeps it.
LEMMA BootStepKeeps ==
  ASSUME BootInv, NEW d \in Daemons, BootStep(d)
  PROVE  BootInv'
<1>1. CASE Check(d)
  BY <1>1 DEF BootInv, Check, SchemaIsLedger
<1>2. CASE ApplySql(d)
  BY <1>2, NoneAssumption DEF BootInv, ApplySql, SchemaIsLedger
<1>3. CASE RecordVersion(d)
  BY <1>3 DEF BootInv, RecordVersion, SchemaIsLedger
<1>4. CASE Commit(d)
  <2>1. PICK v \in todo[d] : /\ schema' = schema \cup {v} /\ ledger' = ledger \cup {v}
                             /\ todo' = [todo EXCEPT ![d] = @ \ {v}]
    BY <1>4 DEF Commit
  <2>2. lock = d /\ lock' = None /\ boot' = [boot EXCEPT ![d] = "check"]
    BY <1>4 DEF Commit, BootInv
  <2> QED BY <2>1, <2>2, NoneAssumption DEF BootInv, SchemaIsLedger
<1>5. CASE Ready(d)
  BY <1>5 DEF BootInv, Ready, SchemaIsLedger
<1>6. CASE Conflict(d)
  BY <1>6, QuitKeeps DEF Conflict
<1> QED BY <1>1, <1>2, <1>3, <1>4, <1>5, <1>6 DEF BootStep

\* So does a start: the list of a process begins with all its files.
LEMMA OpenKeeps ==
  ASSUME BootInv, NEW d \in Daemons, Open(d)
  PROVE  BootInv'
<1>1. Versions(d) \in SUBSET Nat
  BY FilesAssumption DEF Versions, File
<1> QED BY <1>1 DEF BootInv, Open, SchemaIsLedger

LEMMA BootNextKeeps ==
  ASSUME BootInv, [BootNext]_bootVars
  PROVE  BootInv'
<1>1. CASE UNCHANGED bootVars
  BY <1>1 DEF bootVars, BootInv, SchemaIsLedger
<1>2. ASSUME NEW d \in Daemons, Open(d) \/ BootStep(d) \/ Fail(d) \/ Leave(d)
      PROVE  BootInv'
  BY <1>2, OpenKeeps, BootStepKeeps, QuitKeeps DEF Fail, Leave
<1> QED BY <1>1, <1>2 DEF BootNext

\* The invariant of Migrations on its own.
THEOREM BootInvariance == BootSpec => []BootInv
  BY BootInitial, BootNextKeeps, PTL DEF BootSpec

\* What is left of a program's files is some of them: what is not left is in the ledger,
\* and the next one has none before it among what is left.
OrderInv == LedgerInOrder /\ \A d \in Daemons : todo[d] \subseteq Versions(d)

LEMMA CommitInOrder ==
  ASSUME BootInv, OrderInv, NEW d \in Daemons, Commit(d)
  PROVE  OrderInv'
<1>1. PICK v \in todo[d] : /\ IsNext(d, v) /\ ledger' = ledger \cup {v}
                           /\ todo' = [todo EXCEPT ![d] = @ \ {v}]
  BY DEF Commit
<1>2. boot[d] # "off" /\ todo[d] \subseteq Nat
  BY DEF Commit, BootInv
<1>3. \A u \in Versions(d) : u < v => u \in ledger
  <2>1. ASSUME NEW u \in todo[d], u < v PROVE FALSE
    BY <1>1, <1>2, <2>1 DEF IsNext
  <2> QED BY <1>2, <2>1 DEF BootInv
<1>4. v \in Versions(d)
  BY <1>1 DEF OrderInv
<1>5. LedgerInOrder'
  BY <1>1, <1>3, <1>4 DEF OrderInv, LedgerInOrder, Versions
<1> QED BY <1>1, <1>5 DEF OrderInv, BootInv, Versions

LEMMA OrderKept ==
  ASSUME BootInv, OrderInv, [BootNext]_bootVars
  PROVE  OrderInv'
<1>1. ASSUME NEW d \in Daemons, Commit(d)
      PROVE  OrderInv'
  BY <1>1, CommitInOrder
<1>2. ASSUME NEW d \in Daemons,
             \/ Open(d) \/ Check(d) \/ ApplySql(d) \/ RecordVersion(d) \/ Ready(d)
             \/ Conflict(d) \/ Fail(d) \/ Leave(d)
      PROVE  OrderInv'
  <2>1. ledger' = ledger
    BY <1>2 DEF Open, Check, ApplySql, RecordVersion, Ready, Conflict, Fail, Leave, Quit
  <2>2. \E S \in SUBSET Versions(d) : todo' = [todo EXCEPT ![d] = S]
    BY <1>2 DEF OrderInv, BootInv, Open, Check, ApplySql, RecordVersion, Ready, Conflict,
         Fail, Leave, Quit
  <2>3. \A e \in Daemons : todo'[e] \subseteq Versions(e)
    BY <2>2 DEF OrderInv, BootInv
  <2> QED BY <2>1, <2>3 DEF OrderInv, LedgerInOrder, Versions
<1>3. CASE UNCHANGED bootVars
  BY <1>3 DEF bootVars, OrderInv, LedgerInOrder, Versions
<1> QED BY <1>1, <1>2, <1>3 DEF BootNext, BootStep

LEMMA OrderInvariance == BootSpec => []OrderInv
<1>1. BootInit => OrderInv
  BY DEF BootInit, OrderInv, LedgerInOrder
<1> QED BY <1>1, OrderKept, BootInvariance, PTL DEF BootSpec

-----------------------------------------------------------------------------
(* Daemon: every step is one of Migrations or leaves it alone.               *)

LEMMA DaemonStepBoots ==
  ASSUME Next
  PROVE  [BootNext]_bootVars
<1>1. ASSUME NEW d \in Daemons,
             Start(d) \/ Process(d) \/ BeginCycle(d) \/ Signal(d) \/ Crash(d)
      PROVE  [BootNext]_bootVars
  <2>1. CASE Start(d) \/ Crash(d)
    BY <2>1 DEF Start, Crash, BootNext
  <2>2. CASE Process(d)
    BY <2>2 DEF Process, Boot, Prepare, RemoveFound, RemoveFails, Bind, BindFails, Serve,
         ChmodFails, ListenFails, EndCycle, StopProcessor, CloseListener, RemoveSocket, CloseDb,
         Exit, BootNext, bootVars
  <2>3. CASE BeginCycle(d) \/ Signal(d)
    BY <2>3 DEF BeginCycle, Signal, bootVars
  <2> QED BY <1>1, <2>1, <2>2, <2>3
<1>2. ASSUME NEW c \in Calls, NEW cmd \in Commands,
             Run(c, cmd) \/ Handler(c) \/ Receive(c) \/ GiveUp(c)
      PROVE  UNCHANGED bootVars
  BY <1>2 DEF Run, Handler, Accept, Handle, Answer, Receive, GiveUp, UnchangedButCall,
       bootVars
<1>3. ASSUME NEW c \in Calls, Handler(c) \/ Receive(c) \/ GiveUp(c)
      PROVE  UNCHANGED bootVars
  BY <1>3 DEF Handler, Accept, Handle, Answer, Receive, GiveUp, UnchangedButCall,
       bootVars
<1> QED BY <1>1, <1>2, <1>3 DEF Next

\* Daemon implements Migrations: the life of the processes adds nothing to it.
THEOREM ImplementsMigrations == Spec => BootSpec
<1>1. Init => BootInit
  BY DEF Init
<1>2. [Next]_vars => [BootNext]_bootVars
  BY DaemonStepBoots DEF vars
<1> QED BY <1>1, <1>2, PTL DEF Spec, BootSpec

\* A version is in the schema exactly when it is in the ledger, at any cut-off.
THEOREM SchemaLedger == Spec => []SchemaIsLedger
<1>1. BootInv => SchemaIsLedger
  BY DEF BootInv
<1> QED BY <1>1, ImplementsMigrations, BootInvariance, PTL

\* No version is applied before the earlier files of the program that brings it, by any
\* number of programs that migrate one database at the same time.
THEOREM LedgerOrder == Spec => []LedgerInOrder
<1>1. OrderInv => LedgerInOrder
  BY DEF OrderInv
<1> QED BY <1>1, ImplementsMigrations, OrderInvariance, PTL

\* A process that has started has the schema its program needs.
THEOREM ReadySchema == Spec => []ReadyHasSchema
<1>1. BootInv => ReadyHasSchema
  BY DEF BootInv, ReadyHasSchema, SchemaIsLedger
<1> QED BY <1>1, ImplementsMigrations, BootInvariance, PTL

-----------------------------------------------------------------------------
(* The processes: who has the socket, and when the processor runs.           *)

\* What the order of Listen and of Close establishes.
ServeInv ==
  /\ boot \in [Daemons -> {"off", "check", "apply", "record", "commit", "ready"}]
  /\ serve \in [Daemons -> {"no", "found", "prepared", "bound", "failing", "serving",
                            "draining", "stopped", "unlistened", "removed", "closed"}]
  /\ cycle \in [Daemons -> {"none", "idle", "running"}]
  /\ sock \in Daemons \cup {None, Stale}
  /\ alone \in [Daemons -> BOOLEAN]
  /\ \A d \in Daemons : serve[d] # "no" => boot[d] = "ready"
  /\ \A d \in Daemons : cycle[d] # "none" => serve[d] \in {"serving", "draining"}
  /\ \A d, e \in Daemons : alone[d] /\ Up(d) /\ Up(e) => d = e
  /\ SocketIsHeard
  /\ AloneIsReachable

\* One process opens the socket, the others are not at its path before it is bound.
LEMMA ServeInitial == Init => ServeInv
  BY NoneAssumption, StaleAssumption
  DEF Init, BootInit, ServeInv, Up, SocketIsHeard, AloneIsReachable, Listening

\* The steps of New leave the socket alone.
LEMMA BootKeepsServe ==
  ASSUME ServeInv, NEW d \in Daemons, Boot(d)
  PROVE  ServeInv'
<1>1. /\ UNCHANGED <<serve, cycle, sock, alone>>
      /\ boot[d] # "off"
      /\ serve[d] = "no"
      /\ \E b \in {"off", "check", "apply", "record", "commit", "ready"} :
           boot' = [boot EXCEPT ![d] = b]
  BY DEF Boot, BootStep, Check, ApplySql, RecordVersion, Commit, Ready, Conflict, Quit,
         sockVars, ServeInv
<1> QED BY <1>1 DEF ServeInv, Up, SocketIsHeard, AloneIsReachable, Listening

\* A start: the only process there is alone, and where there is another none is.
LEMMA StartKeepsServe ==
  ASSUME ServeInv, NEW d \in Daemons, Start(d)
  PROVE  ServeInv'
<1>1. /\ UNCHANGED <<serve, cycle, sock>>
      /\ boot[d] = "off" /\ boot' = [boot EXCEPT ![d] = "check"]
      /\ serve[d] = "no"
  BY DEF Start, Open, ServeInv
<1>2. CASE \E e \in Daemons : Up(e)
  <2>1. alone' = [e \in Daemons |-> FALSE]
    BY <1>2 DEF Start
  <2> QED BY <1>1, <2>1 DEF ServeInv, Up, SocketIsHeard, AloneIsReachable, Listening
<1>3. CASE ~ \E e \in Daemons : Up(e)
  <2>1. alone' = [alone EXCEPT ![d] = TRUE]
    BY <1>3 DEF Start
  <2>2. \A e \in Daemons : serve[e] = "no"
    BY <1>3 DEF ServeInv, Up
  <2> QED BY <1>1, <1>3, <2>1, <2>2
          DEF ServeInv, Up, SocketIsHeard, AloneIsReachable, Listening
<1> QED BY <1>2, <1>3

\* A process that goes: what was its socket is stale, others keep theirs.
LEMMA GoneKeepsServe ==
  ASSUME ServeInv, NEW d \in Daemons, Quit(d), Gone(d),
         sock' = (IF sock = d THEN Stale ELSE sock)
  PROVE  ServeInv'
  BY NoneAssumption, StaleAssumption
  DEF ServeInv, Quit, Gone, Up, SocketIsHeard, AloneIsReachable, Listening

\* The steps of Listen, Close and the processor, each of a process that is up.
LEMMA ProcessKeepsServe ==
  ASSUME ServeInv, NEW d \in Daemons, Process(d) \/ BeginCycle(d) \/ Signal(d)
  PROVE  ServeInv'
<1> USE NoneAssumption, StaleAssumption
        DEF ServeInv, Up, SocketIsHeard, AloneIsReachable, Listening
<1>1. CASE Boot(d)
  BY <1>1, BootKeepsServe
<1>2. CASE Prepare(d) \/ RemoveFound(d)
  BY <1>2 DEF Prepare, RemoveFound, bootVars
<1>3. CASE Bind(d)
  BY <1>3 DEF Bind, bootVars
<1>4. CASE RemoveFails(d) \/ BindFails(d) \/ Exit(d)
  <2>1. Quit(d) /\ Gone(d) /\ sock' = sock
    BY <1>4 DEF RemoveFails, BindFails, Exit, Leave
  <2>2. sock # d
    BY <1>4 DEF RemoveFails, BindFails, Exit
  <2> QED BY <2>1, <2>2, GoneKeepsServe
<1>5. CASE Serve(d) \/ ChmodFails(d)
  BY <1>5 DEF Serve, ChmodFails, bootVars
<1>6. CASE EndCycle(d)
  BY <1>6 DEF EndCycle, bootVars
<1>7. CASE StopProcessor(d)
  BY <1>7 DEF StopProcessor, bootVars
<1>8. CASE CloseListener(d)
  BY <1>8 DEF CloseListener, bootVars
<1>9. CASE RemoveSocket(d)
  BY <1>9 DEF RemoveSocket, bootVars
<1>10. CASE CloseDb(d)
  BY <1>10 DEF CloseDb, bootVars
<1>11. CASE BeginCycle(d)
  BY <1>11 DEF BeginCycle, bootVars
<1>12. CASE Signal(d)
  BY <1>12 DEF Signal, bootVars
<1>13. CASE ListenFails(d)
  BY <1>13 DEF ListenFails, Leave, Quit, Gone, bootVars
<1> QED BY <1>1, <1>2, <1>3, <1>4, <1>5, <1>6, <1>7, <1>8, <1>9, <1>10, <1>11, <1>12,
           <1>13
        DEF Process

LEMMA NextKeepsServe ==
  ASSUME ServeInv, [Next]_vars
  PROVE  ServeInv'
<1>1. CASE UNCHANGED <<boot, serve, cycle, sock, alone>>
  BY <1>1 DEF ServeInv, Up, SocketIsHeard, AloneIsReachable, Listening
<1>2. ASSUME NEW d \in Daemons, Crash(d)
      PROVE  ServeInv'
  BY <1>2, GoneKeepsServe DEF Crash, Fail
<1>3. ASSUME NEW c \in Calls,
             (\E cmd \in Commands : Run(c, cmd)) \/ Handler(c) \/ Receive(c) \/ GiveUp(c)
      PROVE  UNCHANGED <<boot, serve, cycle, sock, alone>>
  BY <1>3 DEF Run, Handler, Accept, Handle, Answer, Receive, GiveUp, UnchangedButCall,
       bootVars
<1>4. CASE UNCHANGED vars
  BY <1>1, <1>4 DEF vars, bootVars, sockVars
<1> QED BY <1>1, <1>2, <1>3, <1>4, StartKeepsServe, ProcessKeepsServe DEF Next

\* Listen and Close keep the socket and the processor in order.
LEMMA ServeInvariance == Spec => []ServeInv
  BY ServeInitial, NextKeepsServe, PTL DEF Spec

\* The processor never runs over a closed database.
THEOREM ProcessorStopsFirst == Spec => []NoCycleAfterClose
<1>1. ServeInv => NoCycleAfterClose
  BY DEF ServeInv, NoCycleAfterClose, DbOpen, Up
<1> QED BY <1>1, ServeInvariance, PTL

\* A socket at the path that is not stale has a listener.
THEOREM SocketHeard == Spec => []SocketIsHeard
<1>1. ServeInv => SocketIsHeard
  BY DEF ServeInv
<1> QED BY <1>1, ServeInvariance, PTL

\* A process without another beside it is reachable as long as it listens.
THEOREM AloneReachable == Spec => []AloneIsReachable
<1>1. ServeInv => AloneIsReachable
  BY DEF ServeInv
<1> QED BY <1>1, ServeInvariance, PTL

-----------------------------------------------------------------------------
(* The calls: what the exit code says.                                       *)

\* What a call has come to know, against what was done for it.
CallOK(k) ==
  /\ k.at \in Stages /\ k.exit \in {0, 1, 2, Running}
  /\ k.at \in {"none", "queued", "handling"} => k.done = 0
  /\ k.at \in {"handled", "answered"} => k.reply \in {"ok", "long", "error"}
  /\ k.at # "none" => k.cmd \in Commands /\ k.cmd \notin Local
  /\ k.at = "none" /\ k.exit = 0 => k.cmd \in Local
  /\ k.reply = "error" /\ k.cmd # "logs add" => k.done = 0
  /\ k.reply = "ok" /\ k.cmd \in Changes => k.done = 1
  /\ k.exit = Running \/ k.at = "none" => k.got = None
  /\ k.got \in {None, "ok", "error"}
  /\ k.got # None => k.got = k.reply /\ k.at = "answered"
  /\ k.got = "ok" <=> k.exit = 0 /\ k.cmd \notin Local
  /\ k.exit = 2 => k.at = "none"

CallInv == call \in [Calls -> CallType] /\ \A c \in Calls : CallOK(call[c])

LEMMA CallInitial == Init => CallInv
<1>1. NoCall \in CallType
  BY DEF NoCall, CallType, Stages, Running, Replies
<1>2. CallOK(NoCall)
  BY NoReplyAssumption DEF NoCall, CallOK, Stages, Running
<1> QED BY <1>1, <1>2 DEF Init, CallInv

\* A connection that breaks before the answer tells the call nothing.
LEMMA BrokenKeepsCalls ==
  ASSUME CallInv, NEW d \in Daemons,
         NEW stages \in SUBSET {"queued", "handling", "handled"}
  PROVE  /\ Broken(d, stages) \in [Calls -> CallType]
         /\ \A c \in Calls : CallOK(Broken(d, stages)[c])
<1> SUFFICES ASSUME NEW c \in Calls
             PROVE  /\ Broken(d, stages)[c] \in CallType
                    /\ CallOK(Broken(d, stages)[c])
  BY DEF Broken
<1> DEFINE k == call[c]
<1>1. k \in CallType /\ CallOK(k)
  BY DEF CallInv
<1>2. CASE k.srv = d /\ k.at \in stages
  <2>1. Broken(d, stages)[c] = [k EXCEPT !.at = "broken"]
    BY <1>2 DEF Broken
  <2>2. [k EXCEPT !.at = "broken"] \in CallType
    BY <1>1 DEF CallType, Stages, Running
  <2>3. CallOK([k EXCEPT !.at = "broken"])
    BY <1>1, <1>2 DEF CallOK, CallType, Stages, Running
  <2> QED BY <2>1, <2>2, <2>3
<1>3. CASE ~(k.srv = d /\ k.at \in stages)
  BY <1>1, <1>3 DEF Broken
<1> QED BY <1>2, <1>3

\* A step of one call: only its own record has to be looked at.
LEMMA OneCall ==
  ASSUME CallInv, NEW c \in Calls, NEW k \in CallType, CallOK(k),
         call' = [call EXCEPT ![c] = k]
  PROVE  CallInv'
<1>1. call' \in [Calls -> CallType]
  BY DEF CallInv
<1>2. \A b \in Calls : CallOK(call'[b])
  BY DEF CallInv
<1> QED BY <1>1, <1>2 DEF CallInv

LEMMA CallStepKeeps ==
  ASSUME CallInv, NEW c \in Calls,
         (\E cmd \in Commands : Run(c, cmd)) \/ Handler(c) \/ Receive(c) \/ GiveUp(c)
  PROVE  CallInv'
<1>1. PICK k \in CallType : k = call[c] /\ CallOK(k)
  BY DEF CallInv
<1> USE NoReplyAssumption
<1>2. SUFFICES \E m \in CallType : CallOK(m) /\ call' = [call EXCEPT ![c] = m]
  BY OneCall
<1>3. ASSUME NEW cmd \in Commands, Run(c, cmd)
      PROVE  \E m \in CallType : CallOK(m) /\ call' = [call EXCEPT ![c] = m]
  <2>1. k = NoCall
    BY <1>1, <1>3 DEF Run
  <2>2. CASE \E n \in {1, 2} : Exits(c, n)
    <3>1. PICK n \in {1, 2} : call' = [call EXCEPT ![c] = [k EXCEPT !.exit = n]]
      BY <1>1, <2>2 DEF Exits, CallInv
    <3>2. [k EXCEPT !.exit = n] \in CallType /\ CallOK([k EXCEPT !.exit = n])
      BY <1>1, <2>1 DEF CallType, CallOK, NoCall, Stages, Running
    <3> QED BY <3>1, <3>2
  <2>3. CASE cmd \in Local /\ call' = [call EXCEPT ![c].cmd = cmd, ![c].exit = 0]
    <3> DEFINE m == [k EXCEPT !.cmd = cmd, !.exit = 0]
    <3>1. call' = [call EXCEPT ![c] = m]
      BY <1>1, <2>3 DEF CallInv
    <3>2. m \in CallType
      BY DEF CallType
    <3>3. /\ m.cmd = cmd /\ m.exit = 0 /\ m.at = "none" /\ m.done = 0
          /\ m.reply = None /\ m.got = None
      BY <2>1 DEF CallType, NoCall
    <3> HIDE DEF m
    <3>4. CallOK(m)
      BY <2>3, <3>3 DEF CallOK, Stages, Running, Local, Changes
    <3> QED BY <3>1, <3>2, <3>4
  <2>4. CASE /\ cmd \notin Local /\ sock \in Daemons
             /\ call' = [call EXCEPT ![c].cmd = cmd, ![c].at = "queued", ![c].srv = sock]
    <3> DEFINE m == [k EXCEPT !.cmd = cmd, !.at = "queued", !.srv = sock]
    <3>1. call' = [call EXCEPT ![c] = m]
      BY <1>1, <2>4 DEF CallInv
    <3>2. m \in CallType
      BY <2>4 DEF CallType, Stages
    <3>3. /\ m.cmd = cmd /\ m.exit = Running /\ m.at = "queued" /\ m.done = 0
          /\ m.reply = None /\ m.got = None
      BY <2>1 DEF CallType, NoCall
    <3> HIDE DEF m
    <3>4. CallOK(m)
      BY <2>4, <3>3 DEF CallOK, Stages, Running
    <3> QED BY <3>1, <3>2, <3>4
  <2> QED BY <1>3, <2>2, <2>3, <2>4 DEF Run
<1>4. ASSUME Accept(c)
      PROVE  \E m \in CallType : CallOK(m) /\ call' = [call EXCEPT ![c] = m]
  <2>1. k.at = "queued" /\ call' = [call EXCEPT ![c] = [k EXCEPT !.at = "handling"]]
    BY <1>1, <1>4 DEF Accept, CallInv
  <2>2. [k EXCEPT !.at = "handling"] \in CallType /\ CallOK([k EXCEPT !.at = "handling"])
    BY <1>1, <2>1 DEF CallType, CallOK, Stages, Running
  <2> QED BY <2>1, <2>2
<1>5. ASSUME Handle(c)
      PROVE  \E m \in CallType : CallOK(m) /\ call' = [call EXCEPT ![c] = m]
  <2>1. k.at = "handling"
    BY <1>1, <1>5 DEF Handle
  <2>2. PICK r \in {"ok", "error", "long"}, n \in {0, 1} :
          /\ call' = [call EXCEPT ![c] = [k EXCEPT !.at = "handled", !.reply = r, !.done = n]]
          /\ r = "error" /\ k.cmd # "logs add" => n = 0
          /\ r = "ok" /\ k.cmd \in Changes => n = 1
    BY <1>1, <1>5 DEF Handle, CallInv, Changes
  <2> DEFINE m == [k EXCEPT !.at = "handled", !.reply = r, !.done = n]
  <2>3. m \in CallType
    BY <1>1 DEF CallType, Stages, Running, Replies
  <2>4. CallOK(m)
    BY <1>1, <2>1, <2>2 DEF CallType, CallOK, Stages, Running
  <2> QED BY <2>2, <2>3, <2>4
<1>6. ASSUME Answer(c)
      PROVE  \E m \in CallType : CallOK(m) /\ call' = [call EXCEPT ![c] = m]
  <2>1. k.at = "handled" /\ call' = [call EXCEPT ![c] = [k EXCEPT !.at = "answered"]]
    BY <1>1, <1>6 DEF Answer, CallInv
  <2>2. [k EXCEPT !.at = "answered"] \in CallType /\ CallOK([k EXCEPT !.at = "answered"])
    BY <1>1, <2>1 DEF CallType, CallOK, Stages, Running
  <2> QED BY <2>1, <2>2
<1>7. ASSUME Receive(c)
      PROVE  \E m \in CallType : CallOK(m) /\ call' = [call EXCEPT ![c] = m]
  <2>1. k.exit = Running
    BY <1>1, <1>7 DEF Receive, Waiting
  <2>2. CASE k.at = "answered"
    <3> DEFINE m == [k EXCEPT !.got = IF k.reply = "long" THEN None ELSE k.reply,
                              !.exit = IF k.reply = "ok" THEN 0 ELSE 1]
    <3>1. call' = [call EXCEPT ![c] = m]
      BY <1>1, <1>7, <2>2 DEF Receive, ExitCode, CallInv
    <3>2. m \in CallType
      BY <1>1 DEF CallType, Replies, Running
    <3>3. /\ m.cmd = k.cmd /\ m.at = k.at /\ m.done = k.done /\ m.reply = k.reply
          /\ m.got = (IF k.reply = "long" THEN None ELSE k.reply)
          /\ m.exit = (IF k.reply = "ok" THEN 0 ELSE 1)
      BY DEF CallType
    <3> HIDE DEF m
    <3>4. CallOK(m)
      <4>1. /\ k.reply \in {"ok", "long", "error"} /\ k.got = None
            /\ k.cmd \in Commands /\ k.cmd \notin Local
            /\ k.reply = "error" /\ k.cmd # "logs add" => k.done = 0
            /\ k.reply = "ok" /\ k.cmd \in Changes => k.done = 1
        BY <1>1, <2>1, <2>2 DEF CallOK
      <4>2. CASE k.reply = "ok"
        BY <2>2, <3>3, <4>1, <4>2 DEF CallOK, Stages, Running
      <4>3. CASE k.reply = "error"
        <5>1. m.at = "answered" /\ m.got = "error" /\ m.reply = "error" /\ m.exit = 1
          BY <2>2, <3>3, <4>3
        <5>2. m.got # "ok" /\ m.reply # "ok"
          BY <5>1
        <5>3. m.exit \notin {0, 2, Running} /\ m.exit \in {0, 1, 2, Running}
          BY <5>1 DEF Running
        <5>4. m.at \in Stages /\ m.at \notin {"none", "queued", "handling"}
          BY <5>1 DEF Stages
        <5>5. m.cmd \in Commands /\ m.cmd \notin Local /\ (m.cmd # "logs add" => m.done = 0)
          BY <3>3, <4>1, <4>3
        <5>6. m.reply \in {"ok", "long", "error"} /\ m.got \in {None, "ok", "error"}
          BY <5>1
        <5>7. m.got = m.reply
          BY <5>1
        <5> QED BY <5>1, <5>2, <5>3, <5>4, <5>5, <5>6, <5>7 DEF CallOK
      <4>4. CASE k.reply = "long"
        BY <2>2, <3>3, <4>1, <4>4 DEF CallOK, Stages, Running
      <4> QED BY <4>1, <4>2, <4>3, <4>4
    <3> QED BY <3>1, <3>2, <3>4
  <2>3. CASE k.at = "broken" /\ Exits(c, 1)
    <3>1. call' = [call EXCEPT ![c] = [k EXCEPT !.exit = 1]]
      BY <1>1, <2>3 DEF Exits, CallInv
    <3>2. [k EXCEPT !.exit = 1] \in CallType /\ CallOK([k EXCEPT !.exit = 1])
      BY <1>1, <2>1 DEF CallType, CallOK, Stages, Running
    <3> QED BY <3>1, <3>2
  <2> QED BY <1>1, <1>7, <2>2, <2>3 DEF Receive
<1>8. ASSUME GiveUp(c)
      PROVE  \E m \in CallType : CallOK(m) /\ call' = [call EXCEPT ![c] = m]
  <2>1. k.exit = Running /\ k.at # "none" /\ call' = [call EXCEPT ![c] = [k EXCEPT !.exit = 1]]
    BY <1>1, <1>8 DEF GiveUp, Waiting, Exits, CallInv
  <2>2. [k EXCEPT !.exit = 1] \in CallType /\ CallOK([k EXCEPT !.exit = 1])
    BY <1>1, <2>1 DEF CallType, CallOK, Stages, Running
  <2> QED BY <2>1, <2>2
<1> QED BY <1>3, <1>4, <1>5, <1>6, <1>7, <1>8 DEF Handler

LEMMA NextKeepsCalls ==
  ASSUME CallInv, [Next]_vars
  PROVE  CallInv'
<1>1. CASE UNCHANGED call
  BY <1>1 DEF CallInv
<1>2. ASSUME NEW d \in Daemons, NEW stages \in SUBSET {"queued", "handling", "handled"},
             call' = Broken(d, stages)
      PROVE  CallInv'
  BY <1>2, BrokenKeepsCalls DEF CallInv
<1>3. ASSUME NEW d \in Daemons, Gone(d)
      PROVE  CallInv'
  BY <1>2, <1>3 DEF Gone
<1>4. ASSUME NEW d \in Daemons, Process(d)
      PROVE  CallInv'
  <2>1. CASE RemoveFails(d) \/ BindFails(d) \/ ListenFails(d) \/ Exit(d)
    BY <1>3, <2>1 DEF RemoveFails, BindFails, ListenFails, Exit
  <2>2. CASE CloseListener(d)
    BY <1>2, <2>2 DEF CloseListener
  <2>3. CASE \/ Boot(d) \/ Prepare(d) \/ RemoveFound(d) \/ Bind(d) \/ Serve(d)
             \/ ChmodFails(d) \/ EndCycle(d) \/ StopProcessor(d) \/ RemoveSocket(d)
             \/ CloseDb(d)
    BY <1>1, <2>3 DEF Boot, Prepare, RemoveFound, Bind, Serve, ChmodFails, EndCycle,
         StopProcessor, RemoveSocket, CloseDb, sockVars
  <2> QED BY <1>4, <2>1, <2>2, <2>3 DEF Process
<1>5. ASSUME NEW d \in Daemons, Start(d) \/ BeginCycle(d) \/ Signal(d)
      PROVE  CallInv'
  BY <1>1, <1>5 DEF Start, BeginCycle, Signal
<1>6. ASSUME NEW d \in Daemons, Crash(d)
      PROVE  CallInv'
  BY <1>3, <1>6 DEF Crash
<1>7. CASE UNCHANGED vars
  BY <1>1, <1>7 DEF vars, sockVars
<1> QED BY <1>4, <1>5, <1>6, <1>7, CallStepKeeps DEF Next

LEMMA CallInvariance == Spec => []CallInv
  BY CallInitial, NextKeepsCalls, PTL DEF Spec

\* The exit code of a command tells whether its change was made, and a command that got
\* an error, logs.add apart, can be repeated.
THEOREM ExitTrue == Spec => []ExitIsTrue
<1>1. ASSUME CallInv, NEW c \in Calls
      PROVE  /\ call[c].exit = 0 /\ call[c].cmd \in Changes => call[c].done = 1
             /\ call[c].got = "ok" <=> call[c].exit = 0 /\ call[c].cmd \notin Local
    BY <1>1, NoReplyAssumption DEF CallInv, CallOK, Running, Local, Changes
<1>2. ASSUME CallInv, NEW c \in Calls,
             (call[c].got = "error" /\ call[c].cmd # "logs add") \/ call[c].exit = 2
      PROVE  call[c].done = 0
  BY <1>2, NoReplyAssumption DEF CallInv, CallOK, Running
<1>3. CallInv => ExitIsTrue
  BY <1>1, <1>2 DEF ExitIsTrue
<1> QED BY <1>3, CallInvariance, PTL

-----------------------------------------------------------------------------
(* The refinement of RemoteCall.                                             *)

\* What RemoteCall sees of a step of one call, from record k to record m.
CallMoves(k, m) ==
  \/ m.cmd = k.cmd /\ m.done = k.done /\ m.got = k.got /\ m.exit = k.exit
  \/ /\ k.cmd = None /\ k.exit = Running
     /\ m.cmd = k.cmd /\ m.done = k.done /\ m.got = k.got /\ m.exit \in {1, 2}
  \/ /\ k.cmd = None /\ k.exit = Running /\ m.cmd \in Commands
     /\ m.done = k.done /\ m.got = k.got
     /\ m.exit = IF m.cmd \in Local THEN 0 ELSE Running
  \/ /\ k.cmd \in Changes /\ k.done = 0 /\ k.got = None /\ k.exit \in {Running, 1}
     /\ m.cmd = k.cmd /\ m.done = 1 /\ m.got = k.got /\ m.exit = k.exit
  \/ /\ k.cmd # None /\ k.exit = Running /\ (k.cmd \in Changes => k.done = 1)
     /\ m.cmd = k.cmd /\ m.done = k.done /\ m.got = "ok" /\ m.exit = 0
  \/ /\ k.cmd # None /\ k.exit = Running /\ (k.cmd # "logs add" => k.done = 0)
     /\ m.cmd = k.cmd /\ m.done = k.done /\ m.got = "error" /\ m.exit = 1
  \/ /\ k.cmd # None /\ k.exit = Running
     /\ m.cmd = k.cmd /\ m.done = k.done /\ m.got = k.got /\ m.exit = 1

\* It is a step of RemoteCall, or none that it sees.
LEMMA MovesMap ==
  ASSUME CallInv, CallInv', NEW c \in Calls, CallMoves(call[c], call'[c]),
         \A b \in Calls \ {c} : call'[b] = call[b]
  PROVE  [Promise!Next]_(Promise!vars)
<1> DEFINE CmdOf == [b \in Calls |-> call[b].cmd]
           DoneOf == [b \in Calls |-> call[b].done]
           ToldOf == [b \in Calls |-> call[b].got]
           ExitOf == [b \in Calls |-> call[b].exit]
           k == call[c]
           m == call'[c]
<1>1. /\ CmdOf' = [CmdOf EXCEPT ![c] = m.cmd] /\ DoneOf' = [DoneOf EXCEPT ![c] = m.done]
      /\ ToldOf' = [ToldOf EXCEPT ![c] = m.got] /\ ExitOf' = [ExitOf EXCEPT ![c] = m.exit]
  OBVIOUS
<1>2. /\ m.cmd = k.cmd => CmdOf' = CmdOf
      /\ m.done = k.done => DoneOf' = DoneOf
      /\ m.got = k.got => ToldOf' = ToldOf
      /\ m.exit = k.exit => ExitOf' = ExitOf
  BY <1>1
<1>3. CmdOf[c] = k.cmd /\ DoneOf[c] = k.done /\ ToldOf[c] = k.got /\ ExitOf[c] = k.exit
  OBVIOUS
<1> HIDE DEF k, m
<1>4. CASE m.cmd = k.cmd /\ m.done = k.done /\ m.got = k.got /\ m.exit = k.exit
  BY <1>2, <1>4 DEF Promise!vars
<1>5. CASE /\ k.cmd = None /\ k.exit = Running
           /\ m.cmd = k.cmd /\ m.done = k.done /\ m.got = k.got /\ m.exit \in {1, 2}
  <2>1. Promise!Refuse(c)
    BY <1>1, <1>2, <1>3, <1>5 DEF Promise!Refuse, Promise!Exits
  <2> QED BY <2>1 DEF Promise!Next
<1>6. CASE /\ k.cmd = None /\ k.exit = Running /\ m.cmd \in Commands
           /\ m.done = k.done /\ m.got = k.got
           /\ m.exit = IF m.cmd \in Local THEN 0 ELSE Running
  <2>1. PICK x \in Commands : x = m.cmd
    BY <1>6
  <2>2. Promise!PrintLocal(c, x) \/ Promise!Send(c, x)
    BY <1>1, <1>2, <1>3, <1>6, <2>1 DEF Promise!PrintLocal, Promise!Send, Promise!Exits
  <2> QED BY <2>2 DEF Promise!Next
<1>7. CASE /\ k.cmd \in Changes /\ k.done = 0 /\ k.got = None /\ k.exit \in {Running, 1}
           /\ m.cmd = k.cmd /\ m.done = 1 /\ m.got = k.got /\ m.exit = k.exit
  <2>1. Promise!Apply(c)
    BY <1>1, <1>2, <1>3, <1>7 DEF Promise!Apply
  <2> QED BY <2>1 DEF Promise!Next
<1>8. CASE /\ k.cmd # None /\ k.exit = Running /\ (k.cmd \in Changes => k.done = 1)
           /\ m.cmd = k.cmd /\ m.done = k.done /\ m.got = "ok" /\ m.exit = 0
  <2>1. Promise!Confirm(c)
    BY <1>1, <1>2, <1>3, <1>8 DEF Promise!Confirm, Promise!Exits
  <2> QED BY <2>1 DEF Promise!Next
<1>9. CASE /\ k.cmd # None /\ k.exit = Running /\ (k.cmd # "logs add" => k.done = 0)
           /\ m.cmd = k.cmd /\ m.done = k.done /\ m.got = "error" /\ m.exit = 1
  <2>1. Promise!Reject(c)
    BY <1>1, <1>2, <1>3, <1>9 DEF Promise!Reject, Promise!Exits
  <2> QED BY <2>1 DEF Promise!Next
<1>10. CASE /\ k.cmd # None /\ k.exit = Running
            /\ m.cmd = k.cmd /\ m.done = k.done /\ m.got = k.got /\ m.exit = 1
  <2>1. Promise!Lose(c)
    BY <1>1, <1>2, <1>3, <1>10 DEF Promise!Lose, Promise!Exits
  <2> QED BY <2>1 DEF Promise!Next
<1> QED BY <1>4, <1>5, <1>6, <1>7, <1>8, <1>9, <1>10 DEF CallMoves, k, m

\* Every step of a call is one of these.
LEMMA StepMoves ==
  ASSUME CallInv, NEW c \in Calls,
         (\E cmd \in Commands : Run(c, cmd)) \/ Handler(c) \/ Receive(c) \/ GiveUp(c)
  PROVE  CallMoves(call[c], call'[c]) /\ \A b \in Calls \ {c} : call'[b] = call[b]
<1>1. PICK k \in CallType : k = call[c] /\ CallOK(k)
  BY DEF CallInv
<1>2. SUFFICES \E m \in CallType : CallMoves(k, m) /\ call' = [call EXCEPT ![c] = m]
  BY <1>1 DEF CallInv
<1> USE NoReplyAssumption
<1>3. ASSUME NEW n \in {1, 2}, Exits(c, n)
      PROVE  \E m \in CallType : /\ call' = [call EXCEPT ![c] = m] /\ m.cmd = k.cmd
                                 /\ m.done = k.done /\ m.got = k.got /\ m.exit = n
  <2>1. call' = [call EXCEPT ![c] = [k EXCEPT !.exit = n]]
    BY <1>1, <1>3 DEF Exits, CallInv
  <2>2. [k EXCEPT !.exit = n] \in CallType
    BY DEF CallType
  <2> QED BY <2>1, <2>2 DEF CallType
<1>4. ASSUME NEW cmd \in Commands, Run(c, cmd)
      PROVE  \E m \in CallType : CallMoves(k, m) /\ call' = [call EXCEPT ![c] = m]
  <2>1. k.cmd = None /\ k.exit = Running
    <3>1. k = NoCall
      BY <1>1, <1>4 DEF Run
    <3> QED BY <3>1 DEF NoCall
  <2>2. CASE \E n \in {1, 2} : Exits(c, n)
    BY <1>3, <2>1, <2>2 DEF CallMoves
  <2>3. CASE cmd \in Local /\ call' = [call EXCEPT ![c].cmd = cmd, ![c].exit = 0]
    <3> DEFINE m == [k EXCEPT !.cmd = cmd, !.exit = 0]
    <3>1. call' = [call EXCEPT ![c] = m]
      BY <1>1, <2>3 DEF CallInv
    <3>2. m \in CallType /\ m.cmd = cmd /\ m.exit = 0 /\ m.done = k.done /\ m.got = k.got
      BY DEF CallType
    <3> HIDE DEF m
    <3>3. CallMoves(k, m)
      BY <2>1, <2>3, <3>2 DEF CallMoves
    <3> QED BY <3>1, <3>2, <3>3
  <2>4. CASE /\ cmd \notin Local /\ sock \in Daemons
             /\ call' = [call EXCEPT ![c].cmd = cmd, ![c].at = "queued", ![c].srv = sock]
    <3> DEFINE m == [k EXCEPT !.cmd = cmd, !.at = "queued", !.srv = sock]
    <3>1. call' = [call EXCEPT ![c] = m]
      BY <1>1, <2>4 DEF CallInv
    <3>2. m \in CallType /\ m.cmd = cmd /\ m.exit = k.exit /\ m.done = k.done /\ m.got = k.got
      BY <2>4 DEF CallType, Stages
    <3> HIDE DEF m
    <3>3. CallMoves(k, m)
      BY <2>1, <2>4, <3>2 DEF CallMoves
    <3> QED BY <3>1, <3>2, <3>3
  <2> QED BY <1>4, <2>2, <2>3, <2>4 DEF Run
<1>5. ASSUME Accept(c) \/ Answer(c)
      PROVE  \E m \in CallType : CallMoves(k, m) /\ call' = [call EXCEPT ![c] = m]
  <2>1. PICK a \in {"handling", "answered"} : call' = [call EXCEPT ![c] = [k EXCEPT !.at = a]]
    BY <1>1, <1>5 DEF Accept, Answer, CallInv
  <2> DEFINE m == [k EXCEPT !.at = a]
  <2>2. m \in CallType /\ m.cmd = k.cmd /\ m.done = k.done /\ m.got = k.got /\ m.exit = k.exit
    BY DEF CallType, Stages
  <2> HIDE DEF m
  <2>3. CallMoves(k, m)
    BY <2>2 DEF CallMoves
  <2> QED BY <2>1, <2>2, <2>3 DEF m
<1>6. ASSUME Handle(c)
      PROVE  \E m \in CallType : CallMoves(k, m) /\ call' = [call EXCEPT ![c] = m]
  <2>1. k.at = "handling"
    BY <1>1, <1>6 DEF Handle
  <2>2. PICK r \in {"ok", "error", "long"}, n \in {0, 1} :
          /\ call' = [call EXCEPT ![c] = [k EXCEPT !.at = "handled", !.reply = r, !.done = n]]
          /\ n = 1 => k.cmd \in Changes
    <3> DEFINE To(r, n) == [k EXCEPT !.at = "handled", !.reply = r, !.done = n]
               Effect == IF k.cmd \in Changes THEN 1 ELSE 0
    <3>1. \/ \E r \in {"ok", "error"} : call' = [call EXCEPT ![c] = To(r, 0)]
          \/ \E r \in {"ok", "long"} : call' = [call EXCEPT ![c] = To(r, Effect)]
          \/ k.cmd = "logs add" /\ call' = [call EXCEPT ![c] = To("error", 1)]
      BY <1>1, <1>6 DEF Handle, CallInv
    <3>2. "logs add" \in Changes
      BY DEF Changes
    <3> HIDE DEF To
    <3>3. Effect \in {0, 1} /\ (Effect = 1 => k.cmd \in Changes)
      OBVIOUS
    <3> HIDE DEF Effect
    <3>4. \E r \in {"ok", "error", "long"}, n \in {0, 1} :
            call' = [call EXCEPT ![c] = To(r, n)] /\ (n = 1 => k.cmd \in Changes)
      BY <3>1, <3>2, <3>3
    <3> QED BY <3>4 DEF To
  <2> DEFINE m == [k EXCEPT !.at = "handled", !.reply = r, !.done = n]
  <2>3. m \in CallType /\ m.cmd = k.cmd /\ m.done = n /\ m.got = k.got /\ m.exit = k.exit
    BY DEF CallType, Stages, Replies
  <2>4. k.done = 0 /\ k.got = None /\ k.exit \in {Running, 1}
    BY <1>1, <2>1 DEF CallOK, Running
  <2> HIDE DEF m
  <2>5. CallMoves(k, m)
    BY <2>2, <2>3, <2>4 DEF CallMoves
  <2> QED BY <2>2, <2>3, <2>5 DEF m
<1>7. ASSUME Receive(c), k.at = "answered"
      PROVE  \E m \in CallType : CallMoves(k, m) /\ call' = [call EXCEPT ![c] = m]
  <2>1. /\ k.exit = Running /\ k.got = None /\ k.cmd # None
        /\ k.reply \in {"ok", "long", "error"}
        /\ k.reply = "error" /\ k.cmd # "logs add" => k.done = 0
        /\ k.reply = "ok" /\ k.cmd \in Changes => k.done = 1
    BY <1>1, <1>7 DEF Receive, Waiting, CallOK
  <2> DEFINE m == [k EXCEPT !.got = IF k.reply = "long" THEN None ELSE k.reply,
                            !.exit = IF k.reply = "ok" THEN 0 ELSE 1]
  <2>2. call' = [call EXCEPT ![c] = m]
    BY <1>1, <1>7 DEF Receive, ExitCode, CallInv
  <2>3. /\ m \in CallType /\ m.cmd = k.cmd /\ m.done = k.done
        /\ m.got = (IF k.reply = "long" THEN None ELSE k.reply)
        /\ m.exit = (IF k.reply = "ok" THEN 0 ELSE 1)
    BY <2>1 DEF CallType, Replies
  <2> HIDE DEF m
  <2>4. CallMoves(k, m)
    BY <2>1, <2>3 DEF CallMoves
  <2> QED BY <2>2, <2>3, <2>4
<1>8. ASSUME GiveUp(c) \/ (Receive(c) /\ k.at # "answered")
      PROVE  \E m \in CallType : CallMoves(k, m) /\ call' = [call EXCEPT ![c] = m]
  <2>1. k.exit = Running /\ k.cmd # None /\ Exits(c, 1)
    BY <1>1, <1>8 DEF GiveUp, Receive, Waiting, CallOK
  <2> QED BY <1>3, <2>1 DEF CallMoves
<1> QED BY <1>4, <1>5, <1>6, <1>7, <1>8 DEF Handler

\* A process that closes connections or goes tells no call anything.
LEMMA BrokenUnseen ==
  ASSUME CallInv, CallInv',
         call' = call \/ \E d \in Daemons :
           \E stages \in SUBSET {"queued", "handling", "handled"} : call' = Broken(d, stages)
  PROVE  UNCHANGED (Promise!vars)
<1>1. ASSUME NEW c \in Calls
      PROVE  /\ call'[c].cmd = call[c].cmd /\ call'[c].done = call[c].done
             /\ call'[c].got = call[c].got /\ call'[c].exit = call[c].exit
  <2>1. call[c] \in CallType
    BY DEF CallInv
  <2>2. call'[c] = call[c] \/ call'[c] = [call[c] EXCEPT !.at = "broken"]
    BY DEF Broken
  <2> QED BY <2>1, <2>2 DEF CallType
<1> QED BY <1>1 DEF Promise!vars

LEMMA DaemonStepPromises ==
  ASSUME CallInv, [Next]_vars
  PROVE  [Promise!Next]_(Promise!vars)
<1>1. CallInv'
  BY NextKeepsCalls
<1>2. ASSUME NEW c \in Calls,
             (\E cmd \in Commands : Run(c, cmd)) \/ Handler(c) \/ Receive(c) \/ GiveUp(c)
      PROVE  [Promise!Next]_(Promise!vars)
  BY <1>1, <1>2, StepMoves, MovesMap
<1>3. ASSUME NEW d \in Daemons,
             Start(d) \/ Process(d) \/ BeginCycle(d) \/ Signal(d) \/ Crash(d)
      PROVE  call' = call \/ \E e \in Daemons :
               \E stages \in SUBSET {"queued", "handling", "handled"} : call' = Broken(e, stages)
  <2>1. CASE RemoveFails(d) \/ BindFails(d) \/ ListenFails(d) \/ Exit(d) \/ Crash(d)
    BY <2>1 DEF RemoveFails, BindFails, ListenFails, Exit, Crash, Gone
  <2>2. CASE CloseListener(d)
    BY <2>2 DEF CloseListener
  <2>3. CASE \/ Boot(d) \/ Prepare(d) \/ RemoveFound(d) \/ Bind(d) \/ Serve(d)
             \/ ChmodFails(d) \/ EndCycle(d) \/ StopProcessor(d) \/ RemoveSocket(d)
             \/ CloseDb(d)
             \/ Start(d) \/ BeginCycle(d) \/ Signal(d)
    BY <2>3 DEF Boot, Prepare, RemoveFound, Bind, Serve, ChmodFails, EndCycle,
         StopProcessor, RemoveSocket, CloseDb, sockVars, Start, BeginCycle, Signal
  <2> QED BY <1>3, <2>1, <2>2, <2>3 DEF Process
<1>4. CASE UNCHANGED vars
  BY <1>1, <1>4, BrokenUnseen DEF vars, sockVars
<1> QED BY <1>1, <1>2, <1>3, <1>4, BrokenUnseen DEF Next

\* Daemon implements RemoteCall: whatever processes and connections go through, a call
\* sees its change made at most once, a final exit code that is 0 only after it, and no
\* change after it was refused.
THEOREM KeepsPromise == Spec => CallSpec
<1>1. Init => Promise!Init
  BY DEF Init, NoCall, Promise!Init
<1>2. CallInv /\ [Next]_vars => [Promise!Next]_(Promise!vars)
  BY DaemonStepPromises
<1> QED BY <1>1, <1>2, CallInvariance, PTL DEF Spec, CallSpec, Promise!Spec

\* Every variable keeps its type.
THEOREM TypeCorrect == Spec => []TypeOK
<1> DEFINE Counted == starts \in Nat
<1>1. Init => Counted
  BY DEF Init
<1>2. ASSUME Counted, [Next]_vars
      PROVE  Counted'
  <2>1. ASSUME NEW d \in Daemons, Process(d)
        PROVE  starts' = starts
    BY <2>1 DEF Process, Boot, Prepare, RemoveFound, RemoveFails, Bind, BindFails, Serve,
       ChmodFails, ListenFails, EndCycle, StopProcessor, CloseListener, RemoveSocket, CloseDb,
       Exit, Gone, sockVars
  <2>2. ASSUME NEW d \in Daemons, Start(d) \/ BeginCycle(d) \/ Signal(d) \/ Crash(d)
        PROVE  starts' \in {starts, starts + 1}
    BY <2>2 DEF Start, BeginCycle, Signal, Crash, Gone
  <2>3. ASSUME NEW c \in Calls,
               (\E cmd \in Commands : Run(c, cmd)) \/ Handler(c) \/ Receive(c) \/ GiveUp(c)
        PROVE  starts' = starts
    BY <2>3 DEF Run, Handler, Accept, Handle, Answer, Receive, GiveUp, UnchangedButCall
  <2>4. CASE UNCHANGED vars
    BY <2>4, <1>2 DEF vars, sockVars
  <2> QED BY <1>2, <2>1, <2>2, <2>3, <2>4 DEF Next
<1>3. BootInv /\ ServeInv /\ CallInv /\ Counted => TypeOK
  BY DEF ServeInv, CallInv, TypeOK
<1>4. Spec => []Counted
  BY <1>1, <1>2, PTL DEF Spec
<1>5. Spec => []BootInv
  BY ImplementsMigrations, BootInvariance, PTL
<1> QED BY <1>3, <1>4, <1>5, ServeInvariance, CallInvariance, PTL
=============================================================================
