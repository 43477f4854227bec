----------------------------- MODULE Migrations -----------------------------
(***************************************************************************)
(* daemon.New up to db.ApplyMigrations (internal/db/db.go), run by any     *)
(* number of processes over one SQLite file.  The ledger is asked about a  *)
(* version outside the transaction that then applies it; that transaction  *)
(* takes the write lock with its first statement and shows its effects     *)
(* when it commits.                                                        *)
(***************************************************************************)
EXTENDS Integers

CONSTANTS
  Daemons,    \* the processes
  Files,      \* [Daemons -> SUBSET [name, version]]: the .sql files in each program;
              \* version 0 when the name has no positive numeric prefix
  Guarded,    \* the versions whose statements are all CREATE ... IF NOT EXISTS
  MaxFaults,  \* bound: failed calls and kills
  None

File == [name : STRING, version : Nat]
ASSUME FilesAssumption == Files \in [Daemons -> SUBSET File]
ASSUME FaultsAssumption == MaxFaults \in Nat
ASSUME NoneAssumption == None \notin Daemons

VARIABLES
  boot,     \* where New stands: "off" (no process), "check", "apply", "record",
            \* "commit", "ready" (New has returned)
  todo,     \* the versions of the loop of ApplyMigrations still to come
  lock,     \* the process whose transaction has written and is still open
  schema,   \* the versions whose statements are in the database
  ledger,   \* the versions in schema_migrations
  faults    \* failed calls and kills so far

bootVars == <<boot, todo, lock, schema, ledger, faults>>

Versions(d) == {f.version : f \in Files[d]}

\* loadMigrations: no name without a version, no version twice.
Loads(d) == \A f, g \in Files[d] : f.version # 0 /\ (f.version = g.version => f = g)

\* A slip: the files are taken in any order.
IsNextMutant_Unsorted(d, v) == v \in todo[d]

\* It sorts them: v comes next.
IsNext(d, v) == v \in todo[d] /\ \A u \in todo[d] : v <= u

Booting(d) == boot[d] \notin {"off", "ready"}

BootInit ==
  /\ boot = [d \in Daemons |-> "off"] /\ todo = [d \in Daemons |-> {}]
  /\ lock = None /\ schema = {} /\ ledger = {} /\ faults = 0

\* db.Open, the ledger table and loadMigrations.  A program that does not load exits.
Open(d) ==
  /\ boot[d] = "off" /\ Loads(d)
  /\ boot' = [boot EXCEPT ![d] = "check"]
  /\ todo' = [todo EXCEPT ![d] = Versions(d)]
  /\ UNCHANGED <<lock, schema, ledger, faults>>

\* A slip: a version is taken as applied when the ledger holds a later one.
CheckMutant_Latest(d) ==
  /\ boot[d] = "check"
  /\ \E v \in todo[d] :
       /\ IsNext(d, v)
       /\ IF \E u \in ledger : v <= u
          THEN todo' = [todo EXCEPT ![d] = @ \ {v}] /\ UNCHANGED boot
          ELSE boot' = [boot EXCEPT ![d] = "apply"] /\ UNCHANGED todo
  /\ UNCHANGED <<lock, schema, ledger, faults>>

\* migrationApplied
Check(d) ==
  /\ boot[d] = "check"
  /\ \E v \in todo[d] :
       /\ IsNext(d, v)
       /\ IF v \in ledger
          THEN todo' = [todo EXCEPT ![d] = @ \ {v}] /\ UNCHANGED boot
          ELSE boot' = [boot EXCEPT ![d] = "apply"] /\ UNCHANGED todo
  /\ UNCHANGED <<lock, schema, ledger, faults>>

\* Statements that are not guarded fail on a schema that has them.
Applies(d) == \E v \in todo[d] : IsNext(d, v) /\ (v \in Guarded \/ v \notin schema)

\* A slip: the statements are executed on the database, not in the transaction.
ApplySqlMutant_Autocommit(d) ==
  /\ boot[d] = "apply" /\ lock = None /\ Applies(d)
  /\ lock' = d /\ boot' = [boot EXCEPT ![d] = "record"]
  /\ schema' = schema \cup {v \in todo[d] : IsNext(d, v)}
  /\ UNCHANGED <<todo, ledger, faults>>

\* applyMigration: the statements of the file, in a transaction that now holds the
\* write lock.  Another writer is waited for.
ApplySql(d) ==
  /\ boot[d] = "apply" /\ lock = None /\ Applies(d)
  /\ lock' = d /\ boot' = [boot EXCEPT ![d] = "record"]
  /\ UNCHANGED <<todo, schema, ledger, faults>>

\* version is the PRIMARY KEY of schema_migrations.
Records(d) == \E v \in todo[d] : IsNext(d, v) /\ v \notin ledger

RecordVersion(d) ==
  /\ boot[d] = "record" /\ Records(d)
  /\ boot' = [boot EXCEPT ![d] = "commit"]
  /\ UNCHANGED <<todo, lock, schema, ledger, faults>>

Commit(d) ==
  /\ boot[d] = "commit"
  /\ \E v \in todo[d] : /\ IsNext(d, v)
                        /\ schema' = schema \cup {v} /\ ledger' = ledger \cup {v}
                        /\ todo' = [todo EXCEPT ![d] = @ \ {v}]
  /\ lock' = None /\ boot' = [boot EXCEPT ![d] = "check"]
  /\ UNCHANGED faults

Ready(d) ==
  /\ boot[d] = "check" /\ todo[d] = {}
  /\ boot' = [boot EXCEPT ![d] = "ready"]
  /\ UNCHANGED <<todo, lock, schema, ledger, faults>>

\* The process is gone, its transaction rolled back.
Quit(d) ==
  /\ boot' = [boot EXCEPT ![d] = "off"] /\ todo' = [todo EXCEPT ![d] = {}]
  /\ lock' = IF lock = d THEN None ELSE lock
  /\ UNCHANGED <<schema, ledger>>

\* A slip: another writer is not waited for.
ConflictMutant_Busy(d) ==
  /\ \/ boot[d] = "apply" /\ (lock # None \/ ~Applies(d))
     \/ boot[d] = "record" /\ ~Records(d)
  /\ Quit(d) /\ UNCHANGED faults

\* Another process applied the version after this one had asked for it: New fails.
Conflict(d) ==
  /\ \/ boot[d] = "apply" /\ lock = None /\ ~Applies(d)
     \/ boot[d] = "record" /\ ~Records(d)
  /\ Quit(d) /\ UNCHANGED faults

\* Any call may fail (a lock waited for too long, an I/O error, a signal that cancels
\* the context) and the process may be killed.
Fail(d) ==
  /\ boot[d] # "off" /\ faults < MaxFaults /\ faults' = faults + 1
  /\ Quit(d)

Leave(d) == boot[d] = "ready" /\ Quit(d) /\ UNCHANGED faults

BootStep(d) == Check(d) \/ ApplySql(d) \/ RecordVersion(d) \/ Commit(d) \/ Ready(d)
               \/ Conflict(d)

BootNext == \E d \in Daemons : Open(d) \/ BootStep(d) \/ Fail(d) \/ Leave(d)

BootSpec == BootInit /\ [][BootNext]_bootVars

-----------------------------------------------------------------------------
(* Properties.                                                             *)

\* The statements of a version are in the database exactly when its row is in the
\* ledger, wherever a start was cut off (applyMigration): only then can every later
\* start get past that version.
SchemaIsLedger == schema = ledger

\* A process that got past ApplyMigrations has the tables of all its files, whichever
\* programs migrated the same database before it or beside it.
ReadyHasSchema == \A d \in Daemons : boot[d] = "ready" => Versions(d) \subseteq schema

\* The statements of a version are only ever run after those of all files before it in
\* the program that brings it (the sort of loadMigrations, the loop of ApplyMigrations),
\* also where another program has already applied a later one: they may rely on them.
LedgerInOrder ==
  \A v \in ledger : \E d \in Daemons :
    v \in Versions(d) /\ \A u \in Versions(d) : u < v => u \in ledger

\* The invariant behind them: one writer at a time, whose version is not yet in the
\* ledger when it commits, and nothing of a process is left to do but what is in todo.
BootInv ==
  /\ boot \in [Daemons -> {"off", "check", "apply", "record", "commit", "ready"}]
  /\ todo \in [Daemons -> SUBSET Nat]
  /\ lock \in Daemons \cup {None}
  /\ \A d \in Daemons : boot[d] \in {"record", "commit"} <=> lock = d
  /\ \A d \in Daemons : boot[d] # "off" => Versions(d) \subseteq ledger \cup todo[d]
  /\ \A d \in Daemons : boot[d] = "ready" => todo[d] = {}
  /\ SchemaIsLedger

\* Processes that start together do not all fail each other: when one has asked for its
\* next version, it or one that came before it gets through ApplyMigrations, as long as
\* no call fails and none is killed.
OneGetsThrough ==
  \A d \in Daemons :
    boot[d] = "check" ~> (\E e \in Daemons : boot[e] = "ready") \/ faults > 0
=============================================================================
