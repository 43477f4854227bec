# yllmlog in TLA+

Specifications of yllmlog, the log-watching daemon of this repository, with TLC
configurations that check them on small instances and TLAPS proofs of what matters
most for all instances. `PROJECT.json` lists the runs, the source lines behind every
definition, the hazards of the code and the theorems.

    tlc -workers 2 -config MCLogIngest_swap.cfg MCLogIngest     # a run
    tlapm LogIngestProofs.tla                                   # a proof module

## 1. The system

`yllmlogd` is one process over one SQLite database:

| component | state it keeps | operations | talks to |
|---|---|---|---|
| processor (`internal/app`) | nothing between cycles | `RunCycle`: one goroutine on a ticker of 5 s | logs, rules, events |
| log files (`internal/logs/files.go`, `reader.go`) | `log_files`: inode, size, offset | `RefreshFiles`, `ReadCompleteLines`, `UpdateOffset` | the file system |
| watched logs (`internal/logs/store.go`) | `watched_logs` | `Add`, `Remove`, `List` | socket handlers, processor |
| rules (`internal/rules`) | `rules`, `rule_performance` | `LoadEnabled`, `NewEngine`, `Match`, `RecordMatch` | processor; edited by hand |
| events (`internal/events`) | `events`, `event_occurrences` | `Record`, `List`, `Get` | processor, handlers |
| reports (`internal/reports`) | `reports` | `Generate` | handlers |
| daemon (`internal/daemon`) | status of the last cycle | `New`, `Listen`, `Close`, `handle` | all of the above |
| socket (`internal/socket`) | the listener, one goroutine per connection | `Listen`, `Close`, `Do` | daemon, CLI |
| database (`internal/db`, `migrations`) | schema, `schema_migrations` | `Open`, `ApplyMigrations` | daemon |
| CLI (`internal/cli`) | its exit code | one connection and one request per run | socket |
| notify, llm, config, system | none | one synchronous call each | not called by the daemon, or read once |

There is no lock around a cycle and no transaction wider than `Record`: the processor,
one handler goroutine per connection, the programs that write the logs, logrotate and
an administrator with `sqlite3` interleave between any two statements. What is hard:

* matching, recording and acknowledging a line are three separate writes;
* a file is identified by `stat` and opened by its path later;
* files are appended to, removed, renamed, truncated and recreated meanwhile, and
  watched logs removed and added again;
* one error ends the cycle, and a crash drops everything but the database;
* `LastInsertId` after an upsert over a connection pool;
* times compared as RFC3339Nano texts, whose order within a second is not that of the
  times; a report and an issue's details are put together from several queries;
* nothing keeps two daemons from sharing a database and a socket path: they migrate it
  together, a start removes whatever socket is at the path, and so does a shutdown;
* a migration that is killed half way is met again by the next start;
* `Daemon.Close` waits for the processor but not for the handlers, which go on with a
  closed database, and `Do` waits for its answer without a deadline.

What makes the parts correct: no line that calls for an event is passed over; a line
is recorded once per pass over its file; nothing outlives a removed log, and the daemon
makes no count of a rule that is gone; every such line is eventually recorded while the daemon runs; a cycle that reports success
has caught up; a request to add a log answers with that log; admin rules come first
and rules apply all or none; counters, reports and details agree with the occurrences;
the ledger of migrations says what is in the schema; the exit code of a command says
whether its change was made; a call that connected ends, and so does a shutdown.

## 2. Modules

| module | models | how |
|---|---|---|
| `LineDelivery` | the promise to the reader of the events | a cursor per (watched log, file) and the deliveries of each line; at least once |
| `LogIngest` | `RunCycle`, `RefreshFiles`, `ReadCompleteLines`, `UpdateOffset`, with `Add`, `Remove` and rotation in between | one action per call that reads or writes shared state; `pc` is the place in `RunCycle` |
| `LogIngestInv` | | the inductive invariants `IInv` and `SwapInv` |
| `LogIngestProofs`, `LogSwapProofs` | | theorems about `LogIngest` |
| `CycleHistory` | `missingFiles`, `lastCycleErr` | `LogIngest` with two history variables, for properties over a whole cycle |
| `CycleProofs` | | theorems about a whole cycle, of `CycleHistory` and `LogIngest` |
| `WatchedLogs` | `Store.Add`/`Remove` statement by statement | concurrent callers over pooled connections |
| `WatchedLogsProofs` | | theorems about `WatchedLogs` |
| `RuleEngine` | `LoadEnabled`, `NewEngine`, `Match`, `RecordMatch` | rules edited by hand at any point of a cycle |
| `RuleEngineProofs` | | theorems about `RuleEngine` |
| `EventReports` | `Record`, `issues.get`, `reports.generate` | one action per query or transaction, times as ticks and as texts |
| `EventReportsProofs` | | theorems about `EventReports` |
| `Migrations` | `daemon.New` up to `ApplyMigrations` | any number of processes over one SQLite file |
| `RemoteCall` | the promise to whoever runs a command | change, answer and exit code of each call, without daemons and sockets |
| `Daemon` | `main`, `Listen`, `Close`, `handle`, the socket's two sides, the commands of the CLI | EXTENDS `Migrations`; processes that come and go, and calls to them |
| `DaemonProofs` | | theorems about `Migrations` and `Daemon` |
| `MC*` | | constants for TLC |

Operators named `...Mutant_...` are slips of the definition that follows them, listed in
`PROJECT.json` with the property that finds each.

**State of `LogIngest`.** `disk` is the file system: per path a kind, an inode, a
generation and a length; a generation's content is fixed by `Script`, so that "the
same line" has a meaning when a file is replaced. `watched`, `rows`, `hits`, `occ` are
`watched_logs`, `log_files`, `rule_performance` and `event_occurrences`; the last two are
split by line, which the program does not store, to be able to say *which* line was
counted. A file on `disk` carries the names it has had (`names`), a history. `todo`, `cur`,
`paths`, `stat`, `states`, `batch` are the locals of `RunCycle`, `RefreshFiles`,
`refreshFile` and `processFile`; an error or a crash drops them. `passes` counts the reasons
to go through a file again, and `faults` bounds the failures.

**Actions.** `BeginCycle` (list, rules, engine), `ExpandWatch` (glob), `StatFile` (stat and
the SELECT behind it), `InsertRow`/`UpdateRow`, `RefreshDone`, `ReadLines` (open and read
to the end), then per line `SkipLine`, or `CountMatch`, `Record`, `Ack`. A position of a
file is a chunk; a chunk `"part"` ends no line, so that partial lines, and offsets that
end up inside a line of another generation, occur. Of such a torn line `Verdicts` lets the
rules say anything. The foreign keys are guards: `InsertRow` and `Record` fail when their
parent row is gone, `UpdateOffset` fails when no row was affected, and the `UPDATE` of
`refreshFile`, which does not look, succeeds without effect. `Abort` fails any call of a
cycle, `Crash` kills the process at any point. `RenameFile` moves a file to any name it has
not had before, `app.log.9` to `app.log.10` included, which sorts before it; back to a name
it had only where `Rotations` has `"restore"`, which no rotation tool does.

**Abstractions.** The size of a file is its length in chunks. Device and inode are one
number. A glob matches a fixed set of names. `SELECT` and `stat` of `refreshFile` are one
step, as nothing changes both the disk and the database. So are `List` and `LoadEnabled`
in `BeginCycle`: what comes between the two queries changes either the logs or the rules,
and may as well come after both or before both. What the rules say of a line
is part of the content; `RuleEngine` models how they come to it, and `ruleSet` in
`LogIngest` keeps of them whether there are any and whether all compile. `EventReports`
is driven by any sequence of calls of `Record`.

**`EventReports`.** A tick is a fraction of a second and `Fraction` gives its digits;
`TextBefore` is the order SQLite compares the texts in. `Commit` is the transaction of
`Record`, for a time `counterTime` read between the call and the commit; `Rollback` is
any failure in it. Days begin at midnight of one time zone, the daemon's. A report is `BeginReport` (the clock), `LoadEvents`, `InsertReport`.

**`RuleEngine`.** `sort.SliceStable` and `ORDER BY` are modelled by what they return: a
sequence that lists every element once (`Listings`) in the order asked for. Rules are deleted
by hand, with foreign keys on, when the count goes with the rule, or off, as in `sqlite3`
unless it is told otherwise (only the connections of `db.go` turn them on): then the row
of `rule_performance` stays, `left` remembers it, and `RecordMatch` of that id counts on
(`DO UPDATE` checks no foreign key). Without such a row it fails.

**`Migrations`.** `boot` is where `New` stands, `todo` what the loop of `ApplyMigrations`
has left, `lock` whose transaction holds SQLite's write lock, `schema` the versions whose
statements are in the file and `ledger` the rows of `schema_migrations`. `Check` is the
query outside the transaction, `ApplySql`, `RecordVersion` and `Commit` are its three
writes; `Conflict` is a version that another process applied after the query. Of a
migration's statements only matters whether they can be run twice (`Guarded`): those of
001 can, the `ALTER TABLE` of 002 cannot. A wait for the lock that runs out is one of
the failures of `Fail`, which also kills processes.

**`Daemon`.** `serve` is where `Listen` or `Close` stands, `cycle` the processor, `sock`
whose socket is at the path, if any. What `Listen` does to the path is one step per system
call, as other processes take and remove it meanwhile: `Prepare` looks (`Lstat`),
`RemoveFound` removes what is there by then, or `RemoveFails` as it is gone, `Bind` or
`BindFails`, and the `chmod`, which fails when the path is gone (`ChmodFails`), after which
closing the listener removes whatever is at the path (`ListenFails`). A call is one run of the CLI: its command, where its
connection is, what the handler did (`done`), wrote (`reply`), and what the CLI read
(`got`) and ended with (`exit`). `alone` is a history variable: no other process has been
there since this one started. A cycle that begins after the cancellation returns at its
first call and is not a step. That closing a Go Unix listener removes the file at its path and
that the kernel resets connections nobody accepted are facts about libraries, taken as
they are. A path that holds something other than a socket, and requests that no CLI
sends, are left out. The commands differ by what they need and what they do: `Local` ones
(`version`, and likewise `help`) are answered without a daemon, `Changes` commit one row or
more, `Unbounded` may answer with more than the 64 KB of the client's scanner. Calls do
not read each other's state, so one of them meets everything that the processes can do.
What the handlers do inside is in `WatchedLogs` and `EventReports`, and what a cycle
does in `LogIngest`.

## 3. Runs

| run | checks | states | result |
|---|---|---|---|
| `swap` | `SwapInv`, `NoSilentSkip` | 1 glob, 2 names, 2 generations, remove and rename, 1 fault | holds |
| `trunc` | `IInv` (with the types), `OncePerPass`, `NoOrphans`, refinement `DeliverySpec` | 1 file of 3 chunks, every rotation, removed and added again, 1 fault | holds |
| `live` | `EventuallyRecorded` | weak fairness of the processor; rules break and are repaired | holds |
| `dir` | `EventuallyRecorded` | a directory among the matches of a glob | **violated** |
| `clean` | `CatchUp`, `CleanCycleCatchesUp`, `CycleProgress` | 2 watched logs that share a file | holds |
| `recreated` | `RecreatedIsReread` | a recycled inode number | **violated** |
| `add` | `ReplyInv`, `NewLogReply` | 2 callers, 2 connections, 2 paths | holds |
| `again` | `AddReply` | the same | **violated** |
| `rules` | `EngineInv`, `BestRule`, `AdminFirst`, `AllOrNothing`, `OrphansByHand` | 3 of 9 rules, 2 lines, 2 counts | holds |
| `reports` | `ReportsInv`, `RowMatchesOccurrences`, `RecentCounters`, `LeftOutIsLater`, `ReportInPeriod`, `DetailCovers` | half seconds, a day of 2 s, 3 occurrences | holds |
| `empty` | `EmptyReportIsTrue` | the same | **violated** |
| `daemon` | `TypeOK`, `SchemaIsLedger`, `ReadyHasSchema`, `LedgerInOrder`, `NoCycleAfterClose`, `ExitIsTrue`, `SocketIsHeard`, `AloneIsReachable`, `OneGetsThrough`, `AloneServes`, `Answered`, `CloseEnds`, refinement `CallSpec` | 2 processes with different programs, 2 starts, 1 fault, 1 call of 6 commands | holds |

What the violated ones show:

* `dir`: a directory that matches a glob is an error, which ends the cycle before any
  file of that log, or of a later log, is read. It stays so as long as the directory.
* `recreated`: `missingFiles` reports a missing file but keeps no trace of it, so a file
  that comes back with its old inode number is resumed at the old offset, against
  `docs/LOG_PROCESSING.md`.
* `again`: the upsert of a path that is already watched adds no row, and `LastInsertId`
  is then the last id of the pooled connection, of any table. `Add` answers with another
  log or with an error, though it did its work. `store_test.go` expects the same id, and
  passes as nothing else was inserted before.
* `empty`: a report whose only issue is recorded again between the clock and the query
  says "No matching events were recorded during this period."

What `daemon` says, and does not: `AloneIsReachable` needs its `alone`. `prepareSocket` calls
every socket at its path stale, that of a running daemon too, and when the first
daemon closes, its listener and then `Server.Close` remove the file of the second, which
serves on where nobody can reach it. Likewise of two that start together one may fail
on the other's migration (`Conflict`), and `OneGetsThrough` says that this never takes both.
`logs add` is the one command that may fail and yet have made its change (run `again`);
it is the `Loose` one of `RemoteCall`. Of a call that gives up or loses its connection `CallSpec`
allows that its change is made later, and this happens: the handler of a client that is
gone goes on.

What `CycleProgress` says, and does not: it orders what a cycle has before it, logs first,
then the phase of a log, its files, the lines read of a file, the writes for a line. Each
step of the processor brings it down and nobody else brings it up, so a cycle over finitely
many logs and names is over after finitely many calls. That each call returns is not part
of it: `ReadLines` is one step, and `ReadCompleteLines` reads on as long as a writer is ahead
of it.

**Bounds.** Two generations are what rotation needs: the file a row was made for and its
successor. `swap` has two names, so that a file can move to a name that is processed
later in the same cycle or was processed before; `trunc` has three chunks, so that an
offset can be below, at and beyond the length of a successor, and inside its lines. One
fault is enough for a replay of a line to meet a rotation and a remove; the theorems
have no bound. `clean` has two
watched logs, one of them with both names, so that a cycle has something left to do after
it finished a log or a file. In
`reports`, an hour of one second and a day of two put the boundaries of both windows and
of the period, and two texts of one second, within six ticks; `Limit` 1 puts the number
of occurrences at and beyond the limit of the query. The nine rows of `rules` have a rule
of every source, with priorities that agree, disagree and are equal, and rules that never
match or do not compile. In `daemon`, two programs with files 1, 3 and 1, 2, 3 over one
database are an upgrade that fills a gap, and 3 is a version that cannot be applied twice;
two starts are two daemons beside each other or one after the other, and one fault is a
kill at any point (a third start takes four times as long and finds nothing more).

The bounds are in the guards: `MaxGen`, `MaxLen`, `MaxWatchIds`, `MaxFaults`, `MaxWid`, `MaxOther`, `MaxId`,
`MaxCount`, `MaxTime`, `MaxOcc`, `MaxStarts`.

**Fairness.** `FairSpec` is weak fairness of `Process`, all steps of the processor's
goroutine together: the ticker always fires again and every call of a cycle returns, with
an error or without. Nothing is assumed of the environment, of the operators, of a restart
after a crash, or that a failed call succeeds later: `Abort` is bounded by `MaxFaults`, and
with failures for ever nothing would be recorded. The `FairSpec` of `Daemon` is weak fairness
of each process's own steps, of each connection's goroutine and of a CLI that has something
to read. The ticker, signals, starts and requests are not fair; `AloneServes` counts from
when failures have stopped, and `OneGetsThrough` gives up when one happened. Every other
specification is a safety specification. Deadlock is checked in every run but `daemon`,
where everything really stops once all starts are used up and the last process has gone.

## 4. Proofs

For all sets of watched logs and files, contents, bounds, and rotations:

* `Invariance`: `Spec => []IInv`. `OncePerPass` is not inductive: it needs that the
  row of the file being processed is still what the processor read of it, or is gone
  (`Current`: only the processor writes rows, but a remove takes them away), where the
  processor stands (`Located`), and that beyond the offset reached no line was matched in
  this pass (`PassesCount`). `Settled` is what an acknowledgement relies on.
* `TypeCorrect`, `AtMostOncePerPass`, `RowsBelong` (`NoOrphans`).
* `Refinement`: `Spec => DeliverySpec`, step by step: inserting a row tracks a source,
  a remove forgets all of a log, a rotation rewinds, `Record` delivers, `SkipLine` and
  `Ack` pass; every other step stutters.

Where no file is truncated in place or moved back to a name it had, and no inode is reused
(`SwapOnly`):

* `SwapInvariance`, `NoLineLost` (`NoSilentSkip`). The race between stat and open does let
  the processor write the offset of one file into the row of another. That is harmless:
  an inode is one generation and does not come back to a name it was seen at (`Identity`),
  so when a batch was read from another generation than the row's, the row's own file has left that path
  for good, and the next refresh sees another inode and starts over (`NothingSkipped`).

* `CatchUpInvariance` (`CatchUp`), `CaughtUp` (`CleanCycleCatchesUp`), of `CycleHistory`. A line that
  was due when the cycle began and still is has its log, its file or itself before the
  processor, or was recorded; and from the stat on, the row of its file is that of its
  generation, as nothing of a file that was swapped meanwhile is due any more. So when the
  processor has gone through a batch, what it read is recorded step by step, what lies below
  the offset it read from is by `NothingSkipped`, and no position left after the last line
  ends one (`NothingLeft`: the least that did would be the next line). At the end of a cycle
  nothing is before it.

Whatever happens to the files:

* `CycleAdvances`: `Spec => CycleProgress`, one lemma for each component of the order.

For any number of callers, connections and paths:

* `RepliesInvariant`, `NewLogReplies`: ids of `watched_logs` are never given twice
  (AUTOINCREMENT), so the id of a fresh row is that row's or nobody's.

For any rules, priorities, kinds and lines:

* `EngineInvariance`, `AllRulesOrNone`, `CountsHaveRules`, `MatchIsBest`, `AdminComesFirst`: the
  engine lists every enabled rule, compiled, in the order of source, priority and id, so
  the first that matches is the best of those that match. A count without a rule was left
  by a delete by hand that did not cascade (`OrphansByHand`): a rule that is deleted in the
  middle of a cycle is not counted again by what the cycle still holds of it.

For any times, fractions, windows and limits:

* `ReportsInvariance`, `RowsMatch`, `CountersMatch`, `NothingIsLeftOut`, `ReportsInPeriod`,
  `DetailsCover`. First, the order of the texts is irreflexive and transitive, whatever the
  digits; that the texts of an issue have a greatest and a least one is carried along by
  the invariant (`RowsInv`), as each commit adds one text (`ExtremesGrow`). The
  invariant then says what a report or a view of an issue has read so far and that all
  that came later is later (`GenOK`, `ViewOK`).

For any number of processes, programs and calls:

* `BootInvariance`, `SchemaLedger`, `ReadySchema`: one writer at a time, and what a process has
  ticked off is in the ledger (`BootInv`). The first is stated of `BootSpec`, which knows
  nothing of sockets; `ImplementsMigrations` shows that `Daemon` implements it, and the
  others follow. `LedgerOrder` (`LedgerInOrder`) needs besides that what a process has left is
  some of its own files (`OrderInv`): the least of them has none before it there.
* `ProcessorStopsFirst`, `SocketHeard`, `AloneReachable`, `ExitTrue`, `TypeCorrect`: from
  where each process and each call stands, as two further invariants (`ServeInv`, `CallInv`).
* `KeepsPromise`: `Spec => CallSpec`. A step of a call is one of `RemoteCall` or one it does not
  see (`StepMoves`, `MovesMap`), and what processes do to connections it never sees
  (`BrokenUnseen`). `CallInv` gives the guards: a change is made while the request is handled,
  before anything was told, and an answer that is read is the one the handler wrote.

The proofs assume the named ASSUMEs on the constants only: paths and logs are positive
numbers, `Expand` and `Script` are functions of the right type, bounds are naturals.

Only model-checked: the liveness properties `EventuallyRecorded`, `OneGetsThrough`,
`AloneServes`, `Answered` and `CloseEnds`, as liveness and ENABLED are out of this prover's
reach. For `EventuallyRecorded`, `CycleAdvances` and `CaughtUp` prove the safety part: a cycle
cannot go on for ever, and one that ends well has recorded what was due.

## 5. Not modelled

`PROJECT.json` has every component with its reason.

* `Fingerprint` and `Normalize`: a key of `EventReports` stands for the lines they map together.
* Severity and summary of an issue, which `ON CONFLICT DO NOTHING` leaves as they were first
  recorded; the code and its documents do not say whether they should follow the rules.
* A file that was truncated in place and has grown past its stored offset by the next poll:
  neither inode nor size tell, and `NoSilentSkip` is stated where this does not happen.
* A file that is moved away between stat and open, another in its place, and moved back
  later: its row then has the offset of the other file, and lines below it are skipped
  (TLC finds this when `"restore"` is added to the rotations of `swap`). `NoSilentSkip` and
  `CatchUp` are stated without it and no run has it; `Invariance`, `AtMostOncePerPass`,
  `Refinement` and `CycleAdvances` hold with it.
* Two daemons that process logs over one database: `LogIngest` has one processor. With two,
  lines are recorded twice, and an offset of one can end up in a row the other has just
  rotated. `Daemon` has any number of processes, but nothing of what their cycles do.
* `notify` and `llm`: no caller in the repository, so no order of calls to model.
* `config` and `system`: files read once at start; an error of theirs is an end of `Run`.
* Backup, chat and the client library are empty packages; version is a constant.

## 6. Plan

Done, in this order: `LineDelivery`, `LogIngest` with its proofs, `CycleHistory`,
`WatchedLogs` with its proofs, `EventReports`, `RuleEngine`, `Migrations` and `Daemon` with their
proofs, the proofs of `RuleEngine` and `EventReports`, the theorems about a whole cycle,
`RemoteCall` and its refinement. What would come next:

1. `LogIngest!Record` composed with `EventReports!Commit`: which lines a report counts.
2. Two processors over one database, and what of `DeliverySpec` they keep.
3. Severity in `EventReports`, once it is decided what it should be.
4. `notify` and `llm`, once the daemon calls them: retries after an error of `Quit`, and what a
   slow answer does to the cycle.
