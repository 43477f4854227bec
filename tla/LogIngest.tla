------------------------------ MODULE LogIngest ------------------------------
(***************************************************************************)
(* The log processor of yllmlogd: internal/app/processor.go over           *)
(* internal/logs (watched_logs and log_files, rotation detection, the line *)
(* reader) and the two writes it makes per matched line (rule_performance  *)
(* and event_occurrences), with the operating system and the operators     *)
(* acting at any point in between.                                         *)
(*                                                                         *)
(* One action is one call that reads or writes shared state: a stat, a     *)
(* read of a file to its end, one SQL statement or one transaction.  The   *)
(* SELECT of refreshFile is part of the stat before it: what can happen in *)
(* between changes the disk or the database, never both, so either order   *)
(* is a behaviour of the model.                                            *)
(*                                                                         *)
(* A file holds chunks, one per offset.  Every file created is a new       *)
(* generation g, and its content is a prefix of Script[g]: a chunk "part"  *)
(* ends no line, any other chunk ends one and is what the rules say of     *)
(* that line: "plain" (no rule matches), "ignore" or "report" (matched by  *)
(* an action that records an event).                                       *)
(***************************************************************************)
EXTENDS Integers

CONSTANTS
  Watch,        \* paths given to logs.add, numbered in the order of the paths
  Path,         \* files, numbered in the order of their names
  Expand,       \* [Watch -> SUBSET Path]: what a watched path or glob can match
  Script,       \* [Gen -> [Pos -> Chunk]]: content of each generation of a file
  MaxGen,       \* bound: files ever created
  MaxLen,       \* bound: chunks of a file
  MaxWatchIds,  \* bound: rows ever inserted into watched_logs
  MaxFaults,    \* bound: crashes and failed calls
  Rotations,    \* what is done to the files besides creating and appending
  RuleSets,     \* the rule sets the operators install
  Edits         \* what they change in the database by hand: {"rules", "disable"}

Gen == 1 .. MaxGen
Pos == 1 .. MaxLen
Verdict == {"plain", "ignore", "report"}
Chunk == {"part"} \cup Verdict

ASSUME WatchAssumption == Watch \subseteq Nat \ {0}
ASSUME PathAssumption == Path \subseteq Nat \ {0}
ASSUME ExpandAssumption == Expand \in [Watch -> SUBSET Path]
ASSUME BoundAssumption == MaxGen \in Nat /\ MaxLen \in Nat
ASSUME ScriptAssumption == Script \in [Gen -> [Pos -> Chunk]]
ASSUME RotationsAssumption ==
  Rotations \subseteq {"remove", "rename", "restore", "truncate", "reuse", "dir"}
ASSUME RuleSetsAssumption == RuleSets \subseteq {"none", "bad", "ok"}
ASSUME EditsAssumption == Edits \subseteq {"rules", "disable"}

Source == Watch \X Path

VARIABLES
  \* the file system
  disk,       \* [Path -> [kind, inode, gen, len, names]]; names: history, those it had
  nextGen,    \* the generation of the next file created
  \* the database
  watched,    \* watched_logs: [Watch -> [id, enabled]], id 0 when there is no row
  rows,       \* log_files: [Source -> [id, inode, offset]], id 0 when there is no row
  nextWid,    \* the AUTOINCREMENT counters of these tables
  nextRow,
  hits,       \* rule_performance.match_count, split by the line that was matched
  occ,        \* event_occurrences, split by the line they are for
  ruleSet,    \* the enabled rules: "none", "bad" (one does not compile), "ok"
  \* the processor
  pc,         \* where RunCycle stands; "idle" between cycles, "down" no process
  cycleErr,   \* lastCycleErr of the daemon: did the last cycle fail
  todo,       \* [Watch -> id]: enabled logs List returned, not yet processed; or 0
  cur,        \* [w, id]: the watched log being processed
  paths,      \* paths expandPath returned, not yet refreshed
  stat,       \* [path, inode, size, row]: between the stat and the write of its row
  states,     \* [Path -> [id, offset]]: FileStates not yet processed, id 0 when none
  batch,      \* [path, id, gen, at, upto, line]: the lines read from one file
  \* history
  passes,     \* [Source -> Nat]: times the lines of a source may be gone through
  faults      \* crashes and failed calls so far

disks == <<disk, nextGen>>
tables == <<watched, rows, nextWid, nextRow, hits, occ, ruleSet>>
locals == <<todo, cur, paths, stat, states, batch>>
vars == <<disks, tables, pc, cycleErr, locals, passes, faults>>

NoFile == [kind |-> "none", inode |-> 0, gen |-> 0, len |-> 0, names |-> {}]
Directory == [NoFile EXCEPT !.kind = "dir"]
EmptyFile(i, g, N) == [kind |-> "file", inode |-> i, gen |-> g, len |-> 0, names |-> N]
NoRow == [id |-> 0, inode |-> 0, offset |-> 0]
NoCur == [w |-> 0, id |-> 0]
NoStat == [path |-> 0, inode |-> 0, size |-> 0, row |-> NoRow]
NoState == [id |-> 0, offset |-> 0]
NoBatch == [path |-> 0, id |-> 0, gen |-> 0, at |-> 0, upto |-> 0, line |-> 0]

First(x, S) == x \in S /\ \A y \in S : x <= y
InCycle == pc \notin {"down", "idle"}
Here == <<cur.w, batch.path>>      \* the source whose lines are being processed

Init ==
  /\ disk = [p \in Path |-> NoFile] /\ nextGen = 1
  /\ watched = [w \in Watch |-> [id |-> 0, enabled |-> FALSE]]
  /\ rows = [s \in Source |-> NoRow]
  /\ nextWid = 1 /\ nextRow = 1
  /\ hits = [s \in Source |-> [g \in Gen |-> [n \in Pos |-> 0]]]
  /\ occ = [s \in Source |-> [g \in Gen |-> [n \in Pos |-> 0]]]
  /\ ruleSet \in RuleSets
  /\ pc = "down" /\ cycleErr = FALSE
  /\ todo = [w \in Watch |-> 0] /\ cur = NoCur /\ paths = {} /\ stat = NoStat
  /\ states = [p \in Path |-> NoState] /\ batch = NoBatch
  /\ passes = [s \in Source |-> 0] /\ faults = 0

-----------------------------------------------------------------------------
(* The programs that write the logs, and logrotate.  None is fair.         *)

OnDisk(i) == \E p \in Path : disk[p].kind = "file" /\ disk[p].inode = i

\* An inode number is new, or under "reuse" that of a file that is gone.
CreateFile(p) ==
  /\ disk[p].kind = "none" /\ nextGen \in Gen
  /\ \E i \in {nextGen} \cup (IF "reuse" \in Rotations THEN 1 .. nextGen ELSE {}) :
       /\ ~OnDisk(i)
       /\ disk' = [disk EXCEPT ![p] = EmptyFile(i, nextGen, {p})]
  /\ nextGen' = nextGen + 1
  /\ UNCHANGED <<tables, pc, cycleErr, locals, passes, faults>>

Append(p) ==
  /\ disk[p].kind = "file" /\ disk[p].len < MaxLen
  /\ disk' = [disk EXCEPT ![p].len = @ + 1]
  /\ UNCHANGED <<nextGen, tables, pc, cycleErr, locals, passes, faults>>

RemoveFile(p) ==
  /\ "remove" \in Rotations /\ disk[p].kind = "file"
  /\ disk' = [disk EXCEPT ![p] = NoFile]
  /\ UNCHANGED <<nextGen, tables, pc, cycleErr, locals, passes, faults>>

\* logrotate without copytruncate: app.log becomes app.log.1, app.log.9 becomes
\* app.log.10.  A file gets a name that it had before only under "restore".
RenameFile(p, q) ==
  /\ "rename" \in Rotations /\ p # q /\ disk[p].kind = "file" /\ disk[q].kind # "dir"
  /\ q \in disk[p].names => "restore" \in Rotations
  /\ disk' = [disk EXCEPT ![p] = NoFile, ![q] = [disk[p] EXCEPT !.names = @ \cup {q}]]
  /\ UNCHANGED <<nextGen, tables, pc, cycleErr, locals, passes, faults>>

\* copytruncate: the same inode starts over with other content.
TruncateFile(p) ==
  /\ "truncate" \in Rotations /\ disk[p].kind = "file" /\ nextGen \in Gen
  /\ disk' = [disk EXCEPT ![p] = EmptyFile(disk[p].inode, nextGen, disk[p].names)]
  /\ nextGen' = nextGen + 1
  /\ UNCHANGED <<tables, pc, cycleErr, locals, passes, faults>>

\* A directory appears under a watched name.
MakeDir(p) ==
  /\ "dir" \in Rotations /\ disk[p].kind = "none"
  /\ disk' = [disk EXCEPT ![p] = Directory]
  /\ UNCHANGED <<nextGen, tables, pc, cycleErr, locals, passes, faults>>

Environment ==
  \/ \E p \in Path : CreateFile(p) \/ Append(p) \/ RemoveFile(p) \/ TruncateFile(p)
  \/ \E p \in Path : MakeDir(p)
  \/ \E p, q \in Path : RenameFile(p, q)

-----------------------------------------------------------------------------
(* The operators: logs.add and logs.remove over the socket, each a single  *)
(* statement that may come between any two steps of a cycle, and edits of  *)
(* the database for which the daemon has no request.                       *)

Add(w) ==
  /\ pc # "down"
  /\ \/ /\ watched[w].id = 0 /\ nextWid <= MaxWatchIds
        /\ watched' = [watched EXCEPT ![w] = [id |-> nextWid, enabled |-> TRUE]]
        /\ nextWid' = nextWid + 1
     \/ /\ watched[w].id # 0
        /\ watched' = [watched EXCEPT ![w].enabled = TRUE]
        /\ UNCHANGED nextWid
  /\ UNCHANGED <<disks, rows, nextRow, hits, occ, ruleSet, pc, cycleErr, locals,
                 passes, faults>>

\* log_files rows go with their watched log (ON DELETE CASCADE).
Remove(w) ==
  /\ pc # "down" /\ watched[w].id # 0
  /\ watched' = [watched EXCEPT ![w] = [id |-> 0, enabled |-> FALSE]]
  /\ rows' = [s \in Source |-> IF s[1] = w THEN NoRow ELSE rows[s]]
  /\ UNCHANGED <<disks, nextWid, nextRow, hits, occ, ruleSet, pc, cycleErr, locals,
                 passes, faults>>

\* External: no request of the daemon clears the enabled column or edits a rule;
\* both are done in the database.
Disable(w) ==
  /\ "disable" \in Edits /\ watched[w].enabled
  /\ watched' = [watched EXCEPT ![w].enabled = FALSE]
  /\ UNCHANGED <<disks, rows, nextWid, nextRow, hits, occ, ruleSet, pc, cycleErr,
                 locals, passes, faults>>

EditRules ==
  /\ "rules" \in Edits
  /\ ruleSet' \in RuleSets \ {ruleSet}
  /\ UNCHANGED <<disks, watched, rows, nextWid, nextRow, hits, occ, pc, cycleErr,
                 locals, passes, faults>>

Operators ==
  \/ \E w \in Watch : Add(w) \/ Remove(w) \/ Disable(w)
  \/ EditRules

-----------------------------------------------------------------------------
(* The processor.                                                          *)

DropLocals == /\ todo' = [w \in Watch |-> 0] /\ cur' = NoCur /\ paths' = {}
              /\ stat' = NoStat /\ states' = [p \in Path |-> NoState]
              /\ batch' = NoBatch

\* RunCycle returns an error: everything it had read is forgotten.
CycleFails == /\ pc' = "idle" /\ cycleErr' = TRUE /\ DropLocals
              /\ UNCHANGED <<disks, tables, passes, faults>>

Start == /\ pc = "down" /\ pc' = "idle" /\ cycleErr' = FALSE
         /\ UNCHANGED <<disks, tables, locals, passes, faults>>

\* The context is cancelled between two cycles.
Exit == /\ pc = "idle" /\ pc' = "down"
        /\ UNCHANGED <<disks, tables, cycleErr, locals, passes, faults>>

\* List, LoadEnabled and NewEngine.  Without a rule the cycle ends here, and
\* well; with one that does not compile it fails.  List and LoadEnabled are two
\* queries: whatever comes between them is seen by one of them only, so that it
\* could as well have come before both or after both.
BeginCycle ==
  /\ pc = "idle"
  /\ \/ /\ ruleSet = "ok"
        /\ todo' = [w \in Watch |-> IF watched[w].enabled THEN watched[w].id ELSE 0]
        /\ pc' = "watch" /\ UNCHANGED <<cycleErr, cur, paths, stat, states, batch>>
     \/ ruleSet # "ok" /\ cycleErr' = (ruleSet = "bad") /\ UNCHANGED <<pc, locals>>
  /\ UNCHANGED <<disks, tables, passes, faults>>

EndCycle ==
  /\ pc = "watch" /\ \A w \in Watch : todo[w] = 0
  /\ pc' = "idle" /\ cycleErr' = FALSE /\ DropLocals
  /\ UNCHANGED <<disks, tables, passes, faults>>

\* The next watched log in the order of the paths, and expandPath on it.
ExpandWatch(w) ==
  /\ pc = "watch" /\ First(w, {v \in Watch : todo[v] # 0})
  /\ cur' = [w |-> w, id |-> todo[w]]
  /\ todo' = [todo EXCEPT ![w] = 0]
  /\ paths' = {p \in Expand[w] : disk[p].kind # "none"}
  /\ pc' = "refresh"
  /\ UNCHANGED <<disks, tables, cycleErr, stat, states, batch, passes, faults>>

\* statFile, then the row of the file.  A path that is gone again or is a
\* directory fails the cycle.
StatFile(p) ==
  /\ pc = "refresh" /\ First(p, paths)
  /\ IF disk[p].kind = "file"
     THEN /\ stat' = [path |-> p, inode |-> disk[p].inode, size |-> disk[p].len,
                      row |-> rows[<<cur.w, p>>]]
          /\ paths' = paths \ {p}
          /\ pc' = "upsert"
          /\ UNCHANGED <<disks, tables, cycleErr, todo, cur, states, batch, passes, faults>>
     ELSE CycleFails

\* The row is the one found, or a new one; the file is to be read from o.
Refreshed(id, o) ==
  /\ states' = [states EXCEPT ![stat.path] = [id |-> id, offset |-> o]]
  /\ stat' = NoStat
  /\ pc' = "refresh"
  /\ UNCHANGED <<disks, watched, nextWid, hits, occ, ruleSet, cycleErr, todo, cur,
                 paths, batch, faults>>

Bumped(s) == passes' = [passes EXCEPT ![s] = @ + 1]

\* A slip: no foreign key from log_files to watched_logs.
InsertRowMutant_NoForeignKey ==
  /\ pc = "upsert" /\ stat.row.id = 0
  /\ rows' = [rows EXCEPT ![<<cur.w, stat.path>>] =
                [id |-> nextRow, inode |-> stat.inode, offset |-> 0]]
  /\ nextRow' = nextRow + 1
  /\ Bumped(<<cur.w, stat.path>>)
  /\ Refreshed(nextRow, 0)

\* insertFile; the foreign key rejects the row if the log was removed.
InsertRow ==
  /\ pc = "upsert" /\ stat.row.id = 0
  /\ IF watched[cur.w].id = cur.id
     THEN /\ rows' = [rows EXCEPT ![<<cur.w, stat.path>>] =
                        [id |-> nextRow, inode |-> stat.inode, offset |-> 0]]
          /\ nextRow' = nextRow + 1
          /\ Bumped(<<cur.w, stat.path>>)
          /\ Refreshed(nextRow, 0)
     ELSE CycleFails

\* A slip: only a shorter file counts as rotated.
ResumeAtMutant_SizeOnly(st) == IF st.size < st.row.offset THEN 0 ELSE st.row.offset

\* Where refreshFile resumes: another inode or a shorter file is read anew.
ResumeAt(st) ==
  IF st.inode # st.row.inode \/ st.size < st.row.offset THEN 0 ELSE st.row.offset

\* The UPDATE of refreshFile does not look at the number of rows it changed.
UpdateRow ==
  /\ pc = "upsert" /\ stat.row.id # 0
  /\ rows' = IF rows[<<cur.w, stat.path>>].id = stat.row.id
             THEN [rows EXCEPT ![<<cur.w, stat.path>>] =
                     [id |-> stat.row.id, inode |-> stat.inode, offset |-> ResumeAt(stat)]]
             ELSE rows
  /\ IF ResumeAt(stat) < stat.row.offset
     THEN Bumped(<<cur.w, stat.path>>) ELSE UNCHANGED passes
  /\ UNCHANGED nextRow
  /\ Refreshed(stat.row.id, ResumeAt(stat))

\* missingFiles changes nothing: RunCycle skips what it reports.
RefreshDone ==
  /\ pc = "refresh" /\ paths = {} /\ pc' = "file"
  /\ UNCHANGED <<disks, tables, cycleErr, locals, passes, faults>>

\* ReadCompleteLines: the path is opened anew, whatever it names by now, and read
\* from the offset of the FileState.  A directory opens, but reading it fails.
ReadLines(p) ==
  /\ pc = "file" /\ First(p, {q \in Path : states[q].id # 0})
  /\ IF disk[p].kind = "dir" THEN CycleFails
     ELSE /\ states' = [states EXCEPT ![p] = NoState]
          /\ IF disk[p].kind = "none" THEN UNCHANGED <<pc, batch>>
             ELSE /\ batch' = [path |-> p, id |-> states[p].id, gen |-> disk[p].gen,
                               at |-> states[p].offset, upto |-> disk[p].len, line |-> 0]
                  /\ pc' = "line"
          /\ UNCHANGED <<disks, tables, cycleErr, todo, cur, paths, stat, passes, faults>>

\* A slip: the loop over the files is left before its end.
FilesDoneMutant_Early ==
  /\ pc = "file" /\ pc' = "watch" /\ cur' = NoCur
  /\ states' = [p \in Path |-> NoState]
  /\ UNCHANGED <<disks, tables, cycleErr, todo, paths, stat, batch, passes, faults>>

FilesDone ==
  /\ pc = "file" /\ \A p \in Path : states[p].id = 0
  /\ pc' = "watch" /\ cur' = NoCur
  /\ UNCHANGED <<disks, tables, cycleErr, todo, paths, stat, states, batch, passes, faults>>

\* Position n ends the next line of the batch.
NextLine(n) ==
  /\ batch.at < n /\ n <= batch.upto /\ Script[batch.gen][n] # "part"
  /\ \A k \in Pos : batch.at < k /\ k < n => Script[batch.gen][k] = "part"

\* What Engine.Match may say of it: the tail of a torn line is another line.
Verdicts(n) == IF batch.at \in Pos /\ Script[batch.gen][batch.at] = "part"
               THEN Verdict ELSE {Script[batch.gen][n]}

\* A slip: a file that has grown meanwhile is read on.
LinesDoneMutant_ReadsOn ==
  /\ pc = "line" /\ \A n \in Pos : ~NextLine(n)
  /\ LET grown == disk[batch.path].gen = batch.gen /\ disk[batch.path].len > batch.upto IN
     /\ pc' = IF grown THEN "line" ELSE "file"
     /\ batch' = IF grown THEN [batch EXCEPT !.upto = disk[batch.path].len] ELSE NoBatch
  /\ UNCHANGED <<disks, tables, cycleErr, todo, cur, paths, stat, states, passes, faults>>

LinesDone ==
  /\ pc = "line" /\ \A n \in Pos : ~NextLine(n)
  /\ pc' = "file" /\ batch' = NoBatch
  /\ UNCHANGED <<disks, tables, cycleErr, todo, cur, paths, stat, states, passes, faults>>

\* UpdateOffset: one UPDATE by id, an error if the row is gone.
UpdateOffset(n) ==
  IF rows[Here].id = batch.id
  THEN /\ rows' = [rows EXCEPT ![Here].offset = n]
       /\ batch' = [batch EXCEPT !.at = n, !.line = 0]
       /\ pc' = "line"
       /\ UNCHANGED <<disks, watched, nextWid, nextRow, hits, occ, ruleSet, cycleErr,
                      todo, cur, paths, stat, states, passes, faults>>
  ELSE CycleFails

SkipLine(n) == pc = "line" /\ NextLine(n) /\ "plain" \in Verdicts(n) /\ UpdateOffset(n)

\* A slip: the offset is stored before the line is recorded.
CountMatchMutant_AckFirst(n) ==
  /\ pc = "line" /\ NextLine(n)
  /\ \E v \in Verdicts(n) \ {"plain"} : pc' = IF v = "report" THEN "record" ELSE "ack"
  /\ hits' = [hits EXCEPT ![Here][batch.gen][n] = @ + 1]
  /\ batch' = [batch EXCEPT !.line = n]
  /\ rows' = [rows EXCEPT ![Here].offset = n]
  /\ UNCHANGED <<disks, watched, nextWid, nextRow, occ, ruleSet, cycleErr, todo, cur,
                 paths, stat, states, passes, faults>>

\* RecordMatch, the first write for a line a rule matched.
CountMatch(n) ==
  /\ pc = "line" /\ NextLine(n)
  /\ \E v \in Verdicts(n) \ {"plain"} : pc' = IF v = "report" THEN "record" ELSE "ack"
  /\ hits' = [hits EXCEPT ![Here][batch.gen][n] = @ + 1]
  /\ batch' = [batch EXCEPT !.line = n]
  /\ UNCHANGED <<disks, watched, rows, nextWid, nextRow, occ, ruleSet, cycleErr, todo,
                 cur, paths, stat, states, passes, faults>>

\* events.Record, one transaction; log_file_id must name a row.
Record ==
  /\ pc = "record"
  /\ IF rows[Here].id = batch.id
     THEN /\ occ' = [occ EXCEPT ![Here][batch.gen][batch.line] = @ + 1]
          /\ pc' = "ack"
          /\ UNCHANGED <<disks, watched, rows, nextWid, nextRow, hits, ruleSet, cycleErr,
                         locals, passes, faults>>
     ELSE CycleFails

\* A slip: the offset is that of the line after.
AckMutant_Beyond == pc = "ack" /\ UpdateOffset(batch.line + 1)
\* A slip: the offset is stored although the event was not.
AckMutant_Early == pc \in {"record", "ack"} /\ UpdateOffset(batch.line)
\* A slip: UpdateOffset is left out after a match.
AckMutant_Lost == /\ pc = "ack" /\ pc' = "line"
                  /\ batch' = [batch EXCEPT !.at = batch.line, !.line = 0]
                  /\ UNCHANGED <<disks, tables, cycleErr, todo, cur, paths, stat, states,
                                 passes, faults>>

Ack == pc = "ack" /\ UpdateOffset(batch.line)

\* A line that was counted but not acknowledged will be gone through again.
Interrupted ==
  IF pc \in {"record", "ack"} THEN Bumped(Here) ELSE UNCHANGED passes

\* Any call may fail (an I/O error, a busy database, a cancelled context), and
\* the process may be killed.
Abort ==
  /\ InCycle /\ faults < MaxFaults
  /\ faults' = faults + 1 /\ Interrupted
  /\ pc' = "idle" /\ cycleErr' = TRUE /\ DropLocals
  /\ UNCHANGED <<disks, tables>>

Crash ==
  /\ InCycle /\ faults < MaxFaults
  /\ faults' = faults + 1 /\ Interrupted
  /\ pc' = "down" /\ cycleErr' = FALSE /\ DropLocals
  /\ UNCHANGED <<disks, tables>>

\* One step of RunCycle, in the order of its code.
Process ==
  \/ BeginCycle \/ EndCycle
  \/ \E w \in Watch : ExpandWatch(w)
  \/ \E p \in Path : StatFile(p) \/ ReadLines(p)
  \/ InsertRow \/ UpdateRow \/ RefreshDone \/ FilesDone \/ LinesDone
  \/ \E n \in Pos : SkipLine(n) \/ CountMatch(n)
  \/ Record \/ Ack

Lifecycle == Start \/ Exit \/ Abort \/ Crash

Next == Environment \/ Operators \/ Process \/ Lifecycle

Spec == Init /\ [][Next]_vars

\* The processor is one goroutine on a ticker: it keeps going while the process is
\* up.  Nothing makes the system start the process, write a log or act as operator.
FairSpec == Spec /\ WF_vars(Process)

-----------------------------------------------------------------------------
(* Properties.                                                             *)

FileType == [kind : {"none", "dir", "file"}, inode : 0 .. MaxGen,
             gen : 0 .. MaxGen, len : 0 .. MaxLen, names : SUBSET Path]
RowType == [id : Nat, inode : 0 .. MaxGen, offset : 0 .. MaxLen]
StatType == [path : Path \cup {0}, inode : 0 .. MaxGen, size : 0 .. MaxLen, row : RowType]
BatchType == [path : Path \cup {0}, id : Nat, gen : 0 .. MaxGen, at : 0 .. MaxLen,
              upto : 0 .. MaxLen, line : 0 .. MaxLen]

DisksOK ==
  /\ disk \in [Path -> FileType]
  /\ nextGen \in 1 .. MaxGen + 1
  /\ \A p \in Path : disk[p].kind = "file" => disk[p].gen \in Gen

TablesOK ==
  /\ watched \in [Watch -> [id : Nat, enabled : BOOLEAN]]
  /\ rows \in [Source -> RowType]
  /\ nextWid \in Nat \ {0} /\ nextRow \in Nat \ {0}
  /\ hits \in [Source -> [Gen -> [Pos -> Nat]]]
  /\ occ \in [Source -> [Gen -> [Pos -> Nat]]]
  /\ ruleSet \in RuleSets

LocalsOK ==
  /\ pc \in {"down", "idle", "watch", "refresh", "upsert", "file", "line", "record", "ack"}
  /\ cycleErr \in BOOLEAN
  /\ todo \in [Watch -> Nat]
  /\ cur \in [w : Watch \cup {0}, id : Nat]
  /\ paths \in SUBSET Path
  /\ stat \in StatType
  /\ states \in [Path -> [id : Nat, offset : 0 .. MaxLen]]
  /\ batch \in BatchType

\* The types of all variables: offsets and sizes within the files, every local in range
\* for the place the processor is at.
TypeOK ==
  /\ DisksOK /\ TablesOK /\ LocalsOK
  /\ passes \in [Source -> Nat] /\ faults \in Nat

\* While files are only removed and renamed, never truncated in place or given back a
\* name they had, and no inode is reused: every line below the offset of a file that is still at its path and
\* that calls for an event has one (refreshFile and processFile lose no line, also
\* when the file is swapped between the stat and the open).
NoSilentSkip ==
  \A s \in Source, n \in Pos :
    LET f == disk[s[2]] IN
    /\ rows[s].id # 0 /\ f.kind = "file" /\ f.inode = rows[s].inode
    /\ n <= rows[s].offset /\ n <= f.len /\ Script[f.gen][n] = "report"
    => occ[s][f.gen][n] > 0

\* However files rotate and calls fail: a line is matched, and recorded, at most once
\* per pass over its file, and a pass begins only with a new row, with a rotation that
\* gives up a non-zero offset, or where a crash or an error cut in between RecordMatch
\* and UpdateOffset (processFile).
OncePerPass ==
  \A s \in Source, g \in Gen, n \in Pos : occ[s][g][n] <= hits[s][g][n]
                                          /\ hits[s][g][n] <= passes[s]

\* The foreign key and its cascade hold between a cycle that still works from the list
\* it read and a logs.remove in the middle of it: no file row outlives its log.
NoOrphans == \A s \in Source : rows[s].id # 0 => watched[s[1]].id # 0

\* The promise of LineDelivery, with a cursor for every row of log_files.  As the
\* rows go with their log, nothing is recorded for a log once logs.remove returned.
Delivery == INSTANCE LineDelivery WITH
  Text <- Script,
  cursor <- [s \in Source |-> IF rows[s].id = 0 THEN -1 ELSE rows[s].offset],
  count <- occ

DeliverySpec == Delivery!Spec

\* A line that calls for an event.
Owed(w, p, g, n) ==
  /\ ruleSet = "ok" /\ watched[w].enabled /\ p \in Expand[w]
  /\ disk[p].kind = "file" /\ disk[p].gen = g /\ n <= disk[p].len
  /\ Script[g][n] = "report"

\* Such a line gets its event, unless its file, its log or the rules go away first or
\* the daemon stops: RunCycle reaches every file of every log again and again.
EventuallyRecorded ==
  \A s \in Source, g \in Gen, n \in Pos :
    Owed(s[1], s[2], g, n)
      ~> (occ[s][g][n] > 0 \/ ~Owed(s[1], s[2], g, n) \/ pc = "down")

\* What a cycle has before it: logs; the phases of one log; its files, first to refresh
\* and then to read; what was read of a file; the writes for one line.
LogsAhead == {w \in Watch : todo[w] # 0}
Phase == IF pc \in {"refresh", "upsert"} THEN 2 ELSE IF pc = "watch" THEN 0 ELSE 1
FilesAhead == IF Phase = 2 THEN paths ELSE {p \in Path : states[p].id # 0}
LinesAhead == IF pc \in {"line", "record", "ack"} /\ batch.at < batch.upto
              THEN batch.upto - batch.at ELSE 0
WritesAhead == IF pc = "line" THEN 3 ELSE IF pc = "record" THEN 2
               ELSE IF pc \in {"ack", "upsert"} THEN 1 ELSE 0

Shrinks(S, T) == T \subseteq S /\ T # S

\* Lexicographically less is before the cycle.
Advances ==
  \/ Shrinks(LogsAhead, LogsAhead')
  \/ /\ LogsAhead' = LogsAhead
     /\ \/ Phase' < Phase
        \/ /\ Phase' = Phase
           /\ \/ Shrinks(FilesAhead, FilesAhead')
              \/ /\ FilesAhead' = FilesAhead
                 /\ \/ LinesAhead' < LinesAhead
                    \/ LinesAhead' = LinesAhead /\ WritesAhead' < WritesAhead

\* A cycle ends if its calls do (RunCycle): each of its steps leaves less before it, and
\* nothing that happens between them leaves more, however files grow, rotate or appear
\* under the globs, and whatever logs are added.  No log keeps it from the others.
CycleProgress == [][InCycle /\ InCycle' => Advances \/ UNCHANGED <<pc, locals>>]_vars
=============================================================================
