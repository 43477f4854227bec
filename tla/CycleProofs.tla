----------------------------- MODULE CycleProofs -----------------------------
(***************************************************************************)
(* What a cycle of RunCycle does as a whole.                               *)
(*                                                                         *)
(* CleanCycleCatchesUp, for every instance of CycleHistory where files are *)
(* created, appended to, removed and renamed, whatever else happens during *)
(* the cycle.  The argument is CatchUp: a line that is still due has its   *)
(* log, its file or itself ahead of the processor, or was recorded.  The   *)
(* offset it is read from is that of its own generation (SwapInv), so what *)
(* lies below the offset was recorded too.                                 *)
(*                                                                         *)
(* CycleProgress, for every instance of LogIngest.                         *)
(***************************************************************************)
EXTENDS CycleHistory, LogSwapProofs, WellFoundedInduction

\* A line that is due: its log and file, and what Owed says of them.
LEMMA LineParts ==
  ASSUME TypeOK, NEW l \in Lines
  PROVE  /\ l[1] \in Watch /\ l[2] \in Path /\ l[3] \in Gen /\ l[4] \in Pos
         /\ <<l[1], l[2]>> \in Source /\ l[1] # 0 /\ l[2] # 0
         /\ ruleSet = "ok" /\ watched[l[1]].enabled /\ l[2] \in Expand[l[1]]
         /\ disk[l[2]].kind = "file" /\ disk[l[2]].gen = l[3] /\ l[4] <= disk[l[2]].len
         /\ Script[l[3]][l[4]] = "report"
<1>1. l[1] \in Watch /\ l[2] \in Path /\ l[3] \in Gen /\ l[4] \in Pos
  BY DEF Lines
<1>2. Owed(l[1], l[2], l[3], l[4])
  BY DEF Lines
<1>3. l[1] # 0 /\ l[2] # 0
  BY <1>1, WatchAssumption, PathAssumption
<1>4. <<l[1], l[2]>> \in Source
  BY <1>1 DEF Source
<1> QED BY <1>1, <1>2, <1>3, <1>4 DEF Owed

\* What the lemmas below keep for each line.
Fine(l) == (ToGo(l) \/ Recorded(l)) /\ RowIsOf(l)

LEMMA RecordedKept ==
  ASSUME TypeOK, Located, [Next]_vars, NEW l \in Lines, Recorded(l)
  PROVE  Recorded(l)'
<1>1. PICK s \in Source, g \in Gen, n \in Pos : s = <<l[1], l[2]>> /\ g = l[3] /\ n = l[4]
  BY LineParts
<1> QED BY <1>1, OccurrencesKept DEF Recorded

\* A remove ends what is due of its log; no other step but those of the processor
\* touches a row.
LEMMA RowStays ==
  ASSUME TypeOK, TypeOK', Environment \/ Operators \/ Start \/ Exit \/ UNCHANGED vars,
         NEW l \in Lines'
  PROVE  rows'[<<l[1], l[2]>>] = rows[<<l[1], l[2]>>] /\ UNCHANGED <<todo, paths>>
<1>1. l[1] \in Watch /\ l[2] \in Path /\ watched'[l[1]].enabled
  BY WatchAssumption DEF Lines, Owed
<1>2. CASE \E w \in Watch : Remove(w)
  <2>1. PICK w \in Watch : Remove(w)
    BY <1>2
  <2>2. ~watched'[w].enabled
    BY <2>1 DEF Remove, TypeOK, TablesOK
  <2>3. w # l[1]
    BY <1>1, <2>2
  <2> QED BY <1>1, <2>1, <2>3 DEF Remove, Source, locals
<1>3. CASE ~\E w \in Watch : Remove(w)
  BY <1>3 DEF Environment, Operators, CreateFile, Append, RemoveFile, TruncateFile, MakeDir,
     RenameFile, Add, Disable, EditRules, Start, Exit, tables, locals, vars
<1> QED BY <1>2, <1>3

LEMMA OthersKeep ==
  ASSUME TypeOK, TypeOK', Environment \/ Operators \/ Start \/ Exit \/ UNCHANGED vars,
         NEW l \in Lines', Fine(l), InCycle'
  PROVE  InCycle /\ Fine(l)'
<1>1. UNCHANGED <<cur, stat, states, batch, occ, todo, paths, pc>> /\ InCycle
  BY Undisturbed, RowStays DEF InCycle
<1>2. rows'[<<l[1], l[2]>>] = rows[<<l[1], l[2]>>]
  BY RowStays
<1> QED BY <1>1, <1>2 DEF Fine, ToGo, Recorded, RowIsOf, Reading, Working

\* A cycle begins with every log that has something due.
LEMMA BeginKeeps ==
  ASSUME TypeOK, BeginCycle, InCycle', NEW l \in Lines,
         \A w \in Watch : watched[w].enabled => watched[w].id # 0
  PROVE  Fine(l)'
<1>1. l[1] \in Watch /\ watched[l[1]].enabled
  BY LineParts
<1>2. pc' = "watch" /\ todo' = [w \in Watch |-> IF watched[w].enabled THEN watched[w].id ELSE 0]
  BY DEF BeginCycle, InCycle
<1>3. todo'[l[1]] # 0
  BY <1>1, <1>2
<1> QED BY <1>2, <1>3 DEF Fine, ToGo, RowIsOf, Working, Reading

\* expandPath finds the file.
LEMMA ExpandKeeps ==
  ASSUME TypeOK, Located, NEW w \in Watch, ExpandWatch(w), NEW l \in Lines, Fine(l)
  PROVE  Fine(l)'
<1>1. /\ pc = "watch" /\ pc' = "refresh" /\ cur'.w = w /\ occ' = occ /\ states' = states
      /\ \A v \in Watch : v # w => todo'[v] = todo[v]
      /\ paths' = {p \in Expand[w] : disk[p].kind # "none"}
  BY DEF ExpandWatch, TypeOK, LocalsOK, tables
<1>2. \A p \in Path : states[p].id = 0
  BY <1>1 DEF Located
<1>3. l[1] = w => l[2] \in paths'
  BY <1>1, LineParts
<1>4. ToGo(l) => todo[l[1]] # 0
  BY <1>1, <1>2, LineParts DEF ToGo, Reading
<1> QED BY <1>1, <1>2, <1>3, <1>4, LineParts
        DEF Fine, ToGo, Recorded, RowIsOf, Working, Reading

\* stat sees the inode of the generation that is on disk.
LEMMA StatKeeps ==
  ASSUME TypeOK, Identity, NEW p \in Path, StatFile(p), pc' # "idle", NEW l \in Lines, Fine(l)
  PROVE  Fine(l)'
<1>1. /\ pc = "refresh" /\ pc' = "upsert" /\ UNCHANGED <<todo, cur, states, rows, occ>>
      /\ paths' = paths \ {p} /\ stat'.path = p /\ stat'.inode = disk[p].inode
      /\ stat'.row = rows[<<cur.w, p>>]
  BY DEF StatFile, CycleFails, tables
<1>2. (ToGo(l) \/ Recorded(l))'
  BY <1>1, LineParts DEF Fine, ToGo, Recorded, Reading
<1>3. l[2] = p => disk[p].inode = l[3]
  BY LineParts DEF Identity
<1> QED BY <1>1, <1>2, <1>3 DEF Fine, RowIsOf, Working, Reading

\* The row is that of the inode that stat saw; the file waits to be read.
LEMMA RefreshKeeps ==
  ASSUME TypeOK, Located, Current, InsertRow \/ UpdateRow, pc' # "idle",
         NEW l \in Lines, Fine(l)
  PROVE  Fine(l)'
<1>1. PICK t \in Source : t = <<cur.w, stat.path>>
  BY DEF InsertRow, UpdateRow, Located, Working, Source
<1>2. /\ pc = "upsert" /\ pc' = "refresh" /\ UNCHANGED <<todo, cur, paths, occ>>
      /\ states' = [states EXCEPT ![stat.path] = states'[stat.path]]
      /\ \A u \in Source : u # t => rows'[u] = rows[u]
  <2>1. CASE InsertRow
    BY <1>1, <2>1, InsertRowEffect DEF InsertRow, Refreshed, CycleFails, TypeOK, LocalsOK
  <2>2. CASE UpdateRow
    BY <1>1, <2>2, UpdateRowEffect DEF UpdateRow, Refreshed, TypeOK, LocalsOK
  <2> QED BY <2>1, <2>2
<1>3. CASE <<l[1], l[2]>> # t
  BY <1>1, <1>2, <1>3, LineParts DEF Fine, ToGo, Recorded, RowIsOf, Working, Reading,
     TypeOK, LocalsOK
<1>4. CASE <<l[1], l[2]>> = t
  <2>1. l[1] = cur.w /\ l[2] = stat.path /\ stat.inode = l[3]
    BY <1>1, <1>2, <1>4 DEF Fine, RowIsOf
  <2>2. states'[l[2]].id # 0 /\ rows'[t].id # 0 /\ rows'[t].inode = l[3]
    <3>1. CASE InsertRow
      BY <1>1, <2>1, <3>1, InsertRowEffect DEF InsertRow, CycleFails
    <3>2. CASE UpdateRow
      <4>1. rows[t].id # 0 /\ stat.row.id # 0
        BY <1>1, <1>2, <1>4, <2>1, <3>2 DEF Fine, RowIsOf, UpdateRow
      <4>2. rows[t].id = stat.row.id
        BY <1>1, <1>2, <4>1 DEF Current, RowAsRead
      <4> QED BY <1>1, <2>1, <3>2, <4>1, <4>2, UpdateRowEffect
    <3> QED BY <3>1, <3>2
  <2> QED BY <1>1, <1>2, <1>4, <2>1, <2>2 DEF Fine, ToGo, RowIsOf, Working, Reading
<1> QED BY <1>3, <1>4

\* The glob's paths were all refreshed, or the files all read.
LEMMA DoneKeeps ==
  ASSUME TypeOK, RefreshDone \/ FilesDone, NEW l \in Lines, Fine(l)
  PROVE  Fine(l)'
<1>1. CASE RefreshDone
  BY <1>1 DEF RefreshDone, Fine, ToGo, Recorded, RowIsOf, Working, Reading, locals, tables
<1>2. CASE FilesDone
  BY <1>2, LineParts DEF FilesDone, Fine, ToGo, Recorded, RowIsOf, Working, Reading, tables
<1> QED BY <1>1, <1>2

\* The file is there, and is read beyond every line that is due.
LEMMA ReadKeeps ==
  ASSUME TypeOK, Located, NEW p \in Path, ReadLines(p), pc' # "idle", NEW l \in Lines, Fine(l)
  PROVE  Fine(l)'
<1>1. pc = "file" /\ \A q \in Path : q # p => states'[q] = states[q]
  BY DEF ReadLines, CycleFails, TypeOK, LocalsOK
<1>2. UNCHANGED <<todo, cur, rows, occ>> /\ pc' \in {"file", "line"}
  BY <1>1 DEF ReadLines, CycleFails, tables
<1>3. CASE cur.w = l[1] /\ p = l[2]
  <2>1. /\ states[p].id # 0 /\ pc' = "line" /\ batch'.path = p /\ batch'.gen = disk[p].gen
        /\ batch'.upto = disk[p].len
    BY <1>3, LineParts, ReadLinesEffect
  <2> QED BY <1>1, <1>2, <1>3, <2>1, LineParts
          DEF Fine, ToGo, RowIsOf, Working, Reading
<1>4. CASE ~(cur.w = l[1] /\ p = l[2])
  <2>1. batch' = batch \/ batch'.path = p
    BY <1>1 DEF ReadLines, CycleFails
  <2>2. pc' = "line" => batch'.path = p
    BY <1>1 DEF ReadLines, CycleFails
  <2> QED BY <1>1, <1>2, <1>4, <2>1, <2>2, LineParts
          DEF Fine, ToGo, Recorded, RowIsOf, Working, Reading
<1> QED BY <1>3, <1>4

\* Where no line is left, every position that was read is below the offset or ends no
\* line: of those that do, the first would be the next.
LEMMA NothingLeft ==
  ASSUME TypeOK, \A n \in Pos : ~NextLine(n)
  PROVE  \A n \in Pos : batch.at < n /\ n <= batch.upto => Script[batch.gen][n] = "part"
<1> DEFINE S == {n \in Pos : batch.at < n /\ n <= batch.upto
                              /\ Script[batch.gen][n] # "part"}
<1> SUFFICES ASSUME S # {} PROVE FALSE
  OBVIOUS
<1>1. S \subseteq Nat
  BY DEF Pos
<1>2. PICK n \in S : \A m \in S : ~(m < n)
  <2>1. PICK n \in S : \A m \in S : ~(<<m, n>> \in OpToRel(<, Nat))
    BY <1>1, NatLessThanWellFounded, WFMin, Zenon
  <2> QED BY <1>1, <2>1 DEF OpToRel
<1>3. n \in Pos /\ batch.at \in Nat /\ batch.upto \in Nat
  BY DEF TypeOK, LocalsOK, BatchType
<1>4. NextLine(n)
  BY <1>1, <1>2, <1>3 DEF NextLine, Pos
<1> QED BY <1>3, <1>4

\* The end of a batch: what was below the offset is accounted for by SwapInv.
LEMMA LinesDoneKeeps ==
  ASSUME TypeOK, Located, NothingSkipped, LinesDone, NEW l \in Lines, Fine(l)
  PROVE  Fine(l)'
<1>1. /\ pc = "line" /\ pc' = "file" /\ UNCHANGED <<todo, cur, states, rows, occ>>
      /\ \A n \in Pos : ~NextLine(n)
  BY DEF LinesDone, tables
<1>2. CASE cur.w = l[1] /\ batch.path = l[2] /\ batch.gen = l[3] /\ l[4] <= batch.upto
  <2>1. rows[Here].id # 0 /\ rows[Here].inode = batch.gen /\ Here = <<l[1], l[2]>>
    BY <1>1, <1>2 DEF Fine, RowIsOf, Working, Reading, Here
  <2>2. Done(Here, batch.gen, batch.at)
    BY <1>1, <2>1 DEF NothingSkipped, Reading
  <2>3. PICK n \in Pos : n = l[4]
    BY LineParts
  <2>4. n <= batch.at
    <3>1. n \in Nat /\ batch.at \in Nat
      BY DEF TypeOK, LocalsOK, BatchType, Pos
    <3>2. ~(batch.at < n)
      BY <1>1, <1>2, <2>3, NothingLeft, LineParts
    <3> QED BY <3>1, <3>2
  <2>5. Recorded(l)
    BY <1>2, <2>1, <2>2, <2>3, <2>4, LineParts DEF Done, Recorded
  <2> QED BY <1>1, <2>5 DEF Fine, Recorded, RowIsOf, Working, Reading
<1>3. CASE ~(cur.w = l[1] /\ batch.path = l[2] /\ batch.gen = l[3] /\ l[4] <= batch.upto)
  BY <1>1, <1>3 DEF Fine, ToGo, Recorded, RowIsOf, Working, Reading
<1> QED BY <1>2, <1>3

\* A line of the batch is matched, recorded or passed; the batch and its row stay.
BatchStays ==
  /\ Reading' /\ UNCHANGED <<todo, cur, states>>
  /\ batch'.path = batch.path /\ batch'.gen = batch.gen /\ batch'.upto = batch.upto
  /\ \A s \in Source : rows'[s].id = rows[s].id /\ rows'[s].inode = rows[s].inode

LEMMA BatchStaysWhile ==
  ASSUME TypeOK, Located, pc' # "idle",
         Record \/ Ack \/ \E n \in Pos : SkipLine(n) \/ CountMatch(n)
  PROVE  Reading /\ BatchStays
<1>1. ASSUME NEW n \in Pos, Reading, UpdateOffset(n)
      PROVE  BatchStays
  <2>1. rows[Here].id = batch.id
    BY <1>1 DEF UpdateOffset, CycleFails
  <2>2. UNCHANGED <<todo, cur, states>>
    BY <1>1, <2>1 DEF UpdateOffset
  <2> QED BY <1>1, <2>1, <2>2, UpdateOffsetEffect DEF BatchStays, Reading
<1>2. CASE Ack
  <2>1. Reading /\ batch.line \in Pos
    BY <1>2 DEF Ack, Reading, Located
  <2> QED BY <1>1, <1>2, <2>1 DEF Ack
<1>3. ASSUME NEW n \in Pos, SkipLine(n)
      PROVE  Reading /\ BatchStays
  BY <1>1, <1>3 DEF SkipLine, Reading
<1>4. ASSUME NEW n \in Pos, CountMatch(n)
      PROVE  Reading /\ BatchStays
  <2>1. UNCHANGED <<todo, rows>>
    BY <1>4 DEF CountMatch
  <2> QED BY <1>4, <2>1, CountMatchEffect DEF BatchStays, Reading
<1>5. CASE Record
  <2>1. rows[Here].id = batch.id /\ UNCHANGED todo
    BY <1>5 DEF Record, CycleFails, locals
  <2> QED BY <1>5, <2>1, RecordEffect DEF BatchStays, Reading
<1> QED BY <1>2, <1>3, <1>4, <1>5

LEMMA LineKeeps ==
  ASSUME TypeOK, Located, [Next]_vars, pc' # "idle", NEW l \in Lines, Fine(l),
         Record \/ Ack \/ \E n \in Pos : SkipLine(n) \/ CountMatch(n)
  PROVE  Fine(l)'
<1>1. Reading /\ BatchStays
  BY BatchStaysWhile
<1>2. ToGo(l) => ToGo(l)'
  BY <1>1 DEF BatchStays, ToGo, Reading
<1>3. RowIsOf(l)'
  BY <1>1, LineParts DEF BatchStays, Fine, RowIsOf, Reading, Working
<1> QED BY <1>2, <1>3, RecordedKept DEF Fine

\* Every step keeps what is still due.
LEMMA StepKeeps ==
  ASSUME SwapOnly, IInv, IInv', SwapInv, [Next]_vars, NEW l \in Lines, l \in Lines',
         InCycle, InCycle', Fine(l)
  PROVE  Fine(l)'
<1>1. TypeOK /\ TypeOK' /\ Located /\ Current /\ Identity /\ NothingSkipped
  BY DEF IInv, SwapInv
<1>2. pc' # "idle" /\ pc' # "down" /\ pc # "idle"
  BY DEF InCycle
<1>3. CASE Environment \/ Operators \/ Start \/ Exit \/ UNCHANGED vars
  BY <1>1, <1>3, OthersKeep
<1>4. CASE Abort \/ Crash \/ BeginCycle \/ EndCycle
  BY <1>2, <1>4 DEF Abort, Crash, BeginCycle, EndCycle
<1>5. ASSUME NEW w \in Watch, ExpandWatch(w)
      PROVE  Fine(l)'
  BY <1>1, <1>5, ExpandKeeps
<1>6. ASSUME NEW p \in Path, StatFile(p)
      PROVE  Fine(l)'
  BY <1>1, <1>2, <1>6, StatKeeps
<1>7. ASSUME NEW p \in Path, ReadLines(p)
      PROVE  Fine(l)'
  BY <1>1, <1>2, <1>7, ReadKeeps
<1>8. CASE InsertRow \/ UpdateRow
  BY <1>1, <1>2, <1>8, RefreshKeeps
<1>9. CASE RefreshDone \/ FilesDone
  BY <1>1, <1>9, DoneKeeps
<1>10. CASE LinesDone
  BY <1>1, <1>10, LinesDoneKeeps
<1>11. CASE Record \/ Ack \/ \E n \in Pos : SkipLine(n) \/ CountMatch(n)
  BY <1>1, <1>2, <1>11, LineKeeps
<1> QED BY <1>3, <1>4, <1>5, <1>6, <1>7, <1>8, <1>9, <1>10, <1>11
        DEF Next, Process, Lifecycle

\* Nobody enables a log that has no row.
LEMMA EnabledKept ==
  ASSUME TypeOK, [Next]_vars, \A w \in Watch : watched[w].enabled => watched[w].id # 0
  PROVE  \A w \in Watch : watched'[w].enabled => watched'[w].id # 0
<1>1. ASSUME NEW w \in Watch, Add(w) \/ Remove(w) \/ Disable(w)
      PROVE  \A v \in Watch : watched'[v].enabled => watched'[v].id # 0
  BY <1>1 DEF Add, Remove, Disable, TypeOK, TablesOK
<1>2. CASE ~\E w \in Watch : Add(w) \/ Remove(w) \/ Disable(w)
  <2>1. UNCHANGED watched
    BY <1>2 DEF Next, Process, Lifecycle, Operators, Environment, CreateFile, Append,
       RemoveFile, TruncateFile, MakeDir, RenameFile, EditRules, Start, Exit, Abort, Crash,
       BeginCycle, EndCycle, ExpandWatch, StatFile, ReadLines, InsertRow, UpdateRow,
       Refreshed, RefreshDone, FilesDone, LinesDone, SkipLine, CountMatch, Record, Ack,
       UpdateOffset, CycleFails, tables, vars
  <2> QED BY <2>1
<1> QED BY <1>1, <1>2

\* The one way into a cycle.
LEMMA CycleBegins ==
  ASSUME TypeOK, [Next]_vars, ~InCycle, InCycle'
  PROVE  BeginCycle /\ pc = "idle" /\ pc' = "watch"
<1>1. pc \in {"down", "idle"} /\ pc' \notin {"down", "idle"}
  BY DEF InCycle
<1>2. CASE Environment \/ Operators \/ UNCHANGED vars
  <2>1. pc' = pc
    BY <1>2 DEF Operators, Environment, CreateFile, Append, RemoveFile, TruncateFile, MakeDir,
       RenameFile, Add, Remove, Disable, EditRules, vars
  <2> QED BY <1>1, <2>1
<1>3. CASE Lifecycle
  BY <1>1, <1>3 DEF Lifecycle, Start, Exit, Abort, Crash
<1>4. CASE Process
  BY <1>1, <1>4 DEF Process, BeginCycle, EndCycle, ExpandWatch, StatFile, ReadLines,
     InsertRow, UpdateRow, RefreshDone, FilesDone, LinesDone, SkipLine, CountMatch, Record, Ack
<1> QED BY <1>2, <1>3, <1>4 DEF Next

LEMMA CatchUpStep ==
  ASSUME SwapOnly, IInv, IInv', SwapInv, CatchUp, [HNext]_hvars
  PROVE  CatchUp'
<1>1. [Next]_vars /\ TypeOK /\ TypeOK'
  BY DEF HNext, hvars, IInv
<1>2. CASE ~InCycle /\ InCycle'
  <2>1. BeginCycle /\ pc = "idle" /\ pc' = "watch"
    BY <1>1, <1>2, CycleBegins
  <2>2. HNext
    BY <2>1 DEF hvars, vars
  <2>3. due' = Lines /\ Lines' = Lines
    BY <2>1, <2>2 DEF HNext, BeginCycle, Lines, Owed, disks, tables
  <2>4. \A l \in Lines : Fine(l)'
    BY <1>1, <1>2, <2>1, BeginKeeps DEF CatchUp
  <2> QED BY <1>1, <2>3, <2>4, EnabledKept DEF CatchUp, Fine
<1>3. CASE ~(~InCycle /\ InCycle')
  <2>1. due' \subseteq due \cap Lines'
    <3>1. CASE UNCHANGED hvars
      BY <3>1 DEF hvars, vars, CatchUp, Lines, Owed, disks, tables
    <3>2. CASE HNext
      BY <1>3, <3>2 DEF HNext, InCycle
    <3> QED BY <3>1, <3>2
  <2>2. ASSUME InCycle', NEW l \in due' PROVE Fine(l)'
    <3>1. l \in Lines /\ l \in Lines' /\ InCycle /\ Fine(l)
      BY <1>3, <2>1, <2>2 DEF CatchUp, Fine
    <3> QED BY <1>1, <2>2, <3>1, StepKeeps
  <2> QED BY <1>1, <2>1, <2>2, EnabledKept DEF CatchUp, Fine
<1> QED BY <1>2, <1>3

\* In the middle of a cycle nothing that was due at its beginning has been passed over:
\* refreshFile, ReadCompleteLines and the loops of RunCycle between them come to every
\* line or have recorded it, with files renamed and removed and logs added and removed
\* at any point.
THEOREM CatchUpInvariance ==
  ASSUME SwapOnly
  PROVE  HSpec => []CatchUp
<1>1. HInit => CatchUp
  BY DEF HInit, Init, CatchUp, InCycle
<1>2. IInv /\ IInv' /\ SwapInv /\ CatchUp /\ [HNext]_hvars => CatchUp'
  BY CatchUpStep
<1>3. HInit => Init
  BY DEF HInit
<1>4. [HNext]_hvars => [Next]_vars
  BY DEF HNext, hvars
<1>5. Spec => []IInv
  BY Invariance
<1>6. Spec => []SwapInv
  BY SwapInvariance
<1> QED BY <1>1, <1>2, <1>3, <1>4, <1>5, <1>6, PTL DEF HSpec, Spec

\* A cycle that ends without an error has recorded every line that was due when it
\* began and still is (RunCycle, runProcessor): the status request never reports as
\* healthy a cycle that left a line of an enabled log behind.
THEOREM CaughtUp ==
  ASSUME SwapOnly
  PROVE  HSpec => CleanCycleCatchesUp
<1>1. ASSUME TypeOK, Located, CatchUp, [HNext]_hvars
      PROVE  [pc = "watch" /\ pc' = "idle" /\ ~cycleErr' => \A l \in due : Recorded(l)]_hvars
  <2>1. SUFFICES ASSUME HNext, pc = "watch", pc' = "idle", ~cycleErr', NEW l \in due
                 PROVE  Recorded(l)
    BY <1>1
  <2>2. l \in Lines /\ (ToGo(l) \/ Recorded(l))
    BY <1>1, <2>1 DEF CatchUp, InCycle
  <2>3. \A w \in Watch : todo[w] = 0
    BY <2>1 DEF HNext, Next, Process, Lifecycle, Environment, Operators, CreateFile, Append,
       RemoveFile, TruncateFile, MakeDir, RenameFile, Add, Remove, Disable, EditRules, Start,
       Exit, Abort, Crash, BeginCycle, EndCycle, ExpandWatch, StatFile, ReadLines, InsertRow,
       UpdateRow, RefreshDone, FilesDone, LinesDone, SkipLine, CountMatch, Record, Ack
  <2>4. ~ToGo(l)
    BY <1>1, <2>1, <2>2, <2>3, LineParts DEF ToGo, Located, Reading
  <2> QED BY <2>2, <2>4
<1>2. HInit => Init
  BY DEF HInit
<1>3. [HNext]_hvars => [Next]_vars
  BY DEF HNext, hvars
<1>4. IInv => TypeOK /\ Located
  BY DEF IInv
<1>5. Spec => []IInv
  BY Invariance
<1> QED BY <1>1, <1>2, <1>3, <1>4, <1>5, CatchUpInvariance, PTL
        DEF HSpec, Spec, CleanCycleCatchesUp

-----------------------------------------------------------------------------
(* CycleProgress.                                                            *)

\* What is done to the files and the database leaves the processor where it is.
LEMMA OthersWait ==
  ASSUME Environment \/ Operators \/ UNCHANGED vars
  PROVE  UNCHANGED <<pc, locals>>
BY DEF Environment, Operators, CreateFile, Append, RemoveFile, TruncateFile, MakeDir,
   RenameFile, Add, Remove, Disable, EditRules, vars

\* The next log.
LEMMA ExpandAdvances ==
  ASSUME TypeOK, NEW w \in Watch, ExpandWatch(w)
  PROVE  Advances
<1>1. todo[w] # 0 /\ todo' = [todo EXCEPT ![w] = 0]
  BY DEF ExpandWatch, First
<1>2. w \in LogsAhead /\ w \notin LogsAhead' /\ LogsAhead' \subseteq LogsAhead
  BY <1>1 DEF LogsAhead, TypeOK, LocalsOK
<1> QED BY <1>2 DEF Advances, Shrinks

\* The next phase of a log.
LEMMA PhaseAdvances ==
  ASSUME RefreshDone \/ FilesDone
  PROVE  Advances
<1>1. todo' = todo /\ ((pc = "refresh" /\ pc' = "file") \/ (pc = "file" /\ pc' = "watch"))
  BY DEF RefreshDone, FilesDone, locals
<1>2. LogsAhead' = LogsAhead /\ Phase' < Phase
  BY <1>1 DEF LogsAhead, Phase
<1> QED BY <1>2 DEF Advances

\* The next file, to refresh or to read.
LEMMA FileAdvances ==
  ASSUME TypeOK, NEW p \in Path, StatFile(p) \/ ReadLines(p), InCycle'
  PROVE  Advances
<1>1. CASE StatFile(p)
  <2>1. /\ pc = "refresh" /\ pc' = "upsert" /\ todo' = todo
        /\ p \in paths /\ paths' = paths \ {p}
    BY <1>1 DEF StatFile, First, CycleFails, InCycle
  <2>2. LogsAhead' = LogsAhead /\ Phase' = Phase /\ FilesAhead = paths /\ FilesAhead' = paths'
    BY <2>1 DEF LogsAhead, Phase, FilesAhead
  <2> QED BY <2>1, <2>2 DEF Advances, Shrinks
<1>2. CASE ReadLines(p)
  <2>1. /\ pc = "file" /\ pc' \in {"file", "line"} /\ todo' = todo
        /\ states[p].id # 0 /\ states' = [states EXCEPT ![p] = NoState]
    BY <1>2 DEF ReadLines, First, CycleFails, InCycle
  <2>2. LogsAhead' = LogsAhead /\ Phase' = Phase /\ Phase = 1
    BY <2>1 DEF LogsAhead, Phase
  <2>3. p \in FilesAhead /\ p \notin FilesAhead' /\ FilesAhead' \subseteq FilesAhead
    BY <2>1, <2>2 DEF FilesAhead, NoState, TypeOK, LocalsOK
  <2> QED BY <2>2, <2>3 DEF Advances, Shrinks
<1> QED BY <1>1, <1>2

\* The row of a file was written.
LEMMA RefreshAdvances ==
  ASSUME InsertRow \/ UpdateRow, InCycle'
  PROVE  Advances
<1>1. pc = "upsert" /\ pc' = "refresh" /\ todo' = todo /\ paths' = paths
  BY DEF InsertRow, UpdateRow, Refreshed, CycleFails, InCycle
<1>2. /\ LogsAhead' = LogsAhead /\ Phase' = Phase /\ FilesAhead' = FilesAhead
      /\ LinesAhead = 0 /\ LinesAhead' = 0 /\ WritesAhead = 1 /\ WritesAhead' = 0
  BY <1>1 DEF LogsAhead, Phase, FilesAhead, LinesAhead, WritesAhead
<1> QED BY <1>2 DEF Advances

\* A write for a line, the line, or the batch is done.
LEMMA LineAdvances ==
  ASSUME TypeOK, Located, InCycle',
         LinesDone \/ Record \/ Ack \/ \E n \in Pos : SkipLine(n) \/ CountMatch(n)
  PROVE  Advances
<1>1. /\ pc \in {"line", "record", "ack"} /\ pc' \in {"line", "record", "ack", "file"}
      /\ todo' = todo /\ states' = states
  BY DEF LinesDone, Record, Ack, SkipLine, CountMatch, UpdateOffset, CycleFails, InCycle, locals
<1>2. LogsAhead' = LogsAhead /\ Phase' = Phase /\ FilesAhead' = FilesAhead
  BY <1>1 DEF LogsAhead, Phase, FilesAhead
<1>3. batch.at \in Nat /\ batch.upto \in Nat
  BY DEF TypeOK, LocalsOK, BatchType
<1>4. ASSUME NEW n \in Pos, NextLine(n), UpdateOffset(n)
      PROVE  LinesAhead' < LinesAhead
  <2>1. n \in Nat /\ batch.at < n /\ n <= batch.upto
    BY <1>4 DEF NextLine, Pos
  <2>2. batch'.at = n /\ batch'.upto = batch.upto
    BY <1>4 DEF UpdateOffset, CycleFails, InCycle, TypeOK, LocalsOK, BatchType
  <2>3. LinesAhead = batch.upto - batch.at
    BY <1>1, <1>3, <2>1 DEF LinesAhead
  <2>4. LinesAhead' \in {batch.upto - n, 0}
    BY <2>2 DEF LinesAhead
  <2> QED BY <1>3, <2>1, <2>3, <2>4
<1>5. CASE Ack \/ \E n \in Pos : SkipLine(n)
  <2>1. PICK n \in Pos : NextLine(n) /\ UpdateOffset(n)
    BY <1>5 DEF Ack, SkipLine, Located
  <2> QED BY <1>2, <1>4, <2>1 DEF Advances
<1>6. CASE Record \/ \E n \in Pos : CountMatch(n)
  <2>1. /\ batch'.at = batch.at /\ batch'.upto = batch.upto
        /\ \/ pc = "record" /\ pc' = "ack"
           \/ pc = "line" /\ pc' \in {"record", "ack"}
    BY <1>6 DEF Record, CountMatch, CycleFails, InCycle, locals, TypeOK, LocalsOK, BatchType
  <2>2. LinesAhead' = LinesAhead /\ WritesAhead' < WritesAhead
    BY <2>1 DEF LinesAhead, WritesAhead
  <2> QED BY <1>2, <2>2 DEF Advances
<1>7. CASE LinesDone
  <2>1. pc = "line" /\ pc' = "file"
    BY <1>7 DEF LinesDone
  <2>2. LinesAhead' = 0 /\ WritesAhead' = 0 /\ WritesAhead = 3
    BY <2>1 DEF LinesAhead, WritesAhead
  <2>3. LinesAhead \in Nat
    BY <1>3 DEF LinesAhead
  <2> QED BY <1>2, <2>2, <2>3 DEF Advances
<1> QED BY <1>5, <1>6, <1>7

\* Each step of a cycle leaves less before it, for any number and content of files and
\* logs, and nobody else leaves more: as the logs and the files of each are finite, a
\* cycle ends after finitely many steps of its own.
THEOREM CycleAdvances == Spec => CycleProgress
<1>1. ASSUME IInv, [Next]_vars
      PROVE  [InCycle /\ InCycle' => Advances \/ UNCHANGED <<pc, locals>>]_vars
  <2> SUFFICES ASSUME InCycle, InCycle'
               PROVE  Advances \/ UNCHANGED <<pc, locals>>
    OBVIOUS
  <2>1. TypeOK /\ Located
    BY <1>1 DEF IInv
  <2>2. CASE Environment \/ Operators \/ UNCHANGED vars
    BY <2>2, OthersWait
  <2>3. CASE Lifecycle \/ BeginCycle \/ EndCycle
    BY <2>3 DEF Lifecycle, Start, Exit, Abort, Crash, BeginCycle, EndCycle, InCycle
  <2>4. CASE \E w \in Watch : ExpandWatch(w)
    BY <2>1, <2>4, ExpandAdvances
  <2>5. CASE \E p \in Path : StatFile(p) \/ ReadLines(p)
    BY <2>1, <2>5, FileAdvances
  <2>6. CASE InsertRow \/ UpdateRow \/ RefreshDone \/ FilesDone
    BY <2>6, RefreshAdvances, PhaseAdvances
  <2>7. CASE LinesDone \/ Record \/ Ack \/ \E n \in Pos : SkipLine(n) \/ CountMatch(n)
    BY <2>1, <2>7, LineAdvances
  <2> QED BY <1>1, <2>2, <2>3, <2>4, <2>5, <2>6, <2>7 DEF Next, Process
<1> QED BY <1>1, Invariance, PTL DEF Spec, CycleProgress
=============================================================================
