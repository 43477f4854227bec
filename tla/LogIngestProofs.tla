--------------------------- MODULE LogIngestProofs ---------------------------
(***************************************************************************)
(* Theorems about LogIngest, for every set of watched logs and files, every *)
(* content and every bound: type correctness, OncePerPass, NoOrphans and   *)
(* the refinement of LineDelivery, in any environment.                     *)
(***************************************************************************)
EXTENDS LogIngestInv, TLAPS

USE WatchAssumption, PathAssumption, ExpandAssumption, BoundAssumption,
    ScriptAssumption, RuleSetsAssumption

-----------------------------------------------------------------------------
(* What the updates of one counter and of one column do to their tables.   *)

\* One more in a counter of hits or occ: that counter grows by one, no other changes.
LEMMA CountUp ==
  ASSUME NEW S, NEW G, NEW P, NEW f \in [S -> [G -> [P -> Nat]]],
         NEW s \in S, NEW g \in G, NEW n \in P
  PROVE  LET h == [f EXCEPT ![s][g][n] = @ + 1] IN
         /\ h \in [S -> [G -> [P -> Nat]]]
         /\ h[s][g][n] = f[s][g][n] + 1
         /\ \A s2 \in S, g2 \in G, n2 \in P :
              <<s2, g2, n2>> # <<s, g, n>> => h[s2][g2][n2] = f[s2][g2][n2]
<1> DEFINE row == [f[s][g] EXCEPT ![n] = f[s][g][n] + 1]
           tab == [f[s] EXCEPT ![g] = row]
<1>1. f[s] \in [G -> [P -> Nat]] /\ f[s][g] \in [P -> Nat]
  OBVIOUS
<1>2. row \in [P -> Nat]
  BY <1>1
<1>3. tab \in [G -> [P -> Nat]]
  BY <1>1, <1>2
<1>4. [f EXCEPT ![s] = tab] \in [S -> [G -> [P -> Nat]]]
  BY <1>3
<1>5. [f EXCEPT ![s][g][n] = @ + 1] = [f EXCEPT ![s] = tab]
  OBVIOUS
<1>6. row[n] = f[s][g][n] + 1 /\ \A n2 \in P : n2 # n => row[n2] = f[s][g][n2]
  BY <1>1
<1>7. tab[g] = row /\ \A g2 \in G : g2 # g => tab[g2] = f[s][g2]
  BY <1>1
<1> QED
  BY <1>4, <1>5, <1>6, <1>7

\* UPDATE log_files SET offset: one column of one row changes.
LEMMA SetOffset ==
  ASSUME NEW f \in [Source -> RowType], NEW s \in Source, NEW o \in 0 .. MaxLen
  PROVE  LET h == [f EXCEPT ![s].offset = o] IN
         /\ h \in [Source -> RowType]
         /\ h[s] = [id |-> f[s].id, inode |-> f[s].inode, offset |-> o]
         /\ \A t \in Source : t # s => h[t] = f[t]
  BY DEF RowType

-----------------------------------------------------------------------------
(* Type correctness, with the places the processor's locals name.          *)

\* The daemon starts with every variable of its type and no locals.
LEMMA InitTyped == Init => TypeOK /\ Located
<1> SUFFICES ASSUME Init PROVE TypeOK /\ Located
  OBVIOUS
<1> USE DEF Init
<1>1. DisksOK
  BY DEF DisksOK, FileType, NoFile
<1>2. TablesOK
  BY DEF TablesOK, NoRow, RowType
<1>3. LocalsOK
  <2>1. cur \in [w : Watch \cup {0}, id : Nat]
    BY DEF NoCur
  <2>2. stat \in StatType
    BY DEF NoStat, NoRow, RowType, StatType
  <2>3. states \in [Path -> [id : Nat, offset : 0 .. MaxLen]]
    BY DEF NoState
  <2>4. batch \in BatchType
    BY DEF NoBatch, BatchType
  <2> QED
    BY <2>1, <2>2, <2>3, <2>4 DEF LocalsOK
<1>4. Located
  BY DEF Located, Working, Reading, NoState
<1> QED
  BY <1>1, <1>2, <1>3, <1>4 DEF TypeOK

\* The environment touches the disk only, and no local depends on it.
LEMMA EnvironmentTyped ==
  ASSUME TypeOK, Located, Environment PROVE TypeOK' /\ Located'
<1>1. UNCHANGED <<tables, pc, cycleErr, locals, passes, faults>>
  BY DEF Environment, CreateFile, Append, RemoveFile, TruncateFile, MakeDir, RenameFile
<1>2. DisksOK'
  <2> USE DEF TypeOK, DisksOK, FileType, NoFile
  <2>1. ASSUME NEW p \in Path, CreateFile(p) PROVE DisksOK'
    BY <2>1 DEF CreateFile, EmptyFile, Gen
  <2>2. ASSUME NEW p \in Path, Append(p) PROVE DisksOK'
    BY <2>2 DEF Append
  <2>3. ASSUME NEW p \in Path, RemoveFile(p) PROVE DisksOK'
    BY <2>3 DEF RemoveFile
  <2>4. ASSUME NEW p \in Path, TruncateFile(p) PROVE DisksOK'
    BY <2>4 DEF TruncateFile, EmptyFile, Gen
  <2>5. ASSUME NEW p \in Path, MakeDir(p) PROVE DisksOK'
    BY <2>5 DEF MakeDir, Directory
  <2>6. ASSUME NEW p \in Path, NEW q \in Path, RenameFile(p, q) PROVE DisksOK'
    <3>1. disk[p] \in FileType /\ NoFile \in FileType
      OBVIOUS
    <3>3. disk' \in [Path -> FileType]
      BY <2>6, <3>1 DEF RenameFile
    <3>4. \A r \in Path : disk'[r].kind = "file" => disk'[r].gen \in Gen
      BY <2>6 DEF RenameFile
    <3> QED
      BY <2>6, <3>3, <3>4 DEF RenameFile
  <2> QED
    BY <2>1, <2>2, <2>3, <2>4, <2>5, <2>6 DEF Environment
<1>3. TablesOK' /\ LocalsOK' /\ passes' \in [Source -> Nat] /\ faults' \in Nat
  BY <1>1 DEF TypeOK, TablesOK, LocalsOK, tables, locals
<1>4. Located'
  BY <1>1 DEF Located, Working, Reading, NextLine, locals
<1> QED
  BY <1>2, <1>3, <1>4 DEF TypeOK

\* logs.add, logs.remove and edits by hand keep the types, and no local depends on them.
LEMMA OperatorsTyped ==
  ASSUME TypeOK, Located, Operators PROVE TypeOK' /\ Located'
<1>1. UNCHANGED <<disks, pc, cycleErr, locals, passes, faults, hits, occ, nextRow>>
  BY DEF Operators, Add, Remove, Disable, EditRules
<1>2. TablesOK'
  <2> USE DEF TypeOK, TablesOK
  <2>1. ASSUME NEW w \in Watch, Add(w) PROVE TablesOK'
    <3>1. watched' \in [Watch -> [id : Nat, enabled : BOOLEAN]] /\ nextWid' \in Nat \ {0}
      <4>1. CASE watched[w].id = 0
        <5>1. /\ watched' = [watched EXCEPT ![w] = [id |-> nextWid, enabled |-> TRUE]]
              /\ nextWid' = nextWid + 1
          BY <2>1, <4>1 DEF Add
        <5> QED
          BY <5>1
      <4>2. CASE watched[w].id # 0
        <5>1. watched' = [watched EXCEPT ![w].enabled = TRUE] /\ nextWid' = nextWid
          BY <2>1, <4>2 DEF Add
        <5> QED
          BY <5>1
      <4> QED
        BY <4>1, <4>2
    <3> QED
      BY <2>1, <3>1 DEF Add
  <2>2. ASSUME NEW w \in Watch, Remove(w) PROVE TablesOK'
    <3>1. watched' \in [Watch -> [id : Nat, enabled : BOOLEAN]]
      BY <2>2 DEF Remove
    <3>2. rows' \in [Source -> RowType]
      BY <2>2 DEF Remove, NoRow, RowType
    <3> QED
      BY <2>2, <3>1, <3>2 DEF Remove
  <2>3. ASSUME NEW w \in Watch, Disable(w) PROVE TablesOK'
    BY <2>3, <1>1 DEF Disable
  <2>4. CASE EditRules
    BY <2>4, <1>1 DEF EditRules
  <2> QED
    BY <2>1, <2>2, <2>3, <2>4 DEF Operators
<1>3. DisksOK' /\ LocalsOK' /\ passes' \in [Source -> Nat] /\ faults' \in Nat
  BY <1>1 DEF TypeOK, DisksOK, LocalsOK, disks, locals
<1>4. Located'
  BY <1>1 DEF Located, Working, Reading, NextLine, locals
<1> QED
  BY <1>2, <1>3, <1>4 DEF TypeOK

\* A cycle that ends, well or not, leaves the locals as the daemon starts with them.
LEMMA DroppedLocals ==
  ASSUME DropLocals, pc' \in {"idle", "down"}, cycleErr' \in BOOLEAN
  PROVE LocalsOK' /\ Located'
<1> USE DEF DropLocals
<1>1. cur' \in [w : Watch \cup {0}, id : Nat]
  BY DEF NoCur
<1>2. stat' \in StatType
  BY DEF NoStat, NoRow, RowType, StatType
<1>3. states' \in [Path -> [id : Nat, offset : 0 .. MaxLen]]
  BY DEF NoState
<1>4. batch' \in BatchType
  BY DEF NoBatch, BatchType
<1>5. LocalsOK'
  BY <1>1, <1>2, <1>3, <1>4 DEF LocalsOK
<1>6. Located'
  BY DEF Located, Working, Reading, NoState
<1> QED
  BY <1>5, <1>6

\* A cycle that returns an error keeps the types.
LEMMA CycleFailsTyped ==
  ASSUME TypeOK, CycleFails PROVE TypeOK' /\ Located'
<1>1. LocalsOK' /\ Located'
  BY DroppedLocals DEF CycleFails
<1>2. DisksOK' /\ TablesOK' /\ passes' \in [Source -> Nat] /\ faults' \in Nat
  BY DEF CycleFails, TypeOK, DisksOK, TablesOK, disks, tables
<1> QED
  BY <1>1, <1>2 DEF TypeOK

\* So do starting, stopping, failing and crashing.
LEMMA LifecycleTyped ==
  ASSUME TypeOK, Located, Lifecycle PROVE TypeOK' /\ Located'
<1>1. CASE Start \/ Exit
  BY <1>1 DEF Start, Exit, TypeOK, DisksOK, TablesOK, LocalsOK, Located, Working, Reading,
     disks, tables, locals
<1>2. CASE Abort \/ Crash
  <2>1. LocalsOK' /\ Located'
    BY <1>2, DroppedLocals DEF Abort, Crash
  <2>2. DisksOK' /\ TablesOK'
    BY <1>2 DEF Abort, Crash, TypeOK, DisksOK, TablesOK, disks, tables
  <2>3. passes' \in [Source -> Nat] /\ faults' \in Nat
    BY <1>2 DEF Abort, Crash, Interrupted, Bumped, TypeOK
  <2> QED
    BY <2>1, <2>2, <2>3 DEF TypeOK
<1> QED
  BY <1>1, <1>2 DEF Lifecycle

\* The acknowledgement of a line keeps the types and leaves the processor at the next line.
LEMMA UpdateOffsetTyped ==
  ASSUME TypeOK, Located, Reading, NEW n \in Pos, UpdateOffset(n)
  PROVE  TypeOK' /\ Located'
<1>1. CASE rows[Here].id = batch.id
  <2>1. Here \in Source
    BY DEF Here, Source, Located, Reading, Working
  <2>2. rows' \in [Source -> RowType]
    <3>1. rows' = [rows EXCEPT ![Here].offset = n]
      BY <1>1 DEF UpdateOffset
    <3>2. rows \in [Source -> RowType] /\ n \in 0 .. MaxLen
      BY DEF TypeOK, TablesOK, Pos
    <3> QED
      BY <3>1, <3>2, <2>1, SetOffset
  <2>3. TablesOK'
    BY <1>1, <2>2 DEF UpdateOffset, TypeOK, TablesOK
  <2>4. batch' \in BatchType
        /\ batch'.path = batch.path /\ batch'.gen = batch.gen
    <3>1. batch' = [batch EXCEPT !.at = n, !.line = 0]
      BY <1>1 DEF UpdateOffset
    <3>2. batch \in BatchType /\ n \in 0 .. MaxLen
      BY DEF TypeOK, LocalsOK, Pos
    <3>3. batch' = [path |-> batch.path, id |-> batch.id, gen |-> batch.gen, at |-> n,
                    upto |-> batch.upto, line |-> 0]
      BY <3>1, <3>2 DEF BatchType
    <3> QED
      BY <3>2, <3>3 DEF BatchType
  <2>5. DisksOK' /\ LocalsOK' /\ passes' \in [Source -> Nat] /\ faults' \in Nat
    BY <1>1, <2>4 DEF UpdateOffset, TypeOK, DisksOK, LocalsOK, disks
  <2>6. Located'
    BY <1>1, <2>4 DEF UpdateOffset, Located, Working, Reading
  <2> QED
    BY <2>3, <2>5, <2>6 DEF TypeOK
<1>2. CASE rows[Here].id # batch.id
  BY <1>2, CycleFailsTyped DEF UpdateOffset
<1> QED
  BY <1>1, <1>2

\* A refreshed file: the processor's side of InsertRow and UpdateRow.
LEMMA RefreshedTyped ==
  ASSUME TypeOK, Located, pc = "upsert", NEW id \in Nat, NEW o \in 0 .. MaxLen,
         Refreshed(id, o)
  PROVE  LocalsOK' /\ Located' /\ DisksOK' /\ faults' \in Nat
<1>1. states' \in [Path -> [id : Nat, offset : 0 .. MaxLen]]
  BY DEF Refreshed, TypeOK, LocalsOK
<1>2. stat' \in StatType
  BY DEF Refreshed, NoStat, NoRow, RowType, StatType
<1>3. LocalsOK'
  BY <1>1, <1>2 DEF Refreshed, TypeOK, LocalsOK
<1>4. Located'
  BY DEF Refreshed, Located, Working, Reading
<1>5. DisksOK' /\ faults' \in Nat
  BY DEF Refreshed, TypeOK, DisksOK, disks
<1> QED
  BY <1>3, <1>4, <1>5

\* Every step of a cycle keeps the types, and the locals it leaves name something.
LEMMA ProcessTyped ==
  ASSUME TypeOK, Located, Process PROVE TypeOK' /\ Located'
<1>1. CASE BeginCycle
  <2>1. todo' \in [Watch -> Nat]
    <3>1. \A w \in Watch : watched[w].id \in Nat
      BY DEF TypeOK, TablesOK
    <3>2. \/ todo' = [w \in Watch |-> IF watched[w].enabled THEN watched[w].id ELSE 0]
          \/ todo' = todo
      BY <1>1 DEF BeginCycle, locals
    <3> QED
      BY <3>1, <3>2 DEF TypeOK, LocalsOK
  <2>2. LocalsOK' /\ Located'
    BY <1>1, <2>1 DEF BeginCycle, TypeOK, LocalsOK, Located, Working, Reading, locals
  <2>3. DisksOK' /\ TablesOK' /\ passes' \in [Source -> Nat] /\ faults' \in Nat
    BY <1>1 DEF BeginCycle, TypeOK, DisksOK, TablesOK, disks, tables
  <2> QED
    BY <2>2, <2>3 DEF TypeOK
<1>2. CASE EndCycle
  <2>1. LocalsOK' /\ Located'
    BY <1>2, DroppedLocals DEF EndCycle
  <2>2. DisksOK' /\ TablesOK' /\ passes' \in [Source -> Nat] /\ faults' \in Nat
    BY <1>2 DEF EndCycle, TypeOK, DisksOK, TablesOK, disks, tables
  <2> QED
    BY <2>1, <2>2 DEF TypeOK
<1>3. ASSUME NEW w \in Watch, ExpandWatch(w) PROVE TypeOK' /\ Located'
  <2>1. cur' \in [w : Watch \cup {0}, id : Nat] /\ cur'.w = w /\ cur'.id # 0
    BY <1>3 DEF ExpandWatch, First, TypeOK, LocalsOK
  <2>2. todo' \in [Watch -> Nat] /\ paths' \in SUBSET Path
    BY <1>3 DEF ExpandWatch, TypeOK, LocalsOK
  <2>3. LocalsOK' /\ Located'
    BY <1>3, <2>1, <2>2 DEF ExpandWatch, TypeOK, LocalsOK, Located, Working, Reading
  <2>4. DisksOK' /\ TablesOK' /\ passes' \in [Source -> Nat] /\ faults' \in Nat
    BY <1>3 DEF ExpandWatch, TypeOK, DisksOK, TablesOK, disks, tables
  <2> QED
    BY <2>3, <2>4 DEF TypeOK
<1>4. ASSUME NEW p \in Path, StatFile(p) PROVE TypeOK' /\ Located'
  <2>1. CASE disk[p].kind = "file"
    <3>1. stat' \in StatType
          /\ stat'.path = p
      <4>1. <<cur.w, p>> \in Source
        BY <1>4 DEF StatFile, Located, Working, Source
      <4>2. rows[<<cur.w, p>>] \in RowType /\ disk[p] \in FileType
        BY <4>1 DEF TypeOK, DisksOK, TablesOK
      <4>3. stat' = [path |-> p, inode |-> disk[p].inode, size |-> disk[p].len,
                     row |-> rows[<<cur.w, p>>]]
        BY <1>4, <2>1 DEF StatFile
      <4> QED
        BY <4>2, <4>3 DEF FileType, StatType
    <3>2. LocalsOK' /\ Located'
      BY <1>4, <2>1, <3>1 DEF StatFile, TypeOK, LocalsOK, Located, Working, Reading
    <3>3. DisksOK' /\ TablesOK' /\ passes' \in [Source -> Nat] /\ faults' \in Nat
      BY <1>4, <2>1 DEF StatFile, TypeOK, DisksOK, TablesOK, disks, tables
    <3> QED
      BY <3>2, <3>3 DEF TypeOK
  <2> QED
    BY <1>4, <2>1, CycleFailsTyped DEF StatFile
<1>5. ASSUME NEW p \in Path, ReadLines(p) PROVE TypeOK' /\ Located'
  <2>1. CASE disk[p].kind # "dir"
    <3>1. states' \in [Path -> [id : Nat, offset : 0 .. MaxLen]] /\ states'[p].id = 0
      BY <1>5, <2>1 DEF ReadLines, NoState, TypeOK, LocalsOK
    <3>2. CASE disk[p].kind = "none"
      <4>1. LocalsOK' /\ Located'
        BY <1>5, <2>1, <3>1, <3>2 DEF ReadLines, TypeOK, LocalsOK, Located, Working, Reading
      <4> QED
        BY <1>5, <2>1, <4>1 DEF ReadLines, TypeOK, DisksOK, TablesOK, disks, tables
    <3>3. CASE disk[p].kind # "none"
      <4>1. batch' \in BatchType
            /\ batch'.path = p /\ batch'.gen \in Gen
        BY <1>5, <2>1, <3>3 DEF ReadLines, TypeOK, DisksOK, FileType, LocalsOK, BatchType
      <4>2. LocalsOK' /\ Located'
        BY <1>5, <2>1, <3>1, <3>3, <4>1
           DEF ReadLines, TypeOK, LocalsOK, Located, Working, Reading
      <4> QED
        BY <1>5, <2>1, <4>2 DEF ReadLines, TypeOK, DisksOK, TablesOK, disks, tables
    <3> QED
      BY <3>2, <3>3
  <2> QED
    BY <1>5, <2>1, CycleFailsTyped DEF ReadLines
<1>6. CASE InsertRow
  <2>1. CASE watched[cur.w].id = cur.id
    <3>1. rows' \in [Source -> RowType] /\ nextRow' \in Nat \ {0}
          /\ passes' \in [Source -> Nat]
      <4>1. /\ rows' = [rows EXCEPT ![<<cur.w, stat.path>>] =
                           [id |-> nextRow, inode |-> stat.inode, offset |-> 0]]
            /\ nextRow' = nextRow + 1
            /\ passes' = [passes EXCEPT ![<<cur.w, stat.path>>] = @ + 1]
        BY <1>6, <2>1 DEF InsertRow, Bumped
      <4>2. [id |-> nextRow, inode |-> stat.inode, offset |-> 0] \in RowType
        BY DEF TypeOK, TablesOK, LocalsOK, StatType, RowType
      <4>3. rows' \in [Source -> RowType]
        BY <4>1, <4>2 DEF TypeOK, TablesOK
      <4>4. nextRow' \in Nat \ {0} /\ passes' \in [Source -> Nat]
        BY <1>6, <4>1 DEF InsertRow, Located, Working, Source, TypeOK, TablesOK
      <4> QED
        BY <4>3, <4>4
    <3>2. LocalsOK' /\ Located' /\ DisksOK' /\ faults' \in Nat
      <4>1. pc = "upsert" /\ Refreshed(nextRow, 0)
        BY <1>6, <2>1 DEF InsertRow
      <4>2. nextRow \in Nat /\ 0 \in 0 .. MaxLen
        BY DEF TypeOK, TablesOK
      <4> QED
        BY <4>1, <4>2, RefreshedTyped
    <3>3. TablesOK'
      BY <1>6, <2>1, <3>1 DEF InsertRow, Refreshed, TypeOK, TablesOK
    <3> QED
      BY <3>1, <3>2, <3>3 DEF TypeOK
  <2> QED
    BY <1>6, <2>1, CycleFailsTyped DEF InsertRow
<1>7. CASE UpdateRow
  <2>1. ResumeAt(stat) \in 0 .. MaxLen /\ stat.row.id \in Nat /\ stat.inode \in 0 .. MaxGen
    BY DEF ResumeAt, TypeOK, LocalsOK, StatType, RowType
  <2>2. rows' \in [Source -> RowType] /\ passes' \in [Source -> Nat]
    <3>1. /\ \/ rows' = rows
             \/ rows' = [rows EXCEPT ![<<cur.w, stat.path>>] =
                           [id |-> stat.row.id, inode |-> stat.inode, offset |-> ResumeAt(stat)]]
          /\ \/ passes' = passes
             \/ passes' = [passes EXCEPT ![<<cur.w, stat.path>>] = @ + 1]
      BY <1>7 DEF UpdateRow, Bumped
    <3>2. [id |-> stat.row.id, inode |-> stat.inode, offset |-> ResumeAt(stat)] \in RowType
      BY <2>1 DEF RowType
    <3>3. rows' \in [Source -> RowType]
      BY <3>1, <3>2 DEF TypeOK, TablesOK
    <3>4. passes' \in [Source -> Nat]
      BY <3>1 DEF TypeOK
    <3> QED
      BY <3>3, <3>4
  <2>3. LocalsOK' /\ Located' /\ DisksOK' /\ faults' \in Nat
    BY <1>7, <2>1, RefreshedTyped DEF UpdateRow
  <2>4. TablesOK'
    BY <1>7, <2>2 DEF UpdateRow, Refreshed, TypeOK, TablesOK
  <2> QED
    BY <2>2, <2>3, <2>4 DEF TypeOK
<1>8. CASE RefreshDone \/ FilesDone \/ LinesDone
  <2>1. cur' \in [w : Watch \cup {0}, id : Nat]
    BY <1>8 DEF RefreshDone, FilesDone, LinesDone, NoCur, TypeOK, LocalsOK, locals
  <2>2. batch' \in BatchType
    BY <1>8 DEF RefreshDone, FilesDone, LinesDone, NoBatch, BatchType, TypeOK, LocalsOK, locals
  <2>3. LocalsOK' /\ Located'
    BY <1>8, <2>1, <2>2 DEF RefreshDone, FilesDone, LinesDone, TypeOK, LocalsOK, Located,
       Working, Reading, locals
  <2>4. DisksOK' /\ TablesOK' /\ passes' \in [Source -> Nat] /\ faults' \in Nat
    BY <1>8 DEF RefreshDone, FilesDone, LinesDone, TypeOK, DisksOK, TablesOK, disks, tables
  <2> QED
    BY <2>3, <2>4 DEF TypeOK
<1>9. ASSUME NEW n \in Pos, SkipLine(n) PROVE TypeOK' /\ Located'
  BY <1>9, UpdateOffsetTyped DEF SkipLine, Reading
<1>10. CASE Ack
  BY <1>10, UpdateOffsetTyped DEF Ack, Reading, Located
<1>11. ASSUME NEW n \in Pos, CountMatch(n) PROVE TypeOK' /\ Located'
  <2>1. Here \in Source /\ batch.gen \in Gen
    BY <1>11 DEF CountMatch, Here, Source, Located, Working, Reading
  <2>2. hits' \in [Source -> [Gen -> [Pos -> Nat]]]
    <3>1. hits' = [hits EXCEPT ![Here][batch.gen][n] = @ + 1]
      BY <1>11 DEF CountMatch
    <3>2. hits \in [Source -> [Gen -> [Pos -> Nat]]]
      BY DEF TypeOK, TablesOK
    <3> QED
      BY <2>1, <3>1, <3>2, CountUp
  <2>3. pc' \in {"record", "ack"}
    BY <1>11 DEF CountMatch
  <2>4. batch' \in BatchType
        /\ batch' = [batch EXCEPT !.line = n]
    <3>1. batch' = [batch EXCEPT !.line = n]
      BY <1>11 DEF CountMatch
    <3>2. batch \in BatchType /\ n \in 0 .. MaxLen
      BY DEF TypeOK, LocalsOK, Pos
    <3> QED
      BY <3>1, <3>2 DEF BatchType
  <2>5. Located'
    <3>1. batch'.path = batch.path /\ batch'.gen = batch.gen /\ batch'.line = n
          /\ batch'.at = batch.at /\ batch'.upto = batch.upto
      BY <2>4 DEF TypeOK, LocalsOK
    <3> QED
      BY <1>11, <2>3, <3>1 DEF CountMatch, Located, Working, Reading, NextLine
  <2>6. LocalsOK' /\ TablesOK'
    BY <1>11, <2>2, <2>3, <2>4 DEF CountMatch, TypeOK, LocalsOK, TablesOK
  <2> QED
    BY <1>11, <2>5, <2>6 DEF CountMatch, TypeOK, DisksOK, disks
<1>12. CASE Record
  <2>1. CASE rows[Here].id = batch.id
    <3>1. Here \in Source /\ batch.gen \in Gen /\ batch.line \in Pos
      BY <1>12 DEF Record, Here, Source, Located, Working, Reading
    <3>2. occ' \in [Source -> [Gen -> [Pos -> Nat]]]
      <4>1. occ' = [occ EXCEPT ![Here][batch.gen][batch.line] = @ + 1]
        BY <1>12, <2>1 DEF Record
      <4>2. occ \in [Source -> [Gen -> [Pos -> Nat]]]
        BY DEF TypeOK, TablesOK
      <4> QED
        BY <3>1, <4>1, <4>2, CountUp
    <3>3. LocalsOK' /\ TablesOK' /\ DisksOK' /\ passes' \in [Source -> Nat] /\ faults' \in Nat
      BY <1>12, <2>1, <3>2 DEF Record, TypeOK, LocalsOK, TablesOK, DisksOK, disks, locals
    <3>4. Located'
      BY <1>12, <2>1 DEF Record, Located, Working, Reading, NextLine, locals
    <3> QED
      BY <3>3, <3>4 DEF TypeOK
  <2> QED
    BY <1>12, <2>1, CycleFailsTyped DEF Record
<1> QED
  BY <1>1, <1>2, <1>3, <1>4, <1>5, <1>6, <1>7, <1>8, <1>9, <1>10, <1>11, <1>12 DEF Process

\* Type correctness is preserved by every step.
LEMMA NextTyped ==
  ASSUME TypeOK, Located, [Next]_vars PROVE TypeOK' /\ Located'
<1>1. CASE UNCHANGED vars
  BY <1>1 DEF vars, disks, tables, locals, TypeOK, DisksOK, TablesOK, LocalsOK, Located,
     Working, Reading, NextLine
<1> QED
  BY <1>1, EnvironmentTyped, OperatorsTyped, ProcessTyped, LifecycleTyped DEF Next


-----------------------------------------------------------------------------
(* What the steps that write a row or a counter change, point by point.    *)

\* insertFile adds the one row of the file that was stat'ed, at offset 0, or fails the cycle.
LEMMA InsertRowEffect ==
  ASSUME TypeOK, Located, InsertRow, watched[cur.w].id = cur.id
  PROVE  LET s == <<cur.w, stat.path>> IN
         /\ s \in Source /\ pc' = "refresh" /\ cur' = cur /\ batch' = batch
         /\ rows'[s].id = nextRow /\ rows'[s].inode = stat.inode /\ rows'[s].offset = 0
         /\ \A t \in Source : t # s => rows'[t] = rows[t] /\ passes'[t] = passes[t]
         /\ passes'[s] = passes[s] + 1
         /\ states'[stat.path].id = nextRow /\ states'[stat.path].offset = 0
         /\ \A p \in Path : p # stat.path => states'[p] = states[p]
         /\ nextRow # 0 /\ UNCHANGED <<disk, nextGen, watched, hits, occ>>
<1>1. <<cur.w, stat.path>> \in Source
  BY DEF InsertRow, Located, Working, Source
<1>2. /\ rows' = [rows EXCEPT ![<<cur.w, stat.path>>] =
                    [id |-> nextRow, inode |-> stat.inode, offset |-> 0]]
      /\ passes' = [passes EXCEPT ![<<cur.w, stat.path>>] = @ + 1]
      /\ states' = [states EXCEPT ![stat.path] = [id |-> nextRow, offset |-> 0]]
      /\ pc' = "refresh" /\ cur' = cur /\ batch' = batch
      /\ UNCHANGED <<disk, nextGen, watched, hits, occ>>
  BY DEF InsertRow, Refreshed, Bumped, disks
<1>3. stat.path \in Path /\ nextRow # 0
  BY DEF InsertRow, Located, TypeOK, TablesOK
<1>4. DOMAIN rows = Source /\ DOMAIN passes = Source /\ DOMAIN states = Path
  BY DEF TypeOK, TablesOK, LocalsOK
<1> QED
  BY <1>1, <1>2, <1>3, <1>4

\* The UPDATE of refreshFile writes the row it read, or nothing if that row is gone.
LEMMA UpdateRowEffect ==
  ASSUME TypeOK, Located, UpdateRow
  PROVE  LET s == <<cur.w, stat.path>>
             o == ResumeAt(stat) IN
         /\ s \in Source /\ pc' = "refresh" /\ cur' = cur /\ batch' = batch
         /\ IF rows[s].id = stat.row.id
            THEN /\ rows'[s].id = stat.row.id /\ rows'[s].inode = stat.inode
                 /\ rows'[s].offset = o
            ELSE rows'[s] = rows[s]
         /\ \A t \in Source : t # s => rows'[t] = rows[t] /\ passes'[t] = passes[t]
         /\ passes'[s] = IF o < stat.row.offset THEN passes[s] + 1 ELSE passes[s]
         /\ states'[stat.path].id = stat.row.id /\ states'[stat.path].offset = o
         /\ \A p \in Path : p # stat.path => states'[p] = states[p]
         /\ UNCHANGED <<disk, nextGen, watched, hits, occ>>
<1>1. <<cur.w, stat.path>> \in Source
  BY DEF UpdateRow, Located, Working, Source
<1>2. /\ rows' = IF rows[<<cur.w, stat.path>>].id = stat.row.id
                 THEN [rows EXCEPT ![<<cur.w, stat.path>>] =
                         [id |-> stat.row.id, inode |-> stat.inode, offset |-> ResumeAt(stat)]]
                 ELSE rows
      /\ passes' = IF ResumeAt(stat) < stat.row.offset
                   THEN [passes EXCEPT ![<<cur.w, stat.path>>] = @ + 1] ELSE passes
      /\ states' = [states EXCEPT ![stat.path] = [id |-> stat.row.id, offset |-> ResumeAt(stat)]]
      /\ pc' = "refresh" /\ cur' = cur /\ batch' = batch
      /\ UNCHANGED <<disk, nextGen, watched, hits, occ>>
  BY DEF UpdateRow, Refreshed, Bumped, disks
<1>3. stat.path \in Path
  BY DEF UpdateRow, Located
<1>4. DOMAIN rows = Source /\ DOMAIN passes = Source /\ DOMAIN states = Path
  BY DEF TypeOK, TablesOK, LocalsOK
<1>5. rows'[<<cur.w, stat.path>>] =
         IF rows[<<cur.w, stat.path>>].id = stat.row.id
         THEN [id |-> stat.row.id, inode |-> stat.inode, offset |-> ResumeAt(stat)]
         ELSE rows[<<cur.w, stat.path>>]
  BY <1>1, <1>2, <1>4
<1>6. passes'[<<cur.w, stat.path>>] =
        IF ResumeAt(stat) < stat.row.offset THEN passes[<<cur.w, stat.path>>] + 1
        ELSE passes[<<cur.w, stat.path>>]
  BY <1>1, <1>2, <1>4
<1>7. \A t \in Source : t # <<cur.w, stat.path>> => rows'[t] = rows[t] /\ passes'[t] = passes[t]
  BY <1>1, <1>2, <1>4
<1>8. /\ states'[stat.path] = [id |-> stat.row.id, offset |-> ResumeAt(stat)]
      /\ \A p \in Path : p # stat.path => states'[p] = states[p]
  BY <1>2, <1>3, <1>4
<1> QED
  BY <1>1, <1>2, <1>5, <1>6, <1>7, <1>8

\* UpdateOffset moves the offset of the row of the batch, or fails the cycle.
LEMMA UpdateOffsetEffect ==
  ASSUME TypeOK, Located, Reading, NEW n \in Pos, UpdateOffset(n),
         rows[Here].id = batch.id
  PROVE  /\ Here \in Source /\ Here' = Here /\ pc' = "line"
         /\ rows'[Here].id = rows[Here].id /\ rows'[Here].inode = rows[Here].inode
         /\ rows'[Here].offset = n
         /\ \A t \in Source : t # Here => rows'[t] = rows[t]
         /\ batch'.path = batch.path /\ batch'.id = batch.id /\ batch'.gen = batch.gen
         /\ batch'.at = n /\ batch'.upto = batch.upto
         /\ UNCHANGED <<disk, nextGen, watched, hits, occ, cur, stat, states, passes>>
<1>1. Here \in Source
  BY DEF Here, Source, Located, Reading, Working
<1>2. /\ rows' = [rows EXCEPT ![Here].offset = n]
      /\ batch' = [batch EXCEPT !.at = n, !.line = 0]
      /\ pc' = "line"
      /\ UNCHANGED <<disk, nextGen, watched, hits, occ, cur, stat, states, passes>>
  BY DEF UpdateOffset, disks
<1>3. rows \in [Source -> RowType] /\ batch \in BatchType /\ n \in 0 .. MaxLen
  BY DEF TypeOK, TablesOK, LocalsOK, Pos
<1>4. /\ rows'[Here].id = rows[Here].id /\ rows'[Here].inode = rows[Here].inode
      /\ rows'[Here].offset = n
      /\ \A t \in Source : t # Here => rows'[t] = rows[t]
  <2>1. rows' = [rows EXCEPT ![Here].offset = n]
    BY <1>2
  <2> HIDE DEF Here
  <2>2. /\ rows'[Here].id = rows[Here].id /\ rows'[Here].inode = rows[Here].inode
        /\ rows'[Here].offset = n
    BY <1>1, <1>3, <2>1 DEF RowType
  <2>3. \A t \in Source : t # Here => rows'[t] = rows[t]
    BY <1>1, <1>3, <2>1
  <2> QED
    BY <2>2, <2>3
<1>5. /\ batch'.path = batch.path /\ batch'.id = batch.id /\ batch'.gen = batch.gen
      /\ batch'.at = n /\ batch'.upto = batch.upto
  BY <1>2, <1>3 DEF BatchType
<1>6. Here' = Here
  BY <1>2, <1>5 DEF Here
<1> QED
  BY <1>1, <1>2, <1>4, <1>5, <1>6

\* RecordMatch counts the line at the head of the batch, and nothing else.
LEMMA CountMatchEffect ==
  ASSUME TypeOK, Located, NEW n \in Pos, CountMatch(n)
  PROVE  /\ Here \in Source /\ Here' = Here /\ batch.gen \in Gen /\ pc = "line"
         /\ pc' \in {"record", "ack"}
         /\ hits'[Here][batch.gen][n] = hits[Here][batch.gen][n] + 1
         /\ \A t \in Source, g \in Gen, m \in Pos :
              <<t, g, m>> # <<Here, batch.gen, n>> => hits'[t][g][m] = hits[t][g][m]
         /\ batch'.path = batch.path /\ batch'.id = batch.id /\ batch'.gen = batch.gen
         /\ batch'.at = batch.at /\ batch'.upto = batch.upto /\ batch'.line = n
         /\ UNCHANGED <<disk, nextGen, watched, rows, occ, cur, stat, states, passes>>
<1>1. Here \in Source /\ batch.gen \in Gen
  BY DEF CountMatch, Here, Source, Located, Reading, Working
<1>2. /\ hits' = [hits EXCEPT ![Here][batch.gen][n] = @ + 1]
      /\ batch' = [batch EXCEPT !.line = n]
      /\ pc = "line" /\ pc' \in {"record", "ack"}
      /\ UNCHANGED <<disk, nextGen, watched, rows, occ, cur, stat, states, passes>>
  BY DEF CountMatch, disks
<1>3. hits \in [Source -> [Gen -> [Pos -> Nat]]] /\ batch \in BatchType
  BY DEF TypeOK, TablesOK, LocalsOK
<1>4. /\ hits'[Here][batch.gen][n] = hits[Here][batch.gen][n] + 1
      /\ \A t \in Source, g \in Gen, m \in Pos :
           <<t, g, m>> # <<Here, batch.gen, n>> => hits'[t][g][m] = hits[t][g][m]
  BY <1>1, <1>2, <1>3, CountUp
<1>5. /\ batch'.path = batch.path /\ batch'.id = batch.id /\ batch'.gen = batch.gen
      /\ batch'.at = batch.at /\ batch'.upto = batch.upto /\ batch'.line = n
  BY <1>2, <1>3 DEF BatchType
<1>6. Here' = Here
  BY <1>2, <1>5 DEF Here
<1> QED
  BY <1>1, <1>2, <1>4, <1>5, <1>6

\* events.Record adds an occurrence of that line, or fails the cycle.
LEMMA RecordEffect ==
  ASSUME TypeOK, Located, Record, rows[Here].id = batch.id
  PROVE  /\ Here \in Source /\ Here' = Here /\ batch.gen \in Gen /\ batch.line \in Pos
         /\ pc = "record" /\ pc' = "ack"
         /\ occ'[Here][batch.gen][batch.line] = occ[Here][batch.gen][batch.line] + 1
         /\ \A t \in Source, g \in Gen, m \in Pos :
              <<t, g, m>> # <<Here, batch.gen, batch.line>> => occ'[t][g][m] = occ[t][g][m]
         /\ UNCHANGED <<disk, nextGen, watched, rows, hits, cur, stat, states, batch, passes>>
<1>1. Here \in Source /\ batch.gen \in Gen /\ batch.line \in Pos
  BY DEF Record, Here, Source, Located, Reading, Working
<1>2. /\ occ' = [occ EXCEPT ![Here][batch.gen][batch.line] = @ + 1]
      /\ pc = "record" /\ pc' = "ack"
      /\ UNCHANGED <<disk, nextGen, watched, rows, hits, cur, stat, states, batch, passes>>
  BY DEF Record, disks, locals
<1>3. occ \in [Source -> [Gen -> [Pos -> Nat]]]
  BY DEF TypeOK, TablesOK
<1>4. /\ occ'[Here][batch.gen][batch.line] = occ[Here][batch.gen][batch.line] + 1
      /\ \A t \in Source, g \in Gen, m \in Pos :
           <<t, g, m>> # <<Here, batch.gen, batch.line>> => occ'[t][g][m] = occ[t][g][m]
  BY <1>1, <1>2, <1>3, CountUp
<1>5. Here' = Here
  BY <1>2 DEF Here
<1> QED
  BY <1>1, <1>2, <1>4, <1>5

\* ReadCompleteLines starts a batch at the offset of its FileState, fails, or finds no file.
LEMMA ReadLinesEffect ==
  ASSUME TypeOK, Located, NEW p \in Path, ReadLines(p), disk[p].kind = "file"
  PROVE  /\ <<cur.w, p>> \in Source /\ Here' = <<cur.w, p>> /\ states[p].id # 0
         /\ states'[p].id = 0 /\ \A q \in Path : q # p => states'[q] = states[q]
         /\ batch'.path = p /\ batch'.id = states[p].id /\ batch'.gen = disk[p].gen
         /\ batch'.at = states[p].offset /\ batch'.upto = disk[p].len
         /\ pc = "file" /\ pc' = "line"
         /\ UNCHANGED <<disk, nextGen, watched, rows, hits, occ, cur, stat, passes>>
<1>1. /\ states' = [states EXCEPT ![p] = NoState]
      /\ batch' = [path |-> p, id |-> states[p].id, gen |-> disk[p].gen,
                   at |-> states[p].offset, upto |-> disk[p].len, line |-> 0]
      /\ pc = "file" /\ pc' = "line" /\ states[p].id # 0
      /\ UNCHANGED <<disk, nextGen, watched, rows, hits, occ, cur, stat, passes>>
  BY DEF ReadLines, First, disks, tables
<1>2. <<cur.w, p>> \in Source /\ DOMAIN states = Path
  BY <1>1 DEF Located, Working, Source, TypeOK, LocalsOK
<1>3. Here' = <<cur.w, p>>
  BY <1>1 DEF Here
<1>4. states'[p].id = 0 /\ \A q \in Path : q # p => states'[q] = states[q]
  BY <1>1, <1>2 DEF NoState
<1>5. /\ batch'.path = p /\ batch'.id = states[p].id /\ batch'.gen = disk[p].gen
      /\ batch'.at = states[p].offset /\ batch'.upto = disk[p].len
  BY <1>1
<1> QED
  BY <1>1, <1>2, <1>3, <1>4, <1>5

-----------------------------------------------------------------------------
(* What the processor has read from the database is still so, or is gone.  *)

\* The environment, the operators other than logs.remove, and starting or stopping
\* between cycles leave what the invariants below speak of as it is.
LEMMA Undisturbed ==
  ASSUME TypeOK, Environment \/ Operators \/ Start \/ Exit \/ UNCHANGED vars
  PROVE  /\ UNCHANGED <<cur, stat, states, batch, hits, occ, passes>>
         /\ pc' = pc \/ (pc \in {"down", "idle"} /\ pc' \in {"down", "idle"})
         /\ \A s \in Source : rows'[s] = rows[s] \/ rows'[s] = NoRow
<1>1. CASE Environment
  BY <1>1 DEF Environment, CreateFile, Append, RemoveFile, TruncateFile, MakeDir, RenameFile,
     tables, locals
<1>2. CASE Operators
  <2>1. ASSUME NEW w \in Watch, Remove(w)
        PROVE \A s \in Source : rows'[s] = rows[s] \/ rows'[s] = NoRow
    BY <2>1 DEF Remove
  <2> QED
    BY <1>2, <2>1 DEF Operators, Add, Remove, Disable, EditRules, locals
<1>3. CASE Start \/ Exit \/ UNCHANGED vars
  BY <1>3 DEF Start, Exit, vars, tables, locals
<1> QED
  BY <1>1, <1>2, <1>3

\* A step that drops the locals leaves no row, state or batch to be out of date.
LEMMA StoppedCycle ==
  ASSUME CycleFails \/ Abort \/ Crash \/ BeginCycle \/ EndCycle \/ FilesDone
  PROVE  pc' \in {"idle", "watch", "down"} \/ (BeginCycle /\ UNCHANGED <<pc, locals>>)
  BY DEF CycleFails, Abort, Crash, BeginCycle, EndCycle, FilesDone

\* What the processor carries of a row stays as it was read until the row is gone.
LEMMA CurrentStep ==
  ASSUME TypeOK, Located, Current, [Next]_vars PROVE Current'
<1>0. ASSUME pc' \in {"idle", "watch", "down"} PROVE Current'
  BY <1>0 DEF Working, Reading, Current, RowAsRead
<1>1. CASE Environment \/ Operators \/ Start \/ Exit \/ UNCHANGED vars
  <2>1. CASE pc' \in {"down", "idle"}
    BY <2>1, <1>0
  <2>2. CASE pc' = pc
    <3>1. /\ UNCHANGED <<pc, cur, stat, states, batch>> /\ Here' = Here
          /\ \A s \in Source : rows'[s] = rows[s] \/ rows'[s].id = 0
      BY <1>1, <2>2, Undisturbed DEF NoRow, Here
    <3>2. /\ pc = "upsert" => <<cur.w, stat.path>> \in Source
          /\ Working => \A p \in Path : <<cur.w, p>> \in Source
          /\ Reading => Here \in Source
      BY DEF Located, Working, Reading, Here, Source
    <3>3. (pc = "upsert" => /\ RowAsRead(<<cur.w, stat.path>>, stat.row.id, stat.row.offset)
                            /\ rows[<<cur.w, stat.path>>].id # 0
                                 => rows[<<cur.w, stat.path>>].inode = stat.row.inode)'
      BY <3>1, <3>2 DEF Current, RowAsRead
    <3>4. (Working => \A p \in Path : states[p].id # 0
                        => RowAsRead(<<cur.w, p>>, states[p].id, states[p].offset))'
      BY <3>1, <3>2 DEF Working, Current, RowAsRead
    <3>5. (Reading => batch.id # 0 /\ RowAsRead(Here, batch.id, batch.at))'
      BY <3>1, <3>2 DEF Reading, Current, RowAsRead
    <3> QED
      BY <3>3, <3>4, <3>5 DEF Current, RowAsRead
  <2> QED
    BY <1>1, <2>1, <2>2, Undisturbed
<1>2. CASE CycleFails \/ Abort \/ Crash \/ BeginCycle \/ EndCycle \/ FilesDone
  BY <1>2, <1>0, StoppedCycle DEF BeginCycle
<1>3. ASSUME NEW w \in Watch, ExpandWatch(w) PROVE Current'
  BY <1>3 DEF ExpandWatch, Located, Working, Reading, Current, RowAsRead
<1>4. ASSUME NEW p \in Path, StatFile(p) PROVE Current'
  <2>1. CASE CycleFails
    BY <1>2, <2>1
  <2>2. CASE ~CycleFails
    <3>1. /\ stat' = [path |-> p, inode |-> disk[p].inode, size |-> disk[p].len,
                      row |-> rows[<<cur.w, p>>]]
          /\ UNCHANGED <<rows, cur, states, batch>> /\ pc' = "upsert" /\ pc = "refresh"
      BY <1>4, <2>2 DEF StatFile, tables
    <3> QED
      BY <3>1 DEF Working, Reading, Current, RowAsRead
  <2> QED
    BY <2>1, <2>2
<1>5. ASSUME NEW p \in Path, ReadLines(p) PROVE Current'
  <2>1. CASE disk[p].kind = "dir"
    BY <1>2, <1>5, <2>1 DEF ReadLines
  <2>2. CASE disk[p].kind = "none"
    <3>1. /\ states' = [states EXCEPT ![p] = NoState]
          /\ UNCHANGED <<rows, cur, batch, pc>> /\ pc = "file"
      BY <1>5, <2>2 DEF ReadLines, tables
    <3> QED
      BY <3>1 DEF Working, Reading, NoState, TypeOK, LocalsOK, Current, RowAsRead
  <2>3. CASE disk[p].kind = "file"
    <3>0. /\ states'[p].id = 0 /\ \A q \in Path : q # p => states'[q] = states[q]
          /\ rows' = rows /\ cur' = cur /\ pc = "file" /\ pc' = "line"
          /\ Here' = <<cur.w, p>> /\ states[p].id # 0
          /\ batch'.id = states[p].id /\ batch'.at = states[p].offset
      BY <1>5, <2>3, ReadLinesEffect
    <3>1. \A q \in Path : states'[q].id = 0 \/ states'[q] = states[q]
      BY <3>0 DEF NoState
    <3>2. (Working => \A q \in Path : states[q].id # 0
                        => RowAsRead(<<cur.w, q>>, states[q].id, states[q].offset))'
      BY <3>0, <3>1 DEF Working, Current, RowAsRead
    <3>3. (Reading => batch.id # 0 /\ RowAsRead(Here, batch.id, batch.at))'
      BY <3>0 DEF Working, Current, RowAsRead
    <3> QED
      BY <3>0, <3>2, <3>3 DEF Current, RowAsRead
  <2> QED
    BY <2>1, <2>2, <2>3 DEF TypeOK, DisksOK, FileType
<1>6. CASE InsertRow
  <2>1. CASE watched[cur.w].id = cur.id
    <3>1. (Working => \A q \in Path : states[q].id # 0
                        => RowAsRead(<<cur.w, q>>, states[q].id, states[q].offset))'
      BY <1>6, <2>1, InsertRowEffect DEF InsertRow, Located, Working, Source, Current, RowAsRead
    <3> QED
      BY <1>6, <2>1, <3>1, InsertRowEffect DEF Reading, Current, RowAsRead
  <2> QED
    BY <1>2, <1>6, <2>1 DEF InsertRow
<1>7. CASE UpdateRow
  <2>1. (Working => \A q \in Path : states[q].id # 0
                      => RowAsRead(<<cur.w, q>>, states[q].id, states[q].offset))'
    <3> SUFFICES ASSUME NEW q \in Path, states'[q].id # 0
                 PROVE  RowAsRead(<<cur.w, q>>, states[q].id, states[q].offset)'
      OBVIOUS
    <3>1. CASE q = stat.path
      BY <1>7, <3>1, UpdateRowEffect DEF UpdateRow, Current, RowAsRead
    <3>2. CASE q # stat.path
      BY <1>7, <3>2, UpdateRowEffect DEF UpdateRow, Located, Working, Source, Current, RowAsRead
    <3> QED
      BY <3>1, <3>2 DEF Current, RowAsRead
  <2> QED
    BY <1>7, <2>1, UpdateRowEffect DEF Reading, Current, RowAsRead
<1>8. CASE RefreshDone \/ LinesDone
  BY <1>8 DEF RefreshDone, LinesDone, Working, Reading, tables, locals, Current, RowAsRead
<1>9. ASSUME NEW n \in Pos, Reading, UpdateOffset(n) PROVE Current'
  <2>1. CASE rows[Here].id = batch.id
    <3>0. /\ UNCHANGED <<cur, states>> /\ Here' = Here /\ pc' = "line"
          /\ batch'.id = batch.id /\ batch'.at = n
          /\ rows'[Here].id = rows[Here].id /\ rows'[Here].offset = n
          /\ \A t \in Source : t # Here => rows'[t] = rows[t]
      BY <1>9, <2>1, UpdateOffsetEffect
    <3>1. (Working => \A q \in Path : states[q].id # 0
                        => RowAsRead(<<cur.w, q>>, states[q].id, states[q].offset))'
      <4> SUFFICES ASSUME NEW q \in Path, states[q].id # 0
                   PROVE  RowAsRead(<<cur.w, q>>, states[q].id, states[q].offset)'
        BY <3>0 DEF Current, RowAsRead
      <4>1. <<cur.w, q>> # Here /\ <<cur.w, q>> \in Source /\ Working
        BY <1>9 DEF Located, Reading, Working, Here, Source, Current, RowAsRead
      <4> QED
        BY <3>0, <4>1 DEF Current, RowAsRead
    <3>2. (Reading => batch.id # 0 /\ RowAsRead(Here, batch.id, batch.at))'
      BY <1>9, <2>1, <3>0 DEF Current, RowAsRead
    <3> QED
      BY <3>0, <3>1, <3>2 DEF Current, RowAsRead
  <2> QED
    BY <1>2, <1>9, <2>1 DEF UpdateOffset
<1>10. ASSUME NEW n \in Pos, CountMatch(n) PROVE Current'
  BY <1>10, CountMatchEffect DEF Working, Reading, Current, RowAsRead
<1>11. CASE Record
  <2>1. CASE rows[Here].id = batch.id
    BY <1>11, <2>1, RecordEffect DEF Working, Reading, Current, RowAsRead
  <2> QED
    BY <1>2, <1>11, <2>1 DEF Record
<1> QED
  BY <1>1, <1>2, <1>3, <1>4, <1>5, <1>6, <1>7, <1>8, <1>9, <1>10, <1>11
     DEF Next, Process, Lifecycle, SkipLine, Ack, Reading, Located

-----------------------------------------------------------------------------
(* A line is matched and recorded at most once per pass over its file.     *)

\* Where a new pass begins every line may be matched once more.
LEMMA NewPass ==
  ASSUME TypeOK, OncePerPass, NEW s \in Source, hits' = hits,
         passes'[s] = passes[s] + 1
  PROVE  \A g \in Gen, n \in Pos : hits'[s][g][n] < passes'[s]
<1> SUFFICES ASSUME NEW g \in Gen, NEW n \in Pos PROVE hits'[s][g][n] < passes'[s]
  OBVIOUS
<1>1. hits[s][g][n] <= passes[s] /\ hits[s][g][n] \in Nat /\ passes[s] \in Nat
  BY DEF OncePerPass, TypeOK, TablesOK
<1> QED
  BY <1>1

\* Steps that count nothing and stay out of the two writes after a match.
LEMMA CountsKept ==
  ASSUME TypeOK, Located, OncePerPass, PassesCount,
         UNCHANGED <<rows, hits, occ, passes>>,
         pc \in {"record", "ack"} => rows[Here].id = 0,
         \/ pc' \in {"idle", "down", "watch"}
         \/ /\ pc' \in {"refresh", "file"} /\ UNCHANGED <<cur, states>> /\ Working
         \/ pc' = "refresh" /\ \A p \in Path : states'[p].id = 0
  PROVE  OncePerPass' /\ PassesCount'
<1>1. OncePerPass'
  BY DEF OncePerPass
<1>2. (\A s \in Source : rows[s].id # 0 => Fresh(s, Reached(s)))'
  <2> SUFFICES ASSUME NEW s \in Source, rows[s].id # 0
               PROVE  Fresh(s, rows[s].offset)'
    BY DEF Reached
  <2>1. Fresh(s, rows[s].offset)
    BY DEF PassesCount, Reached
  <2> QED
    BY <2>1 DEF Fresh
<1>3. (Working => \A p \in Path : states[p].id # 0 => Fresh(<<cur.w, p>>, states[p].offset))'
  BY DEF PassesCount, Fresh, Working
<1> QED
  BY <1>1, <1>2, <1>3 DEF PassesCount

\* No step lets a line be matched twice in one pass.
LEMMA CountStep ==
  ASSUME TypeOK, Located, Current, OncePerPass, PassesCount, [Next]_vars
  PROVE  OncePerPass' /\ PassesCount'
<1>1. CASE Environment \/ Operators \/ Start \/ Exit \/ UNCHANGED vars
  <2>1. /\ UNCHANGED <<cur, stat, states, batch, hits, occ, passes, Here>>
        /\ pc' = pc \/ (pc \in {"down", "idle"} /\ pc' \in {"down", "idle"})
        /\ \A s \in Source : rows'[s] = rows[s] \/ rows'[s].id = 0
    BY <1>1, Undisturbed DEF NoRow, Here
  <2>2. OncePerPass'
    BY <2>1 DEF OncePerPass
  <2>3. (\A s \in Source : rows[s].id # 0 => Fresh(s, Reached(s)))'
    BY <2>1 DEF PassesCount, Fresh, Reached
  <2>4. (pc = "upsert" /\ stat.row.id # 0 => Fresh(<<cur.w, stat.path>>, stat.row.offset))'
    BY <2>1 DEF PassesCount, Fresh
  <2>5. (Working => \A p \in Path : states[p].id # 0
                      => Fresh(<<cur.w, p>>, states[p].offset))'
    BY <2>1 DEF PassesCount, Fresh, Working
  <2>6. (pc = "line" => Fresh(Here, batch.at))' /\ (pc \in {"record", "ack"} => Fresh(Here, batch.line))'
    BY <2>1 DEF PassesCount, Fresh
  <2>7. (pc = "record" => occ[Here][batch.gen][batch.line] < hits[Here][batch.gen][batch.line])'
    BY <2>1 DEF PassesCount
  <2> QED
    BY <2>2, <2>3, <2>4, <2>5, <2>6, <2>7 DEF PassesCount
<1>2. ASSUME CycleFails, pc \in {"record", "ack"} => rows[Here].id = 0
      PROVE OncePerPass' /\ PassesCount'
  BY <1>2, CountsKept DEF CycleFails, tables
<1>3. CASE Abort \/ Crash
  <2>1. /\ UNCHANGED <<rows, hits, occ>> /\ pc' \in {"idle", "down"}
        /\ IF pc \in {"record", "ack"} THEN passes' = [passes EXCEPT ![Here] = @ + 1]
           ELSE passes' = passes
    BY <1>3 DEF Abort, Crash, Interrupted, Bumped, tables
  <2>2. CASE pc \notin {"record", "ack"}
    BY <2>1, <2>2, CountsKept
  <2>3. CASE pc \in {"record", "ack"}
    <3>1. Here \in Source
      BY <2>3 DEF Here, Source, Located, Working, Reading
    <3>2. passes'[Here] = passes[Here] + 1
          /\ \A s \in Source : s # Here => passes'[s] = passes[s]
      BY <2>1, <2>3, <3>1 DEF TypeOK
    <3>3. OncePerPass'
      <4> SUFFICES ASSUME NEW s \in Source, NEW g \in Gen, NEW n \in Pos
                   PROVE occ'[s][g][n] <= hits'[s][g][n] /\ hits'[s][g][n] <= passes'[s]
        BY DEF OncePerPass
      <4>1. occ[s][g][n] <= hits[s][g][n] /\ hits[s][g][n] <= passes[s]
            /\ hits[s][g][n] \in Nat /\ passes[s] \in Nat
        BY DEF OncePerPass, TypeOK, TablesOK
      <4> QED
        BY <2>1, <3>2, <4>1
    <3>4. (\A s \in Source : rows[s].id # 0 => Fresh(s, Reached(s)))'
      <4> SUFFICES ASSUME NEW s \in Source, rows[s].id # 0 PROVE Fresh(s, rows[s].offset)'
        BY <2>1 DEF Reached
      <4>1. CASE s = Here
        BY <2>1, <3>1, <3>2, <4>1, NewPass DEF Fresh
      <4>2. CASE s # Here
        BY <2>1, <3>2, <4>2 DEF PassesCount, Reached, Fresh
      <4> QED
        BY <4>1, <4>2
    <3> QED
      BY <2>1, <3>3, <3>4 DEF PassesCount, Working
  <2> QED
    BY <2>2, <2>3
<1>4. CASE BeginCycle \/ EndCycle \/ FilesDone \/ RefreshDone \/ LinesDone
  BY <1>4, CountsKept DEF BeginCycle, EndCycle, FilesDone, RefreshDone, LinesDone, Working,
     tables, locals
<1>5. ASSUME NEW w \in Watch, ExpandWatch(w) PROVE OncePerPass' /\ PassesCount'
  BY <1>5, CountsKept DEF ExpandWatch, tables, Located
<1>6. ASSUME NEW p \in Path, StatFile(p) PROVE OncePerPass' /\ PassesCount'
  <2>1. CASE CycleFails
    BY <1>2, <1>6, <2>1 DEF StatFile
  <2>2. CASE ~CycleFails
    <3>1. /\ stat' = [path |-> p, inode |-> disk[p].inode, size |-> disk[p].len,
                      row |-> rows[<<cur.w, p>>]]
          /\ UNCHANGED <<rows, hits, occ, passes, cur, states>> /\ pc' = "upsert" /\ pc = "refresh"
      BY <1>6, <2>2 DEF StatFile, tables
    <3>2. <<cur.w, p>> \in Source /\ Working
      BY <3>1 DEF Located, Working, Source
    <3>3. stat'.path = p /\ stat'.row = rows[<<cur.w, p>>]
      BY <3>1
    <3>4. OncePerPass'
      BY <3>1 DEF OncePerPass
    <3>5. (\A s \in Source : rows[s].id # 0 => Fresh(s, Reached(s)))'
      BY <3>1 DEF PassesCount, Reached, Fresh
    <3>6. (pc = "upsert" /\ stat.row.id # 0 => Fresh(<<cur.w, stat.path>>, stat.row.offset))'
      BY <3>1, <3>2, <3>3 DEF PassesCount, Reached, Fresh
    <3>7. (Working => \A q \in Path : states[q].id # 0
                        => Fresh(<<cur.w, q>>, states[q].offset))'
      BY <3>1, <3>2 DEF PassesCount, Fresh
    <3> QED
      BY <3>1, <3>4, <3>5, <3>6, <3>7 DEF PassesCount
  <2> QED
    BY <2>1, <2>2
<1>7. ASSUME NEW p \in Path, ReadLines(p) PROVE OncePerPass' /\ PassesCount'
  <2>1. CASE disk[p].kind = "dir"
    BY <1>2, <1>7, <2>1 DEF ReadLines
  <2>2. CASE disk[p].kind \in {"none", "file"}
    <3>1. /\ UNCHANGED <<rows, hits, occ, passes, cur>> /\ pc = "file" /\ pc' \in {"file", "line"}
          /\ \A q \in Path : states'[q].id = 0 \/ states'[q] = states[q]
      <4>1. states' = [states EXCEPT ![p] = NoState]
        BY <1>7, <2>2 DEF ReadLines
      <4>2. \A q \in Path : states'[q].id = 0 \/ states'[q] = states[q]
        BY <4>1 DEF NoState, TypeOK, LocalsOK
      <4> QED
        BY <1>7, <2>2, <4>2 DEF ReadLines, tables
    <3>2. OncePerPass'
      BY <3>1 DEF OncePerPass
    <3>3. (\A s \in Source : rows[s].id # 0 => Fresh(s, Reached(s)))'
      BY <3>1 DEF PassesCount, Reached, Fresh
    <3>4. (Working => \A q \in Path : states[q].id # 0
                        => Fresh(<<cur.w, q>>, states[q].offset))'
      BY <3>1 DEF PassesCount, Fresh, Working
    <3>5. ASSUME pc' = "line" PROVE Fresh(Here, batch.at)'
      <4>1. disk[p].kind = "file"
        BY <1>7, <2>2, <3>1, <3>5 DEF ReadLines
      <4>2. Here' = <<cur.w, p>> /\ batch'.at = states[p].offset /\ states[p].id # 0
        BY <1>7, <4>1, ReadLinesEffect
      <4>3. Fresh(<<cur.w, p>>, states[p].offset)
        BY <3>1, <4>2 DEF PassesCount, Working
      <4> QED
        BY <3>1, <4>2, <4>3 DEF Fresh
    <3> QED
      BY <3>1, <3>2, <3>3, <3>4, <3>5 DEF PassesCount
  <2> QED
    BY <2>1, <2>2 DEF TypeOK, DisksOK, FileType
<1>8. CASE InsertRow
  <2>1. CASE watched[cur.w].id = cur.id
    <3> DEFINE s0 == <<cur.w, stat.path>>
    <3>0. /\ s0 \in Source /\ pc' = "refresh" /\ cur' = cur /\ passes'[s0] = passes[s0] + 1
          /\ \A t \in Source : t # s0 => rows'[t] = rows[t] /\ passes'[t] = passes[t]
          /\ \A p \in Path : p # stat.path => states'[p] = states[p]
          /\ UNCHANGED <<hits, occ>> /\ pc = "upsert"
      BY <1>8, <2>1, InsertRowEffect DEF InsertRow
    <3> HIDE DEF s0
    <3>1. OncePerPass'
      <4> SUFFICES ASSUME NEW s \in Source, NEW g \in Gen, NEW n \in Pos
                   PROVE occ'[s][g][n] <= hits'[s][g][n] /\ hits'[s][g][n] <= passes'[s]
        BY DEF OncePerPass
      <4>1. occ[s][g][n] <= hits[s][g][n] /\ hits[s][g][n] <= passes[s]
            /\ hits[s][g][n] \in Nat /\ passes[s] \in Nat
        BY DEF OncePerPass, TypeOK, TablesOK
      <4> QED
        BY <3>0, <4>1
    <3>2. \A g \in Gen, n \in Pos : hits'[s0][g][n] < passes'[s0]
      BY <3>0, NewPass
    <3>3. (\A s \in Source : rows[s].id # 0 => Fresh(s, Reached(s)))'
      BY <3>0, <3>2 DEF PassesCount, Reached, Fresh
    <3>4. ASSUME NEW p \in Path, states'[p].id # 0 PROVE Fresh(<<cur.w, p>>, states[p].offset)'
      <4>1. CASE p = stat.path
        BY <3>0, <3>2, <4>1 DEF s0, Fresh
      <4>2. CASE p # stat.path
        <5>1. <<cur.w, p>> # s0 /\ <<cur.w, p>> \in Source /\ Working
          BY <3>0, <4>2 DEF s0, Source, Located, Working
        <5> QED
          BY <3>0, <3>4, <4>2, <5>1 DEF PassesCount, Fresh
      <4> QED
        BY <4>1, <4>2
    <3> QED
      BY <3>0, <3>1, <3>3, <3>4 DEF PassesCount
  <2> QED
    BY <1>2, <1>8, <2>1 DEF InsertRow
<1>9. CASE UpdateRow
  <2> DEFINE s0 == <<cur.w, stat.path>>
             o0 == ResumeAt(stat)
  <2>0. /\ s0 \in Source /\ pc' = "refresh" /\ cur' = cur
        /\ passes'[s0] = IF o0 < stat.row.offset THEN passes[s0] + 1 ELSE passes[s0]
        /\ rows'[s0] = rows[s0] \/ rows'[s0].offset = o0
        /\ states'[stat.path].offset = o0
        /\ \A t \in Source : t # s0 => rows'[t] = rows[t] /\ passes'[t] = passes[t]
        /\ \A p \in Path : p # stat.path => states'[p] = states[p]
        /\ UNCHANGED <<hits, occ>> /\ pc = "upsert" /\ stat.row.id # 0
    BY <1>9, UpdateRowEffect DEF UpdateRow
  <2>1. rows[s0].id = 0 \/ (rows[s0].id = stat.row.id)
    BY <2>0 DEF Current, RowAsRead
  <2>2. rows'[s0].id = 0 \/ rows'[s0].offset = o0
    BY <1>9, <2>1, UpdateRowEffect
  <2>3. o0 < stat.row.offset \/ o0 = stat.row.offset
    BY DEF ResumeAt, TypeOK, LocalsOK, StatType, RowType
  <2>4. Fresh(s0, stat.row.offset)
    BY <2>0 DEF PassesCount
  <2> HIDE DEF s0, o0
  <2>5. \A g \in Gen, n \in Pos : n > o0 => hits'[s0][g][n] < passes'[s0]
    <3>1. CASE o0 < stat.row.offset
      BY <2>0, <3>1, NewPass DEF Fresh
    <3>2. CASE ~(o0 < stat.row.offset)
      BY <2>0, <2>3, <2>4, <3>2 DEF Fresh
    <3> QED
      BY <3>1, <3>2
  <2>6. OncePerPass'
    <3> SUFFICES ASSUME NEW s \in Source, NEW g \in Gen, NEW n \in Pos
                 PROVE occ'[s][g][n] <= hits'[s][g][n] /\ hits'[s][g][n] <= passes'[s]
      BY DEF OncePerPass
    <3>1. occ[s][g][n] <= hits[s][g][n] /\ hits[s][g][n] <= passes[s]
          /\ hits[s][g][n] \in Nat /\ passes[s] \in Nat
      BY DEF OncePerPass, TypeOK, TablesOK
    <3> QED
      BY <2>0, <3>1
  <2>7. (\A s \in Source : rows[s].id # 0 => Fresh(s, Reached(s)))'
    <3> SUFFICES ASSUME NEW s \in Source, rows'[s].id # 0 PROVE Fresh(s, rows[s].offset)'
      BY <2>0 DEF Reached
    <3>1. CASE s = s0
      BY <2>2, <2>5, <3>1 DEF Fresh
    <3>2. CASE s # s0
      BY <2>0, <3>2 DEF PassesCount, Reached, Fresh
    <3> QED
      BY <3>1, <3>2
  <2>8. ASSUME NEW p \in Path, states'[p].id # 0 PROVE Fresh(<<cur.w, p>>, states[p].offset)'
    <3>1. CASE p = stat.path
      BY <2>0, <2>5, <3>1 DEF s0, Fresh
    <3>2. CASE p # stat.path
      <4>1. <<cur.w, p>> # s0 /\ <<cur.w, p>> \in Source /\ Working
        BY <2>0, <3>2 DEF s0, Source, Located, Working
      <4> QED
        BY <2>0, <2>8, <3>2, <4>1 DEF PassesCount, Fresh
    <3> QED
      BY <3>1, <3>2
  <2> QED
    BY <2>0, <2>6, <2>7, <2>8 DEF PassesCount
<1>10. ASSUME NEW n \in Pos, Reading, UpdateOffset(n), Fresh(Here, n), Here \in Source
       PROVE OncePerPass' /\ PassesCount'
  <2>1. CASE rows[Here].id = batch.id
    <3>0. /\ UNCHANGED <<cur, states, hits, occ, passes>> /\ Here' = Here /\ pc' = "line"
          /\ batch'.at = n /\ rows'[Here].offset = n
          /\ \A t \in Source : t # Here => rows'[t] = rows[t]
      BY <1>10, <2>1, UpdateOffsetEffect
    <3>1. OncePerPass'
      BY <3>0 DEF OncePerPass
    <3>2. (\A s \in Source : rows[s].id # 0 => Fresh(s, Reached(s)))'
      BY <1>10, <3>0 DEF PassesCount, Reached, Fresh
    <3>3. (Working => \A q \in Path : states[q].id # 0
                        => Fresh(<<cur.w, q>>, states[q].offset))'
      BY <1>10, <3>0 DEF PassesCount, Fresh, Working, Reading
    <3>4. Fresh(Here, batch.at)'
      BY <1>10, <3>0 DEF Fresh
    <3> QED
      BY <3>0, <3>1, <3>2, <3>3, <3>4 DEF PassesCount
  <2>2. CASE rows[Here].id # batch.id
    <3>1. rows[Here].id = 0
      BY <1>10, <2>2 DEF Current, RowAsRead
    <3> QED
      BY <1>2, <1>10, <2>2, <3>1 DEF UpdateOffset
  <2> QED
    BY <2>1, <2>2
<1>11. ASSUME NEW n \in Pos, SkipLine(n) PROVE OncePerPass' /\ PassesCount'
  <2>1. Fresh(Here, batch.at) /\ batch.at < n /\ Reading /\ Here \in Source
        /\ batch.at \in Int /\ n \in Int
    BY <1>11 DEF SkipLine, NextLine, PassesCount, Reading, Here, Source, Located, Working,
       TypeOK, LocalsOK, BatchType, Pos
  <2>2. Fresh(Here, n)
    BY <2>1 DEF Fresh, Pos
  <2> QED
    BY <1>10, <1>11, <2>1, <2>2 DEF SkipLine
<1>12. CASE Ack
  <2>1. Fresh(Here, batch.line) /\ Reading /\ Here \in Source /\ batch.line \in Pos
    BY <1>12 DEF Ack, PassesCount, Reading, Here, Source, Located, Working
  <2> QED
    BY <1>10, <1>12, <2>1 DEF Ack
<1>13. ASSUME NEW n \in Pos, CountMatch(n) PROVE OncePerPass' /\ PassesCount'
  <2>0. /\ Here \in Source /\ Here' = Here /\ batch.gen \in Gen /\ pc = "line"
        /\ pc' \in {"record", "ack"} /\ batch'.line = n /\ batch'.gen = batch.gen
        /\ hits'[Here][batch.gen][n] = hits[Here][batch.gen][n] + 1
        /\ \A t \in Source, g \in Gen, m \in Pos :
             <<t, g, m>> # <<Here, batch.gen, n>> => hits'[t][g][m] = hits[t][g][m]
        /\ UNCHANGED <<rows, occ, cur, states, passes>>
    BY <1>13, CountMatchEffect
  <2>1. batch.at < n /\ Fresh(Here, batch.at) /\ batch.at \in Int
    BY <1>13, <2>0 DEF CountMatch, NextLine, PassesCount, TypeOK, LocalsOK, BatchType
  <2>2. OncePerPass'
    <3> SUFFICES ASSUME NEW s \in Source, NEW g \in Gen, NEW m \in Pos
                 PROVE occ'[s][g][m] <= hits'[s][g][m] /\ hits'[s][g][m] <= passes'[s]
      BY DEF OncePerPass
    <3>1. occ[s][g][m] <= hits[s][g][m] /\ hits[s][g][m] <= passes[s]
          /\ hits[s][g][m] \in Nat /\ passes[s] \in Nat /\ occ[s][g][m] \in Nat
      BY DEF OncePerPass, TypeOK, TablesOK
    <3>2. CASE <<s, g, m>> = <<Here, batch.gen, n>>
      BY <2>0, <2>1, <3>1, <3>2 DEF Fresh
    <3>3. CASE <<s, g, m>> # <<Here, batch.gen, n>>
      BY <2>0, <3>1, <3>3
    <3> QED
      BY <3>2, <3>3
  <2>3. \A s \in Source : \A o : s # Here /\ Fresh(s, o) => Fresh(s, o)'
    BY <2>0 DEF Fresh
  <2>4. Fresh(Here, n)'
    <3> SUFFICES ASSUME NEW g \in Gen, NEW m \in Pos, m > n
                 PROVE hits'[Here][g][m] < passes'[Here]
      BY <2>0 DEF Fresh
    <3>1. m # n /\ m > batch.at
      BY <2>1 DEF Pos
    <3> QED
      BY <2>0, <2>1, <3>1 DEF Fresh
  <2>5. (\A s \in Source : rows[s].id # 0 => Fresh(s, Reached(s)))'
    <3> SUFFICES ASSUME NEW s \in Source, rows[s].id # 0 PROVE Fresh(s, Reached(s))'
      BY <2>0
    <3>1. CASE s = Here
      BY <2>0, <2>4, <3>1 DEF Reached
    <3>2. CASE s # Here
      <4>1. Fresh(s, rows[s].offset)
        BY <2>0 DEF PassesCount, Reached
      <4> QED
        BY <2>0, <2>3, <3>2, <4>1 DEF Reached
    <3> QED
      BY <3>1, <3>2
  <2>6. ASSUME NEW q \in Path, states[q].id # 0 PROVE Fresh(<<cur.w, q>>, states[q].offset)'
    <3>1. <<cur.w, q>> # Here /\ <<cur.w, q>> \in Source /\ Working
      BY <2>0, <2>6 DEF Located, Reading, Working, Here, Source
    <3>2. Fresh(<<cur.w, q>>, states[q].offset)
      BY <2>6, <3>1 DEF PassesCount
    <3> QED
      BY <2>0, <2>3, <3>1, <3>2
  <2>7. occ'[Here][batch.gen][n] < hits'[Here][batch.gen][n]
    <3>1. occ[Here][batch.gen][n] <= hits[Here][batch.gen][n]
          /\ hits[Here][batch.gen][n] \in Nat /\ occ[Here][batch.gen][n] \in Nat
      BY <2>0 DEF OncePerPass, TypeOK, TablesOK
    <3> QED
      BY <2>0, <3>1
  <2> QED
    BY <2>0, <2>2, <2>4, <2>5, <2>6, <2>7 DEF PassesCount
<1>14. CASE Record
  <2>1. CASE rows[Here].id = batch.id
    <3>0. /\ Here \in Source /\ Here' = Here /\ batch.gen \in Gen /\ batch.line \in Pos
          /\ pc = "record" /\ pc' = "ack"
          /\ occ'[Here][batch.gen][batch.line] = occ[Here][batch.gen][batch.line] + 1
          /\ \A t \in Source, g \in Gen, m \in Pos :
               <<t, g, m>> # <<Here, batch.gen, batch.line>> => occ'[t][g][m] = occ[t][g][m]
          /\ UNCHANGED <<rows, hits, cur, states, batch, passes>>
      BY <1>14, <2>1, RecordEffect
    <3>1. OncePerPass'
      <4> SUFFICES ASSUME NEW s \in Source, NEW g \in Gen, NEW m \in Pos
                   PROVE occ'[s][g][m] <= hits'[s][g][m] /\ hits'[s][g][m] <= passes'[s]
        BY DEF OncePerPass
      <4>1. occ[s][g][m] <= hits[s][g][m] /\ hits[s][g][m] <= passes[s]
            /\ hits[s][g][m] \in Nat /\ occ[s][g][m] \in Nat
        BY DEF OncePerPass, TypeOK, TablesOK
      <4>2. CASE <<s, g, m>> = <<Here, batch.gen, batch.line>>
        BY <3>0, <4>1, <4>2 DEF PassesCount
      <4>3. CASE <<s, g, m>> # <<Here, batch.gen, batch.line>>
        BY <3>0, <4>1, <4>3
      <4> QED
        BY <4>2, <4>3
    <3>2. PassesCount'
      <4>1. \A s \in Source : Reached(s)' = Reached(s)
        BY <3>0 DEF Reached
      <4> QED
        BY <3>0, <4>1 DEF PassesCount, Fresh, Working
    <3> QED
      BY <3>1, <3>2
  <2>2. CASE rows[Here].id # batch.id
    <3>1. rows[Here].id = 0
      BY <1>14, <2>2 DEF Record, Reading, Current, RowAsRead
    <3> QED
      BY <1>2, <1>14, <2>2, <3>1 DEF Record
  <2> QED
    BY <2>1, <2>2
<1> QED
  BY <1>1, <1>3, <1>4, <1>5, <1>6, <1>7, <1>8, <1>9, <1>11, <1>12, <1>13, <1>14
     DEF Next, Process, Lifecycle

-----------------------------------------------------------------------------
(* What is acknowledged was recorded, or need not be.                      *)

LEMMA SettledStep ==
  ASSUME TypeOK, Located, Settled, [Next]_vars
  PROVE  Settled'
<1>1. CASE Environment \/ Operators \/ Start \/ Exit \/ UNCHANGED vars
  BY <1>1, Undisturbed DEF Settled, TornBatch, Here
<1>2. CASE Record
  <2>1. CASE rows[Here].id = batch.id
    <3>1. occ[Here][batch.gen][batch.line] \in Nat
      BY <1>2, <2>1, RecordEffect DEF TypeOK, TablesOK
    <3>2. occ'[Here][batch.gen][batch.line] > 0 /\ Here' = Here /\ batch' = batch
      BY <1>2, <2>1, <3>1, RecordEffect
    <3> QED
      BY <3>2 DEF Settled
  <2>2. CASE rows[Here].id # batch.id
    BY <1>2, <2>2 DEF Record, CycleFails, Settled
  <2> QED
    BY <2>1, <2>2
<1>3. ASSUME NEW n \in Pos, CountMatch(n) PROVE Settled'
  <2>1. batch'.at = batch.at /\ batch'.gen = batch.gen /\ batch'.line = n
    BY <1>3, CountMatchEffect
  <2>2. pc' = "ack" => (TornBatch \/ Script[batch.gen][n] # "report")
    <3>1. PICK v \in Verdicts(n) : pc' = IF v = "report" THEN "record" ELSE "ack"
      BY <1>3 DEF CountMatch
    <3>2. TornBatch \/ v = Script[batch.gen][n]
      BY DEF Verdicts, TornBatch
    <3> QED
      BY <3>1, <3>2
  <2>3. pc' = "ack" => (TornBatch' \/ Script[batch'.gen][batch'.line] # "report")
    BY <2>1, <2>2 DEF TornBatch
  <2> QED
    BY <2>3 DEF Settled
<1>4. ASSUME NEW n \in Pos, UpdateOffset(n) PROVE Settled'
  BY <1>4 DEF UpdateOffset, CycleFails, Settled
<1>5. CASE Abort \/ Crash \/ BeginCycle \/ EndCycle \/ FilesDone \/ RefreshDone \/ LinesDone
  BY <1>5 DEF Abort, Crash, BeginCycle, EndCycle, FilesDone, RefreshDone, LinesDone, Settled
<1>6. ASSUME NEW w \in Watch, ExpandWatch(w) PROVE Settled'
  BY <1>6 DEF ExpandWatch, Settled
<1>7. ASSUME NEW p \in Path, StatFile(p) \/ ReadLines(p) PROVE Settled'
  BY <1>7 DEF StatFile, ReadLines, CycleFails, Settled
<1>8. CASE InsertRow \/ UpdateRow
  BY <1>8 DEF InsertRow, UpdateRow, Refreshed, CycleFails, Settled
<1> QED
  BY <1>1, <1>2, <1>3, <1>4, <1>5, <1>6, <1>7, <1>8
     DEF Next, Process, Lifecycle, SkipLine, Ack, Located

-----------------------------------------------------------------------------
(* The theorems for every environment.                                     *)

\* The invariant holds of an empty database.
LEMMA InitIInv == Init => IInv
<1> SUFFICES ASSUME Init PROVE IInv
  OBVIOUS
<1>1. TypeOK /\ Located
  BY InitTyped
<1>2. Current /\ Settled
  BY DEF Init, Current, Settled, Working, Reading
<1>3. OncePerPass
  BY DEF Init, OncePerPass
<1>4. PassesCount
  BY DEF Init, PassesCount, Working, NoRow
<1> QED
  BY <1>1, <1>2, <1>3, <1>4 DEF IInv

\* Every step preserves the invariant.
LEMMA NextIInv == IInv /\ [Next]_vars => IInv'
  BY NextTyped, CurrentStep, CountStep, SettledStep DEF IInv

\* The data that RunCycle carries between its statements stays consistent with the
\* database, whatever the environment, the operators, crashes and errors do.
THEOREM Invariance == Spec => []IInv
BY InitIInv, NextIInv, PTL DEF Spec

\* Every variable keeps its type.
THEOREM TypeCorrect == Spec => []TypeOK
<1>1. IInv => TypeOK
  BY DEF IInv
<1> QED
  BY <1>1, Invariance, PTL

\* A line is matched and recorded at most once per pass over its file.
THEOREM AtMostOncePerPass == Spec => []OncePerPass
<1>1. IInv => OncePerPass
  BY DEF IInv
<1> QED
  BY <1>1, Invariance, PTL

\* No row of log_files outlives its watched log: insertFile meets the foreign key.
LEMMA NoOrphansStep ==
  ASSUME IInv, NoOrphans, [Next]_vars PROVE NoOrphans'
<1> USE DEF NoOrphans
<1>0. TypeOK /\ Located
  BY DEF IInv
<1>1. CASE Environment \/ Start \/ Exit \/ UNCHANGED vars
  BY <1>1 DEF Environment, CreateFile, Append, RemoveFile, TruncateFile, MakeDir, RenameFile,
     Start, Exit, vars, tables
<1>2. CASE Operators
  <2>1. ASSUME NEW w \in Watch, Add(w) PROVE NoOrphans'
    <3>1. \A v \in Watch : watched[v].id # 0 => watched'[v].id # 0
      <4>1. \/ watched' = [watched EXCEPT ![w] = [id |-> nextWid, enabled |-> TRUE]]
            \/ watched' = [watched EXCEPT ![w].enabled = TRUE]
        BY <2>1 DEF Add
      <4>2. watched \in [Watch -> [id : Nat, enabled : BOOLEAN]] /\ nextWid # 0
        BY <1>0 DEF TypeOK, TablesOK
      <4>3. CASE watched' = [watched EXCEPT ![w] = [id |-> nextWid, enabled |-> TRUE]]
        BY <4>2, <4>3
      <4>4. CASE watched' = [watched EXCEPT ![w].enabled = TRUE]
        BY <4>2, <4>4
      <4> QED
        BY <4>1, <4>3, <4>4
    <3> QED
      BY <2>1, <3>1 DEF Add, Source
  <2>2. ASSUME NEW w \in Watch, Remove(w) PROVE NoOrphans'
    BY <1>0, <2>2 DEF Remove, NoRow, Source, TypeOK, TablesOK
  <2>3. ASSUME NEW w \in Watch, Disable(w) PROVE NoOrphans'
    <3>1. \A v \in Watch : watched'[v].id = watched[v].id
      BY <1>0, <2>3 DEF Disable, TypeOK, TablesOK
    <3> QED
      BY <2>3, <3>1 DEF Disable, Source
  <2> QED
    BY <1>2, <2>1, <2>2, <2>3 DEF Operators, EditRules
<1>3. CASE InsertRow
  <2>1. CASE watched[cur.w].id = cur.id
    <3>1. cur.w \in Watch /\ watched[cur.w].id # 0 /\ watched' = watched
          /\ \A t \in Source : t # <<cur.w, stat.path>> => rows'[t] = rows[t]
      BY <1>0, <1>3, <2>1, InsertRowEffect DEF InsertRow, Located, Working
    <3> QED
      BY <3>1 DEF Source
  <2> QED
    BY <1>3, <2>1 DEF InsertRow, CycleFails, tables
<1>4. CASE UpdateRow
  BY <1>0, <1>4, UpdateRowEffect DEF UpdateRow, IInv, Current, RowAsRead
<1>5. ASSUME NEW n \in Pos, Reading, UpdateOffset(n) PROVE NoOrphans'
  <2>1. CASE rows[Here].id = batch.id
    BY <1>0, <1>5, <2>1, UpdateOffsetEffect
  <2> QED
    BY <1>5, <2>1 DEF UpdateOffset, CycleFails, tables
<1>6. CASE BeginCycle \/ EndCycle \/ RefreshDone \/ FilesDone \/ LinesDone \/ Record \/ Abort \/ Crash
  BY <1>6 DEF BeginCycle, EndCycle, RefreshDone, FilesDone, LinesDone, Record, Abort, Crash,
     CycleFails, tables
<1>7. ASSUME NEW w \in Watch, ExpandWatch(w) PROVE NoOrphans'
  BY <1>7 DEF ExpandWatch, tables
<1>8. ASSUME NEW p \in Path, StatFile(p) \/ ReadLines(p) PROVE NoOrphans'
  BY <1>8 DEF StatFile, ReadLines, CycleFails, tables
<1>9. ASSUME NEW n \in Pos, CountMatch(n) PROVE NoOrphans'
  BY <1>9 DEF CountMatch
<1> QED
  BY <1>0, <1>1, <1>2, <1>3, <1>4, <1>5, <1>6, <1>7, <1>8, <1>9
     DEF Next, Process, Lifecycle, SkipLine, Ack, Reading, Located

\* No row of log_files outlives its watched log.
THEOREM RowsBelong == Spec => []NoOrphans
<1>1. Init => NoOrphans
  BY DEF Init, NoOrphans, NoRow
<1>2. IInv /\ NoOrphans /\ [Next]_vars => NoOrphans'
  BY NoOrphansStep
<1> QED
  BY <1>1, <1>2, Invariance, PTL DEF Spec

-----------------------------------------------------------------------------
(* LogIngest implements LineDelivery.                                      *)

Cursor == [s \in Source |-> IF rows[s].id = 0 THEN -1 ELSE rows[s].offset]

\* The cursor of a source is the offset of its row, or Untracked.
LEMMA CursorValue ==
  /\ \A s \in Source : Cursor[s] = IF rows[s].id = 0 THEN -1 ELSE rows[s].offset
  /\ \A s \in Source : Cursor'[s] = IF rows'[s].id = 0 THEN -1 ELSE rows'[s].offset
  BY DEF Cursor

\* One row changes: the cursor changes at one source.
LEMMA OneCursor ==
  ASSUME NEW s \in Source, \A t \in Source : t # s => rows'[t] = rows[t], rows'[s].id # 0
  PROVE  Cursor' = [Cursor EXCEPT ![s] = rows'[s].offset]
  BY DEF Cursor

\* Every step of LogIngest is a step of LineDelivery or leaves its variables alone.
LEMMA DeliveryStep ==
  ASSUME IInv, [Next]_vars PROVE [Delivery!Next]_(Delivery!vars)
<1> USE DEF Delivery!Next, Delivery!vars
<1>0. TypeOK /\ Located /\ Current /\ Settled
  BY DEF IInv
<1>1. ASSUME rows' = rows, occ' = occ PROVE [Delivery!Next]_(Delivery!vars)
  BY <1>1
<1>2. ASSUME NEW w \in Watch, Remove(w) PROVE [Delivery!Next]_(Delivery!vars)
  <2> DEFINE S == {s \in Source : s[1] = w}
  <2>1. Cursor' = [s \in Source |-> IF s \in S THEN -1 ELSE Cursor[s]] /\ occ' = occ
    BY <1>2 DEF Remove, NoRow, Cursor
  <2>2. Delivery!Forget(S)
    BY <2>1 DEF Delivery!Forget, Delivery!Untracked, Cursor
  <2> QED
    BY <2>2
<1>3. CASE InsertRow
  <2>1. CASE watched[cur.w].id = cur.id
    <3>0. PICK s \in Source : s = <<cur.w, stat.path>>
      BY <1>0, <1>3, <2>1, InsertRowEffect
    <3>1. rows[s].id = 0
      BY <1>0, <1>3, <2>1, <3>0 DEF InsertRow, Current, RowAsRead
    <3>2. /\ rows'[s].id # 0 /\ rows'[s].offset = 0 /\ occ' = occ
          /\ \A t \in Source : t # s => rows'[t] = rows[t]
      BY <1>0, <1>3, <2>1, <3>0, InsertRowEffect
    <3>3. Cursor' = [Cursor EXCEPT ![s] = 0] /\ Cursor[s] = -1
      BY <3>1, <3>2, OneCursor, CursorValue
    <3>4. Delivery!Track(s)
      BY <3>1, <3>2, <3>3 DEF Delivery!Track, Delivery!Untracked, Cursor
    <3> QED
      BY <3>4
  <2> QED
    BY <1>1, <1>3, <2>1 DEF InsertRow, CycleFails, tables
<1>4. CASE UpdateRow
  <2>0. PICK s \in Source : s = <<cur.w, stat.path>>
    BY <1>0, <1>4, UpdateRowEffect
  <2>3. pc = "upsert" /\ stat.row.id # 0 /\ occ' = occ
    BY <1>0, <1>4, UpdateRowEffect DEF UpdateRow
  <2>1. CASE rows[s].id # stat.row.id
    BY <1>1, <1>4, <2>0, <2>3, <2>1 DEF UpdateRow
  <2>2. CASE rows[s].id = stat.row.id
    <3>1. /\ rows'[s].id # 0 /\ rows'[s].offset = ResumeAt(stat)
          /\ \A t \in Source : t # s => rows'[t] = rows[t]
      BY <1>0, <1>4, <2>0, <2>3, <2>2, UpdateRowEffect
    <3>2. rows[s].offset = stat.row.offset
      BY <1>0, <2>0, <2>3, <2>2 DEF Current, RowAsRead
    <3>3. Cursor' = [Cursor EXCEPT ![s] = ResumeAt(stat)] /\ Cursor[s] = stat.row.offset
      BY <2>3, <2>2, <3>1, <3>2, OneCursor, CursorValue
    <3>4. CASE ResumeAt(stat) = stat.row.offset
      BY <2>3, <3>3, <3>4 DEF Cursor
    <3>5. CASE ResumeAt(stat) # stat.row.offset
      <4>1. ResumeAt(stat) = 0 /\ stat.row.offset > 0
        BY <1>0, <3>5 DEF ResumeAt, TypeOK, LocalsOK, StatType, RowType
      <4>2. Delivery!Rewind(s)
        BY <2>3, <3>3, <4>1 DEF Delivery!Rewind, Cursor
      <4> QED
        BY <4>2
    <3> QED
      BY <3>4, <3>5
  <2> QED
    BY <2>1, <2>2
<1>5. ASSUME NEW n \in Pos, Reading, NextLine(n), UpdateOffset(n),
             \/ TornBatch
             \/ Script[batch.gen][n] # "report"
             \/ occ[Here][batch.gen][n] > 0
      PROVE [Delivery!Next]_(Delivery!vars)
  <2>1. CASE rows[Here].id = batch.id
    <3>1. Here \in Source /\ batch.gen \in Gen /\ batch.id # 0 /\ rows[Here].offset = batch.at
      BY <1>0, <1>5, <2>1 DEF Here, Source, Located, Reading, Working, Current, RowAsRead
    <3>2. /\ rows'[Here].id # 0 /\ rows'[Here].offset = n /\ occ' = occ
          /\ \A t \in Source : t # Here => rows'[t] = rows[t]
      BY <1>0, <1>5, <2>1, <3>1, UpdateOffsetEffect
    <3>3. Cursor' = [Cursor EXCEPT ![Here] = n] /\ Cursor[Here] = batch.at /\ Cursor[Here] # -1
      BY <1>0, <2>1, <3>1, <3>2, OneCursor, CursorValue DEF TypeOK, LocalsOK, BatchType
    <3>4. Delivery!Pass(Here, batch.gen, n)
      <4>1. Delivery!Head(batch.gen, batch.at, n)
        BY <1>5 DEF NextLine, Delivery!Head, Delivery!EndsLine
      <4>2. \/ Delivery!Torn(batch.gen, batch.at)
            \/ Script[batch.gen][n] # "report"
            \/ occ[Here][batch.gen][n] > 0
        BY <1>5 DEF TornBatch, Delivery!Torn, Delivery!EndsLine
      <4> QED
        BY <3>2, <3>3, <4>1, <4>2 DEF Delivery!Pass, Delivery!Untracked, Cursor
    <3> QED
      BY <3>1, <3>4
  <2> QED
    BY <1>1, <1>5, <2>1 DEF UpdateOffset, CycleFails, tables
<1>6. CASE Record
  <2>1. CASE rows[Here].id = batch.id
    <3>1. /\ Here \in Source /\ batch.gen \in Gen /\ batch.line \in Pos /\ NextLine(batch.line)
          /\ batch.id # 0 /\ rows[Here].offset = batch.at
          /\ rows' = rows /\ occ' = [occ EXCEPT ![Here][batch.gen][batch.line] = @ + 1]
      BY <1>0, <1>6, <2>1 DEF Record, Here, Source, Located, Reading, Working, Current, RowAsRead
    <3>2. Cursor[Here] = batch.at /\ Cursor[Here] # -1 /\ Cursor' = Cursor
      BY <1>0, <2>1, <3>1, CursorValue DEF Cursor, TypeOK, LocalsOK, BatchType
    <3>3. Delivery!Head(batch.gen, batch.at, batch.line)
      BY <3>1 DEF NextLine, Delivery!Head, Delivery!EndsLine
    <3>4. Delivery!Deliver(Here, batch.gen, batch.line)
      BY <3>1, <3>2, <3>3 DEF Delivery!Deliver, Delivery!Untracked, Cursor
    <3> QED
      BY <3>1, <3>4
  <2> QED
    BY <1>1, <1>6, <2>1 DEF Record, CycleFails, tables
<1>7. ASSUME NEW n \in Pos, SkipLine(n) PROVE [Delivery!Next]_(Delivery!vars)
  <2>1. TornBatch \/ Script[batch.gen][n] # "report"
    BY <1>7 DEF SkipLine, Verdicts, TornBatch
  <2> QED
    BY <1>5, <1>7, <2>1 DEF SkipLine, Reading
<1>8. CASE Ack
  BY <1>0, <1>5, <1>8 DEF Ack, Reading, Located, Settled
<1>9. CASE Environment \/ Start \/ Exit \/ UNCHANGED vars
  BY <1>1, <1>9 DEF Environment, CreateFile, Append, RemoveFile, TruncateFile, MakeDir,
     RenameFile, Start, Exit, vars, tables
<1>10. CASE Operators
  BY <1>1, <1>2, <1>10 DEF Operators, Add, Disable, EditRules
<1>11. CASE BeginCycle \/ EndCycle \/ RefreshDone \/ FilesDone \/ LinesDone \/ Abort \/ Crash
  BY <1>1, <1>11 DEF BeginCycle, EndCycle, RefreshDone, FilesDone, LinesDone, Abort, Crash, tables
<1>12. ASSUME NEW w \in Watch, ExpandWatch(w) PROVE [Delivery!Next]_(Delivery!vars)
  BY <1>1, <1>12 DEF ExpandWatch, tables
<1>13. ASSUME NEW p \in Path, StatFile(p) \/ ReadLines(p) PROVE [Delivery!Next]_(Delivery!vars)
  BY <1>1, <1>13 DEF StatFile, ReadLines, CycleFails, tables
<1>14. ASSUME NEW n \in Pos, CountMatch(n) PROVE [Delivery!Next]_(Delivery!vars)
  BY <1>1, <1>14 DEF CountMatch
<1> QED
  BY <1>3, <1>4, <1>6, <1>7, <1>8, <1>9, <1>10, <1>11, <1>12, <1>13, <1>14
     DEF Next, Process, Lifecycle

\* The processor keeps the promise of LineDelivery in every environment.
THEOREM Refinement == Spec => DeliverySpec
<1>1. Init => Delivery!Init
  BY DEF Init, Delivery!Init, Delivery!Untracked, NoRow
<1>2. IInv /\ [Next]_vars => [Delivery!Next]_(Delivery!vars)
  BY DeliveryStep
<1> QED
  BY <1>1, <1>2, Invariance, PTL DEF Spec, DeliverySpec, Delivery!Spec
=============================================================================
