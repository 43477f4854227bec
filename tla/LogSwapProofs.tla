---------------------------- MODULE LogSwapProofs ----------------------------
(***************************************************************************)
(* NoSilentSkip for every instance of LogIngest where files are created,   *)
(* appended to, removed and renamed, but never truncated in place or given *)
(* back a name they had, and no inode number is used again.  The argument  *)
(* is SwapInv: an inode is one generation of a file and never returns to a *)
(* name, so a batch read from a file other than the one its row was made   *)
(* for can leave a wrong offset only in a row whose own file has left the  *)
(* path for good.                                                          *)
(***************************************************************************)
EXTENDS LogIngestProofs

USE PathAssumption, BoundAssumption

SwapOnly == Rotations \cap {"truncate", "reuse", "restore"} = {}

\* What a rotation does: a new file has a new inode, and an inode seen at p has p among
\* its names or is gone; if it is at p then it never left.
LEMMA RotationEffect ==
  ASSUME SwapOnly, TypeOK, Identity, Environment
  PROVE  /\ \A p \in Path : disk'[p].kind = "file" =>
              disk'[p].inode = disk'[p].gen /\ disk'[p].gen < nextGen' /\ p \in disk'[p].names
         /\ \A p, q \in Path : disk'[p].kind = "file" /\ disk'[q].kind = "file"
                                 /\ disk'[p].inode = disk'[q].inode => p = q
         /\ \A i \in Nat, p \in Path : SeenAt(i, p) =>
              /\ i < nextGen'
              /\ \A q \in Path : disk'[q].kind = "file" /\ disk'[q].inode = i
                      => p \in disk'[q].names
              /\ disk'[p].kind = "file" /\ disk'[p].inode = i
                   => disk[p].kind = "file" /\ disk[p].inode = i
<1> DEFINE Goal ==
         /\ \A p \in Path : disk'[p].kind = "file" =>
              disk'[p].inode = disk'[p].gen /\ disk'[p].gen < nextGen' /\ p \in disk'[p].names
         /\ \A p, q \in Path : disk'[p].kind = "file" /\ disk'[q].kind = "file"
                                 /\ disk'[p].inode = disk'[q].inode => p = q
         /\ \A i \in Nat, p \in Path : SeenAt(i, p) =>
              /\ i < nextGen'
              /\ \A q \in Path : disk'[q].kind = "file" /\ disk'[q].inode = i
                      => p \in disk'[q].names
              /\ disk'[p].kind = "file" /\ disk'[p].inode = i
                   => disk[p].kind = "file" /\ disk[p].inode = i
<1>0. /\ disk \in [Path -> FileType] /\ nextGen \in Nat \ {0}
      /\ \A p \in Path : disk[p].kind = "file" =>
           disk[p].inode = disk[p].gen /\ disk[p].gen < nextGen /\ p \in disk[p].names
      /\ \A p, q \in Path : disk[p].kind = "file" /\ disk[q].kind = "file"
                              /\ disk[p].inode = disk[q].inode => p = q
  BY DEF TypeOK, DisksOK, Identity
<1>1. ASSUME NEW p \in Path, CreateFile(p) PROVE Goal
  <2>1. /\ disk' = [disk EXCEPT ![p] = EmptyFile(nextGen, nextGen, {p})]
        /\ nextGen' = nextGen + 1
    BY <1>1 DEF CreateFile, SwapOnly
  <2>2. /\ disk'[p].kind = "file" /\ disk'[p].inode = nextGen /\ disk'[p].gen = nextGen
        /\ p \in disk'[p].names
        /\ \A q \in Path : q # p => disk'[q] = disk[q]
    BY <1>0, <2>1 DEF EmptyFile
  <2>3. /\ \A r \in Path : disk'[r].kind = "file" =>
             disk'[r].inode = disk'[r].gen /\ disk'[r].gen < nextGen' /\ r \in disk'[r].names
        /\ \A r, t \in Path : disk'[r].kind = "file" /\ disk'[t].kind = "file"
                                /\ disk'[r].inode = disk'[t].inode => r = t
    <3>1. \A r \in Path : r # p /\ disk[r].kind = "file"
                            => disk[r].inode = disk[r].gen /\ disk[r].gen < nextGen
                               /\ disk[r].gen \in Nat /\ r \in disk[r].names
      BY <1>0 DEF FileType
    <3>2. \A r \in Path : disk'[r].kind = "file" =>
            disk'[r].inode = disk'[r].gen /\ disk'[r].gen < nextGen' /\ r \in disk'[r].names
      BY <1>0, <2>1, <2>2, <3>1
    <3>3. ASSUME NEW r \in Path, NEW t \in Path, disk'[r].kind = "file",
                 disk'[t].kind = "file", disk'[r].inode = disk'[t].inode
          PROVE  r = t
      <4>1. \A u \in Path : u # p /\ disk'[u].kind = "file" => disk'[u].inode # nextGen
        BY <1>0, <2>2, <3>1
      <4> QED BY <1>0, <2>2, <3>3, <4>1
    <3> QED
      BY <3>2, <3>3
  <2>4. ASSUME NEW i \in Nat, NEW r \in Path, SeenAt(i, r)
        PROVE  /\ i < nextGen'
               /\ \A t \in Path : disk'[t].kind = "file" /\ disk'[t].inode = i
                       => r \in disk'[t].names
               /\ disk'[r].kind = "file" /\ disk'[r].inode = i
                    => disk[r].kind = "file" /\ disk[r].inode = i
    <3>1. i < nextGen /\ \A t \in Path : disk[t].kind = "file" /\ disk[t].inode = i
                              => r \in disk[t].names
      BY <2>4 DEF SeenAt
    <3>2. i # nextGen /\ i < nextGen + 1
      BY <1>0, <3>1
    <3> QED
      BY <2>1, <2>2, <3>1, <3>2
  <2> QED
    BY <2>3, <2>4
<1>2. ASSUME NEW p \in Path, Append(p) PROVE Goal
  <2>1. /\ \A q \in Path : disk'[q].kind = disk[q].kind /\ disk'[q].inode = disk[q].inode
                           /\ disk'[q].gen = disk[q].gen /\ disk'[q].names = disk[q].names
        /\ nextGen' = nextGen
    BY <1>0, <1>2 DEF Append, FileType
  <2> QED
    BY <1>0, <2>1 DEF SeenAt
<1>3. ASSUME NEW p \in Path, RemoveFile(p) \/ MakeDir(p) PROVE Goal
  <2>1. /\ disk'[p].kind # "file" /\ nextGen' = nextGen
        /\ \A q \in Path : q # p => disk'[q] = disk[q]
    BY <1>0, <1>3 DEF RemoveFile, MakeDir, NoFile, Directory
  <2> QED
    BY <1>0, <2>1 DEF SeenAt
<1>4. ASSUME NEW p \in Path, NEW q \in Path, RenameFile(p, q) PROVE Goal
  <2>1. /\ nextGen' = nextGen /\ disk[p].kind = "file" /\ p # q /\ q \notin disk[p].names
        /\ disk' = [disk EXCEPT ![p] = NoFile,
                                ![q] = [disk[p] EXCEPT !.names = @ \cup {q}]]
    BY <1>4 DEF RenameFile, SwapOnly
  <2>2. /\ disk'[p].kind # "file" /\ disk'[q].kind = "file"
        /\ disk'[q].inode = disk[p].inode /\ disk'[q].gen = disk[p].gen
        /\ disk'[q].names = disk[p].names \cup {q}
        /\ \A r \in Path : r # p /\ r # q => disk'[r] = disk[r]
    BY <1>0, <2>1 DEF NoFile, FileType
  <2>3. /\ \A r \in Path : disk'[r].kind = "file" =>
             disk'[r].inode = disk'[r].gen /\ disk'[r].gen < nextGen' /\ r \in disk'[r].names
        /\ \A r, t \in Path : disk'[r].kind = "file" /\ disk'[t].kind = "file"
                                /\ disk'[r].inode = disk'[t].inode => r = t
    BY <1>0, <2>1, <2>2
  <2>4. ASSUME NEW i \in Nat, NEW r \in Path, SeenAt(i, r)
        PROVE  /\ i < nextGen'
               /\ \A t \in Path : disk'[t].kind = "file" /\ disk'[t].inode = i
                                    => r \in disk'[t].names
               /\ disk'[r].kind = "file" /\ disk'[r].inode = i
                    => disk[r].kind = "file" /\ disk[r].inode = i
    <3>1. i < nextGen /\ \A t \in Path : disk[t].kind = "file" /\ disk[t].inode = i
                                            => r \in disk[t].names
      BY <2>4 DEF SeenAt
    <3>2. ASSUME NEW t \in Path, disk'[t].kind = "file", disk'[t].inode = i
          PROVE  r \in disk'[t].names /\ (t # q => disk[t].kind = "file" /\ disk[t].inode = i)
      <4>1. CASE t = q
        BY <2>1, <2>2, <3>1, <3>2, <4>1
      <4>2. CASE t # q
        BY <2>2, <3>1, <3>2, <4>2
      <4> QED
        BY <4>1, <4>2
    <3>3. disk'[q].kind = "file" /\ disk'[q].inode = i => r # q
      BY <2>1, <2>2, <3>1
    <3> QED
      BY <2>1, <3>1, <3>2, <3>3
  <2> QED
    BY <2>3, <2>4
<1>5. ASSUME NEW p \in Path, TruncateFile(p) PROVE Goal
  BY <1>5 DEF TruncateFile, SwapOnly
<1> QED
  BY <1>1, <1>2, <1>3, <1>4, <1>5 DEF Environment

\* The processor and the operators leave the disk alone.
LEMMA DiskKept ==
  ASSUME [Next]_vars, ~Environment PROVE UNCHANGED <<disk, nextGen>>
  BY DEF Next, Process, Lifecycle, Operators, Add, Remove, Disable, EditRules, Start, Exit,
     Abort, Crash, BeginCycle, EndCycle, ExpandWatch, StatFile, ReadLines, InsertRow,
     UpdateRow, Refreshed, RefreshDone, FilesDone, LinesDone, SkipLine, CountMatch, Record,
     Ack, UpdateOffset, CycleFails, disks, vars

\* Every step but the two that write the row of a refreshed file leaves the inodes of
\* the rows that remain as they are.
LEMMA InodesKept ==
  ASSUME TypeOK, Located, [Next]_vars, ~InsertRow, ~UpdateRow
  PROVE  \A s \in Source : rows'[s].id # 0 => rows[s].id # 0 /\ rows'[s].inode = rows[s].inode
<1> DEFINE Goal == \A s \in Source :
             rows'[s].id # 0 => rows[s].id # 0 /\ rows'[s].inode = rows[s].inode
<1>1. ASSUME rows' = rows PROVE Goal
  BY <1>1
<1>2. CASE Environment \/ Operators \/ Start \/ Exit \/ UNCHANGED vars
  BY <1>2, Undisturbed DEF NoRow
<1>3. ASSUME NEW n \in Pos, Reading, UpdateOffset(n) PROVE Goal
  <2>1. CASE rows[Here].id = batch.id
    BY <1>3, <2>1, UpdateOffsetEffect
  <2> QED
    BY <1>1, <1>3, <2>1 DEF UpdateOffset, CycleFails, tables
<1>4. CASE BeginCycle \/ EndCycle \/ RefreshDone \/ FilesDone \/ LinesDone \/ Record \/ Abort \/ Crash
  BY <1>1, <1>4 DEF BeginCycle, EndCycle, RefreshDone, FilesDone, LinesDone, Record, Abort,
     Crash, CycleFails, tables
<1>5. ASSUME NEW w \in Watch, ExpandWatch(w) PROVE Goal
  BY <1>1, <1>5 DEF ExpandWatch, tables
<1>6. ASSUME NEW p \in Path, StatFile(p) \/ ReadLines(p) PROVE Goal
  BY <1>1, <1>6 DEF StatFile, ReadLines, CycleFails, tables
<1>7. ASSUME NEW n \in Pos, CountMatch(n) PROVE Goal
  BY <1>1, <1>7 DEF CountMatch
<1> QED
  BY <1>2, <1>3, <1>4, <1>5, <1>6, <1>7
     DEF Next, Process, Lifecycle, SkipLine, Ack, Reading, Located

\* Identity is kept: rows and the pending stat name inodes seen at their path.
LEMMA IdentityStep ==
  ASSUME SwapOnly, IInv, Identity, [Next]_vars PROVE Identity'
<1>0. TypeOK /\ Located /\ TypeOK'
  BY NextTyped DEF IInv
<1>1. /\ \A p \in Path : disk'[p].kind = "file" =>
           disk'[p].inode = disk'[p].gen /\ disk'[p].gen < nextGen' /\ p \in disk'[p].names
      /\ \A p, q \in Path : disk'[p].kind = "file" /\ disk'[q].kind = "file"
                              /\ disk'[p].inode = disk'[q].inode => p = q
      /\ \A i \in Nat, p \in Path : SeenAt(i, p) =>
           /\ i < nextGen'
           /\ \A q \in Path : disk'[q].kind = "file" /\ disk'[q].inode = i
                   => p \in disk'[q].names
  <2>1. CASE Environment
    BY <1>0, <2>1, RotationEffect
  <2>2. CASE ~Environment
    BY <2>2, DiskKept DEF Identity, SeenAt
  <2> QED
    BY <2>1, <2>2
<1>2. ASSUME NEW s \in Source, rows'[s].id # 0 PROVE SeenAt(rows[s].inode, s[2])'
  <2>1. s[2] \in Path /\ rows[s].inode \in Nat /\ stat.inode \in Nat
    BY <1>0 DEF Source, TypeOK, TablesOK, LocalsOK, RowType, StatType
  <2>2. \/ rows[s].id # 0 /\ rows'[s].inode = rows[s].inode
        \/ pc = "upsert" /\ s[2] = stat.path /\ rows'[s].inode = stat.inode
    <3>1. CASE InsertRow
      <4>1. watched[cur.w].id = cur.id \/ rows' = rows
        BY <3>1 DEF InsertRow, CycleFails, tables
      <4>2. pc = "upsert"
        BY <3>1 DEF InsertRow
      <4>3. CASE watched[cur.w].id = cur.id
        BY <1>0, <1>2, <3>1, <4>2, <4>3, InsertRowEffect
      <4> QED
        BY <1>2, <4>1, <4>3
    <3>2. CASE UpdateRow
      <4>1. pc = "upsert"
        BY <3>2 DEF UpdateRow
      <4> QED
        BY <1>0, <1>2, <3>2, <4>1, UpdateRowEffect
    <3>3. CASE ~InsertRow /\ ~UpdateRow
      BY <1>0, <1>2, <3>3, InodesKept
    <3> QED
      BY <3>1, <3>2, <3>3
  <2>3. PICK i \in Nat : i = rows'[s].inode /\ SeenAt(i, s[2])
    BY <2>1, <2>2 DEF Identity
  <2> QED
    BY <1>1, <2>1, <2>3 DEF SeenAt
<1>3. ASSUME pc' = "upsert" PROVE SeenAt(stat.inode, stat.path)'
  <2>1. CASE pc = "upsert" /\ stat' = stat
    <3>1. stat.path \in Path /\ stat.inode \in Nat
      BY <1>0, <2>1 DEF Located, TypeOK, LocalsOK, StatType
    <3>2. SeenAt(stat.inode, stat.path)
      BY <2>1 DEF Identity
    <3> QED
      BY <1>1, <2>1, <3>1, <3>2 DEF SeenAt
  <2>2. ASSUME NEW p \in Path, StatFile(p) PROVE SeenAt(stat.inode, stat.path)'
    <3>1. /\ disk[p].kind = "file" /\ stat'.path = p /\ stat'.inode = disk[p].inode
          /\ disk' = disk /\ nextGen' = nextGen
      BY <1>3, <2>2 DEF StatFile, CycleFails, disks
    <3>2. disk[p].inode < nextGen
      BY <3>1 DEF Identity
    <3>3. \A q \in Path : disk[q].kind = "file" /\ disk[q].inode = disk[p].inode
                            => p \in disk[q].names
      BY <3>1 DEF Identity
    <3> QED
      BY <3>1, <3>2, <3>3 DEF SeenAt
  <2>3. (pc = "upsert" /\ stat' = stat) \/ \E p \in Path : StatFile(p)
    <3>1. CASE Environment \/ Operators \/ Start \/ Exit \/ UNCHANGED vars
      BY <1>0, <1>3, <3>1, Undisturbed
    <3>2. CASE Process
      BY <1>3, <3>2 DEF Process, BeginCycle, EndCycle, ExpandWatch, ReadLines, InsertRow,
         UpdateRow, Refreshed, RefreshDone, FilesDone, LinesDone, SkipLine, CountMatch,
         Record, Ack, UpdateOffset, CycleFails
    <3>3. CASE Abort \/ Crash
      BY <1>3, <3>3 DEF Abort, Crash
    <3> QED
      BY <3>1, <3>2, <3>3 DEF Next, Lifecycle
  <2> QED
    BY <2>1, <2>2, <2>3
<1> QED
  BY <1>1, <1>2, <1>3 DEF Identity

\* Deliveries are only added: what was accounted for stays so.
LEMMA DoneKept ==
  ASSUME \A s \in Source, g \in Gen, n \in Pos : occ[s][g][n] > 0 => occ'[s][g][n] > 0,
         NEW s \in Source, NEW g \in Gen, NEW o \in 0 .. MaxLen, Done(s, g, o)
  PROVE  Done(s, g, o)'
  BY DEF Done

\* A record adds to one counter, and no other step changes the occurrences.
LEMMA OccurrencesKept ==
  ASSUME TypeOK, Located, [Next]_vars
  PROVE  \A s \in Source, g \in Gen, n \in Pos : occ[s][g][n] > 0 => occ'[s][g][n] > 0
<1>1. CASE Record
  <2>1. CASE rows[Here].id = batch.id
    <3>1. /\ occ'[Here][batch.gen][batch.line] = occ[Here][batch.gen][batch.line] + 1
          /\ \A t \in Source, g \in Gen, m \in Pos :
               <<t, g, m>> # <<Here, batch.gen, batch.line>> => occ'[t][g][m] = occ[t][g][m]
      BY <1>1, <2>1, RecordEffect
    <3>2. \A s \in Source, g \in Gen, n \in Pos : occ[s][g][n] \in Nat
      BY DEF TypeOK, TablesOK
    <3> QED
      BY <3>1, <3>2
  <2> QED
    BY <1>1, <2>1 DEF Record, CycleFails, tables
<1>2. CASE ~Record
  <2>1. CASE Environment \/ Operators \/ Start \/ Exit \/ UNCHANGED vars
    BY <2>1, Undisturbed
  <2>2. CASE Process \/ Abort \/ Crash
    BY <1>2, <2>2 DEF Process, Abort, Crash, BeginCycle, EndCycle, ExpandWatch, StatFile,
       ReadLines, InsertRow, UpdateRow, Refreshed, RefreshDone, FilesDone, LinesDone,
       SkipLine, CountMatch, Ack, UpdateOffset, CycleFails, tables
  <2> QED
    BY <2>1, <2>2 DEF Next, Lifecycle
<1> QED
  BY <1>1, <1>2

\* The two halves of NothingSkipped, each about one source.
RowDone(s) ==
  rows[s].id # 0 /\ disk[s[2]].kind = "file" /\ disk[s[2]].inode = rows[s].inode
    => Done(s, rows[s].inode, rows[s].offset)

BatchDone ==
  Reading /\ rows[Here].id # 0 =>
    IF batch.gen = rows[Here].inode
    THEN Done(Here, batch.gen, batch.at)
    ELSE ~(disk[batch.path].kind = "file" /\ disk[batch.path].inode = rows[Here].inode)

\* NothingSkipped is a statement about each row and one about the batch.
LEMMA Halves == NothingSkipped <=> (\A s \in Source : RowDone(s)) /\ BatchDone
  BY DEF NothingSkipped, RowDone, BatchDone

\* A row keeps its half wherever the row itself is kept.
LEMMA RowDoneKept ==
  ASSUME SwapOnly, IInv, Identity, [Next]_vars,
         NEW s \in Source, rows'[s].id # 0 => rows'[s] = rows[s], RowDone(s)
  PROVE  RowDone(s)'
<1> SUFFICES ASSUME rows'[s].id # 0, disk'[s[2]].kind = "file",
                    disk'[s[2]].inode = rows'[s].inode
             PROVE  Done(s, rows[s].inode, rows[s].offset)'
  BY DEF RowDone
<1>0. TypeOK /\ Located
  BY DEF IInv
<1>1. /\ rows[s].id # 0 /\ rows'[s] = rows[s] /\ s[2] \in Path
      /\ rows[s].inode \in Nat /\ rows[s].offset \in 0 .. MaxLen
  BY <1>0 DEF Source, TypeOK, TablesOK, RowType
<1>2. disk[s[2]].kind = "file" /\ disk[s[2]].inode = rows[s].inode
  <2>1. CASE Environment
    <3>1. SeenAt(rows[s].inode, s[2])
      BY <1>1 DEF Identity
    <3> QED
      BY <1>0, <1>1, <2>1, <3>1, RotationEffect
  <2>2. CASE ~Environment
    BY <1>1, <2>2, DiskKept
  <2> QED
    BY <2>1, <2>2
<1>3. Done(s, rows[s].inode, rows[s].offset)
  BY <1>1, <1>2 DEF RowDone
<1>4. rows[s].inode \in Gen
  BY <1>0, <1>1, <1>2 DEF Identity, TypeOK, DisksOK
<1>5. PICK g \in Gen, o \in 0 .. MaxLen : g = rows[s].inode /\ o = rows[s].offset
  BY <1>1, <1>4
<1>6. Done(s, g, o)'
  BY <1>0, <1>3, <1>5, DoneKept, OccurrencesKept
<1> QED
  BY <1>1, <1>5, <1>6

\* So does the batch, as long as it is not read anew.
LEMMA BatchDoneKept ==
  ASSUME SwapOnly, IInv, Identity, [Next]_vars, BatchDone,
         Reading' => Reading /\ cur' = cur /\ batch'.path = batch.path
                     /\ batch'.gen = batch.gen /\ batch'.at = batch.at,
         Reading /\ rows'[Here].id # 0
           => rows[Here].id # 0 /\ rows'[Here].inode = rows[Here].inode
  PROVE  BatchDone'
<1> SUFFICES ASSUME Reading', rows'[Here'].id # 0
             PROVE  IF batch'.gen = rows'[Here'].inode
                    THEN Done(Here, batch.gen, batch.at)'
                    ELSE ~(disk'[batch'.path].kind = "file"
                           /\ disk'[batch'.path].inode = rows'[Here'].inode)
  BY DEF BatchDone
<1>0. TypeOK /\ Located
  BY DEF IInv
<1>1. /\ Reading /\ Here' = Here /\ Here \in Source /\ batch.path \in Path
      /\ batch.gen \in Gen /\ batch.at \in 0 .. MaxLen
      /\ batch'.path = batch.path /\ batch'.gen = batch.gen /\ batch'.at = batch.at
      /\ rows[Here].id # 0 /\ rows'[Here].inode = rows[Here].inode
      /\ rows[Here].inode \in Nat
  <2>1. Reading /\ batch'.path = batch.path /\ batch'.gen = batch.gen /\ batch'.at = batch.at
        /\ Here' = Here
    BY DEF Here
  <2>2. Here \in Source /\ batch.path \in Path /\ batch.gen \in Gen
    BY <1>0, <2>1 DEF Here, Source, Located, Reading, Working
  <2>3. batch.at \in 0 .. MaxLen
    BY <1>0 DEF TypeOK, LocalsOK, BatchType
  <2>4. rows[Here].inode \in Nat
    BY <1>0, <2>2 DEF TypeOK, TablesOK, RowType
  <2>5. rows[Here].id # 0 /\ rows'[Here].inode = rows[Here].inode
    BY <2>1
  <2> QED
    BY <2>1, <2>2, <2>3, <2>4, <2>5
<1>2. CASE batch.gen = rows[Here].inode
  <2>1. Done(Here, batch.gen, batch.at)
    BY <1>1, <1>2 DEF BatchDone
  <2>2. PICK s \in Source, g \in Gen, o \in 0 .. MaxLen :
          s = Here /\ g = batch.gen /\ o = batch.at
    BY <1>1
  <2>3. Done(s, g, o)'
    BY <1>0, <2>1, <2>2, DoneKept, OccurrencesKept
  <2> QED
    BY <1>1, <1>2, <2>2, <2>3
<1>3. CASE batch.gen # rows[Here].inode
  <2>1. ~(disk[batch.path].kind = "file" /\ disk[batch.path].inode = rows[Here].inode)
    BY <1>1, <1>3 DEF BatchDone
  <2>2. CASE Environment
    <3>1. SeenAt(rows[Here].inode, batch.path)
      BY <1>1 DEF Identity, Here
    <3>2. PICK i \in Nat, p \in Path : i = rows[Here].inode /\ p = batch.path
      BY <1>1
    <3>3. disk'[p].kind = "file" /\ disk'[p].inode = i
            => disk[p].kind = "file" /\ disk[p].inode = i
      BY <1>0, <2>2, <3>1, <3>2, RotationEffect
    <3> QED
      BY <1>1, <1>3, <2>1, <3>2, <3>3
  <2>3. CASE ~Environment
    BY <1>1, <1>3, <2>1, <2>3, DiskKept
  <2> QED
    BY <2>2, <2>3
<1> QED
  BY <1>2, <1>3

\* Reading a file: the content belongs to the inode of the row, up to the offset at
\* which it starts, or that inode has left the path.
LEMMA ReadLinesDone ==
  ASSUME IInv, Identity, NothingSkipped, NEW p \in Path, ReadLines(p), disk[p].kind = "file"
  PROVE  BatchDone'
<1>0. TypeOK /\ Located /\ Current
  BY DEF IInv
<1>1. PICK s \in Source : s = <<cur.w, p>>
  BY <1>0, ReadLinesEffect
<1>2. /\ Here' = s /\ batch'.path = p /\ batch'.gen = disk[p].gen
      /\ batch'.at = states[p].offset /\ states[p].id # 0
      /\ rows' = rows /\ disk' = disk /\ occ' = occ /\ pc = "file"
  BY <1>0, <1>1, ReadLinesEffect
<1>3. disk[p].gen = disk[p].inode
  BY DEF Identity
<1>4. ASSUME rows[s].id # 0, disk[p].gen = rows[s].inode
      PROVE  Done(s, disk[p].gen, states[p].offset)
  <2>1. rows[s].offset = states[p].offset
    BY <1>0, <1>1, <1>2, <1>4 DEF Current, Working, RowAsRead
  <2>2. s[2] = p
    BY <1>1
  <2> QED
    BY <1>3, <1>4, <2>1, <2>2 DEF NothingSkipped
<1>5. PICK g \in Gen, o \in 0 .. MaxLen : g = disk[p].gen /\ o = states[p].offset
  BY <1>0 DEF TypeOK, DisksOK, LocalsOK
<1>6. Done(s, g, o) => Done(s, g, o)'
  BY <1>2 DEF Done
<1>7. CASE rows[s].id # 0 /\ g = rows[s].inode
  <2>1. Done(s, g, o)'
    BY <1>4, <1>5, <1>6, <1>7
  <2> QED
    BY <1>2, <1>5, <1>7, <2>1 DEF BatchDone
<1>8. CASE rows[s].id # 0 /\ g # rows[s].inode
  BY <1>2, <1>3, <1>5, <1>8 DEF BatchDone
<1>9. CASE rows[s].id = 0
  BY <1>2, <1>9 DEF BatchDone
<1> QED
  BY <1>7, <1>8, <1>9

\* A refreshed row: it starts over, or it is the row it was.
LEMMA UpdateRowDone ==
  ASSUME IInv, NothingSkipped, UpdateRow, NEW s \in Source PROVE RowDone(s)'
<1>0. TypeOK /\ Located /\ Current
  BY DEF IInv
<1>1. PICK t \in Source : t = <<cur.w, stat.path>>
  BY <1>0, UpdateRowEffect
<1>2. /\ IF rows[t].id = stat.row.id
         THEN /\ rows'[t].id = stat.row.id /\ rows'[t].inode = stat.inode
              /\ rows'[t].offset = ResumeAt(stat)
         ELSE rows'[t] = rows[t]
      /\ \A u \in Source : u # t => rows'[u] = rows[u]
      /\ disk' = disk /\ occ' = occ /\ pc = "upsert" /\ stat.row.id # 0
  BY <1>0, <1>1, UpdateRowEffect DEF UpdateRow
<1>3. CASE rows'[s] = rows[s]
  BY <1>2, <1>3 DEF NothingSkipped, RowDone, Done
<1>4. CASE s = t /\ rows[t].id = stat.row.id
  <2>1. rows[t].inode = stat.row.inode /\ rows[t].offset = stat.row.offset
    BY <1>0, <1>1, <1>2, <1>4 DEF Current, RowAsRead
  <2>2. CASE ResumeAt(stat) = 0
    BY <1>2, <1>4, <2>2 DEF RowDone, Done, Pos
  <2>3. CASE ResumeAt(stat) # 0
    <3>1. ResumeAt(stat) = stat.row.offset /\ stat.inode = stat.row.inode
      BY <2>3 DEF ResumeAt
    <3>2. RowDone(s)
      BY DEF NothingSkipped, RowDone
    <3> QED
      BY <1>2, <1>4, <2>1, <3>1, <3>2 DEF RowDone, Done
  <2> QED
    BY <2>2, <2>3
<1> QED
  BY <1>2, <1>3, <1>4

\* Moving the offset over a line that was recorded, or need not be.
LEMMA UpdateOffsetDone ==
  ASSUME IInv, NothingSkipped, Reading, NEW n \in Pos, NextLine(n), UpdateOffset(n),
         \/ TornBatch
         \/ Script[batch.gen][n] # "report"
         \/ occ[Here][batch.gen][n] > 0,
         rows[Here].id = batch.id
  PROVE  NothingSkipped'
<1>0. TypeOK /\ Located /\ Current
  BY DEF IInv
<1>1. PICK s \in Source : s = Here
  BY <1>0, UpdateOffsetEffect
<1>2. /\ Here' = s /\ rows'[s].id = rows[s].id /\ rows'[s].inode = rows[s].inode
      /\ rows'[s].offset = n /\ \A t \in Source : t # s => rows'[t] = rows[t]
      /\ batch'.path = batch.path /\ batch'.gen = batch.gen /\ batch'.at = n
      /\ disk' = disk /\ occ' = occ /\ s[2] = batch.path
  BY <1>0, <1>1, UpdateOffsetEffect DEF Here
<1>3. rows[s].id # 0 /\ batch.gen \in Gen /\ batch.at \in 0 .. MaxLen
  BY <1>0, <1>1 DEF Current, Located, Reading, TypeOK, LocalsOK, BatchType
<1>4. ASSUME batch.gen = rows[s].inode PROVE Done(s, batch.gen, n)
  <2>1. Done(s, batch.gen, batch.at)
    BY <1>1, <1>3, <1>4 DEF NothingSkipped
  <2>2. ~TornBatch
    BY <2>1 DEF Done, TornBatch
  <2>3. Script[batch.gen][n] # "part"
    BY DEF NextLine
  <2>4. ASSUME NEW m \in Pos, m <= n, Script[batch.gen][m] = "report"
        PROVE  occ[s][batch.gen][m] > 0
    <3>1. CASE m = n
      BY <1>1, <2>2, <2>4, <3>1
    <3>2. CASE m # n
      <4>1. m < n /\ (m <= batch.at \/ batch.at < m)
        BY <1>3, <2>4, <3>2 DEF Pos
      <4>2. CASE batch.at < m
        BY <2>4, <4>1, <4>2 DEF NextLine
      <4>3. CASE m <= batch.at
        BY <2>1, <2>4, <4>3 DEF Done
      <4> QED
        BY <4>1, <4>2, <4>3
    <3> QED
      BY <3>1, <3>2
  <2> QED
    BY <2>3, <2>4 DEF Done
<1>5. Done(s, batch.gen, n) => Done(s, batch.gen, n)'
  BY <1>2 DEF Done
<1>6. ASSUME batch.gen # rows[s].inode
      PROVE  ~(disk[batch.path].kind = "file" /\ disk[batch.path].inode = rows[s].inode)
  BY <1>1, <1>3, <1>6 DEF NothingSkipped
<1>7. BatchDone'
  BY <1>2, <1>4, <1>5, <1>6 DEF BatchDone
<1>8. RowDone(s)'
  BY <1>2, <1>4, <1>5, <1>6 DEF RowDone
<1>9. ASSUME NEW t \in Source, t # s PROVE RowDone(t)'
  BY <1>2, <1>9 DEF NothingSkipped, RowDone, Done
<1> QED
  BY <1>7, <1>8, <1>9 DEF NothingSkipped, RowDone, BatchDone

\* Every step preserves NothingSkipped.
LEMMA NothingSkippedStep ==
  ASSUME SwapOnly, IInv, SwapInv, [Next]_vars PROVE NothingSkipped'
<1>0. TypeOK /\ Located /\ Current /\ Settled /\ Identity /\ NothingSkipped
  BY DEF IInv, SwapInv
<1>h. (\A s \in Source : RowDone(s)) /\ BatchDone
  BY <1>0, Halves
<1>a. ASSUME \A s \in Source : rows'[s].id # 0 => rows'[s] = rows[s] PROVE \A s \in Source : RowDone(s)'
  BY <1>0, <1>h, <1>a, RowDoneKept
<1>g. (\A s \in Source : RowDone(s)') /\ BatchDone' => NothingSkipped'
  BY DEF NothingSkipped, RowDone, BatchDone
<1>b. ASSUME ~Reading' PROVE BatchDone'
  BY <1>b DEF BatchDone
<1>1. CASE Environment \/ Operators \/ Start \/ Exit \/ UNCHANGED vars
  <2>1. \A s \in Source : rows'[s] = rows[s] \/ rows'[s].id = 0
    BY <1>0, <1>1, Undisturbed DEF NoRow
  <2>2. Reading' => Reading /\ cur' = cur /\ batch' = batch
    BY <1>0, <1>1, Undisturbed DEF Reading
  <2>3. Reading => Here \in Source
    BY <1>0 DEF Here, Source, Located, Reading, Working
  <2>4. BatchDone'
    BY <1>0, <1>h, <2>1, <2>2, <2>3, BatchDoneKept
  <2> QED
    BY <1>a, <1>g, <2>1, <2>4
<1>2. CASE CycleFails \/ Abort \/ Crash \/ BeginCycle \/ EndCycle \/ RefreshDone \/ FilesDone \/ LinesDone
  <2>1. rows' = rows
    BY <1>2 DEF CycleFails, Abort, Crash, BeginCycle, EndCycle, RefreshDone, FilesDone,
       LinesDone, tables
  <2>2. ~Reading'
    BY <1>2 DEF CycleFails, Abort, Crash, BeginCycle, EndCycle, RefreshDone, FilesDone,
       LinesDone, Reading
  <2> QED
    BY <1>a, <1>b, <1>g, <2>1, <2>2
<1>3. ASSUME NEW w \in Watch, ExpandWatch(w) PROVE NothingSkipped'
  BY <1>3, <1>a, <1>b, <1>g DEF ExpandWatch, Reading, tables
<1>4. ASSUME NEW p \in Path, StatFile(p) PROVE NothingSkipped'
  BY <1>4, <1>a, <1>b, <1>g DEF StatFile, CycleFails, Reading, tables
<1>5. ASSUME NEW p \in Path, ReadLines(p) PROVE NothingSkipped'
  <2>1. rows' = rows
    BY <1>5 DEF ReadLines, CycleFails, tables
  <2>2. CASE disk[p].kind = "file"
    BY <1>0, <1>5, <1>a, <1>g, <2>1, <2>2, ReadLinesDone
  <2>3. CASE disk[p].kind # "file"
    <3>1. ~Reading'
      BY <1>0, <1>5, <2>3 DEF ReadLines, CycleFails, Reading, TypeOK, DisksOK, FileType
    <3> QED
      BY <1>a, <1>b, <1>g, <2>1, <3>1
  <2> QED
    BY <2>2, <2>3
<1>6. CASE InsertRow
  <2>1. CASE watched[cur.w].id = cur.id
    <3>1. PICK t \in Source : t = <<cur.w, stat.path>>
      BY <1>0, <1>6, <2>1, InsertRowEffect
    <3>2. /\ rows'[t].offset = 0 /\ \A u \in Source : u # t => rows'[u] = rows[u]
          /\ disk' = disk /\ occ' = occ /\ ~Reading'
      BY <1>0, <1>6, <2>1, <3>1, InsertRowEffect DEF Reading
    <3>3. RowDone(t)'
      BY <3>2 DEF RowDone, Done, Pos
    <3>4. ASSUME NEW u \in Source, u # t PROVE RowDone(u)'
      BY <1>0, <1>h, <3>2, <3>4, RowDoneKept
    <3> QED
      BY <1>b, <1>g, <3>2, <3>3, <3>4
  <2> QED
    BY <1>2, <1>6, <2>1 DEF InsertRow
<1>7. CASE UpdateRow
  <2>1. ~Reading'
    BY <1>7 DEF UpdateRow, Refreshed, Reading
  <2> QED
    BY <1>0, <1>7, <1>b, <1>g, <2>1, UpdateRowDone
<1>8. ASSUME NEW n \in Pos, Reading, NextLine(n), UpdateOffset(n),
             \/ TornBatch
             \/ Script[batch.gen][n] # "report"
             \/ occ[Here][batch.gen][n] > 0
      PROVE NothingSkipped'
  <2>1. CASE rows[Here].id = batch.id
    BY <1>0, <1>8, <2>1, UpdateOffsetDone
  <2> QED
    BY <1>2, <1>8, <2>1 DEF UpdateOffset
<1>9. ASSUME NEW n \in Pos, SkipLine(n) PROVE NothingSkipped'
  <2>1. TornBatch \/ Script[batch.gen][n] # "report"
    BY <1>9 DEF SkipLine, Verdicts, TornBatch
  <2> QED
    BY <1>8, <1>9, <2>1 DEF SkipLine, Reading
<1>10. CASE Ack
  BY <1>0, <1>8, <1>10 DEF Ack, Reading, Located, Settled
<1>11. ASSUME NEW n \in Pos, CountMatch(n) PROVE NothingSkipped'
  <2>1. /\ rows' = rows /\ Reading /\ cur' = cur /\ batch'.path = batch.path
        /\ batch'.gen = batch.gen /\ batch'.at = batch.at
    BY <1>0, <1>11, CountMatchEffect DEF Reading
  <2> QED
    BY <1>0, <1>a, <1>g, <1>h, <2>1, BatchDoneKept
<1>12. CASE Record
  <2>1. CASE rows[Here].id = batch.id
    <3>1. rows' = rows /\ Reading /\ cur' = cur /\ batch' = batch
      BY <1>0, <1>12, <2>1, RecordEffect DEF Reading
    <3> QED
      BY <1>0, <1>a, <1>g, <1>h, <3>1, BatchDoneKept
  <2> QED
    BY <1>2, <1>12, <2>1 DEF Record
<1> QED
  BY <1>1, <1>2, <1>3, <1>4, <1>5, <1>6, <1>7, <1>9, <1>10, <1>11, <1>12
     DEF Next, Process, Lifecycle

\* Under rotation by removing and renaming, the invariant behind NoSilentSkip holds.
THEOREM SwapInvariance == ASSUME SwapOnly PROVE Spec => []SwapInv
<1>1. Init => SwapInv
  BY DEF Init, SwapInv, Identity, NothingSkipped, Reading, NoFile, NoRow
<1>2. IInv /\ SwapInv /\ [Next]_vars => SwapInv'
  BY IdentityStep, NothingSkippedStep DEF SwapInv
<1> QED
  BY <1>1, <1>2, Invariance, PTL DEF Spec

\* Every line below the offset of a file that is still at its path and that calls for
\* an event has one: refreshFile and processFile lose no line.
THEOREM NoLineLost == ASSUME SwapOnly PROVE Spec => []NoSilentSkip
<1>1. SwapInv => NoSilentSkip
  BY DEF SwapInv, Identity, NothingSkipped, Done, NoSilentSkip, Source
<1> QED
  BY <1>1, SwapInvariance, PTL
=============================================================================
