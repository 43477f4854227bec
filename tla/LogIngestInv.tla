----------------------------- MODULE LogIngestInv -----------------------------
(***************************************************************************)
(* The inductive invariants behind the theorems of LogIngestProofs: what   *)
(* holds between the steps of a cycle of the data the processor carries    *)
(* from one statement to the next, with the database and the disk changing *)
(* under it.                                                               *)
(***************************************************************************)
EXTENDS LogIngest

Reading == pc \in {"line", "record", "ack"}
Working == pc \in {"refresh", "upsert", "file", "line", "record", "ack"}

\* Where the processor is, its locals name something.
Located ==
  /\ Working => cur.w \in Watch /\ cur.id # 0
  /\ pc = "upsert" => stat.path \in Path
  /\ Reading => batch.path \in Path /\ batch.gen \in Gen /\ states[batch.path].id = 0
  /\ pc \in {"record", "ack"} => batch.line \in Pos /\ NextLine(batch.line)
  /\ pc \in {"down", "idle", "watch"} => \A p \in Path : states[p].id = 0

\* A row the processor has read is still as it was read, or it is gone: only a
\* remove changes it, and only the processor could insert it again.
RowAsRead(s, id, o) == rows[s].id = 0 \/ (rows[s].id = id /\ rows[s].offset = o)

Current ==
  /\ pc = "upsert" => /\ RowAsRead(<<cur.w, stat.path>>, stat.row.id, stat.row.offset)
                      /\ rows[<<cur.w, stat.path>>].id # 0
                           => rows[<<cur.w, stat.path>>].inode = stat.row.inode
  /\ Working => \A p \in Path : states[p].id # 0
                  => RowAsRead(<<cur.w, p>>, states[p].id, states[p].offset)
  /\ Reading => batch.id # 0 /\ RowAsRead(Here, batch.id, batch.at)

\* Below: no line of s beyond offset o was matched in the present pass over it.
Fresh(s, o) == \A g \in Gen, n \in Pos : n > o => hits[s][g][n] < passes[s]

\* The offset up to which the lines of s were matched in the present pass.
Reached(s) == IF pc \in {"record", "ack"} /\ s = Here THEN batch.line ELSE rows[s].offset

PassesCount ==
  /\ \A s \in Source : rows[s].id # 0 => Fresh(s, Reached(s))
  /\ pc = "upsert" /\ stat.row.id # 0 => Fresh(<<cur.w, stat.path>>, stat.row.offset)
  /\ Working => \A p \in Path : states[p].id # 0 => Fresh(<<cur.w, p>>, states[p].offset)
  /\ pc = "line" => Fresh(Here, batch.at)
  /\ pc \in {"record", "ack"} => Fresh(Here, batch.line)
  /\ pc = "record" => occ[Here][batch.gen][batch.line] < hits[Here][batch.gen][batch.line]

\* What an acknowledgement relies on: the line was recorded, or need not be.
TornBatch == batch.at \in Pos /\ Script[batch.gen][batch.at] = "part"

Settled ==
  pc = "ack" => \/ TornBatch
                \/ Script[batch.gen][batch.line] # "report"
                \/ occ[Here][batch.gen][batch.line] > 0

\* With no truncation in place, no name given back and no reused inode, an inode is one
\* generation, it is at one path, and it does not return to one it was seen at.
SeenAt(i, p) ==
  /\ i < nextGen
  /\ \A q \in Path : disk[q].kind = "file" /\ disk[q].inode = i => p \in disk[q].names

Identity ==
  /\ \A p \in Path : disk[p].kind = "file" => /\ disk[p].inode = disk[p].gen
                                             /\ disk[p].gen < nextGen
                                             /\ p \in disk[p].names
  /\ \A p, q \in Path : disk[p].kind = "file" /\ disk[q].kind = "file"
                          /\ disk[p].inode = disk[q].inode => p = q
  /\ \A s \in Source : rows[s].id # 0 => SeenAt(rows[s].inode, s[2])
  /\ pc = "upsert" => SeenAt(stat.inode, stat.path)

\* Generation g is accounted for up to offset o, which is at the end of a line.
Done(s, g, o) ==
  /\ o \in Pos => Script[g][o] # "part"
  /\ \A n \in Pos : n <= o /\ Script[g][n] = "report" => occ[s][g][n] > 0

\* An offset is that of the generation on disk, or the generation of the row has left
\* the path for good.
NothingSkipped ==
  /\ \A s \in Source : rows[s].id # 0 /\ disk[s[2]].kind = "file"
                       /\ disk[s[2]].inode = rows[s].inode
                         => Done(s, rows[s].inode, rows[s].offset)
  /\ Reading /\ rows[Here].id # 0 =>
       IF batch.gen = rows[Here].inode
       THEN Done(Here, batch.gen, batch.at)
       ELSE ~(disk[batch.path].kind = "file" /\ disk[batch.path].inode = rows[Here].inode)

\* Inductive whatever the environment does: what the processor carries between two
\* statements is true of the database it will write to, and counts are bounded by passes.
IInv == TypeOK /\ Located /\ Current /\ OncePerPass /\ PassesCount /\ Settled

\* Inductive, next to IInv, where no file is truncated in place and no inode reused:
\* an offset below which a line is missing stands only in a row whose file is gone.
SwapInv == Identity /\ NothingSkipped
=============================================================================
