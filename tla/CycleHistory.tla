---------------------------- MODULE CycleHistory ----------------------------
(***************************************************************************)
(* LogIngest with two history variables, for properties that relate one    *)
(* cycle of RunCycle to an earlier one or to its own beginning.            *)
(***************************************************************************)
EXTENDS LogIngestInv

VARIABLES
  gone,   \* sources that the last refresh of their log reported missing
  due     \* lines that called for an event when the running cycle began, and still do

hvars == <<vars, gone, due>>

Lines == {l \in Watch \X Path \X Gen \X Pos : Owed(l[1], l[2], l[3], l[4])}

HInit == Init /\ gone = {} /\ due = {}

\* missingFiles: the rows of the log whose paths were not observed this time.
MissingFiles == {s \in Source : s[1] = cur.w /\ rows[s].id # 0 /\ states[s[2]].id = 0}

HNext ==
  /\ Next
  /\ gone' = IF pc = "refresh" /\ pc' = "file"
             THEN {s \in gone : s[1] # cur.w} \cup MissingFiles
             ELSE {s \in gone : rows'[s].id # 0}
  /\ due' = IF pc = "idle" /\ pc' = "watch" THEN Lines ELSE due \cap Lines'

HSpec == HInit /\ [][HNext]_hvars

Recorded(l) == occ[<<l[1], l[2]>>][l[3]][l[4]] > 0

\* While files are only removed and renamed: a cycle that the status request reports
\* as successful (lastCycleErr of runProcessor) has recorded every line that called for
\* an event when the cycle began and still does, on every file of every enabled log.
CleanCycleCatchesUp ==
  [][pc = "watch" /\ pc' = "idle" /\ ~cycleErr'
       => \A l \in due : Recorded(l)]_hvars

\* docs/LOG_PROCESSING.md says that missing and recreated files are detected as
\* rotation: a file that comes back after it was reported missing is read from its
\* first line.
RecreatedIsReread ==
  [][\A p \in Path :
       states[p].id = 0 /\ states'[p].id # 0 /\ <<cur.w, p>> \in gone
         => states'[p].offset = 0]_hvars

-----------------------------------------------------------------------------
(* The invariant behind CleanCycleCatchesUp.                               *)

\* The cycle still has line l before it: its log is to be expanded, or its file was
\* found, is being refreshed, waits to be read, or was read up to the line or beyond.
ToGo(l) ==
  \/ todo[l[1]] # 0
  \/ /\ cur.w = l[1]
     /\ \/ pc \in {"refresh", "upsert"} /\ l[2] \in paths
        \/ pc = "upsert" /\ stat.path = l[2]
        \/ states[l[2]].id # 0
        \/ Reading /\ batch.path = l[2] /\ batch.gen = l[3] /\ l[4] <= batch.upto

\* Once its file was refreshed, its row is that of the generation on disk.
RowIsOf(l) ==
  LET row == rows[<<l[1], l[2]>>] IN
  cur.w = l[1] =>
    /\ pc = "upsert" /\ stat.path = l[2] =>
         stat.inode = l[3] /\ (stat.row.id # 0 => row.id # 0)
    /\ Working /\ (states[l[2]].id # 0 \/ (Reading /\ batch.path = l[2])) =>
         row.id # 0 /\ row.inode = l[3]

\* In the middle of a cycle, every line that was due at its beginning and still is has
\* been recorded or will be come to (RunCycle): a step that passes over a log, a file
\* or a line leaves nothing behind.
CatchUp ==
  /\ \A w \in Watch : watched[w].enabled => watched[w].id # 0
  /\ due \subseteq Lines
  /\ InCycle => \A l \in due : (ToGo(l) \/ Recorded(l)) /\ RowIsOf(l)
=============================================================================
