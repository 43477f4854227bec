----------------------------- MODULE WatchedLogs -----------------------------
(***************************************************************************)
(* The requests logs.add and logs.remove as concurrent callers see them:   *)
(* Store.Add and Store.Remove of internal/logs/store.go, called by one     *)
(* handler goroutine per connection (internal/socket/server.go) over the   *)
(* connection pool of database/sql, next to the processor and the reports, *)
(* which insert rows of other tables through the same pool.                *)
(*                                                                         *)
(* Add is two statements: the upsert, then a SELECT by LastInsertId, which *)
(* SQLite keeps per connection and only an INSERT that adds a row sets, in *)
(* whatever table it does.                                                 *)
(***************************************************************************)
EXTENDS Integers

CONSTANTS
  Caller,     \* requests in flight, one goroutine each
  Path,       \* cleaned absolute paths (normalizePath rejects any other)
  Conn,       \* connections the pool may open
  MaxWid,     \* bound: rows ever inserted into watched_logs
  MaxOther    \* bound: rows ever inserted into the other tables

ASSUME BoundAssumption == MaxWid \in Nat /\ MaxOther \in Nat

VARIABLES
  watched,    \* [Path -> id], 0 when there is no row
  nextWid,    \* AUTOINCREMENT of watched_logs
  others,     \* ids given out so far in the table that grows fastest
  rowid,      \* [Conn -> id]: last_insert_rowid of a connection, 0 when just opened
  call,       \* [Caller -> [pc, path, id, fresh]]: a call of Add
  reply,      \* [Caller -> path, or "none" (sql.ErrNoRows)]: what it returned
  raced       \* history: callers whose path was removed since their upsert

vars == <<watched, nextWid, others, rowid, call, reply, raced>>

Missing == "none"
ASSUME PathAssumption == Missing \notin Path

NoCall(p) == [pc |-> "idle", path |-> p, id |-> 0, fresh |-> FALSE]

Init ==
  /\ watched = [p \in Path |-> 0]
  /\ nextWid = 1 /\ others = 0
  /\ rowid = [k \in Conn |-> 0]
  /\ \E p \in Path : call = [c \in Caller |-> NoCall(p)]
  /\ reply = [c \in Caller |-> Missing]
  /\ raced = {}

\* A slip: without AUTOINCREMENT the id of the last row is given again once it is deleted.
NewIdMutant_Reused ==
  CHOOSE i \in 1 .. nextWid : /\ \A p \in Path : watched[p] < i
                              /\ i = 1 \/ \E p \in Path : watched[p] = i - 1

\* AUTOINCREMENT never gives an id twice.
NewId == nextWid

\* The upsert of Add on connection k.
AddUpsert(c, k, p) ==
  /\ call[c].pc # "lookup"
  /\ IF watched[p] = 0
     THEN /\ nextWid <= MaxWid
          /\ watched' = [watched EXCEPT ![p] = NewId]
          /\ rowid' = [rowid EXCEPT ![k] = NewId]
          /\ nextWid' = nextWid + 1
          /\ call' = [call EXCEPT ![c] = [pc |-> "lookup", path |-> p, id |-> NewId,
                                          fresh |-> TRUE]]
     ELSE /\ call' = [call EXCEPT ![c] = [pc |-> "lookup", path |-> p, id |-> rowid[k],
                                          fresh |-> FALSE]]
          /\ UNCHANGED <<watched, nextWid, rowid>>
  /\ raced' = raced \ {c}
  /\ UNCHANGED <<others, reply>>

\* Get by the id, or GetByPath when LastInsertId is 0.
AddLookup(c) ==
  /\ call[c].pc = "lookup"
  /\ IF call[c].id > 0
     THEN \/ \E p \in Path : watched[p] = call[c].id /\ reply' = [reply EXCEPT ![c] = p]
          \/ /\ \A p \in Path : watched[p] # call[c].id
             /\ reply' = [reply EXCEPT ![c] = Missing]
     ELSE reply' = [reply EXCEPT ![c] =
                      IF watched[call[c].path] # 0 THEN call[c].path ELSE Missing]
  /\ call' = [call EXCEPT ![c].pc = "done"]
  /\ UNCHANGED <<watched, nextWid, others, rowid, raced>>

\* Remove is one DELETE; of a path with no row it is an error and changes nothing.
Remove(p) ==
  /\ watched[p] # 0
  /\ watched' = [watched EXCEPT ![p] = 0]
  /\ raced' = raced \cup {c \in Caller : call[c].pc = "lookup" /\ call[c].path = p}
  /\ UNCHANGED <<nextWid, others, rowid, call, reply>>

\* insertFile, Record or Generate insert a row of another table.
InsertElsewhere(k) ==
  /\ others < MaxOther
  /\ others' = others + 1
  /\ rowid' = [rowid EXCEPT ![k] = others + 1]
  /\ UNCHANGED <<watched, nextWid, call, reply, raced>>

\* The pool closes an idle connection and opens it again when it needs it.
Reopen(k) ==
  /\ rowid' = [rowid EXCEPT ![k] = 0]
  /\ UNCHANGED <<watched, nextWid, others, call, reply, raced>>

Next ==
  \/ \E c \in Caller, k \in Conn, p \in Path : AddUpsert(c, k, p)
  \/ \E c \in Caller : AddLookup(c)
  \/ \E p \in Path : Remove(p)
  \/ \E k \in Conn : InsertElsewhere(k) \/ Reopen(k)

Spec == Init /\ [][Next]_vars

-----------------------------------------------------------------------------
\* The types of all variables.
TypeOK ==
  /\ watched \in [Path -> Nat]
  /\ nextWid \in Nat \ {0} /\ others \in Nat
  /\ rowid \in [Conn -> Nat]
  /\ call \in [Caller -> [pc : {"idle", "lookup", "done"}, path : Path, id : Nat,
                          fresh : BOOLEAN]]
  /\ reply \in [Caller -> Path \cup {Missing}]
  /\ raced \in SUBSET Caller

\* An Add that created the row returns that row, unless a logs.remove of the same path
\* came between its two statements: no other request and no insert elsewhere makes it
\* answer with another log or fail.
NewLogReply ==
  \A c \in Caller : call[c].pc = "done" /\ call[c].fresh
    => reply[c] = call[c].path \/ (reply[c] = Missing /\ c \in raced)

\* internal/logs/store_test.go expects of an Add of a path that is already watched what
\* it expects of the first: the row of that path.
AddReply ==
  \A c \in Caller : call[c].pc = "done"
    => reply[c] = call[c].path \/ (reply[c] = Missing /\ c \in raced)

\* The invariant behind NewLogReply: ids are given once, so that the id of a new row is
\* still that row's, or nobody's because it was removed.
IdsApart ==
  /\ \A p \in Path : watched[p] < nextWid
  /\ \A p, q \in Path : watched[p] = watched[q] /\ watched[p] # 0 => p = q

OwnId ==
  \A c \in Caller : call[c].pc = "lookup" /\ call[c].fresh =>
    /\ call[c].id \in 1 .. nextWid - 1
    /\ \A p \in Path : watched[p] = call[c].id => p = call[c].path
    /\ watched[call[c].path] # call[c].id => c \in raced

\* The inductive invariant: what Add relies on between its two statements.
ReplyInv == TypeOK /\ IdsApart /\ OwnId /\ NewLogReply
=============================================================================
