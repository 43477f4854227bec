-------------------------- MODULE WatchedLogsProofs --------------------------
(***************************************************************************)
(* NewLogReply for any number of callers, connections and paths.           *)
(***************************************************************************)
EXTENDS WatchedLogs, TLAPS

USE BoundAssumption, PathAssumption

\* No call has been made yet.
LEMMA InitReplyInv == Init => ReplyInv
  BY DEF Init, ReplyInv, TypeOK, IdsApart, OwnId, NewLogReply, NoCall, Missing

\* The upsert and the lookup of one call, and a remove that comes between them.
LEMMA NextReplyInv == ReplyInv /\ [Next]_vars => ReplyInv'
<1> SUFFICES ASSUME ReplyInv, [Next]_vars PROVE ReplyInv'
  OBVIOUS
<1> USE DEF ReplyInv
<1>1. ASSUME NEW c \in Caller, NEW k \in Conn, NEW p \in Path, AddUpsert(c, k, p)
      PROVE  ReplyInv'
  <2>1. CASE watched[p] = 0
    <3>1. /\ watched' = [watched EXCEPT ![p] = nextWid]
          /\ rowid' = [rowid EXCEPT ![k] = nextWid]
          /\ nextWid' = nextWid + 1
          /\ call' = [call EXCEPT ![c] = [pc |-> "lookup", path |-> p, id |-> nextWid,
                                          fresh |-> TRUE]]
          /\ raced' = raced \ {c} /\ others' = others /\ reply' = reply
      BY <1>1, <2>1 DEF AddUpsert, NewId
    <3>2. TypeOK'
      BY <3>1 DEF TypeOK
    <3>3. /\ watched'[p] = nextWid /\ \A q \in Path : q # p => watched'[q] = watched[q]
          /\ \A q \in Path : watched[q] \in Nat /\ watched[q] < nextWid
          /\ nextWid \in Nat \ {0}
      BY <3>1 DEF TypeOK, IdsApart
    <3>4. IdsApart'
      BY <3>1, <3>3 DEF IdsApart
    <3>5. ASSUME NEW d \in Caller, call'[d].pc = "lookup", call'[d].fresh
          PROVE  /\ call'[d].id \in 1 .. nextWid' - 1
                 /\ \A q \in Path : watched'[q] = call'[d].id => q = call'[d].path
                 /\ watched'[call'[d].path] # call'[d].id => d \in raced'
      <4>1. CASE d = c
        <5>1. call'[d].id = nextWid /\ call'[d].path = p
          BY <3>1, <4>1 DEF TypeOK
        <5>2. \A q \in Path : q # p => watched'[q] # nextWid
          BY <3>3
        <5> QED
          BY <3>1, <3>3, <5>1, <5>2
      <4>2. CASE d # c
        <5>1. call'[d] = call[d] /\ (d \in raced => d \in raced')
          BY <3>1, <4>2 DEF TypeOK
        <5>2. call[d].id \in Nat /\ call[d].id < nextWid /\ call[d].path \in Path
              /\ call[d].id # 0
          BY <3>3, <3>5, <5>1 DEF OwnId, TypeOK
        <5>3. \A q \in Path : watched'[q] = call[d].id => watched[q] = call[d].id
          BY <3>3, <5>2
        <5>4. watched'[call[d].path] # call[d].id => watched[call[d].path] # call[d].id
          BY <2>1, <3>3, <5>2
        <5> QED
          BY <3>1, <3>3, <3>5, <5>1, <5>2, <5>3, <5>4 DEF OwnId
      <4> QED
        BY <4>1, <4>2
    <3>6. NewLogReply'
      <4>1. \A d \in Caller : call'[d].pc = "done" => call'[d] = call[d] /\ d # c
        BY <3>1 DEF TypeOK
      <4> QED
        BY <3>1, <4>1 DEF NewLogReply
    <3>7. OwnId'
      BY <3>5 DEF OwnId
    <3> QED
      BY <3>2, <3>4, <3>6, <3>7
  <2>2. CASE watched[p] # 0
    <3>1. /\ call' = [call EXCEPT ![c] = [pc |-> "lookup", path |-> p, id |-> rowid[k],
                                          fresh |-> FALSE]]
          /\ raced' = raced \ {c} /\ UNCHANGED <<watched, nextWid, rowid, others, reply>>
      BY <1>1, <2>2 DEF AddUpsert
    <3>2. TypeOK'
      BY <3>1 DEF TypeOK
    <3>3. /\ ~call'[c].fresh
          /\ \A d \in Caller : d # c => call'[d] = call[d] /\ (d \in raced => d \in raced')
      BY <3>1 DEF TypeOK
    <3>4. OwnId'
      BY <3>1, <3>3 DEF OwnId
    <3>5. NewLogReply'
      BY <3>1, <3>3 DEF NewLogReply
    <3> QED
      BY <3>1, <3>2, <3>4, <3>5 DEF IdsApart
  <2> QED
    BY <2>1, <2>2
<1>2. ASSUME NEW c \in Caller, AddLookup(c) PROVE ReplyInv'
  <2>1. /\ call' = [call EXCEPT ![c].pc = "done"] /\ call[c].pc = "lookup"
        /\ UNCHANGED <<watched, nextWid, others, rowid, raced>>
    BY <1>2 DEF AddLookup
  <2>2. PICK r \in Path \cup {Missing} : reply' = [reply EXCEPT ![c] = r]
    BY <1>2 DEF AddLookup, TypeOK
  <2>3. /\ call'[c].pc = "done" /\ call'[c].path = call[c].path
        /\ call'[c].fresh = call[c].fresh
        /\ \A d \in Caller : d # c => call'[d] = call[d] /\ reply'[d] = reply[d]
        /\ reply'[c] = r
    BY <2>1, <2>2 DEF TypeOK
  <2>4. TypeOK'
    BY <2>1, <2>2 DEF TypeOK
  <2>5. OwnId'
    BY <2>1, <2>3 DEF OwnId
  <2>6. call[c].fresh => r = call[c].path \/ (r = Missing /\ c \in raced)
    <3> SUFFICES ASSUME call[c].fresh PROVE r = call[c].path \/ (r = Missing /\ c \in raced)
      OBVIOUS
    <3>1. /\ call[c].id > 0 /\ call[c].path \in Path
          /\ \A p \in Path : watched[p] = call[c].id => p = call[c].path
          /\ watched[call[c].path] # call[c].id => c \in raced
      BY <2>1 DEF OwnId, TypeOK
    <3>2. \/ \E p \in Path : watched[p] = call[c].id /\ reply' = [reply EXCEPT ![c] = p]
          \/ /\ \A p \in Path : watched[p] # call[c].id
             /\ reply' = [reply EXCEPT ![c] = Missing]
      BY <1>2, <3>1 DEF AddLookup
    <3>3. \A x : reply' = [reply EXCEPT ![c] = x] => r = x
      BY <2>3 DEF TypeOK
    <3> QED
      BY <3>1, <3>2, <3>3
  <2>7. NewLogReply'
    BY <2>1, <2>3, <2>6 DEF NewLogReply
  <2> QED
    BY <2>1, <2>4, <2>5, <2>7 DEF IdsApart
<1>3. ASSUME NEW p \in Path, Remove(p) PROVE ReplyInv'
  <2>1. /\ watched' = [watched EXCEPT ![p] = 0]
        /\ raced' = raced \cup {c \in Caller : call[c].pc = "lookup" /\ call[c].path = p}
        /\ UNCHANGED <<nextWid, others, rowid, call, reply>>
    BY <1>3 DEF Remove
  <2>2. watched'[p] = 0 /\ \A q \in Path : q # p => watched'[q] = watched[q]
    BY <2>1 DEF TypeOK
  <2>3. TypeOK' /\ IdsApart'
    BY <2>1, <2>2 DEF TypeOK, IdsApart
  <2>4. OwnId'
    BY <2>1, <2>2 DEF OwnId, TypeOK
  <2>5. NewLogReply'
    BY <2>1 DEF NewLogReply
  <2> QED
    BY <2>3, <2>4, <2>5
<1>4. ASSUME NEW k \in Conn, InsertElsewhere(k) \/ Reopen(k) PROVE ReplyInv'
  BY <1>4 DEF InsertElsewhere, Reopen, TypeOK, IdsApart, OwnId, NewLogReply
<1>5. CASE UNCHANGED vars
  BY <1>5 DEF vars, TypeOK, IdsApart, OwnId, NewLogReply
<1> QED
  BY <1>1, <1>2, <1>3, <1>4, <1>5 DEF Next

\* Ids are given once, so an Add that created a row can only answer with it, or with an
\* error when it was removed before the second statement of the Add.
THEOREM RepliesInvariant == Spec => []ReplyInv
BY InitReplyInv, NextReplyInv, PTL DEF Spec

\* The property a caller sees.
THEOREM NewLogReplies == Spec => []NewLogReply
<1>1. ReplyInv => NewLogReply
  BY DEF ReplyInv
<1> QED
  BY <1>1, RepliesInvariant, PTL
=============================================================================
