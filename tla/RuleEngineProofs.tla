-------------------------- MODULE RuleEngineProofs --------------------------
(***************************************************************************)
(* Proofs about RuleEngine: the engine is all of the rules that were       *)
(* loaded, in the order of their precedence, and its first match is the    *)
(* best rule, for any rules, edits and lines.                              *)
(***************************************************************************)
EXTENDS RuleEngine, WellFoundedInduction, TLAPS

\* What a listing is: every element of S, and nothing else.
LEMMA ListingIsSeq ==
  ASSUME NEW S, NEW s \in Listings(S)
  PROVE  s \in Seq(S) /\ \A x \in S : \E i \in DOMAIN s : s[i] = x
<1>1. PICK n \in 0 .. MaxId : s \in [1 .. n -> S]
  BY DEF Listings
<1>2. n \in Nat
  BY <1>1, MaxAssumption
<1>3. s \in Seq(S)
  BY <1>1, <1>2
<1> QED BY <1>3 DEF Listings

LEMMA InitEngine == Init => EngineInv
<1> SUFFICES ASSUME Init PROVE EngineInv
  OBVIOUS
<1>1. DOMAIN table = {} /\ loaded \in Seq(snapshot) /\ engine \in Seq(snapshot)
  BY DEF Init
<1> QED BY <1>1 DEF Init, EngineInv, OrphansByHand, AllOrNothing

\* At rest nothing is said of the cycle.
LEMMA RestKeeps == EngineInv /\ Rest => EngineInv'
<1> SUFFICES ASSUME EngineInv, Rest PROVE EngineInv'
  OBVIOUS
<1>1. loaded' \in Seq(snapshot') /\ engine' \in Seq(snapshot')
  BY DEF Rest
<1> QED BY <1>1 DEF Rest, EngineInv, OrphansByHand, AllOrNothing, tables

LEMMA OperatorsKeep ==
  ASSUME EngineInv,
         (\E r \in Rule : InsertRule(r)) \/ \E i \in Id : SwitchRule(i) \/ DeleteRule(i)
  PROVE  EngineInv'
<1> DEFINE Kept == /\ nextId' \in Nat /\ DOMAIN table' \subseteq Id
                   /\ count' \in [Id -> Nat] /\ OrphansByHand' /\ UNCHANGED <<pc, locals>>
<1>1. Kept
  <2>1. ASSUME NEW r \in Rule, InsertRule(r)
        PROVE  Kept
    BY <2>1 DEF InsertRule, EngineInv, OrphansByHand, locals
  <2>2. ASSUME NEW i \in Id, SwitchRule(i)
        PROVE  Kept
    BY <2>2 DEF SwitchRule, EngineInv, OrphansByHand, locals
  <2>3. ASSUME NEW i \in Id, DeleteRule(i)
        PROVE  Kept
    BY <2>3 DEF DeleteRule, EngineInv, OrphansByHand, locals
  <2> HIDE DEF Kept
  <2> QED BY <2>1, <2>2, <2>3
<1> QED BY <1>1 DEF EngineInv, AllOrNothing, locals, Picks, Matches

LEMMA LoadKeeps == EngineInv /\ LoadEnabled => EngineInv'
<1> SUFFICES ASSUME EngineInv, LoadEnabled PROVE EngineInv'
  OBVIOUS
<1>1. CASE EnabledRules = {} /\ UNCHANGED <<pc, loaded, snapshot>>
  BY <1>1 DEF LoadEnabled, EngineInv, OrphansByHand, AllOrNothing, Picks, tables
<1>2. CASE EnabledRules # {} /\ pc' = "compile" /\ snapshot' = EnabledRules
  <2>1. /\ loaded' \in Listings(EnabledRules)
        /\ UNCHANGED <<tables, engine, found, counted, left>>
    BY <1>2 DEF LoadEnabled
  <2>2. /\ loaded' \in Seq(snapshot')
        /\ \A x \in snapshot' : \E i \in DOMAIN loaded' : loaded'[i] = x
    BY <1>2, <2>1, ListingIsSeq
  <2>3. \A x, y \in snapshot' : x.id = y.id => x = y
    BY <1>2 DEF EnabledRules
  <2>4. engine' \in Seq(snapshot')
    BY <2>1 DEF EngineInv, LoadEnabled
  <2> QED BY <1>2, <2>1, <2>2, <2>3, <2>4
         DEF EngineInv, OrphansByHand, AllOrNothing, tables
<1> QED BY <1>1, <1>2 DEF LoadEnabled

LEMMA CompileKeeps == EngineInv /\ Compile => EngineInv'
<1> SUFFICES ASSUME EngineInv, Compile PROVE EngineInv'
  OBVIOUS
<1>1. CASE Rest
  BY <1>1, RestKeeps
<1>2. CASE /\ Compiles(Head(loaded).row)
           /\ engine' = Append(engine, Head(loaded)) /\ loaded' = Tail(loaded)
           /\ UNCHANGED <<tables, pc, found, snapshot, counted, left>>
  <2>1. loaded \in Seq(snapshot) /\ loaded # << >> /\ engine \in Seq(snapshot)
        /\ pc = "compile"
    BY DEF EngineInv, Compile
  <2>2. loaded' \in Seq(snapshot) /\ engine' \in Seq(snapshot)
    BY <1>2, <2>1
  <2>3. ASSUME NEW i \in DOMAIN loaded
        PROVE  \/ loaded[i] = Head(loaded)
               \/ \E j \in DOMAIN loaded' : loaded'[j] = loaded[i]
    <3>1. CASE i = 1
      BY <3>1, <2>1
    <3>2. CASE i # 1
      <4>1. i - 1 \in DOMAIN loaded' /\ loaded'[i - 1] = loaded[i]
        BY <1>2, <2>1, <2>3, <3>2
      <4> QED BY <4>1
    <3> QED BY <3>1, <3>2
  <2>4. /\ \A i \in DOMAIN engine : i \in DOMAIN engine' /\ engine'[i] = engine[i]
        /\ \E i \in DOMAIN engine' : engine'[i] = Head(loaded)
    <3>1. Len(engine) + 1 \in DOMAIN engine' /\ engine'[Len(engine) + 1] = Head(loaded)
      BY <1>2, <2>1
    <3>2. \A i \in DOMAIN engine : i \in DOMAIN engine' /\ engine'[i] = engine[i]
      BY <1>2, <2>1
    <3> QED BY <3>1, <3>2
  <2>5. \A x \in snapshot :
          \/ \E i \in DOMAIN loaded' : loaded'[i] = x
          \/ Compiles(x.row) /\ \E i \in DOMAIN engine' : engine'[i] = x
    <3> SUFFICES ASSUME NEW x \in snapshot, ~ \E i \in DOMAIN loaded' : loaded'[i] = x
                 PROVE  Compiles(x.row) /\ \E i \in DOMAIN engine' : engine'[i] = x
      OBVIOUS
    <3>1. CASE \E i \in DOMAIN loaded : loaded[i] = x
      <4>1. x = Head(loaded)
        BY <2>3, <3>1
      <4> QED BY <1>2, <2>4, <4>1
    <3>2. CASE Compiles(x.row) /\ \E i \in DOMAIN engine : engine[i] = x
      BY <2>4, <3>2
    <3> QED BY <2>1, <3>1, <3>2 DEF EngineInv
  <2> QED BY <1>2, <2>1, <2>2, <2>5 DEF EngineInv, OrphansByHand, AllOrNothing, tables
<1> QED BY <1>1, <1>2 DEF Compile

LEMMA SortedKeeps == EngineInv /\ Sorted => EngineInv'
<1> SUFFICES ASSUME EngineInv, Sorted PROVE EngineInv'
  OBVIOUS
<1>1. PICK s \in Listings({engine[i] : i \in DOMAIN engine}) :
        /\ \A i, j \in DOMAIN s : i < j => Less(s[i], s[j])
        /\ engine' = s
  BY DEF Sorted
<1>2. /\ engine \in Seq(snapshot) /\ loaded = << >> /\ pc = "compile" /\ pc' = "match"
      /\ UNCHANGED <<tables, loaded, found, snapshot, counted, left>>
  BY DEF EngineInv, Sorted
<1>3. \A x \in snapshot : Compiles(x.row) /\ \E i \in DOMAIN engine : engine[i] = x
  BY <1>2 DEF EngineInv
<1>4. {engine[i] : i \in DOMAIN engine} = snapshot
  BY <1>2, <1>3
<1>5. s \in Seq(snapshot) /\ \A x \in snapshot : \E i \in DOMAIN s : s[i] = x
  BY <1>1, <1>4, ListingIsSeq
<1>6. {s[i] : i \in DOMAIN s} = snapshot
  BY <1>5
<1> QED BY <1>1, <1>2, <1>3, <1>5, <1>6, SMTT(30)
       DEF EngineInv, OrphansByHand, AllOrNothing, tables

LEMMA MatchKeeps ==
  ASSUME EngineInv, NEW l \in Line, Match(l)
  PROVE  EngineInv'
<1>1. PICK i \in DOMAIN engine : Picks(i, l) /\ found' = [line |-> l, id |-> engine[i].id]
  BY DEF Match
<1>2. found'.line = l /\ found'.id = engine[i].id /\ Picks(i, l)'
  BY <1>1 DEF Match, Picks, Matches
<1>3. /\ pc = "match" /\ pc' = "count"
      /\ UNCHANGED <<tables, loaded, engine, snapshot, counted, left>>
  BY DEF Match
<1>4. Picks(i, found.line)' /\ (found.id = engine[i].id)' /\ i \in DOMAIN engine'
  BY <1>1, <1>2, <1>3
<1>5. AllOrNothing' /\ OrphansByHand'
  BY <1>3 DEF EngineInv, AllOrNothing, OrphansByHand, tables
<1> QED BY <1>3, <1>4, <1>5 DEF EngineInv, tables

LEMMA RecordKeeps == EngineInv /\ RecordMatch => EngineInv'
<1> SUFFICES ASSUME EngineInv, RecordMatch PROVE EngineInv'
  OBVIOUS
<1>1. CASE Rest
  BY <1>1, RestKeeps
<1>2. CASE /\ found.id \in DOMAIN table \/ count[found.id] > 0
           /\ count' = [count EXCEPT ![found.id] = @ + 1] /\ counted' = counted + 1
           /\ found' = NoMatch /\ pc' = "match"
           /\ UNCHANGED <<table, nextId, loaded, engine, snapshot, left>>
  <2>1. count' \in [Id -> Nat]
    <3>1. count \in [Id -> Nat] /\ count' = [count EXCEPT ![found.id] = @ + 1]
      BY <1>2 DEF EngineInv
    <3>2. \A i \in Id : count[i] + 1 \in Nat
      BY <3>1
    <3> QED BY <3>1, <3>2
  <2>2. ASSUME NEW i \in Id, count'[i] > 0
        PROVE  i \in DOMAIN table' \cup left'
    <3>1. i = found.id \/ count'[i] = count[i]
      BY <1>2 DEF EngineInv
    <3>2. i \in DOMAIN table \/ count[i] > 0
      BY <1>2, <2>2, <3>1
    <3>3. i \in DOMAIN table \cup left
      BY <3>2 DEF EngineInv, OrphansByHand
    <3> QED BY <1>2, <3>3
  <2>3. OrphansByHand'
    BY <2>2 DEF OrphansByHand
  <2> QED BY <1>2, <2>1, <2>3 DEF EngineInv, AllOrNothing, RecordMatch
<1> QED BY <1>1, <1>2 DEF RecordMatch

LEMMA NextKeeps == EngineInv /\ [Next]_vars => EngineInv'
<1> SUFFICES ASSUME EngineInv, [Next]_vars PROVE EngineInv'
  OBVIOUS
<1>1. CASE UNCHANGED vars
  BY <1>1 DEF vars, tables, locals, EngineInv, OrphansByHand, AllOrNothing, Picks
<1>2. CASE (\E r \in Rule : InsertRule(r)) \/ \E i \in Id : SwitchRule(i) \/ DeleteRule(i)
  BY <1>2, OperatorsKeep
<1>3. CASE \E l \in Line : Match(l)
  BY <1>3, MatchKeeps
<1>4. CASE LoadEnabled \/ Compile \/ Sorted \/ RecordMatch \/ EndCycle
  BY <1>4, LoadKeeps, CompileKeeps, SortedKeeps, RecordKeeps, RestKeeps DEF EndCycle
<1> QED BY <1>1, <1>2, <1>3, <1>4 DEF Next

\* EngineInv holds for any rules, edits and lines.
THEOREM EngineInvariance == Spec => []EngineInv
<1> QED BY InitEngine, NextKeeps, PTL DEF Spec

\* All of the enabled rules or none, whichever rule does not compile (NewEngine).
THEOREM AllRulesOrNone == Spec => []AllOrNothing
<1>1. EngineInv => AllOrNothing
  BY DEF EngineInv
<1> QED BY EngineInvariance, <1>1, PTL

\* The daemon makes no count without a rule, whatever is deleted and how (RecordMatch
\* and its foreign key).
THEOREM CountsHaveRules == Spec => []OrphansByHand
<1>1. EngineInv => OrphansByHand
  BY DEF EngineInv
<1> QED BY EngineInvariance, <1>1, PTL

\* A line that some rule of the engine matches has a first one.
LEMMA FirstMatch ==
  ASSUME EngineInv, NEW l, NEW k \in DOMAIN engine, Matches(engine[k].row, l)
  PROVE  \E i \in DOMAIN engine : Picks(i, l)
<1> DEFINE T == {i \in DOMAIN engine : Matches(engine[i].row, l)}
<1>1. engine \in Seq(snapshot)
  BY DEF EngineInv
<1>2. T \subseteq Nat /\ T # {}
  BY <1>1
<1>3. PICK i \in T : \A j \in T : ~ (<<j, i>> \in OpToRel(<, Nat))
  BY <1>2, NatLessThanWellFounded, WFMin, Zenon
<1>4. \A j \in T : ~ (j < i)
  BY <1>2, <1>3 DEF OpToRel
<1>5. i \in DOMAIN engine /\ Matches(engine[i].row, l)
      /\ \A j \in 1 .. i - 1 : ~ Matches(engine[j].row, l)
  <2>3. DOMAIN engine = 1 .. Len(engine) /\ Len(engine) \in Nat
    BY <1>1
  <2>1. i \in 1 .. Len(engine) /\ DOMAIN engine = 1 .. Len(engine) /\ Len(engine) \in Nat
    BY <1>3, <2>3
  <2>2. ASSUME NEW j \in 1 .. i - 1, Matches(engine[j].row, l)
        PROVE  FALSE
    <3>1. j \in T /\ j < i
      BY <2>1, <2>2
    <3> QED BY <1>4, <3>1
  <2> QED BY <1>3, <2>2
<1> QED BY <1>5 DEF Picks

LEMMA EngineIsBest == EngineInv => BestRule
<1> SUFFICES ASSUME EngineInv PROVE BestRule
  OBVIOUS
<1>1. engine \in Seq(snapshot)
  BY DEF EngineInv
<1>2. ASSUME NEW x \in snapshot, Chosen(x)
      PROVE  x \in Rivals /\ \A y \in Rivals \ {x} : Less(x, y)
  <2>1. pc = "count" /\ x.id = found.id
    BY <1>2 DEF Chosen
  <2>2. PICK i \in DOMAIN engine : Picks(i, found.line) /\ found.id = engine[i].id
    BY <2>1 DEF EngineInv
  <2>3. x = engine[i]
    BY <1>1, <2>1, <2>2 DEF EngineInv
  <2>4. ASSUME NEW y \in Rivals, y # x
        PROVE  Less(x, y)
    <3>1. y \in snapshot /\ Matches(y.row, found.line)
      BY <2>4 DEF Rivals
    <3>2. PICK j \in DOMAIN engine : engine[j] = y
      BY <2>1, <3>1 DEF EngineInv, AllOrNothing
    <3>3. ~ (j < i)
      BY <1>1, <2>2, <3>1, <3>2 DEF Picks
    <3>4. i < j
      BY <1>1, <2>3, <2>4, <3>2, <3>3
    <3> QED BY <2>1, <2>3, <3>2, <3>4 DEF EngineInv
  <2> QED BY <1>2, <2>2, <2>3, <2>4 DEF Picks, Rivals
<1>3. ASSUME pc = "match", NEW l \in Line
      PROVE  (\E x \in snapshot : Matches(x.row, l)) <=> \E i \in DOMAIN engine : Picks(i, l)
  <2>1. ASSUME NEW x \in snapshot, Matches(x.row, l)
        PROVE  \E i \in DOMAIN engine : Picks(i, l)
    <3>1. PICK k \in DOMAIN engine : engine[k] = x
      BY <1>3, <2>1 DEF EngineInv, AllOrNothing
    <3> QED BY <2>1, <3>1, FirstMatch
  <2>2. ASSUME NEW i \in DOMAIN engine, Picks(i, l)
        PROVE  \E x \in snapshot : Matches(x.row, l)
    BY <1>1, <2>2 DEF Picks
  <2> QED BY <2>1, <2>2
<1> QED BY <1>2, <1>3 DEF BestRule, Less, ByPriority

\* Match answers with the best rule, whatever the rules and the order they were loaded
\* in, and answers whenever one matches (NewEngine, Engine.Match).
THEOREM MatchIsBest == Spec => []BestRule
<1> QED BY EngineInvariance, EngineIsBest, PTL

\* The rules of the admin come before those of the LLM (sourceRank).
THEOREM AdminComesFirst == Spec => []AdminFirst
<1>1. BestRule => AdminFirst
  <2> SUFFICES ASSUME BestRule, NEW x \in snapshot, Chosen(x),
                      x.row.source \in {"llm_generated", "llm_modified"},
                      NEW y \in Rivals, y.row.source \in {"admin_created", "admin_override"}
               PROVE  FALSE
    BY DEF AdminFirst
  <2>1. x # y
    OBVIOUS
  <2>2. Rank(x.row.source) \in {2, 4} /\ Rank(y.row.source) \in {0, 1}
    BY DEF Rank
  <2>3. Rank(x.row.source) <= Rank(y.row.source)
    BY <2>1, <2>2 DEF BestRule
  <2> QED BY <2>2, <2>3
<1> QED BY MatchIsBest, <1>1, PTL
=============================================================================
