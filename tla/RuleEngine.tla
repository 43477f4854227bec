------------------------------ MODULE RuleEngine ------------------------------
(***************************************************************************)
(* The rules of internal/rules as a cycle of the processor uses them:      *)
(* LoadEnabled reads them once, NewEngine compiles and orders them, Match  *)
(* picks one for a line and RecordMatch counts it, while the operators     *)
(* edit the table of rules by hand.                                        *)
(*                                                                         *)
(* What a pattern matches is data: a rule carries the set of lines it      *)
(* matches.  "text" stands for the matchers over the line and the service, *)
(* "field" for those over the fields, which the processor leaves empty.    *)
(***************************************************************************)
EXTENDS Integers, Sequences

CONSTANTS
  Line,     \* kinds of lines
  Rule,     \* the rows the operators may write
  MaxId,    \* bound: rows ever inserted into rules
  MaxCount  \* bound: lines matched

SourceName == {"admin_override", "admin_created", "llm_modified", "system_default",
               "llm_generated", "other"}
\* sound: a name, a pattern and an action, a field if needed, a regex that parses.
RuleType == [source : SourceName, priority : Nat, matcher : {"text", "field", "other"},
             sound : BOOLEAN, lines : SUBSET Line, enabled : BOOLEAN]
Id == 1 .. MaxId

ASSUME RuleAssumption == Rule \subseteq RuleType
ASSUME MaxAssumption == MaxId \in Nat /\ MaxCount \in Nat

VARIABLES
  table,    \* rules: [id -> row] for the ids there are
  nextId,   \* its AUTOINCREMENT counter
  count,    \* rule_performance.match_count: [Id -> Nat], 0 when there is no row
  pc,       \* "idle", "compile", "match", "count"
  loaded,   \* what is left to compile: a sequence of [id, row]
  engine,   \* the rules of the Engine, a sequence of [id, row]
  found,    \* [line, id]: the match to be counted
  snapshot, \* history: all that LoadEnabled returned, as a set
  counted,  \* history: lines matched so far
  left      \* history: rules deleted without their row of rule_performance

tables == <<table, nextId, count>>
locals == <<loaded, engine, found, snapshot>>
vars == <<tables, pc, locals, counted, left>>

NoMatch == [line |-> CHOOSE l \in Line : TRUE, id |-> 0]

Init ==
  /\ table = << >> /\ nextId = 1 /\ count = [i \in Id |-> 0]
  /\ pc = "idle" /\ loaded = << >> /\ engine = << >> /\ found = NoMatch
  /\ snapshot = {} /\ counted = 0 /\ left = {}

-----------------------------------------------------------------------------
(* The operators, in the database: the daemon has no request for rules.    *)

InsertRule(r) ==
  /\ nextId \in Id
  /\ table' = [i \in DOMAIN table \cup {nextId} |-> IF i = nextId THEN r ELSE table[i]]
  /\ nextId' = nextId + 1
  /\ UNCHANGED <<count, pc, locals, counted, left>>

SwitchRule(i) ==
  /\ i \in DOMAIN table
  /\ table' = [table EXCEPT ![i].enabled = ~@]
  /\ UNCHANGED <<nextId, count, pc, locals, counted, left>>

\* SQLite enforces ON DELETE CASCADE on connections that turned foreign keys on: the
\* daemon's do, sqlite3 does when told to.  Otherwise the row of rule_performance stays.
DeleteRule(i) ==
  /\ i \in DOMAIN table
  /\ table' = [j \in DOMAIN table \ {i} |-> table[j]]
  /\ \/ count' = [count EXCEPT ![i] = 0] /\ UNCHANGED left
     \/ count[i] > 0 /\ left' = left \cup {i} /\ UNCHANGED count
  /\ UNCHANGED <<nextId, pc, locals, counted>>

-----------------------------------------------------------------------------
(* The processor.                                                          *)

Rank(source) ==
  CASE source = "admin_override" -> 0
    [] source = "admin_created"  -> 1
    [] source = "llm_modified"   -> 2
    [] source = "system_default" -> 3
    [] source = "llm_generated"  -> 4
    [] OTHER                     -> 5

ByPriority(a, b) ==
  \/ a.row.priority < b.row.priority
  \/ a.row.priority = b.row.priority /\ a.id < b.id

\* A slip: the priority is compared before the source.
LessMutant_PriorityFirst(a, b) ==
  \/ a.row.priority < b.row.priority
  \/ /\ a.row.priority = b.row.priority
     /\ \/ Rank(a.row.source) < Rank(b.row.source)
        \/ Rank(a.row.source) = Rank(b.row.source) /\ a.id < b.id

\* The order of NewEngine's sort.
Less(a, b) ==
  \/ Rank(a.row.source) < Rank(b.row.source)
  \/ Rank(a.row.source) = Rank(b.row.source) /\ ByPriority(a, b)

Compiles(r) == r.sound /\ r.matcher # "other"
Matches(r, l) == r.matcher = "text" /\ l \in r.lines

\* The sequences that list S.
Listings(S) == {s \in UNION {[1 .. n -> S] : n \in 0 .. MaxId} :
                  \A x \in S : \E i \in DOMAIN s : s[i] = x}

Rest == /\ pc' = "idle" /\ loaded' = << >> /\ engine' = << >> /\ found' = NoMatch
        /\ snapshot' = {} /\ UNCHANGED <<tables, counted, left>>

EnabledRules ==
  {[id |-> i, row |-> table[i]] : i \in {j \in DOMAIN table : table[j].enabled}}

\* Without a rule the cycle ends here.
LoadEnabled ==
  /\ pc = "idle"
  /\ \/ /\ EnabledRules # {} /\ pc' = "compile" /\ snapshot' = EnabledRules
        /\ \E s \in Listings(EnabledRules) :
             /\ \A i, j \in DOMAIN s : i < j => ByPriority(s[i], s[j])
             /\ loaded' = s
     \/ EnabledRules = {} /\ UNCHANGED <<pc, loaded, snapshot>>
  /\ UNCHANGED <<tables, engine, found, counted, left>>

\* A slip: a rule that does not compile is passed over.
CompileMutant_SkipBad ==
  /\ pc = "compile" /\ loaded # << >>
  /\ engine' = IF Compiles(Head(loaded).row) THEN Append(engine, Head(loaded)) ELSE engine
  /\ loaded' = Tail(loaded)
  /\ UNCHANGED <<tables, pc, found, snapshot, counted, left>>

\* One rule that does not compile fails the cycle.
Compile ==
  /\ pc = "compile" /\ loaded # << >>
  /\ IF Compiles(Head(loaded).row)
     THEN /\ engine' = Append(engine, Head(loaded)) /\ loaded' = Tail(loaded)
          /\ UNCHANGED <<tables, pc, found, snapshot, counted, left>>
     ELSE Rest

Sorted ==
  /\ pc = "compile" /\ loaded = << >>
  /\ \E s \in Listings({engine[i] : i \in DOMAIN engine}) :
       /\ \A i, j \in DOMAIN s : i < j => Less(s[i], s[j])
       /\ engine' = s
  /\ pc' = "match"
  /\ UNCHANGED <<tables, loaded, found, snapshot, counted, left>>

\* The first rule of the engine that matches.
Picks(i, l) == /\ Matches(engine[i].row, l)
               /\ \A j \in 1 .. i - 1 : ~Matches(engine[j].row, l)

\* A line no rule matches changes nothing here.
Match(l) ==
  /\ pc = "match" /\ counted < MaxCount
  /\ \E i \in DOMAIN engine : Picks(i, l) /\ found' = [line |-> l, id |-> engine[i].id]
  /\ pc' = "count"
  /\ UNCHANGED <<tables, loaded, engine, snapshot, counted, left>>

\* A slip: no foreign key from rule_performance to rules.
RecordMatchMutant_NoForeignKey ==
  /\ pc = "count"
  /\ count' = [count EXCEPT ![found.id] = @ + 1] /\ counted' = counted + 1
  /\ found' = NoMatch /\ pc' = "match"
  /\ UNCHANGED <<table, nextId, loaded, engine, snapshot, left>>

\* An upsert.  When the rule was deleted since, the foreign key rejects a new row; one
\* that survived the delete is updated, as its key does not change.
RecordMatch ==
  /\ pc = "count"
  /\ IF found.id \in DOMAIN table \/ count[found.id] > 0
     THEN /\ count' = [count EXCEPT ![found.id] = @ + 1] /\ counted' = counted + 1
          /\ found' = NoMatch /\ pc' = "match"
          /\ UNCHANGED <<table, nextId, loaded, engine, snapshot, left>>
     ELSE Rest

\* The end of a cycle, or an error of any other call of it.
EndCycle == pc # "idle" /\ Rest

Next ==
  \/ \E r \in Rule : InsertRule(r)
  \/ \E i \in Id : SwitchRule(i) \/ DeleteRule(i)
  \/ LoadEnabled \/ Compile \/ Sorted
  \/ \E l \in Line : Match(l)
  \/ RecordMatch \/ EndCycle

Spec == Init /\ [][Next]_vars

-----------------------------------------------------------------------------
(* Properties.                                                             *)

Chosen(x) == pc = "count" /\ x \in snapshot /\ x.id = found.id
Rivals == {x \in snapshot : Matches(x.row, found.line)}

\* The rules the admin created or overrode take precedence over those the LLM wrote,
\* whatever their priorities, as docs/RULE_SYSTEM.md says: Match never answers with a
\* rule of the LLM for a line one of the admin's enabled rules matches.
AdminFirst ==
  \A x \in snapshot : Chosen(x) /\ x.row.source \in {"llm_generated", "llm_modified"}
    => \A y \in Rivals : y.row.source \notin {"admin_created", "admin_override"}

\* Match answers with the rule of the best rank, among these the lowest priority, among
\* these the oldest, whatever the order of LoadEnabled; and a line that some rule
\* matches always gets an answer.
BestRule ==
  /\ \A x \in snapshot : Chosen(x) =>
       /\ x \in Rivals
       /\ \A y \in Rivals \ {x} :
            \/ Rank(x.row.source) < Rank(y.row.source)
            \/ /\ Rank(x.row.source) = Rank(y.row.source)
               /\ \/ x.row.priority < y.row.priority
                  \/ x.row.priority = y.row.priority /\ x.id < y.id
  /\ pc = "match" =>
       \A l \in Line : (\E x \in snapshot : Matches(x.row, l))
                         <=> \E i \in DOMAIN engine : Picks(i, l)

\* All of the enabled rules or none: no line is judged by a part of them, as NewEngine
\* gives up at the first rule that does not compile.
AllOrNothing ==
  pc \in {"match", "count"} =>
    /\ {engine[i] : i \in DOMAIN engine} = snapshot
    /\ \A x \in snapshot : Compiles(x.row)

\* The daemon makes no count without a rule, also when the rule is deleted between the
\* Match of a line and its RecordMatch: what there is of these was left by a delete that
\* did not cascade (the foreign keys db.Open turns on).
OrphansByHand == \A i \in Id : count[i] > 0 => i \in DOMAIN table \cup left

\* The invariant behind them: what was loaded is compiled or still to come, the sorted
\* engine is what was loaded, and the match to be counted is the engine's own answer.
EngineInv ==
  /\ nextId \in Nat /\ DOMAIN table \subseteq Id /\ count \in [Id -> Nat] /\ OrphansByHand
  /\ pc \in {"idle", "compile", "match", "count"}
  /\ loaded \in Seq(snapshot) /\ engine \in Seq(snapshot)
  /\ pc = "idle" => engine = << >>
  /\ \A x, y \in snapshot : x.id = y.id => x = y
  /\ pc = "compile" =>
       \A x \in snapshot : \/ \E i \in DOMAIN loaded : loaded[i] = x
                           \/ Compiles(x.row) /\ \E i \in DOMAIN engine : engine[i] = x
  /\ AllOrNothing
  /\ pc \in {"match", "count"} =>
       \A i, j \in DOMAIN engine : i < j => Less(engine[i], engine[j])
  /\ pc = "count" => \E i \in DOMAIN engine : /\ Picks(i, found.line)
                                             /\ found.id = engine[i].id
=============================================================================
