----------------------------- MODULE EventReports -----------------------------
(***************************************************************************)
(* The issue records and who reads them: Record of internal/events/store.go *)
(* called by the processor, issues.get of internal/events/query.go and     *)
(* reports.generate of internal/reports/reports.go, called by handlers of  *)
(* the socket server at any time in between.                               *)
(*                                                                         *)
(* Record is one transaction; issues.get is two queries and a report is a  *)
(* reading of the clock, a query and an INSERT, and nothing holds these    *)
(* together.                                                               *)
(*                                                                         *)
(* Times are ticks, Res to the second.  The database compares them as the  *)
(* texts that time.RFC3339Nano makes of them, which drops the zeros at the *)
(* end of the fraction, so that within a second the order of the texts is  *)
(* not that of the times.                                                  *)
(***************************************************************************)
EXTENDS Integers, Sequences, FiniteSets

CONSTANTS
  Key,        \* fingerprints: a service and a normalized line
  Reporter,   \* requests reports.generate
  Reader,     \* requests issues.get
  Res,        \* ticks of a second
  Fraction,   \* [0 .. Res - 1 -> Seq(0 .. 9)]: the digits of a fraction of a second
  Hour, Day,  \* in ticks; a daily report covers a Day
  Limit,      \* LIMIT of the query for the occurrences of an issue
  MaxTime,    \* bound: the clock
  MaxOcc      \* bound: occurrences of a key

ASSUME KeyAssumption == Key # {}
ASSUME TimeAssumption ==
  /\ Res \in Nat \ {0} /\ Hour \in Nat \ {0} /\ Day \in Nat \ {0} /\ MaxTime \in Nat
  /\ Hour % Res = 0 /\ Day % Res = 0
ASSUME FractionAssumption == Fraction \in [0 .. Res - 1 -> Seq(0 .. 9)]
ASSUME LimitAssumption == Limit \in Nat \ {0} /\ MaxOcc \in Nat

VARIABLES
  now,
  events,     \* [Key -> row of events], total 0 when there is no row
  occs,       \* [Key -> sequence of times]: event_occurrences in the order of their ids
  asOf,       \* history: counterTime of the last Record of a key
  rec,        \* the call of Record under way: [on, key, at]
  gen,        \* [Reporter -> [pc, start, end, keys, due]]: a report in the making
  report,     \* [Reporter -> [made, start, end, keys, due]]: the last one stored
  view        \* [Reader -> [pc, key, row, size, newest]]: an answer to issues.get

vars == <<now, events, occs, asOf, rec, gen, report, view>>

-----------------------------------------------------------------------------
(* Times as texts.                                                         *)

Second(t) == t \div Res
Digits(t) == Fraction[t % Res]

\* d before e: at the first place where they differ, a digit is compared with a digit,
\* or the longer comes first, as "." and the digits come before "Z".
DigitsBefore(d, e) ==
  \E i \in 1 .. Len(d) :
    /\ \A j \in 1 .. i - 1 : j <= Len(e) /\ d[j] = e[j]
    /\ i > Len(e) \/ d[i] < e[i]

TextBefore(t, u) ==
  \/ Second(t) < Second(u)
  \/ Second(t) = Second(u) /\ DigitsBefore(Digits(t), Digits(u))

TimesOf(s) == {s[i] : i \in DOMAIN s}
TextMin(s) == CHOOSE t \in TimesOf(s) : \A u \in TimesOf(s) : ~TextBefore(u, t)
TextMax(s) == CHOOSE t \in TimesOf(s) : \A u \in TimesOf(s) : ~TextBefore(t, u)
SinceText(s, t) == Cardinality({i \in DOMAIN s : ~TextBefore(s[i], t)})

Midnight(t) == (t \div Day) * Day

NoEvent == [first |-> 0, last |-> 0, total |-> 0, today |-> 0, hour |-> 0]
NoRec == [on |-> FALSE, key |-> CHOOSE k \in Key : TRUE, at |-> 0]
NoGen == [pc |-> "idle", start |-> 0, end |-> 0, keys |-> {}, due |-> {}]
NoReport == [made |-> FALSE, start |-> 0, end |-> 0, keys |-> {}, due |-> {}]
NoView == [pc |-> "idle", key |-> CHOOSE k \in Key : TRUE, row |-> NoEvent,
           size |-> 0, newest |-> 0]

Init ==
  /\ now = 0
  /\ events = [k \in Key |-> NoEvent]
  /\ occs = [k \in Key |-> <<>>]
  /\ asOf = [k \in Key |-> 0]
  /\ rec = NoRec
  /\ gen = [c \in Reporter |-> NoGen]
  /\ report = [c \in Reporter |-> NoReport]
  /\ view = [c \in Reader |-> NoView]

Tick == /\ now < MaxTime /\ now' = now + 1
        /\ UNCHANGED <<events, occs, asOf, rec, gen, report, view>>

-----------------------------------------------------------------------------
(* The processor.                                                          *)

\* processFile reads the clock for the occurrence and calls Record.
CallRecord(k) ==
  /\ ~rec.on /\ Len(occs[k]) < MaxOcc
  /\ rec' = [on |-> TRUE, key |-> k, at |-> now]
  /\ UNCHANGED <<now, events, occs, asOf, gen, report, view>>

\* A slip: today is taken as the last 24 hours.
CountersMutant_SinceNow(s, t) ==
  [first |-> TextMin(s), last |-> TextMax(s), total |-> Len(s),
   today |-> SinceText(s, t - Day), hour |-> SinceText(s, t - Hour)]

\* updateCounters over the occurrences s, with the clock read by Record.
Counters(s, t) ==
  [first |-> TextMin(s), last |-> TextMax(s), total |-> Len(s),
   today |-> SinceText(s, Midnight(t)), hour |-> SinceText(s, t - Hour)]

\* A slip: the occurrence and the counters are not one transaction.
CommitMutant_Partial ==
  /\ rec.on
  /\ occs' = [occs EXCEPT ![rec.key] = Append(@, rec.at)]
  /\ \/ /\ events' = [events EXCEPT ![rec.key] = Counters(occs'[rec.key], now)]
        /\ asOf' = [asOf EXCEPT ![rec.key] = now]
     \/ UNCHANGED <<events, asOf>>
  /\ rec' = NoRec
  /\ UNCHANGED <<now, gen, report, view>>

\* The transaction: the row of the event, its occurrence, its counters, for the time t
\* at which Record read the clock again.
Commit ==
  /\ rec.on
  /\ occs' = [occs EXCEPT ![rec.key] = Append(@, rec.at)]
  /\ \E t \in rec.at .. now :
       /\ events' = [events EXCEPT ![rec.key] = Counters(occs'[rec.key], t)]
       /\ asOf' = [asOf EXCEPT ![rec.key] = t]
  /\ rec' = NoRec
  /\ UNCHANGED <<now, gen, report, view>>

\* Any statement fails, or the daemon goes down: the deferred Rollback.
Rollback ==
  /\ rec.on
  /\ rec' = NoRec
  /\ UNCHANGED <<now, events, occs, asOf, gen, report, view>>

-----------------------------------------------------------------------------
(* reports.generate.                                                       *)

\* Seen in the period, to the second, by what is in the database now.
SeenIn(start, end) ==
  {k \in Key : \E i \in DOMAIN occs[k] : /\ Second(start) < Second(occs[k][i])
                                         /\ Second(occs[k][i]) < Second(end)}

\* generateReport reads the clock: the period ends now.
BeginReport(c) ==
  /\ gen[c].pc = "idle"
  /\ gen' = [gen EXCEPT ![c] = [pc |-> "load", start |-> now - Day, end |-> now,
                                keys |-> {}, due |-> SeenIn(now - Day, now)]]
  /\ UNCHANGED <<now, events, occs, asOf, rec, report, view>>

\* A slip: the query has no lower bound.
LoadedMutant_LastBeforeStart(g) ==
  {k \in Key : events[k].total > 0 /\ TextBefore(events[k].last, g.end)}

\* A slip: issues are selected by first_seen_at.
LoadedMutant_FirstSeen(g) ==
  {k \in Key : /\ events[k].total > 0
               /\ ~TextBefore(events[k].first, g.start) /\ TextBefore(events[k].first, g.end)}

\* loadEvents: the issues last seen in the period.
Loaded(g) ==
  {k \in Key : /\ events[k].total > 0
               /\ ~TextBefore(events[k].last, g.start) /\ TextBefore(events[k].last, g.end)}

LoadEvents(c) ==
  /\ gen[c].pc = "load"
  /\ gen' = [gen EXCEPT ![c].pc = "insert", ![c].keys = Loaded(gen[c])]
  /\ UNCHANGED <<now, events, occs, asOf, rec, report, view>>

InsertReport(c) ==
  /\ gen[c].pc = "insert"
  /\ report' = [report EXCEPT ![c] = [made |-> TRUE, start |-> gen[c].start,
                                      end |-> gen[c].end, keys |-> gen[c].keys,
                                      due |-> gen[c].due]]
  /\ gen' = [gen EXCEPT ![c] = NoGen]
  /\ UNCHANGED <<now, events, occs, asOf, rec, view>>

ReportFails(c) ==
  /\ gen[c].pc # "idle"
  /\ gen' = [gen EXCEPT ![c] = NoGen]
  /\ UNCHANGED <<now, events, occs, asOf, rec, report, view>>

-----------------------------------------------------------------------------
(* issues.get.                                                             *)

\* A new request, also when the second query of the one before failed.
GetEvent(c, k) ==
  /\ events[k].total > 0
  /\ view' = [view EXCEPT ![c] = [pc |-> "event", key |-> k, row |-> events[k],
                                  size |-> 0, newest |-> 0]]
  /\ UNCHANGED <<now, events, occs, asOf, rec, gen, report>>

\* A slip: ORDER BY occurred_at without DESC.
GetOccurrencesMutant_Oldest(c) ==
  /\ view[c].pc = "event"
  /\ LET s == occs[view[c].key] IN
     view' = [view EXCEPT ![c].pc = "done",
                          ![c].size = IF Len(s) < Limit THEN Len(s) ELSE Limit,
                          ![c].newest = TextMin(s)]
  /\ UNCHANGED <<now, events, occs, asOf, rec, gen, report>>

\* The last occurrences in the order of their texts, at most Limit.
GetOccurrences(c) ==
  /\ view[c].pc = "event"
  /\ LET s == occs[view[c].key] IN
     view' = [view EXCEPT ![c].pc = "done",
                          ![c].size = IF Len(s) < Limit THEN Len(s) ELSE Limit,
                          ![c].newest = TextMax(s)]
  /\ UNCHANGED <<now, events, occs, asOf, rec, gen, report>>

Next ==
  \/ Tick
  \/ \E k \in Key : CallRecord(k)
  \/ Commit \/ Rollback
  \/ \E c \in Reporter : BeginReport(c) \/ LoadEvents(c) \/ InsertReport(c) \/ ReportFails(c)
  \/ \E c \in Reader, k \in Key : GetEvent(c, k)
  \/ \E c \in Reader : GetOccurrences(c)

Spec == Init /\ [][Next]_vars

-----------------------------------------------------------------------------
(* Properties.  They speak of the times themselves, not of their texts.    *)

Times(k) == TimesOf(occs[k])
SinceTime(k, t) == Cardinality({i \in DOMAIN occs[k] : occs[k][i] >= t})

\* An issue has a row exactly when it has occurrences, and the row counts all of them
\* and names their first and last second, whatever fails in the middle of Record.
RowMatchesOccurrences ==
  \A k \in Key :
    /\ events[k].total = Len(occs[k])
    /\ occs[k] # <<>> =>
         /\ events[k].first \in Times(k) /\ events[k].last \in Times(k)
         /\ \A t \in Times(k) : /\ Second(events[k].first) <= Second(t)
                                /\ Second(t) <= Second(events[k].last)

\* The counters for today and for the last hour were right when the issue was last
\* recorded, but for occurrences in the first second of the day or of the hour.
RecentCounters ==
  \A k \in Key : occs[k] # <<>> =>
    /\ events[k].today <= SinceTime(k, Midnight(asOf[k]))
    /\ events[k].today >= SinceTime(k, Midnight(asOf[k]) + Res)
    /\ events[k].hour <= SinceTime(k, Second(asOf[k] - Hour) * Res)
    /\ events[k].hour >= SinceTime(k, Second(asOf[k] - Hour) * Res + Res)

\* A report may leave out an issue that was seen in its period, but only one that was
\* seen again since then, so that it falls into a later report.
LeftOutIsLater ==
  \A c \in Reporter : report[c].made =>
    \A k \in report[c].due \ report[c].keys : Second(events[k].last) >= Second(report[c].end)

\* A report names only issues with an occurrence in its period, to the second.
ReportInPeriod ==
  \A c \in Reporter : report[c].made =>
    \A k \in report[c].keys : \E t \in Times(k) : /\ Second(report[c].start) <= Second(t)
                                                  /\ Second(t) <= Second(report[c].end)

\* issues.get: the occurrences are at least those its row counts, though the two come
\* from different moments.
DetailCovers ==
  \A c \in Reader : view[c].pc = "done" =>
    /\ view[c].size >= (IF view[c].row.total < Limit THEN view[c].row.total ELSE Limit)
    /\ Second(view[c].newest) >= Second(view[c].row.last)

\* The invariants behind them: the occurrences of an issue have a first and a last one
\* in the order of the texts, and what a request has read was in the database, which
\* only grows.
Row == [first : Int, last : Int, total : Nat, today : Nat, hour : Nat]

RowsInv ==
  /\ now \in Int /\ rec \in [on : BOOLEAN, key : Key, at : Int]
  /\ occs \in [Key -> Seq(Int)] /\ asOf \in [Key -> Int] /\ events \in [Key -> Row]
  /\ \A k \in Key : occs[k] # <<>> =>
       /\ \E t \in Times(k) : \A u \in Times(k) : ~TextBefore(u, t)
       /\ \E t \in Times(k) : \A u \in Times(k) : ~TextBefore(t, u)
  /\ RowMatchesOccurrences /\ RecentCounters

Covered(g) ==
  /\ \A k \in g.due \ g.keys : occs[k] # <<>> /\ Second(g.end) <= Second(events[k].last)
  /\ \A k \in g.keys : \E t \in Times(k) : /\ Second(g.start) <= Second(t)
                                          /\ Second(t) <= Second(g.end)

GenOK(g) ==
  /\ g.pc = "load" => \A k \in g.due : \E t \in Times(k) : Second(g.start) < Second(t)
  /\ g.pc = "insert" => Covered(g)

ViewOK(v) ==
  /\ v.pc = "event" => /\ v.row.total \in 1 .. Len(occs[v.key])
                       /\ v.row.last \in Times(v.key)
  /\ v.pc = "done" =>
       /\ v.size >= (IF v.row.total < Limit THEN v.row.total ELSE Limit)
       /\ Second(v.newest) >= Second(v.row.last)

ReadersInv ==
  /\ gen \in [Reporter -> [pc : {"idle", "load", "insert"}, start : Int, end : Int,
                          keys : SUBSET Key, due : SUBSET Key]]
  /\ report \in [Reporter -> [made : BOOLEAN, start : Int, end : Int,
                             keys : SUBSET Key, due : SUBSET Key]]
  /\ view \in [Reader -> [pc : {"idle", "event", "done"}, key : Key, row : Row,
                         size : Nat, newest : Int]]
  /\ \A c \in Reporter : GenOK(gen[c]) /\ (report[c].made => Covered(report[c]))
  /\ \A c \in Reader : ViewOK(view[c])

ReportsInv == RowsInv /\ ReadersInv

\* The body of a report without issues says that none was recorded during its period.
EmptyReportIsTrue ==
  \A c \in Reporter : report[c].made /\ report[c].keys = {} => report[c].due = {}
=============================================================================
