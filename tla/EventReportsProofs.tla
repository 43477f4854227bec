------------------------- MODULE EventReportsProofs -------------------------
(***************************************************************************)
(* Proofs about EventReports: what the database, the reports and the       *)
(* details say of the occurrences, for any issues, requests and times,     *)
(* although the database compares texts.                                   *)
(***************************************************************************)
EXTENDS EventReports, FiniteSetTheorems, TLAPS

-----------------------------------------------------------------------------
(* Times and texts.                                                        *)

LEMMA SecondType ==
  ASSUME NEW t \in Int
  PROVE  Second(t) \in Int /\ Digits(t) \in Seq(0 .. 9)
         /\ Res * Second(t) <= t /\ t < Res * Second(t) + Res
BY TimeAssumption, FractionAssumption DEF Second, Digits

LEMMA SecondMonotone ==
  ASSUME NEW t \in Int, NEW u \in Int, t <= u
  PROVE  Second(t) <= Second(u)
BY TimeAssumption DEF Second

\* A day and an hour begin with a second.
LEMMA MidnightIsSecond ==
  ASSUME NEW t \in Int
  PROVE  Midnight(t) \in Int /\ Second(Midnight(t)) * Res = Midnight(t)
<1> DEFINE x == t \div Day
           q == Day \div Res
<1>1. x \in Int /\ q \in Int /\ Res \in Nat \ {0} /\ Day = Res * q
  BY TimeAssumption
<1> HIDE DEF x, q
<1>2. x * (Res * q) = Res * (x * q) /\ x * q \in Int
  BY <1>1
<1>3. \A y \in Int : (Res * y) \div Res = y
  BY <1>1
<1>4. Midnight(t) = Res * (x * q)
  BY <1>1, <1>2 DEF Midnight, x
<1>5. Second(Midnight(t)) = x * q
  BY <1>2, <1>3, <1>4 DEF Second
<1> QED BY <1>1, <1>2, <1>4, <1>5

LEMMA Scaled ==
  ASSUME NEW r \in Nat, NEW a \in Int, NEW b \in Int, a <= b
  PROVE  r * a <= r * b /\ r * a \in Int /\ r * b \in Int /\ b * r = r * b
<1>1. b - a \in Nat /\ r * (b - a) \in Nat
  OBVIOUS
<1>2. r * b = r * a + r * (b - a)
  OBVIOUS
<1> QED BY <1>1, <1>2

LEMMA DigitsIrreflexive ==
  ASSUME NEW d \in Seq(0 .. 9)
  PROVE  ~DigitsBefore(d, d)
BY DEF DigitsBefore

LEMMA DigitsTransitive ==
  ASSUME NEW d \in Seq(0 .. 9), NEW e \in Seq(0 .. 9), NEW f \in Seq(0 .. 9),
         DigitsBefore(d, e), DigitsBefore(e, f)
  PROVE  DigitsBefore(d, f)
<1>1. PICK i \in 1 .. Len(d) : /\ \A n \in 1 .. i - 1 : n <= Len(e) /\ d[n] = e[n]
                               /\ i > Len(e) \/ d[i] < e[i]
  BY DEF DigitsBefore
<1>2. PICK j \in 1 .. Len(e) : /\ \A n \in 1 .. j - 1 : n <= Len(f) /\ e[n] = f[n]
                               /\ j > Len(f) \/ e[j] < f[j]
  BY DEF DigitsBefore
<1> SUFFICES \E m \in 1 .. Len(d) : /\ \A n \in 1 .. m - 1 : n <= Len(f) /\ d[n] = f[n]
                                    /\ m > Len(f) \/ d[m] < f[m]
  BY DEF DigitsBefore
<1>3. Len(d) \in Nat /\ Len(e) \in Nat /\ Len(f) \in Nat
  OBVIOUS
<1>4. CASE i <= j
  <2>1. i <= Len(e) /\ d[i] < e[i]
    <3>1. i <= Len(e)
      BY <1>2, <1>3, <1>4
    <3> QED BY <1>1, <1>3, <3>1
  <2>2. ASSUME NEW n \in 1 .. i - 1
        PROVE  n <= Len(f) /\ d[n] = f[n]
    <3>1. n \in 1 .. j - 1
      BY <1>3, <1>4
    <3> QED BY <1>1, <1>2, <3>1, Zenon
  <2>3. ASSUME i <= Len(f)
        PROVE  d[i] < f[i]
    <3>1. i \in DOMAIN d /\ i \in DOMAIN e /\ i \in DOMAIN f
      BY <1>3, <2>1, <2>3
    <3>2. d[i] \in Int /\ e[i] \in Int /\ f[i] \in Int
      BY <3>1, SMTT(30)
    <3>3. CASE i = j
      BY <1>2, <1>3, <2>1, <2>3, <3>2, <3>3
    <3>4. CASE i < j
      <4>1. i \in 1 .. j - 1
        BY <1>3, <3>4
      <4>2. e[i] = f[i]
        BY <1>2, <4>1
      <4> QED BY <2>1, <4>2
    <3> QED BY <1>3, <1>4, <3>3, <3>4
  <2> QED BY <1>3, <2>2, <2>3
<1>5. CASE j < i
  <2>1. j \in 1 .. i - 1 /\ j \in 1 .. Len(d)
    BY <1>3, <1>5
  <2>2. d[j] = e[j]
    BY <1>1, <2>1, Zenon
  <2>3. ASSUME NEW n \in 1 .. j - 1
        PROVE  n <= Len(f) /\ d[n] = f[n]
    <3>1. n \in 1 .. i - 1
      BY <1>3, <1>5
    <3> QED BY <1>1, <1>2, <3>1, Zenon
  <2> QED BY <1>2, <2>1, <2>2, <2>3
<1> QED BY <1>3, <1>4, <1>5

LEMMA TextIrreflexive == \A t \in Int : ~TextBefore(t, t)
BY SecondType, DigitsIrreflexive DEF TextBefore

LEMMA TextTransitive ==
  ASSUME NEW t \in Int, NEW u \in Int, NEW v \in Int, TextBefore(t, u), TextBefore(u, v)
  PROVE  TextBefore(t, v)
<1>1. /\ Second(t) \in Int /\ Second(u) \in Int /\ Second(v) \in Int
      /\ Digits(t) \in Seq(0 .. 9) /\ Digits(u) \in Seq(0 .. 9) /\ Digits(v) \in Seq(0 .. 9)
  BY SecondType
<1>2. DigitsBefore(Digits(t), Digits(u)) /\ DigitsBefore(Digits(u), Digits(v))
        => DigitsBefore(Digits(t), Digits(v))
  BY <1>1, DigitsTransitive
<1> QED BY <1>1, <1>2 DEF TextBefore

\* One more occurrence: the first and the last text are the old ones or the new one.
LEMMA ExtremesGrow ==
  ASSUME NEW T \in SUBSET Int, NEW a \in Int,
         T = {} \/ \E t \in T : \A u \in T : ~TextBefore(u, t),
         T = {} \/ \E t \in T : \A u \in T : ~TextBefore(t, u)
  PROVE  /\ \E t \in T \cup {a} : \A u \in T \cup {a} : ~TextBefore(u, t)
         /\ \E t \in T \cup {a} : \A u \in T \cup {a} : ~TextBefore(t, u)
<1>1. ~TextBefore(a, a)
  BY TextIrreflexive
<1>2. ASSUME NEW t \in T, \A u \in T : ~TextBefore(u, t)
      PROVE  \E m \in T \cup {a} : \A u \in T \cup {a} : ~TextBefore(u, m)
  <2>1. CASE TextBefore(a, t)
    BY <1>1, <1>2, <2>1, TextTransitive
  <2>2. CASE ~TextBefore(a, t)
    BY <1>2, <2>2
  <2> QED BY <2>1, <2>2
<1>3. ASSUME NEW t \in T, \A u \in T : ~TextBefore(t, u)
      PROVE  \E m \in T \cup {a} : \A u \in T \cup {a} : ~TextBefore(m, u)
  <2>1. CASE TextBefore(t, a)
    BY <1>1, <1>3, <2>1, TextTransitive
  <2>2. CASE ~TextBefore(t, a)
    BY <1>3, <2>2
  <2> QED BY <2>1, <2>2
<1> QED BY <1>1, <1>2, <1>3

\* SinceText counts whole seconds from u on, and of the second of u a part.
LEMMA SinceTextBounds ==
  ASSUME NEW s \in Seq(Int), NEW u \in Int
  PROVE  /\ SinceText(s, u) \in Nat
         /\ SinceText(s, u) <= Cardinality({i \in DOMAIN s : s[i] >= Second(u) * Res})
         /\ Cardinality({i \in DOMAIN s : s[i] >= Second(u) * Res + Res}) <= SinceText(s, u)
<1> DEFINE C == {i \in DOMAIN s : ~TextBefore(s[i], u)}
           A == {i \in DOMAIN s : s[i] >= Second(u) * Res}
           B == {i \in DOMAIN s : s[i] >= Second(u) * Res + Res}
<1>1. ASSUME NEW i \in DOMAIN s
      PROVE  /\ ~TextBefore(s[i], u) => s[i] >= Second(u) * Res
             /\ s[i] >= Second(u) * Res + Res => ~TextBefore(s[i], u)
  <2> DEFINE t == s[i]
  <2>1. t \in Int /\ Res \in Nat \ {0}
    BY TimeAssumption
  <2>2. /\ Second(t) \in Int /\ Res * Second(t) <= t /\ t < Res * Second(t) + Res
        /\ Second(u) \in Int
    BY <2>1, SecondType
  <2> HIDE DEF t
  <2>3. ASSUME Second(t) >= Second(u)
        PROVE  t >= Second(u) * Res
    <3>1. Res * Second(u) <= Res * Second(t)
      BY <2>1, <2>2, <2>3, Scaled
    <3>2. Second(u) * Res = Res * Second(u) /\ Res * Second(u) \in Int
          /\ Res * Second(t) \in Int
      BY <2>1, <2>2
    <3> QED BY <2>1, <2>2, <3>1, <3>2
  <2>4. ASSUME t >= Second(u) * Res + Res
        PROVE  Second(t) > Second(u)
    <3>1. SUFFICES ASSUME Second(t) <= Second(u) PROVE FALSE
      BY <2>2
    <3>2. Res * Second(t) <= Res * Second(u)
      BY <2>1, <2>2, <3>1, Scaled
    <3>3. Second(u) * Res = Res * Second(u) /\ Res * Second(u) \in Int
          /\ Res * Second(t) \in Int
      BY <2>1, <2>2
    <3> QED BY <2>1, <2>2, <2>4, <3>2, <3>3
  <2> QED BY <2>2, <2>3, <2>4 DEF TextBefore, t
<1>2. C \subseteq A /\ B \subseteq C
  BY <1>1
<1>3. DOMAIN s = 1 .. Len(s) /\ Len(s) \in Nat
  OBVIOUS
<1>4. IsFiniteSet(1 .. Len(s))
  BY <1>3, FS_Interval
<1>5. IsFiniteSet(A) /\ IsFiniteSet(C)
  BY <1>3, <1>4, FS_Subset
<1>6. Cardinality(C) <= Cardinality(A) /\ Cardinality(B) <= Cardinality(C)
  BY <1>2, <1>5, FS_Subset
<1>7. Cardinality(C) \in Nat
  BY <1>5, FS_CardinalityType
<1> QED BY <1>6, <1>7 DEF SinceText
-----------------------------------------------------------------------------
(* The rows.                                                               *)

LEMMA InitRows == Init => RowsInv
<1> SUFFICES ASSUME Init PROVE RowsInv
  OBVIOUS
<1>1. \A k \in Key : occs[k] = <<>> /\ events[k] = NoEvent
  BY DEF Init
<1>2. NoEvent \in Row /\ NoEvent.total = 0
  BY DEF NoEvent, Row
<1>3. occs \in [Key -> Seq(Int)] /\ events \in [Key -> Row]
  BY <1>2 DEF Init
<1>4. rec \in [on : BOOLEAN, key : Key, at : Int]
  BY KeyAssumption DEF Init, NoRec
<1>5. RowMatchesOccurrences /\ RecentCounters
  BY <1>1, <1>2 DEF RowMatchesOccurrences, RecentCounters
<1> QED BY <1>1, <1>3, <1>4, <1>5 DEF Init, RowsInv

\* What updateCounters makes of the occurrences of an issue.
LEMMA CountersRight ==
  ASSUME NEW s \in Seq(Int), s # <<>>, NEW t \in Int,
         \E m \in TimesOf(s) : \A u \in TimesOf(s) : ~TextBefore(u, m),
         \E m \in TimesOf(s) : \A u \in TimesOf(s) : ~TextBefore(m, u)
  PROVE  LET r == Counters(s, t) IN
         /\ r \in Row /\ r.total = Len(s)
         /\ r.first \in TimesOf(s) /\ r.last \in TimesOf(s)
         /\ \A u \in TimesOf(s) : Second(r.first) <= Second(u) /\ Second(u) <= Second(r.last)
         /\ r.today = SinceText(s, Midnight(t)) /\ r.hour = SinceText(s, t - Hour)
<1>1. /\ TextMin(s) \in TimesOf(s) /\ \A u \in TimesOf(s) : ~TextBefore(u, TextMin(s))
      /\ TextMax(s) \in TimesOf(s) /\ \A u \in TimesOf(s) : ~TextBefore(TextMax(s), u)
  BY DEF TextMin, TextMax
<1>2. TimesOf(s) \subseteq Int
  BY DEF TimesOf
<1>3. \A u \in TimesOf(s) : Second(TextMin(s)) <= Second(u) /\ Second(u) <= Second(TextMax(s))
  <2> SUFFICES ASSUME NEW u \in TimesOf(s)
               PROVE  Second(TextMin(s)) <= Second(u) /\ Second(u) <= Second(TextMax(s))
    OBVIOUS
  <2>1. Second(u) \in Int /\ Second(TextMin(s)) \in Int /\ Second(TextMax(s)) \in Int
    BY <1>1, <1>2, SecondType
  <2>2. ~TextBefore(u, TextMin(s)) /\ ~TextBefore(TextMax(s), u)
    BY <1>1
  <2> QED BY <2>1, <2>2 DEF TextBefore
<1>4. Midnight(t) \in Int /\ t - Hour \in Int
  BY MidnightIsSecond, TimeAssumption
<1>5. SinceText(s, Midnight(t)) \in Nat /\ SinceText(s, t - Hour) \in Nat /\ Len(s) \in Nat
  <2>1. \A u \in Int : SinceText(s, u) \in Nat
    BY SinceTextBounds
  <2> QED BY <1>4, <2>1
<1> QED BY <1>1, <1>2, <1>3, <1>5 DEF Counters, Row

\* What is read of an issue stays true: its occurrences only grow, and its row with them.
Grows(k) ==
  /\ Times(k) \subseteq Times(k)' /\ Len(occs[k]) <= Len(occs[k])'
  /\ occs[k] # <<>> => /\ occs'[k] # <<>>
                       /\ Second(events[k].last) <= Second(events[k].last)'

LEMMA CommitRows ==
  ASSUME RowsInv, Commit
  PROVE  RowsInv' /\ \A k \in Key : Grows(k)
<1> DEFINE key == rec.key
           s == Append(occs[key], rec.at)
<1>1. /\ key \in Key /\ occs[key] \in Seq(Int) /\ rec.at \in Int /\ now \in Int
  BY DEF RowsInv
<1>2. PICK t \in rec.at .. now : /\ events' = [events EXCEPT ![key] = Counters(s, t)]
                                 /\ asOf' = [asOf EXCEPT ![key] = t]
  BY <1>1 DEF Commit, RowsInv
<1>3. /\ occs' = [occs EXCEPT ![key] = s] /\ now' = now /\ t \in Int
      /\ rec' \in [on : BOOLEAN, key : Key, at : Int]
  BY <1>1, <1>2, KeyAssumption DEF Commit, NoRec
<1>4. s \in Seq(Int) /\ s # <<>> /\ TimesOf(s) = TimesOf(occs[key]) \cup {rec.at}
      /\ Len(s) = Len(occs[key]) + 1 /\ Len(occs[key]) \in Nat
  <2>1. s \in Seq(Int) /\ s # <<>> /\ Len(s) = Len(occs[key]) + 1 /\ Len(occs[key]) \in Nat
    <3>1. s \in Seq(Int) /\ Len(s) = Len(occs[key]) + 1 /\ Len(occs[key]) \in Nat
      BY <1>1
    <3> QED BY <3>1
  <2>2. /\ \A i \in DOMAIN occs[key] : i \in DOMAIN s /\ s[i] = occs[key][i]
        /\ s[Len(s)] = rec.at /\ Len(s) \in DOMAIN s
        /\ \A i \in DOMAIN s : i = Len(s) \/ i \in DOMAIN occs[key]
    <3>1. DOMAIN s = 1 .. Len(s) /\ DOMAIN occs[key] = 1 .. Len(occs[key])
      BY <1>1, <2>1
    <3>2. ASSUME NEW i \in 1 .. Len(occs[key])
          PROVE  s[i] = occs[key][i]
      BY <1>1
    <3>3. s[Len(occs[key]) + 1] = rec.at
      BY <1>1
    <3> HIDE DEF s
    <3> QED BY <2>1, <3>1, <3>2, <3>3
  <2> HIDE DEF s
  <2>3. TimesOf(s) = TimesOf(occs[key]) \cup {rec.at}
    BY <2>2 DEF TimesOf
  <2> QED BY <2>1, <2>3
<1> HIDE DEF s, key
<1>5. /\ \E m \in TimesOf(s) : \A u \in TimesOf(s) : ~TextBefore(u, m)
      /\ \E m \in TimesOf(s) : \A u \in TimesOf(s) : ~TextBefore(m, u)
  <2>1. TimesOf(occs[key]) \subseteq Int
    BY <1>1 DEF TimesOf
  <2>2. occs[key] = <<>> => TimesOf(occs[key]) = {}
    BY DEF TimesOf
  <2>3. occs[key] # <<>> =>
          /\ \E m \in TimesOf(occs[key]) : \A u \in TimesOf(occs[key]) : ~TextBefore(u, m)
          /\ \E m \in TimesOf(occs[key]) : \A u \in TimesOf(occs[key]) : ~TextBefore(m, u)
    BY <1>1 DEF RowsInv, Times
  <2> DEFINE T == TimesOf(occs[key])
  <2>4. /\ \E m \in T \cup {rec.at} : \A u \in T \cup {rec.at} : ~TextBefore(u, m)
        /\ \E m \in T \cup {rec.at} : \A u \in T \cup {rec.at} : ~TextBefore(m, u)
    <3> HIDE DEF T
    <3>1. T \in SUBSET Int
      BY <2>1 DEF T
    <3>2. /\ T = {} \/ \E m \in T : \A u \in T : ~TextBefore(u, m)
          /\ T = {} \/ \E m \in T : \A u \in T : ~TextBefore(m, u)
      BY <2>2, <2>3 DEF T
    <3> QED BY <1>1, <3>1, <3>2, ExtremesGrow, ZenonT(30)
  <2> QED BY <1>4, <2>4
<1> DEFINE r == Counters(s, t)
<1>6. /\ r \in Row /\ r.total = Len(s) /\ r.first \in TimesOf(s) /\ r.last \in TimesOf(s)
      /\ \A u \in TimesOf(s) : Second(r.first) <= Second(u) /\ Second(u) <= Second(r.last)
      /\ r.today = SinceText(s, Midnight(t)) /\ r.hour = SinceText(s, t - Hour)
  BY <1>3, <1>4, <1>5, CountersRight
<1> HIDE DEF r
<1>7. /\ \A k \in Key \ {key} : /\ occs'[k] = occs[k] /\ events'[k] = events[k]
                                /\ asOf'[k] = asOf[k]
      /\ occs'[key] = s /\ events'[key] = r /\ asOf'[key] = t
  BY <1>1, <1>2, <1>3 DEF RowsInv, r
<1>8. /\ occs' \in [Key -> Seq(Int)] /\ asOf' \in [Key -> Int] /\ events' \in [Key -> Row]
  BY <1>1, <1>2, <1>3, <1>4, <1>6 DEF RowsInv, r
<1>9. ASSUME NEW k \in Key, occs'[k] # <<>>
      PROVE  /\ \E m \in Times(k)' : \A u \in Times(k)' : ~TextBefore(u, m)
             /\ \E m \in Times(k)' : \A u \in Times(k)' : ~TextBefore(m, u)
  BY <1>5, <1>7, <1>9 DEF RowsInv, Times
<1>10. RowMatchesOccurrences'
  BY <1>4, <1>6, <1>7 DEF RowsInv, RowMatchesOccurrences, Times
<1>11. RecentCounters'
  <2> SUFFICES ASSUME NEW k \in Key, occs'[k] # <<>>
               PROVE  /\ events'[k].today <= SinceTime(k, Midnight(asOf[k]))'
                      /\ events'[k].today >= SinceTime(k, Midnight(asOf[k]) + Res)'
                      /\ events'[k].hour <= SinceTime(k, Second(asOf[k] - Hour) * Res)'
                      /\ events'[k].hour >= SinceTime(k, Second(asOf[k] - Hour) * Res + Res)'
    BY DEF RecentCounters
  <2>1. CASE k # key
    BY <1>7, <2>1 DEF RowsInv, RecentCounters, SinceTime
  <2>2. CASE k = key
    <3>1. Midnight(t) \in Int /\ Second(Midnight(t)) * Res = Midnight(t) /\ t - Hour \in Int
      BY <1>3, MidnightIsSecond, TimeAssumption
    <3>2. \A u \in Int :
            /\ SinceText(s, u) <= Cardinality({i \in DOMAIN s : s[i] >= Second(u) * Res})
            /\ Cardinality({i \in DOMAIN s : s[i] >= Second(u) * Res + Res}) <= SinceText(s, u)
      BY <1>4, SinceTextBounds
    <3>3. /\ SinceText(s, Midnight(t))
               <= Cardinality({i \in DOMAIN s : s[i] >= Midnight(t)})
          /\ Cardinality({i \in DOMAIN s : s[i] >= Midnight(t) + Res})
               <= SinceText(s, Midnight(t))
      BY <3>1, <3>2
    <3> QED BY <1>6, <1>7, <2>2, <3>1, <3>2, <3>3 DEF SinceTime
  <2> QED BY <2>1, <2>2
<1>12. ASSUME NEW k \in Key
       PROVE  Grows(k)
  <2>1. CASE k # key
    <3>1. events[k].last \in Int /\ Len(occs[k]) \in Nat
      <4>1. events[k] \in Row /\ occs[k] \in Seq(Int)
        BY DEF RowsInv
      <4> QED BY <4>1 DEF Row
    <3>2. Second(events[k].last) \in Int
      BY <3>1, SecondType
    <3> QED BY <1>7, <2>1, <3>1, <3>2 DEF Grows, Times
  <2>2. CASE k = key
    <3>1. Times(k) \subseteq Times(k)' /\ Len(occs[k]) <= Len(occs[k])' /\ occs'[k] # <<>>
      BY <1>4, <1>7, <2>2 DEF Times
    <3>2. ASSUME occs[k] # <<>>
          PROVE  Second(events[k].last) <= Second(events[k].last)'
      <4>1. events[k].last \in TimesOf(s)
        BY <1>4, <2>2, <3>2 DEF RowsInv, RowMatchesOccurrences, Times
      <4> QED BY <1>6, <1>7, <2>2, <4>1
    <3> QED BY <3>1, <3>2 DEF Grows
  <2> QED BY <2>1, <2>2
<1> QED BY <1>3, <1>8, <1>9, <1>10, <1>11, <1>12 DEF RowsInv
-----------------------------------------------------------------------------
(* The requests.                                                           *)

LEMMA InitReaders == Init => ReadersInv
<1> SUFFICES ASSUME Init PROVE ReadersInv
  OBVIOUS
<1>1. gen \in [Reporter -> [pc : {"idle", "load", "insert"}, start : Int, end : Int,
                            keys : SUBSET Key, due : SUBSET Key]]
  BY DEF Init, NoGen
<1>2. report \in [Reporter -> [made : BOOLEAN, start : Int, end : Int,
                               keys : SUBSET Key, due : SUBSET Key]]
  BY DEF Init, NoReport
<1>3. view \in [Reader -> [pc : {"idle", "event", "done"}, key : Key, row : Row,
                           size : Nat, newest : Int]]
  BY KeyAssumption DEF Init, NoView, NoEvent, Row
<1>4. \A c \in Reporter : gen[c].pc = "idle" /\ report[c].made = FALSE
  BY DEF Init, NoGen, NoReport
<1>5. \A c \in Reader : view[c].pc = "idle"
  BY DEF Init, NoView
<1> QED BY <1>1, <1>2, <1>3, <1>4, <1>5 DEF ReadersInv, GenOK, ViewOK

\* While the database only grows, what a request holds stays covered.
LEMMA CoveredStays ==
  ASSUME RowsInv, RowsInv', \A k \in Key : Grows(k), NEW g, g.keys \subseteq Key, g.due \subseteq Key,
         g.end \in Int
  PROVE  /\ Covered(g) => Covered(g)'
         /\ GenOK(g) => GenOK(g)'
<1>1. ASSUME Covered(g)
      PROVE  Covered(g)'
  <2>1. ASSUME NEW k \in g.due \ g.keys
        PROVE  occs'[k] # <<>> /\ Second(g.end) <= Second(events'[k].last)
    <3>1. k \in Key /\ Grows(k) /\ occs[k] # <<>> /\ Second(g.end) <= Second(events[k].last)
      BY <1>1 DEF Covered
    <3>2. occs'[k] # <<>> /\ Second(events[k].last) <= Second(events'[k].last)
      BY <3>1 DEF Grows, Second
    <3>3. Second(g.end) \in Int /\ Second(events[k].last) \in Int
          /\ Second(events'[k].last) \in Int
      <4>1. events[k].last \in Int /\ events'[k].last \in Int
        BY <3>1 DEF RowsInv, Row
      <4> QED BY <4>1, SecondType
    <3> QED BY <3>1, <3>2, <3>3
  <2>2. ASSUME NEW k \in g.keys
        PROVE  \E t \in Times(k)' : Second(g.start) <= Second(t) /\ Second(t) <= Second(g.end)
    BY <1>1 DEF Covered, Grows
  <2> QED BY <2>1, <2>2 DEF Covered, Second
<1>2. ASSUME GenOK(g)
      PROVE  GenOK(g)'
  <2>1. g.pc = "load" => \A k \in g.due : \E t \in Times(k)' : Second(g.start) < Second(t)
    BY <1>2 DEF GenOK, Grows
  <2> QED BY <1>1, <1>2, <2>1 DEF GenOK, Second
<1> QED BY <1>1, <1>2

\* Every step leaves the rows right and only adds to them.
LEMMA RowsStep ==
  ASSUME RowsInv, [Next]_vars
  PROVE  RowsInv' /\ \A k \in Key : Grows(k)
<1>1. CASE Commit
  BY <1>1, CommitRows
<1>2. CASE UNCHANGED <<events, occs, asOf>> /\ now' \in Int
           /\ rec' \in [on : BOOLEAN, key : Key, at : Int]
  <2>1. RowMatchesOccurrences' /\ RecentCounters'
    BY <1>2 DEF RowsInv, RowMatchesOccurrences, RecentCounters, Times, SinceTime
  <2>2. RowsInv'
    BY <1>2, <2>1 DEF RowsInv, Times
  <2>3. ASSUME NEW k \in Key
        PROVE  Grows(k)
    <3>1. events[k].last \in Int /\ Len(occs[k]) \in Nat
      BY DEF RowsInv, Row
    <3>2. Second(events[k].last) \in Int
      BY <3>1, SecondType
    <3> QED BY <1>2, <3>1, <3>2 DEF Grows, Times
  <2> QED BY <2>2, <2>3
<1>3. ASSUME ~Commit
      PROVE  /\ UNCHANGED <<events, occs, asOf>> /\ now' \in Int
             /\ rec' \in [on : BOOLEAN, key : Key, at : Int]
  <2>1. now \in Int /\ rec \in [on : BOOLEAN, key : Key, at : Int]
        /\ NoRec \in [on : BOOLEAN, key : Key, at : Int]
    BY KeyAssumption DEF RowsInv, NoRec
  <2>2. CASE UNCHANGED vars
    BY <2>1, <2>2 DEF vars
  <2>3. CASE Tick
    BY <2>1, <2>3 DEF Tick
  <2>4. CASE \E k \in Key : CallRecord(k)
    BY <2>1, <2>4 DEF CallRecord
  <2>5. CASE Rollback
    BY <2>1, <2>5 DEF Rollback
  <2>6. CASE \E c \in Reporter : BeginReport(c) \/ LoadEvents(c) \/ InsertReport(c)
                                 \/ ReportFails(c)
    BY <2>1, <2>6 DEF BeginReport, LoadEvents, InsertReport, ReportFails
  <2>7. CASE \E c \in Reader : (\E k \in Key : GetEvent(c, k)) \/ GetOccurrences(c)
    BY <2>1, <2>7 DEF GetEvent, GetOccurrences
  <2> QED BY <1>3, <2>2, <2>3, <2>4, <2>5, <2>6, <2>7 DEF Next
<1> QED BY <1>1, <1>2, <1>3

GenType == [pc : {"idle", "load", "insert"}, start : Int, end : Int,
            keys : SUBSET Key, due : SUBSET Key]
ReportType == [made : BOOLEAN, start : Int, end : Int, keys : SUBSET Key, due : SUBSET Key]
ViewType == [pc : {"idle", "event", "done"}, key : Key, row : Row, size : Nat, newest : Int]

LEMMA ReadersTyped ==
  ReadersInv <=> /\ gen \in [Reporter -> GenType] /\ report \in [Reporter -> ReportType]
                 /\ view \in [Reader -> ViewType]
                 /\ \A c \in Reporter : GenOK(gen[c]) /\ (report[c].made => Covered(report[c]))
                 /\ \A c \in Reader : ViewOK(view[c])
BY DEF ReadersInv, GenType, ReportType, ViewType

\* A request that does nothing keeps what it holds.
LEMMA GenKeeps ==
  ASSUME RowsInv, RowsInv', \A k \in Key : Grows(k), ReadersInv,
         NEW c \in Reporter, gen'[c] = gen[c]
  PROVE  GenOK(gen[c])'
<1>1. PICK g \in GenType : g = gen[c] /\ GenOK(g)
  BY ReadersTyped
<1>2. g.keys \subseteq Key /\ g.due \subseteq Key /\ g.end \in Int
  BY DEF GenType
<1>3. GenOK(g)'
  BY <1>1, <1>2, CoveredStays
<1> QED BY <1>1, <1>3 DEF GenOK, Covered

LEMMA ReportKeeps ==
  ASSUME RowsInv, RowsInv', \A k \in Key : Grows(k), ReadersInv,
         NEW c \in Reporter, report'[c] = report[c]
  PROVE  (report[c].made => Covered(report[c]))'
<1>1. PICK g \in ReportType : g = report[c] /\ (g.made => Covered(g))
  BY ReadersTyped
<1>2. g.keys \subseteq Key /\ g.due \subseteq Key /\ g.end \in Int
  BY DEF ReportType
<1>3. g.made => Covered(g)'
  BY <1>1, <1>2, CoveredStays
<1> QED BY <1>1, <1>3 DEF Covered

LEMMA ViewKeeps ==
  ASSUME RowsInv, RowsInv', \A k \in Key : Grows(k), ReadersInv,
         NEW c \in Reader, view'[c] = view[c]
  PROVE  ViewOK(view[c])'
<1>1. PICK v \in ViewType : v = view[c] /\ ViewOK(v)
  BY ReadersTyped
<1>2. v.key \in Key /\ Grows(v.key) /\ v.row.total \in Nat
  BY DEF ViewType, Row
<1>3. Len(occs[v.key]) \in Nat /\ Len(occs'[v.key]) \in Nat
  BY <1>2, SMTT(30) DEF RowsInv
<1>4. ViewOK(v)'
  BY <1>1, <1>2, <1>3 DEF ViewOK, Grows, Second
<1> QED BY <1>1, <1>4 DEF ViewOK, Times

LEMMA ReportersKeep ==
  ASSUME RowsInv, RowsInv', \A k \in Key : Grows(k), ReadersInv, NEW c \in Reporter,
         BeginReport(c) \/ LoadEvents(c) \/ InsertReport(c) \/ ReportFails(c)
  PROVE  ReadersInv'
<1>1. PICK g \in GenType : g = gen[c] /\ GenOK(g)
  BY ReadersTyped
<1>2. /\ gen \in [Reporter -> GenType] /\ report \in [Reporter -> ReportType]
      /\ view \in [Reader -> ViewType] /\ UNCHANGED <<now, events, occs, view>>
  BY ReadersTyped DEF BeginReport, LoadEvents, InsertReport, ReportFails
<1>3. \A b \in Reader : ViewOK(view[b])'
  BY <1>2, ViewKeeps
<1> SUFFICES \E h \in GenType : /\ gen' = [gen EXCEPT ![c] = h] /\ GenOK(h)'
                                /\ \/ UNCHANGED report
                                   \/ \E r \in ReportType : /\ report' = [report EXCEPT ![c] = r]
                                                            /\ Covered(r)'
  <2>1. PICK h \in GenType : /\ gen' = [gen EXCEPT ![c] = h] /\ GenOK(h)'
                             /\ \/ UNCHANGED report
                                \/ \E r \in ReportType : /\ report' = [report EXCEPT ![c] = r]
                                                         /\ Covered(r)'
    OBVIOUS
  <2>2. gen' \in [Reporter -> GenType] /\ gen'[c] = h
        /\ \A b \in Reporter : b # c => gen'[b] = gen[b]
    BY <1>2, <2>1
  <2>3. \A b \in Reporter : GenOK(gen[b])'
    BY <2>1, <2>2, GenKeeps DEF GenOK, Covered
  <2> DEFINE Kept == /\ report' \in [Reporter -> ReportType]
                     /\ \A b \in Reporter : (report[b].made => Covered(report[b]))'
  <2>4. Kept
    <3>1. CASE UNCHANGED report
      BY <1>2, <3>1, ReportKeeps
    <3>2. ASSUME NEW r \in ReportType, report' = [report EXCEPT ![c] = r], Covered(r)'
          PROVE  Kept
      <4>1. report' \in [Reporter -> ReportType] /\ report'[c] = r
            /\ \A b \in Reporter : b # c => report'[b] = report[b]
        BY <1>2, <3>2
      <4> QED BY <3>2, <4>1, ReportKeeps DEF Covered
    <3> HIDE DEF Kept
    <3> QED BY <2>1, <3>1, <3>2
  <2> QED BY <1>2, <1>3, <2>2, <2>3, <2>4 DEF ReadersInv, GenType, ReportType, ViewType
<1>4. CASE BeginReport(c)
  <2> DEFINE h == [pc |-> "load", start |-> now - Day, end |-> now, keys |-> {},
                   due |-> SeenIn(now - Day, now)]
  <2>1. gen' = [gen EXCEPT ![c] = h] /\ UNCHANGED <<events, occs, report>>
    BY <1>4 DEF BeginReport
  <2>2. PICK n \in Int : n = now
    BY DEF RowsInv
  <2>3. h \in GenType
    BY <2>2, TimeAssumption DEF GenType, SeenIn
  <2>4. PICK m \in GenType : m = h
    BY <2>3
  <2>5. m.pc = "load" /\ m.start = now - Day /\ m.due = SeenIn(now - Day, now)
    BY <2>4
  <2>6. \A k \in m.due : \E t \in Times(k) : Second(m.start) < Second(t)
    BY <2>5 DEF SeenIn, Times, TimesOf
  <2>7. GenOK(m)'
    BY <2>1, <2>5, <2>6 DEF GenOK, Times, Second
  <2> QED BY <2>1, <2>4, <2>7
<1>5. CASE LoadEvents(c)
  <2>1. g.pc = "load" /\ gen' = [gen EXCEPT ![c].pc = "insert", ![c].keys = Loaded(gen[c])]
        /\ UNCHANGED <<events, occs, report>>
    BY <1>1, <1>5 DEF LoadEvents
  <2>2. Loaded(g) \subseteq Key
    BY DEF Loaded
  <2>3. PICK m \in GenType : m = [g EXCEPT !.pc = "insert", !.keys = Loaded(g)]
    BY <2>2 DEF GenType
  <2>4. m.pc = "insert" /\ m.keys = Loaded(g) /\ m.due = g.due
        /\ m.start = g.start /\ m.end = g.end
    BY <2>3 DEF GenType
  <2>5. gen' = [gen EXCEPT ![c] = m]
    BY <1>1, <1>2, <2>1, <2>3 DEF GenType
  <2>6. g.start \in Int /\ g.end \in Int /\ g.due \subseteq Key
        /\ Second(g.start) \in Int /\ Second(g.end) \in Int
    BY SecondType DEF GenType
  <2>7. ASSUME NEW k \in Key, occs[k] # <<>>
        PROVE  /\ events[k].total > 0 /\ events[k].last \in Times(k)
               /\ events[k].last \in Int /\ Second(events[k].last) \in Int
               /\ \A t \in Times(k) : Second(t) <= Second(events[k].last)
    <3>1. events[k].last \in Int /\ occs[k] \in Seq(Int)
      BY DEF RowsInv, Row
    <3>2. events[k].total = Len(occs[k]) /\ Len(occs[k]) > 0
      BY <2>7, <3>1 DEF RowsInv, RowMatchesOccurrences
    <3>3. Second(events[k].last) \in Int
      BY <3>1, SecondType
    <3> QED BY <2>7, <3>1, <3>2, <3>3 DEF RowsInv, RowMatchesOccurrences
  <2>8. ASSUME NEW k \in m.due \ m.keys
        PROVE  occs[k] # <<>> /\ Second(m.end) <= Second(events[k].last)
    <3>1. PICK t \in Times(k) : Second(g.start) < Second(t)
      BY <1>1, <2>1, <2>4 DEF GenOK
    <3>2. k \in Key /\ k \notin Loaded(g) /\ occs[k] # <<>> /\ t \in Int
      BY <2>4, <2>6, <3>1, SMTT(30) DEF Times, TimesOf, RowsInv
    <3>3. Second(t) \in Int /\ Second(t) <= Second(events[k].last)
          /\ Second(events[k].last) \in Int /\ events[k].total > 0
      BY <2>7, <3>1, <3>2, SecondType
    <3>4. ~(Second(events[k].last) <= Second(g.start))
      BY <2>6, <3>1, <3>3
    <3>5. ~TextBefore(events[k].last, g.start)
      BY <2>6, <3>3, <3>4 DEF TextBefore
    <3>6. ~TextBefore(events[k].last, g.end)
      BY <3>2, <3>3, <3>5 DEF Loaded
    <3> QED BY <2>4, <2>6, <3>2, <3>3, <3>6 DEF TextBefore
  <2>9. ASSUME NEW k \in m.keys
        PROVE  \E t \in Times(k) : Second(m.start) <= Second(t) /\ Second(t) <= Second(m.end)
    <3>1. /\ k \in Key /\ events[k].total > 0 /\ ~TextBefore(events[k].last, g.start)
          /\ TextBefore(events[k].last, g.end)
      BY <2>4 DEF Loaded
    <3>2. occs[k] # <<>>
      BY <3>1 DEF RowsInv, RowMatchesOccurrences
    <3>3. events[k].last \in Times(k) /\ Second(events[k].last) \in Int
      BY <2>7, <3>1, <3>2
    <3>4. Second(g.start) <= Second(events[k].last) /\ Second(events[k].last) <= Second(g.end)
      BY <2>6, <3>1, <3>3 DEF TextBefore
    <3> QED BY <2>4, <3>3, <3>4
  <2>10. Covered(m)
    BY <2>8, <2>9 DEF Covered
  <2>11. GenOK(m)'
    BY <2>1, <2>4, <2>10 DEF GenOK, Covered, Times, Second
  <2> QED BY <2>1, <2>5, <2>11
<1>6. PICK n \in GenType : n = NoGen
  <2>1. NoGen \in GenType
    BY DEF GenType, NoGen
  <2> QED BY <2>1
<1>7. GenOK(n)'
  BY <1>6 DEF GenOK, NoGen
<1>8. CASE InsertReport(c)
  <2>1. PICK r \in ReportType : r = [made |-> TRUE, start |-> g.start, end |-> g.end,
                                     keys |-> g.keys, due |-> g.due]
    BY DEF GenType, ReportType
  <2>2. Covered(g)' /\ report' = [report EXCEPT ![c] = r] /\ gen' = [gen EXCEPT ![c] = n]
    <3>1. g.keys \subseteq Key /\ g.due \subseteq Key /\ g.end \in Int
      BY DEF GenType
    <3>2. Covered(g)
      BY <1>1, <1>8 DEF InsertReport, GenOK
    <3> QED BY <1>1, <1>6, <1>8, <2>1, <3>1, <3>2, CoveredStays DEF InsertReport
  <2>3. r.start = g.start /\ r.end = g.end /\ r.keys = g.keys /\ r.due = g.due
    BY <2>1
  <2>4. Covered(r)'
    BY <2>2, <2>3 DEF Covered
  <2> QED BY <1>7, <2>2, <2>4
<1>9. CASE ReportFails(c)
  BY <1>6, <1>7, <1>9 DEF ReportFails
<1> QED BY <1>4, <1>5, <1>8, <1>9

LEMMA GetEventKeeps ==
  ASSUME RowsInv, ReadersInv, NEW c \in Reader, NEW k \in Key, GetEvent(c, k)
  PROVE  ReadersInv'
<1>1. PICK row \in Row : row = events[k]
  BY DEF RowsInv
<1>2. PICK v \in ViewType :
        v = [pc |-> "event", key |-> k, row |-> row, size |-> 0, newest |-> 0]
  <2>1. [pc |-> "event", key |-> k, row |-> row, size |-> 0, newest |-> 0] \in ViewType
    BY DEF ViewType
  <2> QED BY <2>1
<1>3. /\ view' = [view EXCEPT ![c] = v] /\ UNCHANGED <<events, occs, gen, report>>
      /\ row.total > 0
  BY <1>1, <1>2 DEF GetEvent
<1>4. v.pc = "event" /\ v.key = k /\ v.row = row
  BY <1>2
<1>5. row.total = Len(occs[k]) /\ Len(occs[k]) \in Nat /\ occs[k] # <<>>
  BY <1>1, <1>3 DEF RowsInv, RowMatchesOccurrences
<1>6. row.last \in Times(k)
  BY <1>1, <1>5 DEF RowsInv, RowMatchesOccurrences
<1>7. ViewOK(v)'
  BY <1>3, <1>4, <1>5, <1>6 DEF ViewOK, Times
<1>8. view' \in [Reader -> ViewType] /\ \A b \in Reader : view'[b] = (IF b = c THEN v ELSE view[b])
  BY <1>3, ReadersTyped
<1>9. \A b \in Reader : ViewOK(view[b])'
  BY <1>3, <1>7, <1>8 DEF ReadersInv, ViewOK, Times
<1>10. \A b \in Reporter : GenOK(gen[b])' /\ (report[b].made => Covered(report[b]))'
  BY <1>3 DEF ReadersInv, GenOK, Covered, Times
<1> QED BY <1>3, <1>8, <1>9, <1>10 DEF ReadersInv, ViewType

LEMMA GetOccurrencesKeeps ==
  ASSUME RowsInv, ReadersInv, NEW c \in Reader, GetOccurrences(c)
  PROVE  ReadersInv'
<1>1. PICK v \in ViewType : v = view[c] /\ ViewOK(v)
  BY ReadersTyped
<1> DEFINE s == occs[v.key]
           size == IF Len(s) < Limit THEN Len(s) ELSE Limit
<1>2. v.pc = "event" /\ v.key \in Key /\ v.row \in Row /\ s \in Seq(Int)
      /\ Len(s) \in Nat /\ Limit \in Nat /\ v.row.total \in Nat /\ v.row.last \in Int
  <2>1. v.pc = "event" /\ v.key \in Key /\ v.row \in Row
    BY <1>1 DEF GetOccurrences, ViewType
  <2>2. s \in Seq(Int)
    BY <2>1 DEF RowsInv
  <2>3. v.row.total \in Nat /\ v.row.last \in Int
    BY <2>1 DEF Row
  <2> QED BY <2>1, <2>2, <2>3, LimitAssumption
<1>3. v.row.total <= Len(s) /\ v.row.last \in TimesOf(s) /\ s # <<>>
  BY <1>1, <1>2 DEF ViewOK, Times, TimesOf
<1>4. TextMax(s) \in TimesOf(s) /\ \A u \in TimesOf(s) : ~TextBefore(TextMax(s), u)
  BY <1>2, <1>3 DEF RowsInv, Times, TextMax
<1>5. TextMax(s) \in Int
  BY <1>2, <1>4 DEF TimesOf
<1>6. Second(TextMax(s)) >= Second(v.row.last)
  <2>1. Second(TextMax(s)) \in Int /\ Second(v.row.last) \in Int
    BY <1>2, <1>5, SecondType
  <2> QED BY <1>3, <1>4, <2>1 DEF TextBefore
<1>7. PICK w \in ViewType :
        w = [v EXCEPT !.pc = "done", !.size = size, !.newest = TextMax(s)]
  BY <1>2, <1>5 DEF ViewType
<1>8. view' = [view EXCEPT ![c] = w] /\ UNCHANGED <<events, occs, gen, report>>
  BY <1>1, <1>7, ReadersTyped DEF GetOccurrences, ViewType
<1>9. w.pc = "done" /\ w.key = v.key /\ w.row = v.row /\ w.size = size /\ w.newest = TextMax(s)
  BY <1>7 DEF ViewType
<1>10. size >= (IF v.row.total < Limit THEN v.row.total ELSE Limit)
  BY <1>2, <1>3
<1> HIDE DEF size
<1>11. ViewOK(w)'
  BY <1>6, <1>9, <1>10 DEF ViewOK, Second
<1>12. view' \in [Reader -> ViewType] /\ \A b \in Reader : view'[b] = (IF b = c THEN w ELSE view[b])
  BY <1>8, ReadersTyped
<1>13. \A b \in Reader : ViewOK(view[b])'
  BY <1>8, <1>11, <1>12 DEF ReadersInv, ViewOK, Times
<1>14. \A b \in Reporter : GenOK(gen[b])' /\ (report[b].made => Covered(report[b]))'
  BY <1>8 DEF ReadersInv, GenOK, Covered, Times
<1> QED BY <1>8, <1>12, <1>13, <1>14 DEF ReadersInv, ViewType

LEMMA NextKeeps == ReportsInv /\ [Next]_vars => ReportsInv'
<1> SUFFICES ASSUME RowsInv, ReadersInv, [Next]_vars
             PROVE  RowsInv' /\ ReadersInv'
  BY DEF ReportsInv
<1>1. RowsInv' /\ \A k \in Key : Grows(k)
  BY RowsStep
<1>2. CASE UNCHANGED <<gen, report, view>>
  <2>1. \A c \in Reporter : GenOK(gen[c])' /\ (report[c].made => Covered(report[c]))'
    BY <1>1, <1>2, GenKeeps, ReportKeeps
  <2>2. \A c \in Reader : ViewOK(view[c])'
    BY <1>1, <1>2, ViewKeeps
  <2> QED BY <1>1, <1>2, <2>1, <2>2 DEF ReadersInv
<1>3. CASE \E c \in Reporter : BeginReport(c) \/ LoadEvents(c) \/ InsertReport(c) \/ ReportFails(c)
  BY <1>1, <1>3, ReportersKeep
<1>4. CASE \E c \in Reader, k \in Key : GetEvent(c, k)
  BY <1>1, <1>4, GetEventKeeps
<1>5. CASE \E c \in Reader : GetOccurrences(c)
  BY <1>1, <1>5, GetOccurrencesKeeps
<1>6. CASE UNCHANGED vars \/ Tick \/ Commit \/ Rollback \/ \E k \in Key : CallRecord(k)
  <2>1. UNCHANGED <<gen, report, view>>
    BY <1>6 DEF vars, Tick, Commit, Rollback, CallRecord
  <2> QED BY <1>2, <2>1
<1> QED BY <1>3, <1>4, <1>5, <1>6 DEF Next

\* ReportsInv holds for any issues, requests, clock and failures.
THEOREM ReportsInvariance == Spec => []ReportsInv
<1>1. Init => ReportsInv
  BY InitRows, InitReaders DEF ReportsInv
<1> QED BY <1>1, NextKeeps, PTL DEF Spec

\* The row of an issue is what its occurrences say, to the second, although MIN and MAX
\* compare texts (updateCounters).
THEOREM RowsMatch == Spec => []RowMatchesOccurrences
<1>1. ReportsInv => RowMatchesOccurrences
  BY DEF ReportsInv, RowsInv
<1> QED BY ReportsInvariance, <1>1, PTL

\* The counters for today and the last hour are right but for one second (updateCounters).
THEOREM CountersMatch == Spec => []RecentCounters
<1>1. ReportsInv => RecentCounters
  BY DEF ReportsInv, RowsInv
<1> QED BY ReportsInvariance, <1>1, PTL

\* What a report leaves out was seen again after its period (loadEvents).
THEOREM NothingIsLeftOut == Spec => []LeftOutIsLater
<1>1. ReportsInv => LeftOutIsLater
  <2> SUFFICES ASSUME ReportsInv, NEW c \in Reporter, report[c].made,
                      NEW k \in report[c].due \ report[c].keys
               PROVE  Second(events[k].last) >= Second(report[c].end)
    BY DEF LeftOutIsLater
  <2>1. k \in Key /\ report[c].end \in Int
    BY DEF ReportsInv, ReadersInv
  <2>2. events[k].last \in Int
    BY <2>1 DEF ReportsInv, RowsInv, Row
  <2>3. Second(events[k].last) \in Int /\ Second(report[c].end) \in Int
    BY <2>1, <2>2, SecondType
  <2>4. Second(report[c].end) <= Second(events[k].last)
    BY DEF ReportsInv, ReadersInv, Covered
  <2> QED BY <2>3, <2>4
<1> QED BY ReportsInvariance, <1>1, PTL

\* What a report names was seen in its period, to the second (loadEvents).
THEOREM ReportsInPeriod == Spec => []ReportInPeriod
<1>1. ReportsInv => ReportInPeriod
  BY DEF ReportsInv, ReadersInv, Covered, ReportInPeriod
<1> QED BY ReportsInvariance, <1>1, PTL

\* The occurrences issues.get shows are at least those its row counts (Store.Get).
THEOREM DetailsCover == Spec => []DetailCovers
<1>1. ReportsInv => DetailCovers
  BY DEF ReportsInv, ReadersInv, ViewOK, DetailCovers
<1> QED BY ReportsInvariance, <1>1, PTL
=============================================================================
