--------------------------- MODULE OpenTimeProofs ---------------------------
(***************************************************************************)
(* Open hours and calendar days, for every zone, rule and booking: the two *)
(* ends of a booking decide if no clock goes back during it, the day       *)
(* filter is exact where local midnights are found, a rule opens the days  *)
(* it names, and its text, written back, is the same rule or refused.      *)
(***************************************************************************)
EXTENDS MCOpenTime, TLAPS

\* Between these instants clocks may go forward but not back.
ClocksForward(instants) ==
    /\ \A t \in instants : UtcOffset(t) \in Int
    /\ \A t, u \in instants : t < u => Local(t) < Local(u)

\* The offset at midnight UTC is a number of whole minutes, and still the offset
\* at the local midnight of that date.
MidnightSettled(date) ==
    LET off == UtcOffset(date * DayLength)
    IN  /\ \E k \in Int : off = k * SecondsPerMinute
        /\ UtcOffset(date * DayLength - off) = off

-----------------------------------------------------------------------------
(* Arithmetic.                                                             *)

LEMMA DayFacts == DayLength \in Nat \ {0} /\ SecondsPerMinute \in Nat \ {0}
<1>1. ASSUME NEW a \in Nat \ {0}, NEW b \in Nat \ {0} PROVE a * b \in Nat \ {0}
  OBVIOUS
<1> QED BY <1>1, ClockAssumption DEF DayLength

\* Division with remainder.
LEMMA DivMod ==
    ASSUME NEW x \in Int, NEW n \in Nat \ {0}
    PROVE  /\ x \div n \in Int /\ x % n \in 0 .. n - 1
           /\ x = n * (x \div n) + (x % n)
<1>1. x \div n \in Int
  OBVIOUS
<1>2. x % n \in 0 .. n - 1
  OBVIOUS
<1>3. x = n * (x \div n) + (x % n)
  OBVIOUS
<1> QED BY <1>1, <1>2, <1>3

\* A quotient is below q exactly when the dividend is below q times the divisor.
LEMMA DivBelow ==
    ASSUME NEW x \in Int, NEW n \in Nat \ {0}, NEW q \in Int
    PROVE  (x \div n < q) <=> (x < q * n)
  OBVIOUS

LEMMA DivMonotone ==
    ASSUME NEW x \in Int, NEW y \in Int, x <= y, NEW n \in Nat \ {0}
    PROVE  x \div n <= y \div n
  OBVIOUS

\* A multiple of the divisor, divided.
LEMMA MultipleDivided ==
    ASSUME NEW n \in Nat \ {0}, NEW k \in Int, NEW x \in Int, x = k * n
    PROVE  (x \div n) * n = x
  OBVIOUS

-----------------------------------------------------------------------------
(* Wall clocks.                                                            *)

LEMMA LocalIsInt ==
    ASSUME NEW t \in Int, UtcOffset(t) \in Int
    PROVE  Local(t) \in Int
  BY DEF Local

\* The date and the time of day of an instant.
LEMMA ClockParts ==
    ASSUME NEW t \in Int, UtcOffset(t) \in Int
    PROVE  LET w == WallClockInTz(t)
           IN  /\ w.date = Local(t) \div DayLength /\ w.date \in Int
               /\ w.hm = (Local(t) % DayLength) \div SecondsPerMinute /\ w.hm \in Int
               /\ w.isoDow = (w.date % 7) + 1
               /\ Local(t) % DayLength \in Int
               /\ Local(t) = DayLength * w.date + (Local(t) % DayLength)
<1>1. Local(t) \in Int
  BY LocalIsInt
<1>2. /\ Local(t) \div DayLength \in Int /\ Local(t) % DayLength \in Int
      /\ Local(t) = DayLength * (Local(t) \div DayLength) + (Local(t) % DayLength)
  <2> DEFINE x == Local(t)
             n == DayLength
  <2> HIDE DEF x, n
  <2>1. x \in Int /\ n \in Nat \ {0}
    BY <1>1, DayFacts DEF x, n
  <2>2. /\ x \div n \in Int /\ x % n \in Int
        /\ x = n * (x \div n) + (x % n)
    BY <2>1, DivMod
  <2> QED BY <2>2 DEF x, n
<1>3. (Local(t) % DayLength) \div SecondsPerMinute \in Int
  BY <1>2, DayFacts, DivMod
<1> DEFINE day == Local(t) \div DayLength
           rest == Local(t) % DayLength
<1>4. LET w == WallClockInTz(t)
      IN  w.date = day /\ w.hm = rest \div SecondsPerMinute /\ w.isoDow = (day % 7) + 1
  BY DEF WallClockInTz
<1> HIDE DEF day, rest
<1>5. /\ day \in Int /\ rest \in Int /\ Local(t) = DayLength * day + rest
      /\ rest \div SecondsPerMinute \in Int
  BY <1>2, <1>3 DEF day, rest
<1> QED BY <1>4, <1>5 DEF day, rest

\* Local midnight is found where the offset has not changed since.
LEMMA MidnightFound ==
    ASSUME NEW date \in Int, MidnightSettled(date)
    PROVE  LET midnight == ZonedMidnight(date)
           IN  /\ midnight \in Int /\ UtcOffset(midnight) \in Int
               /\ Local(midnight) = date * DayLength
<1> DEFINE naive == date * DayLength
           off == UtcOffset(naive)
           w == WallClockInTz(naive)
           rest == Local(naive) % DayLength
<1>1. naive \in Int /\ off \in Int /\ Local(naive) = naive + off
  BY DayFacts DEF MidnightSettled, Local
<1>2. /\ w.date = Local(naive) \div DayLength /\ w.date \in Int
      /\ w.hm = rest \div SecondsPerMinute /\ w.hm \in Int
  BY <1>1, ClockParts
<1>3. Local(naive) = DayLength * w.date + rest /\ rest \in Int
  BY <1>1, ClockParts
<1>4. w.hm * SecondsPerMinute = rest
  <2>1. PICK k \in Int : off = k * SecondsPerMinute
    BY DEF MidnightSettled
  <2>2. DayLength = SecondsPerMinute * MinutesPerDay
    BY DEF DayLength
  <2> HIDE DEF naive, off, w, rest
  <2>3. rest = naive + off - DayLength * w.date
    BY <1>1, <1>2, <1>3, DayFacts
  <2>4. rest = (date * MinutesPerDay + k - MinutesPerDay * w.date) * SecondsPerMinute
    <3>1. naive = (date * MinutesPerDay) * SecondsPerMinute
      BY <2>2, ClockAssumption DEF naive
    <3>2. DayLength * w.date = (MinutesPerDay * w.date) * SecondsPerMinute
      BY <1>2, <2>2, ClockAssumption
    <3>3. date * MinutesPerDay \in Int /\ MinutesPerDay * w.date \in Int
      BY <1>2, ClockAssumption
    <3> QED BY <2>1, <2>3, <3>1, <3>2, <3>3, ClockAssumption
  <2>5. date * MinutesPerDay + k - MinutesPerDay * w.date \in Int
    BY <1>2, ClockAssumption
  <2> QED BY <1>2, <1>3, <2>4, <2>5, DayFacts, MultipleDivided
<1>5. w.date * DayLength + w.hm * SecondsPerMinute = naive + off
  BY <1>1, <1>2, <1>3, <1>4, DayFacts
<1>6. ZonedMidnight(date) = naive - off
  BY <1>1, <1>5 DEF ZonedMidnight
<1>7. UtcOffset(naive - off) = off
  BY DEF MidnightSettled
<1> QED BY <1>1, <1>6, <1>7 DEF Local

\* The day of a date is the range between its midnight and the next.
LEMMA DayRangeExact ==
    ASSUME NEW date \in Int, MidnightSettled(date), MidnightSettled(date + 1), NEW t \in Int,
           ClocksForward({t, ZonedMidnight(date), ZonedMidnight(date + 1)})
    PROVE  LET range == DayRangeInTz(date)
           IN  t \in range.from .. (range.to - 1) <=> WallClockInTz(t).date = date
<1> DEFINE a == ZonedMidnight(date)
           b == ZonedMidnight(date + 1)
<1>1. /\ a \in Int /\ UtcOffset(a) \in Int /\ Local(a) = date * DayLength
      /\ b \in Int /\ UtcOffset(b) \in Int /\ Local(b) = (date + 1) * DayLength
      /\ UtcOffset(t) \in Int
  BY MidnightFound DEF ClocksForward
<1>2. ASSUME NEW c \in {a, b} PROVE t < c <=> Local(t) < Local(c)
  <2>1. Local(t) \in Int /\ Local(c) \in Int /\ c \in Int
    BY <1>1, LocalIsInt
  <2>2. (t < c => Local(t) < Local(c)) /\ (c < t => Local(c) < Local(t))
    BY DEF ClocksForward
  <2> QED BY <2>1, <2>2
<1>3. /\ (WallClockInTz(t).date < date) <=> (Local(t) < date * DayLength)
      /\ (WallClockInTz(t).date < date + 1) <=> (Local(t) < (date + 1) * DayLength)
      /\ WallClockInTz(t).date \in Int
  <2>1. /\ WallClockInTz(t).date = Local(t) \div DayLength
        /\ WallClockInTz(t).date \in Int
    BY <1>1, ClockParts
  <2>2. Local(t) \in Int
    BY <1>1, LocalIsInt
  <2>3. \A q \in Int : (Local(t) \div DayLength < q) <=> (Local(t) < q * DayLength)
    BY <2>2, DayFacts, DivBelow
  <2> QED BY <2>1, <2>3
<1>4. t \in a .. (b - 1) <=> ~(t < a) /\ t < b
  BY <1>1
<1>5. (WallClockInTz(t).date = date)
        <=> ~(WallClockInTz(t).date < date) /\ WallClockInTz(t).date < date + 1
  BY <1>3
<1>6. t \in a .. (b - 1) <=> WallClockInTz(t).date = date
  BY <1>1, <1>2, <1>3, <1>4, <1>5
<1> QED BY <1>6 DEF DayRangeInTz

\* Dates follow each other, and within a date the time of day.
LEMMA WallClockMonotone ==
    ASSUME NEW t \in Int, NEW u \in Int, t <= u, ClocksForward({t, u})
    PROVE  LET v == WallClockInTz(t)
               w == WallClockInTz(u)
           IN  v.date <= w.date /\ (v.date = w.date => v.hm <= w.hm)
<1> DEFINE v == WallClockInTz(t)
           w == WallClockInTz(u)
           x == Local(t) % DayLength
           y == Local(u) % DayLength
<1>1. /\ v.date = Local(t) \div DayLength /\ v.hm = x \div SecondsPerMinute
      /\ w.date = Local(u) \div DayLength /\ w.hm = y \div SecondsPerMinute
      /\ v.date \in Int /\ w.date \in Int /\ x \in Int /\ y \in Int
      /\ Local(t) = DayLength * v.date + x /\ Local(u) = DayLength * w.date + y
  BY ClockParts DEF ClocksForward
<1>2. Local(t) \in Int /\ Local(u) \in Int /\ Local(t) <= Local(u)
  <2>1. t < u => Local(t) < Local(u)
    BY DEF ClocksForward
  <2>2. Local(t) \in Int /\ Local(u) \in Int
    BY LocalIsInt DEF ClocksForward
  <2> QED BY <2>1, <2>2
<1>3. v.date <= w.date
  BY <1>1, <1>2, DayFacts, DivMonotone
<1>4. ASSUME v.date = w.date PROVE v.hm <= w.hm
  <2> HIDE DEF v, w, x, y
  <2>1. DayLength * v.date = DayLength * w.date /\ DayLength * v.date \in Int
    BY <1>1, <1>4, DayFacts
  <2>2. x <= y
    BY <1>1, <1>2, <2>1
  <2> QED BY <1>1, <2>2, DayFacts, DivMonotone
<1> QED BY <1>3, <1>4

-----------------------------------------------------------------------------
(* The properties.                                                         *)

\* What is asked for: a rule of the administrator, and a booking that ends after
\* it starts.
Asked == text \in Texts /\ start \in Int /\ end \in Int /\ start < end

LEMMA AskedInvariant == Spec => []Asked
<1>1. Init => Asked
  BY RangeAssumption DEF Init, Asked, Texts
<1>2. Asked /\ [Send \/ Extend \/ Delay]_vars => Asked'
  BY DEF Asked, Send, Extend, Delay, vars
<1> QED BY <1>1, <1>2, PTL DEF Spec

\* A rule that is not refused has columns.
LEMMA ParsedValue ==
    ASSUME text \in Texts, Value # Refused
    PROVE  \E days : \E a, b \in Minutes : Value = [openDays |-> days, openFrom |-> a, openTo |-> b]
<1>1. CASE text = Always
  <2>1. 0 \in Minutes /\ LastMinute \in Minutes
    BY ClockAssumption DEF Minutes, LastMinute
  <2>2. Value = [openDays |-> [i \in Week |-> i], openFrom |-> 0, openTo |-> LastMinute]
    BY <1>1 DEF Value, ParseOpenTimeRule
  <2> QED BY <2>1, <2>2
<1>2. CASE text # Always
  <2>1. text.from \in Minutes /\ text.to \in Minutes
    BY <1>2, RangeAssumption DEF Texts
  <2>2. Len(text.ranges) = 1 /\ text.from < text.to
    BY <1>2 DEF Value, ParseOpenTimeRule
  <2>3. Value = [openDays |-> ExpandDays(text.ranges[1][1], text.ranges[1][2]),
                 openFrom |-> text.from, openTo |-> text.to]
    BY <1>2, <2>2 DEF Value, ParseOpenTimeRule
  <2> QED BY <2>1, <2>3
<1> QED BY <1>1, <1>2

\* While no clock goes back during the booking, checkOpenHours may look at its two
\* ends only: the dates and times of day between them lie between theirs.
THEOREM OpenThroughoutHolds == Spec => [](ClocksForward(start..end) => OpenThroughout)
<1>1. Asked /\ ClocksForward(start..end) => OpenThroughout
  <2> SUFFICES ASSUME Asked, ClocksForward(start..end), Value # Refused
               PROVE  CheckOpenHours(start, end, Columns) <=>
                          \A t \in start..end :
                              OpenAt(t) /\ WallClockInTz(t).date = WallClockInTz(start).date
    BY DEF OpenThroughout
  <2> PICK days : \E a, b \in Minutes : Value = [openDays |-> days, openFrom |-> a, openTo |-> b]
    BY ParsedValue DEF Asked
  <2>1. PICK a, b \in Minutes : Value = [openDays |-> days, openFrom |-> a, openTo |-> b]
    OBVIOUS
  <2>2. Columns.openFrom = a /\ Columns.openTo = b /\ a \in Int /\ b \in Int
    BY <2>1 DEF Columns, Minutes
  <2> DEFINE s == WallClockInTz(start)
             e == WallClockInTz(end)
             Days == Columns.openDays
  <2>3. CheckOpenHours(start, end, Columns) <=>
            s.date = e.date /\ s.isoDow \in Days /\ s.hm >= a /\ e.hm <= b
    BY <2>2 DEF CheckOpenHours
  <2>4. \A t \in Int : OpenAt(t) <=>
            WallClockInTz(t).isoDow \in Days /\ WallClockInTz(t).hm \in a..b
    <3> HIDE DEF Days
    <3>1. \A t : OpenAt(t) <=>
              WallClockInTz(t).isoDow \in Days /\ WallClockInTz(t).hm \in a..b
      BY <2>2 DEF OpenAt, Days
    <3> QED BY <3>1
  <2>5. start \in start..end /\ end \in start..end /\ start \in Int /\ end \in Int
    BY DEF Asked
  <2>6. ASSUME s.date = e.date, s.isoDow \in Days, s.hm >= a, e.hm <= b, NEW t \in start..end
        PROVE  OpenAt(t) /\ WallClockInTz(t).date = s.date
    <3> DEFINE w == WallClockInTz(t)
    <3>1. t \in Int /\ start <= t /\ t <= end
      BY <2>5, <2>6
    <3>2. ClocksForward({start, t}) /\ ClocksForward({t, end})
      BY <2>5, <2>6 DEF ClocksForward
    <3>3. /\ s.date <= w.date /\ (s.date = w.date => s.hm <= w.hm)
          /\ w.date <= e.date /\ (w.date = e.date => w.hm <= e.hm)
      BY <2>5, <3>1, <3>2, WallClockMonotone
    <3>4. /\ s.date \in Int /\ w.date \in Int /\ e.date \in Int
          /\ s.hm \in Int /\ w.hm \in Int /\ e.hm \in Int
          /\ s.isoDow = (s.date % 7) + 1 /\ w.isoDow = (w.date % 7) + 1
      BY <2>5, <2>6, <3>1, ClockParts DEF ClocksForward
    <3> HIDE DEF s, e, w, Days
    <3>5. w.date = s.date
      BY <2>6, <3>3, <3>4
    <3>6. w.hm \in a..b /\ w.isoDow \in Days
      BY <2>2, <2>6, <3>3, <3>4, <3>5
    <3> QED BY <2>4, <3>1, <3>5, <3>6 DEF w
  <2>7. ASSUME \A t \in start..end : OpenAt(t) /\ WallClockInTz(t).date = s.date
        PROVE  s.date = e.date /\ s.isoDow \in Days /\ s.hm >= a /\ e.hm <= b
    <3>1. OpenAt(start) /\ OpenAt(end) /\ e.date = s.date
      BY <2>5, <2>7
    <3>2. s.isoDow \in Days /\ s.hm \in a..b /\ e.hm \in a..b
      BY <2>4, <2>5, <3>1
    <3> HIDE DEF s, e, Days
    <3> QED BY <2>2, <3>1, <3>2
  <2> QED BY <2>3, <2>6, <2>7
<1> QED BY <1>1, AskedInvariant, PTL

\* Where the offset found at midnight UTC still stands at local midnight, the
\* range of dayRangeInTz holds exactly the instants of the date.
THEOREM DayRangeIsTheDayHolds ==
    ASSUME \A date \in -1..2 : MidnightSettled(date)
    PROVE  Spec => [](ClocksForward({start} \cup {ZonedMidnight(date) : date \in -1..2})
                          => DayRangeIsTheDay)
<1> DEFINE Known == {start} \cup {ZonedMidnight(date) : date \in -1..2}
<1>1. Asked /\ ClocksForward(Known) => DayRangeIsTheDay
  <2> SUFFICES ASSUME Asked, ClocksForward(Known), NEW date \in -1..1
               PROVE  LET range == DayRangeInTz(date)
                      IN  start \in range.from..(range.to - 1) <=> WallClockInTz(start).date = date
    BY DEF DayRangeIsTheDay
  <2>1. date \in Int /\ date \in -1..2 /\ date + 1 \in -1..2
    OBVIOUS
  <2>2. MidnightSettled(date) /\ MidnightSettled(date + 1) /\ start \in Int
    BY <2>1 DEF Asked
  <2>3. {start, ZonedMidnight(date), ZonedMidnight(date + 1)} \subseteq Known
    BY <2>1
  <2>4. ClocksForward({start, ZonedMidnight(date), ZonedMidnight(date + 1)})
    <3> HIDE DEF Known
    <3> QED BY <2>3 DEF ClocksForward
  <2> QED BY <2>1, <2>2, <2>4, DayRangeExact
<1> QED BY <1>1, AskedInvariant, PTL

-----------------------------------------------------------------------------
(* The days of a rule.                                                     *)

LEMMA ModWeek ==
    ASSUME NEW x \in -6..6
    PROVE  x % 7 = IF x < 0 THEN x + 7 ELSE x
  OBVIOUS

\* The i-th day from a day on, and how many days there are up to another.
NthDay(from, i) == IF from + i <= 8 THEN from + i - 1 ELSE from + i - 8
DaysUpTo(from, to) == IF from <= to THEN to - from + 1 ELSE to - from + 8

\* The walk of expandDays: each day is the next of the one before, and the day
\* it ends with is met once.
LEMMA ExpandedDays ==
    ASSUME NEW from \in Week, NEW to \in Week
    PROVE  ExpandDays(from, to) = [i \in 1..DaysUpTo(from, to) |-> NthDay(from, i)]
<1> DEFINE Walk(f) == [i \in Week |-> IF i = 1 THEN from ELSE NextDay(f[i - 1])]
           day == CHOOSE f : f = Walk(f)
           last == CHOOSE i \in Week : day[i] = to
<1>1. ExpandDays(from, to) = [i \in 1..last |-> day[i]]
  BY DEF ExpandDays
<1>2. day = Walk(day)
  <2> DEFINE g == [i \in Week |-> NthDay(from, i)]
  <2>1. ASSUME NEW i \in Week PROVE g[i] = IF i = 1 THEN from ELSE NextDay(g[i - 1])
    BY DEF NthDay, NextDay, Week
  <2>2. g = Walk(g)
    BY <2>1
  <2> QED BY <2>2
<1>3. ASSUME NEW i \in Week PROVE day[i] = IF i = 1 THEN from ELSE NextDay(day[i - 1])
  BY <1>2
<1> HIDE DEF day, Walk
<1>4. \A i \in Week : day[i] = NthDay(from, i)
  <2>1. day[1] = from
    BY <1>3 DEF Week
  <2>2. day[2] = NextDay(day[1])
    BY <1>3 DEF Week
  <2>3. day[3] = NextDay(day[2])
    BY <1>3 DEF Week
  <2>4. day[4] = NextDay(day[3])
    BY <1>3 DEF Week
  <2>5. day[5] = NextDay(day[4])
    BY <1>3 DEF Week
  <2>6. day[6] = NextDay(day[5])
    BY <1>3 DEF Week
  <2>7. day[7] = NextDay(day[6])
    BY <1>3 DEF Week
  <2> QED BY <2>1, <2>2, <2>3, <2>4, <2>5, <2>6, <2>7 DEF Week, NthDay, NextDay
<1>5. \A i \in Week : day[i] = to <=> i = DaysUpTo(from, to)
  BY <1>4 DEF NthDay, DaysUpTo, Week
<1>6. DaysUpTo(from, to) \in Week
  BY DEF DaysUpTo, Week
<1>7. last = DaysUpTo(from, to)
  BY <1>5, <1>6
<1> HIDE DEF last
<1>8. \A i \in 1..DaysUpTo(from, to) : i \in Week
  BY <1>6 DEF Week
<1> QED BY <1>1, <1>4, <1>7, <1>8

\* A rule that parseOpenTimeRule accepts opens the days of its range, each once:
\* expandDays meets the last day exactly once in seven steps.
THEOREM ParsedDaysAreTheRangeHolds == Spec => []ParsedDaysAreTheRange
<1>1. Asked => ParsedDaysAreTheRange
  <2> SUFFICES ASSUME text \in Texts, Value # Refused
               PROVE  /\ IsInjective(Value.openDays)
                      /\ ToSet(Value.openDays) =
                             IF text = Always THEN Week
                             ELSE DaysBetween(text.ranges[1][1], text.ranges[1][2])
    BY DEF Asked, ParsedDaysAreTheRange
  <2>1. CASE text = Always
    <3>1. Value.openDays = [i \in Week |-> i]
      BY <2>1 DEF Value, ParseOpenTimeRule
    <3> QED BY <2>1, <3>1 DEF IsInjective, ToSet
  <2>2. CASE text # Always
    <3>1. PICK from \in Week, to \in Week : text.ranges = <<<<from, to>>>>
      BY <2>2 DEF Texts
    <3>2. text.ranges[1][1] = from /\ text.ranges[1][2] = to
      BY <3>1
    <3>3. Len(text.ranges) = 1 /\ text.from < text.to
      BY <2>2 DEF Value, ParseOpenTimeRule
    <3>4. Value.openDays = ExpandDays(from, to)
      BY <2>2, <3>2, <3>3 DEF Value, ParseOpenTimeRule
    <3> DEFINE n == DaysUpTo(from, to)
               days == [i \in 1..n |-> NthDay(from, i)]
    <3>5. Value.openDays = days
      BY <3>4, ExpandedDays
    <3>6. n \in Week
      BY DEF DaysUpTo, Week
    <3>7. IsInjective(days)
      BY <3>6 DEF IsInjective, NthDay, Week
    <3>8. ASSUME NEW d
          PROVE  d \in DaysBetween(from, to) <=> \E i \in 1..n : d = NthDay(from, i)
      <4>1. ASSUME NEW i \in 1..n
            PROVE  NthDay(from, i) \in Week /\ (NthDay(from, i) - from) % 7 <= (to - from) % 7
        <5>1. NthDay(from, i) \in Week
          BY <3>6 DEF NthDay, Week
        <5>2. NthDay(from, i) - from \in -6..6 /\ to - from \in -6..6
          BY <5>1 DEF Week
        <5>3. (to - from) % 7 = n - 1
          BY <5>2, ModWeek DEF DaysUpTo, Week
        <5>4. (NthDay(from, i) - from) % 7 = i - 1
          BY <3>6, <5>2, ModWeek DEF NthDay, Week
        <5> QED BY <3>6, <5>1, <5>3, <5>4 DEF Week
      <4>2. ASSUME NEW e \in Week, (e - from) % 7 <= (to - from) % 7
            PROVE  \E i \in 1..n : e = NthDay(from, i)
        <5> DEFINE i == IF e < from THEN e - from + 8 ELSE e - from + 1
        <5>1. e - from \in -6..6 /\ to - from \in -6..6
          BY DEF Week
        <5>2. (to - from) % 7 = n - 1 /\ (e - from) % 7 = i - 1
          BY <5>1, ModWeek DEF DaysUpTo, Week
        <5>3. i \in 1..n
          BY <3>6, <4>2, <5>2 DEF Week
        <5>4. e = NthDay(from, i)
          BY DEF NthDay, Week
        <5> QED BY <5>3, <5>4
      <4> QED BY <4>1, <4>2 DEF DaysBetween
    <3>9. ToSet(days) = DaysBetween(from, to)
      BY <3>8 DEF ToSet
    <3> QED BY <2>2, <3>2, <3>5, <3>7, <3>9
  <2> QED BY <2>1, <2>2
<1> QED BY <1>1, AskedInvariant, PTL

-----------------------------------------------------------------------------
(* The rule that is shown.                                                 *)

\* The walk of formatOpenTimeRule through the week: what each day does to the
\* ranges so far.
LEMMA WalkOfWeek ==
    ASSUME NEW D
    PROVE  \E u : /\ DayRanges(D) = u[7] /\ u[0] = <<>>
                  /\ \A d \in Week : u[d] = IF d \in D THEN WithDay(u[d - 1], d) ELSE u[d - 1]
<1> DEFINE Step(r, d) == IF d \in D THEN WithDay(r, d) ELSE r
           Walk(f) == [d \in 0..7 |-> IF d = 0 THEN <<>> ELSE IF d \in D THEN WithDay(f[d - 1], d)
                                     ELSE f[d - 1]]
           upTo == CHOOSE f : f = Walk(f)
           r1 == Step(<<>>, 1)
           r2 == Step(r1, 2)
           r3 == Step(r2, 3)
           r4 == Step(r3, 4)
           r5 == Step(r4, 5)
           r6 == Step(r5, 6)
           r7 == Step(r6, 7)
           g == [d \in 0..7 |-> CASE d = 0 -> <<>> [] d = 1 -> r1 [] d = 2 -> r2 [] d = 3 -> r3
                                  [] d = 4 -> r4 [] d = 5 -> r5 [] d = 6 -> r6 [] d = 7 -> r7]
<1>1. DayRanges(D) = upTo[7]
  BY DEF DayRanges
<1>2. upTo = Walk(upTo)
  <2>1. /\ g[0] = <<>> /\ g[1] = Step(g[0], 1) /\ g[2] = Step(g[1], 2) /\ g[3] = Step(g[2], 3)
        /\ g[4] = Step(g[3], 4) /\ g[5] = Step(g[4], 5) /\ g[6] = Step(g[5], 6)
        /\ g[7] = Step(g[6], 7)
    <3> HIDE DEF Step
    <3> QED OBVIOUS
  <2> HIDE DEF r1, r2, r3, r4, r5, r6, r7
  <2>2. g = [d \in 0..7 |-> g[d]]
    OBVIOUS
  <2> HIDE DEF g
  <2>3. ASSUME NEW d \in 0..7 PROVE g[d] = IF d = 0 THEN <<>> ELSE Step(g[d - 1], d)
    <3> HIDE DEF Step
    <3>1. d \in {0, 1, 2, 3, 4, 5, 6, 7}
      OBVIOUS
    <3> QED BY <2>1, <3>1
  <2>4. g = Walk(g)
    BY <2>2, <2>3
  <2> QED BY <2>4
<1> HIDE DEF upTo
<1>3. upTo[0] = <<>> /\ \A d \in Week : upTo[d] = Step(upTo[d - 1], d)
  <2>1. \A d \in Week : d \in 0..7 /\ d # 0
    BY DEF Week
  <2> QED BY <1>2, <2>1
<1> QED BY <1>1, <1>3

\* A day begins the first range, extends the only or the second one, or begins
\* the second.
LEMMA DayBegins == \A d : WithDay(<<>>, d) = <<<<d, d>>>>
  BY DEF WithDay

LEMMA DayExtends ==
    \A a, b, d \in Int : d = b + 1 => WithDay(<<<<a, b>>>>, d) = <<<<a, d>>>>
  BY DEF WithDay, Last

LEMMA DayBeginsAnother ==
    \A a, b, d \in Int : d # b + 1 => WithDay(<<<<a, b>>>>, d) = <<<<a, b>>, <<d, d>>>>
<1>1. ASSUME NEW x, NEW y PROVE Append(<<x>>, y) = <<x, y>>
  <2> DEFINE s == Append(<<x>>, y)
  <2>1. Len(s) = 2 /\ s[1] = x /\ s[2] = y
    OBVIOUS
  <2>2. <<x>> \in Seq({x, y})
    OBVIOUS
  <2>3. s \in Seq({x, y})
    BY <2>2
  <2> HIDE DEF s
  <2>4. s = <<s[1], s[2]>>
    BY <2>1, <2>3
  <2> QED BY <2>1, <2>4 DEF s
<1>2. ASSUME NEW a \in Int, NEW b \in Int, NEW d \in Int, d # b + 1
      PROVE  WithDay(<<<<a, b>>>>, d) = Append(<<<<a, b>>>>, <<d, d>>)
  BY <1>2 DEF WithDay, Last
<1> QED BY <1>1, <1>2

LEMMA DayExtendsAnother ==
    \A a, b, c, e, d \in Int :
        d = e + 1 => WithDay(<<<<a, b>>, <<c, e>>>>, d) = <<<<a, b>>, <<c, d>>>>
  BY DEF WithDay, Last

\* The days of a range that does not go over Sunday are shown as that range.
LEMMA RangeOfRun ==
    ASSUME NEW from \in Week, NEW to \in Week, from <= to
    PROVE  DayRanges(from..to) = <<<<from, to>>>>
<1> DEFINE D == from..to
           W(d) == IF d < from THEN <<>> ELSE IF d <= to THEN <<<<from, d>>>> ELSE <<<<from, to>>>>
<1>1. PICK u : /\ DayRanges(D) = u[7] /\ u[0] = <<>>
               /\ \A d \in Week : u[d] = IF d \in D THEN WithDay(u[d - 1], d) ELSE u[d - 1]
  BY WalkOfWeek
<1>2. ASSUME NEW d \in Week, u[d - 1] = W(d - 1) PROVE u[d] = W(d)
  <2>1. u[d] = IF d \in D THEN WithDay(W(d - 1), d) ELSE W(d - 1)
    BY <1>1, <1>2
  <2>2. CASE d < from \/ d > to
    BY <2>1, <2>2 DEF Week
  <2>3. CASE d = from
    <3>1. W(d - 1) = <<>> /\ W(d) = <<<<d, d>>>>
      BY <2>3 DEF Week
    <3>2. WithDay(<<>>, d) = <<<<d, d>>>>
      BY DayBegins
    <3> QED BY <2>1, <2>3, <3>1, <3>2 DEF Week
  <2>4. CASE from < d /\ d <= to
    <3>1. W(d - 1) = <<<<from, d - 1>>>> /\ W(d) = <<<<from, d>>>> /\ d = (d - 1) + 1
      BY <2>4 DEF Week
    <3>2. WithDay(<<<<from, d - 1>>>>, d) = <<<<from, d>>>>
      BY <3>1, DayExtends DEF Week
    <3> QED BY <2>1, <2>4, <3>1, <3>2 DEF Week
  <2> QED BY <2>2, <2>3, <2>4 DEF Week
<1>3. u[0] = W(0)
  BY <1>1 DEF Week
<1> HIDE DEF W
<1>4. u[1] = W(1) /\ u[2] = W(2) /\ u[3] = W(3)
  BY <1>2, <1>3 DEF Week
<1>5. u[4] = W(4) /\ u[5] = W(5) /\ u[6] = W(6)
  BY <1>2, <1>4 DEF Week
<1>6. u[7] = W(7)
  BY <1>2, <1>5 DEF Week
<1>7. W(7) = <<<<from, to>>>>
  BY DEF W, Week
<1> QED BY <1>1, <1>6, <1>7

\* The days of a range that goes over Sunday are shown as two ranges, if a day
\* is missing between them.
LEMMA RangesOfWrap ==
    ASSUME NEW from \in Week, NEW to \in Week, to + 1 < from
    PROVE  DayRanges((1..to) \cup (from..7)) = <<<<1, to>>, <<from, 7>>>>
<1> DEFINE D == (1..to) \cup (from..7)
           W(d) == IF d = 0 THEN <<>> ELSE IF d <= to THEN <<<<1, d>>>>
                   ELSE IF d < from THEN <<<<1, to>>>> ELSE <<<<1, to>>, <<from, d>>>>
<1>1. PICK u : /\ DayRanges(D) = u[7] /\ u[0] = <<>>
               /\ \A d \in Week : u[d] = IF d \in D THEN WithDay(u[d - 1], d) ELSE u[d - 1]
  BY WalkOfWeek
<1>2. ASSUME NEW d \in Week, u[d - 1] = W(d - 1) PROVE u[d] = W(d)
  <2>1. u[d] = IF d \in D THEN WithDay(W(d - 1), d) ELSE W(d - 1)
    BY <1>1, <1>2
  <2>2. CASE to < d /\ d < from
    <3>1. W(d - 1) = <<<<1, to>>>> /\ W(d) = <<<<1, to>>>> /\ d \notin D
      BY <2>2 DEF Week
    <3> QED BY <2>1, <3>1
  <2>3. CASE d = 1
    <3>1. W(d - 1) = <<>> /\ W(d) = <<<<d, d>>>> /\ d \in D
      BY <2>3 DEF Week
    <3>2. WithDay(<<>>, d) = <<<<d, d>>>>
      BY DayBegins
    <3> QED BY <2>1, <3>1, <3>2
  <2>4. CASE 1 < d /\ d <= to
    <3>1. W(d - 1) = <<<<1, d - 1>>>> /\ W(d) = <<<<1, d>>>> /\ d = (d - 1) + 1 /\ d \in D
      BY <2>4 DEF Week
    <3>2. WithDay(<<<<1, d - 1>>>>, d) = <<<<1, d>>>>
      BY <3>1, DayExtends DEF Week
    <3> QED BY <2>1, <3>1, <3>2
  <2>5. CASE d = from
    <3>1. W(d - 1) = <<<<1, to>>>> /\ W(d) = <<<<1, to>>, <<d, d>>>> /\ d # to + 1 /\ d \in D
      BY <2>5 DEF Week
    <3>2. WithDay(<<<<1, to>>>>, d) = <<<<1, to>>, <<d, d>>>>
      BY <3>1, DayBeginsAnother DEF Week
    <3> QED BY <2>1, <3>1, <3>2
  <2>6. CASE from < d
    <3>1. /\ W(d - 1) = <<<<1, to>>, <<from, d - 1>>>> /\ W(d) = <<<<1, to>>, <<from, d>>>>
          /\ d = (d - 1) + 1 /\ d \in D
      BY <2>6 DEF Week
    <3>2. WithDay(<<<<1, to>>, <<from, d - 1>>>>, d) = <<<<1, to>>, <<from, d>>>>
      BY <3>1, DayExtendsAnother DEF Week
    <3> QED BY <2>1, <3>1, <3>2
  <2> QED BY <2>2, <2>3, <2>4, <2>5, <2>6 DEF Week
<1>3. u[0] = W(0)
  BY <1>1
<1> HIDE DEF W
<1>4. u[1] = W(1) /\ u[2] = W(2) /\ u[3] = W(3)
  BY <1>2, <1>3 DEF Week
<1>5. u[4] = W(4) /\ u[5] = W(5) /\ u[6] = W(6)
  BY <1>2, <1>4 DEF Week
<1>6. u[7] = W(7)
  BY <1>2, <1>5 DEF Week
<1>7. W(7) = <<<<1, to>>, <<from, 7>>>>
  BY DEF W, Week
<1> QED BY <1>1, <1>6, <1>7

\* The days of a range, as a set.
LEMMA RunOfDays ==
    ASSUME NEW from \in Week, NEW to \in Week, from <= to
    PROVE  ToSet([i \in 1..DaysUpTo(from, to) |-> NthDay(from, i)]) = from..to
<1> DEFINE n == DaysUpTo(from, to)
           D == from..to
<1>1. n = to - from + 1 /\ \A i \in 1..n : NthDay(from, i) = from + i - 1
  BY DEF DaysUpTo, NthDay, Week
<1>2. ASSUME NEW d \in D PROVE \E i \in 1..n : d = NthDay(from, i)
  <2>1. d - from + 1 \in 1..n
    BY <1>1 DEF Week
  <2> QED BY <1>1, <2>1 DEF Week
<1>3. ASSUME NEW i \in 1..n PROVE NthDay(from, i) \in D
  BY <1>1 DEF Week
<1> HIDE DEF n, D
<1>4. ToSet([i \in 1..n |-> NthDay(from, i)]) = D
  BY <1>2, <1>3 DEF ToSet
<1> QED BY <1>4 DEF n, D

LEMMA WrapOfDays ==
    ASSUME NEW from \in Week, NEW to \in Week, to < from
    PROVE  ToSet([i \in 1..DaysUpTo(from, to) |-> NthDay(from, i)]) = (1..to) \cup (from..7)
<1> DEFINE n == DaysUpTo(from, to)
           D == (1..to) \cup (from..7)
<1>1. /\ n = to - from + 8 /\ n \in Week
      /\ \A i \in 1..n : NthDay(from, i) = IF from + i - 1 <= 7 THEN from + i - 1 ELSE from + i - 8
  BY DEF DaysUpTo, NthDay, Week
<1>2. ASSUME NEW d \in D PROVE \E i \in 1..n : d = NthDay(from, i)
  <2> DEFINE i == IF d < from THEN d - from + 8 ELSE d - from + 1
  <2>1. i \in 1..n /\ d = IF from + i - 1 <= 7 THEN from + i - 1 ELSE from + i - 8
    BY <1>1 DEF Week
  <2> QED BY <1>1, <2>1
<1>3. ASSUME NEW i \in 1..n PROVE NthDay(from, i) \in D
  BY <1>1 DEF Week
<1> HIDE DEF n, D
<1>4. ToSet([i \in 1..n |-> NthDay(from, i)]) = D
  BY <1>2, <1>3 DEF ToSet
<1> QED BY <1>4 DEF n, D

LEMMA AllDays ==
    ASSUME NEW from \in Week, NEW to \in Week, DaysUpTo(from, to) = 7
    PROVE  ToSet([i \in 1..DaysUpTo(from, to) |-> NthDay(from, i)]) = Week
<1>1. CASE from <= to
  <2>1. from..to = Week
    BY <1>1 DEF DaysUpTo, Week
  <2> QED BY <1>1, <2>1, RunOfDays
<1>2. CASE to < from
  <2>1. (1..to) \cup (from..7) = Week
    BY <1>2 DEF DaysUpTo, Week
  <2> QED BY <1>2, <2>1, WrapOfDays
<1> QED BY <1>1, <1>2 DEF Week

\* A rule that parseOpenTimeRule accepts, shown by formatOpenTimeRule and sent back,
\* means the same days and hours; only one that goes over Sunday with a day left
\* out is refused, since it is shown as two ranges.
THEOREM ShownRuleReadsBackHolds == Spec => []ShownRuleReadsBack
<1>1. Asked => ShownRuleReadsBack
  <2> DEFINE back == ParseOpenTimeRule(FormatOpenTimeRule(Value))
  <2> SUFFICES ASSUME text \in Texts, Value # Refused
               PROVE  IF back = Refused THEN text.ranges[1][1] > text.ranges[1][2]
                      ELSE /\ ToSet(back.openDays) = ToSet(Value.openDays)
                           /\ back.openFrom = Value.openFrom
                           /\ back.openTo = Value.openTo
    BY DEF Asked, ShownRuleReadsBack
  <2>1. Always # Refused /\ LastMinute \in Int /\ LastMinute >= 0
    BY ClockAssumption DEF Always, Refused, LastMinute
  <2> DEFINE open == [openDays |-> [i \in Week |-> i], openFrom |-> 0, openTo |-> LastMinute]
  <2>2. ParseOpenTimeRule(Always) = open
    BY DEF ParseOpenTimeRule
  <2>3. Len(open.openDays) = 7 /\ ToSet(open.openDays) = Week /\ open # Refused
    <3>1. open.openDays = [i \in 1..7 |-> i] /\ open.openDays[1] = 1 /\ Refused.openDays = <<>>
      BY DEF Week, Refused
    <3>2. Len(open.openDays) = 7
      BY <3>1
    <3>3. ToSet(open.openDays) = Week
      BY DEF ToSet, Week
    <3>4. open # Refused
      <4> SUFFICES ASSUME open = Refused PROVE FALSE
        OBVIOUS
      <4>1. open.openDays = <<>>
        BY <3>1
      <4> HIDE DEF open
      <4> QED BY <3>2, <4>1
    <3> HIDE DEF open
    <3> QED BY <3>2, <3>3, <3>4
  <2>4. CASE text = Always
    <3>1. Value = open
      BY <2>2, <2>4 DEF Value
    <3>2. FormatOpenTimeRule(open) = Always
      BY <2>3 DEF FormatOpenTimeRule
    <3> QED BY <2>2, <2>3, <3>1, <3>2
  <2>5. CASE text # Always
    <3>1. PICK from \in Week, to \in Week, f \in RuleTimes, t \in RuleTimes :
              text = [ranges |-> <<<<from, to>>>>, from |-> f, to |-> t]
      BY <2>5 DEF Texts
    <3>2. f \in Int /\ t \in Int /\ f >= 0 /\ f < t /\ from \in Int /\ to \in Int
      BY <2>5, <3>1, RangeAssumption, ClockAssumption
         DEF Value, ParseOpenTimeRule, Minutes, Week
    <3> DEFINE n == DaysUpTo(from, to)
               days == [i \in 1..n |-> NthDay(from, i)]
               value == [openDays |-> days, openFrom |-> f, openTo |-> t]
    <3>3. Value = value
      <4>1. Value = [openDays |-> ExpandDays(from, to), openFrom |-> f, openTo |-> t]
        BY <2>5, <3>1, <3>2 DEF Value, ParseOpenTimeRule
      <4> QED BY <4>1, ExpandedDays
    <3>4. n \in Week /\ Len(days) = n
      BY DEF DaysUpTo, Week
    <3>5. ASSUME NEW a \in Week, NEW b \in Week
          PROVE  ParseOpenTimeRule([ranges |-> <<<<a, b>>>>, from |-> f, to |-> t])
                     = [openDays |-> ExpandDays(a, b), openFrom |-> f, openTo |-> t]
      <4> DEFINE shown == [ranges |-> <<<<a, b>>>>, from |-> f, to |-> t]
      <4>1. shown # Always
        BY DEF Always
      <4> QED BY <3>2, <4>1 DEF ParseOpenTimeRule
    <3>6. [openDays |-> ExpandDays(from, to), openFrom |-> f, openTo |-> t] # Refused
      BY <3>2 DEF Refused
    <3>7. CASE Len(days) = 7 /\ f = 0 /\ t = LastMinute
      <4>1. FormatOpenTimeRule(value) = Always
        BY <3>7 DEF FormatOpenTimeRule
      <4>2. ToSet(days) = Week
        BY <3>4, <3>7, AllDays
      <4> QED BY <2>2, <2>3, <3>3, <3>7, <4>1, <4>2
    <3>8. CASE ~(Len(days) = 7 /\ f = 0 /\ t = LastMinute)
      <4> DEFINE shown == [ranges |-> DayRanges(ToSet(days)), from |-> f, to |-> t]
      <4>1. FormatOpenTimeRule(value) = shown
        BY <3>8 DEF FormatOpenTimeRule
      <4>2. CASE from <= to
        <5>1. ToSet(days) = from..to
          BY <4>2, RunOfDays
        <5>2. DayRanges(ToSet(days)) = <<<<from, to>>>>
          BY <4>2, <5>1, RangeOfRun
        <5>3. back = [openDays |-> ExpandDays(from, to), openFrom |-> f, openTo |-> t]
          BY <3>3, <3>5, <4>1, <5>2
        <5> QED BY <3>3, <3>6, <5>3, ExpandedDays
      <4>3. CASE to < from
        <5> SUFFICES ASSUME back # Refused
                     PROVE  /\ ToSet(back.openDays) = ToSet(Value.openDays)
                            /\ back.openFrom = Value.openFrom
                            /\ back.openTo = Value.openTo
          BY <3>1, <3>2, <4>3
        <5>1. CASE to + 1 < from
          <6>1. ToSet(days) = (1..to) \cup (from..7)
            BY <4>3, WrapOfDays
          <6>2. shown.ranges = <<<<1, to>>, <<from, 7>>>>
            BY <5>1, <6>1, RangesOfWrap
          <6>3. Len(shown.ranges) = 2
            BY <6>2
          <6>4. shown # Always
            <7> SUFFICES ASSUME shown = Always PROVE FALSE
              OBVIOUS
            <7> HIDE DEF shown
            <7>1. shown.ranges = <<>>
              BY DEF Always
            <7> QED BY <6>3, <7>1
          <6>5. ParseOpenTimeRule(shown) = Refused
            BY <6>3, <6>4 DEF ParseOpenTimeRule
          <6> QED BY <3>3, <4>1, <6>5
        <5>2. CASE to + 1 = from
          <6>1. 1 \in Week /\ 7 \in Week /\ Week = 1..7
            BY DEF Week
          <6>2. DaysUpTo(from, to) = 7
            BY <5>2 DEF DaysUpTo, Week
          <6>3. ToSet(days) = 1..7
            BY <6>1, <6>2, AllDays
          <6>4. DayRanges(1..7) = <<<<1, 7>>>>
            BY <6>1, RangeOfRun
          <6> DEFINE week == [ranges |-> <<<<1, 7>>>>, from |-> f, to |-> t]
                     all == [openDays |-> ExpandDays(1, 7), openFrom |-> f, openTo |-> t]
          <6>5. ParseOpenTimeRule(week) = all
            <7> HIDE DEF week, all
            <7>1. week = [ranges |-> <<<<1, 7>>>>, from |-> f, to |-> t]
              BY DEF week
            <7>2. ParseOpenTimeRule([ranges |-> <<<<1, 7>>>>, from |-> f, to |-> t])
                      = [openDays |-> ExpandDays(1, 7), openFrom |-> f, openTo |-> t]
              BY <3>5, <6>1
            <7> QED BY <7>1, <7>2 DEF all
          <6>6. shown = week
            <7> HIDE DEF days
            <7> QED BY <6>3, <6>4
          <6>7. FormatOpenTimeRule(Value) = week
            <7> HIDE DEF shown, week, value
            <7> QED BY <3>3, <4>1, <6>6
          <6>8. back = all
            <7> HIDE DEF week, all
            <7> QED BY <6>5, <6>7
          <6>9. back.openDays = ExpandDays(1, 7) /\ back.openFrom = f /\ back.openTo = t
            <7> HIDE DEF back
            <7> QED BY <6>8
          <6>10. Value.openDays = days /\ Value.openFrom = f /\ Value.openTo = t
            <7> HIDE DEF days
            <7> QED BY <3>3
          <6>11. ToSet(ExpandDays(1, 7)) = 1..7
            BY <6>1, ExpandedDays, RunOfDays
          <6> HIDE DEF back, days, value
          <6> QED BY <6>3, <6>9, <6>10, <6>11
        <5> QED BY <3>2, <4>3, <5>1, <5>2
      <4> QED BY <3>2, <4>2, <4>3
    <3> QED BY <3>7, <3>8
  <2> QED BY <2>4, <2>5
<1> QED BY <1>1, AskedInvariant, PTL

-----------------------------------------------------------------------------
(* The zone of the run.                                                    *)

LEMMA NewYorkQualifies ==
    ASSUME MinutesPerDay = 24, \A t \in Int : UtcOffset(t) = NewYork(t)
    PROVE  ClocksForward(Int) /\ \A date \in Int : MidnightSettled(date)
<1> DEFINE h == SecondsPerMinute
<1>1. h \in Nat \ {0} /\ DayLength = 24 * h
  BY ClockAssumption DEF DayLength
<1> HIDE DEF h
<1>2. \A t \in Int : UtcOffset(t) = IF t < 7 * h THEN -5 * h ELSE -4 * h
  BY <1>1 DEF NewYork, h
<1>3. ClocksForward(Int)
  BY <1>1, <1>2 DEF ClocksForward, Local
<1>4. ASSUME NEW date \in Int PROVE MidnightSettled(date)
  <2> DEFINE naive == date * DayLength
  <2>1. date <= 0 => naive <= 0
    BY <1>1
  <2>2. date >= 1 => naive >= 24 * h
    BY <1>1
  <2>3. naive \in Int
    BY <1>1
  <2> HIDE DEF naive
  <2>4. CASE date <= 0
    <3>1. UtcOffset(naive) = (-5) * h /\ UtcOffset(naive - (-5) * h) = (-5) * h
      BY <1>1, <1>2, <2>1, <2>3, <2>4
    <3> QED BY <3>1 DEF MidnightSettled, naive, h
  <2>5. CASE date >= 1
    <3>1. UtcOffset(naive) = (-4) * h /\ UtcOffset(naive - (-4) * h) = (-4) * h
      BY <1>1, <1>2, <2>2, <2>3, <2>5
    <3> QED BY <3>1 DEF MidnightSettled, naive, h
  <2> QED BY <2>4, <2>5
<1> QED BY <1>3, <1>4

\* Both theorems apply where the clocks of New York go forward, however long a
\* minute, and whatever is asked for: there checkOpenHours and dayRangeInTz are
\* exact without conditions.
THEOREM NewYorkIsExact ==
    ASSUME MinutesPerDay = 24, \A t \in Int : UtcOffset(t) = NewYork(t)
    PROVE  Spec => [](OpenThroughout /\ DayRangeIsTheDay)
<1>1. ClocksForward(Int) /\ \A date \in -1..2 : MidnightSettled(date)
  BY NewYorkQualifies
<1>2. ASSUME NEW T \in SUBSET Int PROVE ClocksForward(T)
  BY <1>1 DEF ClocksForward
<1>3. \A date \in -1..2 : ZonedMidnight(date) \in Int
  BY <1>1, MidnightFound
<1>4. Asked => /\ ClocksForward(start..end)
               /\ ClocksForward({start} \cup {ZonedMidnight(date) : date \in -1..2})
  BY <1>2, <1>3 DEF Asked
<1>5. Spec => [](ClocksForward({start} \cup {ZonedMidnight(date) : date \in -1..2})
                     => DayRangeIsTheDay)
  BY <1>1, DayRangeIsTheDayHolds
<1> QED BY <1>4, <1>5, OpenThroughoutHolds, AskedInvariant, PTL
=============================================================================
