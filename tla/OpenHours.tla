----------------------------- MODULE OpenHours -----------------------------
(***************************************************************************)
(* Wall clocks, open hours and calendar days of a time zone, as computed   *)
(* by src/src/common/open-time/open-time.ts.                               *)
(*                                                                         *)
(* An instant is an integer number of seconds. The IANA zone is its offset *)
(* from UTC at every instant, so a zone with daylight saving time is a     *)
(* function that steps. A time of day is a number of minutes since         *)
(* midnight, which orders as the zero-padded "HH:mm" strings of the code   *)
(* do. Day number 0 is a Monday.                                           *)
(***************************************************************************)
EXTENDS Integers

CONSTANTS
    SecondsPerMinute,   \* 60
    MinutesPerDay,      \* 1440
    UtcOffset(_)        \* the zone: seconds to add to an instant for local time

ASSUME ClockAssumption ==
    /\ SecondsPerMinute \in Nat \ {0}
    /\ MinutesPerDay \in Nat \ {0}

DayLength == SecondsPerMinute * MinutesPerDay

Week == 1..7
Minutes == 0..(MinutesPerDay - 1)

\* The open_days, open_from and open_to columns of a location.
Hours == [openDays : SUBSET Week, openFrom : Minutes, openTo : Minutes]

Local(t) == t + UtcOffset(t)

\* The date, the weekday, and the hour and minute of an instant. The format
\* asks for no seconds: they are dropped.
WallClockInTz(t) ==
    LET day == Local(t) \div DayLength
    IN  [date   |-> day,
         hm     |-> (Local(t) % DayLength) \div SecondsPerMinute,
         isoDow |-> (day % 7) + 1]

\* Mutant: a booking may run over midnight into another open day.
CheckOpenHours_AnyDay(start, end, hours) ==
    LET s == WallClockInTz(start)
        e == WallClockInTz(end)
    IN  /\ s.isoDow \in hours.openDays
        /\ s.hm >= hours.openFrom
        /\ e.hm <= hours.openTo

\* A booking fits in one calendar day of the zone, on an open day, not before
\* the opening minute and not after the closing minute.
CheckOpenHours(start, end, hours) ==
    LET s == WallClockInTz(start)
        e == WallClockInTz(end)
    IN  /\ s.date = e.date
        /\ s.isoDow \in hours.openDays
        /\ s.hm >= hours.openFrom
        /\ e.hm <= hours.openTo

\* Mutant: the seen offset is added to the guess instead of subtracted.
ZonedMidnight_Added(date) ==
    LET wc == WallClockInTz(date * DayLength)
    IN  wc.date * DayLength + wc.hm * SecondsPerMinute

\* The instant of local midnight: midnight UTC is the guess, corrected by the
\* offset the zone has at the guess.
ZonedMidnight(date) ==
    LET naiveUtc == date * DayLength
        wc       == WallClockInTz(naiveUtc)
        seenUtc  == wc.date * DayLength + wc.hm * SecondsPerMinute
    IN  naiveUtc - (seenUtc - naiveUtc)

\* The half-open range of instants by which a day's bookings are listed.
DayRangeInTz(date) ==
    [from |-> ZonedMidnight(date), to |-> ZonedMidnight(date + 1)]
=============================================================================
