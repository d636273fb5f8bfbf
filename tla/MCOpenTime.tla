----------------------------- MODULE MCOpenTime -----------------------------
(***************************************************************************)
(* Every open-time rule over a few times of day, and bookings at every     *)
(* instant of a few days around a change of the clocks. A day has 24       *)
(* hours of two instants each: the `minutes' of the model are hours, so    *)
(* that a zone's offset is a few of them.                                  *)
(***************************************************************************)
EXTENDS OpenTimeRule

CONSTANTS
    Horizon,    \* bookings lie within -Horizon .. Horizon
    MaxLength,  \* and last at most MaxLength instants
    RuleTimes   \* opening and closing times tried

ASSUME RangeAssumption ==
    /\ Horizon \in Nat /\ MaxLength \in Nat
    /\ RuleTimes \subseteq Minutes

VARIABLES
    text,       \* the rule the room has
    start, end  \* the booking asked for

vars == <<text, start, end>>

\* America/New_York: the clocks go forward at 2:00 on day 0, five hours
\* behind UTC before and four after.
NewYork(t) == (IF t < 7 * SecondsPerMinute THEN -5 ELSE -4) * SecondsPerMinute

\* Pacific/Auckland: the clocks go forward at 2:00 on day 1, twelve hours
\* ahead of UTC before and thirteen after.
Auckland(t) == (IF t < 14 * SecondsPerMinute THEN 12 ELSE 13) * SecondsPerMinute

Texts == {Always} \cup
    [ranges : {<<<<from, to>>>> : from, to \in Week}, from : RuleTimes, to : RuleTimes]

Init == text = Always /\ start = -Horizon /\ end = 1 - Horizon

\* The administrator sends a rule.
Send == start = -Horizon /\ end = start + 1 /\ text' \in Texts /\ UNCHANGED <<start, end>>

\* The client asks for a longer booking, or for one that starts later.
Extend == end < Horizon /\ end - start < MaxLength /\ end' = end + 1 /\ UNCHANGED <<text, start>>
Delay  == start + 1 < end /\ start' = start + 1 /\ UNCHANGED <<text, end>>

Spec == Init /\ [][Send \/ Extend \/ Delay]_vars

-----------------------------------------------------------------------------

Value == ParseOpenTimeRule(text)

\* The days a range of weekdays means, going round the week.
DaysBetween(from, to) == {d \in Week : (d - from) % 7 <= (to - from) % 7}

\* A parsed rule opens the room on the days of its range, each listed once,
\* also when the range goes on from Sunday to Monday (expandDays).
ParsedDaysAreTheRange ==
    Value # Refused =>
        /\ IsInjective(Value.openDays)
        /\ ToSet(Value.openDays) =
               IF text = Always THEN Week
               ELSE DaysBetween(text.ranges[1][1], text.ranges[1][2])

\* The rule shown by GET /locations, sent back by a client, opens the room on
\* the same days and hours; it is refused only for days that go on from
\* Sunday to Monday, which are shown as a list (formatOpenTimeRule).
ShownRuleReadsBack ==
    LET back == ParseOpenTimeRule(FormatOpenTimeRule(Value))
    IN  Value # Refused =>
            IF back = Refused
            THEN text.ranges[1][1] > text.ranges[1][2]
            ELSE /\ ToSet(back.openDays) = ToSet(Value.openDays)
                 /\ back.openFrom = Value.openFrom
                 /\ back.openTo = Value.openTo

Columns == [Value EXCEPT !.openDays = ToSet(@)]

OpenAt(t) ==
    LET w == WallClockInTz(t)
    IN  w.isoDow \in Columns.openDays /\ w.hm \in Columns.openFrom..Columns.openTo

\* Looking at the two ends is enough: checkOpenHours accepts a booking exactly
\* when the room is open at every instant of it and it stays within one day
\* (as long as the clocks do not go back during the booking).
OpenThroughout ==
    Value # Refused =>
        (CheckOpenHours(start, end, Columns) <=>
             \A t \in start..end :
                 OpenAt(t) /\ WallClockInTz(t).date = WallClockInTz(start).date)

\* The range of instants by which GET /bookings?date= filters holds exactly
\* the instants whose wall clock shows that date (dayRangeInTz).
DayRangeIsTheDay ==
    \A date \in -1..1 :
        LET range == DayRangeInTz(date)
        IN  start \in range.from..(range.to - 1) <=> WallClockInTz(start).date = date
=============================================================================
