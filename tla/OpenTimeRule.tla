---------------------------- MODULE OpenTimeRule ----------------------------
(***************************************************************************)
(* Open-time rules between text and columns, as converted by               *)
(* parseOpenTimeRule and formatOpenTimeRule of                             *)
(* src/src/common/open-time/open-time.ts.                                  *)
(*                                                                         *)
(* A text is ALWAYS, or a comma-separated list of day ranges and two times *)
(* of day: [ranges |-> <<<<1, 5>>>>, from |-> 540, to |-> 1080] stands for *)
(* "MON-FRI:09:00-18:00". A single day is a range of one day.              *)
(***************************************************************************)
EXTENDS OpenHours, Sequences, SequencesExt

LastMinute == MinutesPerDay - 1     \* 23:59

\* The word ALWAYS, and the OpenTimeFormatError the parser throws.
Always == [ranges |-> <<>>, from |-> 0, to |-> LastMinute]
Refused == [openDays |-> <<>>, openFrom |-> 0, openTo |-> 0]

NextDay(d) == IF d = 7 THEN 1 ELSE d + 1

\* Mutant: the walk stops at Sunday instead of going on with Monday.
ExpandDays_NoWrap(from, to) ==
    IF from <= to THEN [i \in 1..(to - from + 1) |-> from + i - 1]
                  ELSE [i \in 1..(8 - from) |-> from + i - 1]

\* The days from `from` to `to`, going on with Monday after Sunday.
ExpandDays(from, to) ==
    LET day[i \in Week] == IF i = 1 THEN from ELSE NextDay(day[i - 1])
        last == CHOOSE i \in Week : day[i] = to
    IN  [i \in 1..last |-> day[i]]

\* A list of ranges is no day spec: "MON,WED" is not in DAY_INDEX.
ParseOpenTimeRule(text) ==
    CASE text = Always ->
            [openDays |-> [i \in Week |-> i], openFrom |-> 0, openTo |-> LastMinute]
      [] text # Always /\ Len(text.ranges) = 1 /\ text.from < text.to ->
            [openDays |-> ExpandDays(text.ranges[1][1], text.ranges[1][2]),
             openFrom |-> text.from, openTo |-> text.to]
      [] OTHER -> Refused

\* A day after the last range: it extends it, or begins another.
WithDay(ranges, d) ==
    IF ranges # <<>> /\ d = Last(ranges)[2] + 1
    THEN [ranges EXCEPT ![Len(ranges)][2] = d]
    ELSE Append(ranges, <<d, d>>)

\* Consecutive days collapsed into ranges. Sorted days without duplicates are
\* met by going through the week.
DayRanges(days) ==
    LET upTo[d \in 0..7] ==
            IF d = 0 THEN <<>>
            ELSE IF d \in days THEN WithDay(upTo[d - 1], d)
            ELSE upTo[d - 1]
    IN  upTo[7]

\* Mutant: ALWAYS for any room open seven days a week.
FormatOpenTimeRule_AnyHours(value) ==
    IF Len(value.openDays) = 7 THEN Always
    ELSE [ranges |-> DayRanges(ToSet(value.openDays)),
          from |-> value.openFrom, to |-> value.openTo]

\* The text of a bookable room's columns; other rooms have none.
FormatOpenTimeRule(value) ==
    IF Len(value.openDays) = 7 /\ value.openFrom = 0 /\ value.openTo = LastMinute
    THEN Always
    ELSE [ranges |-> DayRanges(ToSet(value.openDays)),
          from |-> value.openFrom, to |-> value.openTo]
=============================================================================
