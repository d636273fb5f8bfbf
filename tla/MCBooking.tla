------------------------------ MODULE MCBooking ------------------------------
(***************************************************************************)
(* Small instances of Booking. A day has eight one-minute instants, the    *)
(* business zone is two minutes ahead of UTC. Room A is open at minutes 1  *)
(* to 6 of every day, so its slots of business day 0 lie in -1..4.         *)
(***************************************************************************)
EXTENDS Booking, TLC

CONSTANTS A, B,         \* rooms
          X, Y,         \* departments
          r1, r2        \* requests

BusinessOffset == 2
Zone(t) == BusinessOffset

AllDay == [openDays |-> Week, openFrom |-> 1, openTo |-> 6]

Room(capacity, depts) == [capacity |-> capacity, departments |-> depts, hours |-> AllDay]

OneRoom  == {Room(2, {X})}
\* An administrator makes the room smaller and adds a department, or turns it
\* into a location that is not bookable.
ThreeStates == {Room(2, {X}), Room(1, {X, Y}),
                [capacity |-> 0, departments |-> {}, hours |-> [AllDay EXCEPT !.openDays = {}]]}

Body(room, dept, attendees, start, end, offset) ==
    [room |-> room, dept |-> dept, attendees |-> attendees,
     start |-> start, end |-> end, offset |-> offset]

Plain(start, end) == Body(A, X, 1, start, end, BusinessOffset)

\* One slot only, in an outage.
OneSlot == {Plain(0, 2)}

\* Two slots that overlap. The second is written in UTC and begins before local
\* midnight: its date is the day before, so the two have different locks.
TwoDates == {Plain(0, 2), Body(A, X, 1, -1, 1, 0)}

\* Two bodies that a room of two admits and one for another department, which
\* overlap and touch; then one that ends after closing time, one that runs over
\* midnight and one of no length.
Assorted == {Plain(0, 2), Body(A, X, 2, 1, 3, BusinessOffset), Body(A, Y, 1, 2, 3, BusinessOffset),
             Body(A, X, 1, 3, 5, BusinessOffset), Body(A, X, 1, 3, 6, BusinessOffset),
             Body(A, X, 1, 2, 2, BusinessOffset)}

\* With another room at the same time.
AssortedRooms == Assorted \cup {Body(B, X, 1, 1, 2, BusinessOffset)}

Symmetry == Permutations(Requests) \cup Permutations(Cancels)
==============================================================================
