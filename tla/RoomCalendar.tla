---------------------------- MODULE RoomCalendar ----------------------------
(***************************************************************************)
(* What POST /bookings and POST /bookings/:id/cancel promise.              *)
(*                                                                         *)
(* A room's calendar holds confirmed bookings that never overlap. A        *)
(* request books its slot in one step, if the slot is free, or is refused  *)
(* and then never books. An answer of 201 is given only with the booking;  *)
(* 400, 404 and 409 only without one. A 500, or no answer, may come either *)
(* way. A confirmed booking may be cancelled, for good.                    *)
(***************************************************************************)
EXTENDS Integers

CONSTANTS
    Requests,   \* booking requests; each may become one booking
    Dtos        \* the request bodies clients send

VARIABLES
    dto,        \* the body of each request
    status,     \* the booking of each request: none, CONFIRMED or CANCELLED
    answer      \* the HTTP status each request is answered with, none before

calendarVars == <<dto, status, answer>>

Refusals == {"400", "404", "409"}

\* Two requests for the same room with overlapping half-open time slots.
Overlap(r, s) ==
    /\ dto[r].room = dto[s].room
    /\ dto[r].start < dto[s].end
    /\ dto[s].start < dto[r].end

Init ==
    /\ dto \in [Requests -> Dtos]
    /\ status = [r \in Requests |-> "none"]
    /\ answer = [r \in Requests |-> "none"]

\* The answer may be lost on the way (none), or replaced by a 500.
Book(r) ==
    /\ status[r] = "none" /\ answer[r] = "none"
    /\ \A s \in Requests : status[s] = "CONFIRMED" => ~Overlap(r, s)
    /\ status' = [status EXCEPT ![r] = "CONFIRMED"]
    /\ \E a \in {"201", "500", "none"} : answer' = [answer EXCEPT ![r] = a]
    /\ UNCHANGED dto

Refuse(r) ==
    /\ status[r] = "none" /\ answer[r] = "none"
    /\ \E a \in Refusals \cup {"500"} : answer' = [answer EXCEPT ![r] = a]
    /\ UNCHANGED <<dto, status>>

CancelBooking(r) ==
    /\ status[r] = "CONFIRMED"
    /\ status' = [status EXCEPT ![r] = "CANCELLED"]
    /\ UNCHANGED <<dto, answer>>

Next == \E r \in Requests : Book(r) \/ Refuse(r) \/ CancelBooking(r)

Spec == Init /\ [][Next]_calendarVars

-----------------------------------------------------------------------------

\* No two confirmed bookings of a room overlap.
NoDoubleBooking ==
    \A r, s \in Requests :
        r # s /\ status[r] = "CONFIRMED" /\ status[s] = "CONFIRMED" => ~Overlap(r, s)
=============================================================================
