------------------------------- MODULE Booking -------------------------------
(***************************************************************************)
(* BookingService (src/src/modules/booking/booking.service.ts): the steps  *)
(* of POST /bookings and POST /bookings/:id/cancel, one action per round   *)
(* trip to Postgres or Redis, run by any number of API instances at once.  *)
(*                                                                         *)
(* Around them: the rooms and departments as other requests change them,   *)
(* the Redis lock with its time to live, replies lost in an outage, and    *)
(* the Postgres transaction. Postgres checks an exclusion constraint after *)
(* it has added the new row, and waits there for the end of any other      *)
(* transaction that has added a conflicting row.                           *)
(***************************************************************************)
EXTENDS OpenHours

CONSTANTS
    Requests,               \* the POST /bookings requests
    Cancels,                \* the POST /bookings/:id/cancel requests
    Rooms, Departments,     \* ids of locations and of departments
    RoomRecords,            \* the contents a location's row may have
    RemovableRooms,         \* locations that may be soft-deleted
    RemovableDepartments,   \* departments that may be soft-deleted
    Dtos,                   \* the bodies clients send
    Faults,                 \* what may go wrong, a subset of AllFaults
    NoToken, NoRoom, NoBooking  \* null

AllFaults == {
    "crash",        \* an API process dies between two steps
    "dberror",      \* a statement fails, or the answer to COMMIT is lost
    "rediserror",   \* Redis answers a command with an error
    "outage",       \* the connection to Redis goes down and comes back
    "earlyexpiry"}  \* a lock's time to live ends before its request does

\* What a request sees of a location: null capacity and open_days are 0 and {}.
RoomType == [capacity : Nat, departments : SUBSET Departments, hours : Hours]

\* start and end are instants; offset is the one written in startTime.
DtoType == [room : Rooms, dept : Departments, attendees : Nat,
            start : Int, end : Int, offset : Int]

ASSUME BookingAssumption ==
    /\ RoomRecords \subseteq RoomType
    /\ Dtos \subseteq DtoType
    /\ RemovableRooms \subseteq Rooms
    /\ RemovableDepartments \subseteq Departments
    /\ Faults \subseteq AllFaults
    /\ NoToken \notin Requests /\ NoBooking \notin Requests

VARIABLES
    rooms, removed, departments,        \* locations, soft-deleted ones, live departments
    lock, redisUp,                      \* Redis
    row,                                \* the bookings table: the row of each request
    dto, pc, seen, holds, outcome,      \* create: body, next step, room read, has a token, answer
    cpc, target, coutcome               \* cancel: next step, booking found, answer

catalogue == <<rooms, removed, departments>>
redis     == <<lock, redisUp>>
requests  == <<dto, pc, seen, holds, outcome>>
cancels   == <<cpc, target, coutcome>>
vars      == <<catalogue, redis, row, requests, cancels>>

-----------------------------------------------------------------------------

\* Two requests for the same room whose half-open slots [start, end) meet.
Overlap(r, s) ==
    /\ dto[r].room = dto[s].room
    /\ dto[r].start < dto[s].end
    /\ dto[s].start < dto[r].end

\* startTime.slice(0, 10): the date in the offset the client wrote.
ClientDate(d) == (d.start + d.offset) \div DayLength

\* Mutant: one key per day, for all rooms.
LockKeyOf_AnyRoom(d) == <<CHOOSE l \in Rooms : TRUE, ClientDate(d)>>

LockKeyOf(d) == <<d.room, ClientDate(d)>>

LockKey(r) == LockKeyOf(dto[r])

Lock == INSTANCE RedisLock
            WITH LockKeys <- {LockKeyOf(d) : d \in Dtos}, Tokens <- Requests

\* The steps between acquireLock and releaseLock.
CriticalSection == {"overlap", "insert", "check", "commit"}

Steps == {"load", "rules", "lock", "release", "done", "crashed"} \cup CriticalSection

Settled(r) == pc[r] \in {"done", "crashed"}

IsBookable(room) == room.capacity > 0 /\ room.hours.openDays # {}

\* Mutant: the capacity is not compared.
RoomRules_NoCapacity(room, d) ==
    /\ d.start < d.end
    /\ IsBookable(room)
    /\ room.departments # {} => d.dept \in room.departments
    /\ CheckOpenHours(d.start, d.end, room.hours)

\* The rules a body must meet for the room that was read. No departments
\* means any department.
RoomRules(room, d) ==
    /\ d.start < d.end
    /\ IsBookable(room)
    /\ room.departments # {} => d.dept \in room.departments
    /\ d.attendees <= room.capacity
    /\ CheckOpenHours(d.start, d.end, room.hours)

Init ==
    /\ rooms \in [Rooms -> RoomRecords] /\ removed = {} /\ departments = Departments
    /\ Lock!Init /\ redisUp = TRUE
    /\ row = [r \in Requests |-> "none"]
    /\ dto \in [Requests -> Dtos]
    /\ pc = [r \in Requests |-> "load"]
    /\ seen = [r \in Requests |-> NoRoom]
    /\ holds = [r \in Requests |-> FALSE]
    /\ outcome = [r \in Requests |-> "none"]
    /\ cpc = [c \in Cancels |-> "find"]
    /\ target = [c \in Cancels |-> NoBooking]
    /\ coutcome = [c \in Cancels |-> "none"]

-----------------------------------------------------------------------------
(* POST /bookings.                                                         *)

\* The request leaves `from` for `to`.
Goto(r, from, to) == pc[r] = from /\ pc' = [pc EXCEPT ![r] = to]

Decide(r, code) == outcome' = [outcome EXCEPT ![r] = code]

\* Mutant: no finally block.
LeaveTry_NoFinally(r) == "done"

\* create() returns or throws inside its try: the finally block comes next.
LeaveTry(r) == IF holds[r] THEN "release" ELSE "done"

\* getEntityOrFail: 404, or the row with its departments. The join leaves out
\* soft-deleted departments.
LoadRoom(r) ==
    LET l == dto[r].room
    IN  /\ \/ /\ l \in removed
              /\ Goto(r, "load", "done")
              /\ Decide(r, "404")
              /\ UNCHANGED seen
           \/ /\ l \notin removed
              /\ Goto(r, "load", "rules")
              /\ seen' = [seen EXCEPT ![r] =
                    [capacity    |-> rooms[l].capacity,
                     departments |-> rooms[l].departments \cap departments,
                     hours       |-> rooms[l].hours]]
              /\ UNCHANGED outcome
        /\ UNCHANGED <<catalogue, redis, row, dto, holds, cancels>>

\* The department is looked up now, the other rules use the room read before.
AssertBusinessRules(r) ==
    /\ pc[r] = "rules"
    /\ IF dto[r].dept \in departments /\ RoomRules(seen[r], dto[r])
       THEN Goto(r, "rules", "lock") /\ UNCHANGED outcome
       ELSE Goto(r, "rules", "done") /\ Decide(r, "400")
    /\ UNCHANGED <<catalogue, redis, row, dto, seen, holds, cancels>>

\* Mutant: a refused lock is taken for an unavailable one.
AcquireLock_RefusedGoesOn(r) ==
    /\ redisUp
    /\ \/ /\ Lock!Set(LockKey(r), r)
          /\ Goto(r, "lock", "overlap")
          /\ holds' = [holds EXCEPT ![r] = TRUE]
          /\ UNCHANGED outcome
       \/ /\ Lock!SetRefused(LockKey(r))
          /\ Goto(r, "lock", "overlap")
          /\ UNCHANGED <<holds, outcome>>
    /\ UNCHANGED <<catalogue, redisUp, row, dto, seen, cancels>>

\* acquireLock answers with a token, or with null: 409.
AcquireLock(r) ==
    /\ redisUp
    /\ \/ /\ Lock!Set(LockKey(r), r)
          /\ Goto(r, "lock", "overlap")
          /\ holds' = [holds EXCEPT ![r] = TRUE]
          /\ UNCHANGED outcome
       \/ /\ Lock!SetRefused(LockKey(r))
          /\ Goto(r, "lock", "done")
          /\ Decide(r, "409")
          /\ UNCHANGED holds
    /\ UNCHANGED <<catalogue, redisUp, row, dto, seen, cancels>>

\* acquireLock throws: the lock is skipped.
LockUnavailable(r) ==
    /\ "rediserror" \in Faults /\ redisUp
    /\ Goto(r, "lock", "overlap")
    /\ UNCHANGED <<catalogue, redis, row, dto, seen, holds, outcome, cancels>>

\* Redis sets the key and the connection breaks before its answer arrives.
\* The client keeps the command and sends it again when reconnected.
AcquireReplyLost(r) ==
    /\ "outage" \in Faults /\ redisUp
    /\ pc[r] = "lock"
    /\ Lock!Set(LockKey(r), r)
    /\ redisUp' = FALSE
    /\ UNCHANGED <<catalogue, row, requests, cancels>>

\* findOverlap sees the committed rows that are CONFIRMED.
FindOverlap(r) ==
    /\ IF \E s \in Requests : row[s] = "CONFIRMED" /\ Overlap(r, s)
       THEN Goto(r, "overlap", LeaveTry(r)) /\ Decide(r, "409")
       ELSE Goto(r, "overlap", "insert") /\ UNCHANGED outcome
    /\ UNCHANGED <<catalogue, redis, row, dto, seen, holds, cancels>>

\* repo.save: the row is added, not yet committed.
InsertRow(r) ==
    /\ Goto(r, "insert", "check")
    /\ row' = [row EXCEPT ![r] = "inserted"]
    /\ UNCHANGED <<catalogue, redis, dto, seen, holds, outcome, cancels>>

\* The other transactions that have added a row that conflicts with r's.
Rivals(r) == {s \in Requests \ {r} : row[s] = "inserted" /\ Overlap(r, s)}

\* Mutant: only rows of unfinished transactions are looked at.
PassConstraint_UncommittedOnly(r) ==
    /\ Rivals(r) = {}
    /\ Goto(r, "check", "commit")
    /\ UNCHANGED <<catalogue, redis, row, dto, seen, holds, outcome, cancels>>

\* Mutant: only committed rows are looked at.
PassConstraint_CommittedOnly(r) ==
    /\ \A s \in Requests : row[s] = "CONFIRMED" => ~Overlap(r, s)
    /\ Goto(r, "check", "commit")
    /\ UNCHANGED <<catalogue, redis, row, dto, seen, holds, outcome, cancels>>

\* no_overlap_booking finds no conflict; with a rival the INSERT waits.
PassConstraint(r) ==
    /\ \A s \in Requests : row[s] = "CONFIRMED" => ~Overlap(r, s)
    /\ Rivals(r) = {}
    /\ Goto(r, "check", "commit")
    /\ UNCHANGED <<catalogue, redis, row, dto, seen, holds, outcome, cancels>>

\* The INSERT fails and the transaction is rolled back.
AbortInsert(r, code) ==
    /\ Goto(r, "check", LeaveTry(r))
    /\ row' = [row EXCEPT ![r] = "none"]
    /\ Decide(r, code)
    /\ UNCHANGED <<catalogue, redis, dto, seen, holds, cancels>>

\* Mutant: the error is caught and the booking returned all the same.
ExclusionViolation_Swallowed(r) ==
    /\ \E s \in Requests : row[s] = "CONFIRMED" /\ Overlap(r, s)
    /\ AbortInsert(r, "201")

\* 23P01 exclusion_violation, answered with 409.
ExclusionViolation(r) ==
    /\ \E s \in Requests : row[s] = "CONFIRMED" /\ Overlap(r, s)
    /\ AbortInsert(r, "409")

\* Mutant: nobody ends the wait.
DeadlockDetected_Never(r) == FALSE /\ AbortInsert(r, "500")

\* Two INSERTs wait for each other: Postgres ends one with 40P01
\* deadlock_detected, which create() rethrows.
DeadlockDetected(r) ==
    /\ \E s \in Rivals(r) : pc[s] = "check"
    /\ AbortInsert(r, "500")

Commit(r) ==
    /\ Goto(r, "commit", LeaveTry(r))
    /\ row' = [row EXCEPT ![r] = "CONFIRMED"]
    /\ Decide(r, "201")
    /\ UNCHANGED <<catalogue, redis, dto, seen, holds, cancels>>

\* releaseLock; a failure is logged and forgotten.
ReleaseLock(r) ==
    /\ redisUp
    /\ Goto(r, "release", "done")
    /\ \/ Lock!Release(LockKey(r), r)
       \/ "rediserror" \in Faults /\ UNCHANGED lock
    /\ UNCHANGED <<catalogue, redisUp, row, dto, seen, holds, outcome, cancels>>

\* As AcquireReplyLost: the script has run and will be run again.
ReleaseReplyLost(r) ==
    /\ "outage" \in Faults /\ redisUp
    /\ pc[r] = "release"
    /\ Lock!Release(LockKey(r), r)
    /\ redisUp' = FALSE
    /\ UNCHANGED <<catalogue, row, requests, cancels>>

\* A statement fails. Lost while committing, the booking may be there.
DbFailure(r) ==
    /\ "dberror" \in Faults
    /\ \/ /\ pc[r] \in {"load", "rules"}
          /\ Goto(r, pc[r], "done")
          /\ UNCHANGED row
       \/ /\ pc[r] \in CriticalSection
          /\ Goto(r, pc[r], LeaveTry(r))
          /\ row' = [row EXCEPT ![r] = "none"]
       \/ /\ Goto(r, "commit", LeaveTry(r))
          /\ row' = [row EXCEPT ![r] = "CONFIRMED"]
    /\ Decide(r, "500")
    /\ UNCHANGED <<catalogue, redis, dto, seen, holds, cancels>>

\* The process dies: Postgres rolls back, unless COMMIT was on its way.
Crash(r) ==
    /\ "crash" \in Faults
    /\ ~Settled(r)
    /\ pc' = [pc EXCEPT ![r] = "crashed"]
    /\ \/ row' = IF row[r] = "inserted" THEN [row EXCEPT ![r] = "none"] ELSE row
       \/ pc[r] = "commit" /\ row' = [row EXCEPT ![r] = "CONFIRMED"]
    /\ UNCHANGED <<catalogue, redis, dto, seen, holds, outcome, cancels>>

-----------------------------------------------------------------------------
(* POST /bookings/:id/cancel.                                              *)

\* The relations of a booking that are soft-deleted are read as null.
RelationsLive(b) == dto[b].room \notin removed /\ dto[b].dept \in departments

CancelDone(c, code) ==
    /\ cpc' = [cpc EXCEPT ![c] = "done"]
    /\ coutcome' = [coutcome EXCEPT ![c] = code]

\* findOne, and the early return for a booking that is cancelled already.
CancelFind(c, b) ==
    /\ cpc[c] = "find"
    /\ \/ /\ row[b] \in {"none", "inserted"}
          /\ CancelDone(c, "404")
          /\ UNCHANGED target
       \/ /\ row[b] = "CANCELLED"
          /\ CancelDone(c, "200")
          /\ target' = [target EXCEPT ![c] = b]
       \/ /\ row[b] = "CONFIRMED"
          /\ cpc' = [cpc EXCEPT ![c] = IF RelationsLive(b) THEN "save" ELSE "savenull"]
          /\ target' = [target EXCEPT ![c] = b]
          /\ UNCHANGED coutcome
    /\ UNCHANGED <<catalogue, redis, row, requests>>

\* Mutant: the changed status is not saved.
CancelSave_Forgotten(c) ==
    /\ cpc[c] \in {"save", "savenull"}
    /\ CancelDone(c, "200")
    /\ UNCHANGED <<catalogue, redis, row, requests, target>>

\* The status is saved. A relation read as null may make the UPDATE null a
\* NOT NULL column and fail; whether it does is up to TypeORM.
CancelSave(c) ==
    /\ \/ /\ cpc[c] \in {"save", "savenull"}
          /\ row' = [row EXCEPT ![target[c]] = "CANCELLED"]
          /\ CancelDone(c, "200")
       \/ /\ cpc[c] = "savenull"
          /\ UNCHANGED row
          /\ CancelDone(c, "500")
    /\ UNCHANGED <<catalogue, redis, requests, target>>

\* A statement fails; the UPDATE may have been committed.
CancelFailure(c) ==
    /\ "dberror" \in Faults
    /\ \/ cpc[c] \in {"find", "save", "savenull"} /\ UNCHANGED row
       \/ cpc[c] = "save" /\ row' = [row EXCEPT ![target[c]] = "CANCELLED"]
    /\ CancelDone(c, "500")
    /\ UNCHANGED <<catalogue, redis, requests, target>>

-----------------------------------------------------------------------------
(* Redis, and the other requests that change rooms and departments.        *)

\* Without the fault the time to live is longer than any request.
LockExpires(k) ==
    /\ Lock!Expire(k)
    /\ "earlyexpiry" \in Faults \/ pc[lock[k]] \notin CriticalSection
    /\ UNCHANGED <<catalogue, redisUp, row, requests, cancels>>

RedisGoesDown ==
    /\ "outage" \in Faults /\ redisUp
    /\ redisUp' = FALSE
    /\ UNCHANGED <<catalogue, lock, row, requests, cancels>>

RedisComesBack ==
    /\ ~redisUp
    /\ redisUp' = TRUE
    /\ UNCHANGED <<catalogue, lock, row, requests, cancels>>

\* PATCH /locations/:id. Its save writes the row as it was read, so that one
\* removed since then is back.
UpdateLocation(l) ==
    /\ \E record \in RoomRecords : rooms' = [rooms EXCEPT ![l] = record]
    /\ removed' = removed \ {l}
    /\ UNCHANGED <<departments, redis, row, requests, cancels>>

RemoveLocation(l) ==
    /\ l \in RemovableRooms \ removed
    /\ removed' = removed \cup {l}
    /\ UNCHANGED <<rooms, departments, redis, row, requests, cancels>>

RemoveDepartment(d) ==
    /\ d \in RemovableDepartments \cap departments
    /\ departments' = departments \ {d}
    /\ UNCHANGED <<rooms, removed, redis, row, requests, cancels>>

\* The save of a PATCH that read the department before it was removed.
RestoreDepartment(d) ==
    /\ d \in RemovableDepartments \ departments
    /\ departments' = departments \cup {d}
    /\ UNCHANGED <<rooms, removed, redis, row, requests, cancels>>

\* All requests are answered and no key is left in Redis.
Finished ==
    /\ \A r \in Requests : Settled(r)
    /\ \A c \in Cancels : cpc[c] = "done"
    /\ \A k \in DOMAIN lock : Lock!Free(k)
    /\ UNCHANGED vars

-----------------------------------------------------------------------------

\* Steps that need Postgres and the process only.
DatabaseStep(r) ==
    \/ LoadRoom(r) \/ AssertBusinessRules(r)
    \/ FindOverlap(r) \/ InsertRow(r)
    \/ PassConstraint(r) \/ ExclusionViolation(r) \/ DeadlockDetected(r)
    \/ Commit(r)

FaultStep(r) ==
    \/ LockUnavailable(r) \/ AcquireReplyLost(r) \/ ReleaseReplyLost(r)
    \/ DbFailure(r) \/ Crash(r)

CreateStep(r) == DatabaseStep(r) \/ AcquireLock(r) \/ ReleaseLock(r) \/ FaultStep(r)

CancelStep(c) == (\E b \in Requests : CancelFind(c, b)) \/ CancelSave(c) \/ CancelFailure(c)

EnvironmentStep ==
    \/ \E k \in DOMAIN lock : LockExpires(k)
    \/ RedisGoesDown \/ RedisComesBack
    \/ \E l \in Rooms : UpdateLocation(l) \/ RemoveLocation(l)
    \/ \E d \in Departments : RemoveDepartment(d) \/ RestoreDepartment(d)

Next ==
    \/ \E r \in Requests : CreateStep(r)
    \/ \E c \in Cancels : CancelStep(c)
    \/ EnvironmentStep
    \/ Finished

Spec == Init /\ [][Next]_vars

\* The event loop and Postgres go on with every request. A command waits in the
\* client while the connection is down, and is served once the connection is up
\* often enough. Nothing has to wait for the time to live of a lock.
ServiceFairness ==
    \A r \in Requests :
        /\ WF_vars(DatabaseStep(r))
        /\ SF_vars(AcquireLock(r))
        /\ SF_vars(ReleaseLock(r))

\* Redis may stay down.
OutageSpec == Spec /\ ServiceFairness

\* Every outage ends.
FairSpec == Spec /\ ServiceFairness /\ WF_vars(RedisComesBack)

-----------------------------------------------------------------------------
(* Properties.                                                             *)

TypeOK ==
    /\ rooms \in [Rooms -> RoomRecords]
    /\ removed \subseteq Rooms
    /\ departments \subseteq Departments
    /\ Lock!TypeOK
    /\ redisUp \in BOOLEAN
    /\ row \in [Requests -> {"none", "inserted", "CONFIRMED", "CANCELLED"}]
    /\ dto \in [Requests -> Dtos]
    /\ pc \in [Requests -> Steps]
    /\ seen \in [Requests -> RoomType \cup {NoRoom}]
    /\ holds \in [Requests -> BOOLEAN]
    /\ outcome \in [Requests -> {"none", "201", "400", "404", "409", "500"}]
    /\ cpc \in [Cancels -> {"find", "save", "savenull", "done"}]
    /\ target \in [Cancels -> Requests \cup {NoBooking}]
    /\ coutcome \in [Cancels -> {"none", "200", "404", "500"}]

Confirmed(r) == row[r] = "CONFIRMED"

\* No two confirmed bookings of a room overlap, whatever fails: neither the
\* lock nor findOverlap is needed for it (booking.service.ts, layer 2).
NoDoubleBooking ==
    \A r, s \in Requests : r # s /\ Confirmed(r) /\ Confirmed(s) => ~Overlap(r, s)

\* Every row, up to the cancelled ones, met the rules for the room as it was
\* read while the request ran (assertBusinessRules).
RulesRespected ==
    \A r \in Requests :
        row[r] # "none" =>
            /\ dto[r].start < dto[r].end
            /\ dto[r].dept \in seen[r].departments \/ seen[r].departments = {}
            /\ dto[r].attendees <= seen[r].capacity
            /\ CheckOpenHours(dto[r].start, dto[r].end, seen[r].hours)

\* 201 is answered only with a booking in the table, now or until cancelled;
\* 400, 404 and 409 only when the request has left none and leaves none later.
AnswersAreTrue ==
    \A r \in Requests :
        /\ outcome[r] = "201" => row[r] \in {"CONFIRMED", "CANCELLED"}
        /\ outcome[r] \in {"400", "404", "409"} => row[r] = "none" /\ pc[r] \in {"release", "done", "crashed"}

\* While no answer of Redis is lost (the retry of a SET finds its own key), the
\* step that answers 409 meets another request for the room that has passed the
\* rules: it is the one whose token the key holds, if perhaps dead by now, or it
\* has a confirmed booking that overlaps.
ConflictHasRival ==
    [][\A r \in Requests :
          "outage" \notin Faults /\ outcome'[r] = "409" /\ outcome[r] # "409" =>
              \E s \in Requests \ {r} :
                  /\ lock[LockKey(r)] = s \/ (row[s] = "CONFIRMED" /\ Overlap(r, s))
                  /\ dto[s].room = dto[r].room
                  /\ RoomRules(seen[s], dto[s])]_vars

\* While Redis does not fail, create() leaves its key behind on no way out of its
\* try (a refusal, a wait ended with 40P01, a failed or a committed INSERT): a key
\* is that of a request that still runs the section or comes to release it, or
\* that died. Only the dead leave theirs to the time to live.
LocksAreReleased ==
    Faults \cap {"rediserror", "outage"} = {} =>
        \A k \in DOMAIN lock : lock[k] # NoToken =>
            pc[lock[k]] \in CriticalSection \cup {"release", "crashed"}

\* A booking whose cancellation was answered 200 stays cancelled.
CancelledStays ==
    \A c \in Cancels : coutcome[c] = "200" => row[target[c]] = "CANCELLED"

\* A step of a request takes no lock away from another request that holds it
\* (UNLOCK_SCRIPT): only the time to live does.
LockTakenByOwnerOnly ==
    [][\A r \in Requests, k \in DOMAIN lock :
          pc'[r] # pc[r] /\ lock[k] \notin {r, NoToken} => lock'[k] = lock[k]]_vars

\* While no time to live ends early, a request with a token holds its key at
\* every step up to the release.
HolderKeepsLock ==
    "earlyexpiry" \notin Faults =>
        \A r \in Requests :
            holds[r] /\ pc[r] \in CriticalSection => lock[LockKey(r)] = r

\* No request goes on without the lock or loses it on the way.
LockIsThere == Faults \cap {"rediserror", "earlyexpiry"} = {}

Instants == {d.start : d \in Dtos} \cup {d.end : d \in Dtos}

\* Clients write the start as the wall clock of the zone shows it, and no
\* change of the clocks takes a later instant to an earlier date.
DatesAgree ==
    /\ \A d \in Dtos : ClientDate(d) = WallClockInTz(d.start).date
    /\ \A t, u \in Instants : t <= u => WallClockInTz(t).date <= WallClockInTz(u).date

\* With clients that agree on the date of an instant and a lock that is there
\* and lives long enough, no two requests ever meet at the constraint: the
\* lock and findOverlap alone keep the slots apart (docs/architecture.md).
LockKeepsSlotsApart ==
    LockIsThere /\ DatesAgree =>
        \A r, s \in Requests :
            r # s /\ pc[r] \in {"insert", "check", "commit"} /\ Overlap(r, s)
                => row[s] \notin {"inserted", "CONFIRMED"}

\* "Overlap is rejected either by the Redis lock or, as a backstop, the Postgres
\* EXCLUDE constraint - both map to 409" (api.md:275), on the same conditions: no
\* two INSERTs wait for each other, so while no statement fails by itself nobody is
\* answered 500. Without them Postgres ends one with 40P01, which isExclusionViolation
\* does not know.
OverlapAnswered409 ==
    LockIsThere /\ DatesAgree /\ "dberror" \notin Faults
        => \A r \in Requests : outcome[r] # "500"

\* An uncommitted row is no booking yet.
BookingStatus == [r \in Requests |-> IF row[r] = "inserted" THEN "none" ELSE row[r]]

Calendar == INSTANCE RoomCalendar WITH status <- BookingStatus, answer <- outcome

\* The steps of BookingService are steps of the calendar it promises: each
\* request books in one step or never, and is answered accordingly.
ImplementsCalendar == Calendar!Spec

\* Every booking request ends, though requests may wait for Redis, for each
\* other at the constraint, or for a lock nobody will release.
EveryRequestEnds == \A r \in Requests : <>Settled(r)

-----------------------------------------------------------------------------
(* The inductive invariant of the proofs.                                  *)

\* A row is uncommitted exactly from INSERT to COMMIT, and not there before.
RowMatchesStep ==
    \A r \in Requests :
        /\ pc[r] \in {"load", "rules", "lock", "overlap", "insert"} => row[r] = "none"
        /\ pc[r] \in {"check", "commit"} <=> row[r] = "inserted"

\* No request is answered before its last step, nor wrongly.
AnswerMatchesRow ==
    \A r \in Requests :
        outcome[r] # "none" =>
            /\ pc[r] \in {"release", "done", "crashed"}
            /\ outcome[r] = "201" => row[r] \in {"CONFIRMED", "CANCELLED"}
            /\ outcome[r] \in {"400", "404", "409"} => row[r] = "none"

\* The booking a cancellation has found was committed, and is cancelled when saved.
CancelFoundRow ==
    \A c \in Cancels :
        /\ cpc[c] \in {"save", "savenull"} =>
              target[c] \in Requests /\ row[target[c]] \in {"CONFIRMED", "CANCELLED"}
        /\ coutcome[c] = "200" =>
              cpc[c] = "done" /\ target[c] \in Requests /\ row[target[c]] = "CANCELLED"

\* A slot is claimed by its booking, and already by a request that has passed
\* the constraint and only has to commit.
Claims(r) == row[r] = "CONFIRMED" \/ pc[r] = "commit"

ClaimsDisjoint ==
    \A r, s \in Requests : r # s /\ Claims(r) /\ Claims(s) => ~Overlap(r, s)

BookingInv ==
    TypeOK /\ RowMatchesStep /\ AnswerMatchesRow /\ CancelFoundRow /\ ClaimsDisjoint

\* As HolderKeepsLock, which needs that nobody has a token too early; the lock
\* is skipped only if Redis answers with an error.
LockInv ==
    /\ TypeOK
    /\ \A r \in Requests : pc[r] \in {"load", "rules", "lock"} => ~holds[r]
    /\ "rediserror" \notin Faults => \A r \in Requests : pc[r] \in CriticalSection => holds[r]
    /\ HolderKeepsLock

\* Request s has set key k, which is its own, and was told so.
HasSet(s, k) ==
    /\ LockKey(s) = k
    /\ holds[s]
    /\ RoomRules(seen[s], dto[s])
    /\ pc[s] \notin {"load", "rules", "lock"}

\* As LocksAreReleased: a key in Redis is that of the request that set it, which
\* has its answer unless that was lost.
KeyInv ==
    /\ TypeOK
    /\ "outage" \notin Faults => \A k \in DOMAIN lock : lock[k] # NoToken => HasSet(lock[k], k)
    /\ LocksAreReleased

\* As RulesRespected, from the step that checks the rules.
RulesInv ==
    /\ TypeOK
    /\ RowMatchesStep
    /\ \A r \in Requests :
          pc[r] \in {"lock"} \cup CriticalSection \/ row[r] # "none"
              => RoomRules(seen[r], dto[r])

-----------------------------------------------------------------------------
(* What the documentation says, and the code does not do.                  *)

\* "a Redis outage never blocks bookings" (booking.service.ts:71).
OutageBlocksNoBooking == \A r \in Requests : pc[r] = "lock" ~> pc[r] # "lock"
==============================================================================
