---------------------------- MODULE BookingProofs ----------------------------
(***************************************************************************)
(* Theorems about Booking, for any requests, rooms, bodies and faults.     *)
(***************************************************************************)
EXTENDS Booking, TLAPS

-----------------------------------------------------------------------------
(* Type correctness.                                                       *)

\* What a request keeps of a location is a location as requests see them.
LEMMA LoadedRoomType ==
    ASSUME TypeOK, NEW l \in Rooms
    PROVE  [capacity    |-> rooms[l].capacity,
            departments |-> rooms[l].departments \cap departments,
            hours       |-> rooms[l].hours] \in RoomType
<1>1. rooms[l] \in RoomType
  BY BookingAssumption DEF TypeOK
<1>2. QED
  BY <1>1 DEF TypeOK, RoomType

\* Every step of a booking request keeps the types.
LEMMA CreateStepType ==
    ASSUME TypeOK, NEW r \in Requests, CreateStep(r)
    PROVE  TypeOK'
<1> USE DEF TypeOK, Steps, CriticalSection, Goto, Decide, LeaveTry,
            catalogue, redis, requests, cancels
<1>1. CASE LoadRoom(r)
  <2>1. dto[r].room \in Rooms
    BY BookingAssumption DEF DtoType
  <2>2. [capacity    |-> rooms[dto[r].room].capacity,
         departments |-> rooms[dto[r].room].departments \cap departments,
         hours       |-> rooms[dto[r].room].hours] \in RoomType
    BY <2>1, LoadedRoomType
  <2>3. QED
    BY <1>1, <2>2 DEF LoadRoom, Lock!TypeOK
<1>2. CASE AssertBusinessRules(r)
  BY <1>2 DEF AssertBusinessRules, Lock!TypeOK
<1>3. CASE FindOverlap(r)
  BY <1>3 DEF FindOverlap, Lock!TypeOK
<1>4. CASE InsertRow(r)
  BY <1>4 DEF InsertRow, Lock!TypeOK
<1>5. CASE PassConstraint(r)
  BY <1>5 DEF PassConstraint, Lock!TypeOK
<1>6. CASE ExclusionViolation(r)
  BY <1>6 DEF ExclusionViolation, AbortInsert, Lock!TypeOK
<1>7. CASE DeadlockDetected(r)
  BY <1>7 DEF DeadlockDetected, AbortInsert, Lock!TypeOK
<1>8. CASE Commit(r)
  BY <1>8 DEF Commit, Lock!TypeOK
<1>9. CASE AcquireLock(r)
  BY <1>9 DEF AcquireLock, Lock!TypeOK, Lock!Set, Lock!SetRefused
<1>10. CASE ReleaseLock(r)
  BY <1>10 DEF ReleaseLock, Lock!TypeOK, Lock!Release
<1>11. CASE LockUnavailable(r)
  BY <1>11 DEF LockUnavailable, Lock!TypeOK
<1>12. CASE AcquireReplyLost(r)
  BY <1>12 DEF AcquireReplyLost, Lock!TypeOK, Lock!Set
<1>13. CASE ReleaseReplyLost(r)
  BY <1>13 DEF ReleaseReplyLost, Lock!TypeOK, Lock!Release
<1>14. CASE DbFailure(r)
  BY <1>14 DEF DbFailure, Lock!TypeOK
<1>15. CASE Crash(r)
  BY <1>15 DEF Crash, Lock!TypeOK
<1>16. QED
  BY <1>1, <1>2, <1>3, <1>4, <1>5, <1>6, <1>7, <1>8, <1>9, <1>10, <1>11, <1>12,
     <1>13, <1>14, <1>15 DEF CreateStep, DatabaseStep, FaultStep

\* Every step of a cancellation keeps the types.
LEMMA CancelStepType ==
    ASSUME TypeOK, NEW c \in Cancels, CancelStep(c)
    PROVE  TypeOK'
<1> USE DEF TypeOK, Lock!TypeOK, CancelDone, catalogue, redis, requests
<1>1. CASE \E b \in Requests : CancelFind(c, b)
  BY <1>1 DEF CancelFind
<1>2. CASE CancelSave(c)
  BY <1>2 DEF CancelSave
<1>3. CASE CancelFailure(c)
  BY <1>3 DEF CancelFailure
<1>4. QED
  BY <1>1, <1>2, <1>3 DEF CancelStep

\* Every step of Redis and of the catalogue keeps the types.
LEMMA EnvironmentStepType ==
    ASSUME TypeOK, EnvironmentStep
    PROVE  TypeOK'
<1> USE DEF TypeOK, Lock!TypeOK, catalogue, redis, requests, cancels
<1>1. CASE \E k \in DOMAIN lock : LockExpires(k)
  BY <1>1 DEF LockExpires, Lock!Expire
<1>2. CASE RedisGoesDown \/ RedisComesBack
  BY <1>2 DEF RedisGoesDown, RedisComesBack
<1>3. ASSUME NEW l \in Rooms, UpdateLocation(l) PROVE TypeOK'
  BY <1>3 DEF UpdateLocation
<1>4. ASSUME NEW l \in Rooms, RemoveLocation(l) PROVE TypeOK'
  BY <1>4 DEF RemoveLocation
<1>5. ASSUME NEW d \in Departments, RemoveDepartment(d) \/ RestoreDepartment(d) PROVE TypeOK'
  BY <1>5 DEF RemoveDepartment, RestoreDepartment
<1>6. QED
  BY <1>1, <1>2, <1>3, <1>4, <1>5 DEF EnvironmentStep

LEMMA InitType == Init => TypeOK
BY DEF Init, TypeOK, Lock!Init, Lock!TypeOK, Steps

LEMMA NextType == TypeOK /\ [Next]_vars => TypeOK'
<1> SUFFICES ASSUME TypeOK, [Next]_vars PROVE TypeOK'
  OBVIOUS
<1>1. CASE UNCHANGED vars
  BY <1>1 DEF TypeOK, Lock!TypeOK, vars, catalogue, redis, requests, cancels
<1>2. CASE Finished
  BY <1>1, <1>2 DEF Finished
<1>3. QED
  BY <1>1, <1>2, CreateStepType, CancelStepType, EnvironmentStepType DEF Next

\* The variables keep their types, for any instance of the system.
THEOREM TypeCorrect == Spec => []TypeOK
BY InitType, NextType, PTL DEF Spec

-----------------------------------------------------------------------------
(* The inductive invariant.                                                *)

\* Two slots overlap whichever is named first, and bodies never change.
LEMMA OverlapSymmetric ==
    ASSUME TypeOK, NEW r \in Requests, NEW s \in Requests
    PROVE  Overlap(r, s) <=> Overlap(s, r)
BY BookingAssumption DEF TypeOK, Overlap, DtoType

LEMMA InitBookingInv == Init => BookingInv
BY InitType DEF Init, BookingInv, RowMatchesStep, AnswerMatchesRow, CancelFoundRow,
                ClaimsDisjoint, Claims

\* Every step of a booking request keeps the inductive invariant. Only
\* PassConstraint makes a claim, and it has found no other one.
LEMMA CreateStepInv ==
    ASSUME BookingInv, TypeOK', NEW r \in Requests, CreateStep(r)
    PROVE  BookingInv'
<1> USE DEF BookingInv, RowMatchesStep, AnswerMatchesRow, CancelFoundRow, ClaimsDisjoint, Claims,
            Goto, Decide, LeaveTry, catalogue, redis, requests, cancels
<1>0. ASSUME UNCHANGED dto, NEW a \in Requests, NEW b \in Requests
      PROVE  Overlap(a, b)' <=> Overlap(a, b)
  BY <1>0 DEF Overlap
<1> HIDE DEF Overlap
<1>1. CASE LoadRoom(r)
  BY <1>0, <1>1 DEF LoadRoom, TypeOK
<1>2. CASE AssertBusinessRules(r)
  BY <1>0, <1>2 DEF AssertBusinessRules, TypeOK
<1>3. CASE FindOverlap(r)
  BY <1>0, <1>3 DEF FindOverlap, TypeOK
<1>4. CASE InsertRow(r)
  BY <1>0, <1>4 DEF InsertRow, TypeOK
<1>5. CASE PassConstraint(r)
  BY <1>0, <1>5, OverlapSymmetric DEF PassConstraint, Rivals, TypeOK
<1>6. CASE ExclusionViolation(r)
  BY <1>0, <1>6 DEF ExclusionViolation, AbortInsert, TypeOK
<1>7. CASE DeadlockDetected(r)
  BY <1>0, <1>7 DEF DeadlockDetected, AbortInsert, TypeOK
<1>8. CASE Commit(r)
  BY <1>0, <1>8 DEF Commit, TypeOK
<1>9. CASE AcquireLock(r)
  BY <1>0, <1>9 DEF AcquireLock, TypeOK
<1>10. CASE ReleaseLock(r)
  BY <1>0, <1>10 DEF ReleaseLock, TypeOK
<1>11. CASE LockUnavailable(r)
  BY <1>0, <1>11 DEF LockUnavailable, TypeOK
<1>12. CASE AcquireReplyLost(r)
  BY <1>0, <1>12 DEF AcquireReplyLost, TypeOK
<1>13. CASE ReleaseReplyLost(r)
  BY <1>0, <1>13 DEF ReleaseReplyLost, TypeOK
<1>14. CASE DbFailure(r)
  BY <1>0, <1>14 DEF DbFailure, CriticalSection, TypeOK
<1>15. CASE Crash(r)
  BY <1>0, <1>15 DEF Crash, Settled, TypeOK
<1>16. QED
  BY <1>1, <1>2, <1>3, <1>4, <1>5, <1>6, <1>7, <1>8, <1>9, <1>10, <1>11, <1>12,
     <1>13, <1>14, <1>15 DEF CreateStep, DatabaseStep, FaultStep

\* Every step of a cancellation keeps the inductive invariant: it only turns
\* a committed row into a cancelled one.
LEMMA CancelStepInv ==
    ASSUME BookingInv, TypeOK', NEW c \in Cancels, CancelStep(c)
    PROVE  BookingInv'
<1> USE DEF BookingInv, RowMatchesStep, AnswerMatchesRow, CancelFoundRow, ClaimsDisjoint, Claims,
            CancelDone, catalogue, redis, requests
<1>0. ASSUME UNCHANGED dto, NEW a \in Requests, NEW b \in Requests
      PROVE  Overlap(a, b)' <=> Overlap(a, b)
  BY <1>0 DEF Overlap
<1>1. ASSUME NEW b \in Requests, CancelFind(c, b)
      PROVE  BookingInv'
  BY <1>0, <1>1 DEF CancelFind, TypeOK
<1>2. CASE CancelSave(c)
  BY <1>0, <1>2 DEF CancelSave, TypeOK
<1>3. CASE CancelFailure(c)
  BY <1>0, <1>3 DEF CancelFailure, TypeOK
<1>4. QED
  BY <1>1, <1>2, <1>3 DEF CancelStep

\* Steps of Redis and of the catalogue touch neither rows nor requests.
LEMMA EnvironmentStepInv ==
    ASSUME BookingInv, TypeOK', EnvironmentStep \/ UNCHANGED vars
    PROVE  BookingInv'
<1>1. UNCHANGED <<row, requests, cancels>>
  BY DEF EnvironmentStep, LockExpires, RedisGoesDown, RedisComesBack, UpdateLocation,
         RemoveLocation, RemoveDepartment, RestoreDepartment, vars
<1>2. QED
  BY <1>1 DEF BookingInv, RowMatchesStep, AnswerMatchesRow, CancelFoundRow, ClaimsDisjoint,
              Claims, Overlap, requests, cancels

LEMMA NextBookingInv == BookingInv /\ [Next]_vars => BookingInv'
<1> SUFFICES ASSUME BookingInv, [Next]_vars PROVE BookingInv'
  OBVIOUS
<1>1. TypeOK'
  BY NextType DEF BookingInv
<1>2. QED
  BY <1>1, CreateStepInv, CancelStepInv, EnvironmentStepInv DEF Next, Finished

THEOREM BookingInvariant == Spec => []BookingInv
BY InitBookingInv, NextBookingInv, PTL DEF Spec

\* No two confirmed bookings of a room ever overlap, for any number of
\* requests and cancellations, and whichever faults happen.
THEOREM NoDoubleBookingHolds == Spec => []NoDoubleBooking
<1>1. BookingInv => NoDoubleBooking
  BY DEF BookingInv, ClaimsDisjoint, Claims, NoDoubleBooking, Confirmed
<1>2. QED
  BY <1>1, BookingInvariant, PTL

\* An answer of 201 comes with a booking, one of 400, 404 or 409 with none.
THEOREM AnswersAreTrueHolds == Spec => []AnswersAreTrue
<1>1. BookingInv => AnswersAreTrue
  BY DEF BookingInv, AnswerMatchesRow, AnswersAreTrue
<1>2. QED
  BY <1>1, BookingInvariant, PTL

\* A booking whose cancellation was confirmed to the client stays cancelled.
THEOREM CancelledStaysHolds == Spec => []CancelledStays
<1>1. BookingInv => CancelledStays
  BY DEF BookingInv, CancelFoundRow, CancelledStays
<1>2. QED
  BY <1>1, BookingInvariant, PTL

-----------------------------------------------------------------------------
(* The Redis lock.                                                         *)

\* A step of a request takes a lock from nobody but itself.
THEOREM LockTakenByOwnerOnlyHolds == Spec => LockTakenByOwnerOnly
<1>1. ASSUME TypeOK, [Next]_vars
      PROVE  [\A r \in Requests, k \in DOMAIN lock :
                 pc'[r] # pc[r] /\ lock[k] \notin {r, NoToken} => lock'[k] = lock[k]]_vars
  <2> SUFFICES ASSUME NEW r \in Requests, NEW k \in DOMAIN lock,
                      pc'[r] # pc[r], lock[k] # r, lock[k] # NoToken
               PROVE  lock'[k] = lock[k]
    OBVIOUS
  <2>1. ASSUME NEW s \in Requests, CreateStep(s)
        PROVE  s = r
    BY <1>1, <2>1 DEF TypeOK, CreateStep, DatabaseStep, FaultStep, LoadRoom, AssertBusinessRules,
       FindOverlap, InsertRow, PassConstraint, ExclusionViolation, DeadlockDetected, AbortInsert,
       Commit, AcquireLock, ReleaseLock, LockUnavailable, AcquireReplyLost, ReleaseReplyLost,
       DbFailure, Crash, Goto, requests
  <2>2. CASE CreateStep(r)
    BY <1>1, <2>2 DEF TypeOK, Lock!TypeOK, CreateStep, DatabaseStep, FaultStep, LoadRoom,
       AssertBusinessRules, FindOverlap, InsertRow, PassConstraint, ExclusionViolation,
       DeadlockDetected, AbortInsert, Commit, AcquireLock, ReleaseLock, LockUnavailable,
       AcquireReplyLost, ReleaseReplyLost, DbFailure, Crash, Lock!Set, Lock!SetRefused,
       Lock!Free, Lock!Release, redis
  <2>3. ASSUME NEW c \in Cancels, CancelStep(c)
        PROVE  FALSE
    BY <2>3 DEF CancelStep, CancelFind, CancelSave, CancelFailure, requests
  <2>4. CASE EnvironmentStep \/ Finished \/ UNCHANGED vars
    BY <2>4 DEF EnvironmentStep, LockExpires, RedisGoesDown, RedisComesBack, UpdateLocation,
       RemoveLocation, RemoveDepartment, RestoreDepartment, Finished, vars, requests
  <2>5. QED
    BY <1>1, <2>1, <2>2, <2>3, <2>4 DEF Next
<1>2. QED
  BY <1>1, TypeCorrect, PTL DEF Spec, LockTakenByOwnerOnly

LEMMA InitLockInv == Init => LockInv
BY InitType DEF Init, LockInv, HolderKeepsLock, CriticalSection

\* A request that changes the lock key of another one would have to find it
\* free or hold it itself; LockExpires leaves the keys of running requests.
LEMMA NextLockInv == LockInv /\ [Next]_vars => LockInv'
<1> SUFFICES ASSUME LockInv, [Next]_vars PROVE LockInv'
  OBVIOUS
<1> USE DEF LockInv, HolderKeepsLock, CriticalSection, LockKey, Goto, LeaveTry
<1>1. TypeOK'
  BY NextType
<1>2. ASSUME NEW r \in Requests, CreateStep(r)
      PROVE  LockInv'
  <2>1. CASE LoadRoom(r) \/ AssertBusinessRules(r) \/ FindOverlap(r) \/ InsertRow(r)
             \/ PassConstraint(r) \/ Commit(r) \/ LockUnavailable(r)
    BY <1>1, <2>1 DEF LoadRoom, AssertBusinessRules, FindOverlap, InsertRow, PassConstraint,
                      Commit, LockUnavailable, TypeOK, redis
  <2>2. CASE ExclusionViolation(r) \/ DeadlockDetected(r)
    BY <1>1, <2>2 DEF ExclusionViolation, DeadlockDetected, AbortInsert, TypeOK, redis
  <2>3. CASE AcquireLock(r)
    BY <1>1, <2>3, BookingAssumption DEF AcquireLock, Lock!Set, Lock!SetRefused, Lock!Free, TypeOK, Lock!TypeOK
  <2>4. CASE ReleaseLock(r)
    BY <1>1, <2>4 DEF ReleaseLock, Lock!Release, TypeOK, Lock!TypeOK
  <2>5. CASE AcquireReplyLost(r)
    BY <1>1, <2>5, BookingAssumption DEF AcquireReplyLost, Lock!Set, Lock!Free, TypeOK, Lock!TypeOK, requests
  <2>6. CASE ReleaseReplyLost(r)
    BY <1>1, <2>6 DEF ReleaseReplyLost, Lock!Release, TypeOK, Lock!TypeOK, requests
  <2>7. CASE DbFailure(r)
    BY <1>1, <2>7 DEF DbFailure, TypeOK, redis
  <2>8. CASE Crash(r)
    BY <1>1, <2>8 DEF Crash, TypeOK, redis
  <2>9. QED
    BY <1>2, <2>1, <2>2, <2>3, <2>4, <2>5, <2>6, <2>7, <2>8
       DEF CreateStep, DatabaseStep, FaultStep
<1>3. ASSUME NEW k \in DOMAIN lock, LockExpires(k)
      PROVE  LockInv'
  BY <1>1, <1>3 DEF LockExpires, Lock!Expire, Lock!Free, TypeOK, Lock!TypeOK, requests
<1>4. CASE UNCHANGED <<lock, requests>>
  BY <1>1, <1>4 DEF requests
<1>5. ASSUME NEW c \in Cancels, CancelStep(c)
      PROVE  UNCHANGED <<lock, requests>>
  BY <1>5 DEF CancelStep, CancelFind, CancelSave, CancelFailure, redis
<1>6. CASE EnvironmentStep
  BY <1>3, <1>4, <1>6 DEF EnvironmentStep, RedisGoesDown, RedisComesBack, UpdateLocation,
                          RemoveLocation, RemoveDepartment, RestoreDepartment, redis
<1>7. CASE Finished \/ UNCHANGED vars
  BY <1>4, <1>7 DEF Finished, vars, redis
<1>8. QED
  BY <1>2, <1>4, <1>5, <1>6, <1>7 DEF Next

LEMMA LockInvariant == Spec => []LockInv
BY InitLockInv, NextLockInv, PTL DEF Spec

\* As long as no time to live ends early, a request that was given a token
\* holds its key up to the release, whoever else asks, fails or dies.
THEOREM HolderKeepsLockHolds == Spec => []HolderKeepsLock
<1>1. LockInv => HolderKeepsLock
  BY DEF LockInv
<1>2. QED
  BY <1>1, LockInvariant, PTL

-----------------------------------------------------------------------------
(* The business rules.                                                     *)

LEMMA NextRulesInv == BookingInv /\ BookingInv' /\ RulesInv /\ [Next]_vars => RulesInv'
<1> SUFFICES ASSUME BookingInv, BookingInv', RulesInv, [Next]_vars PROVE RulesInv'
  OBVIOUS
<1> USE DEF RulesInv, RowMatchesStep, CriticalSection, Goto, LeaveTry
<1>1. TypeOK' /\ RowMatchesStep'
  BY DEF BookingInv
<1>2. ASSUME NEW r \in Requests, CreateStep(r)
      PROVE  RulesInv'
  <2>1. CASE LoadRoom(r)
    BY <1>1, <2>1 DEF LoadRoom, TypeOK
  <2>2. CASE AssertBusinessRules(r)
    BY <1>1, <2>2 DEF AssertBusinessRules, TypeOK
  <2>3. CASE AcquireLock(r) \/ ReleaseLock(r) \/ LockUnavailable(r)
             \/ AcquireReplyLost(r) \/ ReleaseReplyLost(r)
    BY <1>1, <2>3 DEF AcquireLock, ReleaseLock, LockUnavailable, AcquireReplyLost,
                      ReleaseReplyLost, TypeOK, requests
  <2>4. CASE FindOverlap(r) \/ InsertRow(r) \/ PassConstraint(r) \/ Commit(r)
    BY <1>1, <2>4 DEF FindOverlap, InsertRow, PassConstraint, Commit, TypeOK
  <2>5. CASE ExclusionViolation(r) \/ DeadlockDetected(r)
    BY <1>1, <2>5 DEF ExclusionViolation, DeadlockDetected, AbortInsert, TypeOK
  <2>6. CASE DbFailure(r) \/ Crash(r)
    BY <1>1, <2>6 DEF DbFailure, Crash, Settled, TypeOK
  <2>7. QED
    BY <1>2, <2>1, <2>2, <2>3, <2>4, <2>5, <2>6 DEF CreateStep, DatabaseStep, FaultStep
<1>3. ASSUME NEW c \in Cancels, CancelStep(c)
      PROVE  RulesInv'
  BY <1>1, <1>3 DEF CancelStep, CancelFind, CancelSave, CancelFailure, BookingInv,
                    CancelFoundRow, TypeOK, requests
<1>4. CASE EnvironmentStep \/ Finished \/ UNCHANGED vars
  BY <1>1, <1>4 DEF EnvironmentStep, LockExpires, RedisGoesDown, RedisComesBack, UpdateLocation,
                    RemoveLocation, RemoveDepartment, RestoreDepartment, Finished, vars, requests
<1>5. QED
  BY <1>2, <1>3, <1>4 DEF Next

LEMMA RulesInvariant == Spec => []RulesInv
<1>1. Init => RulesInv
  BY InitBookingInv DEF Init, BookingInv, RulesInv, CriticalSection
<1>2. QED
  BY <1>1, NextRulesInv, BookingInvariant, PTL DEF Spec

\* Whatever changes in the catalogue meanwhile, each row met the rules for
\* the room as its request had read it.
THEOREM RulesRespectedHolds == Spec => []RulesRespected
<1>1. RulesInv => RulesRespected
  BY DEF RulesInv, RulesRespected, RoomRules
<1>2. QED
  BY <1>1, RulesInvariant, PTL

-----------------------------------------------------------------------------
(* Who meets whom.                                                         *)

LEMMA InitKeyInv == Init => KeyInv
BY InitType DEF Init, KeyInv, LocksAreReleased, Lock!Init

\* A request keeps what it has when it sets its key, and comes by the release.
LEMMA NextKeyInv == RulesInv /\ KeyInv /\ [Next]_vars => KeyInv'
<1> SUFFICES ASSUME RulesInv, KeyInv, [Next]_vars, "outage" \notin Faults PROVE KeyInv'
  BY NextType DEF KeyInv, LocksAreReleased
<1>1. TypeOK'
  BY NextType DEF KeyInv
<1> DEFINE Runs(x) == x \in CriticalSection \cup {"release", "crashed"}
<1>2. ASSUME NEW r \in Requests, CreateStep(r)
      PROVE  /\ UNCHANGED dto
             /\ \A s \in Requests \ {r} : pc'[s] = pc[s] /\ holds'[s] = holds[s] /\ seen'[s] = seen[s]
             /\ pc[r] \notin {"load", "rules", "lock"} =>
                    /\ pc'[r] \notin {"load", "rules", "lock"}
                    /\ holds'[r] = holds[r] /\ seen'[r] = seen[r]
             /\ holds[r] /\ Runs(pc[r]) /\ ~Runs(pc'[r]) => ReleaseLock(r)
  <2> USE DEF Goto, Decide, LeaveTry, CriticalSection, requests, KeyInv, TypeOK
  <2>1. CASE LoadRoom(r) \/ AssertBusinessRules(r) \/ FindOverlap(r) \/ InsertRow(r)
             \/ PassConstraint(r) \/ Commit(r)
    BY <2>1 DEF LoadRoom, AssertBusinessRules, FindOverlap, InsertRow, PassConstraint, Commit
  <2>2. CASE ExclusionViolation(r) \/ DeadlockDetected(r)
    BY <2>2 DEF ExclusionViolation, DeadlockDetected, AbortInsert
  <2>3. CASE AcquireLock(r) \/ LockUnavailable(r) \/ AcquireReplyLost(r)
    BY <2>3 DEF AcquireLock, LockUnavailable, AcquireReplyLost
  <2>4. CASE ReleaseLock(r) \/ ReleaseReplyLost(r)
    BY <2>4 DEF ReleaseLock, ReleaseReplyLost
  <2>5. CASE DbFailure(r) \/ Crash(r)
    BY <2>5 DEF DbFailure, Crash, Settled
  <2> QED BY <1>2, <2>1, <2>2, <2>3, <2>4, <2>5 DEF CreateStep, DatabaseStep, FaultStep
<1>3. ASSUME NEW r \in Requests, CreateStep(r), NEW k \in DOMAIN lock, lock'[k] # lock[k],
             lock'[k] # NoToken
      PROVE  lock'[k] = r /\ HasSet(r, k)' /\ pc'[r] = "overlap"
  <2>1. AcquireLock(r)
    BY <1>3 DEF CreateStep, DatabaseStep, FaultStep, LoadRoom, AssertBusinessRules, FindOverlap,
       InsertRow, PassConstraint, ExclusionViolation, DeadlockDetected, AbortInsert, Commit,
       ReleaseLock, LockUnavailable, AcquireReplyLost, ReleaseReplyLost, DbFailure, Crash,
       redis, Lock!Release, KeyInv, TypeOK, Lock!TypeOK
  <2>2. /\ k = LockKey(r) /\ lock'[k] = r /\ pc'[r] = "overlap" /\ holds'[r]
        /\ pc[r] = "lock" /\ UNCHANGED <<dto, seen>>
    BY <1>3, <2>1 DEF AcquireLock, Goto, Lock!Set, Lock!SetRefused, KeyInv, TypeOK, Lock!TypeOK
  <2>3. RoomRules(seen[r], dto[r])
    BY <2>2 DEF RulesInv
  <2> QED BY <2>2, <2>3 DEF HasSet, LockKey
<1>4. ASSUME NEW r \in Requests, CreateStep(r) PROVE KeyInv'
  <2>1. ASSUME NEW k \in DOMAIN lock, NEW s, lock'[k] = s, s # NoToken
        PROVE  /\ HasSet(s, k)'
               /\ Faults \cap {"rediserror", "outage"} = {} => Runs(pc'[s])
    <3>1. s \in Requests
      BY <1>1, <2>1 DEF KeyInv, TypeOK, Lock!TypeOK
    <3>2. CASE lock[k] = s
      <4>1. HasSet(s, k)
        BY <2>1, <3>2 DEF KeyInv
      <4>2. HasSet(s, k)'
        BY <1>2, <1>4, <3>1, <4>1 DEF HasSet, LockKey
      <4>3. ASSUME Faults \cap {"rediserror", "outage"} = {}, ~Runs(pc'[s])
            PROVE  FALSE
        <5>1. Runs(pc[s])
          BY <2>1, <3>2, <4>3 DEF KeyInv, LocksAreReleased
        <5>2. s = r /\ ReleaseLock(r) /\ k = LockKey(r)
          BY <1>2, <1>4, <3>1, <4>1, <4>3, <5>1 DEF HasSet
        <5>3. lock'[k] = NoToken
          BY <3>2, <4>3, <5>2 DEF ReleaseLock, Lock!Release, KeyInv, TypeOK, Lock!TypeOK
        <5> QED BY <2>1, <5>3
      <4> QED BY <4>2, <4>3
    <3>3. CASE lock[k] # s
      BY <1>3, <1>4, <2>1, <3>3 DEF CriticalSection
    <3> QED BY <3>2, <3>3
  <2>2. DOMAIN lock' = DOMAIN lock
    BY <1>1 DEF KeyInv, TypeOK, Lock!TypeOK
  <2> HIDE DEF Runs
  <2>3. \A k \in DOMAIN lock : lock'[k] # NoToken => HasSet(lock[k], k)'
    BY <2>1
  <2>4. Faults \cap {"rediserror", "outage"} = {} =>
            \A k \in DOMAIN lock : lock'[k] # NoToken => Runs(pc'[lock'[k]])
    BY <2>1
  <2>5. LocksAreReleased'
    BY <2>2, <2>4 DEF LocksAreReleased, Runs
  <2> QED BY <1>1, <2>2, <2>3, <2>5 DEF KeyInv
<1>5. CASE UNCHANGED <<lock, requests>>
  BY <1>1, <1>5 DEF KeyInv, LocksAreReleased, HasSet, LockKey, requests
<1>6. ASSUME NEW k \in DOMAIN lock, LockExpires(k) PROVE KeyInv'
  <2>1. /\ UNCHANGED requests /\ DOMAIN lock' = DOMAIN lock
        /\ \A j \in DOMAIN lock : lock'[j] # NoToken => lock'[j] = lock[j]
    BY <1>6 DEF LockExpires, Lock!Expire
  <2> QED BY <1>1, <2>1 DEF KeyInv, LocksAreReleased, HasSet, LockKey, requests
<1>7. ASSUME NEW c \in Cancels, CancelStep(c) PROVE KeyInv'
  BY <1>5, <1>7 DEF CancelStep, CancelFind, CancelSave, CancelFailure, redis
<1>8. CASE EnvironmentStep \/ Finished \/ UNCHANGED vars
  BY <1>5, <1>6, <1>8 DEF EnvironmentStep, RedisGoesDown, RedisComesBack, UpdateLocation,
     RemoveLocation, RemoveDepartment, RestoreDepartment, Finished, vars, redis
<1> QED BY <1>4, <1>7, <1>8 DEF Next

LEMMA KeyInvariant == Spec => []KeyInv
BY InitKeyInv, NextKeyInv, RulesInvariant, PTL DEF Spec

\* While Redis works, every way out of the try releases the key: a key left to
\* its time to live is that of a process that died.
THEOREM LocksAreReleasedHolds == Spec => []LocksAreReleased
<1>1. KeyInv => LocksAreReleased
  BY DEF KeyInv
<1> QED BY <1>1, KeyInvariant, PTL

\* A request is refused for a conflict only on meeting another one that has
\* passed the rules of its room, as long as Redis loses no answer.
THEOREM ConflictHasRivalHolds == Spec => ConflictHasRival
<1> DEFINE Rival(r, s) ==
        /\ s # r
        /\ lock[LockKey(r)] = s \/ (row[s] = "CONFIRMED" /\ Overlap(r, s))
        /\ dto[s].room = dto[r].room
        /\ RoomRules(seen[s], dto[s])
<1>1. ASSUME RulesInv, KeyInv, [Next]_vars, NEW r \in Requests, "outage" \notin Faults,
             outcome'[r] = "409", outcome[r] # "409"
      PROVE  \E s \in Requests : Rival(r, s)
  <2>1. PICK q \in Requests : CreateStep(q)
    BY <1>1 DEF Next, CancelStep, CancelFind, CancelSave, CancelFailure, EnvironmentStep,
       LockExpires, RedisGoesDown, RedisComesBack, UpdateLocation, RemoveLocation,
       RemoveDepartment, RestoreDepartment, Finished, vars, requests
  <2>2. q = r /\ (AcquireLock(r) \/ FindOverlap(r) \/ ExclusionViolation(r))
    BY <1>1, <2>1 DEF CreateStep, DatabaseStep, FaultStep, LoadRoom, AssertBusinessRules,
       FindOverlap, InsertRow, PassConstraint, ExclusionViolation, DeadlockDetected, AbortInsert,
       Commit, AcquireLock, ReleaseLock, LockUnavailable, AcquireReplyLost, ReleaseReplyLost,
       DbFailure, Crash, Decide, requests, RulesInv, TypeOK
  <2>3. CASE AcquireLock(r)
    <3>1. LockKey(r) \in DOMAIN lock /\ lock[LockKey(r)] # NoToken /\ pc[r] = "lock"
      BY <1>1, <2>3 DEF AcquireLock, Lock!SetRefused, Lock!Free, Goto, LockKey,
                        KeyInv, TypeOK, Lock!TypeOK
    <3>2. PICK s \in Requests : lock[LockKey(r)] = s /\ HasSet(s, LockKey(r))
      BY <1>1, <3>1 DEF KeyInv, TypeOK, Lock!TypeOK
    <3>3. s # r /\ dto[s].room = dto[r].room /\ RoomRules(seen[s], dto[s])
      BY <3>1, <3>2 DEF HasSet, LockKey, LockKeyOf
    <3> QED BY <3>2, <3>3
  <2>4. CASE FindOverlap(r) \/ ExclusionViolation(r)
    <3>1. PICK s \in Requests : row[s] = "CONFIRMED" /\ Overlap(r, s)
      BY <1>1, <2>4 DEF FindOverlap, ExclusionViolation
    <3>2. row[r] # "CONFIRMED"
      BY <1>1, <2>4 DEF FindOverlap, ExclusionViolation, AbortInsert, Goto, RulesInv, RowMatchesStep
    <3>3. RoomRules(seen[s], dto[s])
      BY <1>1, <3>1 DEF RulesInv
    <3>4. Rival(r, s)
      BY <3>1, <3>2, <3>3 DEF Overlap
    <3> QED BY <3>4
  <2> QED BY <2>2, <2>3, <2>4
<1>2. RulesInv /\ KeyInv /\ [Next]_vars =>
        [\A r \in Requests :
            "outage" \notin Faults /\ outcome'[r] = "409" /\ outcome[r] # "409" =>
                \E s \in Requests \ {r} :
                    /\ lock[LockKey(r)] = s \/ (row[s] = "CONFIRMED" /\ Overlap(r, s))
                    /\ dto[s].room = dto[r].room
                    /\ RoomRules(seen[s], dto[s])]_vars
  BY <1>1
<1> QED BY <1>2, RulesInvariant, KeyInvariant, PTL DEF Spec, ConflictHasRival

-----------------------------------------------------------------------------
(* The lock and findOverlap without the constraint.                        *)

LEMMA ClientDateInt ==
    ASSUME NEW d \in DtoType
    PROVE  ClientDate(d) \in Int
<1>1. d.start + d.offset \in Int /\ DayLength \in Nat \ {0}
  BY ClockAssumption DEF DtoType, DayLength
<1> QED BY <1>1 DEF ClientDate

\* Dates agree wherever no change of the clocks shows a later instant as an
\* earlier local time, for clients that write the start in the zone's own offset:
\* the condition of LockKeepsSlotsApart is not about the lengths of days.
THEOREM DatesAgreeWithoutSetback ==
    ASSUME \A t \in Instants : UtcOffset(t) \in Int,
           \A t, u \in Instants : t <= u => Local(t) <= Local(u),
           \A d \in Dtos : d.offset = UtcOffset(d.start)
    PROVE  DatesAgree
<1>1. DayLength \in Nat \ {0}
  BY ClockAssumption DEF DayLength
<1>2. \A t : WallClockInTz(t).date = Local(t) \div DayLength
  BY DEF WallClockInTz
<1>3. \A d \in Dtos : ClientDate(d) = WallClockInTz(d.start).date
  BY <1>2 DEF ClientDate, Local
<1>4. ASSUME NEW t \in Instants, NEW u \in Instants, t <= u
      PROVE  WallClockInTz(t).date <= WallClockInTz(u).date
  <2>1. t \in Int /\ u \in Int
    BY BookingAssumption DEF Instants, DtoType
  <2>2. Local(t) \in Int /\ Local(u) \in Int /\ Local(t) <= Local(u)
    BY <1>4, <2>1 DEF Local
  <2>3. ASSUME NEW x \in Int, NEW y \in Int, x <= y, NEW n \in Nat \ {0}
        PROVE  x \div n <= y \div n
    BY <2>3
  <2>4. Local(t) \div DayLength <= Local(u) \div DayLength
    BY <1>1, <2>2, <2>3
  <2> QED BY <1>2, <2>4
<1> QED BY <1>3, <1>4 DEF DatesAgree

\* Bodies that pass the rules and overlap have one lock key: each stays within
\* one date, and the dates of an overlap can only be the same.
LEMMA OverlapSharesKey ==
    ASSUME TypeOK, DatesAgree, NEW r \in Requests, NEW s \in Requests, Overlap(r, s),
           RoomRules(seen[r], dto[r]), RoomRules(seen[s], dto[s])
    PROVE  LockKey(r) = LockKey(s)
<1> DEFINE date(t) == WallClockInTz(t).date
<1>1. /\ date(dto[r].start) = date(dto[r].end)
      /\ date(dto[s].start) = date(dto[s].end)
  BY DEF RoomRules, CheckOpenHours
<1>2. /\ dto[r] \in Dtos /\ dto[s] \in Dtos /\ dto[r] \in DtoType /\ dto[s] \in DtoType
      /\ dto[r].start \in Int /\ dto[r].end \in Int /\ dto[s].start \in Int /\ dto[s].end \in Int
  BY BookingAssumption DEF TypeOK, DtoType
<1>3. {dto[r].start, dto[r].end, dto[s].start, dto[s].end} \subseteq Instants
  BY <1>2 DEF Instants
<1>4. dto[r].start <= dto[s].end /\ dto[s].start <= dto[r].end
  BY <1>2 DEF Overlap
<1>5. date(dto[r].start) <= date(dto[s].end) /\ date(dto[s].start) <= date(dto[r].end)
  BY <1>3, <1>4 DEF DatesAgree
<1>6. ClientDate(dto[r]) = date(dto[r].start) /\ ClientDate(dto[s]) = date(dto[s].start)
  BY <1>2 DEF DatesAgree
<1>7. ClientDate(dto[r]) \in Int /\ ClientDate(dto[s]) \in Int
  BY <1>2, ClientDateInt
<1>8. ClientDate(dto[r]) = ClientDate(dto[s])
  <2> HIDE DEF date
  <2> QED BY <1>1, <1>5, <1>6, <1>7
<1> QED BY <1>8 DEF Overlap, LockKey, LockKeyOf

\* Two overlapping requests are never both between the answer of SET and the
\* release.
SectionsApart ==
    LockIsThere /\ DatesAgree =>
        \A r, s \in Requests :
            r # s /\ Overlap(r, s) /\ pc[r] \in CriticalSection => pc[s] \notin CriticalSection

LEMMA SectionsAreApart == LockInv /\ RulesInv => SectionsApart
<1> SUFFICES ASSUME LockInv, RulesInv, LockIsThere, DatesAgree,
                    NEW r \in Requests, NEW s \in Requests, r # s, Overlap(r, s),
                    pc[r] \in CriticalSection, pc[s] \in CriticalSection
             PROVE  FALSE
  BY DEF SectionsApart
<1>1. RoomRules(seen[r], dto[r]) /\ RoomRules(seen[s], dto[s])
  BY DEF RulesInv
<1>2. LockKey(r) = LockKey(s)
  BY <1>1, OverlapSharesKey DEF RulesInv
<1>3. lock[LockKey(r)] = r /\ lock[LockKey(s)] = s
  BY DEF LockInv, LockIsThere, HolderKeepsLock
<1> QED BY <1>2, <1>3

\* findOverlap lets a request pass only while no rival is confirmed, and none
\* can be before it leaves the section.
LEMMA NextSlotsApart ==
    ASSUME RulesInv, RulesInv', SectionsApart, SectionsApart', LockKeepsSlotsApart, [Next]_vars
    PROVE  LockKeepsSlotsApart'
<1> SUFFICES ASSUME LockIsThere, DatesAgree, NEW r \in Requests, NEW s \in Requests,
                    r # s, pc'[r] \in {"insert", "check", "commit"}, Overlap(r, s)'
             PROVE  row'[s] # "inserted" /\ row'[s] # "CONFIRMED"
  BY DEF LockKeepsSlotsApart, DatesAgree, LockIsThere
<1>1. row'[s] # "inserted"
  <2>1. pc'[s] \notin CriticalSection
    BY DEF SectionsApart, CriticalSection, DatesAgree, LockIsThere
  <2> QED BY <2>1 DEF RulesInv, RowMatchesStep, CriticalSection
<1>2. ASSUME NEW q \in Requests, CreateStep(q)
      PROVE  /\ UNCHANGED dto
             /\ \A p \in Requests \ {q} : pc'[p] = pc[p] /\ row'[p] = row[p]
             /\ row'[q] = "CONFIRMED" => row[q] = "CONFIRMED" \/ pc[q] = "commit"
             /\ pc[q] \in {"insert", "check", "commit"} \/ FindOverlap(q)
                    \/ pc'[q] \notin {"insert", "check", "commit"}
  BY <1>2 DEF CreateStep, DatabaseStep, FaultStep, LoadRoom, AssertBusinessRules, FindOverlap,
     InsertRow, PassConstraint, ExclusionViolation, DeadlockDetected, AbortInsert, Commit,
     AcquireLock, ReleaseLock, LockUnavailable, AcquireReplyLost, ReleaseReplyLost, DbFailure,
     Crash, Goto, LeaveTry, CriticalSection, requests, RulesInv, TypeOK
<1>3. ASSUME NEW q \in Requests, CreateStep(q) PROVE row'[s] # "CONFIRMED"
  <2>1. Overlap(r, s)
    BY <1>2, <1>3 DEF Overlap
  <2>2. CASE row[s] = "CONFIRMED"
    <3>1. pc[r] \notin {"insert", "check", "commit"}
      BY <2>1, <2>2 DEF LockKeepsSlotsApart
    <3>2. FindOverlap(r)
      BY <1>2, <1>3, <3>1
    <3> QED BY <2>1, <2>2, <3>2 DEF FindOverlap, Goto, LeaveTry, RulesInv, TypeOK
  <2>3. CASE row[s] # "CONFIRMED" /\ row'[s] = "CONFIRMED"
    <3>1. q = s /\ pc[s] = "commit"
      BY <1>2, <1>3, <2>3
    <3>2. pc[r] \in CriticalSection
      BY <1>2, <1>3, <3>1 DEF CriticalSection
    <3> QED BY <2>1, <3>1, <3>2 DEF SectionsApart, CriticalSection
  <2> QED BY <2>2, <2>3
<1>4. CASE UNCHANGED <<dto, pc>> /\ (row'[s] = "CONFIRMED" => row[s] = "CONFIRMED")
  BY <1>1, <1>4 DEF LockKeepsSlotsApart, Overlap
<1>5. ASSUME NEW c \in Cancels, CancelStep(c)
      PROVE  UNCHANGED <<dto, pc>> /\ (row'[s] = "CONFIRMED" => row[s] = "CONFIRMED")
  BY <1>5 DEF CancelStep, CancelFind, CancelSave, CancelFailure, requests, RulesInv, TypeOK
<1>6. CASE EnvironmentStep \/ Finished \/ UNCHANGED vars
  BY <1>4, <1>6 DEF EnvironmentStep, LockExpires, RedisGoesDown, RedisComesBack, UpdateLocation,
     RemoveLocation, RemoveDepartment, RestoreDepartment, Finished, vars, requests
<1> QED BY <1>1, <1>3, <1>4, <1>5, <1>6 DEF Next

\* While the lock is there and clients agree on dates, the lock and findOverlap
\* alone keep two requests from ever meeting at the constraint.
THEOREM LockKeepsSlotsApartHolds == Spec => []LockKeepsSlotsApart
<1>1. Init => LockKeepsSlotsApart
  BY DEF Init, LockKeepsSlotsApart
<1>2. RulesInv /\ RulesInv' /\ SectionsApart /\ SectionsApart' /\ LockKeepsSlotsApart /\ [Next]_vars
        => LockKeepsSlotsApart'
  BY NextSlotsApart
<1>3. QED
  BY <1>1, <1>2, SectionsAreApart, LockInvariant, RulesInvariant, PTL DEF Spec

\* Then no two INSERTs wait for each other either: what the documentation says of
\* the answer to an overlap, and what lost locks or other offsets break, holds.
THEOREM OverlapAnswered409Holds == Spec => []OverlapAnswered409
<1>1. Init => OverlapAnswered409
  BY DEF Init, OverlapAnswered409
<1>2. TypeOK /\ LockKeepsSlotsApart /\ OverlapAnswered409 /\ [Next]_vars => OverlapAnswered409'
  <2> SUFFICES ASSUME TypeOK, LockKeepsSlotsApart, OverlapAnswered409, [Next]_vars,
                      LockIsThere, DatesAgree, "dberror" \notin Faults, NEW r \in Requests, outcome'[r] = "500"
               PROVE  FALSE
    BY DEF OverlapAnswered409
  <2>1. outcome[r] # "500"
    BY DEF OverlapAnswered409
  <2>2. PICK q \in Requests : CreateStep(q)
    BY <2>1 DEF Next, CancelStep, CancelFind, CancelSave, CancelFailure, EnvironmentStep, LockExpires,
        RedisGoesDown, RedisComesBack, UpdateLocation, RemoveLocation, RemoveDepartment,
        RestoreDepartment, Finished, vars, requests
  <2>3. DeadlockDetected(q)
    BY <2>1, <2>2 DEF TypeOK, CreateStep, DatabaseStep, FaultStep, LoadRoom, AssertBusinessRules,
        AcquireLock, LockUnavailable, AcquireReplyLost, FindOverlap, InsertRow, PassConstraint,
        ExclusionViolation, AbortInsert, Commit, ReleaseLock, ReleaseReplyLost, DbFailure, Crash,
        Decide, requests
  <2>4. PICK s \in Rivals(q) : pc[s] = "check"
    BY <2>3 DEF DeadlockDetected
  <2>5. pc[q] = "check" /\ s \in Requests /\ s # q /\ row[s] = "inserted" /\ Overlap(q, s)
    BY <2>3, <2>4 DEF DeadlockDetected, AbortInsert, Goto, Rivals
  <2> QED BY <2>5 DEF LockKeepsSlotsApart
<1>3. BookingInv => TypeOK
  BY DEF BookingInv
<1> QED BY <1>1, <1>2, <1>3, BookingInvariant, LockKeepsSlotsApartHolds, PTL DEF Spec

-----------------------------------------------------------------------------
(* Refinement of RoomCalendar.                                             *)

\* What a change of one row is to the calendar.
LEMMA StatusOfRow ==
    ASSUME TypeOK, NEW r \in Requests, NEW v, row' = [row EXCEPT ![r] = v]
    PROVE  BookingStatus' =
               [BookingStatus EXCEPT ![r] = IF v = "inserted" THEN "none" ELSE v]
BY DEF TypeOK, BookingStatus

LEMMA InitCalendar == Init => Calendar!Init
BY DEF Init, Calendar!Init, BookingStatus

\* A step that leaves the calendar as it is may answer a request: a refusal.
LEMMA RefuseStep ==
    ASSUME BookingInv, NEW r \in Requests, NEW code \in {"400", "404", "409", "500"},
           row[r] \in {"none", "inserted"}, outcome[r] = "none",
           Decide(r, code), BookingStatus' = BookingStatus, UNCHANGED dto
    PROVE  Calendar!Next
<1>1. BookingStatus[r] = "none"
  BY DEF BookingStatus
<1>2. Calendar!Refuse(r)
  BY <1>1 DEF Calendar!Refuse, Calendar!Refusals, Decide
<1>3. QED
  BY <1>2 DEF Calendar!Next

\* A commit is a booking, as the claims are disjoint before and after it.
LEMMA BookStep ==
    ASSUME BookingInv, BookingInv', NEW r \in Requests, NEW code \in {"201", "500", "none"},
           row[r] = "inserted", outcome[r] = "none",
           row' = [row EXCEPT ![r] = "CONFIRMED"],
           outcome' = [outcome EXCEPT ![r] = code], UNCHANGED dto
    PROVE  Calendar!Next
<1>1. BookingStatus' = [BookingStatus EXCEPT ![r] = "CONFIRMED"]
  BY StatusOfRow DEF BookingInv
<1>2. ASSUME NEW s \in Requests, BookingStatus[s] = "CONFIRMED"
      PROVE  ~Calendar!Overlap(r, s)
  <2>1. s # r /\ row[s] = "CONFIRMED"
    BY <1>2 DEF BookingStatus
  <2>2. row'[s] = "CONFIRMED" /\ row'[r] = "CONFIRMED"
    BY <2>1 DEF BookingInv, TypeOK
  <2>3. ~Overlap(r, s)'
    BY <2>1, <2>2 DEF BookingInv, ClaimsDisjoint, Claims
  <2>4. QED
    BY <2>3 DEF Overlap, Calendar!Overlap
<1>3. BookingStatus[r] = "none"
  BY DEF BookingStatus
<1>4. Calendar!Book(r)
  BY <1>1, <1>2, <1>3 DEF Calendar!Book
<1>5. QED
  BY <1>4 DEF Calendar!Next

LEMMA CreateStepCalendar ==
    ASSUME BookingInv, BookingInv', NEW r \in Requests, CreateStep(r)
    PROVE  Calendar!Next \/ UNCHANGED Calendar!calendarVars
<1> USE DEF Goto, Calendar!calendarVars
<1>1. UNCHANGED row => BookingStatus' = BookingStatus
  BY DEF BookingStatus
<1>2. pc[r] \notin {"release", "done", "crashed"} => outcome[r] = "none"
  BY DEF BookingInv, AnswerMatchesRow
<1>3. pc[r] \in {"load", "rules", "lock", "overlap", "insert"} => row[r] = "none"
  BY DEF BookingInv, RowMatchesStep
<1>4. pc[r] \in {"check", "commit"} => row[r] = "inserted"
  BY DEF BookingInv, RowMatchesStep
<1>5. row[r] \in {"none", "inserted"} /\ row' = [row EXCEPT ![r] = "none"]
        => BookingStatus' = BookingStatus
  BY StatusOfRow DEF BookingStatus, BookingInv
<1>6. CASE LoadRoom(r)
  BY <1>1, <1>2, <1>3, <1>6, RefuseStep DEF LoadRoom
<1>7. CASE AssertBusinessRules(r)
  BY <1>1, <1>2, <1>3, <1>7, RefuseStep DEF AssertBusinessRules
<1>8. CASE AcquireLock(r)
  BY <1>1, <1>2, <1>3, <1>8, RefuseStep DEF AcquireLock
<1>9. CASE FindOverlap(r)
  BY <1>1, <1>2, <1>3, <1>9, RefuseStep DEF FindOverlap
<1>10. CASE InsertRow(r)
  <2>1. BookingStatus' = BookingStatus
    BY <1>3, <1>10, StatusOfRow DEF InsertRow, BookingStatus, BookingInv
  <2>2. QED
    BY <1>10, <2>1 DEF InsertRow
<1>11. CASE PassConstraint(r)
  BY <1>1, <1>11 DEF PassConstraint
<1>12. CASE ExclusionViolation(r)
  BY <1>2, <1>4, <1>5, <1>12, RefuseStep DEF ExclusionViolation, AbortInsert
<1>13. CASE DeadlockDetected(r)
  BY <1>2, <1>4, <1>5, <1>13, RefuseStep DEF DeadlockDetected, AbortInsert
<1>14. CASE Commit(r)
  BY <1>2, <1>4, <1>14, BookStep DEF Commit, Decide
<1>15. CASE ReleaseLock(r) \/ LockUnavailable(r) \/ AcquireReplyLost(r) \/ ReleaseReplyLost(r)
  BY <1>1, <1>15 DEF ReleaseLock, LockUnavailable, AcquireReplyLost, ReleaseReplyLost, requests
<1>16. CASE DbFailure(r)
  BY <1>1, <1>2, <1>3, <1>4, <1>5, <1>16, RefuseStep, BookStep
     DEF DbFailure, Decide, CriticalSection
<1>17. CASE Crash(r)
  <2>1. outcome' = [outcome EXCEPT ![r] = outcome[r]] /\ UNCHANGED dto
    BY <1>17 DEF Crash, BookingInv, TypeOK
  <2>2. QED
    BY <1>1, <1>2, <1>4, <1>5, <1>17, <2>1, BookStep DEF Crash
<1>18. QED
  BY <1>6, <1>7, <1>8, <1>9, <1>10, <1>11, <1>12, <1>13, <1>14, <1>15, <1>16, <1>17
     DEF CreateStep, DatabaseStep, FaultStep

LEMMA CancelStepCalendar ==
    ASSUME BookingInv, NEW c \in Cancels, CancelStep(c)
    PROVE  Calendar!Next \/ UNCHANGED Calendar!calendarVars
<1> USE DEF Calendar!calendarVars, requests
<1>1. UNCHANGED row => BookingStatus' = BookingStatus
  BY DEF BookingStatus
<1>2. ASSUME cpc[c] \in {"save", "savenull"}, UNCHANGED requests,
             row' = [row EXCEPT ![target[c]] = "CANCELLED"]
      PROVE  Calendar!Next \/ UNCHANGED Calendar!calendarVars
  <2>1. target[c] \in Requests /\ row[target[c]] \in {"CONFIRMED", "CANCELLED"}
    BY <1>2 DEF BookingInv, CancelFoundRow
  <2>2. BookingStatus' = [BookingStatus EXCEPT ![target[c]] = "CANCELLED"]
    BY <1>2, <2>1, StatusOfRow DEF BookingInv
  <2>3. CASE row[target[c]] = "CONFIRMED"
    BY <1>2, <2>1, <2>2, <2>3 DEF Calendar!Next, Calendar!CancelBooking, BookingStatus
  <2>4. CASE row[target[c]] = "CANCELLED"
    BY <1>1, <1>2, <2>4 DEF BookingInv, TypeOK
  <2>5. QED
    BY <2>1, <2>3, <2>4
<1>3. CASE \E b \in Requests : CancelFind(c, b)
  BY <1>1, <1>3 DEF CancelFind
<1>4. CASE CancelSave(c) \/ CancelFailure(c)
  BY <1>1, <1>2, <1>4 DEF CancelSave, CancelFailure
<1>5. QED
  BY <1>3, <1>4 DEF CancelStep

\* Every behaviour of BookingService, with its lock, its faults and its
\* concurrent transactions, is a behaviour of the calendar.
THEOREM ImplementsCalendarHolds == Spec => ImplementsCalendar
<1>1. ASSUME BookingInv, BookingInv', [Next]_vars
      PROVE  [Calendar!Next]_(Calendar!calendarVars)
  <2>1. CASE EnvironmentStep \/ Finished \/ UNCHANGED vars
    <3>1. UNCHANGED <<row, dto, outcome>>
      BY <2>1 DEF EnvironmentStep, LockExpires, RedisGoesDown, RedisComesBack, UpdateLocation,
                  RemoveLocation, RemoveDepartment, RestoreDepartment, Finished, vars, requests
    <3>2. QED
      BY <3>1 DEF BookingStatus, Calendar!calendarVars
  <2>2. QED
    BY <1>1, <2>1, CreateStepCalendar, CancelStepCalendar DEF Next
<1>2. QED
  BY <1>1, InitCalendar, BookingInvariant, PTL DEF Spec, ImplementsCalendar, Calendar!Spec
==============================================================================
