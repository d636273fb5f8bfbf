CONSTANTS
    A = A  B = B
    X = X  Y = Y
    r1 = r1  r2 = r2
    Requests = {r1, r2}
    Cancels = {c1}
    Rooms = {A}
    Departments = {X, Y}
    RoomRecords <- OneRoom
    RemovableRooms = {}
    RemovableDepartments = {}
    Dtos <- TwoDates
    Faults = {"crash", "dberror", "rediserror", "outage", "earlyexpiry"}
    NoToken = NoToken
    NoRoom = NoRoom
    NoBooking = NoBooking
    SecondsPerMinute = 1
    MinutesPerDay = 8
    UtcOffset <- Zone

SPECIFICATION FairSpec

INVARIANT BookingInv
INVARIANT NoDoubleBooking
INVARIANT AnswersAreTrue
INVARIANT CancelledStays

PROPERTY LockTakenByOwnerOnly
PROPERTY ImplementsCalendar
PROPERTY EveryRequestEnds
