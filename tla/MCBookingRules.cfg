CONSTANTS
    A = A  B = B
    X = X  Y = Y
    r1 = r1  r2 = r2
    Requests = {r1, r2}
    Cancels = {}
    Rooms = {A, B}
    Departments = {X, Y}
    RoomRecords <- ThreeStates
    RemovableRooms = {A}
    RemovableDepartments = {X}
    Dtos <- AssortedRooms
    Faults = {"crash"}
    NoToken = NoToken
    NoRoom = NoRoom
    NoBooking = NoBooking
    SecondsPerMinute = 1
    MinutesPerDay = 8
    UtcOffset <- Zone

SPECIFICATION Spec

SYMMETRY Symmetry

INVARIANT RulesRespected
INVARIANT HolderKeepsLock
INVARIANT LockKeepsSlotsApart
INVARIANT OverlapAnswered409
INVARIANT LocksAreReleased

PROPERTY ConflictHasRival
