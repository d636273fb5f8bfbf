CONSTANTS
    A = A  B = B
    X = X  Y = Y
    r1 = r1  r2 = r2
    Requests = {r1}
    Cancels = {}
    Rooms = {A}
    Departments = {X, Y}
    RoomRecords <- OneRoom
    RemovableRooms = {}
    RemovableDepartments = {}
    Dtos <- OneSlot
    Faults = {"outage"}
    NoToken = NoToken
    NoRoom = NoRoom
    NoBooking = NoBooking
    SecondsPerMinute = 1
    MinutesPerDay = 8
    UtcOffset <- Zone

SPECIFICATION OutageSpec

PROPERTY OutageBlocksNoBooking
