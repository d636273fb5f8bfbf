CONSTANTS
    site = site  room = room  spare = spare  X = X
    q1 = q1  t1 = t1  g1 = g1
    Nodes = {site, room, spare}
    Numbers = {1, 2, 3}
    Departments = {X}
    Requests = {q1}
    Bodies <- Changes
    InitialRows <- Rows
    NoNode = NoNode  NoRow = NoRow
    TypeIds = {1, 2}
    Codes = {"ZONE", "ROOM", "DESK"}
    TypeRequests = {t1}
    TypeBodies <- TypeChanges
    InitialTypes <- Types
    Absent = Absent  NoType = NoType
    Readers = {g1}
    Params <- TwoParams
    PollAttempts = 1
    Faults = {"crash", "rediserror"}
    NoValue = NoValue

SPECIFICATION FairServedSpec
CHECK_DEADLOCK FALSE
INVARIANT CleanTreesShowTable
PROPERTY MutationsReachCache
