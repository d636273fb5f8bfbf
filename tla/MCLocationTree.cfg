CONSTANTS
    site = site  wing = wing  spare = spare
    X = X
    q1 = q1  q2 = q2  q3 = q3  t1 = t1
    Nodes = {site, wing, spare}
    Numbers = {1, 2, 3}
    Departments = {X}
    Requests = {q1, q2, q3}
    Bodies <- Changes
    InitialRows <- Rows
    NoNode = NoNode
    NoRow = NoRow
    TypeIds = {1, 2, 3}
    Codes = {"ZONE", "ROOM", "DESK"}
    TypeRequests = {t1}
    TypeBodies <- TypeChanges
    InitialTypes <- Types
    Absent = Absent
    NoType = NoType

SPECIFICATION Spec
SYMMETRY Symmetry
CHECK_DEADLOCK FALSE

INVARIANT NumbersUnique
INVARIANT EveryNodeHasAType
PROPERTY ImplementsDirectory
