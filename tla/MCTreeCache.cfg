CONSTANTS
    all = all  floor = floor
    g1 = g1  g2 = g2  g3 = g3
    m1 = m1  m2 = m2
    Readers = {g1, g2}
    Writers = {m1, m2}
    Params = {all, floor}
    PollAttempts = 1
    Faults = {"slowrebuild"}
    NoValue = NoValue

SPECIFICATION Spec
CHECK_DEADLOCK FALSE

SYMMETRY Symmetry

INVARIANT CacheInv
INVARIANT StaleOnlyAfterRace
INVARIANT CleanTreesDropped
INVARIANT OneRebuilder
