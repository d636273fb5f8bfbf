CONSTANTS
    all = all  floor = floor
    g1 = g1  g2 = g2  g3 = g3
    m1 = m1  m2 = m2
    Readers = {g1, g2}
    Writers = {m1}
    Params = {all}
    PollAttempts = 1
    Faults = {"crash", "dberror", "rediserror"}
    NoValue = NoValue

SPECIFICATION FairSpec
CHECK_DEADLOCK FALSE

PROPERTY EveryReadEnds
PROPERTY EventuallyFresh
