SPECIFICATION Spec
CONSTANTS
    EFM = EFM  efm = efm  E_M = E_M  FSS = FSS  FSSblank = FSSblank
    Ids = {1, 2, 3}
    Texts = {EFM, efm, E_M, FSS, FSSblank}
    Trim <- TextTrim
    Fold <- TextFold
    ILike <- TextILike
    Requests = {1, 2, 3}
    Bodies <- Changes
    InitialRows <- Rows
    Absent = Absent  NoRow = NoRow  Removed = Removed
INVARIANT
    TextsUnique
PROPERTY
    ImplementsCatalog
CHECK_DEADLOCK FALSE
