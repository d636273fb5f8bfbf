CONSTANTS
    r1 = r1  r2 = r2
    DepartmentSeed <- FewDepartments
    LocationSeed <- FewLocations
    TypeRules <- Rules
    Runs = {r1, r2}
    MaxEdits = 2
    NoRun = NoRun
    NoNode = NoNode

SPECIFICATION FairSpec
CHECK_DEADLOCK FALSE

INVARIANT SeedIsWhole
INVARIANT SeedObeysTypes
INVARIANT LoneRunsCommit
INVARIANT NoDuplicates
INVARIANT ParentsResolve
INVARIANT SomeRunGoesOn
PROPERTY RunRestores
PROPERTY EveryRunEnds
