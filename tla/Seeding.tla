------------------------------- MODULE Seeding -------------------------------
(***************************************************************************)
(* seedDatabase (seed-runner.ts): find or create every department and      *)
(* every location of the seed, in one READ COMMITTED transaction, with     *)
(* other runs of the script and users of the API at work.                  *)
(*                                                                         *)
(* A row has the transaction it was written in until that commits. An      *)
(* INSERT that meets an equal key of a transaction under way waits for its *)
(* end (the partial unique indexes).                                       *)
(***************************************************************************)
EXTENDS Integers, Sequences, FiniteSetsExt

CONSTANTS
    DepartmentSeed,     \* sequence of department codes; each is the name as well
    LocationSeed,       \* sequence of locations, see SeedData
    TypeRules(_),       \* location_types
    Runs,               \* runs of the script
    MaxEdits,           \* bound: changes made by users
    NoRun,              \* the row is committed
    NoNode              \* parent_id null

IsSequence(s) == s \in Seq({s[i] : i \in DOMAIN s})

\* Parents come before their children, departments before all.
ASSUME SeedAssumption ==
    /\ IsSequence(DepartmentSeed) /\ IsSequence(LocationSeed)
    /\ \A i \in DOMAIN LocationSeed :
           /\ LocationSeed[i].parent \in {NoNode} \cup {LocationSeed[j].number : j \in 1 .. i - 1}
           /\ \A c \in LocationSeed[i].departments :
                  \E j \in DOMAIN DepartmentSeed : DepartmentSeed[j] = c
    /\ NoRun \notin Runs /\ NoNode \notin Nat

\* The seed obeys the types of the migrations.
ASSUME SeedRulesAssumption ==
    \A i \in DOMAIN LocationSeed :
        LET seed == LocationSeed[i]
        IN  /\ IF seed.parent = NoNode THEN TypeRules(seed.type).root
               ELSE \A j \in DOMAIN LocationSeed : LocationSeed[j].number = seed.parent =>
                        LocationSeed[j].type \in TypeRules(seed.type).under
            /\ TypeRules(seed.type).bookable <=> seed.departments # {}

\* No key is in the seed twice.
ASSUME SeedKeysAssumption ==
    /\ \A i, j \in DOMAIN DepartmentSeed : DepartmentSeed[i] = DepartmentSeed[j] => i = j
    /\ \A i, j \in DOMAIN LocationSeed : LocationSeed[i].number = LocationSeed[j].number => i = j

VARIABLES
    departments, locations,         \* the tables: sets of rows
    pc, at,                         \* run: next step, position in the seed
    deptByCode, locByNumber,        \* run: the maps of the ids found or inserted
    edits, disturbed, alone         \* history: edits, was one made during a run, runs without another

tables == <<departments, locations>>
maps   == <<deptByCode, locByNumber>>
vars   == <<tables, pc, at, maps, edits, disturbed, alone>>

Size == Len(DepartmentSeed) + Len(LocationSeed)
Failures == {"duplicate", "unresolved", "crashed"}

Running == {r \in Runs : pc[r] \in {"find", "save"}}

\* findOne of a run: live rows, committed or its own.
Visible(r, table) == {x \in table : x.live /\ x.by \in {NoRun, r}}

NextId(table) == 1 + Max({x.id : x \in table} \cup {0})

NoMap == [k \in {} |-> 0]

Init ==
    /\ departments = {} /\ locations = {}
    /\ pc = [r \in Runs |-> "start"]
    /\ at = [r \in Runs |-> 1]
    /\ deptByCode = [r \in Runs |-> NoMap] /\ locByNumber = [r \in Runs |-> NoMap]
    /\ edits = 0 /\ disturbed = FALSE /\ alone = Runs

-----------------------------------------------------------------------------
(* A run.                                                                  *)

Start(r) ==
    /\ pc[r] = "start"
    /\ pc' = [pc EXCEPT ![r] = "find"]
    /\ alone' = IF Running = {} THEN alone ELSE alone \ (Running \cup {r})
    /\ UNCHANGED <<tables, at, maps, edits, disturbed>>

Goto(r, to) == pc' = [pc EXCEPT ![r] = to]

\* The key has a row: the run goes on with the next key.
Put(r, map, key, id) ==
    /\ map' = [map EXCEPT ![r] = [k \in DOMAIN @ \cup {key} |-> IF k = key THEN id ELSE @[k]]]
    /\ at' = [at EXCEPT ![r] = @ + 1]
    /\ Goto(r, "find")

\* The transaction is rolled back.
Rollback(r, why) ==
    /\ Goto(r, why)
    /\ departments' = {d \in departments : d.by # r}
    /\ locations' = {n \in locations : n.by # r}
    /\ UNCHANGED <<at, maps>>

AtDepartment(r) == at[r] <= Len(DepartmentSeed)
AtLocation(r) == at[r] > Len(DepartmentSeed) /\ at[r] <= Size

\* Mutant: one of the runs saves the departments in the opposite order.
Code_OwnOrder(r) ==
    DepartmentSeed[IF r = CHOOSE q \in Runs : TRUE THEN at[r] ELSE Len(DepartmentSeed) + 1 - at[r]]

Code(r) == DepartmentSeed[at[r]]
Location(r) == LocationSeed[at[r] - Len(DepartmentSeed)]

\* Mutant: every department is taken to be missing.
FindDepartment_Never(r) ==
    /\ pc[r] = "find" /\ AtDepartment(r)
    /\ Goto(r, "save")
    /\ UNCHANGED <<tables, at, maps, edits, disturbed, alone>>

FindDepartment(r) ==
    LET found == {d \in Visible(r, departments) : d.code = Code(r)}
    IN  /\ pc[r] = "find" /\ AtDepartment(r)
        /\ \/ found = {} /\ Goto(r, "save") /\ UNCHANGED <<at, maps>>
           \/ /\ \E d \in found : Put(r, deptByCode, Code(r), d.id)
              /\ UNCHANGED locByNumber
        /\ UNCHANGED <<tables, edits, disturbed, alone>>

\* Mutant: without the unique indexes.
Insert_NoIndex(r, rivals, Inserted) == Inserted /\ UNCHANGED <<edits, disturbed, alone>>

\* Rivals are the rows with an equal unique key.
Insert(r, rivals, Inserted) ==
    /\ \A x \in rivals : x.by \in {NoRun, r}
    /\ IF rivals # {} THEN Rollback(r, "duplicate") ELSE Inserted
    /\ UNCHANGED <<edits, disturbed, alone>>

\* uq_department_code, uq_department_name.
InsertDepartment(r) ==
    LET id == NextId(departments)
        rivals == {d \in departments : d.live /\ (d.code = Code(r) \/ d.name = Code(r))}
    IN  /\ pc[r] = "save" /\ AtDepartment(r)
        /\ Insert(r, rivals,
                /\ departments' = departments \cup
                       {[id |-> id, code |-> Code(r), name |-> Code(r), live |-> TRUE, by |-> r]}
                /\ Put(r, deptByCode, Code(r), id)
                /\ UNCHANGED <<locations, locByNumber>>)

\* Mutant: a location that exists is not put into the map.
FindLocation_NotMapped(r) ==
    LET found == {n \in Visible(r, locations) : n.number = Location(r).number}
    IN  /\ pc[r] = "find" /\ AtLocation(r)
        /\ IF found = {} THEN Goto(r, "save") /\ at' = at
           ELSE Goto(r, "find") /\ at' = [at EXCEPT ![r] = @ + 1]
        /\ UNCHANGED <<tables, maps, edits, disturbed, alone>>

\* Mutant: soft-deleted locations are found, too.
FindLocation_Deleted(r) ==
    LET found == {n \in locations : n.by \in {NoRun, r} /\ n.number = Location(r).number}
    IN  /\ pc[r] = "find" /\ AtLocation(r)
        /\ \/ found = {} /\ Goto(r, "save") /\ UNCHANGED <<at, maps>>
           \/ /\ \E n \in found : Put(r, locByNumber, Location(r).number, n.id)
              /\ UNCHANGED deptByCode
        /\ UNCHANGED <<tables, edits, disturbed, alone>>

FindLocation(r) ==
    LET found == {n \in Visible(r, locations) : n.number = Location(r).number}
    IN  /\ pc[r] = "find" /\ AtLocation(r)
        /\ \/ found = {} /\ Goto(r, "save") /\ UNCHANGED <<at, maps>>
           \/ /\ \E n \in found : Put(r, locByNumber, Location(r).number, n.id)
              /\ UNCHANGED deptByCode
        /\ UNCHANGED <<tables, edits, disturbed, alone>>

Resolved(r) ==
    /\ Location(r).parent \in DOMAIN locByNumber[r] \cup {NoNode}
    /\ Location(r).departments \subseteq DOMAIN deptByCode[r]

\* Mutant: saved without the join rows.
NewLocation_NoDepartments(r) ==
    LET seed == Location(r)
    IN  [id |-> NextId(locations), number |-> seed.number, type |-> seed.type,
         parent |-> IF seed.parent = NoNode THEN NoNode ELSE locByNumber[r][seed.parent],
         departments |-> {}, live |-> TRUE, by |-> r]

NewLocation(r) ==
    LET seed == Location(r)
    IN  [id |-> NextId(locations), number |-> seed.number, type |-> seed.type,
         parent |-> IF seed.parent = NoNode THEN NoNode ELSE locByNumber[r][seed.parent],
         departments |-> {deptByCode[r][c] : c \in seed.departments},
         live |-> TRUE, by |-> r]

\* Mutant: saved through a repository outside the transaction.
InsertLocation_Autocommit(r) ==
    LET rivals == {n \in locations : n.live /\ n.number = Location(r).number}
    IN  /\ pc[r] = "save" /\ AtLocation(r)
        /\ Insert(r, rivals,
                /\ locations' = locations \cup {[NewLocation(r) EXCEPT !.by = NoRun]}
                /\ Put(r, locByNumber, Location(r).number, NewLocation(r).id)
                /\ UNCHANGED <<departments, deptByCode>>)

\* The two throws, and uq_location_number.
InsertLocation(r) ==
    LET rivals == {n \in locations : n.live /\ n.number = Location(r).number}
    IN  /\ pc[r] = "save" /\ AtLocation(r)
        /\ \/ ~Resolved(r) /\ Rollback(r, "unresolved") /\ UNCHANGED <<edits, disturbed, alone>>
           \/ /\ Resolved(r)
              /\ Insert(r, rivals,
                    /\ locations' = locations \cup {NewLocation(r)}
                    /\ Put(r, locByNumber, Location(r).number, NewLocation(r).id)
                    /\ UNCHANGED <<departments, deptByCode>>)

Committed(r, table) == {IF x.by = r THEN [x EXCEPT !.by = NoRun] ELSE x : x \in table}

Commit(r) ==
    /\ pc[r] = "find" /\ at[r] > Size
    /\ Goto(r, "committed")
    /\ departments' = Committed(r, departments)
    /\ locations' = Committed(r, locations)
    /\ UNCHANGED <<at, maps, edits, disturbed, alone>>

\* Mutant: the rows of a dead connection stay, neither committed nor gone.
Crash_NoRollback(r) ==
    /\ r \in Running
    /\ Goto(r, "crashed")
    /\ UNCHANGED <<tables, at, maps, edits, disturbed, alone>>

\* The script or its connection dies; Postgres rolls back.
Crash(r) ==
    /\ r \in Running
    /\ Rollback(r, "crashed")
    /\ UNCHANGED <<edits, disturbed, alone>>

-----------------------------------------------------------------------------
(* Users, through the services (see LocationTree and Departments).         *)

Edit ==
    /\ edits < MaxEdits
    /\ edits' = edits + 1
    /\ disturbed' = (disturbed \/ Running # {})
    /\ UNCHANGED <<pc, at, maps, alone>>

Settled(table) == {x \in table : x.live /\ x.by = NoRun}

\* DELETE /locations/:id of a location without children that can be seen.
RemoveLocation(n) ==
    /\ \A c \in Settled(locations) : c.parent # n.id
    /\ locations' = (locations \ {n}) \cup {[n EXCEPT !.live = FALSE]}
    /\ Edit /\ UNCHANGED departments

\* POST /locations: a new building, under a number of the seed.
AddBuilding(number) ==
    /\ \A n \in locations : n.live => n.number # number
    /\ locations' = locations \cup
           {[id |-> NextId(locations), number |-> number, type |-> "BUILDING", parent |-> NoNode,
             departments |-> {}, live |-> TRUE, by |-> NoRun]}
    /\ Edit /\ UNCHANGED departments

\* DELETE /departments/:id, and PATCH of its code.
RemoveDepartment(d) ==
    /\ departments' = (departments \ {d}) \cup {[d EXCEPT !.live = FALSE]}
    /\ Edit /\ UNCHANGED locations

RecodeDepartment(d) ==
    /\ \A x \in departments : x.live => x.code # "NEW"
    /\ departments' = (departments \ {d}) \cup {[d EXCEPT !.code = "NEW"]}
    /\ Edit /\ UNCHANGED locations

-----------------------------------------------------------------------------

Step(r) ==
    \/ Start(r) \/ FindDepartment(r) \/ InsertDepartment(r)
    \/ FindLocation(r) \/ InsertLocation(r) \/ Commit(r)

Next ==
    \/ \E r \in Runs : Step(r) \/ Crash(r)
    \/ \E n \in Settled(locations) : RemoveLocation(n)
    \/ \E i \in DOMAIN LocationSeed : AddBuilding(LocationSeed[i].number)
    \/ \E d \in Settled(departments) : RemoveDepartment(d) \/ RecodeDepartment(d)

Spec == Init /\ [][Next]_vars

\* Postgres answers every statement.
FairSpec == Spec /\ \A r \in Runs : WF_vars(Step(r))

-----------------------------------------------------------------------------
(* Properties.                                                             *)

IsDepartment(d) ==
    /\ DOMAIN d = {"id", "code", "name", "live", "by"}
    /\ d.live \in BOOLEAN /\ d.by \in Runs \cup {NoRun}

IsLocation(n) ==
    /\ DOMAIN n = {"id", "number", "type", "parent", "departments", "live", "by"}
    /\ n.live \in BOOLEAN /\ n.by \in Runs \cup {NoRun}

RowsOK ==
    /\ \A d \in departments : IsDepartment(d)
    /\ \A n \in locations : IsLocation(n)

RunsOK ==
    /\ pc \in [Runs -> {"start", "find", "save", "committed"} \cup Failures]
    /\ at \in [Runs -> 1 .. Size + 1]
    /\ DOMAIN deptByCode = Runs /\ DOMAIN locByNumber = Runs

\* The maps hold every key that the run has passed, in whatever way it was found
\* (deptByCode, locByNumber): what the lookups of parents and departments rest on.
MapsHoldPassed ==
    \A r \in Runs :
        /\ \A i \in DOMAIN DepartmentSeed :
               i < at[r] => DepartmentSeed[i] \in DOMAIN deptByCode[r]
        /\ \A i \in DOMAIN LocationSeed :
               i + Len(DepartmentSeed) < at[r] =>
                   LocationSeed[i].number \in DOMAIN locByNumber[r]

SeedInv == RowsOK /\ RunsOK /\ MapsHoldPassed

\* Without edits the committed tables are empty or the whole seed, each row
\* once, whatever runs collide or die half-way (one transaction).
Whole ==
    \/ Settled(departments) = {} /\ Settled(locations) = {}
    \/ /\ \A i \in DOMAIN DepartmentSeed :
              Cardinality({d \in Settled(departments) : d.code = DepartmentSeed[i]}) = 1
       /\ \A i \in DOMAIN LocationSeed :
              Cardinality({n \in Settled(locations) : n.number = LocationSeed[i].number}) = 1

SeedIsWhole == edits = 0 => Whole

\* seed-runner.ts:11: no run duplicates a row, whoever else writes: two live
\* departments or locations never share a key.
NoDuplicates ==
    /\ \A d, e \in departments : d.live /\ e.live /\ (d.code = e.code \/ d.name = e.name) => d = e
    /\ \A m, n \in locations : m.live /\ n.live /\ m.number = n.number => m = n

\* What is seeded obeys the rules that the service would have enforced: each
\* location stands where the migrations let its type stand, and a location has
\* departments exactly when its type is bookable.
SeedObeysTypes ==
    edits = 0 => \A n \in Settled(locations) :
        /\ IF n.parent = NoNode THEN TypeRules(n.type).root
           ELSE \E m \in Settled(locations) :
                    m.id = n.parent /\ m.type \in TypeRules(n.type).under
        /\ TypeRules(n.type).bookable <=> n.departments # {}

\* seed-runner.ts:10: the seed is idempotent. Without another run and without
\* edits it never fails, however often it is run.
LoneRunsCommit ==
    edits = 0 => \A r \in alone : pc[r] # "duplicate"

\* seed-runner.ts:11-12: LOCATION_SEED is ordered so that parents can always be
\* resolved; so they can when rows were there before, or are edited meanwhile.
ParentsResolve ==
    \A r \in Runs : pc[r] # "unresolved"

\* A run that commits, with edits before it only, leaves every location of the
\* seed live, and no live location under a removed one: it puts back what users
\* have removed.
RunRestores ==
    [][\A r \in Runs : pc[r] # "committed" /\ pc'[r] = "committed" /\ ~disturbed =>
        /\ \A i \in DOMAIN LocationSeed :
               \E n \in Settled(locations') : n.number = LocationSeed[i].number
        /\ \A n \in Settled(locations') : n.parent # NoNode =>
               \E m \in Settled(locations') : m.id = n.parent]_vars

\* The other runs under way that the INSERT of r waits for.
WaitsFor(r) ==
    LET rivals ==
            IF AtDepartment(r)
            THEN {d \in departments : d.live /\ (d.code = Code(r) \/ d.name = Code(r))}
            ELSE {n \in locations : n.live /\ n.number = Location(r).number}
    IN  IF pc[r] = "save" THEN {x.by : x \in rivals} \ {r, NoRun} ELSE {}

\* Runs that meet never wait for one another in a circle, over any number of
\* them and whatever users do: one of them can always go on (all take the rows
\* in the order of the files, seed-runner.ts:28, 42).
SomeRunGoesOn == Running # {} => \E r \in Running : WaitsFor(r) = {}

\* Every run ends: runs that wait for each other's rows take them in one order,
\* and a run that dies leaves none.
EveryRunEnds == \A r \in Runs : pc[r] = "find" ~> pc[r] \in {"committed"} \cup Failures
==============================================================================
