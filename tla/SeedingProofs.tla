---------------------------- MODULE SeedingProofs ----------------------------
(***************************************************************************)
(* For every seed whose parents come first, every number of runs and of    *)
(* edits: the maps of a run hold what it has passed, so that parents and   *)
(* departments always resolve, and no row is ever duplicated.              *)
(*                                                                         *)
(* While nobody edits, more holds: what a run has passed is in the tables  *)
(* as it sees them (QuietInv), so that a commit leaves the whole seed; and *)
(* without any edit every row is one of the seed (SeededInv).              *)
(***************************************************************************)
EXTENDS Seeding, FiniteSetTheorems, WellFoundedInduction, TLAPS

LEMMA Sizes ==
    /\ Len(DepartmentSeed) \in Nat /\ Len(LocationSeed) \in Nat
    /\ DOMAIN DepartmentSeed = 1 .. Len(DepartmentSeed)
    /\ DOMAIN LocationSeed = 1 .. Len(LocationSeed)
    /\ Size = Len(DepartmentSeed) + Len(LocationSeed) /\ Size \in Nat
  BY SeedAssumption DEF IsSequence, Size

\* A key is put into a map and the run goes on: the position advances by one,
\* and the map holds what it held and the key.
LEMMA PutHolds ==
    ASSUME NEW r \in Runs, NEW map, NEW map_, NEW key, NEW id, DOMAIN map = Runs,
           map_ = [map EXCEPT ![r] = [k \in DOMAIN @ \cup {key} |-> IF k = key THEN id ELSE @[k]]]
    PROVE  /\ DOMAIN map_ = Runs
           /\ key \in DOMAIN map_[r]
           /\ \A q \in Runs : DOMAIN map[q] \subseteq DOMAIN map_[q]
  OBVIOUS

\* An update of one column leaves a row a row.
LEMMA ChangedDepartment ==
    ASSUME NEW d, IsDepartment(d)
    PROVE  /\ IsDepartment([d EXCEPT !.by = NoRun]) /\ [d EXCEPT !.by = NoRun].live = d.live
           /\ [d EXCEPT !.by = NoRun].code = d.code /\ [d EXCEPT !.by = NoRun].name = d.name
           /\ IsDepartment([d EXCEPT !.live = FALSE]) /\ [d EXCEPT !.live = FALSE].live = FALSE
           /\ IsDepartment([d EXCEPT !.code = "NEW"]) /\ [d EXCEPT !.code = "NEW"].code = "NEW"
           /\ [d EXCEPT !.code = "NEW"].name = d.name
  BY DEF IsDepartment

LEMMA ChangedLocation ==
    ASSUME NEW n, IsLocation(n)
    PROVE  /\ IsLocation([n EXCEPT !.by = NoRun]) /\ [n EXCEPT !.by = NoRun].live = n.live
           /\ [n EXCEPT !.by = NoRun].number = n.number
           /\ IsLocation([n EXCEPT !.live = FALSE]) /\ [n EXCEPT !.live = FALSE].live = FALSE
  BY DEF IsLocation

\* The location behind the position of a run is the last one passed.
LEMMA PassedLocation ==
    ASSUME RunsOK, NEW r \in Runs, AtLocation(r), NEW i \in DOMAIN LocationSeed,
           i + Len(DepartmentSeed) < at[r] + 1
    PROVE  i + Len(DepartmentSeed) < at[r] \/ LocationSeed[i] = Location(r)
<1>1. at[r] \in Int /\ i \in Int
  BY Sizes DEF RunsOK
<1>2. i + Len(DepartmentSeed) < at[r] \/ i = at[r] - Len(DepartmentSeed)
  BY <1>1, Sizes
<1> QED BY <1>2 DEF Location

-----------------------------------------------------------------------------
(* The rows.                                                               *)

LEMMA InsertedRows ==
    ASSUME RowsOK, NEW r \in Runs, InsertDepartment(r) \/ InsertLocation(r) \/ Crash(r)
    PROVE  RowsOK'
<1>1. ASSUME NEW why, Rollback(r, why) PROVE RowsOK'
  BY <1>1 DEF Rollback, RowsOK, IsDepartment, IsLocation
<1>2. CASE InsertDepartment(r)
  <2> DEFINE new == [id |-> NextId(departments), code |-> Code(r), name |-> Code(r),
                     live |-> TRUE, by |-> r]
  <2>1. IsDepartment(new)
    BY DEF IsDepartment
  <2>2. CASE departments' = departments \cup {new} /\ locations' = locations
    <3> HIDE DEF new
    <3>1. \A d \in departments' : IsDepartment(d)
      BY <2>1, <2>2 DEF RowsOK
    <3>2. \A n \in locations' : IsLocation(n)
      BY <2>2 DEF RowsOK
    <3> QED BY <3>1, <3>2 DEF RowsOK, IsDepartment, IsLocation
  <2> QED BY <1>1, <1>2, <2>2 DEF InsertDepartment, Insert
<1>3. CASE InsertLocation(r)
  <2>1. IsLocation(NewLocation(r))
    BY DEF IsLocation, NewLocation
  <2>2. CASE locations' = locations \cup {NewLocation(r)} /\ departments' = departments
    <3>1. \A n \in locations' : IsLocation(n)
      BY <2>1, <2>2 DEF RowsOK
    <3>2. \A d \in departments' : IsDepartment(d)
      BY <2>2 DEF RowsOK
    <3> QED BY <3>1, <3>2 DEF RowsOK, IsDepartment, IsLocation
  <2> QED BY <1>1, <1>3, <2>2 DEF InsertLocation, Insert
<1> QED BY <1>1, <1>2, <1>3 DEF Crash

LEMMA ChangedRows ==
    ASSUME RowsOK,
           \/ \E r \in Runs : Commit(r)
           \/ \E n \in Settled(locations) : RemoveLocation(n)
           \/ \E i \in DOMAIN LocationSeed : AddBuilding(LocationSeed[i].number)
           \/ \E d \in Settled(departments) : RemoveDepartment(d) \/ RecodeDepartment(d)
    PROVE  RowsOK'
<1>1. SUFFICES /\ \A d \in departments' : IsDepartment(d)
               /\ \A n \in locations' : IsLocation(n)
  BY <1>1 DEF RowsOK, IsDepartment, IsLocation
<1>2. ASSUME NEW r \in Runs, Commit(r)
      PROVE  /\ \A d \in departments' : IsDepartment(d)
             /\ \A n \in locations' : IsLocation(n)
  <2>1. ASSUME NEW d \in departments' PROVE IsDepartment(d)
    <3>1. PICK x \in departments : d = IF x.by = r THEN [x EXCEPT !.by = NoRun] ELSE x
      BY <1>2, <2>1 DEF Commit, Committed
    <3>2. IsDepartment(x)
      BY DEF RowsOK
    <3> QED BY <3>1, <3>2, ChangedDepartment
  <2>2. ASSUME NEW n \in locations' PROVE IsLocation(n)
    <3>1. PICK x \in locations : n = IF x.by = r THEN [x EXCEPT !.by = NoRun] ELSE x
      BY <1>2, <2>2 DEF Commit, Committed
    <3>2. IsLocation(x)
      BY DEF RowsOK
    <3> QED BY <3>1, <3>2, ChangedLocation
  <2> QED BY <2>1, <2>2
<1>3. ASSUME NEW n \in Settled(locations), RemoveLocation(n)
      PROVE  /\ \A d \in departments' : IsDepartment(d)
             /\ \A m \in locations' : IsLocation(m)
  <2>1. IsLocation(n)
    BY DEF RowsOK, Settled
  <2>2. IsLocation([n EXCEPT !.live = FALSE])
    BY <2>1, ChangedLocation
  <2> QED BY <1>3, <2>2 DEF RemoveLocation, RowsOK
<1>4. ASSUME NEW number, AddBuilding(number)
      PROVE  /\ \A d \in departments' : IsDepartment(d)
             /\ \A m \in locations' : IsLocation(m)
  <2> DEFINE new == [id |-> NextId(locations), number |-> number, type |-> "BUILDING",
                     parent |-> NoNode, departments |-> {}, live |-> TRUE, by |-> NoRun]
  <2>1. IsLocation(new)
    BY DEF IsLocation
  <2>2. locations' = locations \cup {new} /\ departments' = departments
    BY <1>4 DEF AddBuilding
  <2> HIDE DEF new
  <2> QED BY <2>1, <2>2 DEF RowsOK
<1>5. ASSUME NEW d \in Settled(departments), RemoveDepartment(d) \/ RecodeDepartment(d)
      PROVE  /\ \A e \in departments' : IsDepartment(e)
             /\ \A m \in locations' : IsLocation(m)
  <2>1. IsDepartment(d)
    BY DEF RowsOK, Settled
  <2>2. IsDepartment([d EXCEPT !.live = FALSE]) /\ IsDepartment([d EXCEPT !.code = "NEW"])
    BY <2>1, ChangedDepartment
  <2> QED BY <1>5, <2>2 DEF RemoveDepartment, RecodeDepartment, RowsOK
<1> QED BY <1>2, <1>3, <1>4, <1>5

LEMMA SameRows == RowsOK /\ UNCHANGED tables => RowsOK'
  BY DEF RowsOK, tables, IsDepartment, IsLocation

LEMMA RowsKept ==
    ASSUME RowsOK, [Next]_vars
    PROVE  RowsOK'
<1>1. CASE UNCHANGED vars
  BY <1>1, SameRows DEF vars
<1>2. CASE Next
  <2>1. ASSUME NEW r \in Runs, Start(r) \/ FindDepartment(r) \/ FindLocation(r) PROVE RowsOK'
    BY <2>1, SameRows DEF Start, FindDepartment, FindLocation, tables
  <2> QED BY <1>2, <2>1, InsertedRows, ChangedRows DEF Next, Step
<1> QED BY <1>1, <1>2

-----------------------------------------------------------------------------
(* The runs and their maps.                                                *)

MapsInv == RunsOK /\ MapsHoldPassed

LEMMA RollbackKeeps ==
    ASSUME MapsInv, NEW r \in Runs, NEW why \in Failures, Rollback(r, why)
    PROVE  MapsInv'
  BY Sizes DEF MapsInv, RunsOK, MapsHoldPassed, Rollback, Goto, Failures, maps, Size

\* The next department or location is put into its map.
LEMMA PutDepartmentKeeps ==
    ASSUME MapsInv, NEW r \in Runs, NEW id, AtDepartment(r),
           Put(r, deptByCode, Code(r), id), UNCHANGED locByNumber
    PROVE  MapsInv'
<1>1. /\ DOMAIN deptByCode' = Runs
      /\ Code(r) \in DOMAIN deptByCode'[r]
      /\ \A q \in Runs : DOMAIN deptByCode[q] \subseteq DOMAIN deptByCode'[q]
  BY PutHolds DEF Put, MapsInv, RunsOK
<1>2. RunsOK'
  BY <1>1, Sizes DEF MapsInv, RunsOK, AtDepartment, Put, Goto, Failures, Size
<1>3. MapsHoldPassed'
  BY <1>1, Sizes DEF MapsInv, RunsOK, MapsHoldPassed, AtDepartment, Put, Code, Size
<1> QED BY <1>2, <1>3 DEF MapsInv

LEMMA PutLocationKeeps ==
    ASSUME MapsInv, NEW r \in Runs, NEW id, AtLocation(r),
           Put(r, locByNumber, Location(r).number, id), UNCHANGED deptByCode
    PROVE  MapsInv'
<1>1. /\ DOMAIN locByNumber' = Runs
      /\ Location(r).number \in DOMAIN locByNumber'[r]
      /\ \A q \in Runs : DOMAIN locByNumber[q] \subseteq DOMAIN locByNumber'[q]
  BY PutHolds DEF Put, MapsInv, RunsOK
<1>2. RunsOK'
  BY <1>1, Sizes DEF MapsInv, RunsOK, AtLocation, Put, Goto, Failures, Size
<1>3. at'[r] = at[r] + 1 /\ at[r] \in Int /\ \A q \in Runs \ {r} : at'[q] = at[q]
  BY Sizes DEF Put, MapsInv, RunsOK
<1>4. ASSUME NEW q \in Runs, NEW i \in DOMAIN LocationSeed, i + Len(DepartmentSeed) < at'[q]
      PROVE  LocationSeed[i].number \in DOMAIN locByNumber'[q]
  <2>1. CASE i + Len(DepartmentSeed) < at[q]
    BY <1>1, <2>1 DEF MapsInv, MapsHoldPassed
  <2>2. CASE q = r /\ LocationSeed[i] = Location(r)
    BY <1>1, <2>2
  <2> QED BY <1>3, <1>4, <2>1, <2>2, PassedLocation DEF MapsInv
<1>5. ASSUME NEW q \in Runs, NEW i \in DOMAIN DepartmentSeed
      PROVE  DepartmentSeed[i] \in DOMAIN deptByCode'[q]
                 \/ ~ i < at'[q]
  <2>1. CASE q = r
    BY <1>3, <2>1, Sizes DEF MapsInv, MapsHoldPassed, AtLocation
  <2> QED BY <1>3, <2>1 DEF MapsInv, MapsHoldPassed
<1>6. MapsHoldPassed'
  BY <1>4, <1>5 DEF MapsHoldPassed
<1> QED BY <1>2, <1>6 DEF MapsInv

LEMMA StepKeeps ==
    ASSUME MapsInv, NEW r \in Runs, Step(r) \/ Crash(r)
    PROVE  MapsInv'
<1>1. CASE Start(r)
  BY <1>1, Sizes DEF MapsInv, RunsOK, MapsHoldPassed, Start, Failures, maps, Size
<1>2. ASSUME UNCHANGED <<at, maps>>, Goto(r, "save") PROVE MapsInv'
  BY <1>2, Sizes DEF MapsInv, RunsOK, MapsHoldPassed, Goto, Failures, maps, Size
<1>3. CASE FindDepartment(r)
  BY <1>2, <1>3, PutDepartmentKeeps DEF FindDepartment
<1>4. CASE InsertDepartment(r)
  BY <1>4, RollbackKeeps, PutDepartmentKeeps DEF InsertDepartment, Insert, Failures
<1>5. CASE FindLocation(r)
  BY <1>2, <1>5, PutLocationKeeps DEF FindLocation
<1>6. CASE InsertLocation(r)
  BY <1>6, RollbackKeeps, PutLocationKeeps DEF InsertLocation, Insert, Failures
<1>7. CASE Commit(r)
  BY <1>7, Sizes DEF MapsInv, RunsOK, MapsHoldPassed, Commit, Goto, Failures, maps, Size
<1>8. CASE Crash(r)
  BY <1>8, RollbackKeeps DEF Crash, Failures
<1> QED BY <1>1, <1>3, <1>4, <1>5, <1>6, <1>7, <1>8 DEF Step

LEMMA MapsKept ==
    ASSUME MapsInv, [Next]_vars
    PROVE  MapsInv'
<1>1. CASE UNCHANGED <<pc, at, maps>>
  BY <1>1, Sizes DEF MapsInv, RunsOK, MapsHoldPassed, maps, Size
<1> QED
  BY <1>1, StepKeeps DEF Next, RemoveLocation, AddBuilding, RemoveDepartment, RecodeDepartment,
                         Edit, vars

-----------------------------------------------------------------------------

\* The invariant of the runs: rows are rows, and the maps hold what was passed.
THEOREM SeedInvariant == Spec => []SeedInv
<1>1. Init => SeedInv
  BY Sizes DEF Init, SeedInv, RowsOK, RunsOK, MapsHoldPassed, Failures
<1>2. SeedInv /\ [Next]_vars => SeedInv'
  BY RowsKept, MapsKept DEF SeedInv, MapsInv
<1> QED BY <1>1, <1>2, PTL DEF Spec

-----------------------------------------------------------------------------
(* Lookups.                                                                *)

LEMMA Resolves ==
    ASSUME SeedInv, NEW r \in Runs, AtLocation(r)
    PROVE  Resolved(r)
<1> DEFINE k == at[r] - Len(DepartmentSeed)
<1>1. /\ at[r] \in Int /\ k \in DOMAIN LocationSeed /\ Location(r) = LocationSeed[k]
  BY Sizes DEF SeedInv, RunsOK, AtLocation, Location
<1>2. Location(r).parent \in DOMAIN locByNumber[r] \cup {NoNode}
  <2>1. CASE Location(r).parent # NoNode
    <3>1. PICK j \in 1 .. k - 1 : Location(r).parent = LocationSeed[j].number
      BY <1>1, <2>1, SeedAssumption
    <3>2. j \in DOMAIN LocationSeed /\ j + Len(DepartmentSeed) < at[r]
      BY <1>1, Sizes
    <3> QED BY <3>1, <3>2 DEF SeedInv, MapsHoldPassed
  <2> QED BY <2>1
<1>3. Location(r).departments \subseteq DOMAIN deptByCode[r]
  <2>1. ASSUME NEW c \in Location(r).departments PROVE c \in DOMAIN deptByCode[r]
    <3>1. PICK j \in DOMAIN DepartmentSeed : DepartmentSeed[j] = c
      BY <1>1, SeedAssumption
    <3>2. j < at[r]
      BY <1>1, Sizes DEF AtLocation
    <3> QED BY <3>1, <3>2 DEF SeedInv, MapsHoldPassed
  <2> QED BY <2>1
<1> QED BY <1>2, <1>3 DEF Resolved

\* No run fails for a parent or a department that is not in its map, whatever
\* was in the tables before and whoever changes them meanwhile.
THEOREM ParentsResolveHolds == Spec => []ParentsResolve
<1>1. Init => ParentsResolve
  BY DEF Init, ParentsResolve
<1>2. SeedInv /\ ParentsResolve /\ [Next]_vars => ParentsResolve'
  <2> SUFFICES ASSUME SeedInv, ParentsResolve, [Next]_vars PROVE ParentsResolve'
    OBVIOUS
  <2>1. CASE UNCHANGED pc
    BY <2>1 DEF ParentsResolve
  <2>2. ASSUME NEW r \in Runs, NEW to, Goto(r, to), to # "unresolved" PROVE ParentsResolve'
    BY <2>2 DEF Goto, ParentsResolve, SeedInv, RunsOK
  <2>3. ASSUME NEW r \in Runs, Step(r) \/ Crash(r) PROVE ParentsResolve'
    <3>1. CASE Start(r)
      BY <2>2, <3>1 DEF Start, Goto
    <3>2. CASE FindDepartment(r) \/ FindLocation(r)
      BY <2>2, <3>2 DEF FindDepartment, FindLocation, Put
    <3>3. CASE InsertDepartment(r)
      BY <2>2, <3>3 DEF InsertDepartment, Insert, Rollback, Put
    <3>4. CASE InsertLocation(r)
      BY <2>2, <3>4, Resolves DEF InsertLocation, Insert, Rollback, Put
    <3>5. CASE Commit(r) \/ Crash(r)
      BY <2>2, <3>5 DEF Commit, Crash, Rollback
    <3> QED BY <2>3, <3>1, <3>2, <3>3, <3>4, <3>5 DEF Step
  <2> QED
    BY <2>1, <2>3 DEF Next, RemoveLocation, AddBuilding, RemoveDepartment, RecodeDepartment,
                      Edit, vars
<1> QED BY <1>1, <1>2, SeedInvariant, PTL DEF Spec

-----------------------------------------------------------------------------
(* Keys.                                                                   *)

UniqueKeys(ds) ==
    \A d, e \in ds : d.live /\ e.live /\ (d.code = e.code \/ d.name = e.name) => d = e

UniqueNumbers(ns) ==
    \A m, n \in ns : m.live /\ n.live /\ m.number = n.number => m = n

\* A row with a key that no live row has.
LEMMA NewDepartmentUnique ==
    ASSUME NEW ds, UniqueKeys(ds), NEW new,
           \A d \in ds : d.live => d.code # new.code /\ d.name # new.name
    PROVE  UniqueKeys(ds \cup {new})
  BY DEF UniqueKeys

LEMMA NewLocationUnique ==
    ASSUME NEW ns, UniqueNumbers(ns), NEW new, \A n \in ns : n.live => n.number # new.number
    PROVE  UniqueNumbers(ns \cup {new})
  BY DEF UniqueNumbers

\* Removing rows, or taking them out of the indexes.
LEMMA FewerUnique ==
    ASSUME NEW ds, NEW fewer \in SUBSET ds, NEW gone, gone.live = FALSE
    PROVE  /\ UniqueKeys(ds) => UniqueKeys(fewer) /\ UniqueKeys(fewer \cup {gone})
           /\ UniqueNumbers(ds) => UniqueNumbers(fewer) /\ UniqueNumbers(fewer \cup {gone})
  BY DEF UniqueKeys, UniqueNumbers

LEMMA CommitUnique ==
    ASSUME RowsOK, NEW r \in Runs
    PROVE  /\ UniqueKeys(departments) => UniqueKeys(Committed(r, departments))
           /\ UniqueNumbers(locations) => UniqueNumbers(Committed(r, locations))
<1>1. ASSUME NEW d \in Committed(r, departments)
      PROVE  \E x \in departments :
                 /\ d = IF x.by = r THEN [x EXCEPT !.by = NoRun] ELSE x
                 /\ d.live = x.live /\ d.code = x.code /\ d.name = x.name
  <2>1. PICK x \in departments : d = IF x.by = r THEN [x EXCEPT !.by = NoRun] ELSE x
    BY DEF Committed
  <2>2. IsDepartment(x)
    BY DEF RowsOK
  <2> QED BY <2>1, <2>2, ChangedDepartment
<1>2. ASSUME NEW n \in Committed(r, locations)
      PROVE  \E x \in locations :
                 /\ n = IF x.by = r THEN [x EXCEPT !.by = NoRun] ELSE x
                 /\ n.live = x.live /\ n.number = x.number
  <2>1. PICK x \in locations : n = IF x.by = r THEN [x EXCEPT !.by = NoRun] ELSE x
    BY DEF Committed
  <2>2. IsLocation(x)
    BY DEF RowsOK
  <2> QED BY <2>1, <2>2, ChangedLocation
<1>3. ASSUME UniqueKeys(departments) PROVE UniqueKeys(Committed(r, departments))
  <2>1. ASSUME NEW d \in Committed(r, departments), NEW e \in Committed(r, departments),
               d.live, e.live, d.code = e.code \/ d.name = e.name
        PROVE  d = e
    <3>1. PICK x \in departments :
              /\ d = IF x.by = r THEN [x EXCEPT !.by = NoRun] ELSE x
              /\ d.live = x.live /\ d.code = x.code /\ d.name = x.name
      BY <1>1
    <3>2. PICK y \in departments :
              /\ e = IF y.by = r THEN [y EXCEPT !.by = NoRun] ELSE y
              /\ e.live = y.live /\ e.code = y.code /\ e.name = y.name
      BY <1>1
    <3>3. x = y
      BY <1>3, <2>1, <3>1, <3>2 DEF UniqueKeys
    <3> QED BY <3>1, <3>2, <3>3
  <2> QED BY <2>1 DEF UniqueKeys
<1>4. ASSUME UniqueNumbers(locations) PROVE UniqueNumbers(Committed(r, locations))
  <2>1. ASSUME NEW m \in Committed(r, locations), NEW n \in Committed(r, locations),
               m.live, n.live, m.number = n.number
        PROVE  m = n
    <3>1. PICK x \in locations :
              /\ m = IF x.by = r THEN [x EXCEPT !.by = NoRun] ELSE x
              /\ m.live = x.live /\ m.number = x.number
      BY <1>2
    <3>2. PICK y \in locations :
              /\ n = IF y.by = r THEN [y EXCEPT !.by = NoRun] ELSE y
              /\ n.live = y.live /\ n.number = y.number
      BY <1>2
    <3>3. x = y
      BY <1>4, <2>1, <3>1, <3>2 DEF UniqueNumbers
    <3> QED BY <3>1, <3>2, <3>3
  <2> QED BY <2>1 DEF UniqueNumbers
<1> QED BY <1>3, <1>4

\* No two live rows share a key: runs, users and rollbacks included.
THEOREM NoDuplicatesHolds == Spec => []NoDuplicates
<1> DEFINE Unique == UniqueKeys(departments) /\ UniqueNumbers(locations)
           Unique_ == UniqueKeys(departments') /\ UniqueNumbers(locations')
<1>1. Init => NoDuplicates
  BY DEF Init, NoDuplicates
<1>2. SeedInv /\ NoDuplicates /\ [Next]_vars => NoDuplicates'
  <2> SUFFICES ASSUME SeedInv, Unique, [Next]_vars PROVE Unique_
    BY DEF NoDuplicates, UniqueKeys, UniqueNumbers
  <2>1. CASE UNCHANGED tables
    BY <2>1 DEF tables
  <2>2. ASSUME NEW r \in Runs, NEW why, Rollback(r, why) PROVE Unique_
    BY <2>2, FewerUnique DEF Rollback, UniqueKeys, UniqueNumbers
  <2>3. ASSUME NEW r \in Runs, InsertDepartment(r) PROVE Unique_
    <3> DEFINE new == [id |-> NextId(departments), code |-> Code(r), name |-> Code(r),
                       live |-> TRUE, by |-> r]
    <3>1. CASE /\ \A d \in departments : d.live => d.code # Code(r) /\ d.name # Code(r)
               /\ departments' = departments \cup {new} /\ locations' = locations
      <4>1. new.code = Code(r) /\ new.name = Code(r)
        OBVIOUS
      <4> HIDE DEF new
      <4> QED BY <3>1, <4>1, NewDepartmentUnique
    <3> QED BY <2>2, <2>3, <3>1 DEF InsertDepartment, Insert
  <2>4. ASSUME NEW r \in Runs, InsertLocation(r) PROVE Unique_
    <3>1. CASE /\ \A n \in locations : n.live => n.number # Location(r).number
               /\ locations' = locations \cup {NewLocation(r)} /\ departments' = departments
      <4>1. NewLocation(r).number = Location(r).number
        BY DEF NewLocation
      <4> QED BY <3>1, <4>1, NewLocationUnique
    <3> QED BY <2>2, <2>4, <3>1 DEF InsertLocation, Insert
  <2>5. ASSUME NEW r \in Runs, Commit(r) PROVE Unique_
    BY <2>5, CommitUnique DEF Commit, SeedInv
  <2>6. ASSUME NEW n \in Settled(locations), RemoveLocation(n) PROVE Unique_
    <3>1. [n EXCEPT !.live = FALSE].live = FALSE
      BY ChangedLocation DEF SeedInv, RowsOK, Settled
    <3> QED BY <2>6, <3>1, FewerUnique DEF RemoveLocation
  <2>7. ASSUME NEW number, AddBuilding(number) PROVE Unique_
    <3> DEFINE new == [id |-> NextId(locations), number |-> number, type |-> "BUILDING",
                       parent |-> NoNode, departments |-> {}, live |-> TRUE, by |-> NoRun]
    <3>1. /\ \A n \in locations : n.live => n.number # new.number
          /\ locations' = locations \cup {new} /\ departments' = departments
      BY <2>7 DEF AddBuilding
    <3> HIDE DEF new
    <3> QED BY <3>1, NewLocationUnique
  <2>8. ASSUME NEW d \in Settled(departments), RemoveDepartment(d) PROVE Unique_
    <3>1. [d EXCEPT !.live = FALSE].live = FALSE
      BY ChangedDepartment DEF SeedInv, RowsOK, Settled
    <3> QED BY <2>8, <3>1, FewerUnique DEF RemoveDepartment
  <2>9. ASSUME NEW d \in Settled(departments), RecodeDepartment(d) PROVE Unique_
    <3> DEFINE new == [d EXCEPT !.code = "NEW"]
    <3>1. new.code = "NEW" /\ new.name = d.name /\ d \in departments /\ d.live
      BY ChangedDepartment DEF SeedInv, RowsOK, Settled
    <3>2. /\ \A e \in departments : e.live => e.code # "NEW"
          /\ departments' = (departments \ {d}) \cup {new} /\ locations' = locations
      BY <2>9 DEF RecodeDepartment
    <3> HIDE DEF new
    <3>3. \A e \in departments \ {d} : e.live => e.code # new.code /\ e.name # new.name
      BY <3>1, <3>2 DEF UniqueKeys
    <3>4. UniqueKeys(departments \ {d})
      BY DEF UniqueKeys
    <3> QED BY <3>2, <3>3, <3>4, NewDepartmentUnique
  <2>10. ASSUME NEW r \in Runs, Step(r) \/ Crash(r) PROVE Unique_
    <3>1. CASE Start(r) \/ FindDepartment(r) \/ FindLocation(r)
      BY <2>1, <3>1 DEF Start, FindDepartment, FindLocation
    <3> QED BY <2>2, <2>3, <2>4, <2>5, <2>10, <3>1 DEF Step, Crash
  <2> QED BY <2>1, <2>6, <2>7, <2>8, <2>9, <2>10 DEF Next, vars, tables
<1> QED BY <1>1, <1>2, SeedInvariant, PTL DEF Spec

-----------------------------------------------------------------------------
(* What holds of the rows, the runs and the history through every edit.    *)

\* A row is committed, or its run is under way: rollbacks and commits leave none.
Owned == \A x \in departments \cup locations : x.by \in Running \cup {NoRun}

\* A run begins at the first key, knowing nothing.
Unstarted == \A r \in Runs : pc[r] = "start" => at[r] = 1 /\ DOMAIN locByNumber[r] = {}

\* The history variables.
Counted ==
    /\ edits \in Nat /\ disturbed \in BOOLEAN /\ (edits = 0 => ~disturbed)
    /\ alone \subseteq Runs
    /\ \A r \in alone \cap Running : Running = {r}

BoundedIds(table) == \E b \in Nat : \A x \in table : x.id \in 0 .. b

HistoryInv == Owned /\ Unstarted /\ Counted /\ BoundedIds(departments) /\ BoundedIds(locations)

Sees(r, x) == x.live /\ x.by \in {NoRun, r}

\* What a run has passed is in the tables, as it can see them.
FoundBy(r) ==
    /\ \A i \in DOMAIN DepartmentSeed : i < at[r] =>
           \E d \in departments : Sees(r, d) /\ d.code = DepartmentSeed[i]
    /\ \A i \in DOMAIN LocationSeed : i + Len(DepartmentSeed) < at[r] =>
           \E n \in locations : Sees(r, n) /\ n.number = LocationSeed[i].number
    /\ \A k \in DOMAIN locByNumber[r] :
           \E n \in locations : Sees(r, n) /\ n.number = k /\ n.id = locByNumber[r][k]

\* No live location stands under a removed one.
LiveParents ==
    \A n \in locations : n.live /\ n.parent # NoNode =>
        \E m \in locations : Sees(n.by, m) /\ m.id = n.parent

QuietInv == ~disturbed => LiveParents /\ \A r \in Running : FoundBy(r)

\* A location as the seed has it.
FromSeed(n, s) ==
    /\ n.number = s.number /\ n.type = s.type /\ (n.departments = {} <=> s.departments = {})
    /\ IF s.parent = NoNode THEN n.parent = NoNode
       ELSE /\ n.parent # NoNode
            /\ \E m \in locations : Sees(n.by, m) /\ m.id = n.parent /\ m.number = s.parent

AllOrNothing ==
    (\E x \in departments \cup locations : x.by = NoRun) =>
        /\ \A i \in DOMAIN DepartmentSeed :
               \E d \in departments : d.by = NoRun /\ d.code = DepartmentSeed[i]
        /\ \A i \in DOMAIN LocationSeed :
               \E n \in locations : n.by = NoRun /\ n.number = LocationSeed[i].number

\* A lone run has looked for the key it saves.
LoneSaves ==
    \A r \in alone : pc[r] = "save" =>
        /\ AtDepartment(r) => \A d \in departments : d.code # Code(r)
        /\ AtLocation(r) => \A n \in locations : n.number # Location(r).number

SeededDepartments == \A d \in departments : d.live /\ d.name = d.code
SeededLocations ==
    \A n \in locations : n.live /\ \E i \in DOMAIN LocationSeed : FromSeed(n, LocationSeed[i])

SeededInv ==
    edits = 0 =>
        /\ SeededDepartments /\ SeededLocations /\ AllOrNothing /\ LoneSaves
        /\ \A r \in alone : pc[r] # "duplicate"

\* A set of numbers has a least one.
LEMMA LeastNat ==
    ASSUME NEW T \in SUBSET Nat, T # {}
    PROVE  \E k \in T : \A j \in T : k <= j
<1> DEFINE R == {ss \in Nat \X Nat : ss[1] < ss[2]}
<1>1. IsWellFoundedOn(R, Nat)
  BY NatLessThanWellFounded, Zenon DEF OpToRel
<1> HIDE DEF R
<1>2. PICK k \in T : \A j \in T : <<j, k>> \notin R
  BY <1>1, WFMin
<1>3. \A j \in T : j < k => <<j, k>> \in R
  BY DEF R
<1>4. \A j \in T : ~(j < k)
  BY <1>2, <1>3
<1> QED BY <1>4

\* and, if it has a bound, a greatest.
LEMMA MaxOfBounded ==
    ASSUME NEW S \in SUBSET Nat, S # {}, NEW b \in Nat, \A x \in S : x <= b
    PROVE  Max(S) \in S /\ \A x \in S : x <= Max(S)
<1> DEFINE T == {k \in Nat : \A x \in S : x <= k}
<1>1. PICK k \in T : \A j \in T : k <= j
  BY LeastNat
<1>2. k \in S
  <2>1. CASE k = 0
    <3>1. PICK x \in S : TRUE
      OBVIOUS
    <3>2. x <= k /\ k \in Nat /\ x \in Nat
      BY <1>1
    <3> QED BY <2>1, <3>1, <3>2
  <2>2. CASE k # 0 /\ k \notin S
    <3>1. k - 1 \in T
      BY <1>1, <2>2
    <3> QED BY <1>1, <3>1
  <2> QED BY <2>1, <2>2
<1> QED BY <1>1, <1>2 DEF Max

\* A new id is a number above all others.
LEMMA NextIdBounds ==
    ASSUME NEW table, BoundedIds(table)
    PROVE  NextId(table) \in Nat /\ \A x \in table : x.id \in 0 .. NextId(table)
<1> DEFINE S == {x.id : x \in table} \cup {0}
<1>1. PICK b \in Nat : \A x \in table : x.id \in 0 .. b
  BY DEF BoundedIds
<1>2. S \in SUBSET Nat /\ S # {} /\ \A k \in S : k <= b
  BY <1>1
<1>3. Max(S) \in S /\ \A k \in S : k <= Max(S)
  BY <1>2, MaxOfBounded
<1> HIDE DEF S
<1>4. NextId(table) = 1 + Max(S) /\ Max(S) \in Nat
  BY <1>2, <1>3 DEF NextId, S
<1>5. \A x \in table : x.id \in S
  BY DEF S
<1> QED BY <1>1, <1>3, <1>4, <1>5

LEMMA RunningAfter ==
    ASSUME RunsOK, NEW q \in Runs, NEW to, Goto(q, to)
    PROVE  Running' = IF to \in {"find", "save"} THEN Running \cup {q} ELSE Running \ {q}
  BY DEF RunsOK, Running, Goto

\* Another run's position and maps.
LEMMA OthersStay ==
    ASSUME SeedInv, NEW q \in Runs, Step(q) \/ Crash(q), NEW r \in Runs \ {q}
    PROVE  /\ pc'[r] = pc[r] /\ at'[r] = at[r]
           /\ locByNumber'[r] = locByNumber[r]
<1> USE DEF SeedInv, RunsOK, Goto, maps
<1>1. CASE Start(q) \/ Commit(q) \/ Crash(q)
  BY <1>1 DEF Start, Commit, Crash, Rollback
<1>2. CASE FindDepartment(q) \/ FindLocation(q)
  BY <1>2 DEF FindDepartment, FindLocation, Put
<1>3. CASE InsertDepartment(q) \/ InsertLocation(q)
  BY <1>3 DEF InsertDepartment, InsertLocation, Insert, Put, Rollback
<1> QED BY <1>1, <1>2, <1>3 DEF Step

\* What the step of a run does to the tables: nothing, a new row, its rows are
\* gone, or they are committed.
LEMMA RunsWrite ==
    ASSUME SeedInv, NEW q \in Runs, Step(q) \/ Crash(q)
    PROVE  /\ UNCHANGED <<edits, disturbed>>
           /\ \/ UNCHANGED tables /\ q \in Running' /\ (q \in Running \/ Start(q))
              \/ /\ InsertDepartment(q) /\ q \in Running /\ q \in Running'
                 /\ departments' = departments \cup
                      {[id |-> NextId(departments), code |-> Code(q), name |-> Code(q),
                        live |-> TRUE, by |-> q]}
                 /\ locations' = locations
              \/ /\ InsertLocation(q) /\ q \in Running /\ q \in Running' /\ Resolved(q)
                 /\ locations' = locations \cup {NewLocation(q)} /\ departments' = departments
              \/ /\ departments' = {d \in departments : d.by # q}
                 /\ locations' = {n \in locations : n.by # q}
                 /\ q \in Running /\ Running' = Running \ {q}
              \/ /\ Commit(q) /\ q \in Running /\ Running' = Running \ {q}
<1>1. CASE Start(q)
  BY <1>1 DEF Start, Running, SeedInv, RunsOK
<1>2. CASE FindDepartment(q) \/ FindLocation(q)
  <2>1. q \in Running /\ UNCHANGED <<tables, edits, disturbed>>
    BY <1>2 DEF FindDepartment, FindLocation, Running
  <2>2. Goto(q, "save") \/ Goto(q, "find")
    BY <1>2 DEF FindDepartment, FindLocation, Put
  <2> QED BY <2>1, <2>2, RunningAfter DEF SeedInv
<1>3. ASSUME NEW why \in Failures, Rollback(q, why), q \in Running
      PROVE  /\ departments' = {d \in departments : d.by # q}
             /\ locations' = {n \in locations : n.by # q}
             /\ Running' = Running \ {q}
  BY <1>3, RunningAfter DEF Rollback, Failures, SeedInv
<1>4. CASE Crash(q)
  BY <1>3, <1>4 DEF Crash, Failures
<1>5. CASE InsertDepartment(q)
  <2>1. pc[q] = "save" /\ q \in Running /\ UNCHANGED <<edits, disturbed>>
    BY <1>5 DEF InsertDepartment, Insert, Running
  <2>2. CASE Rollback(q, "duplicate")
    BY <1>3, <2>1, <2>2 DEF Failures
  <2>3. CASE ~Rollback(q, "duplicate")
    <3>1. /\ departments' = departments \cup
                {[id |-> NextId(departments), code |-> Code(q), name |-> Code(q),
                  live |-> TRUE, by |-> q]}
          /\ locations' = locations /\ Goto(q, "find")
      BY <1>5, <2>3 DEF InsertDepartment, Insert, Put
    <3> QED BY <1>5, <2>1, <3>1, RunningAfter DEF SeedInv
  <2> QED BY <2>2, <2>3
<1>6. CASE InsertLocation(q)
  <2>1. pc[q] = "save" /\ q \in Running /\ UNCHANGED <<edits, disturbed>>
    BY <1>6 DEF InsertLocation, Insert, Running
  <2>2. CASE Rollback(q, "duplicate") \/ Rollback(q, "unresolved")
    BY <1>3, <2>1, <2>2 DEF Failures
  <2>3. CASE ~(Rollback(q, "duplicate") \/ Rollback(q, "unresolved"))
    <3>1. /\ locations' = locations \cup {NewLocation(q)} /\ departments' = departments
          /\ Goto(q, "find") /\ Resolved(q)
      BY <1>6, <2>3 DEF InsertLocation, Insert, Put
    <3> QED BY <1>6, <2>1, <3>1, RunningAfter DEF SeedInv
  <2> QED BY <2>2, <2>3
<1>7. CASE Commit(q)
  <2>1. q \in Running /\ Running' = Running \ {q} /\ UNCHANGED <<edits, disturbed>>
    BY <1>7, RunningAfter DEF Commit, Running, SeedInv
  <2> QED BY <1>7, <2>1
<1> QED BY <1>1, <1>2, <1>4, <1>5, <1>6, <1>7 DEF Step
\* The columns of a location that a run inserts.
LEMMA NewLocationHas ==
    ASSUME NEW q
    PROVE  LET new == NewLocation(q)
           IN  /\ new.id = NextId(locations) /\ new.by = q /\ new.live = TRUE
               /\ new.number = Location(q).number /\ new.type = Location(q).type
               /\ new.parent = IF Location(q).parent = NoNode THEN NoNode
                               ELSE locByNumber[q][Location(q).parent]
               /\ new.departments = {deptByCode[q][c] : c \in Location(q).departments}
<1> DEFINE depts == {deptByCode[q][c] : c \in Location(q).departments}
           par == IF Location(q).parent = NoNode THEN NoNode
                  ELSE locByNumber[q][Location(q).parent]
<1>1. NewLocation(q) = [id |-> NextId(locations), number |-> Location(q).number,
                        type |-> Location(q).type, parent |-> par, departments |-> depts,
                        live |-> TRUE, by |-> q]
  BY DEF NewLocation
<1> HIDE DEF depts, par
<1>2. NewLocation(q).departments = depts /\ NewLocation(q).parent = par
  BY <1>1
<1>3. LET new == NewLocation(q)
      IN  /\ new.id = NextId(locations) /\ new.by = q /\ new.live = TRUE
          /\ new.number = Location(q).number /\ new.type = Location(q).type
  BY <1>1
<1> QED BY <1>2, <1>3 DEF depts, par

\* Rows change hands, ids stay.
LEMMA CommittedRows ==
    ASSUME RowsOK, NEW q \in Runs
    PROVE  /\ \A d \in Committed(q, departments) : \E x \in departments :
                  /\ d.by = IF x.by = q THEN NoRun ELSE x.by
                  /\ d.live = x.live /\ d.code = x.code /\ d.name = x.name /\ d.id = x.id
           /\ \A n \in Committed(q, locations) : \E x \in locations :
                  /\ n.by = IF x.by = q THEN NoRun ELSE x.by
                  /\ n.live = x.live /\ n.number = x.number /\ n.id = x.id /\ n.type = x.type
                  /\ n.parent = x.parent /\ n.departments = x.departments
           /\ \A x \in departments : \E d \in Committed(q, departments) :
                  /\ d.by = IF x.by = q THEN NoRun ELSE x.by
                  /\ d.live = x.live /\ d.code = x.code
           /\ \A x \in locations : \E n \in Committed(q, locations) :
                  /\ n.by = IF x.by = q THEN NoRun ELSE x.by
                  /\ n.live = x.live /\ n.number = x.number /\ n.id = x.id
<1>1. ASSUME NEW x \in departments
      PROVE  LET d == IF x.by = q THEN [x EXCEPT !.by = NoRun] ELSE x
             IN  /\ d.by = IF x.by = q THEN NoRun ELSE x.by
                 /\ d.live = x.live /\ d.code = x.code /\ d.name = x.name /\ d.id = x.id
  <2>1. IsDepartment(x)
    BY DEF RowsOK
  <2> QED BY <2>1 DEF IsDepartment
<1>2. ASSUME NEW x \in locations
      PROVE  LET n == IF x.by = q THEN [x EXCEPT !.by = NoRun] ELSE x
             IN  /\ n.by = IF x.by = q THEN NoRun ELSE x.by
                 /\ n.live = x.live /\ n.number = x.number /\ n.id = x.id /\ n.type = x.type
                 /\ n.parent = x.parent /\ n.departments = x.departments
  <2>1. IsLocation(x)
    BY DEF RowsOK
  <2> QED BY <2>1 DEF IsLocation
<1> QED BY <1>1, <1>2 DEF Committed

\* An edit of a row that users see.
LEMMA EditedRows ==
    ASSUME RowsOK
    PROVE  /\ \A n \in Settled(locations) :
                LET gone == [n EXCEPT !.live = FALSE]
                IN  gone.by = NoRun /\ gone.id = n.id /\ gone.live = FALSE
           /\ \A d \in Settled(departments) :
                /\ [d EXCEPT !.live = FALSE].by = NoRun /\ [d EXCEPT !.live = FALSE].id = d.id
                /\ [d EXCEPT !.code = "NEW"].by = NoRun /\ [d EXCEPT !.code = "NEW"].id = d.id
<1>1. ASSUME NEW n \in Settled(locations)
      PROVE  LET gone == [n EXCEPT !.live = FALSE]
             IN  gone.by = NoRun /\ gone.id = n.id /\ gone.live = FALSE
  <2>1. IsLocation(n) /\ n.by = NoRun
    BY DEF RowsOK, Settled
  <2> QED BY <2>1 DEF IsLocation
<1>2. ASSUME NEW d \in Settled(departments)
      PROVE  /\ [d EXCEPT !.live = FALSE].by = NoRun /\ [d EXCEPT !.live = FALSE].id = d.id
             /\ [d EXCEPT !.code = "NEW"].by = NoRun /\ [d EXCEPT !.code = "NEW"].id = d.id
  <2>1. IsDepartment(d) /\ d.by = NoRun
    BY DEF RowsOK, Settled
  <2> QED BY <2>1 DEF IsDepartment
<1> QED BY <1>1, <1>2

Edited ==
    \/ \E n \in Settled(locations) : RemoveLocation(n)
    \/ \E i \in DOMAIN LocationSeed : AddBuilding(LocationSeed[i].number)
    \/ \E d \in Settled(departments) : RemoveDepartment(d) \/ RecodeDepartment(d)

LEMMA EditKeepsHistory ==
    ASSUME RowsOK, HistoryInv, Edited
    PROVE  HistoryInv'
<1>1. edits \in Nat /\ edits' = edits + 1 /\ UNCHANGED <<pc, at, maps, alone>> /\ disturbed' \in BOOLEAN
  BY DEF Edited, RemoveLocation, AddBuilding, RemoveDepartment, RecodeDepartment, Edit, HistoryInv,
         Counted
<1>2. Unstarted' /\ Counted' /\ Running' = Running
  BY <1>1 DEF HistoryInv, Unstarted, Counted, Running, maps
<1>3. PICK bd \in Nat : \A x \in departments : x.id \in 0 .. bd
  BY DEF HistoryInv, BoundedIds
<1>4. PICK bl \in Nat : \A x \in locations : x.id \in 0 .. bl
  BY DEF HistoryInv, BoundedIds
<1>5. CASE \E n \in Settled(locations) : RemoveLocation(n)
  <2>1. PICK n \in Settled(locations) : RemoveLocation(n)
    BY <1>5
  <2> DEFINE gone == [n EXCEPT !.live = FALSE]
  <2>2. gone.by = NoRun /\ gone.id \in 0 .. bl
    BY <1>4, EditedRows DEF Settled
  <2>3. locations' = (locations \ {n}) \cup {gone} /\ departments' = departments
    BY <2>1 DEF RemoveLocation
  <2> HIDE DEF gone
  <2> QED BY <1>2, <1>3, <1>4, <2>2, <2>3 DEF HistoryInv, Owned, BoundedIds
<1>6. CASE \E i \in DOMAIN LocationSeed : AddBuilding(LocationSeed[i].number)
  <2>1. PICK i \in DOMAIN LocationSeed : AddBuilding(LocationSeed[i].number)
    BY <1>6
  <2> DEFINE new == [id |-> NextId(locations), number |-> LocationSeed[i].number, type |-> "BUILDING",
                     parent |-> NoNode, departments |-> {}, live |-> TRUE, by |-> NoRun]
  <2>2. NextId(locations) \in Nat /\ \A x \in locations : x.id \in 0 .. NextId(locations)
    BY NextIdBounds DEF HistoryInv
  <2>3. new.by = NoRun /\ new.id \in 0 .. NextId(locations)
    BY <2>2
  <2>4. locations' = locations \cup {new} /\ departments' = departments
    BY <2>1 DEF AddBuilding
  <2> HIDE DEF new
  <2>5. BoundedIds(locations')
    BY <2>2, <2>3, <2>4 DEF BoundedIds
  <2>6. Owned'
    BY <1>2, <2>3, <2>4 DEF HistoryInv, Owned
  <2> QED BY <1>2, <1>3, <2>4, <2>5, <2>6 DEF HistoryInv, BoundedIds
<1>7. CASE \E d \in Settled(departments) : RemoveDepartment(d) \/ RecodeDepartment(d)
  <2>1. PICK d \in Settled(departments) : RemoveDepartment(d) \/ RecodeDepartment(d)
    BY <1>7
  <2>2. PICK new : /\ new.by = NoRun /\ new.id \in 0 .. bd
                   /\ departments' = (departments \ {d}) \cup {new} /\ locations' = locations
    BY <1>3, <2>1, EditedRows DEF RemoveDepartment, RecodeDepartment, Settled
  <2> QED BY <1>2, <1>3, <1>4, <2>2 DEF HistoryInv, Owned, BoundedIds
<1> QED BY <1>5, <1>6, <1>7 DEF Edited

LEMMA RunKeepsHistory ==
    ASSUME SeedInv, HistoryInv, NEW q \in Runs, Step(q) \/ Crash(q)
    PROVE  HistoryInv'
<1>1. UNCHANGED <<edits, disturbed>>
  BY RunsWrite
<1>2. Unstarted'
  <2>1. CASE Start(q)
    BY <2>1 DEF Start, maps, HistoryInv, Unstarted, SeedInv, RunsOK
  <2>2. CASE ~Start(q)
    <3>1. pc'[q] # "start"
      BY <2>2 DEF Step, FindDepartment, FindLocation, InsertDepartment, InsertLocation, Insert, Put,
                  Rollback, Goto, Commit, Crash, SeedInv, RunsOK, Failures
    <3> QED BY <3>1, OthersStay DEF HistoryInv, Unstarted
  <2> QED BY <2>1, <2>2
<1>3. Counted'
  <2>1. CASE Start(q)
    <3>1. Running' = Running \cup {q} /\ q \notin Running
      BY <2>1, RunningAfter DEF Start, Goto, Running, SeedInv
    <3> QED BY <1>1, <2>1, <3>1 DEF Start, HistoryInv, Counted
  <2>2. CASE ~Start(q)
    <3>1. alone' = alone /\ q \in Running /\ Running' \subseteq Running
      <4>1. alone' = alone
        BY <2>2 DEF Step, FindDepartment, FindLocation, InsertDepartment, InsertLocation, Insert,
                    Commit, Crash
      <4>2. q \in Running
        BY <2>2, RunsWrite
      <4>3. \A r \in Running' : r \in Running
        BY <4>2, OthersStay DEF Running
      <4> QED BY <4>1, <4>2, <4>3
    <3> QED BY <1>1, <3>1 DEF HistoryInv, Counted
  <2> QED BY <2>1, <2>2
<1>4. Owned' /\ BoundedIds(departments') /\ BoundedIds(locations')
  <2>1. \A r \in Running \ {q} : r \in Running'
    BY OthersStay DEF Running
  <2>2. PICK bd \in Nat : \A x \in departments : x.id \in 0 .. bd
    BY DEF HistoryInv, BoundedIds
  <2>3. PICK bl \in Nat : \A x \in locations : x.id \in 0 .. bl
    BY DEF HistoryInv, BoundedIds
  <2>4. \A x \in departments \cup locations : x.by \in Running \cup {NoRun}
    BY DEF HistoryInv, Owned
  <2>5. CASE UNCHANGED tables /\ q \in Running'
    BY <2>1, <2>2, <2>3, <2>4, <2>5 DEF Owned, BoundedIds, tables
  <2>6. CASE /\ InsertDepartment(q) /\ q \in Running'
             /\ departments' = departments \cup
                  {[id |-> NextId(departments), code |-> Code(q), name |-> Code(q),
                    live |-> TRUE, by |-> q]}
             /\ locations' = locations
    <3> DEFINE id == NextId(departments)
    <3>1. id \in Nat /\ \A x \in departments : x.id \in 0 .. id
      BY NextIdBounds DEF HistoryInv
    <3>2. PICK new : new.id = id /\ new.by = q /\ departments' = departments \cup {new}
      BY <2>6
    <3> HIDE DEF id
    <3>3. BoundedIds(departments')
      BY <3>1, <3>2 DEF BoundedIds
    <3>4. BoundedIds(locations') /\ Owned'
      BY <2>1, <2>3, <2>4, <2>6, <3>2 DEF Owned, BoundedIds
    <3> QED BY <3>3, <3>4
  <2>7. CASE /\ InsertLocation(q) /\ q \in Running'
             /\ locations' = locations \cup {NewLocation(q)} /\ departments' = departments
    <3> DEFINE id == NextId(locations)
    <3>1. id \in Nat /\ \A x \in locations : x.id \in 0 .. id
      BY NextIdBounds DEF HistoryInv
    <3>2. PICK new : new.id = id /\ new.by = q /\ locations' = locations \cup {new}
      BY <2>7, NewLocationHas
    <3> HIDE DEF id
    <3>3. BoundedIds(locations')
      BY <3>1, <3>2 DEF BoundedIds
    <3>4. BoundedIds(departments') /\ Owned'
      BY <2>1, <2>2, <2>4, <2>7, <3>2 DEF Owned, BoundedIds
    <3> QED BY <3>3, <3>4
  <2>8. CASE /\ departments' = {d \in departments : d.by # q}
             /\ locations' = {n \in locations : n.by # q}
    BY <2>1, <2>2, <2>3, <2>4, <2>8 DEF Owned, BoundedIds
  <2>9. CASE Commit(q)
    <3>1. \A d \in departments' : \E x \in departments :
              d.id = x.id /\ d.by = IF x.by = q THEN NoRun ELSE x.by
      BY <2>9, CommittedRows DEF Commit, SeedInv
    <3>2. \A n \in locations' : \E x \in locations :
              n.id = x.id /\ n.by = IF x.by = q THEN NoRun ELSE x.by
      BY <2>9, CommittedRows DEF Commit, SeedInv
    <3> QED BY <2>1, <2>2, <2>3, <2>4, <3>1, <3>2 DEF Owned, BoundedIds
  <2> QED BY <2>5, <2>6, <2>7, <2>8, <2>9, RunsWrite
<1> QED BY <1>2, <1>3, <1>4 DEF HistoryInv

LEMMA HistoryInvariant == Spec => []HistoryInv
<1>1. Init => HistoryInv
  <2> SUFFICES ASSUME Init PROVE HistoryInv
    OBVIOUS
  <2>1. Owned /\ BoundedIds(departments) /\ BoundedIds(locations)
    BY DEF Init, Owned, BoundedIds
  <2>2. Unstarted /\ Counted
    BY DEF Init, Unstarted, Counted, Running, NoMap
  <2> QED BY <2>1, <2>2 DEF HistoryInv
<1>2. SeedInv /\ HistoryInv /\ [Next]_vars => HistoryInv'
  <2> SUFFICES ASSUME SeedInv, HistoryInv, [Next]_vars PROVE HistoryInv'
    OBVIOUS
  <2>1. CASE UNCHANGED vars
    BY <2>1 DEF vars, tables, maps, HistoryInv, Owned, Unstarted, Counted, Running, BoundedIds
  <2>2. CASE \E q \in Runs : Step(q) \/ Crash(q)
    BY <2>2, RunKeepsHistory
  <2>3. CASE Edited
    BY <2>3, EditKeepsHistory DEF SeedInv
  <2> QED BY <2>1, <2>2, <2>3 DEF Next, Edited
<1> QED BY <1>1, <1>2, SeedInvariant, PTL DEF Spec

-----------------------------------------------------------------------------
(* While nobody edits.                                                     *)

\* The rows that a run, or everyone, can see are seen after the step of another
\* run, and after its own unless it is rolled back.
LEMMA SeenStay ==
    ASSUME SeedInv, NEW q \in Runs, Step(q) \/ Crash(q), NEW r \in Runs \cup {NoRun},
           r # q \/ q \in Running'
    PROVE  /\ \A x \in departments : Sees(r, x) =>
                  \E d \in departments' : Sees(r, d) /\ d.code = x.code
           /\ \A x \in locations : Sees(r, x) =>
                  \E n \in locations' : Sees(r, n) /\ n.number = x.number /\ n.id = x.id
<1>1. CASE departments \subseteq departments' /\ locations \subseteq locations'
  BY <1>1
<1>2. CASE /\ departments' = {d \in departments : d.by # q}
           /\ locations' = {n \in locations : n.by # q}
           /\ Running' = Running \ {q}
  <2>1. r # q /\ NoRun # q
    BY <1>2, SeedAssumption
  <2>2. \A x : Sees(r, x) => x.by # q
    BY <2>1 DEF Sees
  <2>3. \A x \in departments : Sees(r, x) => x \in departments'
    BY <1>2, <2>2
  <2>4. \A x \in locations : Sees(r, x) => x \in locations'
    BY <1>2, <2>2
  <2> QED BY <2>3, <2>4
<1>3. CASE Commit(q)
  <2>1. NoRun # q
    BY SeedAssumption
  <2>2. ASSUME NEW x \in departments, Sees(r, x)
        PROVE  \E d \in departments' : Sees(r, d) /\ d.code = x.code
    <3>1. PICK d \in departments' : d.by = (IF x.by = q THEN NoRun ELSE x.by)
                                    /\ d.live = x.live /\ d.code = x.code
      BY <1>3, CommittedRows DEF Commit, SeedInv
    <3> QED BY <2>1, <2>2, <3>1 DEF Sees
  <2>3. ASSUME NEW x \in locations, Sees(r, x)
        PROVE  \E n \in locations' : Sees(r, n) /\ n.number = x.number /\ n.id = x.id
    <3>1. PICK n \in locations' : n.by = (IF x.by = q THEN NoRun ELSE x.by)
                                  /\ n.live = x.live /\ n.number = x.number /\ n.id = x.id
      BY <1>3, CommittedRows DEF Commit, SeedInv
    <3> QED BY <2>1, <2>3, <3>1 DEF Sees
  <2> QED BY <2>2, <2>3
<1> QED BY <1>1, <1>2, <1>3, RunsWrite DEF tables

\* What a run that commits has seen is there for everyone.
LEMMA CommitShows ==
    ASSUME SeedInv, NEW q \in Runs, Commit(q)
    PROVE  /\ \A x \in departments : Sees(q, x) =>
                  \E d \in departments' : d.live /\ d.by = NoRun /\ d.code = x.code
           /\ \A x \in locations : Sees(q, x) =>
                  \E n \in locations' :
                      n.live /\ n.by = NoRun /\ n.number = x.number /\ n.id = x.id
  BY CommittedRows, SeedAssumption DEF Commit, Sees, SeedInv

\* A run that passes a department, or a location, has found its row.
LEMMA DepartmentPassed ==
    ASSUME SeedInv, NEW q \in Runs, Step(q), q \in Running', FoundBy(q), AtDepartment(q),
           at' = [at EXCEPT ![q] = @ + 1], locByNumber' = locByNumber,
           \E d \in departments' : Sees(q, d) /\ d.code = Code(q)
    PROVE  FoundBy(q)'
<1> USE DEF SeedInv, RunsOK
<1>1. at'[q] = at[q] + 1 /\ at[q] \in Int /\ at[q] <= Len(DepartmentSeed)
  BY Sizes DEF AtDepartment
<1>2. ASSUME NEW i \in DOMAIN DepartmentSeed, i < at'[q]
      PROVE  \E d \in departments' : Sees(q, d) /\ d.code = DepartmentSeed[i]
  <2>1. CASE i < at[q]
    BY <2>1, SeenStay DEF FoundBy
  <2>2. CASE i = at[q]
    BY <2>2 DEF Code
  <2> QED BY <1>1, <1>2, <2>1, <2>2, Sizes
<1>3. \A i \in DOMAIN LocationSeed : ~(i + Len(DepartmentSeed) < at'[q])
  BY <1>1, Sizes
<1>4. ASSUME NEW k \in DOMAIN locByNumber'[q]
      PROVE  \E n \in locations' : Sees(q, n) /\ n.number = k /\ n.id = locByNumber'[q][k]
  <2>1. PICK x \in locations : Sees(q, x) /\ x.number = k /\ x.id = locByNumber[q][k]
    BY DEF FoundBy
  <2> QED BY <2>1, SeenStay
<1> QED BY <1>2, <1>3, <1>4 DEF FoundBy

LEMMA LocationPassed ==
    ASSUME SeedInv, NEW q \in Runs, Step(q), q \in Running', FoundBy(q), AtLocation(q),
           NEW id, Put(q, locByNumber, Location(q).number, id),
           \E n \in locations' : Sees(q, n) /\ n.number = Location(q).number /\ n.id = id
    PROVE  FoundBy(q)'
<1> USE DEF SeedInv, RunsOK
<1>1. at'[q] = at[q] + 1 /\ at[q] \in Int /\ Len(DepartmentSeed) < at[q]
  BY Sizes DEF AtLocation, Put
<1>2. ASSUME NEW i \in DOMAIN DepartmentSeed, i < at'[q]
      PROVE  \E d \in departments' : Sees(q, d) /\ d.code = DepartmentSeed[i]
  <2>1. i < at[q]
    BY <1>1, Sizes
  <2> QED BY <2>1, SeenStay DEF FoundBy
<1>3. ASSUME NEW i \in DOMAIN LocationSeed, i + Len(DepartmentSeed) < at'[q]
      PROVE  \E n \in locations' : Sees(q, n) /\ n.number = LocationSeed[i].number
  <2>1. CASE i + Len(DepartmentSeed) < at[q]
    <3>1. PICK x \in locations : Sees(q, x) /\ x.number = LocationSeed[i].number
      BY <2>1 DEF FoundBy
    <3> QED BY <3>1, SeenStay
  <2>2. CASE LocationSeed[i] = Location(q)
    BY <2>2
  <2> QED BY <1>1, <1>3, <2>1, <2>2, PassedLocation
<1>4. ASSUME NEW k \in DOMAIN locByNumber'[q]
      PROVE  \E n \in locations' : Sees(q, n) /\ n.number = k /\ n.id = locByNumber'[q][k]
  <2> DEFINE key == Location(q).number
  <2>1. locByNumber'[q] = [j \in DOMAIN locByNumber[q] \cup {key} |->
                               IF j = key THEN id ELSE locByNumber[q][j]]
    BY DEF Put
  <2>2. CASE k = key
    BY <2>1, <2>2
  <2>3. CASE k # key
    <3>1. k \in DOMAIN locByNumber[q] /\ locByNumber'[q][k] = locByNumber[q][k]
      BY <2>1, <2>3
    <3>2. PICK x \in locations : Sees(q, x) /\ x.number = k /\ x.id = locByNumber[q][k]
      BY <3>1 DEF FoundBy
    <3> QED BY <3>1, <3>2, SeenStay
  <2> QED BY <2>2, <2>3
<1> QED BY <1>2, <1>3, <1>4 DEF FoundBy

LEMMA FoundByStep ==
    ASSUME SeedInv, HistoryInv, NEW q \in Runs, Step(q), q \in Running', ~Start(q) => FoundBy(q)
    PROVE  FoundBy(q)'
<1> USE DEF SeedInv, RunsOK
<1>1. CASE Start(q)
  <2>1. at'[q] = 1 /\ DOMAIN locByNumber'[q] = {}
    BY <1>1 DEF Start, maps, HistoryInv, Unstarted
  <2>2. /\ \A i \in DOMAIN DepartmentSeed : ~(i < 1)
        /\ \A i \in DOMAIN LocationSeed : ~(i + Len(DepartmentSeed) < 1)
    BY Sizes
  <2> QED BY <2>1, <2>2 DEF FoundBy
<1>2. CASE ~Start(q) /\ UNCHANGED <<tables, at, maps>>
  BY <1>2 DEF FoundBy, tables, maps
<1>3. CASE FindDepartment(q) /\ ~UNCHANGED <<at, maps>>
  <2>1. AtDepartment(q) /\ UNCHANGED tables
    BY <1>3 DEF FindDepartment
  <2>2. PICK d \in Visible(q, departments) :
            d.code = Code(q) /\ Put(q, deptByCode, Code(q), d.id) /\ locByNumber' = locByNumber
    BY <1>3 DEF FindDepartment
  <2>3. d \in departments' /\ Sees(q, d)
    BY <2>1, <2>2 DEF Visible, Sees, tables
  <2>4. ~Start(q)
    BY <1>3 DEF FindDepartment, Start
  <2> QED BY <2>1, <2>2, <2>3, <2>4, DepartmentPassed DEF Put
<1>4. CASE FindLocation(q) /\ ~UNCHANGED <<at, maps>>
  <2>1. AtLocation(q) /\ UNCHANGED tables
    BY <1>4 DEF FindLocation
  <2>2. PICK n \in Visible(q, locations) :
            n.number = Location(q).number /\ Put(q, locByNumber, Location(q).number, n.id)
    BY <1>4 DEF FindLocation
  <2>3. n \in locations' /\ Sees(q, n)
    BY <2>1, <2>2 DEF Visible, Sees, tables
  <2>4. ~Start(q)
    BY <1>4 DEF FindLocation, Start
  <2> QED BY <2>1, <2>2, <2>3, <2>4, LocationPassed
<1>5. CASE InsertDepartment(q)
  <2>1. AtDepartment(q) /\ ~Start(q) /\ ~Rollback(q, "duplicate")
    BY <1>5 DEF InsertDepartment, Start, Rollback, Goto, Running
  <2>2. /\ departments' = departments \cup
              {[id |-> NextId(departments), code |-> Code(q), name |-> Code(q),
                live |-> TRUE, by |-> q]}
        /\ Put(q, deptByCode, Code(q), NextId(departments)) /\ locByNumber' = locByNumber
    BY <1>5, <2>1 DEF InsertDepartment, Insert
  <2>3. \E d \in departments' : Sees(q, d) /\ d.code = Code(q)
    <3>1. PICK d : d.live = TRUE /\ d.by = q /\ d.code = Code(q) /\ d \in departments'
      BY <2>2
    <3> QED BY <3>1 DEF Sees
  <2> QED BY <2>1, <2>2, <2>3, DepartmentPassed DEF Put
<1>6. CASE InsertLocation(q)
  <2>1. /\ AtLocation(q) /\ ~Start(q) /\ ~Rollback(q, "duplicate")
        /\ ~Rollback(q, "unresolved")
    BY <1>6 DEF InsertLocation, Start, Rollback, Goto, Running
  <2>2. /\ locations' = locations \cup {NewLocation(q)}
        /\ Put(q, locByNumber, Location(q).number, NewLocation(q).id)
    BY <1>6, <2>1 DEF InsertLocation, Insert
  <2>3. NewLocation(q) \in locations' /\ Sees(q, NewLocation(q))
        /\ NewLocation(q).number = Location(q).number
    BY <2>2, NewLocationHas DEF Sees
  <2> QED BY <2>1, <2>2, <2>3, LocationPassed
<1>7. CASE Commit(q)
  BY <1>7 DEF Commit, Goto, Running
<1> QED BY <1>1, <1>2, <1>3, <1>4, <1>5, <1>6, <1>7 DEF Step, FindDepartment, FindLocation

LEMMA RunKeepsQuiet ==
    ASSUME SeedInv, HistoryInv, QuietInv, NEW q \in Runs, Step(q) \/ Crash(q)
    PROVE  QuietInv'
<1> SUFFICES ASSUME ~disturbed' PROVE LiveParents' /\ \A r \in Running' : FoundBy(r)'
  BY DEF QuietInv
<1>1. LiveParents /\ \A r \in Running : FoundBy(r)
  BY RunsWrite DEF QuietInv
<1>2. ASSUME NEW r \in Running' PROVE FoundBy(r)'
  <2>1. CASE r = q
    <3>1. Step(q) /\ q \in Running'
      BY <1>2, <2>1, RunningAfter DEF Crash, Rollback, SeedInv
    <3>2. ~Start(q) => q \in Running
      BY RunsWrite
    <3> QED BY <1>1, <2>1, <3>1, <3>2, FoundByStep
  <2>2. CASE r # q
    <3>1. r \in Runs /\ r \in Running /\ at'[r] = at[r] /\ locByNumber'[r] = locByNumber[r]
      BY <1>2, <2>2, OthersStay DEF Running
    <3>2. FoundBy(r)
      BY <1>1, <3>1
    <3>3. /\ \A x \in departments : Sees(r, x) =>
                  \E d \in departments' : Sees(r, d) /\ d.code = x.code
          /\ \A x \in locations : Sees(r, x) =>
                  \E n \in locations' : Sees(r, n) /\ n.number = x.number /\ n.id = x.id
      BY <2>2, <3>1, SeenStay
    <3>4. \A i \in DOMAIN DepartmentSeed : i < at'[r] =>
              \E d \in departments' : Sees(r, d) /\ d.code = DepartmentSeed[i]
      BY <3>1, <3>2, <3>3 DEF FoundBy
    <3>5. \A i \in DOMAIN LocationSeed : i + Len(DepartmentSeed) < at'[r] =>
              \E n \in locations' : Sees(r, n) /\ n.number = LocationSeed[i].number
      <4> SUFFICES ASSUME NEW i \in DOMAIN LocationSeed, i + Len(DepartmentSeed) < at'[r]
                   PROVE  \E n \in locations' : Sees(r, n) /\ n.number = LocationSeed[i].number
        OBVIOUS
      <4>1. PICK x \in locations : Sees(r, x) /\ x.number = LocationSeed[i].number
        BY <3>1, <3>2 DEF FoundBy
      <4> QED BY <3>3, <4>1
    <3>6. \A k \in DOMAIN locByNumber'[r] :
              \E n \in locations' : Sees(r, n) /\ n.number = k /\ n.id = locByNumber'[r][k]
      <4> SUFFICES ASSUME NEW k \in DOMAIN locByNumber'[r]
                   PROVE  \E n \in locations' :
                              Sees(r, n) /\ n.number = k /\ n.id = locByNumber'[r][k]
        OBVIOUS
      <4>1. PICK x \in locations : Sees(r, x) /\ x.number = k /\ x.id = locByNumber[r][k]
        BY <3>1, <3>2 DEF FoundBy
      <4> QED BY <3>1, <3>3, <4>1
    <3> QED BY <3>4, <3>5, <3>6 DEF FoundBy
  <2> QED BY <2>1, <2>2
<1>3. ASSUME NEW n \in locations', n.live, n.parent # NoNode
      PROVE  \E m \in locations' : Sees(n.by, m) /\ m.id = n.parent
  <2>1. CASE n \in locations /\ (n.by # q \/ q \in Running')
    <3>1. n.by \in Runs \cup {NoRun}
      BY <2>1 DEF SeedInv, RowsOK, IsLocation
    <3>2. PICK m \in locations : Sees(n.by, m) /\ m.id = n.parent
      BY <1>1, <1>3, <2>1 DEF LiveParents
    <3> QED BY <2>1, <3>1, <3>2, SeenStay
  <2>2. CASE Commit(q)
    <3>1. PICK x \in locations : /\ n.by = IF x.by = q THEN NoRun ELSE x.by
                                 /\ n.live = x.live /\ n.parent = x.parent
      BY <2>2, CommittedRows DEF Commit, SeedInv
    <3>2. PICK m \in locations : Sees(x.by, m) /\ m.id = n.parent
      BY <1>1, <1>3, <3>1 DEF LiveParents
    <3>3. CASE x.by = q
      BY <2>2, <3>1, <3>2, <3>3, CommitShows DEF Sees
    <3>4. CASE x.by # q
      <4>1. x.by \in Runs \cup {NoRun}
        BY DEF SeedInv, RowsOK, IsLocation
      <4> QED BY <3>1, <3>2, <3>4, <4>1, SeenStay
    <3> QED BY <3>3, <3>4
  <2>3. CASE n = NewLocation(q) /\ InsertLocation(q) /\ Resolved(q) /\ q \in Running /\ q \in Running'
    <3>1. n.by = q /\ Location(q).parent # NoNode /\ n.parent = locByNumber[q][Location(q).parent]
      BY <1>3, <2>3, NewLocationHas
    <3>2. Location(q).parent \in DOMAIN locByNumber[q]
      BY <2>3, <3>1 DEF Resolved
    <3>3. PICK m \in locations : Sees(q, m) /\ m.id = n.parent
      BY <1>1, <2>3, <3>1, <3>2 DEF FoundBy
    <3> QED BY <2>3, <3>1, <3>3, SeenStay
  <2> QED BY <1>3, <2>1, <2>2, <2>3, RunsWrite DEF tables
<1> QED BY <1>2, <1>3 DEF LiveParents

\* When users may edit without disturbing a run, every row is committed.
LEMMA EditKeepsQuiet ==
    ASSUME SeedInv, HistoryInv, QuietInv, Edited
    PROVE  QuietInv'
<1> SUFFICES ASSUME ~disturbed' PROVE LiveParents' /\ \A r \in Running' : FoundBy(r)'
  BY DEF QuietInv
<1>1. UNCHANGED pc /\ ~disturbed /\ Running = {}
  BY DEF Edited, RemoveLocation, AddBuilding, RemoveDepartment, RecodeDepartment, Edit, HistoryInv,
         Counted
<1>2. Running' = {}
  BY <1>1 DEF Running
<1>3. LiveParents /\ \A x \in locations : x.by = NoRun
  BY <1>1 DEF QuietInv, HistoryInv, Owned
<1>4. ASSUME NEW n \in Settled(locations), RemoveLocation(n) PROVE LiveParents'
  <2> DEFINE gone == [n EXCEPT !.live = FALSE]
  <2>1. gone.live = FALSE
    BY EditedRows DEF SeedInv
  <2>2. locations' = (locations \ {n}) \cup {gone}
    BY <1>4 DEF RemoveLocation
  <2> HIDE DEF gone
  <2> SUFFICES ASSUME NEW c \in locations', c.live, c.parent # NoNode
               PROVE  \E m \in locations' : Sees(c.by, m) /\ m.id = c.parent
    BY DEF LiveParents
  <2>3. c \in locations /\ c \in Settled(locations)
    BY <1>3, <2>1, <2>2 DEF Settled
  <2>4. PICK m \in locations : Sees(c.by, m) /\ m.id = c.parent
    BY <1>3, <2>3 DEF LiveParents
  <2>5. m # n
    BY <1>4, <2>3, <2>4 DEF RemoveLocation
  <2> QED BY <2>2, <2>4, <2>5
<1>5. ASSUME NEW i \in DOMAIN LocationSeed, AddBuilding(LocationSeed[i].number) PROVE LiveParents'
  <2>1. PICK new : new.parent = NoNode /\ locations' = locations \cup {new}
    BY <1>5 DEF AddBuilding
  <2> QED BY <1>3, <2>1 DEF LiveParents
<1>6. ASSUME locations' = locations PROVE LiveParents'
  BY <1>3, <1>6 DEF LiveParents
<1>7. LiveParents'
  BY <1>4, <1>5, <1>6 DEF Edited, RemoveDepartment, RecodeDepartment
<1> QED BY <1>2, <1>7

LEMMA QuietInvariant == Spec => []QuietInv
<1>1. Init => QuietInv
  BY DEF Init, QuietInv, LiveParents, Running
<1>2. SeedInv /\ HistoryInv /\ QuietInv /\ [Next]_vars => QuietInv'
  <2> SUFFICES ASSUME SeedInv, HistoryInv, QuietInv, [Next]_vars PROVE QuietInv'
    OBVIOUS
  <2>1. CASE UNCHANGED vars
    BY <2>1 DEF vars, tables, maps, QuietInv, LiveParents, FoundBy, Running
  <2>2. CASE \E q \in Runs : Step(q) \/ Crash(q)
    BY <2>2, RunKeepsQuiet
  <2>3. CASE Edited
    BY <2>3, EditKeepsQuiet
  <2> QED BY <2>1, <2>2, <2>3 DEF Next, Edited
<1> QED BY <1>1, <1>2, SeedInvariant, HistoryInvariant, PTL DEF Spec

\* A run that commits has passed the whole seed: what it passed, and the parents
\* of what is live, are then committed.
THEOREM RunRestoresHolds == Spec => RunRestores
<1> DEFINE Restored ==
               /\ \A i \in DOMAIN LocationSeed :
                      \E n \in Settled(locations') : n.number = LocationSeed[i].number
               /\ \A n \in Settled(locations') : n.parent # NoNode =>
                      \E m \in Settled(locations') : m.id = n.parent
           A == \A r \in Runs : pc[r] # "committed" /\ pc'[r] = "committed" /\ ~disturbed => Restored
<1>1. SeedInv /\ HistoryInv /\ QuietInv /\ [Next]_vars => A
  <2> SUFFICES ASSUME SeedInv, HistoryInv, QuietInv, [Next]_vars,
                      NEW r \in Runs, pc[r] # "committed", pc'[r] = "committed", ~disturbed
               PROVE  Restored
    OBVIOUS
  <2>1. ~(UNCHANGED vars) /\ ~Edited
    BY DEF vars, Edited, RemoveLocation, AddBuilding, RemoveDepartment, RecodeDepartment, Edit
  <2>2. PICK q \in Runs : Step(q) \/ Crash(q)
    BY <2>1 DEF Next, Edited
  <2>3. q = r
    BY <2>2, OthersStay
  <2>4. Commit(r)
    BY <2>2, <2>3 DEF Step, Start, FindDepartment, FindLocation, InsertDepartment, InsertLocation,
                      Insert, Put, Rollback, Crash, Goto, SeedInv, RunsOK
  <2>5. LiveParents' /\ FoundBy(r)
    <3>1. r \in Running /\ disturbed' = disturbed
      BY <2>4 DEF Commit, Running
    <3>2. QuietInv'
      BY <2>2, RunKeepsQuiet
    <3> QED BY <3>1, <3>2 DEF QuietInv
  <2>6. ASSUME NEW i \in DOMAIN LocationSeed
        PROVE  \E n \in Settled(locations') : n.number = LocationSeed[i].number
    <3>1. i + Len(DepartmentSeed) < at[r]
      BY <2>4, Sizes DEF Commit, SeedInv, RunsOK
    <3>2. PICK x \in locations : Sees(r, x) /\ x.number = LocationSeed[i].number
      BY <2>5, <3>1 DEF FoundBy
    <3> QED BY <2>4, <3>2, CommitShows DEF Settled
  <2>7. ASSUME NEW n \in Settled(locations'), n.parent # NoNode
        PROVE  \E m \in Settled(locations') : m.id = n.parent
    BY <2>5, <2>7 DEF LiveParents, Settled, Sees
  <2> QED BY <2>6, <2>7
<1>2. [][A]_vars <=> RunRestores
  BY PTL DEF RunRestores
<1> QED BY <1>1, <1>2, SeedInvariant, HistoryInvariant, QuietInvariant, PTL DEF Spec

-----------------------------------------------------------------------------
(* Before any edit.                                                        *)

LEMMA SeededDepartmentsStep ==
    ASSUME SeedInv, SeededDepartments, NEW q \in Runs, Step(q) \/ Crash(q)
    PROVE  SeededDepartments'
<1>1. CASE departments' \subseteq departments
  BY <1>1 DEF SeededDepartments
<1>2. CASE departments' = departments \cup
               {[id |-> NextId(departments), code |-> Code(q), name |-> Code(q),
                 live |-> TRUE, by |-> q]}
  BY <1>2 DEF SeededDepartments
<1>3. CASE Commit(q)
  <2>1. ASSUME NEW d \in departments' PROVE d.live /\ d.name = d.code
    <3>1. PICK x \in departments : d.live = x.live /\ d.code = x.code /\ d.name = x.name
      BY <1>3, CommittedRows DEF Commit, SeedInv
    <3> QED BY <3>1 DEF SeededDepartments
  <2> QED BY <2>1 DEF SeededDepartments
<1> QED BY <1>1, <1>2, <1>3, RunsWrite DEF tables

\* A location stays as the seed has it, its parent where it was.
LEMMA FromSeedStays ==
    ASSUME SeedInv, NEW q \in Runs, Step(q) \/ Crash(q), NEW n \in locations, NEW s,
           n.by # q \/ q \in Running', FromSeed(n, s)
    PROVE  FromSeed(n, s)'
<1>1. n.by \in Runs \cup {NoRun}
  BY DEF SeedInv, RowsOK, IsLocation
<1>2. CASE s.parent = NoNode
  BY <1>2 DEF FromSeed
<1>3. CASE s.parent # NoNode
  <2>1. PICK m \in locations : Sees(n.by, m) /\ m.id = n.parent /\ m.number = s.parent
    BY <1>3 DEF FromSeed
  <2>2. PICK p \in locations' : Sees(n.by, p) /\ p.number = m.number /\ p.id = m.id
    BY <1>1, <2>1, SeenStay
  <2> QED BY <1>3, <2>1, <2>2 DEF FromSeed
<1> QED BY <1>2, <1>3

LEMMA NewFromSeed ==
    ASSUME SeedInv, HistoryInv, NEW q \in Runs, FoundBy(q), InsertLocation(q), Resolved(q),
           q \in Running', NEW new, new = NewLocation(q), NEW s, s = Location(q)
    PROVE  FromSeed(new, s)'
<1>1. /\ new.by = q /\ new.number = s.number /\ new.type = s.type
      /\ new.parent = IF s.parent = NoNode THEN NoNode ELSE locByNumber[q][s.parent]
      /\ new.departments = {deptByCode[q][c] : c \in s.departments}
  BY NewLocationHas
<1>2. new.departments = {} <=> s.departments = {}
  <2> DEFINE F(c) == deptByCode[q][c]
  <2>1. new.departments = {F(c) : c \in s.departments}
    BY <1>1
  <2> HIDE DEF F
  <2> QED BY <2>1
<1>3. CASE s.parent = NoNode
  BY <1>1, <1>2, <1>3 DEF FromSeed
<1>4. ASSUME s.parent # NoNode
      PROVE  /\ new.parent # NoNode
             /\ \E m \in locations' : Sees(q, m) /\ m.id = new.parent /\ m.number = s.parent
  <2>1. s.parent \in DOMAIN locByNumber[q]
    BY <1>4 DEF Resolved
  <2>2. PICK m \in locations : Sees(q, m) /\ m.number = s.parent /\ m.id = new.parent
    BY <1>1, <1>4, <2>1 DEF FoundBy
  <2>3. PICK p \in locations' : Sees(q, p) /\ p.number = m.number /\ p.id = m.id
    BY <2>2, SeenStay DEF Step
  <2>4. m.id \in Nat
    BY DEF HistoryInv, BoundedIds
  <2> QED BY <2>2, <2>3, <2>4, SeedAssumption
<1> QED BY <1>1, <1>2, <1>3, <1>4 DEF FromSeed

LEMMA SeededLocationsStep ==
    ASSUME SeedInv, HistoryInv, SeededLocations, NEW q \in Runs, Step(q) \/ Crash(q),
           q \in Running => FoundBy(q)
    PROVE  SeededLocations'
<1> SUFFICES ASSUME NEW n \in locations'
             PROVE  n.live /\ \E i \in DOMAIN LocationSeed : FromSeed(n, LocationSeed[i])'
  BY DEF SeededLocations
<1>1. CASE n \in locations /\ (n.by # q \/ q \in Running')
  <2>1. PICK i \in DOMAIN LocationSeed : FromSeed(n, LocationSeed[i])
    BY <1>1 DEF SeededLocations
  <2>2. FromSeed(n, LocationSeed[i])'
    <3> DEFINE s == LocationSeed[i]
    <3> HIDE DEF s
    <3>1. FromSeed(n, s)'
      BY <1>1, <2>1, FromSeedStays DEF s
    <3> QED BY <3>1 DEF s
  <2> QED BY <1>1, <2>2 DEF SeededLocations
<1>2. CASE Commit(q)
  <2>1. PICK x \in locations :
            /\ n.by = IF x.by = q THEN NoRun ELSE x.by
            /\ n.live = x.live /\ n.number = x.number /\ n.id = x.id /\ n.type = x.type
            /\ n.parent = x.parent /\ n.departments = x.departments
    BY <1>2, CommittedRows DEF Commit, SeedInv
  <2>2. PICK i \in DOMAIN LocationSeed : FromSeed(x, LocationSeed[i])
    BY DEF SeededLocations
  <2> DEFINE s == LocationSeed[i]
  <2>3. CASE s.parent = NoNode
    BY <2>1, <2>2, <2>3 DEF SeededLocations, FromSeed
  <2>4. CASE s.parent # NoNode
    <3>1. PICK m \in locations : Sees(x.by, m) /\ m.id = n.parent /\ m.number = s.parent
      BY <2>1, <2>2, <2>4 DEF FromSeed
    <3>2. \E p \in locations' : Sees(n.by, p) /\ p.id = n.parent /\ p.number = s.parent
      <4>1. CASE x.by = q
        BY <1>2, <2>1, <3>1, <4>1, CommitShows DEF Sees
      <4>2. CASE x.by # q
        <5>1. x.by \in Runs \cup {NoRun}
          BY DEF SeedInv, RowsOK, IsLocation
        <5> QED BY <2>1, <3>1, <4>2, <5>1, SeenStay
      <4> QED BY <4>1, <4>2
    <3> QED BY <2>1, <2>2, <2>4, <3>2 DEF SeededLocations, FromSeed
  <2> QED BY <2>3, <2>4
<1>3. CASE n = NewLocation(q) /\ InsertLocation(q) /\ Resolved(q) /\ q \in Running /\ q \in Running'
  <2>1. PICK i \in DOMAIN LocationSeed : Location(q) = LocationSeed[i]
    <3>1. at[q] - Len(DepartmentSeed) \in DOMAIN LocationSeed
      BY <1>3, Sizes DEF InsertLocation, AtLocation, SeedInv, RunsOK
    <3> QED BY <3>1 DEF Location
  <2>2. FromSeed(n, LocationSeed[i])'
    <3> DEFINE s == LocationSeed[i]
    <3> HIDE DEF s
    <3>1. s = Location(q)
      BY <2>1 DEF s
    <3>2. FromSeed(n, s)'
      BY <1>3, <3>1, NewFromSeed
    <3> QED BY <3>2 DEF s
  <2> QED BY <1>3, <2>2, NewLocationHas
<1> QED BY <1>1, <1>2, <1>3, RunsWrite DEF tables

LEMMA AllOrNothingStep ==
    ASSUME SeedInv, SeededDepartments, SeededLocations, AllOrNothing, NEW q \in Runs,
           Step(q) \/ Crash(q), q \in Running => FoundBy(q)
    PROVE  AllOrNothing'
<1>1. CASE Commit(q)
  <2>1. FoundBy(q) /\ at[q] > Size
    BY <1>1 DEF Commit, Running
  <2>2. ASSUME NEW i \in DOMAIN DepartmentSeed
        PROVE  \E d \in departments' : d.by = NoRun /\ d.code = DepartmentSeed[i]
    <3>1. i < at[q]
      BY <2>1, Sizes DEF SeedInv, RunsOK
    <3>2. PICK x \in departments : Sees(q, x) /\ x.code = DepartmentSeed[i]
      BY <2>1, <3>1 DEF FoundBy
    <3> QED BY <1>1, <3>2, CommitShows
  <2>3. ASSUME NEW i \in DOMAIN LocationSeed
        PROVE  \E n \in locations' : n.by = NoRun /\ n.number = LocationSeed[i].number
    <3>1. i + Len(DepartmentSeed) < at[q]
      BY <2>1, Sizes DEF SeedInv, RunsOK
    <3>2. PICK x \in locations : Sees(q, x) /\ x.number = LocationSeed[i].number
      BY <2>1, <3>1 DEF FoundBy
    <3> QED BY <1>1, <3>2, CommitShows
  <2> QED BY <2>2, <2>3 DEF AllOrNothing
<1>2. CASE ~Commit(q)
  <2> SUFFICES ASSUME NEW x \in departments' \cup locations', x.by = NoRun PROVE AllOrNothing'
    BY DEF AllOrNothing
  <2>1. NoRun # q
    BY SeedAssumption
  <2>2. x \in departments \cup locations
    <3>1. CASE departments' \subseteq departments /\ locations' \subseteq locations
      BY <3>1
    <3>2. CASE /\ departments' = departments \cup
                      {[id |-> NextId(departments), code |-> Code(q), name |-> Code(q),
                        live |-> TRUE, by |-> q]}
               /\ locations' = locations
      BY <2>1, <3>2
    <3>3. CASE locations' = locations \cup {NewLocation(q)} /\ departments' = departments
      BY <2>1, <3>3, NewLocationHas
    <3> QED BY <1>2, <3>1, <3>2, <3>3, RunsWrite DEF tables
  <2>3. /\ \A i \in DOMAIN DepartmentSeed :
               \E d \in departments : d.by = NoRun /\ d.code = DepartmentSeed[i]
        /\ \A i \in DOMAIN LocationSeed :
               \E n \in locations : n.by = NoRun /\ n.number = LocationSeed[i].number
    BY <2>2 DEF AllOrNothing
  <2>4. /\ \A d \in departments : d.by = NoRun => d \in departments'
        /\ \A n \in locations : n.by = NoRun => n \in locations'
    BY <1>2, <2>1, RunsWrite DEF tables
  <2> QED BY <2>3, <2>4 DEF AllOrNothing
<1> QED BY <1>1, <1>2

\* A lone run is the only one under way.
LEMMA LoneStep ==
    ASSUME SeedInv, HistoryInv, NEW q \in Runs, Step(q) \/ Crash(q),
           NEW r \in alone', r # q
    PROVE  r \in alone /\ ~(pc'[r] \in {"find", "save"})
<1>1. r \in alone /\ r \in Runs
  <2>1. CASE Start(q)
    BY <2>1 DEF Start, HistoryInv, Counted
  <2>2. CASE ~Start(q)
    BY <2>2 DEF Step, FindDepartment, FindLocation, InsertDepartment, InsertLocation, Insert, Commit,
                Crash, HistoryInv, Counted
  <2> QED BY <2>1, <2>2
<1>2. pc'[r] = pc[r]
  BY <1>1, OthersStay
<1>3. ASSUME r \in Running PROVE FALSE
  <2>1. Running = {r}
    BY <1>1, <1>3 DEF HistoryInv, Counted
  <2>2. Start(q)
    BY <2>1, RunsWrite
  <2> QED BY <2>1, <2>2 DEF Start
<1> QED BY <1>1, <1>2, <1>3 DEF Running

LEMMA LoneSavesStep ==
    ASSUME SeedInv, HistoryInv, SeededDepartments, SeededLocations, LoneSaves,
           NEW q \in Runs, Step(q) \/ Crash(q)
    PROVE  LoneSaves'
<1> SUFFICES ASSUME NEW r \in alone', pc'[r] = "save"
             PROVE  /\ AtDepartment(r)' => \A d \in departments' : d.code # Code(r)'
                    /\ AtLocation(r)' => \A n \in locations' : n.number # Location(r)'.number
  BY DEF LoneSaves
<1>1. r = q
  BY LoneStep
<1>2. FindDepartment(q) \/ FindLocation(q)
  BY <1>1 DEF Step, Start, InsertDepartment, InsertLocation, Insert, Put, Rollback, Goto, Commit,
              Crash, SeedInv, RunsOK
<1>3. UNCHANGED <<tables, at, alone>> /\ q \in Running
  BY <1>1, <1>2 DEF FindDepartment, FindLocation, Put, Goto, Running, SeedInv, RunsOK
<1>4. Running = {q}
  BY <1>1, <1>3 DEF HistoryInv, Counted
<1>5. /\ \A d \in departments : d \in Visible(q, departments)
      /\ \A n \in locations : n \in Visible(q, locations)
  BY <1>4 DEF Visible, HistoryInv, Owned, SeededDepartments, SeededLocations
<1>6. CASE FindDepartment(q)
  <2>1. {d \in Visible(q, departments) : d.code = Code(q)} = {}
    BY <1>1, <1>6 DEF FindDepartment, Put, Goto, SeedInv, RunsOK
  <2>2. ~AtLocation(q)
    BY <1>6, Sizes DEF FindDepartment, AtDepartment, AtLocation, SeedInv, RunsOK
  <2> QED BY <1>1, <1>3, <1>5, <2>1, <2>2 DEF AtLocation, Code, tables
<1>7. CASE FindLocation(q)
  <2>1. {n \in Visible(q, locations) : n.number = Location(q).number} = {}
    BY <1>1, <1>7 DEF FindLocation, Put, Goto, SeedInv, RunsOK
  <2>2. ~AtDepartment(q)
    BY <1>7, Sizes DEF FindLocation, AtDepartment, AtLocation, SeedInv, RunsOK
  <2> QED BY <1>1, <1>3, <1>5, <2>1, <2>2 DEF AtDepartment, Location, tables
<1> QED BY <1>2, <1>6, <1>7

LEMMA LoneNeverDuplicates ==
    ASSUME SeedInv, HistoryInv, SeededDepartments, LoneSaves, \A r \in alone : pc[r] # "duplicate",
           NEW q \in Runs, Step(q) \/ Crash(q)
    PROVE  \A r \in alone' : pc'[r] # "duplicate"
<1> SUFFICES ASSUME NEW r \in alone', pc'[r] = "duplicate" PROVE FALSE
  OBVIOUS
<1>1. r = q /\ r \in alone
  <2>1. CASE r # q
    <3>1. r \in alone /\ r \in Runs
      BY <2>1, LoneStep DEF HistoryInv, Counted
    <3>2. pc'[r] = pc[r]
      BY <2>1, <3>1, OthersStay
    <3> QED BY <3>1, <3>2
  <2>2. CASE r = q
    <3>1. CASE Start(q)
      BY <2>2, <3>1 DEF Start, SeedInv, RunsOK
    <3>2. CASE ~Start(q)
      BY <2>2, <3>2 DEF Step, FindDepartment, FindLocation, InsertDepartment, InsertLocation,
                        Insert, Commit, Crash
    <3> QED BY <2>2, <3>1, <3>2
  <2> QED BY <2>1, <2>2
<1>2. InsertDepartment(q) \/ InsertLocation(q)
  BY <1>1 DEF Step, Start, FindDepartment, FindLocation, Put, Rollback, Goto, Commit, Crash, SeedInv,
              RunsOK
<1>3. CASE InsertDepartment(q)
  <2>1. /\ pc[q] = "save" /\ AtDepartment(q)
        /\ {d \in departments : d.live /\ (d.code = Code(q) \/ d.name = Code(q))} # {}
    BY <1>1, <1>3 DEF InsertDepartment, Insert, Put, Goto, SeedInv, RunsOK
  <2> QED BY <1>1, <2>1 DEF LoneSaves, SeededDepartments
<1>4. CASE InsertLocation(q)
  <2>1. /\ pc[q] = "save" /\ AtLocation(q)
        /\ {n \in locations : n.live /\ n.number = Location(q).number} # {}
    BY <1>1, <1>4 DEF InsertLocation, Insert, Put, Rollback, Goto, SeedInv, RunsOK
  <2> QED BY <1>1, <2>1 DEF LoneSaves
<1> QED BY <1>2, <1>3, <1>4

LEMMA SeededInvariant == Spec => []SeededInv
<1>1. Init => SeededInv
  BY DEF Init, SeededInv, SeededDepartments, SeededLocations, AllOrNothing, LoneSaves
<1>2. SeedInv /\ HistoryInv /\ QuietInv /\ SeededInv /\ [Next]_vars => SeededInv'
  <2> SUFFICES ASSUME SeedInv, HistoryInv, QuietInv, SeededInv, [Next]_vars PROVE SeededInv'
    OBVIOUS
  <2>1. CASE UNCHANGED vars
    BY <2>1 DEF vars, tables, maps, SeededInv, SeededDepartments, SeededLocations, AllOrNothing,
                LoneSaves, FromSeed, AtDepartment, AtLocation, Code, Location
  <2>2. ASSUME NEW q \in Runs, Step(q) \/ Crash(q), edits' = 0
        PROVE  /\ SeededDepartments' /\ SeededLocations' /\ AllOrNothing' /\ LoneSaves'
               /\ \A r \in alone' : pc'[r] # "duplicate"
    <3>1. /\ SeededDepartments /\ SeededLocations /\ AllOrNothing /\ LoneSaves
          /\ \A r \in alone : pc[r] # "duplicate"
      BY <2>2, RunsWrite DEF SeededInv
    <3>2. q \in Running => FoundBy(q)
      BY <2>2, RunsWrite DEF HistoryInv, Counted, QuietInv
    <3>3. SeededDepartments'
      BY <2>2, <3>1, SeededDepartmentsStep
    <3>4. SeededLocations'
      BY <2>2, <3>1, <3>2, SeededLocationsStep
    <3>5. AllOrNothing'
      BY <2>2, <3>1, <3>2, AllOrNothingStep
    <3>6. LoneSaves'
      BY <2>2, <3>1, LoneSavesStep
    <3>7. \A r \in alone' : pc'[r] # "duplicate"
      BY <2>2, <3>1, LoneNeverDuplicates
    <3> QED BY <3>3, <3>4, <3>5, <3>6, <3>7
  <2>3. CASE Edited
    <3>1. edits' # 0
      BY <2>3 DEF Edited, RemoveLocation, AddBuilding, RemoveDepartment, RecodeDepartment, Edit,
                  HistoryInv, Counted
    <3> QED BY <3>1 DEF SeededInv
  <2>4. CASE \E q \in Runs : Step(q) \/ Crash(q)
    BY <2>2, <2>4 DEF SeededInv
  <2> QED BY <2>1, <2>3, <2>4 DEF Next, Edited
<1> QED BY <1>1, <1>2, SeedInvariant, HistoryInvariant, QuietInvariant, PTL DEF Spec

\* Without edits a lone run never meets a key it has not found: it commits.
THEOREM LoneRunsCommitHolds == Spec => []LoneRunsCommit
<1>1. SeededInv => LoneRunsCommit
  BY DEF SeededInv, LoneRunsCommit
<1> QED BY <1>1, SeededInvariant, PTL

\* The committed tables are empty or the whole seed, each row once: the first
\* commit brings all rows, and no row comes twice.
THEOREM SeedIsWholeHolds == Spec => []SeedIsWhole
<1>1. SeededInv /\ NoDuplicates => SeedIsWhole
  <2> SUFFICES ASSUME SeededInv, NoDuplicates, edits = 0, ~(Settled(departments) = {} /\ Settled(locations) = {})
               PROVE  /\ \A i \in DOMAIN DepartmentSeed :
                            Cardinality({d \in Settled(departments) : d.code = DepartmentSeed[i]}) = 1
                      /\ \A i \in DOMAIN LocationSeed :
                            Cardinality({n \in Settled(locations) : n.number = LocationSeed[i].number}) = 1
    BY DEF SeedIsWhole, Whole
  <2>1. /\ \A i \in DOMAIN DepartmentSeed :
               \E d \in departments : d.by = NoRun /\ d.code = DepartmentSeed[i]
        /\ \A i \in DOMAIN LocationSeed :
               \E n \in locations : n.by = NoRun /\ n.number = LocationSeed[i].number
    BY DEF SeededInv, AllOrNothing, Settled
  <2>2. \A x \in departments \cup locations : x.live
    BY DEF SeededInv, SeededDepartments, SeededLocations
  <2>3. ASSUME NEW i \in DOMAIN DepartmentSeed
        PROVE  Cardinality({d \in Settled(departments) : d.code = DepartmentSeed[i]}) = 1
    <3>1. PICK d \in departments : d.by = NoRun /\ d.code = DepartmentSeed[i]
      BY <2>1
    <3>2. {e \in Settled(departments) : e.code = DepartmentSeed[i]} = {d}
      BY <2>2, <3>1 DEF NoDuplicates, Settled
    <3> QED BY <3>2, FS_Singleton
  <2>4. ASSUME NEW i \in DOMAIN LocationSeed
        PROVE  Cardinality({n \in Settled(locations) : n.number = LocationSeed[i].number}) = 1
    <3>1. PICK n \in locations : n.by = NoRun /\ n.number = LocationSeed[i].number
      BY <2>1
    <3>2. {m \in Settled(locations) : m.number = LocationSeed[i].number} = {n}
      BY <2>2, <3>1 DEF NoDuplicates, Settled
    <3> QED BY <3>2, FS_Singleton
  <2> QED BY <2>3, <2>4
<1> QED BY <1>1, SeededInvariant, NoDuplicatesHolds, PTL

\* A committed location is one of the seed under the location of its seeded
\* parent, whose type is the one the seed gives that parent.
THEOREM SeedObeysTypesHolds == Spec => []SeedObeysTypes
<1>1. SeededInv => SeedObeysTypes
  <2> SUFFICES ASSUME SeededInv, edits = 0, NEW n \in Settled(locations)
               PROVE  /\ IF n.parent = NoNode THEN TypeRules(n.type).root
                         ELSE \E m \in Settled(locations) :
                                  m.id = n.parent /\ m.type \in TypeRules(n.type).under
                      /\ TypeRules(n.type).bookable <=> n.departments # {}
    BY DEF SeedObeysTypes
  <2>1. PICK i \in DOMAIN LocationSeed : FromSeed(n, LocationSeed[i])
    BY DEF SeededInv, SeededLocations, Settled
  <2> DEFINE s == LocationSeed[i]
  <2>2. TypeRules(s.type).bookable <=> s.departments # {}
    BY SeedRulesAssumption
  <2>3. n.type = s.type /\ (n.departments = {} <=> s.departments = {})
    BY <2>1 DEF FromSeed
  <2>4. CASE s.parent = NoNode
    <3>1. TypeRules(s.type).root
      BY <2>4, SeedRulesAssumption
    <3> QED BY <2>1, <2>2, <2>3, <2>4, <3>1 DEF FromSeed
  <2>5. CASE s.parent # NoNode
    <3>1. PICK m \in locations : Sees(n.by, m) /\ m.id = n.parent /\ m.number = s.parent
      BY <2>1, <2>5 DEF FromSeed
    <3>2. m \in Settled(locations)
      BY <3>1 DEF Sees, Settled
    <3>3. PICK j \in DOMAIN LocationSeed : m.number = LocationSeed[j].number /\ m.type = LocationSeed[j].type
      BY DEF SeededInv, SeededLocations, FromSeed
    <3>4. m.type \in TypeRules(s.type).under
      BY <2>5, <3>1, <3>3, SeedRulesAssumption
    <3>5. n.parent # NoNode
      BY <2>1, <2>5 DEF FromSeed
    <3> QED BY <2>2, <2>3, <3>1, <3>2, <3>4, <3>5
  <2> QED BY <2>4, <2>5
<1> QED BY <1>1, SeededInvariant, PTL

-----------------------------------------------------------------------------
(* Runs that wait.                                                         *)

\* What a run has written and not committed, it has passed.
WrittenPassed ==
    /\ \A d \in departments : d.by # NoRun =>
           \E i \in DOMAIN DepartmentSeed :
               i < at[d.by] /\ d.code = DepartmentSeed[i] /\ d.name = DepartmentSeed[i]
    /\ \A n \in locations : n.by # NoRun =>
           \E i \in DOMAIN LocationSeed :
               i + Len(DepartmentSeed) < at[n.by] /\ n.number = LocationSeed[i].number

\* A run saves keys of the seed only.
SavesKeys == \A r \in Runs : pc[r] = "save" => at[r] <= Size

WaitInv == WrittenPassed /\ SavesKeys

\* A run does not go back.
LEMMA PositionsGrow ==
    ASSUME SeedInv, NEW q \in Runs, Step(q) \/ Crash(q), NEW r \in Runs
    PROVE  at[r] \in Int /\ at'[r] \in Int /\ at[r] <= at'[r]
<1>1. at \in [Runs -> Int]
  BY DEF SeedInv, RunsOK
<1>2. at' = at \/ at' = [at EXCEPT ![q] = @ + 1]
  BY DEF Step, Start, FindDepartment, FindLocation, InsertDepartment, InsertLocation, Insert, Put,
         Rollback, Commit, Crash, maps
<1> QED BY <1>1, <1>2

LEMMA RunKeepsWritten ==
    ASSUME SeedInv, HistoryInv, WrittenPassed, NEW q \in Runs, Step(q) \/ Crash(q)
    PROVE  WrittenPassed'
<1>1. \A x \in departments \cup locations : x.by \in Runs \cup {NoRun}
  BY DEF HistoryInv, Owned, Running
<1>2. ASSUME NEW x \in departments, x.by # NoRun
      PROVE  \E i \in DOMAIN DepartmentSeed :
                 i < at'[x.by] /\ x.code = DepartmentSeed[i] /\ x.name = DepartmentSeed[i]
  <2>1. PICK i \in DOMAIN DepartmentSeed :
            i < at[x.by] /\ x.code = DepartmentSeed[i] /\ x.name = DepartmentSeed[i]
    BY <1>2 DEF WrittenPassed
  <2>2. at[x.by] \in Int /\ at'[x.by] \in Int /\ at[x.by] <= at'[x.by] /\ i \in Int
    BY <1>1, <1>2, PositionsGrow, Sizes
  <2> QED BY <2>1, <2>2
<1>3. ASSUME NEW x \in locations, x.by # NoRun
      PROVE  \E i \in DOMAIN LocationSeed :
                 i + Len(DepartmentSeed) < at'[x.by] /\ x.number = LocationSeed[i].number
  <2>1. PICK i \in DOMAIN LocationSeed :
            i + Len(DepartmentSeed) < at[x.by] /\ x.number = LocationSeed[i].number
    BY <1>3 DEF WrittenPassed
  <2>2. /\ at[x.by] \in Int /\ at'[x.by] \in Int /\ at[x.by] <= at'[x.by]
        /\ i \in Int /\ Len(DepartmentSeed) \in Int
    BY <1>1, <1>3, PositionsGrow, Sizes
  <2> QED BY <2>1, <2>2
<1>4. CASE UNCHANGED tables
  BY <1>2, <1>3, <1>4 DEF WrittenPassed, tables
<1>5. CASE /\ InsertDepartment(q) /\ q \in Running'
           /\ departments' = departments \cup
                {[id |-> NextId(departments), code |-> Code(q), name |-> Code(q),
                  live |-> TRUE, by |-> q]}
           /\ locations' = locations
  <2>1. PICK new : new.by = q /\ new.code = Code(q) /\ new.name = Code(q)
                   /\ departments' = departments \cup {new}
    BY <1>5
  <2>2. at[q] \in DOMAIN DepartmentSeed /\ at[q] \in Int
    BY <1>5, Sizes DEF InsertDepartment, AtDepartment, SeedInv, RunsOK
  <2>3. at'[q] = at[q] + 1
    BY <1>5 DEF InsertDepartment, Insert, Put, Rollback, Running, Goto, SeedInv, RunsOK
  <2>4. at[q] < at'[q] /\ new.code = DepartmentSeed[at[q]] /\ new.name = DepartmentSeed[at[q]]
    BY <2>1, <2>2, <2>3 DEF Code
  <2> QED BY <1>2, <1>3, <1>5, <2>1, <2>2, <2>4 DEF WrittenPassed
<1>6. CASE /\ InsertLocation(q) /\ q \in Running'
           /\ locations' = locations \cup {NewLocation(q)} /\ departments' = departments
  <2> DEFINE i == at[q] - Len(DepartmentSeed)
  <2>1. PICK new : new.by = q /\ new.number = Location(q).number
                   /\ locations' = locations \cup {new}
    BY <1>6, NewLocationHas
  <2>2. at[q] \in Int /\ i \in DOMAIN LocationSeed /\ i + Len(DepartmentSeed) = at[q]
    BY <1>6, Sizes DEF InsertLocation, AtLocation, SeedInv, RunsOK
  <2>3. at'[q] = at[q] + 1
    BY <1>6 DEF InsertLocation, Insert, Put, Rollback, Running, Goto, SeedInv, RunsOK
  <2>4. i + Len(DepartmentSeed) < at'[q] /\ new.number = LocationSeed[i].number
    BY <2>1, <2>2, <2>3 DEF Location
  <2> HIDE DEF i
  <2> QED BY <1>2, <1>3, <1>6, <2>1, <2>2, <2>4 DEF WrittenPassed
<1>7. CASE /\ departments' = {d \in departments : d.by # q}
           /\ locations' = {n \in locations : n.by # q}
  BY <1>2, <1>3, <1>7 DEF WrittenPassed
<1>8. CASE Commit(q)
  <2>1. at' = at
    BY <1>8 DEF Commit
  <2>2. \A d \in departments' : \E x \in departments :
            /\ d.by = IF x.by = q THEN NoRun ELSE x.by
            /\ d.code = x.code /\ d.name = x.name
    BY <1>8, CommittedRows DEF Commit, SeedInv
  <2>3. \A n \in locations' : \E x \in locations :
            /\ n.by = IF x.by = q THEN NoRun ELSE x.by
            /\ n.number = x.number
    BY <1>8, CommittedRows DEF Commit, SeedInv
  <2>4. ASSUME NEW d \in departments', d.by # NoRun
        PROVE  \E i \in DOMAIN DepartmentSeed :
                   i < at'[d.by] /\ d.code = DepartmentSeed[i] /\ d.name = DepartmentSeed[i]
    <3>1. PICK x \in departments : d.by = x.by /\ d.code = x.code /\ d.name = x.name
      BY <2>2, <2>4
    <3> QED BY <1>2, <2>4, <3>1
  <2>5. ASSUME NEW n \in locations', n.by # NoRun
        PROVE  \E i \in DOMAIN LocationSeed :
                   i + Len(DepartmentSeed) < at'[n.by] /\ n.number = LocationSeed[i].number
    <3>1. PICK x \in locations : n.by = x.by /\ n.number = x.number
      BY <2>3, <2>5
    <3> QED BY <1>3, <2>5, <3>1
  <2> QED BY <2>4, <2>5 DEF WrittenPassed
<1> QED BY <1>4, <1>5, <1>6, <1>7, <1>8, RunsWrite

\* Users change committed rows only.
LEMMA EditKeepsWritten ==
    ASSUME RowsOK, WrittenPassed, Edited
    PROVE  WrittenPassed'
<1>1. at' = at
  BY DEF Edited, RemoveLocation, AddBuilding, RemoveDepartment, RecodeDepartment, Edit
<1>2. \A d \in departments' : d.by # NoRun => d \in departments
  BY EditedRows DEF Edited, RemoveLocation, AddBuilding, RemoveDepartment, RecodeDepartment
<1>3. \A n \in locations' : n.by # NoRun => n \in locations
  <2>1. CASE \E n \in Settled(locations) : RemoveLocation(n)
    BY <2>1, EditedRows DEF RemoveLocation
  <2>2. ASSUME NEW number, AddBuilding(number)
        PROVE  \A n \in locations' : n.by # NoRun => n \in locations
    <3>1. PICK new : new.by = NoRun /\ locations' = locations \cup {new}
      BY <2>2 DEF AddBuilding
    <3> QED BY <3>1
  <2>3. CASE locations' = locations
    BY <2>3
  <2> QED BY <2>1, <2>2, <2>3 DEF Edited, RemoveDepartment, RecodeDepartment
<1> QED BY <1>1, <1>2, <1>3 DEF WrittenPassed

\* A run waits only for runs under way that are further on in the seed.
LEMMA WaitsForward ==
    ASSUME SeedInv, HistoryInv, WaitInv, NEW r \in Runs, NEW s \in WaitsFor(r)
    PROVE  s \in Running /\ at[r] < at[s]
<1>1. s # NoRun /\ pc[r] = "save"
  BY DEF WaitsFor
<1>2. at[r] \in Int /\ Len(DepartmentSeed) \in Int
  BY Sizes DEF SeedInv, RunsOK
<1>3. CASE AtDepartment(r)
  <2>1. PICK d \in departments : d.by = s /\ (d.code = Code(r) \/ d.name = Code(r))
    BY <1>3 DEF WaitsFor
  <2>2. PICK i \in DOMAIN DepartmentSeed :
            i < at[s] /\ d.code = DepartmentSeed[i] /\ d.name = DepartmentSeed[i]
    BY <1>1, <2>1 DEF WaitInv, WrittenPassed
  <2>3. at[r] \in DOMAIN DepartmentSeed
    BY <1>2, <1>3, Sizes DEF AtDepartment, SeedInv, RunsOK
  <2>4. at[r] = i
    BY <2>1, <2>2, <2>3, SeedKeysAssumption DEF Code
  <2> QED BY <1>1, <2>1, <2>2, <2>4 DEF HistoryInv, Owned
<1>4. CASE ~AtDepartment(r)
  <2>1. PICK n \in locations : n.by = s /\ n.number = Location(r).number
    BY <1>4 DEF WaitsFor
  <2>2. PICK i \in DOMAIN LocationSeed :
            i + Len(DepartmentSeed) < at[s] /\ n.number = LocationSeed[i].number
    BY <1>1, <2>1 DEF WaitInv, WrittenPassed
  <2> DEFINE j == at[r] - Len(DepartmentSeed)
  <2>3. j \in DOMAIN LocationSeed /\ i \in Int
    BY <1>1, <1>2, <1>4, Sizes DEF AtDepartment, WaitInv, SavesKeys
  <2>4. j = i
    BY <2>1, <2>2, <2>3, SeedKeysAssumption DEF Location
  <2>5. at[r] = i + Len(DepartmentSeed)
    BY <1>2, <2>3, <2>4
  <2> QED BY <1>1, <2>1, <2>2, <2>5 DEF HistoryInv, Owned
<1> QED BY <1>3, <1>4

LEMMA SavesKeysStep ==
    SeedInv /\ SavesKeys /\ [Next]_vars => SavesKeys'
<1> SUFFICES ASSUME SeedInv, SavesKeys, [Next]_vars, NEW r \in Runs, pc'[r] = "save"
             PROVE  at'[r] <= Size
  BY DEF SavesKeys
<1>1. CASE UNCHANGED <<pc, at>>
  BY <1>1 DEF SavesKeys
<1>2. ASSUME NEW q \in Runs, Step(q) \/ Crash(q) PROVE at'[r] <= Size
  <2>1. CASE r # q
    BY <1>2, <2>1, OthersStay DEF SavesKeys
  <2>2. CASE r = q
    <3>1. (FindDepartment(q) \/ FindLocation(q)) /\ at' = at
      BY <1>2, <2>2 DEF Step, Start, FindDepartment, FindLocation, InsertDepartment, InsertLocation,
             Insert, Put, Rollback, Commit, Crash, Goto, SeedInv, RunsOK, Failures
    <3> QED BY <2>2, <3>1, Sizes DEF FindDepartment, FindLocation, AtDepartment, AtLocation, SeedInv, RunsOK
  <2> QED BY <2>1, <2>2
<1>3. CASE Edited
  BY <1>1, <1>3 DEF Edited, RemoveLocation, AddBuilding, RemoveDepartment, RecodeDepartment, Edit
<1>4. CASE UNCHANGED vars
  BY <1>1, <1>4 DEF vars
<1> QED BY <1>2, <1>3, <1>4 DEF Next, Edited

LEMMA WaitInvariant == Spec => []WaitInv
<1>1. Init => WaitInv
  BY DEF Init, WaitInv, WrittenPassed, SavesKeys
<1>2. SeedInv /\ HistoryInv /\ WaitInv /\ [Next]_vars => WaitInv'
  <2> SUFFICES ASSUME SeedInv, HistoryInv, WaitInv, [Next]_vars PROVE WaitInv'
    OBVIOUS
  <2>1. WrittenPassed'
    <3>1. CASE UNCHANGED vars
      BY <3>1 DEF vars, tables, WaitInv, WrittenPassed
    <3>2. CASE \E q \in Runs : Step(q) \/ Crash(q)
      BY <3>2, RunKeepsWritten DEF WaitInv
    <3>3. CASE Edited
      BY <3>3, EditKeepsWritten DEF WaitInv, SeedInv
    <3> QED BY <3>1, <3>2, <3>3 DEF Next, Edited
  <2>2. SavesKeys'
    BY SavesKeysStep DEF WaitInv
  <2> QED BY <2>1, <2>2 DEF WaitInv
<1> QED BY <1>1, <1>2, SeedInvariant, HistoryInvariant, PTL DEF Spec

\* Whatever runs meet, one of them waits for none: the one that is furthest on.
THEOREM SomeRunGoesOnHolds == Spec => []SomeRunGoesOn
<1>1. SeedInv /\ HistoryInv /\ WaitInv => SomeRunGoesOn
  <2> SUFFICES ASSUME SeedInv, HistoryInv, WaitInv, Running # {}
               PROVE  \E r \in Running : WaitsFor(r) = {}
    BY DEF SomeRunGoesOn
  <2> DEFINE positions == {at[r] : r \in Running}
  <2>1. \A r \in Running : r \in Runs /\ at[r] \in Nat /\ at[r] <= Size + 1
    BY Sizes DEF Running, SeedInv, RunsOK
  <2>2. positions \in SUBSET Nat /\ positions # {} /\ \A k \in positions : k <= Size + 1
    BY <2>1
  <2>3. Size + 1 \in Nat
    BY Sizes
  <2>4. Max(positions) \in positions /\ \A k \in positions : k <= Max(positions)
    <3> HIDE DEF positions
    <3> QED BY <2>2, <2>3, MaxOfBounded
  <2>5. PICK r \in Running : at[r] = Max(positions)
    BY <2>4
  <2>6. ASSUME NEW s \in WaitsFor(r) PROVE FALSE
    <3>1. s \in Running /\ at[r] < at[s]
      BY <2>1, <2>6, WaitsForward
    <3>2. at[s] <= at[r]
      BY <2>4, <2>5, <3>1
    <3> QED BY <2>1, <3>1, <3>2
  <2> QED BY <2>6
<1> QED BY <1>1, SeedInvariant, HistoryInvariant, WaitInvariant, PTL
==============================================================================
