-------------------------- MODULE DepartmentProofs ---------------------------
(***************************************************************************)
(* For any number of departments and requests: the unique indexes hold     *)
(* through every interleaving, and until two requests overlap they         *)
(* implement the catalog.                                                  *)
(***************************************************************************)
EXTENDS Departments, TLAPS

\* The inductive invariant of the table and the requests.
DepartmentInv == TypeOK /\ RequestsHoldRows /\ TextsUnique

LEMMA DepartmentInit ==
    Init => DepartmentInv
<1> SUFFICES ASSUME Init PROVE DepartmentInv
    OBVIOUS
<1> USE SeedAssumption DEF Init
<1>1. TypeOK BY DEF TypeOK, Steps
<1>2. RequestsHoldRows BY DEF RequestsHoldRows
<1>3. TextsUnique
    <2>1. rows = InitialRows BY DEF Init
    <2>2. \A d, e \in Live : d # e => /\ Fold[rows[d].code] # Fold[rows[e].code]
                                     /\ Fold[rows[d].name] # Fold[rows[e].name]
        BY <2>1 DEF Live
    <2>3. QED BY <2>2 DEF TextsUnique
<1>4. QED BY <1>1, <1>2, <1>3 DEF DepartmentInv

\* What the body of a request sends.
LEMMA BodyTypes ==
    ASSUME TypeOK, NEW q \in Requests
    PROVE  /\ IsCreate(q) => body[q] \in NewBody
           /\ ~IsCreate(q) => body[q] \in ChangeBody
BY DepartmentAssumption DEF TypeOK, IsCreate, NewBody, ChangeBody

\* A step that writes no row, and leaves a row in the request if it goes on.
LEMMA RequestStep ==
    ASSUME DepartmentInv, NEW q \in Requests, NEW from, NEW to \in Steps, Goto(q, from, to),
           UNCHANGED <<rows, body>>, raced' \in BOOLEAN,
           NEW e \in Row \cup {NoRow}, entity' = [entity EXCEPT ![q] = e],
           NEW s \in Nat, answer' = [answer EXCEPT ![q] = s],
           to \notin {"find", "done"} =>
                /\ e \in Row /\ e.live
                /\ IF IsCreate(q) THEN to # "delete" ELSE rows[body[q].id] # NoRow
    PROVE  DepartmentInv'
<1>1. TypeOK'
    BY DEF DepartmentInv, TypeOK, Goto
<1>2. RequestsHoldRows'
    BY DEF DepartmentInv, RequestsHoldRows, TypeOK, Goto, IsCreate
<1>3. TextsUnique'
    BY DEF DepartmentInv, TextsUnique, Live
<1>4. QED BY <1>1, <1>2, <1>3 DEF DepartmentInv

\* A request that ends without writing.
LEMMA AnswerStep ==
    ASSUME DepartmentInv, NEW q \in Requests, NEW from, NEW status \in Nat,
           Answer(q, from, status), UNCHANGED <<rows, body>>, raced' \in BOOLEAN
    PROVE  DepartmentInv'
<1>1. entity' = [entity EXCEPT ![q] = entity[q]] /\ entity[q] \in Row \cup {NoRow}
    BY DEF Answer, DepartmentInv, TypeOK
<1>2. QED BY <1>1, RequestStep DEF Answer, Steps

\* A request that goes on with a row.
LEMMA KeepStep ==
    ASSUME DepartmentInv, NEW q \in Requests, NEW from, NEW to \in Steps \ {"find", "done"},
           NEW row \in Row, row.live, Keep(q, from, to, row), UNCHANGED <<rows, body>>,
           raced' \in BOOLEAN,
           IF IsCreate(q) THEN to # "delete" ELSE rows[body[q].id] # NoRow
    PROVE  DepartmentInv'
<1>1. answer' = [answer EXCEPT ![q] = answer[q]] /\ answer[q] \in Nat
    BY DEF Keep, DepartmentInv, TypeOK
<1>2. QED BY <1>1, RequestStep DEF Keep

\* Every step preserves the invariant.
LEMMA DepartmentStep ==
    DepartmentInv /\ [Next]_vars => DepartmentInv'
<1> SUFFICES ASSUME DepartmentInv, [Next]_vars PROVE DepartmentInv'
    OBVIOUS
<1> USE DepartmentAssumption
<1>1. CASE UNCHANGED vars
    BY <1>1 DEF vars, requests, DepartmentInv, TypeOK, RequestsHoldRows, TextsUnique,
                Live, IsCreate
<1>2. CASE Next
    <2>1. PICK q \in Requests : Begin(q) \/ CheckCode(q) \/ CheckName(q) \/ Save(q) \/ SoftRemove(q)
        BY <1>2 DEF Next
    <2>2. /\ rows \in [Ids -> Row \cup {NoRow}] /\ raced \in BOOLEAN
          /\ entity[q] \in Row \cup {NoRow}
          /\ IsCreate(q) => body[q] \in NewBody
          /\ ~IsCreate(q) => body[q] \in ChangeBody
        BY BodyTypes DEF DepartmentInv, TypeOK
    <2>3. pc[q] \notin {"find", "done"} =>
            /\ entity[q] \in Row /\ entity[q].live
            /\ IF IsCreate(q) THEN pc[q] # "delete" ELSE rows[body[q].id] # NoRow
        BY DEF DepartmentInv, RequestsHoldRows
    <2>4. CASE Begin(q)
        <3>1. raced' \in BOOLEAN /\ UNCHANGED <<rows, body>>
            BY <2>2, <2>4 DEF Begin
        <3>2. CASE StartCreate(q)
            <4> DEFINE new == [code |-> Trim[body[q].code], name |-> Trim[body[q].name],
                               live |-> TRUE]
            <4>1. new \in Row /\ new.live
                BY <2>2, <3>2 DEF StartCreate, NewBody, Row
            <4>2. Keep(q, "find", "code", new) /\ IsCreate(q)
                BY <3>2 DEF StartCreate
            <4> HIDE DEF new
            <4>3. QED BY <3>1, <4>1, <4>2, KeepStep DEF Steps
        <3>3. CASE FindDepartment(q)
            <4>1. CASE Answer(q, "find", 404)
                BY <3>1, <4>1, AnswerStep
            <4>2. CASE ~Answer(q, "find", 404)
                <5>1. /\ rows[body[q].id] \in Row /\ rows[body[q].id].live /\ ~IsCreate(q)
                      /\ rows[body[q].id] # NoRow
                    BY <2>2, <3>3, <4>2 DEF FindDepartment, Live
                <5>2. \/ Keep(q, "find", "code", rows[body[q].id])
                      \/ Keep(q, "find", "delete", rows[body[q].id])
                    BY <3>3, <4>2 DEF FindDepartment
                <5>3. QED BY <3>1, <5>1, <5>2, KeepStep DEF Steps
            <4>3. QED BY <4>1, <4>2
        <3>4. QED BY <2>4, <3>2, <3>3 DEF Begin
    <2>5. CASE CheckCode(q)
        <3> DEFINE named == [entity[q] EXCEPT !.code = Trim[body[q].code]]
        <3>1. raced' \in BOOLEAN /\ UNCHANGED <<rows, body>> /\ pc[q] = "code"
            BY <2>2, <2>5 DEF CheckCode
        <3>2. CASE Answer(q, "code", 409)
            BY <3>1, <3>2, AnswerStep
        <3>3. CASE Keep(q, "code", "name", entity[q])
            BY <2>3, <3>1, <3>3, KeepStep DEF Steps
        <3>4. CASE body[q].code # Absent /\ Keep(q, "code", "name", named)
            <4>1. named \in Row /\ named.live
                BY <2>2, <2>3, <3>1, <3>4 DEF NewBody, ChangeBody, Row
            <4> HIDE DEF named
            <4>2. QED BY <2>3, <3>1, <3>4, <4>1, KeepStep DEF Steps
        <3>5. QED BY <2>5, <3>2, <3>3, <3>4 DEF CheckCode
    <2>6. CASE CheckName(q)
        <3> DEFINE named == [entity[q] EXCEPT !.name = Trim[body[q].name]]
        <3>1. raced' \in BOOLEAN /\ UNCHANGED <<rows, body>> /\ pc[q] = "name"
            BY <2>2, <2>6 DEF CheckName
        <3>2. CASE Answer(q, "name", 409)
            BY <3>1, <3>2, AnswerStep
        <3>3. CASE Keep(q, "name", "save", entity[q])
            BY <2>3, <3>1, <3>3, KeepStep DEF Steps
        <3>4. CASE body[q].name # Absent /\ Keep(q, "name", "save", named)
            <4>1. named \in Row /\ named.live
                BY <2>2, <2>3, <3>1, <3>4 DEF NewBody, ChangeBody, Row
            <4> HIDE DEF named
            <4>2. QED BY <2>3, <3>1, <3>4, <4>1, KeepStep DEF Steps
        <3>5. QED BY <2>6, <3>2, <3>3, <3>4 DEF CheckName
    <2>7. CASE Save(q)
        <3>1. raced' \in BOOLEAN /\ UNCHANGED body /\ pc[q] = "save"
            BY <2>2, <2>7 DEF Save
        <3>2. CASE UNCHANGED rows
            BY <2>7, <3>1, <3>2, AnswerStep DEF Save
        <3>3. CASE ~UNCHANGED rows
            <4>1. PICK d \in Ids : /\ SavedId(q, d) /\ IndexAllows(d, entity[q])
                                   /\ Answer(q, "save", 200)
                                   /\ rows' = [rows EXCEPT ![d] = entity[q]]
                BY <2>7, <3>3 DEF Save
            <4>2. TypeOK'
                BY <2>3, <3>1, <4>1 DEF DepartmentInv, TypeOK, Answer, Goto, Steps
            <4>3. RequestsHoldRows'
                BY <2>2, <2>3, <3>1, <4>1
                   DEF DepartmentInv, RequestsHoldRows, TypeOK, Answer, Goto, IsCreate
            <4>4. TextsUnique'
                BY <2>2, <4>1 DEF DepartmentInv, TextsUnique, IndexAllows, Live
            <4>5. QED BY <4>2, <4>3, <4>4 DEF DepartmentInv
        <3>4. QED BY <3>2, <3>3
    <2>8. CASE SoftRemove(q)
        <3>1. /\ Answer(q, "delete", 204) /\ UNCHANGED <<body, raced>> /\ pc[q] = "delete"
              /\ rows' = [rows EXCEPT ![body[q].id].live = FALSE]
            BY <2>8 DEF SoftRemove, Answer, Goto
        <3>2. ~IsCreate(q) /\ body[q].id \in Ids /\ rows[body[q].id] \in Row
            BY <2>2, <2>3, <3>1 DEF ChangeBody
        <3>3. rows' \in [Ids -> Row \cup {NoRow}] /\ rows'[body[q].id] # NoRow
            BY <2>2, <3>1, <3>2 DEF Row
        <3>4. \A d \in Ids \ {body[q].id} : rows'[d] = rows[d]
            BY <2>2, <3>1
        <3>5. ~rows'[body[q].id].live
            BY <2>2, <3>1, <3>2 DEF Row
        <3>6. TypeOK'
            BY <3>1, <3>3 DEF DepartmentInv, TypeOK, Answer, Goto, Steps
        <3>7. RequestsHoldRows'
            BY <2>2, <3>1, <3>3, <3>4, BodyTypes
               DEF DepartmentInv, RequestsHoldRows, TypeOK, Answer, Goto, IsCreate, ChangeBody
        <3>8. TextsUnique'
            BY <3>4, <3>5 DEF DepartmentInv, TextsUnique, Live
        <3>9. QED BY <3>6, <3>7, <3>8 DEF DepartmentInv
    <2>9. QED BY <2>1, <2>4, <2>5, <2>6, <2>7, <2>8
<1>3. QED BY <1>1, <1>2

\* The invariant holds in every interleaving of the requests.
THEOREM DepartmentInvariant ==
    Spec => []DepartmentInv
BY DepartmentInit, DepartmentStep, PTL DEF Spec

\* TextsUnique: the indexes stand behind the service's checks, though two
\* requests may both look before either saves.
THEOREM TextsUniqueHolds ==
    Spec => []TextsUnique
BY DepartmentInvariant, PTL DEF DepartmentInv

-----------------------------------------------------------------------------
(* Until two requests overlap they implement the catalog. SerialInv says   *)
(* what a request has found, and the catalog is consistent: together they  *)
(* are inductive for steps that leave raced FALSE.                         *)

AloneInv == DepartmentInv /\ SerialInv /\ Catalog!Consistent

\* The catalog shows the active rows.
LEMMA CatalogShowsRows ==
    ASSUME TypeOK
    PROVE  /\ Catalog!Active = Live
           /\ \A d \in Live : /\ catalog[d].code = rows[d].code
                            /\ catalog[d].name = rows[d].name
<1>1. \A d \in Live : rows[d] \in Row
    BY DEF TypeOK, Live
<1>2. \A d \in Live : catalog[d] = [code |-> rows[d].code, name |-> rows[d].name]
    BY DEF Live, catalog
<1>3. \A d \in Live : catalog[d] \in [code : Texts, name : Texts]
    <2> SUFFICES ASSUME NEW d \in Live PROVE catalog[d] \in [code : Texts, name : Texts]
        OBVIOUS
    <2>1. rows[d].code \in Texts /\ rows[d].name \in Texts
        BY <1>1 DEF Row
    <2>2. catalog[d] = [code |-> rows[d].code, name |-> rows[d].name]
        BY <1>2
    <2> HIDE DEF catalog
    <2>3. QED BY <2>1, <2>2
<1>4. \A d \in Live : catalog[d] \notin {NoRow, Removed}
    BY <1>3, DepartmentAssumption
<1>5. \A d \in Ids \ Live : catalog[d] \in {NoRow, Removed}
    BY DEF Live, catalog
<1>6. Catalog!Active = Live
    <2>1. Live \subseteq Ids BY DEF Live
    <2> HIDE DEF Live, catalog
    <2>2. QED BY <1>4, <1>5, <2>1 DEF Catalog!Active
<1>7. ASSUME NEW d \in Live
      PROVE  catalog[d].code = rows[d].code /\ catalog[d].name = rows[d].name
    <2>1. catalog[d] = [code |-> rows[d].code, name |-> rows[d].name]
        BY <1>2
    <2>2. QED BY <2>1
<1>8. QED BY <1>6, <1>7

\* The catalog is consistent as long as the rows are.
RowsConsistent ==
    \A d, e \in Live : d # e => /\ Fold[rows[d].code] # Fold[rows[e].code]
                              /\ Fold[rows[d].name] # Fold[rows[e].name]

LEMMA LiveIds == Live \subseteq Ids
BY DEF Live

LEMMA ConsistentRows ==
    TypeOK => (Catalog!Consistent <=> RowsConsistent)
BY CatalogShowsRows DEF Catalog!Consistent, Catalog!Free, RowsConsistent

LEMMA ConsistentRowsNext ==
    TypeOK' => (Catalog!Consistent' <=> RowsConsistent')
BY ConsistentRows, PTL

\* The seeded departments are a catalog.
LEMMA AloneInit ==
    Init => AloneInv /\ Catalog!Init
<1> SUFFICES ASSUME Init PROVE AloneInv /\ Catalog!Init
    OBVIOUS
<1>1. DepartmentInv
    BY DepartmentInit
<1>2. SerialInv
    BY DEF Init, SerialInv, InFlight
<1>3. Catalog!Consistent
    <2>1. \A d, e \in Live : d # e => /\ Fold[InitialRows[d].code] # Fold[InitialRows[e].code]
                                     /\ Fold[InitialRows[d].name] # Fold[InitialRows[e].name]
        BY SeedAssumption DEF Init, Live
    <2>2. QED BY <1>1, <2>1, ConsistentRows DEF Init, RowsConsistent, DepartmentInv
<1>4. catalog \in [Ids -> Catalog!Department \cup {NoRow, Removed}]
    BY <1>1 DEF DepartmentInv, TypeOK, catalog, Row, Catalog!Department
<1>5. QED BY <1>1, <1>2, <1>3, <1>4 DEF AloneInv, Catalog!Init

\* A step that is not a save or a removal leaves the catalog alone and keeps
\* what the request has found.
LEMMA AloneReads ==
    ASSUME AloneInv, NEW q \in Requests, Begin(q) \/ CheckCode(q) \/ CheckName(q), ~raced'
    PROVE  AloneInv' /\ UNCHANGED catalog
<1>1. /\ DepartmentInv' /\ UNCHANGED <<rows, body>>
      /\ rows \in [Ids -> Row \cup {NoRow}] /\ TypeOK' /\ TypeOK
    BY DepartmentStep DEF AloneInv, Next, Begin, CheckCode, CheckName, DepartmentInv, TypeOK
<1>2. UNCHANGED catalog /\ Live' = Live
    BY <1>1 DEF catalog, Live
<1>3. Catalog!Consistent'
    BY <1>1, <1>2, ConsistentRows, ConsistentRowsNext DEF AloneInv, RowsConsistent
<1>4. InFlight' \subseteq {q} /\ \A p \in Requests \ {q} : pc'[p] = pc[p]
    <2>1. \A p \in Requests \ {q} : pc'[p] = pc[p]
        BY <1>1 DEF TypeOK, Begin, CheckCode, CheckName, StartCreate, FindDepartment, Keep, Answer, Goto
    <2>2. InFlight \subseteq {q}
        <3>1. CASE Begin(q)
            BY <3>1 DEF Begin
        <3>2. CASE CheckCode(q) \/ CheckName(q)
            BY <3>2 DEF CheckCode, CheckName, AloneInv, SerialInv, InFlight
        <3>3. QED BY <3>1, <3>2
    <2>3. QED BY <2>1, <2>2 DEF InFlight
<1>5. q \in InFlight' => ChecksHold(q)'
    <2> SUFFICES ASSUME q \in InFlight' PROVE ChecksHold(q)'
        OBVIOUS
    <2>1. RowsConsistent /\ Others(q)' = Others(q) /\ IsCreate(q)' = IsCreate(q)
        BY <1>1, <1>2, ConsistentRows DEF AloneInv, Others, IsCreate
    <2>2. /\ IsCreate(q) => body[q] \in NewBody
          /\ ~IsCreate(q) => body[q] \in ChangeBody
        BY <1>1, BodyTypes
    <2>3. pc'[q] # "done" /\ entity[q] \in Row \cup {NoRow}
          /\ pc \in [Requests -> Steps] /\ entity \in [Requests -> Row \cup {NoRow}]
        BY <1>1 DEF InFlight, TypeOK
    <2>4. CASE Begin(q)
        BY <1>1, <1>2, <2>1, <2>3, <2>4
           DEF Begin, StartCreate, FindDepartment, Keep, Answer, Goto, ChecksHold, IsCreate
    <2>5. CASE CheckCode(q) \/ CheckName(q)
        <3>1. ChecksHold(q) /\ entity[q] \in Row
            BY <2>5 DEF AloneInv, SerialInv, InFlight, CheckCode, CheckName,
                        DepartmentInv, RequestsHoldRows
        <3>2. \A d \in Live : rows[d].code \in Texts /\ rows[d].name \in Texts
            BY <1>1 DEF Live, Row
        <3>3. CASE CheckCode(q)
            <4>1. pc'[q] = "name" /\ pc[q] = "code"
                BY <2>3, <3>3 DEF CheckCode, Keep, Answer, Goto
            <4>2. CASE body[q].code = Absent
                <5>1. ~IsCreate(q) /\ entity'[q] = entity[q]
                    BY <2>2, <2>3, <3>3, <4>1, <4>2, DepartmentAssumption
                       DEF CheckCode, Keep, Answer, NewBody
                <5>2. body[q].id \in Live /\ entity[q].code = rows[body[q].id].code
                      /\ entity[q].name = rows[body[q].id].name
                    BY <3>1, <4>1, <5>1 DEF ChecksHold
                <5>3. \A d \in Others(q) : Fold[rows[d].code] # Fold[entity[q].code]
                    BY <2>1, <5>1, <5>2 DEF RowsConsistent, Others
                <5>4. QED BY <1>1, <1>2, <2>1, <4>1, <5>1, <5>2, <5>3 DEF ChecksHold
            <4>3. CASE body[q].code # Absent
                <5> DEFINE text == Trim[body[q].code]
                <5>1. text \in Texts
                    BY <2>2, <4>3, DepartmentAssumption DEF NewBody, ChangeBody
                <5>2. /\ \A d \in Others(q) : <<text, rows[d].code>> \notin ILike
                      /\ entity'[q] = [entity[q] EXCEPT !.code = text]
                    BY <2>3, <3>3, <4>1, <4>3 DEF CheckCode, Keep, Answer, Goto
                <5>3. entity'[q].code = text /\ entity'[q].name = entity[q].name
                    BY <3>1, <5>2 DEF Row
                <5>4. \A d \in Others(q) : Fold[rows[d].code] # Fold[text]
                    BY <3>2, <5>1, <5>2, ILikeAssumption DEF Others
                <5>5. QED BY <1>1, <1>2, <2>1, <3>1, <4>1, <5>3, <5>4 DEF ChecksHold
            <4>4. QED BY <4>2, <4>3
        <3>4. CASE CheckName(q)
            <4>1. pc'[q] = "save" /\ pc[q] = "name"
                BY <2>3, <3>4 DEF CheckName, Keep, Answer, Goto
            <4>2. CASE body[q].name = Absent
                <5>1. ~IsCreate(q) /\ entity'[q] = entity[q]
                    BY <2>2, <2>3, <3>4, <4>1, <4>2, DepartmentAssumption
                       DEF CheckName, Keep, Answer, NewBody
                <5>2. body[q].id \in Live /\ entity[q].name = rows[body[q].id].name
                    BY <3>1, <4>1, <5>1 DEF ChecksHold
                <5>3. \A d \in Others(q) : Fold[rows[d].name] # Fold[entity[q].name]
                    BY <2>1, <5>1, <5>2 DEF RowsConsistent, Others
                <5>4. QED BY <1>1, <1>2, <2>1, <3>1, <4>1, <5>1, <5>2, <5>3 DEF ChecksHold
            <4>3. CASE body[q].name # Absent
                <5> DEFINE text == Trim[body[q].name]
                <5>1. text \in Texts
                    BY <2>2, <4>3, DepartmentAssumption DEF NewBody, ChangeBody
                <5>2. /\ \A d \in Others(q) : <<text, rows[d].name>> \notin ILike
                      /\ entity'[q] = [entity[q] EXCEPT !.name = text]
                    BY <2>3, <3>4, <4>1, <4>3 DEF CheckName, Keep, Answer, Goto
                <5>3. entity'[q].name = text /\ entity'[q].code = entity[q].code
                    BY <3>1, <5>2 DEF Row
                <5>4. \A d \in Others(q) : Fold[rows[d].name] # Fold[text]
                    BY <3>2, <5>1, <5>2, ILikeAssumption DEF Others
                <5>5. QED BY <1>1, <1>2, <2>1, <3>1, <4>1, <5>3, <5>4 DEF ChecksHold
            <4>4. QED BY <4>2, <4>3
        <3>5. QED BY <2>5, <3>3, <3>4
    <2>6. QED BY <2>4, <2>5
<1>6. SerialInv'
    BY <1>4, <1>5 DEF SerialInv
<1>7. QED BY <1>1, <1>2, <1>3, <1>6 DEF AloneInv

\* After a save or a removal by a request that is alone nothing is on its way.
LEMMA AloneEnds ==
    ASSUME AloneInv, NEW q \in Requests, pc[q] \notin {"find", "done"},
           NEW from, NEW status, Answer(q, from, status)
    PROVE  SerialInv'
<1>1. \A p \in InFlight : p = q
    BY DEF AloneInv, SerialInv, InFlight
<1>2. pc' = [pc EXCEPT ![q] = "done"] /\ pc \in [Requests -> Steps]
    BY DEF Answer, Goto, AloneInv, DepartmentInv, TypeOK
<1>3. InFlight' = {}
    BY <1>1, <1>2 DEF InFlight
<1>4. QED BY <1>3 DEF SerialInv

\* The save of a request that is alone is a Create or a Change of the catalog.
LEMMA AloneSave ==
    ASSUME AloneInv, NEW q \in Requests, Save(q)
    PROVE  AloneInv' /\ [Catalog!Next]_catalog
<1>1. /\ TypeOK /\ DepartmentInv' /\ TypeOK' /\ pc[q] = "save" /\ q \in InFlight
      /\ rows \in [Ids -> Row \cup {NoRow}] /\ entity[q] \in Row /\ entity[q].live
    BY DepartmentStep DEF AloneInv, Next, Save, DepartmentInv, TypeOK, RequestsHoldRows, InFlight
<1>2. SerialInv'
    BY <1>1, AloneEnds DEF Save
<1>3. CASE UNCHANGED rows
    BY <1>1, <1>2, <1>3, ConsistentRows, ConsistentRowsNext
       DEF AloneInv, RowsConsistent, Live, catalog
<1>4. CASE ~UNCHANGED rows
    <2>1. PICK d \in Ids : SavedId(q, d) /\ rows' = [rows EXCEPT ![d] = entity[q]]
        BY <1>4 DEF Save
    <2>2. /\ Live' = Live \cup {d} /\ rows'[d] = entity[q] /\ entity[q] # NoRow
          /\ \A e \in Ids \ {d} : rows'[e] = rows[e]
        BY <1>1, <2>1, DepartmentAssumption DEF Live
    <2>3. Others(q) = Live \ {d} /\ (~IsCreate(q) => d \in Live)
        BY <1>1, <2>1 DEF Others, SavedId, Live, AloneInv, SerialInv, ChecksHold
    <2>4. \A e \in Live \ {d} : /\ Fold[rows[e].code] # Fold[entity[q].code]
                               /\ Fold[rows[e].name] # Fold[entity[q].name]
        BY <1>1, <2>3 DEF AloneInv, SerialInv, ChecksHold
    <2>5. Catalog!Consistent'
        <3>1. RowsConsistent
            BY <1>1, ConsistentRows DEF AloneInv
        <3>2. RowsConsistent'
            BY <2>2, <2>4, <3>1, LiveIds DEF RowsConsistent
        <3>3. QED BY <1>1, <3>2, ConsistentRowsNext
    <2> DEFINE new == [code |-> entity[q].code, name |-> entity[q].name]
    <2>6. new \in Catalog!Department /\ catalog' = [catalog EXCEPT ![d] = new]
        BY <1>1, <2>1, <2>2 DEF catalog, Catalog!Department, Row
    <2>7. Catalog!Free(d, new)
        BY <1>1, <2>4, CatalogShowsRows DEF Catalog!Free
    <2>8. catalog[d] = NoRow \/ d \in Catalog!Active
        BY <1>1, <2>1, <2>3, CatalogShowsRows DEF SavedId, catalog
    <2> HIDE DEF new
    <2>9. Catalog!Create(d) \/ Catalog!Change(d)
        BY <2>6, <2>7, <2>8 DEF Catalog!Create, Catalog!Change, Catalog!Put
    <2>10. QED BY <1>1, <1>2, <2>5, <2>9 DEF AloneInv, Catalog!Next
<1>5. QED BY <1>3, <1>4

\* The removal of a request that is alone is a Remove of the catalog.
LEMMA AloneRemove ==
    ASSUME AloneInv, NEW q \in Requests, SoftRemove(q)
    PROVE  AloneInv' /\ [Catalog!Next]_catalog
<1> DEFINE d == body[q].id
<1>1. /\ TypeOK /\ DepartmentInv' /\ TypeOK' /\ pc[q] = "delete" /\ q \in InFlight
      /\ rows \in [Ids -> Row \cup {NoRow}] /\ ~IsCreate(q)
      /\ Answer(q, "delete", 204) /\ rows' = [rows EXCEPT ![d].live = FALSE]
    BY DepartmentStep DEF AloneInv, Next, SoftRemove, Answer, Goto, DepartmentInv, TypeOK,
                          RequestsHoldRows, InFlight
<1>2. SerialInv'
    BY <1>1, AloneEnds
<1>3. d \in Live /\ d \in Ids /\ rows[d] \in Row
    BY <1>1 DEF AloneInv, SerialInv, ChecksHold, Live
<1> HIDE DEF d
<1>4. /\ Live' = Live \ {d} /\ \A e \in Ids \ {d} : rows'[e] = rows[e]
      /\ rows'[d] # NoRow /\ ~rows'[d].live
    <2>1. rows'[d] = [rows[d] EXCEPT !.live = FALSE]
        BY <1>1, <1>3
    <2>2. rows'[d] \in Row /\ ~rows'[d].live
        BY <1>3, <2>1 DEF Row
    <2>3. QED BY <1>1, <1>3, <2>2, DepartmentAssumption DEF Live
<1>5. Catalog!Consistent'
    <2>1. RowsConsistent
        BY <1>1, ConsistentRows DEF AloneInv
    <2>2. RowsConsistent'
        BY <1>4, <2>1, LiveIds DEF RowsConsistent
    <2>3. QED BY <1>1, <2>2, ConsistentRowsNext
<1>6. catalog' = [catalog EXCEPT ![d] = Removed]
    BY <1>3, <1>4 DEF catalog
<1>7. Catalog!Remove(d)
    BY <1>1, <1>3, <1>6, CatalogShowsRows DEF Catalog!Remove
<1>8. QED BY <1>1, <1>2, <1>3, <1>5, <1>7 DEF AloneInv, Catalog!Next

\* A step while no two requests have overlapped.
LEMMA AloneStep ==
    AloneInv /\ [Next /\ ~raced']_vars => AloneInv' /\ [Catalog!Next]_catalog
<1> SUFFICES ASSUME AloneInv, [Next /\ ~raced']_vars
             PROVE  AloneInv' /\ [Catalog!Next]_catalog
    OBVIOUS
<1>1. CASE UNCHANGED vars
    <2>1. DepartmentInv' /\ TypeOK /\ TypeOK'
        BY <1>1, DepartmentStep DEF AloneInv, DepartmentInv
    <2>2. UNCHANGED catalog /\ SerialInv'
        BY <1>1 DEF vars, requests, catalog, AloneInv, SerialInv, InFlight, ChecksHold,
                    Others, IsCreate, Live
    <2>3. Catalog!Consistent'
        BY <1>1, <2>1, ConsistentRows, ConsistentRowsNext
           DEF vars, AloneInv, RowsConsistent, Live
    <2>4. QED BY <2>1, <2>2, <2>3 DEF AloneInv
<1>2. CASE Next /\ ~raced'
    <2>1. PICK q \in Requests : Begin(q) \/ CheckCode(q) \/ CheckName(q) \/ Save(q) \/ SoftRemove(q)
        BY <1>2 DEF Next
    <2>2. QED BY <1>2, <2>1, AloneReads, AloneSave, AloneRemove
<1>3. QED BY <1>1, <1>2

\* Once two requests have overlapped, that is not forgotten.
LEMMA RacedStays ==
    ASSUME DepartmentInv, [Next]_vars, ~raced'
    PROVE  ~raced
BY DEF DepartmentInv, TypeOK, Next, Begin, CheckCode, CheckName, Save, SoftRemove, vars

\* What holds in every state, and what until two requests overlap.
CatalogInv == DepartmentInv /\ (~raced => AloneInv)

LEMMA CatalogStep ==
    CatalogInv /\ [Next]_vars => CatalogInv' /\ [~raced' => Catalog!Next]_catalog
<1> SUFFICES ASSUME CatalogInv, [Next]_vars
             PROVE  CatalogInv' /\ [~raced' => Catalog!Next]_catalog
    OBVIOUS
<1>1. DepartmentInv /\ DepartmentInv'
    BY DepartmentStep DEF CatalogInv
<1>2. CASE raced'
    BY <1>1, <1>2 DEF CatalogInv
<1>3. CASE ~raced'
    <2>1. AloneInv
        BY <1>1, <1>3, RacedStays DEF CatalogInv
    <2>2. [Next /\ ~raced']_vars
        BY <1>3
    <2>3. AloneInv' /\ [Catalog!Next]_catalog
        BY <2>1, <2>2, AloneStep
    <2>4. QED BY <1>1, <2>3 DEF CatalogInv
<1>4. QED BY <1>2, <1>3

\* ImplementsCatalog: until two requests overlap, every request is one step of
\* the catalog, so its codes and names are unique whatever their case.
THEOREM ImplementsCatalogHolds ==
    Spec => ImplementsCatalog
<1>1. Init => CatalogInv /\ Catalog!Init
    BY AloneInit DEF CatalogInv, AloneInv
<1>2. QED BY <1>1, CatalogStep, PTL DEF Spec, ImplementsCatalog

\* What the comment on create promises, until two requests overlap: the service's
\* checks are enough for requests that come one after the other.
THEOREM NoDuplicateUntilRacedHolds == Spec => []NoDuplicateUntilRaced
<1>1. Init => CatalogInv
    BY AloneInit DEF CatalogInv, AloneInv
<1>2. CatalogInv => NoDuplicateUntilRaced
    BY ConsistentRows DEF CatalogInv, AloneInv, DepartmentInv, RowsConsistent, NoDuplicateUntilRaced
<1>3. QED BY <1>1, <1>2, CatalogStep, PTL DEF Spec
==============================================================================
