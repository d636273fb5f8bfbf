--------------------------- MODULE LocationProofs ----------------------------
(***************************************************************************)
(* What the constraints of the locations and location_types tables keep    *)
(* true, for any number of locations, types and requests: TreeInv is       *)
(* inductive. One lemma per kind of step: the statements that only read,   *)
(* save, softRemove, and the first, the checking and the writing steps of  *)
(* /location-types. And what the service adds when requests do not         *)
(* overlap: SerialInv, and with it the steps of LocationDirectory.         *)
(***************************************************************************)
EXTENDS LocationTree, TLAPS

\* The inductive invariant. What a request holds is part of it because save()
\* and the cascade of a new code write it to the tables.
TreeInv ==
    /\ TypeOK
    /\ RequestsHoldRows
    /\ TypeRequestsHoldRows
    /\ NumbersUnique
    /\ EveryNodeHasAType

\* The seeded tables satisfy the invariant, and no request holds anything.
LEMMA TreeInit ==
    Init => TreeInv
<1> SUFFICES ASSUME Init PROVE TreeInv
    OBVIOUS
<1> USE TreeAssumption, SeedAssumption DEF Init, TypesInit
<1>1. TypeOK BY DEF TypeOK, TypesTypeOK, Steps, TypeSteps
<1>2. RequestsHoldRows BY DEF RequestsHoldRows
<1>3. NumbersUnique BY DEF NumbersUnique, Live
<1>4. EveryNodeHasAType BY DEF EveryNodeHasAType, CodesUnique, Known, IdsOf
<1>5. TypeRequestsHoldRows BY DEF TypeRequestsHoldRows
<1>6. QED BY <1>1, <1>2, <1>3, <1>4, <1>5 DEF TreeInv

\* Where a create may be once it has begun.
CreateSteps == {"placement", "number", "bookable", "departments", "save"}

\* A step of a location request that writes no table preserves the invariant if
\* what it leaves in the request is an entity, at a step the request may be at.
LEMMA RequestStep ==
    ASSUME TreeInv, NEW q \in Requests, NEW from, NEW to \in Steps, Goto(q, from, to),
           UNCHANGED <<tables, body, typeRequests>>,
           NEW e \in Row \cup {NoRow}, entity' = [entity EXCEPT ![q] = e],
           NEW t \in Codes \cup {NoNode, Absent}, above' = [above EXCEPT ![q] = t],
           raced' \in BOOLEAN,
           to # "done" => /\ e \in Row
                          /\ IF IsCreate(q) THEN to \in CreateSteps
                             ELSE rows[Sent(q).node] # NoRow
    PROVE  TreeInv'
<1> USE DEF TreeInv, tables, typeRequests, Goto
<1>1. TypeOK'
    BY DEF TypeOK, TypesTypeOK
<1>2. RequestsHoldRows'
    BY DEF RequestsHoldRows, TypeOK, CreateSteps, IsCreate, Sent
<1>3. NumbersUnique' /\ EveryNodeHasAType' /\ TypeRequestsHoldRows'
    BY DEF NumbersUnique, EveryNodeHasAType, CodesUnique, Known, IdsOf, Live, TypeRequestsHoldRows
<1>4. QED BY <1>1, <1>2, <1>3

\* What the body of a request sends.
LEMMA BodyTypes ==
    ASSUME TypeOK, NEW q \in Requests
    PROVE  /\ IsCreate(q) => Sent(q) \in NewBody
           /\ ~IsCreate(q) => Sent(q) \in ChangeBody
BY TreeAssumption DEF TypeOK, IsCreate, Sent, NewBody, ChangeBody

\* Every step of a location request but save and softRemove.
LEMMA ReadingStep ==
    ASSUME TreeInv, NEW q \in Requests,
           FindParent(q) \/ FindNode(q) \/ AssertNumberFree(q) \/ AssertNoCycle(q)
           \/ FindNewParent(q) \/ AssertPlacementAllowed(q) \/ ApplyBookableFields(q)
           \/ ResolveDepartments(q) \/ CountChildren(q)
    PROVE  TreeInv'
<1> USE DEF tables
<1>1. /\ rows \in [Nodes -> Row \cup {NoRow}]
      /\ entity \in [Requests -> Row \cup {NoRow}] /\ raced \in BOOLEAN
      /\ above \in [Requests -> Codes \cup {NoNode, Absent}]
      /\ entity[q] \in Row \cup {NoRow} /\ above[q] \in Codes \cup {NoNode, Absent}
    BY DEF TreeInv, TypeOK
<1>2. pc[q] \notin {"find", "done"} =>
        /\ entity[q] \in Row
        /\ IF IsCreate(q) THEN pc[q] \in CreateSteps ELSE rows[Sent(q).node] # NoRow
    BY DEF TreeInv, RequestsHoldRows, CreateSteps
<1>3. /\ IsCreate(q) => Sent(q) \in NewBody
      /\ ~IsCreate(q) => Sent(q) \in ChangeBody
    BY BodyTypes DEF TreeInv
<1>4. ASSUME NEW from, NEW status, Fail(q, from, status),
             UNCHANGED <<tables, body, typeRequests>>, raced' \in BOOLEAN
      PROVE  TreeInv'
    <2>1. entity' = [entity EXCEPT ![q] = entity[q]] /\ above' = [above EXCEPT ![q] = above[q]]
        BY <1>1, <1>4 DEF Fail
    <2>2. QED BY <1>1, <1>4, <2>1, RequestStep DEF Fail, Steps
<1>5. ASSUME NEW from, NEW to \in Steps, Goto(q, from, to), from \notin {"find", "done"},
             UNCHANGED <<above, tables, body, typeRequests, raced>>,
             NEW e \in Row, entity' = [entity EXCEPT ![q] = e],
             IsCreate(q) => to \in CreateSteps
      PROVE  TreeInv'
    <2>1. above' = [above EXCEPT ![q] = above[q]] /\ raced' \in BOOLEAN
        BY <1>1, <1>5
    <2>2. IF IsCreate(q) THEN to \in CreateSteps ELSE rows[Sent(q).node] # NoRow
        BY <1>2, <1>5 DEF Goto
    <2>3. QED BY <1>1, <1>5, <2>1, <2>2, RequestStep
<1>6. ASSUME NEW from, NEW to \in Steps, Pass(q, from, to), from \notin {"find", "done"},
             UNCHANGED <<tables, body, typeRequests, raced>>,
             IsCreate(q) => to \in CreateSteps
      PROVE  TreeInv'
    <2>1. entity' = [entity EXCEPT ![q] = entity[q]] /\ entity[q] \in Row
        BY <1>1, <1>2, <1>6 DEF Pass, Goto
    <2>2. QED BY <1>5, <1>6, <2>1 DEF Pass
<1>7. CASE FindParent(q)
    <2>1. raced' \in BOOLEAN
        BY <1>1, <1>7 DEF FindParent, Begin
    <2>2. CASE Fail(q, "find", 404)
        BY <1>4, <1>7, <2>1, <2>2 DEF FindParent
    <2>3. CASE ~Fail(q, "find", 404)
        <3> DEFINE b == Sent(q)
                   new == [number |-> b.number, type |-> b.type, parent |-> b.parent,
                           open |-> FALSE, departments |-> {}, live |-> TRUE]
                   t == IF b.parent = NoNode THEN NoNode ELSE rows[b.parent].type
        <3>1. new \in Row
            BY <1>3, <1>7 DEF FindParent, NewBody, Row
        <3>2. t \in Codes \cup {NoNode, Absent}
            BY <1>1, <1>7, <2>3 DEF FindParent, Live, Row
        <3>3. Goto(q, "find", "placement") /\ entity' = [entity EXCEPT ![q] = new]
              /\ above' = [above EXCEPT ![q] = t] /\ IsCreate(q)
              /\ UNCHANGED <<tables, body, typeRequests>>
            BY <1>7, <2>3 DEF FindParent
        <3>4. QED BY <2>1, <3>1, <3>2, <3>3, RequestStep DEF Steps, CreateSteps
    <2>4. QED BY <2>2, <2>3
<1>8. CASE FindNode(q)
    <2>1. raced' \in BOOLEAN
        BY <1>1, <1>8 DEF FindNode, Begin
    <2>2. CASE Fail(q, "find", 404)
        BY <1>4, <1>8, <2>1, <2>2 DEF FindNode
    <2>3. CASE ~Fail(q, "find", 404)
        <3> DEFINE n == Sent(q).node
                   e == [rows[n] EXCEPT !.departments = @ \cap departments]
                   to == IF Sent(q).op = "update" THEN "number" ELSE "children"
        <3>1. n \in Nodes /\ rows[n] \in Row /\ rows[n] # NoRow /\ ~IsCreate(q)
            BY <1>1, <1>8, <2>3 DEF FindNode, Live
        <3>2. e \in Row
            BY <3>1 DEF Row
        <3>3. Goto(q, "find", to) /\ entity' = [entity EXCEPT ![q] = e] /\ to \in Steps
              /\ UNCHANGED <<above, tables, body, typeRequests>>
            BY <1>8, <2>3 DEF FindNode, Keep, Steps
        <3>4. above' = [above EXCEPT ![q] = above[q]]
            BY <1>1, <3>3
        <3>5. QED BY <1>1, <2>1, <3>1, <3>2, <3>3, <3>4, RequestStep
    <2>4. QED BY <2>2, <2>3
<1>9. CASE AssertNumberFree(q)
    <2> DEFINE number == Sent(q).number
               next == IF IsCreate(q) THEN "bookable" ELSE "cycle"
    <2>1. CASE Pass(q, "number", next)
        BY <1>6, <1>9, <2>1 DEF AssertNumberFree, Steps, CreateSteps
    <2>2. CASE Fail(q, "number", 409)
        BY <1>1, <1>4, <1>9, <2>2 DEF AssertNumberFree
    <2>3. CASE ~Pass(q, "number", next) /\ ~Fail(q, "number", 409)
        <3> DEFINE e == [entity[q] EXCEPT !.number = number]
        <3>1. Goto(q, "number", next) /\ Keep(q, e) /\ (IsCreate(q) \/ number # Absent)
            BY <1>9, <2>3 DEF AssertNumberFree
        <3>2. e \in Row
            BY <1>2, <1>3, <3>1 DEF Goto, NewBody, ChangeBody, Row
        <3>3. QED BY <1>5, <1>9, <3>1, <3>2 DEF AssertNumberFree, Keep, Steps, CreateSteps
    <2>4. QED BY <2>1, <2>2, <2>3
<1>10. CASE AssertNoCycle(q)
    <2> DEFINE p == Sent(q).parent
    <2>1. ~IsCreate(q)
        BY <1>2, <1>10 DEF AssertNoCycle, CreateSteps
    <2>2. CASE Pass(q, "cycle", "parent")
        BY <1>6, <1>10, <2>1, <2>2 DEF AssertNoCycle, Steps
    <2>3. CASE Fail(q, "cycle", 400)
        BY <1>1, <1>4, <1>10, <2>3 DEF AssertNoCycle
    <2>4. CASE ~Pass(q, "cycle", "parent") /\ ~Fail(q, "cycle", 400)
        <3> DEFINE e == [entity[q] EXCEPT !.parent = p]
        <3>1. Goto(q, "cycle", "parent") /\ Keep(q, e) /\ p # Absent
            BY <1>10, <2>4 DEF AssertNoCycle
        <3>2. e \in Row
            BY <1>2, <1>3, <2>1, <3>1 DEF Goto, ChangeBody, Row
        <3>3. QED BY <1>5, <1>10, <2>1, <3>1, <3>2 DEF AssertNoCycle, Keep, Steps
    <2>5. QED BY <2>2, <2>3, <2>4
<1>11. CASE FindNewParent(q)
    <2> DEFINE p == entity[q].parent
               t == IF p = NoNode THEN NoNode ELSE rows[p].type
    <2>1. ~IsCreate(q) /\ entity[q] \in Row
        BY <1>2, <1>11 DEF FindNewParent, CreateSteps
    <2>2. CASE Pass(q, "parent", "bookable")
        BY <1>6, <1>11, <2>1, <2>2 DEF FindNewParent, Steps
    <2>3. CASE Fail(q, "parent", 404)
        BY <1>1, <1>4, <1>11, <2>3 DEF FindNewParent
    <2>4. CASE ~Pass(q, "parent", "bookable") /\ ~Fail(q, "parent", 404)
        <3>1. /\ Goto(q, "parent", "placement") /\ above' = [above EXCEPT ![q] = t]
              /\ UNCHANGED <<entity, tables, body, typeRequests, raced>>
              /\ p \in Live \cup {NoNode} /\ pc[q] = "parent"
            BY <1>11, <2>4 DEF FindNewParent
        <3>2. t \in Codes \cup {NoNode, Absent}
            BY <1>1, <3>1 DEF Live, Row
        <3>3. entity' = [entity EXCEPT ![q] = entity[q]] /\ raced' \in BOOLEAN
            BY <1>1, <3>1
        <3>4. rows[Sent(q).node] # NoRow
            BY <1>2, <2>1, <3>1
        <3>5. QED BY <2>1, <3>1, <3>2, <3>3, <3>4, RequestStep DEF Steps
    <2>5. QED BY <2>2, <2>3, <2>4
<1>12. CASE AssertPlacementAllowed(q)
    BY <1>1, <1>4, <1>6, <1>12 DEF AssertPlacementAllowed, Steps, CreateSteps
<1>13. CASE ApplyBookableFields(q)
    <2> DEFINE type == NextType(q)
               applies == IsCreate(q) \/ Sent(q).type # Absent \/ Sent(q).fields # "none"
               typed == [entity[q] EXCEPT !.type = type]
               yes == [typed EXCEPT !.open = IF applies THEN TRUE ELSE @]
               no == [typed EXCEPT !.open = IF applies THEN FALSE ELSE @, !.departments = {}]
    <2>1. entity[q] \in Row
        BY <1>2, <1>13 DEF ApplyBookableFields
    <2>2. typed \in Row
        BY <1>3, <2>1 DEF NextType, NewBody, ChangeBody, Row
    <2>3. yes \in Row /\ no \in Row
        BY <2>2 DEF Row
    <2>4. CASE Fail(q, "bookable", 400) \/ Fail(q, "bookable", 500)
        BY <1>1, <1>4, <1>13, <2>4 DEF ApplyBookableFields
    <2>5. CASE Goto(q, "bookable", "departments") /\ Keep(q, yes)
        BY <1>5, <1>13, <2>3, <2>5 DEF ApplyBookableFields, Keep, Steps, CreateSteps
    <2>6. CASE Goto(q, "bookable", "save") /\ Keep(q, no)
        BY <1>5, <1>13, <2>3, <2>6 DEF ApplyBookableFields, Keep, Steps, CreateSteps
    <2>7. QED BY <1>13, <2>4, <2>5, <2>6 DEF ApplyBookableFields
<1>14. CASE ResolveDepartments(q)
    <2> DEFINE sent == Sent(q).departments
               e == [entity[q] EXCEPT !.departments = sent]
    <2>1. CASE Pass(q, "departments", "save")
        BY <1>6, <1>14, <2>1 DEF ResolveDepartments, Steps, CreateSteps
    <2>2. CASE Fail(q, "departments", 400)
        BY <1>1, <1>4, <1>14, <2>2 DEF ResolveDepartments
    <2>3. CASE ~Pass(q, "departments", "save") /\ ~Fail(q, "departments", 400)
        <3>1. Goto(q, "departments", "save") /\ Keep(q, e) /\ sent # Absent
            BY <1>14, <2>3 DEF ResolveDepartments
        <3>2. e \in Row
            BY <1>2, <1>3, <3>1 DEF Goto, NewBody, ChangeBody, Row
        <3>3. QED BY <1>5, <1>14, <3>1, <3>2 DEF ResolveDepartments, Keep, Steps, CreateSteps
    <2>4. QED BY <2>1, <2>2, <2>3
<1>15. CASE CountChildren(q)
    <2>1. ~IsCreate(q)
        BY <1>2, <1>15 DEF CountChildren, CreateSteps
    <2>2. QED BY <1>1, <1>4, <1>6, <1>15, <2>1 DEF CountChildren, Steps
<1>16. QED BY <1>7, <1>8, <1>9, <1>10, <1>11, <1>12, <1>13, <1>14, <1>15

\* save writes an entity with a known type and an unused number to its own row.
LEMMA SaveStep ==
    ASSUME TreeInv, NEW q \in Requests, Save(q)
    PROVE  TreeInv'
<1> USE DEF TreeInv
<1>1. PICK n \in Nodes :
        /\ SavedNode(q, n) /\ pc[q] = "save"
        /\ \/ Fail(q, "save", 500) /\ UNCHANGED rows
           \/ /\ Known(entity[q].type) /\ NumberUnused(n, entity[q].number)
              /\ Goto(q, "save", "done")
              /\ rows' = [rows EXCEPT ![n] = entity[q]]
              /\ UNCHANGED <<entity, above>>
        /\ UNCHANGED <<types, departments, body, typeRequests, raced>>
    BY DEF Save
<1>2. entity[q] \in Row /\ entity[q] # NoRow
    BY <1>1, TreeAssumption DEF RequestsHoldRows
<1>3. TypeOK'
    BY <1>1, <1>2 DEF TypeOK, TypesTypeOK, typeRequests, Fail, Goto, Steps
<1>4. RequestsHoldRows'
    <2>1. UNCHANGED <<body, entity>> /\ pc' = [pc EXCEPT ![q] = "done"]
        BY <1>1 DEF Fail, Goto
    <2>2. \A m \in Nodes : rows[m] # NoRow => rows'[m] # NoRow
        BY <1>1, <1>2 DEF TypeOK
    <2>3. \A r \in Requests : ~IsCreate(r) => Sent(r).node \in Nodes
        BY BodyTypes DEF ChangeBody
    <2>4. \A r \in Requests : pc'[r] \notin {"find", "done"} => pc'[r] = pc[r]
        BY <2>1 DEF TypeOK
    <2>5. QED BY <2>1, <2>2, <2>3, <2>4 DEF RequestsHoldRows, IsCreate, Sent
<1>5. NumbersUnique'
    BY <1>1, <1>2 DEF NumbersUnique, NumberUnused, Live, TypeOK, Fail
<1>6. EveryNodeHasAType'
    BY <1>1, <1>2 DEF EveryNodeHasAType, CodesUnique, Known, IdsOf, TypeOK, Fail
<1>7. TypeRequestsHoldRows'
    BY <1>1 DEF TypeRequestsHoldRows, typeRequests
<1>8. QED BY <1>3, <1>4, <1>5, <1>6, <1>7

\* softRemove only clears live.
LEMMA SoftRemoveStep ==
    ASSUME TreeInv, NEW q \in Requests, SoftRemove(q)
    PROVE  TreeInv'
<1> USE DEF TreeInv
<1> DEFINE n == Sent(q).node
<1>1. n \in Nodes /\ rows[n] \in Row
    BY BodyTypes, TreeAssumption DEF SoftRemove, Goto, RequestsHoldRows, TypeOK, ChangeBody
<1>2. rows' = [rows EXCEPT ![n] = [rows[n] EXCEPT !.live = FALSE]]
    BY <1>1 DEF SoftRemove, TypeOK
<1>3. [rows[n] EXCEPT !.live = FALSE] \in Row
    BY <1>1 DEF Row
<1>4. TypeOK'
    BY <1>2, <1>3 DEF SoftRemove, TypeOK, TypesTypeOK, typeRequests, Goto, Steps
<1>5. \A m \in Nodes : (rows'[m] # NoRow <=> rows[m] # NoRow) /\ rows'[m].type = rows[m].type
    BY <1>1, <1>2, <1>3, TreeAssumption DEF TypeOK, Row
<1>6. RequestsHoldRows'
    <2>1. UNCHANGED <<body, entity>> /\ pc' = [pc EXCEPT ![q] = "done"]
        BY DEF SoftRemove, Goto
    <2>2. \A r \in Requests : ~IsCreate(r) => Sent(r).node \in Nodes
        BY BodyTypes DEF ChangeBody
    <2>3. \A r \in Requests : pc'[r] \notin {"find", "done"} => pc'[r] = pc[r]
        BY <2>1 DEF TypeOK
    <2>4. QED BY <1>5, <2>1, <2>2, <2>3 DEF RequestsHoldRows, IsCreate, Sent
<1>7. NumbersUnique'
    BY <1>1, <1>2 DEF NumbersUnique, Live, TypeOK, Row
<1>8. EveryNodeHasAType' /\ TypeRequestsHoldRows'
    BY <1>5 DEF SoftRemove, EveryNodeHasAType, TypeRequestsHoldRows, typeRequests,
                CodesUnique, Known, IdsOf
<1>9. QED BY <1>4, <1>6, <1>7, <1>8

\* What the body of a request of /location-types sends.
LEMMA TypeBodyTypes ==
    ASSUME TypeOK, NEW t \in TypeRequests
    PROVE  /\ tbody[t].op = "create" => tbody[t] \in NewTypeBody
           /\ tbody[t].op # "create" => tbody[t] \in ChangeTypeBody
BY TreeAssumption DEF TypeOK, TypesTypeOK, NewTypeBody, ChangeTypeBody

\* The first step of a request of /location-types reads or makes a row.
LEMMA BeginTypeStep ==
    ASSUME TreeInv, NEW t \in TypeRequests, BeginType(t)
    PROVE  TreeInv'
<1> USE DEF TreeInv
<1> DEFINE b == tbody[t]
<1>1. UNCHANGED <<types, rows, departments, requests, tbody>> /\ raced' \in BOOLEAN
    BY DEF BeginType, Begin, StartCreateType, FindType, TypeOK
<1>2. PICK to \in TypeSteps, r \in TypeRow \cup {NoType} :
        /\ tpc' = [tpc EXCEPT ![t] = to] /\ tentity' = [tentity EXCEPT ![t] = r]
        /\ to # "done" => r \in TypeRow
    <2>1. CASE StartCreateType(t)
        <3>1. NewType(b) \in TypeRow
            BY <2>1, TypeBodyTypes DEF StartCreateType, NewType, NewTypeBody, TypeRow
        <3>2. QED BY <2>1, <3>1 DEF StartCreateType, TGoto, TypeSteps
    <2>2. CASE FindType(t)
        <3> DEFINE found == types[b.id]
                   r == IF b.op = "update" THEN Merged(found, b) ELSE found
        <3>1. b \in ChangeTypeBody /\ found \in TypeRow \cup {NoType}
            BY <2>2, TypeBodyTypes DEF FindType, TypeOK, TypesTypeOK, ChangeTypeBody
        <3>2. CASE found = NoType
            <4>1. tentity' = [tentity EXCEPT ![t] = tentity[t]]
                  /\ tentity[t] \in TypeRow \cup {NoType}
                BY <2>2, <3>2 DEF FindType, TypeOK, TypesTypeOK
            <4>2. QED BY <2>2, <3>2, <4>1 DEF FindType, TGoto, TypeSteps
        <3>3. CASE found # NoType
            <4>1. r \in TypeRow
                BY <3>1, <3>3 DEF Merged, ChangeTypeBody, TypeRow
            <4>2. QED BY <2>2, <3>3, <4>1 DEF FindType, TGoto, TypeSteps
        <3>4. QED BY <3>2, <3>3
    <2>3. QED BY <2>1, <2>2 DEF BeginType
<1>3. TypeOK'
    BY <1>1, <1>2 DEF TypeOK, TypesTypeOK, requests
<1>4. RequestsHoldRows' /\ NumbersUnique' /\ EveryNodeHasAType'
    BY <1>1 DEF requests, RequestsHoldRows, IsCreate, Sent, NumbersUnique, Live,
                EveryNodeHasAType, CodesUnique, Known, IdsOf
<1>5. TypeRequestsHoldRows'
    BY <1>2 DEF TypeRequestsHoldRows, TypeOK, TypesTypeOK
<1>6. QED BY <1>3, <1>4, <1>5

\* assertCodeFree and the count of locations only move their request on.
LEMMA CheckTypeStep ==
    ASSUME TreeInv, NEW t \in TypeRequests, CheckType(t)
    PROVE  TreeInv'
<1> USE DEF TreeInv
<1>1. UNCHANGED <<types, rows, departments, requests, tbody, tentity, raced>>
    BY DEF CheckType, AssertCodeFree, CountLocations
<1>2. PICK to \in TypeSteps : tpc' = [tpc EXCEPT ![t] = to] /\ tpc[t] \notin {"start", "done"}
    BY DEF CheckType, AssertCodeFree, CountLocations, TGoto, TypeSteps
<1>3. TypeOK'
    BY <1>1, <1>2 DEF TypeOK, TypesTypeOK, requests
<1>4. RequestsHoldRows' /\ NumbersUnique' /\ EveryNodeHasAType'
    BY <1>1 DEF requests, RequestsHoldRows, IsCreate, Sent, NumbersUnique, Live,
                EveryNodeHasAType, CodesUnique, Known, IdsOf
<1>5. TypeRequestsHoldRows'
    BY <1>1, <1>2 DEF TypeRequestsHoldRows, TypeOK, TypesTypeOK
<1>6. QED BY <1>3, <1>4, <1>5

\* What save and delete do to location_types: nothing, or a row with a code no
\* other row has, or the end of a row no location refers to.
LEMMA TypesWritten ==
    ASSUME TreeInv, NEW t \in TypeRequests, SaveType(t) \/ DeleteType(t, ReferencedCodes)
    PROVE  /\ UNCHANGED <<tbody, tentity>>
           /\ tpc' = [tpc EXCEPT ![t] = "done"]
           /\ \/ types' = types
              \/ \E i \in TypeIds, r \in TypeRow :
                    types' = [types EXCEPT ![i] = r] /\ IdsOf(r.code) \subseteq {i}
              \/ \E i \in TypeIds :
                    /\ types' = [types EXCEPT ![i] = NoType]
                    /\ types[i] # NoType => types[i].code \notin ReferencedCodes
<1> USE DEF TreeInv
<1>1. CASE SaveType(t)
    <2>1. tentity[t] \in TypeRow
        BY <1>1 DEF SaveType, TGoto, TypeRequestsHoldRows
    <2>2. QED BY <1>1, <2>1 DEF SaveType, TGoto
<1>2. CASE DeleteType(t, ReferencedCodes)
    <2> DEFINE i == tbody[t].id
    <2>1. CASE i \in TypeIds
        BY <1>2, <2>1 DEF DeleteType, TGoto
    <2>2. CASE i \notin TypeIds
        <3>1. [types EXCEPT ![i] = NoType] = types
            BY <2>2 DEF TypeOK, TypesTypeOK
        <3>2. QED BY <1>2, <3>1 DEF DeleteType, TGoto
    <2>3. QED BY <2>1, <2>2
<1>3. QED BY <1>1, <1>2

\* The foreign key: the cascade takes every code in use to a code in use.
LEMMA CascadeKeepsTypes ==
    ASSUME TreeInv, NEW t \in TypeRequests, SaveType(t) \/ DeleteType(t, ReferencedCodes),
           NEW n \in Nodes, rows[n] # NoRow
    PROVE  \E j \in TypeIds : types'[j] \in TypeRow /\ types'[j].code = Cascaded(rows[n].type)
<1> USE DEF TreeInv
<1> DEFINE c == rows[n].type
<1>1. types \in [TypeIds -> TypeRow \cup {NoType}] /\ c \in ReferencedCodes
    BY DEF TypeOK, TypesTypeOK, ReferencedCodes
<1>2. PICK j \in TypeIds : IdsOf(c) = {j} /\ types[j] # NoType /\ types[j].code = c
    BY DEF EveryNodeHasAType, CodesUnique, Known, IdsOf
<1>3. types'[j] \in TypeRow
    <2>1. CASE types' = types
        BY <1>1, <1>2, <2>1
    <2>2. CASE \E i \in TypeIds, r \in TypeRow :
                types' = [types EXCEPT ![i] = r] /\ IdsOf(r.code) \subseteq {i}
        BY <1>1, <1>2, <2>2
    <2>3. CASE \E i \in TypeIds :
                /\ types' = [types EXCEPT ![i] = NoType]
                /\ types[i] # NoType => types[i].code \notin ReferencedCodes
        BY <1>1, <1>2, <2>3
    <2>4. QED BY <2>1, <2>2, <2>3, TypesWritten
<1>4. (CHOOSE k \in {j} : TRUE) = j
    OBVIOUS
<1>5. Cascaded(c) = types'[j].code
    BY <1>2, <1>3, <1>4, TreeAssumption DEF Cascaded
<1>6. QED BY <1>3, <1>5

\* save and delete of a type, with the cascade to the locations.
LEMMA WriteTypeStep ==
    ASSUME TreeInv, NEW t \in TypeRequests, WriteType(t)
    PROVE  TreeInv'
<1> USE DEF TreeInv
<1>1. /\ UNCHANGED <<departments, requests, raced, tbody, tentity>>
      /\ tpc' = [tpc EXCEPT ![t] = "done"]
    BY TypesWritten DEF WriteType
<1>2. types' \in [TypeIds -> TypeRow \cup {NoType}]
    BY TypesWritten DEF WriteType, TypeOK, TypesTypeOK
<1>3. \A n \in Nodes : rows[n] # NoRow => Cascaded(rows[n].type) \in Codes
    BY CascadeKeepsTypes DEF WriteType, TypeRow
<1>4. \A n \in Nodes : rows'[n] = IF rows[n] = NoRow THEN NoRow
                        ELSE [rows[n] EXCEPT !.type = Cascaded(rows[n].type)]
    BY DEF WriteType
<1>5. \A n \in Nodes : rows[n] # NoRow =>
        [rows[n] EXCEPT !.type = Cascaded(rows[n].type)] \in Row
    BY <1>3 DEF TypeOK, Row
<1>6. rows' \in [Nodes -> Row \cup {NoRow}]
    BY <1>5 DEF WriteType
<1>7. \A n \in Nodes : rows'[n] # NoRow <=> rows[n] # NoRow
    BY <1>4, <1>5, TreeAssumption
<1>8. TypeOK'
    BY <1>1, <1>2, <1>6 DEF TypeOK, TypesTypeOK, requests, TypeSteps
<1>9. RequestsHoldRows'
    <2>1. \A r \in Requests : ~IsCreate(r) => Sent(r).node \in Nodes
        BY BodyTypes DEF ChangeBody
    <2>2. QED BY <1>1, <1>7, <2>1 DEF requests, RequestsHoldRows, IsCreate, Sent
<1>10. TypeRequestsHoldRows'
    BY <1>1 DEF TypeRequestsHoldRows, TypeOK, TypesTypeOK
<1>11. NumbersUnique'
    <2>1. \A n \in Nodes : rows[n] # NoRow =>
            rows'[n].live = rows[n].live /\ rows'[n].number = rows[n].number
        BY <1>4 DEF TypeOK, Row
    <2>2. QED BY <1>7, <2>1 DEF NumbersUnique, Live
<1>12. EveryNodeHasAType'
    <2>1. CodesUnique'
        BY TypesWritten DEF WriteType, EveryNodeHasAType, CodesUnique, IdsOf, TypeOK, TypesTypeOK
    <2>2. ASSUME NEW n \in Nodes, rows'[n] # NoRow
          PROVE  Known(rows[n].type)'
        <3>1. rows[n] # NoRow /\ rows'[n].type = Cascaded(rows[n].type)
            BY <1>4, <1>7, <2>2 DEF TypeOK, Row
        <3>2. PICK j \in TypeIds : types'[j] \in TypeRow /\ types'[j].code = rows'[n].type
            BY <3>1, CascadeKeepsTypes DEF WriteType
        <3>3. QED BY <3>2, TreeAssumption DEF Known, IdsOf
    <2>3. QED BY <2>1, <2>2 DEF EveryNodeHasAType
<1>13. QED BY <1>8, <1>9, <1>10, <1>11, <1>12

\* Every step keeps the invariant.
LEMMA TreeNext ==
    TreeInv /\ [Next]_vars => TreeInv'
<1> SUFFICES ASSUME TreeInv, [Next]_vars PROVE TreeInv'
    OBVIOUS
<1>1. ASSUME NEW q \in Requests, Change(q) PROVE TreeInv'
    BY <1>1, ReadingStep, SaveStep, SoftRemoveStep DEF Change
<1>2. ASSUME NEW t \in TypeRequests, BeginType(t) \/ CheckType(t) \/ WriteType(t) PROVE TreeInv'
    BY <1>2, BeginTypeStep, CheckTypeStep, WriteTypeStep
<1>3. ASSUME NEW d \in Departments, RemoveDepartment(d) \/ AddDepartment(d) PROVE TreeInv'
    <2>1. departments' \subseteq departments \cup {d} /\ UNCHANGED <<rows, types, requests, typeRequests, raced>>
        BY <1>3 DEF RemoveDepartment, AddDepartment
    <2>2. QED BY <2>1 DEF TreeInv, TypeOK, TypesTypeOK, requests, typeRequests, RequestsHoldRows,
                          IsCreate, Sent, TypeRequestsHoldRows, NumbersUnique, Live,
                          EveryNodeHasAType, CodesUnique, Known, IdsOf
<1>4. CASE UNCHANGED vars
    BY <1>4 DEF vars, tables, TreeInv, TypeOK, TypesTypeOK, requests, typeRequests,
                RequestsHoldRows, IsCreate, Sent, TypeRequestsHoldRows, NumbersUnique, Live,
                EveryNodeHasAType, CodesUnique, Known, IdsOf
<1>5. QED BY <1>1, <1>2, <1>3, <1>4 DEF Next

\* The invariant holds throughout, for any trees, types and requests.
THEOREM TreeInvariant == Spec => []TreeInv
BY TreeInit, TreeNext, PTL DEF Spec

\* Type correctness of the location module (location.service.ts,
\* location-type.service.ts).
THEOREM TreeTypesCorrect == Spec => []TypeOK
<1>1. TreeInv => TypeOK
    BY DEF TreeInv
<1>2. QED BY <1>1, TreeInvariant, PTL

\* uq_location_number: two live locations never have the same number, although
\* assertNumberFree and save are two statements.
THEOREM NumbersUniqueHolds == Spec => []NumbersUnique
<1>1. TreeInv => NumbersUnique
    BY DEF TreeInv
<1>2. QED BY <1>1, TreeInvariant, PTL

\* uq_location_type_code and the foreign key: every location, soft-deleted or
\* not, always has exactly one type, however renames and removals of types
\* interleave with saves of stale entities.
THEOREM EveryNodeHasATypeHolds == Spec => []EveryNodeHasAType
<1>1. TreeInv => EveryNodeHasAType
    BY DEF TreeInv
<1>2. QED BY <1>1, TreeInvariant, PTL

-----------------------------------------------------------------------------
(* The locations implement the directory as long as no two requests have   *)
(* overlapped, for any tree, types and requests.                           *)
(*                                                                         *)
(* TreeInv gives what the constraints keep. What is left to the service is *)
(* the forest, and that the entity a request saves has been checked        *)
(* against tables that are still the same: SerialInv says of the one       *)
(* request on its way what its statements so far have established.         *)

OneAtATime ==
    /\ \A q, r \in InFlight : q = r
    /\ \A t, u \in TypesInFlight : t = u
    /\ InFlight = {} \/ TypesInFlight = {}

ParentType(p) == IF p = NoNode THEN NoNode ELSE rows[p].type

\* A type of this code may stand at the root, or under a type.
Allowed(type, place) ==
    \A i \in IdsOf(type) : IF place = NoNode THEN types[i].root ELSE place \in types[i].under

Bookable(type) == \E i \in IdsOf(type) : types[i].bookable

\* What create, with body b, has established of its entity e before a step; a is
\* the type it has read of the parent.
HoldsNew(b, e, a, step) ==
    /\ e.live = TRUE /\ e.type = b.type
    /\ e.parent \in Live \cup {NoNode} /\ a = ParentType(e.parent)
    /\ step # "placement" => Allowed(e.type, a)
    /\ step \in {"departments", "save"} => (e.open <=> Bookable(e.type))
    /\ step = "departments" => e.open
    /\ step = "save" => (e.open <=> e.departments # {})

\* The entity of a PATCH may stand where it is to be, if that was checked.
MayStand(b, e) ==
    \/ b.type = Absent /\ b.parent = Absent
    \/ /\ e.parent \in Live \cup {NoNode}
       /\ Allowed(IF b.type = Absent THEN e.type ELSE b.type, ParentType(e.parent))

\* What update and remove have established.
HoldsNode(b, e, a, step) ==
    LET n == b.node
    IN  /\ n \in Live /\ e.live = TRUE
        /\ step = "delete" => \A c \in Live : rows[c].parent # n
        /\ \/ e.parent = rows[n].parent
           \/ /\ step \notin {"number", "cycle"} /\ b.parent # Absent
              /\ e.parent \notin Below(n) \cup {n}
        /\ step = "placement" => e.parent \in Live \cup {NoNode} /\ a = ParentType(e.parent)
        /\ step \in {"bookable", "departments", "save"} => MayStand(b, e)
        /\ IF step \in {"departments", "save"} /\ b.type # Absent
           THEN e.type = b.type /\ (e.open <=> Bookable(e.type))
           ELSE e.type = rows[n].type
        /\ step = "departments" \/ (step = "save" /\ e.departments # {}) => Bookable(e.type)

HoldsWith(b, e, a, step) ==
    IF b.op = "create" THEN HoldsNew(b, e, a, step) ELSE HoldsNode(b, e, a, step)

Holds(q) == HoldsWith(Sent(q), entity[q], above[q], pc[q])

\* PATCH of a type keeps allow_root and allowed_parent_types.
HoldsType(t) ==
    tbody[t].op # "create" /\ tpc[t] \in {"code", "save"} =>
        LET i == tbody[t].id
        IN  types[i] # NoType /\ tentity[t].root = types[i].root /\ tentity[t].under = types[i].under

Serial ==
    /\ Directory!Forest
    /\ OneAtATime
    /\ \A q \in InFlight : Holds(q)
    /\ \A t \in TypesInFlight : HoldsType(t)

SerialInv == TreeInv /\ (~raced => Serial)

-----------------------------------------------------------------------------
(* Types by code.                                                          *)

\* A code that one type has.
LEMMA UniqueType ==
    ASSUME NEW ts, NEW i \in TypeIds, ts[i] # NoType,
           \A j \in TypeIds : ts[j] # NoType /\ ts[j].code = ts[i].code => j = i
    PROVE  /\ (CHOOSE j \in {k \in TypeIds : ts[k] # NoType} : ts[j].code = ts[i].code) = i
           /\ (CHOOSE j \in {k \in TypeIds : ts[k] # NoType /\ ts[k].code = ts[i].code} : TRUE) = i
OBVIOUS

\* getByCodeOrFail returns the row of that code.
LEMMA TypeByCode ==
    ASSUME CodesUnique, NEW c
    PROVE  \A i \in IdsOf(c) : GetByCode(c) = types[i]
<1> SUFFICES ASSUME NEW i \in IdsOf(c) PROVE GetByCode(c) = types[i]
    OBVIOUS
<1>1. i \in TypeIds /\ types[i] # NoType /\ types[i].code = c
    BY DEF IdsOf
<1>2. \A j \in TypeIds : types[j] # NoType /\ types[j].code = types[i].code => j = i
    BY <1>1 DEF CodesUnique
<1>3. QED BY <1>1, <1>2, UniqueType DEF GetByCode, IdsOf

LEMMA AllowedIs ==
    ASSUME CodesUnique, NEW c, NEW p, PlacementAllowed(c, p)
    PROVE  Allowed(c, p)
BY TypeByCode DEF PlacementAllowed, Allowed

LEMMA BookableIs ==
    ASSUME CodesUnique, NEW c, Known(c)
    PROVE  Bookable(c) <=> GetByCode(c).bookable
BY TypeByCode DEF Bookable, Known

-----------------------------------------------------------------------------
(* The statements that only read.                                          *)

\* While the tables stay, a request on its way is alone, and what it holds is
\* all that has to be shown.
LEMMA SerialRequest ==
    ASSUME SerialInv, TreeInv', NEW q \in Requests, NEW from, NEW to, Goto(q, from, to),
           from # "done", UNCHANGED <<tables, body, typeRequests>>,
           IF from = "find" THEN Begin ELSE UNCHANGED raced,
           NEW e, entity' = [entity EXCEPT ![q] = e],
           NEW a, above' = [above EXCEPT ![q] = a],
           ~raced /\ to # "done" => HoldsWith(Sent(q), e, a, to)
    PROVE  SerialInv'
<1> SUFFICES ASSUME ~raced' PROVE Serial'
    BY DEF SerialInv
<1> USE DEF Goto
<1>1. ~raced /\ Serial /\ TypeOK /\ pc[q] = from
    BY DEF Begin, SerialInv, TreeInv
<1>2. InFlight \subseteq {q} /\ TypesInFlight = {}
    BY <1>1 DEF Begin, Serial, OneAtATime, InFlight
<1>3. InFlight' \subseteq {q} /\ TypesInFlight' = {}
    BY <1>1, <1>2 DEF InFlight, TypesInFlight, typeRequests, TypeOK
<1>4. Directory!Forest'
    BY <1>1 DEF tables, Serial, Directory!Forest, Directory!Live
<1>5. ASSUME to # "done" PROVE Holds(q)'
    <2>1. /\ pc'[q] = to /\ entity'[q] = e /\ above'[q] = a /\ body' = body
          /\ rows' = rows /\ types' = types
        BY <1>1 DEF TypeOK, tables
    <2>2. HoldsWith(Sent(q), e, a, to)
        BY <1>1, <1>5
    <2>3. QED BY <2>1, <2>2 DEF Holds, HoldsWith, HoldsNew, HoldsNode, MayStand, Allowed, Bookable,
            IdsOf, ParentType, Live, Below, ClosedBelow, Sent
<1>6. \A r \in InFlight' : Holds(r)'
    BY <1>1, <1>3, <1>5 DEF InFlight, TypeOK
<1>7. QED BY <1>3, <1>4, <1>6 DEF Serial, OneAtATime

\* Every statement of a request but save and softRemove keeps what the request
\* holds in step with the tables.
LEMMA SerialReading ==
    ASSUME SerialInv, TreeInv', NEW q \in Requests,
           FindParent(q) \/ FindNode(q) \/ AssertNumberFree(q) \/ AssertNoCycle(q)
           \/ FindNewParent(q) \/ AssertPlacementAllowed(q) \/ ApplyBookableFields(q)
           \/ ResolveDepartments(q) \/ CountChildren(q)
    PROVE  SerialInv'
<1> DEFINE b == Sent(q)
           e == entity[q]
           a == above[q]
<1>1. /\ TypeOK /\ CodesUnique /\ (IsCreate(q) <=> b.op = "create")
      /\ entity = [entity EXCEPT ![q] = e] /\ above = [above EXCEPT ![q] = a]
    BY DEF SerialInv, TreeInv, TypeOK, EveryNodeHasAType, IsCreate, Sent
<1>2. /\ IsCreate(q) => b \in NewBody
      /\ ~IsCreate(q) => b \in ChangeBody
    BY <1>1, BodyTypes
<1>3. pc[q] \notin {"find", "done"} =>
        /\ e \in Row
        /\ IsCreate(q) => pc[q] \in CreateSteps
        /\ ~raced => HoldsWith(b, e, a, pc[q])
    BY DEF SerialInv, TreeInv, RequestsHoldRows, CreateSteps, Serial, InFlight, Holds
\* An exception ends the request.
<1>4. ASSUME NEW from, NEW status, Fail(q, from, status), from # "done",
             UNCHANGED <<tables, body, typeRequests>>,
             IF from = "find" THEN Begin ELSE UNCHANGED raced
      PROVE  SerialInv'
    BY <1>1, <1>4, SerialRequest DEF Fail
\* A later statement of a request that runs on with entity f.
<1>5. ASSUME NEW to, Goto(q, pc[q], to), pc[q] \notin {"find", "done"},
             UNCHANGED <<tables, body, typeRequests, raced, above>>,
             NEW f, entity' = [entity EXCEPT ![q] = f],
             HoldsWith(b, e, a, pc[q]) => HoldsWith(b, f, a, to)
      PROVE  SerialInv'
    BY <1>1, <1>3, <1>5, SerialRequest
<1>6. CASE FindParent(q)
    <2>1. CASE Fail(q, "find", 404)
        BY <1>4, <1>6, <2>1 DEF FindParent
    <2>2. CASE ~Fail(q, "find", 404)
        <3> DEFINE new == [number |-> b.number, type |-> b.type, parent |-> b.parent,
                           open |-> FALSE, departments |-> {}, live |-> TRUE]
                   t == IF b.parent = NoNode THEN NoNode ELSE rows[b.parent].type
        <3>1. /\ Goto(q, "find", "placement") /\ b.parent \in Live \cup {NoNode}
              /\ entity' = [entity EXCEPT ![q] = new] /\ above' = [above EXCEPT ![q] = t]
              /\ b.op = "create" /\ Begin /\ UNCHANGED <<tables, body, typeRequests>>
            BY <1>1, <1>6, <2>2 DEF FindParent
        <3>2. HoldsWith(b, new, t, "placement")
            BY <3>1 DEF HoldsWith, HoldsNew, ParentType
        <3>3. QED BY <3>1, <3>2, SerialRequest
    <2>3. QED BY <2>1, <2>2
<1>7. CASE FindNode(q)
    <2>1. CASE Fail(q, "find", 404)
        BY <1>4, <1>7, <2>1 DEF FindNode
    <2>2. CASE ~Fail(q, "find", 404)
        <3> DEFINE n == b.node
                   f == [rows[n] EXCEPT !.departments = @ \cap departments]
                   to == IF b.op = "update" THEN "number" ELSE "children"
        <3>1. /\ Goto(q, "find", to) /\ n \in Live /\ entity' = [entity EXCEPT ![q] = f]
              /\ UNCHANGED above /\ b.op # "create" /\ Begin
              /\ UNCHANGED <<tables, body, typeRequests>>
            BY <1>1, <1>7, <2>2 DEF FindNode, Keep
        <3>2. f.live = rows[n].live /\ f.parent = rows[n].parent /\ f.type = rows[n].type
            BY <1>1, <3>1 DEF Live, TypeOK, Row
        <3> HIDE DEF f
        <3>3. HoldsWith(b, f, a, to)
            BY <1>1, <3>1, <3>2 DEF HoldsWith, HoldsNode, Live, TypeOK, Row
        <3>4. QED BY <1>1, <3>1, <3>3, SerialRequest
    <2>3. QED BY <2>1, <2>2
<1>8. CASE AssertNumberFree(q)
    <2> DEFINE next == IF IsCreate(q) THEN "bookable" ELSE "cycle"
               f == [e EXCEPT !.number = b.number]
    <2>1. pc[q] = "number" /\ UNCHANGED <<tables, body, typeRequests, raced>>
        BY <1>8 DEF AssertNumberFree
    <2>2. CASE Pass(q, "number", next)
        <3>1. HoldsWith(b, e, a, "number") => HoldsWith(b, e, a, next)
            BY <1>1 DEF HoldsWith, HoldsNew, HoldsNode
        <3>2. QED BY <1>1, <1>5, <2>1, <2>2, <3>1 DEF Pass
    <2>3. CASE Fail(q, "number", 409)
        BY <1>4, <2>1, <2>3
    <2>4. CASE Goto(q, "number", next) /\ Keep(q, f)
        <3>1. /\ f.type = e.type /\ f.parent = e.parent /\ f.live = e.live /\ f.open = e.open
              /\ f.departments = e.departments
            BY <1>3, <2>1 DEF Row
        <3> HIDE DEF f
        <3>2. HoldsWith(b, e, a, "number") => HoldsWith(b, f, a, next)
            BY <1>1, <3>1 DEF HoldsWith, HoldsNew, HoldsNode
        <3>3. QED BY <1>1, <1>5, <2>1, <2>4, <3>2 DEF Keep
    <2>5. QED BY <1>8, <2>2, <2>3, <2>4 DEF AssertNumberFree
\* The new parent is not below the node.
<1>9. CASE AssertNoCycle(q)
    <2> DEFINE n == b.node
               p == b.parent
               f == [e EXCEPT !.parent = p]
    <2>1. /\ pc[q] = "cycle" /\ UNCHANGED <<tables, body, typeRequests, raced>>
          /\ b.op # "create"
        BY <1>1, <1>3, <1>9 DEF AssertNoCycle, CreateSteps
    <2>2. CASE Pass(q, "cycle", "parent")
        <3>1. HoldsWith(b, e, a, "cycle") => HoldsWith(b, e, a, "parent")
            BY <2>1 DEF HoldsWith, HoldsNode
        <3>2. QED BY <1>1, <1>5, <2>1, <2>2, <3>1 DEF Pass
    <2>3. CASE Fail(q, "cycle", 400)
        BY <1>4, <2>1, <2>3
    <2>4. CASE ~Pass(q, "cycle", "parent") /\ ~Fail(q, "cycle", 400)
        <3>1. /\ Goto(q, "cycle", "parent") /\ Keep(q, f) /\ p # Absent
              /\ p = NoNode \/ (p # n /\ p \notin Below(n))
            BY <1>9, <2>4 DEF AssertNoCycle
        <3>2. f.type = e.type /\ f.parent = p /\ f.live = e.live
            BY <1>3, <2>1 DEF Row
        <3>3. p \notin Below(n) \cup {n}
            BY <1>2, <2>1, <3>1, <1>1, TreeAssumption DEF Below, ChangeBody
        <3> HIDE DEF f
        <3>4. HoldsWith(b, e, a, "cycle") => HoldsWith(b, f, a, "parent")
            BY <2>1, <3>1, <3>2, <3>3 DEF HoldsWith, HoldsNode
        <3>5. QED BY <1>1, <1>5, <2>1, <3>1, <3>4 DEF Keep
    <2>5. QED BY <2>2, <2>3, <2>4
<1>10. CASE FindNewParent(q)
    <2> DEFINE p == e.parent
               t == IF p = NoNode THEN NoNode ELSE rows[p].type
    <2>1. /\ pc[q] = "parent" /\ UNCHANGED <<tables, body, typeRequests, raced>>
          /\ b.op # "create"
        BY <1>1, <1>3, <1>10 DEF FindNewParent, CreateSteps
    <2>2. CASE b.type = Absent /\ b.parent = Absent
        <3>1. HoldsWith(b, e, a, "parent") => HoldsWith(b, e, a, "bookable")
            BY <2>1, <2>2 DEF HoldsWith, HoldsNode, MayStand
        <3>2. QED BY <1>1, <1>5, <1>10, <2>1, <2>2, <3>1 DEF FindNewParent, Pass
    <2>3. CASE Fail(q, "parent", 404)
        BY <1>4, <2>1, <2>3
    <2>4. CASE ~(b.type = Absent /\ b.parent = Absent) /\ ~Fail(q, "parent", 404)
        <3>1. /\ p \in Live \cup {NoNode} /\ Goto(q, "parent", "placement")
              /\ above' = [above EXCEPT ![q] = t] /\ UNCHANGED entity
            BY <1>10, <2>4 DEF FindNewParent
        <3>2. HoldsWith(b, e, a, "parent") => HoldsWith(b, e, t, "placement")
            BY <2>1, <3>1 DEF HoldsWith, HoldsNode, ParentType
        <3>3. QED BY <1>1, <1>3, <2>1, <3>1, <3>2, SerialRequest
    <2>5. QED BY <2>2, <2>3, <2>4
\* The place is checked with the type that the entity is to have.
<1>11. CASE AssertPlacementAllowed(q)
    <2> DEFINE next == IF IsCreate(q) THEN "number" ELSE "bookable"
    <2>1. pc[q] = "placement" /\ UNCHANGED <<tables, body, typeRequests, raced>>
        BY <1>11 DEF AssertPlacementAllowed
    <2>2. CASE PlacementAllowed(NextType(q), a) /\ Pass(q, "placement", next)
        <3>1. Allowed(IF b.type = Absent THEN e.type ELSE b.type, a)
            BY <1>1, <2>2, AllowedIs DEF NextType
        <3>2. HoldsWith(b, e, a, "placement") => HoldsWith(b, e, a, next)
            BY <1>1, <3>1 DEF HoldsWith, HoldsNew, HoldsNode, MayStand
        <3>3. QED BY <1>1, <1>5, <2>1, <2>2, <3>2 DEF Pass
    <2>3. CASE Fail(q, "placement", 400)
        BY <1>4, <2>1, <2>3
    <2>4. QED BY <1>11, <2>2, <2>3 DEF AssertPlacementAllowed
<1>12. CASE ApplyBookableFields(q)
    <2> DEFINE type == NextType(q)
               applies == IsCreate(q) \/ b.type # Absent \/ b.fields # "none"
               typed == [e EXCEPT !.type = type]
               yes == [typed EXCEPT !.open = IF applies THEN TRUE ELSE @]
               no == [typed EXCEPT !.open = IF applies THEN FALSE ELSE @, !.departments = {}]
    <2>1. pc[q] = "bookable" /\ UNCHANGED <<tables, body, typeRequests, raced>> /\ e \in Row
        BY <1>3, <1>12 DEF ApplyBookableFields
    <2>2. CASE Fail(q, "bookable", 400) \/ Fail(q, "bookable", 500)
        BY <1>4, <2>1, <2>2
    <2>3. ASSUME ~(Fail(q, "bookable", 400) \/ Fail(q, "bookable", 500)) PROVE Known(type)
        BY <1>12, <2>3 DEF ApplyBookableFields
    <2>4. type = IF b.type = Absent THEN e.type ELSE b.type
        BY DEF NextType
    <2>5. CASE Known(type) /\ GetByCode(type).bookable /\ Goto(q, "bookable", "departments") /\ Keep(q, yes)
        <3>1. /\ yes.type = type /\ yes.parent = e.parent /\ yes.live = e.live
              /\ applies => yes.open = TRUE
            BY <2>1 DEF Row
        <3>2. Bookable(type)
            BY <1>1, <2>5, BookableIs
        <3> HIDE DEF yes, type
        <3>3. HoldsWith(b, e, a, "bookable") => HoldsWith(b, yes, a, "departments")
            BY <1>1, <2>4, <3>1, <3>2 DEF HoldsWith, HoldsNew, HoldsNode, MayStand
        <3>4. QED BY <1>1, <1>5, <2>1, <2>5, <3>3 DEF Keep
    <2>6. CASE Known(type) /\ ~GetByCode(type).bookable /\ Goto(q, "bookable", "save") /\ Keep(q, no)
        <3>1. /\ no.type = type /\ no.parent = e.parent /\ no.live = e.live /\ no.departments = {}
              /\ applies => no.open = FALSE
            BY <2>1 DEF Row
        <3>2. ~Bookable(type)
            BY <1>1, <2>6, BookableIs
        <3> HIDE DEF no, type
        <3>3. HoldsWith(b, e, a, "bookable") => HoldsWith(b, no, a, "save")
            BY <1>1, <2>4, <3>1, <3>2 DEF HoldsWith, HoldsNew, HoldsNode, MayStand
        <3>4. QED BY <1>1, <1>5, <2>1, <2>6, <3>3 DEF Keep
    <2>7. QED BY <1>12, <2>2, <2>3, <2>5, <2>6 DEF ApplyBookableFields
<1>13. CASE ResolveDepartments(q)
    <2> DEFINE sent == b.departments
               f == [e EXCEPT !.departments = sent]
    <2>1. pc[q] = "departments" /\ UNCHANGED <<tables, body, typeRequests, raced>>
        BY <1>13 DEF ResolveDepartments
    <2>2. CASE ~IsCreate(q) /\ Pass(q, "departments", "save")
        <3>1. HoldsWith(b, e, a, "departments") => HoldsWith(b, e, a, "save")
            BY <1>1, <2>2 DEF HoldsWith, HoldsNode, MayStand
        <3>2. QED BY <1>1, <1>5, <2>1, <2>2, <3>1 DEF Pass
    <2>3. CASE Fail(q, "departments", 400)
        BY <1>4, <2>1, <2>3
    <2>4. CASE Goto(q, "departments", "save") /\ Keep(q, f) /\ sent # {}
        <3>1. /\ f.type = e.type /\ f.parent = e.parent /\ f.live = e.live /\ f.open = e.open
              /\ f.departments = sent
            BY <1>3, <2>1 DEF Row
        <3> HIDE DEF f
        <3>2. HoldsWith(b, e, a, "departments") => HoldsWith(b, f, a, "save")
            BY <1>1, <2>4, <3>1 DEF HoldsWith, HoldsNew, HoldsNode, MayStand
        <3>3. QED BY <1>1, <1>5, <2>1, <2>4, <3>2 DEF Keep
    <2>5. QED BY <1>13, <2>2, <2>3, <2>4 DEF ResolveDepartments
<1>14. CASE CountChildren(q)
    <2>1. /\ pc[q] = "children" /\ UNCHANGED <<tables, body, typeRequests, raced>>
          /\ b.op # "create"
        BY <1>1, <1>3, <1>14 DEF CountChildren, CreateSteps
    <2>2. CASE Fail(q, "children", 409)
        BY <1>4, <2>1, <2>2
    <2>3. CASE Pass(q, "children", "delete") /\ \A c \in Live : rows[c].parent # b.node
        <3>1. HoldsWith(b, e, a, "children") => HoldsWith(b, e, a, "delete")
            BY <2>1, <2>3 DEF HoldsWith, HoldsNode
        <3>2. QED BY <1>1, <1>5, <2>1, <2>3, <3>1 DEF Pass
    <2>4. QED BY <1>14, <2>2, <2>3 DEF CountChildren
<1>15. QED BY <1>6, <1>7, <1>8, <1>9, <1>10, <1>11, <1>12, <1>13, <1>14

-----------------------------------------------------------------------------
(* The tree.                                                               *)

\* A node that moves to a parent that is not below it, or stays.
LEMMA MovedForest ==
    ASSUME Directory!Forest, UNCHANGED types, NEW n \in Live, Live' = Live,
           \A m \in Live \ {n} : rows'[m].parent = rows[m].parent,
           \/ rows'[n].parent = rows[n].parent
           \/ rows'[n].parent \in (Live \cup {NoNode}) \ (Below(n) \cup {n})
    PROVE  Directory!Forest'
<1>1. /\ \A S \in SUBSET Live : S # {} => \E m \in S : rows[m].parent \notin S
      /\ \A m \in Live : rows[m].parent \in Live \cup {NoNode}
    BY DEF Directory!Forest, Directory!Live, Live
<1> DEFINE p == rows'[n].parent
<1>2. \A m \in Live : rows'[m].parent \in Live \cup {NoNode}
    BY <1>1
<1>3. ASSUME NEW S \in SUBSET Live, S # {} PROVE \E m \in S : rows'[m].parent \notin S
    <2>1. CASE n \notin S \/ p = rows[n].parent \/ p \notin S
        BY <1>1, <1>3, <2>1
    <2>2. CASE n \in S /\ p # rows[n].parent /\ p \in S
        <3>1. p \in Nodes /\ p \notin Below(n) /\ p # n
            BY <2>2 DEF Live
        <3>2. PICK T \in SUBSET Nodes : ClosedBelow(n, T) /\ p \notin T
            BY <3>1 DEF Below
        <3> DEFINE U == S \ (T \cup {n})
        <3>3. p \in U /\ U \in SUBSET Live
            BY <2>2, <3>1, <3>2
        <3>4. PICK m \in U : rows[m].parent \notin U
            BY <1>1, <3>3
        <3>5. rows'[m].parent = rows[m].parent /\ m \in S /\ m \notin T
            BY <3>3, <3>4
        <3>6. rows[m].parent \notin S
            BY <3>2, <3>3, <3>4, <3>5 DEF ClosedBelow
        <3>7. QED BY <3>5, <3>6
    <2>3. QED BY <2>1, <2>2
<1>4. Directory!Live' = Live
    BY DEF Directory!Live, Live
<1>5. QED BY <1>2, <1>3, <1>4 DEF Directory!Forest

\* A new leaf.
LEMMA LargerForest ==
    ASSUME Directory!Forest, NEW n \in Nodes, rows[n] = NoRow, Live' = Live \cup {n},
           \A m \in Live : rows'[m].parent = rows[m].parent,
           rows'[n].parent \in Live \cup {NoNode}
    PROVE  Directory!Forest'
<1>1. /\ \A S \in SUBSET Live : S # {} => \E m \in S : rows[m].parent \notin S
      /\ \A m \in Live : rows[m].parent \in Live \cup {NoNode}
    BY DEF Directory!Forest, Directory!Live, Live
<1>2. n \notin Live /\ n # NoNode
    BY TreeAssumption DEF Live
<1>3. ASSUME NEW S \in SUBSET (Live \cup {n}), S # {} PROVE \E m \in S : rows'[m].parent \notin S
    <2>1. CASE S = {n}
        BY <1>2, <2>1
    <2>2. CASE S # {n}
        <3> DEFINE U == S \ {n}
        <3>1. U \in SUBSET Live /\ U # {}
            BY <1>3, <2>2
        <3>2. PICK m \in U : rows[m].parent \notin U
            BY <1>1, <3>1
        <3>3. QED BY <1>1, <1>2, <3>1, <3>2
    <2>3. QED BY <2>1, <2>2
<1>4. Directory!Live' = Live \cup {n}
    BY DEF Directory!Live, Live
<1>5. QED BY <1>1, <1>3, <1>4 DEF Directory!Forest

\* A leaf is removed.
LEMMA SmallerForest ==
    ASSUME Directory!Forest, NEW n, Live' = Live \ {n}, \A c \in Live : rows[c].parent # n,
           \A m \in Live' : rows'[m].parent = rows[m].parent
    PROVE  Directory!Forest'
<1>1. /\ \A S \in SUBSET Live : S # {} => \E m \in S : rows[m].parent \notin S
      /\ \A m \in Live : rows[m].parent \in Live \cup {NoNode}
    BY DEF Directory!Forest, Directory!Live, Live
<1>2. Directory!Live' = Live'
    BY DEF Directory!Live, Live
<1>3. QED BY <1>1, <1>2 DEF Directory!Forest

\* What the constraints leave to be shown.
LEMMA ConsistentIs ==
    TreeInv /\ Directory!Forest => Directory!Consistent
<1> SUFFICES ASSUME TreeInv, Directory!Forest PROVE Directory!Consistent
    OBVIOUS
<1>1. \A m, n \in Directory!Live : rows[m].number = rows[n].number => m = n
    BY DEF TreeInv, NumbersUnique, Directory!Live, Live
<1>2. /\ \A i, j \in Directory!Existing : types[i].code = types[j].code => i = j
      /\ \A n \in Nodes : rows[n] # NoRow => \E i \in Directory!Existing : types[i].code = rows[n].type
    BY DEF TreeInv, EveryNodeHasAType, CodesUnique, Known, IdsOf, Directory!Existing
<1>3. QED BY <1>1, <1>2 DEF Directory!Consistent

\* The type of a location in the directory.
LEMMA DirectoryType ==
    ASSUME CodesUnique, NEW r, NEW i \in IdsOf(r.type)
    PROVE  types[CHOOSE j \in Directory!Existing : types[j].code = r.type] = types[i]
<1>1. i \in TypeIds /\ types[i] # NoType /\ types[i].code = r.type
    BY DEF IdsOf
<1>2. \A j \in TypeIds : types[j] # NoType /\ types[j].code = types[i].code => j = i
    BY <1>1 DEF CodesUnique
<1>3. QED BY <1>1, <1>2, UniqueType DEF Directory!Existing

-----------------------------------------------------------------------------
(* The statements that write.                                              *)

\* What a step shows to be one of the directory.
DirectoryStep == [~raced' => Directory!Next]_<<rows, types>>

\* After a request that ran alone is done, no request is on its way.
LEMMA RequestDone ==
    ASSUME SerialInv, TreeInv', NEW q \in Requests, pc[q] \notin {"find", "done"},
           pc' = [pc EXCEPT ![q] = "done"], UNCHANGED <<typeRequests, raced>>, ~raced,
           Directory!Forest'
    PROVE  Serial' /\ Directory!Consistent'
<1>1. TypeOK /\ Serial
    BY DEF SerialInv, TreeInv
<1>2. InFlight \subseteq {q} /\ TypesInFlight = {}
    BY <1>1 DEF Serial, OneAtATime, InFlight
<1>3. InFlight' = {} /\ TypesInFlight' = {}
    BY <1>1, <1>2 DEF InFlight, TypesInFlight, typeRequests, TypeOK
<1>4. Directory!Consistent'
    BY ConsistentIs, PTL
<1>5. QED BY <1>3, <1>4 DEF Serial, OneAtATime

\* save of a request that ran alone: the node is added, or it is changed.
LEMMA SaveDirectory ==
    ASSUME SerialInv, TreeInv', NEW q \in Requests, Save(q)
    PROVE  SerialInv' /\ DirectoryStep
<1> SUFFICES ASSUME ~raced PROVE Serial' /\ DirectoryStep
    BY DEF SerialInv, Save, DirectoryStep
<1> DEFINE b == Sent(q)
           e == entity[q]
<1>1. /\ TypeOK /\ CodesUnique /\ (IsCreate(q) <=> b.op = "create")
      /\ Serial /\ Directory!Forest /\ pc[q] = "save"
    BY DEF SerialInv, Serial, Save, TreeInv, TypeOK, EveryNodeHasAType, IsCreate, Sent
<1>2. e \in Row /\ HoldsWith(b, e, above[q], "save")
    BY <1>1 DEF SerialInv, TreeInv, RequestsHoldRows, Serial, InFlight, Holds
<1>3. PICK n \in Nodes :
        /\ SavedNode(q, n)
        /\ pc' = [pc EXCEPT ![q] = "done"]
        /\ \/ UNCHANGED rows
           \/ Known(e.type) /\ rows' = [rows EXCEPT ![n] = e]
        /\ UNCHANGED <<types, departments, body, typeRequests, raced>>
    BY DEF Save, Goto, Fail
<1>4. Directory!Forest' => Serial' /\ Directory!Consistent'
    BY <1>1, <1>3, RequestDone
<1>5. CASE UNCHANGED rows
    <2>1. Directory!Forest'
        BY <1>1, <1>3, <1>5 DEF Directory!Forest, Directory!Live
    <2>2. QED BY <1>3, <1>4, <1>5, <2>1 DEF DirectoryStep
<1>6. CASE Known(e.type) /\ rows' = [rows EXCEPT ![n] = e]
    <2>1. /\ rows'[n] = e /\ e # NoRow /\ \A m \in Nodes \ {n} : rows'[m] = rows[m]
          /\ types' = types
        BY <1>1, <1>2, <1>3, <1>6, TreeAssumption DEF TypeOK
    <2>2. Directory!OnlyNode(n)
        BY <2>1 DEF Directory!OnlyNode
    <2>3. PICK i \in IdsOf(e.type) : TRUE
        BY <1>6 DEF Known
    <2>4. i \in TypeIds /\ types[i] # NoType /\ types[i].code = e.type
          /\ \A j \in IdsOf(e.type) : j = i
        BY <1>1, <2>3 DEF IdsOf, CodesUnique
    <2>5. Directory!TypeOf(n)' = types[i]
        <3>1. types[CHOOSE j \in Directory!Existing : types[j].code = e.type] = types[i]
            BY <1>1, <2>3, DirectoryType
        <3>2. QED BY <2>1, <3>1 DEF Directory!TypeOf, Directory!Existing
    <2>6. /\ types[i] \in TypeRow
          /\ Bookable(e.type) <=> types[i].bookable
        BY <1>1, <2>3, <2>4 DEF TypeOK, TypesTypeOK, Bookable
    <2>7. ASSUME e.parent \in Live \cup {NoNode}, Allowed(e.type, ParentType(e.parent)),
                  e.parent # n
           PROVE  Directory!Placed(n)'
        <3> DEFINE p == e.parent
        <3>1. IF ParentType(p) = NoNode THEN types[i].root ELSE ParentType(p) \in types[i].under
            BY <2>3, <2>7 DEF Allowed
        <3>2. CASE p = NoNode
            BY <2>1, <2>5, <3>1, <3>2 DEF ParentType, Directory!Placed
        <3>3. CASE p # NoNode
            <4>1. p \in Nodes /\ rows'[p] = rows[p] /\ rows[p].type \in Codes
                BY <1>1, <2>1, <2>7, <3>3 DEF Live, TypeOK, Row
            <4>2. rows'[p].type \in types[i].under
                BY <3>1, <3>3, <4>1, TreeAssumption DEF ParentType
            <4>3. QED BY <2>1, <2>5, <3>3, <4>2 DEF Directory!Placed
        <3>4. QED BY <3>2, <3>3
    <2>8. CASE IsCreate(q)
        <3>1. HoldsNew(b, e, above[q], "save") /\ rows[n] = NoRow
            BY <1>1, <1>2, <1>3, <2>8 DEF HoldsWith, SavedNode
        <3>2. Live' = Live \cup {n} /\ n \notin Live
            BY <2>1, <3>1 DEF HoldsNew, Live
        <3>3. Directory!Forest'
            <4>1. \A m \in Live : rows'[m] = rows[m]
                BY <2>1, <3>2 DEF Live
            <4>2. rows'[n].parent \in Live \cup {NoNode}
                BY <2>1, <3>1 DEF HoldsNew
            <4>3. QED BY <1>1, <3>1, <3>2, <4>1, <4>2, LargerForest
        <3>4. e.parent \in Live \cup {NoNode} /\ Allowed(e.type, ParentType(e.parent))
            BY <3>1 DEF HoldsNew
        <3>5. Directory!Placed(n)'
            <4>1. e.parent # n
                BY <3>2, <3>4, TreeAssumption
            <4>2. QED BY <2>7, <3>4, <4>1
        <3>6. /\ e.open = types[i].bookable
              /\ e.open <=> e.departments # {}
            BY <1>2, <2>6, <3>1 DEF HoldsNew, Row, TypeRow
        <3>7. n \in Directory!Live'
            BY <3>2 DEF Directory!Live, Live
        <3>8. Directory!AddNode(n)
            BY <2>1, <2>2, <2>5, <3>1, <3>5, <3>6, <3>7 DEF Directory!AddNode
        <3>9. QED BY <1>4, <3>3, <3>8 DEF DirectoryStep, Directory!Next
    <2>9. CASE ~IsCreate(q)
        <3>1. HoldsNode(b, e, above[q], "save") /\ n = b.node
            BY <1>1, <1>2, <1>3, <2>9 DEF HoldsWith, SavedNode
        <3>2. n \in Live /\ Live' = Live
            BY <2>1, <3>1 DEF HoldsNode, Live
        <3>3. /\ \A m \in Live : rows[m].parent \in Live \cup {NoNode}
              /\ \A S \in SUBSET Live : S # {} => \E m \in S : rows[m].parent \notin S
            BY <1>1 DEF Directory!Forest, Directory!Live, Live
        <3>4. \/ e.parent = rows[n].parent
              \/ e.parent \in (Live \cup {NoNode}) \ (Below(n) \cup {n})
            BY <3>1 DEF HoldsNode, MayStand
        <3>5. Directory!Forest'
            <4>1. \A m \in Live \ {n} : rows'[m] = rows[m]
                BY <2>1 DEF Live
            <4>2. QED BY <1>1, <2>1, <3>2, <3>4, <4>1, MovedForest
        <3>6. rows[n].parent # n
            <4>1. {n} \in SUBSET Live /\ {n} # {}
                BY <3>2
            <4>2. \E m \in {n} : rows[m].parent \notin {n}
                BY <3>3, <4>1
            <4>3. QED BY <4>2
        <3>7. ASSUME e.parent # rows[n].parent \/ e.type # rows[n].type
              PROVE  Directory!Placed(n)'
            <4>1. e.parent \in Live \cup {NoNode} /\ Allowed(e.type, ParentType(e.parent))
                BY <3>1, <3>7 DEF HoldsNode, MayStand
            <4>2. e.parent # n
                BY <3>4, <3>6
            <4>3. QED BY <2>7, <4>1, <4>2
        <3>8. e.type # rows[n].type => e.open = types[i].bookable
            BY <1>2, <2>6, <3>1 DEF HoldsNode, Row, TypeRow
        <3>9. e.departments # {} => types[i].bookable
            BY <2>6, <3>1 DEF HoldsNode
        <3>10. n \in Directory!Live /\ n \in Directory!Live'
            BY <3>2 DEF Directory!Live, Live
        <3>11. Directory!ChangeNode(n)
            BY <2>1, <2>2, <2>5, <3>7, <3>8, <3>9, <3>10 DEF Directory!ChangeNode
        <3>12. QED BY <1>4, <3>5, <3>11 DEF DirectoryStep, Directory!Next
    <2>10. QED BY <2>8, <2>9
<1>7. QED BY <1>3, <1>5, <1>6

\* softRemove of a request that ran alone: the node still has no children.
LEMMA RemoveDirectory ==
    ASSUME SerialInv, TreeInv', NEW q \in Requests, SoftRemove(q)
    PROVE  SerialInv' /\ DirectoryStep
<1> SUFFICES ASSUME ~raced PROVE Serial' /\ DirectoryStep
    BY DEF SerialInv, SoftRemove, DirectoryStep
<1> DEFINE n == Sent(q).node
<1>1. TypeOK /\ Serial /\ Directory!Forest /\ pc[q] = "delete" /\ ~IsCreate(q)
    BY DEF SerialInv, Serial, SoftRemove, Goto, TreeInv, RequestsHoldRows
<1>2. HoldsNode(Sent(q), entity[q], above[q], "delete")
    BY <1>1 DEF Serial, InFlight, Holds, HoldsWith, IsCreate, Sent
<1>3. n \in Live /\ n \in Nodes /\ \A c \in Live : rows[c].parent # n
    BY <1>2 DEF HoldsNode, Live
<1>4. /\ pc' = [pc EXCEPT ![q] = "done"] /\ UNCHANGED <<types, typeRequests, raced>>
      /\ rows'[n] = [rows[n] EXCEPT !.live = FALSE]
      /\ \A m \in Nodes \ {n} : rows'[m] = rows[m]
    BY <1>1, <1>3 DEF SoftRemove, Goto, TypeOK
<1>5. Live' = Live \ {n}
    BY <1>1, <1>3, <1>4 DEF Live, TypeOK, Row
<1>6. Directory!Forest'
    BY <1>1, <1>3, <1>4, <1>5, SmallerForest DEF Live
<1>7. Directory!RemoveNode(n)
    BY <1>3, <1>4 DEF Directory!RemoveNode, Directory!OnlyNode, Directory!Live, Live
<1>8. Serial' /\ Directory!Consistent'
    BY <1>1, <1>4, <1>6, RequestDone
<1>9. QED BY <1>3, <1>7, <1>8 DEF DirectoryStep, Directory!Next

-----------------------------------------------------------------------------
(* /location-types.                                                        *)

\* A request of /location-types on its way is alone.
LEMMA TypeAlone ==
    ASSUME SerialInv, NEW t \in TypeRequests, t \in TypesInFlight, ~raced
    PROVE  InFlight = {} /\ TypesInFlight = {t} /\ HoldsType(t) /\ Directory!Forest
BY DEF SerialInv, Serial, OneAtATime

LEMMA SerialType ==
    ASSUME SerialInv, TreeInv', NEW t \in TypeRequests, BeginType(t) \/ CheckType(t)
    PROVE  SerialInv'
<1> SUFFICES ASSUME ~raced' PROVE Serial'
    BY DEF SerialInv
<1>1. /\ ~raced /\ Serial /\ types \in [TypeIds -> TypeRow \cup {NoType}]
      /\ tbody \in [TypeRequests -> TypeBodies] /\ tpc \in [TypeRequests -> TypeSteps]
      /\ tentity \in [TypeRequests -> TypeRow \cup {NoType}]
    BY DEF BeginType, CheckType, Begin, SerialInv, TreeInv, TypeOK, TypesTypeOK
<1>2. /\ UNCHANGED <<rows, types, tbody, requests>>
      /\ \A u \in TypeRequests \ {t} : tpc'[u] = tpc[u]
    BY <1>1 DEF BeginType, CheckType, StartCreateType, FindType, AssertCodeFree, CountLocations,
        TGoto
<1>3. InFlight = {} /\ TypesInFlight \subseteq {t}
    BY <1>1, TypeAlone DEF BeginType, CheckType, Begin, AssertCodeFree, CountLocations, TypesInFlight
<1>4. InFlight' = {} /\ TypesInFlight' \subseteq {t}
    BY <1>2, <1>3 DEF requests, InFlight, TypesInFlight
<1>5. Directory!Forest'
    BY <1>1, <1>2 DEF Serial, Directory!Forest, Directory!Live
<1>6. HoldsType(t)'
    <2>1. CASE StartCreateType(t)
        BY <1>2, <2>1 DEF StartCreateType, HoldsType
    <2>2. CASE FindType(t)
        <3> DEFINE b == tbody[t]
                   found == types[b.id]
        <3> SUFFICES ASSUME tpc'[t] \in {"code", "save"} PROVE HoldsType(t)'
            BY DEF HoldsType
        <3>1. /\ b.op # "create" /\ found # NoType /\ b.op # "remove"
              /\ tentity'[t] = IF b.op = "update" THEN Merged(found, b) ELSE found
            BY <1>1, <2>2 DEF FindType, TGoto
        <3>2. b \in ChangeTypeBody /\ b.op = "update" /\ b.id \in TypeIds
            BY <1>1, <3>1, TreeAssumption DEF NewTypeBody, ChangeTypeBody
        <3>3. found \in TypeRow
            BY <1>1, <3>1, <3>2
        <3>4. tentity'[t].root = found.root /\ tentity'[t].under = found.under
            BY <3>1, <3>2, <3>3 DEF Merged, TypeRow
        <3>5. QED BY <1>2, <3>1, <3>4 DEF HoldsType
    <2>3. CASE CheckType(t)
        <3>1. tpc[t] \in {"code", "inuse"} /\ UNCHANGED tentity
              /\ (tpc'[t] \in {"code", "save"} => tpc[t] = "code")
            BY <1>1, <2>3 DEF CheckType, AssertCodeFree, CountLocations, TGoto
        <3>2. HoldsType(t)
            BY <1>1, <3>1, TypeAlone DEF TypesInFlight
        <3>3. QED BY <1>2, <3>1, <3>2 DEF HoldsType
    <2>4. QED BY <2>1, <2>2, <2>3 DEF BeginType
<1>7. QED BY <1>4, <1>5, <1>6 DEF Serial, OneAtATime

\* ON UPDATE CASCADE when the row of one type changes.
LEMMA CascadedTo ==
    ASSUME TreeInv, NEW i, \A j \in TypeIds \ {i} : types'[j] = types[j],
           NEW n \in Nodes, rows[n] # NoRow, i \in TypeIds
    PROVE  /\ types[i] = NoType \/ types[i].code # rows[n].type => Cascaded(rows[n].type) = rows[n].type
           /\ types[i] # NoType /\ types[i].code = rows[n].type /\ types'[i] # NoType =>
                  Cascaded(rows[n].type) = types'[i].code
<1> DEFINE c == rows[n].type
<1>1. PICK j \in TypeIds : IdsOf(c) = {j} /\ types[j] # NoType /\ types[j].code = c
    BY DEF TreeInv, EveryNodeHasAType, CodesUnique, Known, IdsOf
<1>2. (CHOOSE k \in {j} : TRUE) = j
    OBVIOUS
<1>3. Cascaded(c) = IF types'[j] # NoType THEN types'[j].code ELSE c
    BY <1>1, <1>2 DEF Cascaded
<1>4. CASE j = i
    BY <1>1, <1>3, <1>4
<1>5. CASE j # i
    <2>1. types[i] = NoType \/ types[i].code # c
        BY <1>1, <1>5 DEF TreeInv, EveryNodeHasAType, CodesUnique
    <2>2. QED BY <1>1, <1>3, <1>5, <2>1
<1>6. QED BY <1>4, <1>5

\* save and delete of a type, by a request that ran alone: the locations keep
\* their places, and follow the code if it is changed.
LEMMA TypeDirectory ==
    ASSUME SerialInv, TreeInv', NEW t \in TypeRequests, WriteType(t)
    PROVE  SerialInv' /\ DirectoryStep
<1> SUFFICES ASSUME ~raced PROVE Serial' /\ DirectoryStep
    BY DEF SerialInv, WriteType, DirectoryStep
<1> DEFINE b == tbody[t]
<1>1. /\ TreeInv /\ types \in [TypeIds -> TypeRow \cup {NoType}]
      /\ rows \in [Nodes -> Row \cup {NoRow}]
      /\ b \in NewTypeBody \cup ChangeTypeBody /\ tpc \in [TypeRequests -> TypeSteps]
    BY TreeAssumption DEF SerialInv, TreeInv, TypeOK, TypesTypeOK
<1>2. tpc[t] \in {"save", "delete"} /\ UNCHANGED <<requests, raced>> /\ tpc' = [tpc EXCEPT ![t] = "done"]
    BY DEF WriteType, SaveType, DeleteType, TGoto
<1>3. InFlight = {} /\ TypesInFlight = {t} /\ HoldsType(t) /\ Directory!Forest
    BY <1>2, TypeAlone DEF TypesInFlight
<1>4. InFlight' = {} /\ TypesInFlight' = {}
    BY <1>1, <1>2, <1>3 DEF requests, InFlight, TypesInFlight
<1>5. /\ \A n \in Nodes : rows'[n] = IF rows[n] = NoRow THEN NoRow
                                     ELSE [rows[n] EXCEPT !.type = Cascaded(rows[n].type)]
      /\ rows' \in [Nodes -> Row \cup {NoRow}]
    BY DEF WriteType, TreeInv, TypeOK
<1>6. \A n \in Nodes : rows[n] # NoRow => rows[n] \in Row /\ rows'[n] # NoRow
    BY <1>1, <1>5, CascadeKeepsTypes, TreeAssumption DEF WriteType, Row, TypeRow
<1>7. Live' = Live /\ \A n \in Live : rows'[n].parent = rows[n].parent
    BY <1>5, <1>6 DEF Live, Row
<1>8. Directory!Forest' /\ Directory!Consistent'
    <2>1. Directory!Forest'
        BY <1>3, <1>7 DEF Directory!Forest, Directory!Live, Live
    <2>2. QED BY <2>1, ConsistentIs, PTL
<1>9. ASSUME \A n \in Nodes : rows[n] # NoRow => Cascaded(rows[n].type) = rows[n].type
      PROVE  rows' = rows
    <2>1. ASSUME NEW n \in Nodes PROVE rows'[n] = rows[n]
        <3>1. CASE rows[n] # NoRow
            <4>1. [rows[n] EXCEPT !.type = rows[n].type] = rows[n]
                BY <1>6, <3>1 DEF Row
            <4>2. QED BY <1>5, <1>9, <3>1, <4>1
        <3>2. QED BY <1>5, <3>1
    <2>2. QED BY <1>1, <1>5, <2>1
\* Nothing is written.
<1>10. CASE types' = types
    <2>1. \A n \in Nodes : rows[n] # NoRow => Cascaded(rows[n].type) = rows[n].type
        <3> SUFFICES ASSUME NEW n \in Nodes, rows[n] # NoRow
                     PROVE  Cascaded(rows[n].type) = rows[n].type
            OBVIOUS
        <3>1. PICK i \in TypeIds : types[i] # NoType /\ types[i].code = rows[n].type
            BY <1>1 DEF TreeInv, EveryNodeHasAType, Known, IdsOf
        <3>2. QED BY <1>1, <1>10, <3>1, CascadedTo
    <2>2. QED BY <1>3, <1>4, <1>8, <1>9, <1>10, <2>1 DEF Serial, OneAtATime, DirectoryStep
\* The row of one type is written.
<1>11. ASSUME NEW i \in TypeIds, NEW v \in TypeRow \cup {NoType}, types' = [types EXCEPT ![i] = v],
              v = NoType => types[i] # NoType /\ types[i].code \notin ReferencedCodes,
              v # NoType /\ types[i] # NoType => v.root = types[i].root /\ v.under = types[i].under
       PROVE  Serial' /\ DirectoryStep
    <2>1. types'[i] = v /\ \A j \in TypeIds \ {i} : types'[j] = types[j]
        BY <1>1, <1>11
    <2>2. Directory!OnlyType(i)
        BY <2>1 DEF Directory!OnlyType
    <2>3. \A n \in Nodes : rows[n] # NoRow =>
            /\ types[i] = NoType \/ types[i].code # rows[n].type =>
                   Cascaded(rows[n].type) = rows[n].type
            /\ types[i] # NoType /\ types[i].code = rows[n].type /\ v # NoType =>
                   Cascaded(rows[n].type) = v.code
        BY <1>1, <2>1, CascadedTo
    <2>4. CASE v = NoType
        <3>1. \A n \in Nodes : rows[n] # NoRow => rows[n].type # types[i].code
            BY <1>11, <2>4 DEF ReferencedCodes
        <3>2. rows' = rows
            BY <1>9, <2>3, <3>1
        <3>3. Directory!DropType(i)
            BY <1>11, <2>1, <2>2, <2>4, <3>1, <3>2 DEF Directory!DropType, Directory!Existing
        <3>4. QED BY <1>4, <1>8, <3>3 DEF Serial, OneAtATime, DirectoryStep, Directory!Next
    <2>5. CASE v # NoType /\ types[i] = NoType
        <3>1. rows' = rows
            BY <1>9, <2>3, <2>5
        <3>2. Directory!AddType(i)
            BY <2>2, <2>5, <3>1 DEF Directory!AddType
        <3>3. QED BY <1>4, <1>8, <3>2 DEF Serial, OneAtATime, DirectoryStep, Directory!Next
    <2>6. CASE v # NoType /\ types[i] # NoType
        <3>1. ASSUME NEW n \in Nodes
              PROVE  rows'[n] = IF rows[n] # NoRow /\ rows[n].type = types[i].code
                                THEN [rows[n] EXCEPT !.type = types'[i].code] ELSE rows[n]
            <4>1. CASE rows[n] = NoRow
                BY <1>5, <4>1
            <4>2. CASE rows[n] # NoRow /\ rows[n].type = types[i].code
                BY <1>5, <2>1, <2>3, <2>6, <4>2
            <4>3. CASE rows[n] # NoRow /\ rows[n].type # types[i].code
                <5>1. [rows[n] EXCEPT !.type = rows[n].type] = rows[n]
                    BY <1>6, <4>3 DEF Row
                <5>2. QED BY <1>5, <2>3, <4>3, <5>1
            <4>4. QED BY <4>1, <4>2, <4>3
        <3>2. rows' = [n \in Nodes |-> IF rows[n] # NoRow /\ rows[n].type = types[i].code
                                       THEN [rows[n] EXCEPT !.type = types'[i].code] ELSE rows[n]]
            BY <1>5, <3>1
        <3>3. Directory!ChangeType(i)
            BY <1>11, <2>1, <2>2, <2>6, <3>2 DEF Directory!ChangeType, Directory!Existing
        <3>4. QED BY <1>4, <1>8, <3>3 DEF Serial, OneAtATime, DirectoryStep, Directory!Next
    <2>7. QED BY <2>4, <2>5, <2>6
<1>12. CASE SaveType(t)
    <2>1. tpc[t] = "save" /\ tentity[t] \in TypeRow
        BY <1>1, <1>12 DEF SaveType, TGoto, TreeInv, TypeRequestsHoldRows
    <2>2. PICK i \in TypeIds : SavedId(t, i) /\ types' \in {types, [types EXCEPT ![i] = tentity[t]]}
        BY <1>12 DEF SaveType
    <2>3. types[i] # NoType => tentity[t].root = types[i].root /\ tentity[t].under = types[i].under
        BY <1>3, <2>1, <2>2 DEF SavedId, HoldsType
    <2>4. tentity[t] # NoType
        BY <2>1, TreeAssumption
    <2>5. QED BY <1>10, <1>11, <2>1, <2>2, <2>3, <2>4
<1>13. CASE DeleteType(t, ReferencedCodes)
    <2> DEFINE i == b.id
    <2>1. CASE i \in TypeIds /\ types[i] # NoType
        BY <1>10, <1>11, <1>13, <2>1 DEF DeleteType
    <2>2. CASE ~(i \in TypeIds /\ types[i] # NoType)
        BY <1>1, <1>10, <1>13, <2>2 DEF DeleteType
    <2>3. QED BY <2>1, <2>2
<1>14. QED BY <1>12, <1>13 DEF WriteType

-----------------------------------------------------------------------------

\* Every step keeps the invariant, and is one of the directory while nothing
\* has overlapped.
LEMMA SerialNext ==
    SerialInv /\ TreeInv' /\ [Next]_vars => SerialInv' /\ DirectoryStep
<1> SUFFICES ASSUME SerialInv, TreeInv', [Next]_vars PROVE SerialInv' /\ DirectoryStep
    OBVIOUS
<1>1. ASSUME UNCHANGED <<rows, types, requests, typeRequests, raced>>
      PROVE  SerialInv' /\ DirectoryStep
    BY <1>1 DEF requests, typeRequests, SerialInv, DirectoryStep, Serial, Directory!Forest,
        Directory!Live, OneAtATime, InFlight, TypesInFlight, Holds, HoldsWith, HoldsNew, HoldsNode,
        MayStand, Allowed, Bookable, IdsOf, ParentType, Live, Below, ClosedBelow, Sent, HoldsType
<1>2. ASSUME NEW q \in Requests, Change(q) PROVE SerialInv' /\ DirectoryStep
    <2>1. CASE Save(q) \/ SoftRemove(q)
        BY <2>1, SaveDirectory, RemoveDirectory
    <2>2. CASE ~(Save(q) \/ SoftRemove(q))
        <3>1. SerialInv'
            BY <1>2, <2>2, SerialReading DEF Change
        <3>2. UNCHANGED <<rows, types>>
            BY <1>2, <2>2 DEF Change, tables, FindParent, FindNode, AssertNumberFree,
                AssertNoCycle, FindNewParent, AssertPlacementAllowed, ApplyBookableFields,
                ResolveDepartments, CountChildren
        <3>3. QED BY <3>1, <3>2 DEF DirectoryStep
    <2>3. QED BY <2>1, <2>2
<1>3. ASSUME NEW t \in TypeRequests, BeginType(t) \/ CheckType(t) PROVE SerialInv' /\ DirectoryStep
    <2>1. UNCHANGED <<rows, types>>
        BY <1>3 DEF BeginType, CheckType, StartCreateType, FindType, AssertCodeFree, CountLocations
    <2>2. QED BY <1>3, <2>1, SerialType DEF DirectoryStep
<1>4. ASSUME NEW t \in TypeRequests, WriteType(t) PROVE SerialInv' /\ DirectoryStep
    BY <1>4, TypeDirectory
<1>5. QED BY <1>1, <1>2, <1>3, <1>4 DEF Next, vars, tables, RemoveDepartment, AddDepartment

\* The seeded tables are consistent, and no request is on its way.
LEMMA SerialInit ==
    Init => SerialInv /\ Directory!Init
<1> SUFFICES ASSUME Init PROVE SerialInv /\ Directory!Init
    OBVIOUS
<1>1. TreeInv
    BY TreeInit
<1>2. Directory!Forest
    BY ForestAssumption DEF Init, Directory!Forest, Directory!Live
<1>3. InFlight = {} /\ TypesInFlight = {}
    BY DEF Init, TypesInit, InFlight, TypesInFlight
<1>4. QED BY <1>1, <1>2, <1>3, ConsistentIs DEF SerialInv, Serial, OneAtATime, Directory!Init

\* Requests that do not overlap keep the promises of the directory: a forest, in
\* which every node stands where its type may stand when it is put there.
THEOREM ImplementsDirectoryHolds ==
    Spec => ImplementsDirectory
<1>1. DirectoryStep <=> [~raced' => Directory!Next]_<<rows, types>>
    BY DEF DirectoryStep
<1>2. QED BY <1>1, SerialInit, SerialNext, TreeInvariant, PTL DEF Spec, ImplementsDirectory

\* The nodes below n are the least set closed under children.
LEMMA BelowClosed ==
    ASSUME NEW n
    PROVE  /\ Below(n) \subseteq Nodes /\ ClosedBelow(n, Below(n))
           /\ \A S \in SUBSET Nodes : ClosedBelow(n, S) => Below(n) \subseteq S
BY DEF Below, ClosedBelow, Live

\* In a forest no node is below itself: all nodes below it would have their
\* parents among themselves.
LEMMA ForestHasNoCycle ==
    ASSUME Directory!Forest, NEW n, n \in Below(n)
    PROVE  FALSE
<1> DEFINE inner == {m \in Below(n) : m \in Live /\ rows[m].parent \in Below(n)}
<1>1. ClosedBelow(n, inner)
    <2>1. ASSUME NEW c \in Live, rows[c].parent \in inner \cup {n} PROVE c \in inner
        <3>1. rows[c].parent \in Below(n)
            BY <2>1
        <3>2. c \in Below(n)
            BY <3>1, BelowClosed DEF ClosedBelow
        <3> QED BY <3>1, <3>2
    <2> HIDE DEF inner
    <2> QED BY <2>1 DEF ClosedBelow
<1>2. Below(n) \subseteq inner
    BY <1>1, BelowClosed
<1>3. Below(n) \subseteq Directory!Live /\ \A m \in Below(n) : rows[m].parent \in Below(n)
    BY <1>2 DEF Live, Directory!Live
<1> QED BY <1>3 DEF Directory!Forest

\* Moves make no cycle until two requests overlap, and so every recursive query
\* over the tree ends (assertNoCycle, getTree).
THEOREM WalksEndUntilRacedHolds == Spec => []WalksEndUntilRaced
<1>1. SerialInv => WalksEndUntilRaced
    BY ForestHasNoCycle DEF SerialInv, Serial, WalksEndUntilRaced, WalkEnds
<1> QED BY <1>1, SerialInit, SerialNext, TreeInvariant, PTL DEF Spec
==============================================================================
