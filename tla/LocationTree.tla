---------------------------- MODULE LocationTree -----------------------------
(***************************************************************************)
(* LocationService (location.service.ts): create, update and remove over   *)
(* the locations table, one action per statement, together with            *)
(* LocationTypeService and departments that come and go.                   *)
(*                                                                         *)
(* save() writes every column as the request holds it, deleted_at and the  *)
(* departments included: what other requests have changed since the row    *)
(* was read is overwritten.                                                *)
(***************************************************************************)
EXTENDS LocationTypes

CONSTANTS
    Nodes, Numbers, Departments,    \* location ids, location numbers, department ids
    Requests,           \* POST, PATCH and DELETE /locations requests
    Bodies,             \* their bodies
    InitialRows,        \* locations as seeded
    NoNode,             \* parent_id null
    NoRow               \* the id is not in the table

\* A location. open says that capacity and open hours are not null.
Row == [number : Numbers, type : Codes, parent : Nodes \cup {NoNode}, open : BOOLEAN,
        departments : SUBSET Departments, live : BOOLEAN]

\* fields says whether capacity and openTimeRule are sent: both, one, or none;
\* malformed: both, and the rule does not parse.
FieldsSent == {"all", "some", "none", "malformed"}

NewBody == [op : {"create"}, number : Numbers, type : Codes, parent : Nodes \cup {NoNode},
            fields : FieldsSent, departments : (SUBSET Departments) \cup {Absent}]

ChangeBody == [op : {"update", "remove"}, node : Nodes,
               number : Numbers \cup {Absent}, type : Codes \cup {Absent},
               parent : Nodes \cup {NoNode, Absent}, fields : FieldsSent,
               departments : (SUBSET Departments) \cup {Absent}]

ASSUME TreeAssumption ==
    /\ Bodies \subseteq NewBody \cup ChangeBody
    /\ TypeBodies \subseteq NewTypeBody \cup ChangeTypeBody
    /\ NoRow \notin Row /\ NoNode \notin Nodes \cup Codes /\ NoType \notin TypeRow
    /\ Absent \notin Codes /\ Absent \notin Numbers /\ Absent \notin Nodes \cup {NoNode}

\* The seeded tables satisfy the constraints of the migrations.
ASSUME SeedAssumption ==
    /\ InitialRows \in [Nodes -> Row \cup {NoRow}]
    /\ InitialTypes \in [TypeIds -> TypeRow \cup {NoType}]
    /\ \A m, n \in Nodes : InitialRows[m] # NoRow /\ InitialRows[n] # NoRow =>
            InitialRows[m].number # InitialRows[n].number \/ m = n
    /\ \A i, j \in TypeIds : InitialTypes[i] # NoType /\ InitialTypes[j] # NoType =>
            InitialTypes[i].code # InitialTypes[j].code \/ i = j
    /\ \A n \in Nodes : InitialRows[n] # NoRow =>
            \E i \in TypeIds : InitialTypes[i] # NoType /\ InitialTypes[i].code = InitialRows[n].type

\* So do parent_id and the tree: no cycle, no live location under a removed one.
ASSUME ForestAssumption ==
    LET live == {n \in Nodes : InitialRows[n] # NoRow /\ InitialRows[n].live}
    IN  /\ \A n \in live : InitialRows[n].parent \in live \cup {NoNode}
        /\ \A S \in SUBSET live : S # {} => \E n \in S : InitialRows[n].parent \notin S

VARIABLES
    rows, departments,              \* the table with its join rows, the live departments
    body, pc, entity, above, code,  \* request: body, next step, entity, type of its parent, answer
    raced                           \* two requests have run at the same time

tables   == <<rows, types, departments>>
requests == <<body, pc, entity, above, code>>
vars     == <<tables, requests, typeRequests, raced>>

Steps == {"find", "parent", "placement", "number", "cycle", "bookable", "departments",
          "save", "children", "delete", "done"}

-----------------------------------------------------------------------------
(* The tree.                                                               *)

Live == {n \in Nodes : rows[n] # NoRow /\ rows[n].live}

\* A set with all live children of n and of its members.
ClosedBelow(n, S) == \A c \in Live : rows[c].parent \in S \cup {n} => c \in S

\* The recursive query over parent_id: the nodes below n.
Below(n) == {m \in Nodes : \A S \in SUBSET Nodes : ClosedBelow(n, S) => m \in S}

\* The query of assertNoCycle ends: UNION ALL never ends below a cycle.
WalkEnds(n) == \A m \in Below(n) : m \notin Below(m)

\* location_number is free among the live rows but i: uq_location_number.
NumberUnused(i, number) == \A n \in Live \ {i} : rows[n].number # number

Init ==
    /\ TypesInit
    /\ rows = InitialRows
    /\ departments = Departments
    /\ body \in [Requests -> Bodies]
    /\ pc = [q \in Requests |-> "find"]
    /\ entity = [q \in Requests |-> NoRow]
    /\ above = [q \in Requests |-> Absent]
    /\ code = [q \in Requests |-> 0]
    /\ raced = FALSE

-----------------------------------------------------------------------------

Goto(q, from, to) == pc[q] = from /\ pc' = [pc EXCEPT ![q] = to]

\* An exception: the answer's status code.
Fail(q, from, status) ==
    /\ Goto(q, from, "done")
    /\ code' = [code EXCEPT ![q] = status]
    /\ UNCHANGED <<entity, above>>

\* The request runs on without changing what it has read.
Pass(q, from, to) == Goto(q, from, to) /\ UNCHANGED <<entity, above, code>>

Keep(q, to) == entity' = [entity EXCEPT ![q] = to] /\ UNCHANGED <<above, code>>

InFlight == {q \in Requests : pc[q] \notin {"find", "done"}}
TypesInFlight == {t \in TypeRequests : tpc[t] \notin {"start", "done"}}

\* A request begins: has it company?
Begin == raced' = (raced \/ InFlight # {} \/ TypesInFlight # {})

Sent(q) == body[q]
IsCreate(q) == body[q].op = "create"

\* create: the parent is looked for, 404; the entity has no id yet.
FindParent(q) ==
    LET b == Sent(q)
        new == [number |-> b.number, type |-> b.type, parent |-> b.parent,
                open |-> FALSE, departments |-> {}, live |-> TRUE]
    IN  /\ IsCreate(q)
        /\ \/ b.parent \notin Live \cup {NoNode} /\ Fail(q, "find", 404)
           \/ /\ b.parent \in Live \cup {NoNode}
              /\ Goto(q, "find", "placement")
              /\ entity' = [entity EXCEPT ![q] = new]
              /\ above' = [above EXCEPT ![q] = IF b.parent = NoNode THEN NoNode
                                               ELSE rows[b.parent].type]
              /\ UNCHANGED code
        /\ Begin
        /\ UNCHANGED <<tables, body, typeRequests>>

\* update, remove: findOne, 404; the join leaves out soft-deleted departments.
FindNode(q) ==
    LET n == Sent(q).node
    IN  /\ ~IsCreate(q)
        /\ \/ n \notin Live /\ Fail(q, "find", 404)
           \/ /\ n \in Live
              /\ Goto(q, "find", IF Sent(q).op = "update" THEN "number" ELSE "children")
              /\ Keep(q, [rows[n] EXCEPT !.departments = @ \cap departments])
        /\ Begin
        /\ UNCHANGED <<tables, body, typeRequests>>

\* assertNumberFree, 409; update asks only when the number changes.
AssertNumberFree(q) ==
    LET number == Sent(q).number
        next == IF IsCreate(q) THEN "bookable" ELSE "cycle"
    IN  /\ pc[q] = "number"
        /\ IF ~IsCreate(q) /\ number \in {Absent, entity[q].number} THEN Pass(q, "number", next)
           ELSE IF \E n \in Live : rows[n].number = number THEN Fail(q, "number", 409)
           ELSE Goto(q, "number", next) /\ Keep(q, [entity[q] EXCEPT !.number = number])
        /\ UNCHANGED <<tables, body, typeRequests, raced>>

\* Mutant: only the node itself is refused as its parent.
AssertNoCycle_SelfOnly(q) ==
    LET p == Sent(q).parent
        n == Sent(q).node
    IN  /\ pc[q] = "cycle"
        /\ \/ p \in {Absent, entity[q].parent} /\ Pass(q, "cycle", "parent")
           \/ p = n /\ p # entity[q].parent /\ Fail(q, "cycle", 400)
           \/ /\ p \notin {Absent, entity[q].parent, n}
              /\ Goto(q, "cycle", "parent")
              /\ Keep(q, [entity[q] EXCEPT !.parent = p])
        /\ UNCHANGED <<tables, body, typeRequests, raced>>

\* assertNoCycle, 400, when the parent changes. Below a cycle it gets no answer.
AssertNoCycle(q) ==
    LET p == Sent(q).parent
        n == Sent(q).node
        same == p \in {Absent, entity[q].parent}
    IN  /\ pc[q] = "cycle"
        /\ \/ same /\ Pass(q, "cycle", "parent")
           \/ /\ ~same /\ p # NoNode /\ (p = n \/ (WalkEnds(n) /\ p \in Below(n)))
              /\ Fail(q, "cycle", 400)
           \/ /\ ~same /\ (p = NoNode \/ (p # n /\ WalkEnds(n) /\ p \notin Below(n)))
              /\ Goto(q, "cycle", "parent")
              /\ Keep(q, [entity[q] EXCEPT !.parent = p])
        /\ UNCHANGED <<tables, body, typeRequests, raced>>

NextType(q) == IF Sent(q).type = Absent THEN entity[q].type ELSE Sent(q).type

\* update: the placement is checked again if type or parentId was sent.
FindNewParent(q) ==
    LET p == entity[q].parent
    IN  /\ pc[q] = "parent"
        /\ IF Sent(q).type = Absent /\ Sent(q).parent = Absent THEN Pass(q, "parent", "bookable")
           ELSE IF p \notin Live \cup {NoNode} THEN Fail(q, "parent", 404)
           ELSE /\ Goto(q, "parent", "placement")
                /\ above' = [above EXCEPT ![q] = IF p = NoNode THEN NoNode ELSE rows[p].type]
                /\ UNCHANGED <<entity, code>>
        /\ UNCHANGED <<tables, body, typeRequests, raced>>

\* The type may stand under a node of type parentType, or at the root.
PlacementAllowed(type, parentType) ==
    IF parentType = NoNode THEN GetByCode(type).root
    ELSE parentType \in GetByCode(type).under

\* assertPlacementAllowed, 400, also for an unknown type.
AssertPlacementAllowed(q) ==
    LET next == IF IsCreate(q) THEN "number" ELSE "bookable"
    IN  /\ pc[q] = "placement"
        /\ IF Known(NextType(q)) /\ PlacementAllowed(NextType(q), above[q])
           THEN Pass(q, "placement", next)
           ELSE Fail(q, "placement", 400)
        /\ UNCHANGED <<tables, body, typeRequests, raced>>

\* applyBookableFields: capacity and hours may come from the row on an update.
FieldsComplete(q) ==
    Sent(q).fields \in {"all", "malformed"} \/ (~IsCreate(q) /\ entity[q].open)

\* applyBookableFields, 400, or 500 from parseOpenTimeRule; without type and
\* fields update only reads the type, and clears the departments of a node that
\* is not bookable.
ApplyBookableFields(q) ==
    LET type == NextType(q)
        bookable == GetByCode(type).bookable
        applies == IsCreate(q) \/ Sent(q).type # Absent \/ Sent(q).fields # "none"
        typed == [entity[q] EXCEPT !.type = type]
    IN  /\ pc[q] = "bookable"
        /\ IF ~Known(type) \/ (applies /\ bookable /\ ~FieldsComplete(q))
           THEN Fail(q, "bookable", 400)
           ELSE IF bookable /\ Sent(q).fields = "malformed"
           THEN Fail(q, "bookable", 500)
           ELSE IF bookable
           THEN /\ Goto(q, "bookable", "departments")
                /\ Keep(q, [typed EXCEPT !.open = IF applies THEN TRUE ELSE @])
           ELSE /\ Goto(q, "bookable", "save")
                /\ Keep(q, [typed EXCEPT !.open = IF applies THEN FALSE ELSE @,
                                         !.departments = {}])
        /\ UNCHANGED <<tables, body, typeRequests, raced>>

\* resolveDepartments, 400; update keeps the departments when none are sent.
ResolveDepartments(q) ==
    LET sent == Sent(q).departments
    IN  /\ pc[q] = "departments"
        /\ IF ~IsCreate(q) /\ sent = Absent THEN Pass(q, "departments", "save")
           ELSE IF sent \in {Absent, {}} \/ ~(sent \subseteq departments)
           THEN Fail(q, "departments", 400)
           ELSE Goto(q, "departments", "save") /\ Keep(q, [entity[q] EXCEPT !.departments = sent])
        /\ UNCHANGED <<tables, body, typeRequests, raced>>

SavedNode(q, n) == IF IsCreate(q) THEN rows[n] = NoRow ELSE n = Sent(q).node

\* Mutant: without uq_location_number.
Save_NoIndex(q) ==
    /\ pc[q] = "save"
    /\ \E n \in Nodes :
           /\ SavedNode(q, n)
           /\ \/ ~Known(entity[q].type) /\ Fail(q, "save", 500) /\ UNCHANGED rows
              \/ /\ Known(entity[q].type)
                 /\ Goto(q, "save", "done")
                 /\ rows' = [rows EXCEPT ![n] = entity[q]]
                 /\ code' = [code EXCEPT ![q] = 200]
                 /\ UNCHANGED <<entity, above>>
           /\ UNCHANGED <<types, departments, body, typeRequests, raced>>

\* save: 500 if the number or the type violates a constraint.
Save(q) ==
    /\ pc[q] = "save"
    /\ \E n \in Nodes :
           /\ SavedNode(q, n)
           /\ \/ /\ ~Known(entity[q].type) \/ ~NumberUnused(n, entity[q].number)
                 /\ Fail(q, "save", 500) /\ UNCHANGED rows
              \/ /\ Known(entity[q].type) /\ NumberUnused(n, entity[q].number)
                 /\ Goto(q, "save", "done")
                 /\ rows' = [rows EXCEPT ![n] = entity[q]]
                 /\ code' = [code EXCEPT ![q] = 200]
                 /\ UNCHANGED <<entity, above>>
           /\ UNCHANGED <<types, departments, body, typeRequests, raced>>

\* remove: 409 while the node has active children.
CountChildren(q) ==
    /\ pc[q] = "children"
    /\ IF \E c \in Live : rows[c].parent = Sent(q).node
       THEN Fail(q, "children", 409)
       ELSE Pass(q, "children", "delete")
    /\ UNCHANGED <<tables, body, typeRequests, raced>>

\* softRemove: deleted_at is set, whatever else has happened to the row.
SoftRemove(q) ==
    /\ Goto(q, "delete", "done")
    /\ rows' = [rows EXCEPT ![Sent(q).node].live = FALSE]
    /\ code' = [code EXCEPT ![q] = 204]
    /\ UNCHANGED <<entity, above, types, departments, body, typeRequests, raced>>

\* DepartmentService.remove.
RemoveDepartment(d) ==
    /\ d \in departments
    /\ departments' = departments \ {d}
    /\ UNCHANGED <<rows, types, requests, typeRequests, raced>>

\* A new department, or the save of a PATCH that read one before it was removed.
AddDepartment(d) ==
    /\ d \notin departments
    /\ departments' = departments \cup {d}
    /\ UNCHANGED <<rows, types, requests, typeRequests, raced>>

-----------------------------------------------------------------------------
(* /location-types.                                                        *)

UsedCodes == {rows[n].type : n \in Live}
ReferencedCodes == {rows[n].type : n \in {m \in Nodes : rows[m] # NoRow}}

BeginType(t) ==
    /\ StartCreateType(t) \/ FindType(t)
    /\ Begin
    /\ UNCHANGED <<rows, departments, requests>>

CheckType(t) ==
    /\ AssertCodeFree(t) \/ CountLocations(t, UsedCodes)
    /\ UNCHANGED <<rows, departments, requests, raced>>

\* A new code reaches the locations through ON UPDATE CASCADE.
WriteType(t) ==
    /\ SaveType(t) \/ DeleteType(t, ReferencedCodes)
    /\ rows' = [n \in Nodes |-> IF rows[n] = NoRow THEN NoRow
                                ELSE [rows[n] EXCEPT !.type = Cascaded(@)]]
    /\ UNCHANGED <<departments, requests, raced>>

Change(q) ==
    \/ FindParent(q) \/ FindNode(q) \/ AssertNumberFree(q) \/ AssertNoCycle(q)
    \/ FindNewParent(q) \/ AssertPlacementAllowed(q) \/ ApplyBookableFields(q)
    \/ ResolveDepartments(q) \/ Save(q) \/ CountChildren(q) \/ SoftRemove(q)

Next ==
    \/ \E q \in Requests : Change(q)
    \/ \E t \in TypeRequests : BeginType(t) \/ CheckType(t) \/ WriteType(t)
    \/ \E d \in Departments : RemoveDepartment(d) \/ AddDepartment(d)

Spec == Init /\ [][Next]_vars

-----------------------------------------------------------------------------
(* Properties.                                                             *)

TypeOK ==
    /\ TypesTypeOK
    /\ rows \in [Nodes -> Row \cup {NoRow}]
    /\ departments \subseteq Departments
    /\ body \in [Requests -> Bodies]
    /\ pc \in [Requests -> Steps]
    /\ entity \in [Requests -> Row \cup {NoRow}]
    /\ above \in [Requests -> Codes \cup {NoNode, Absent}]
    /\ raced \in BOOLEAN

\* What a request on its way holds: a complete entity, and for an existing node
\* an id whose row is never deleted from the table.
RequestsHoldRows ==
    \A q \in Requests : pc[q] \notin {"find", "done"} =>
        /\ entity[q] \in Row
        /\ IsCreate(q) => pc[q] \in {"placement", "number", "bookable", "departments", "save"}
        /\ ~IsCreate(q) => rows[Sent(q).node] # NoRow

\* A request of /location-types holds a complete row on its way.
TypeRequestsHoldRows ==
    \A t \in TypeRequests : tpc[t] \notin {"start", "done"} => tentity[t] \in TypeRow

\* The partial unique index: no two live locations have the same number, however
\* the checks of concurrent requests interleave (assertNumberFree, save).
NumbersUnique ==
    \A m, n \in Live : rows[m].number = rows[n].number => m = n

\* uq_location_type_code and the foreign key: every location has exactly one
\* type, through concurrent renames, removals and saves of stale entities.
EveryNodeHasAType ==
    /\ CodesUnique
    /\ \A n \in Nodes : rows[n] # NoRow => Known(rows[n].type)

Directory == INSTANCE LocationDirectory

\* Until two requests overlap, the promises of the directory are kept: each
\* request is one of its steps or changes nothing, with the tables consistent
\* throughout (the checks of create, update and remove, in location.service.ts
\* and location-type.service.ts). Once they overlap they are not: two moves that
\* each pass assertNoCycle close a cycle, and a child may be put under a node
\* between the count of its children and its soft-delete.
ImplementsDirectory == Directory!Init /\ [][~raced' => Directory!Next]_<<rows, types>>

\* Until two requests overlap the checks of moves, "the service checks it does not
\* create a cycle" (update-location.dto.ts:6-8), keep every recursive query over
\* the tree from running for ever (assertNoCycle, getTree).
WalksEndUntilRaced == ~raced => \A n \in Nodes : WalkEnds(n)
==============================================================================
