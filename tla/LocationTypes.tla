---------------------------- MODULE LocationTypes ----------------------------
(***************************************************************************)
(* LocationTypeService (location-type.service.ts) over the location_types  *)
(* table, one action per statement. The locations table refers to a type   *)
(* by its code, through a foreign key ON DELETE RESTRICT ON UPDATE         *)
(* CASCADE: the actions that depend on it take the codes in use, and       *)
(* LocationTree composes them with the locations.                          *)
(***************************************************************************)
EXTENDS Naturals

CONSTANTS
    TypeIds, Codes,     \* ids and codes of location types
    TypeRequests,       \* the requests of /location-types
    TypeBodies,         \* their bodies
    InitialTypes,       \* location_types as seeded
    Absent,             \* a field the body does not send
    NoType              \* the id is not in the table

\* is_bookable, allow_root and allowed_parent_types.
TypeRow == [code : Codes, bookable : BOOLEAN, root : BOOLEAN, under : SUBSET Codes]

NewTypeBody == [op : {"create"}, code : Codes, bookable : BOOLEAN \cup {Absent},
                root : BOOLEAN, under : SUBSET Codes]

ChangeTypeBody == [op : {"update", "remove"}, id : TypeIds, code : Codes \cup {Absent},
                   bookable : BOOLEAN \cup {Absent}, root : BOOLEAN \cup {Absent},
                   under : (SUBSET Codes) \cup {Absent}]

VARIABLES types,                    \* the table
          tbody, tpc, tentity       \* request: body, next step, row as read

typeRequests == <<tbody, tpc, tentity>>

TypeSteps == {"start", "code", "inuse", "save", "delete", "done"}

TypesTypeOK ==
    /\ types \in [TypeIds -> TypeRow \cup {NoType}]
    /\ tbody \in [TypeRequests -> TypeBodies]
    /\ tpc \in [TypeRequests -> TypeSteps]
    /\ tentity \in [TypeRequests -> TypeRow \cup {NoType}]

\* uq_location_type_code.
CodesUnique ==
    \A i, j \in TypeIds :
        types[i] # NoType /\ types[j] # NoType /\ types[i].code = types[j].code => i = j

IdsOf(code) == {i \in TypeIds : types[i] # NoType /\ types[i].code = code}

Known(code) == IdsOf(code) # {}

\* getByCodeOrFail, for a known code.
GetByCode(code) == types[CHOOSE i \in IdsOf(code) : TRUE]

TypesInit ==
    /\ types = InitialTypes
    /\ tbody \in [TypeRequests -> TypeBodies]
    /\ tpc = [t \in TypeRequests |-> "start"]
    /\ tentity = [t \in TypeRequests |-> NoType]

-----------------------------------------------------------------------------

TGoto(t, from, to) == tpc[t] = from /\ tpc' = [tpc EXCEPT ![t] = to]

\* The row with the fields of the body in it: update() drops root and under.
Merged(row, body) ==
    [row EXCEPT !.code = IF body.code = Absent THEN @ ELSE body.code,
                !.bookable = IF body.bookable = Absent THEN @ ELSE body.bookable]

\* create: the new row; isBookable is false when it is not sent.
NewType(body) ==
    [code |-> body.code, bookable |-> body.bookable = TRUE,
     root |-> body.root, under |-> body.under]

StartCreateType(t) ==
    /\ tbody[t].op = "create"
    /\ TGoto(t, "start", "code")
    /\ tentity' = [tentity EXCEPT ![t] = NewType(tbody[t])]
    /\ UNCHANGED <<types, tbody>>

\* findOne: 404, or the row.
FindType(t) ==
    LET body == tbody[t]
        found == types[body.id]
    IN  /\ body.op # "create" /\ tpc[t] = "start"
        /\ \/ found = NoType /\ TGoto(t, "start", "done") /\ UNCHANGED tentity
           \/ /\ found # NoType
              /\ tentity' = [tentity EXCEPT ![t] =
                                IF body.op = "update" THEN Merged(found, body) ELSE found]
              /\ TGoto(t, "start",
                       IF body.op = "remove" THEN "inuse"
                       ELSE IF body.code \in {Absent, found.code} THEN "save" ELSE "code")
        /\ UNCHANGED <<types, tbody>>

\* assertCodeFree: 409.
AssertCodeFree(t) ==
    /\ tpc[t] = "code"
    /\ TGoto(t, "code", IF Known(tentity[t].code) THEN "done" ELSE "save")
    /\ UNCHANGED <<types, tbody, tentity>>

\* The id save() writes to: a new one, or the one that was read.
SavedId(t, i) ==
    IF tbody[t].op = "create" THEN types[i] = NoType ELSE i = tbody[t].id

\* save: the whole row as the request holds it, unless another row has the code
\* (uq_location_type_code). A row that has been deleted is inserted again.
SaveType(t) ==
    /\ TGoto(t, "save", "done")
    /\ \E i \in TypeIds :
        /\ SavedId(t, i)
        /\ types' = IF IdsOf(tentity[t].code) \subseteq {i}
                    THEN [types EXCEPT ![i] = tentity[t]] ELSE types
    /\ UNCHANGED <<tbody, tentity>>

\* remove counts the active locations of the type: 409.
CountLocations(t, used) ==
    /\ tpc[t] = "inuse"
    /\ TGoto(t, "inuse", IF tentity[t].code \in used THEN "done" ELSE "delete")
    /\ UNCHANGED <<types, tbody, tentity>>

\* Mutant: without the foreign key.
DeleteType_NoForeignKey(t, referenced) ==
    /\ TGoto(t, "delete", "done")
    /\ types' = [types EXCEPT ![tbody[t].id] = NoType]
    /\ UNCHANGED <<tbody, tentity>>

\* DELETE, which the foreign key rejects while any row, soft-deleted ones
\* included, has the code.
DeleteType(t, referenced) ==
    LET i == tbody[t].id
    IN  /\ TGoto(t, "delete", "done")
        /\ types' = IF types[i] # NoType /\ types[i].code \in referenced
                    THEN types ELSE [types EXCEPT ![i] = NoType]
        /\ UNCHANGED <<tbody, tentity>>

\* The code a row has after types have changed: ON UPDATE CASCADE.
Cascaded(code) ==
    IF \E i \in IdsOf(code) : types'[i] # NoType
    THEN types'[CHOOSE i \in IdsOf(code) : TRUE].code
    ELSE code
==============================================================================
