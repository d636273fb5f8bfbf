----------------------------- MODULE Departments -----------------------------
(***************************************************************************)
(* DepartmentService (department.service.ts): create, update and remove    *)
(* over the departments table, one action per statement.                   *)
(*                                                                         *)
(* The service looks for duplicates with ILIKE, which ignores case and     *)
(* reads % and _ as wildcards; the table has unique indexes on the exact   *)
(* texts of the rows that are not soft-deleted.                            *)
(***************************************************************************)
EXTENDS Naturals

CONSTANTS
    Ids, Texts,         \* department ids, codes and names
    Trim,               \* String.trim
    Fold,               \* a text without its case
    ILike,              \* <<pattern, text>> for which text ILIKE pattern
    Requests, Bodies,   \* the requests of /departments and their bodies
    InitialRows,        \* the departments as seeded
    Absent,             \* a field the body does not send
    NoRow,              \* the id is not in the table
    Removed             \* how the catalog shows a removed department

Row == [code : Texts, name : Texts, live : BOOLEAN]

NewBody == [op : {"create"}, code : Texts, name : Texts]

ChangeBody == [op : {"update", "remove"}, id : Ids,
               code : Texts \cup {Absent}, name : Texts \cup {Absent}]

ASSUME DepartmentAssumption ==
    /\ Bodies \subseteq NewBody \cup ChangeBody
    /\ Trim \in [Texts -> Texts]
    /\ Absent \notin Texts /\ NoRow \notin Row
    /\ NoRow \notin [code : Texts, name : Texts] /\ Removed \notin [code : Texts, name : Texts]
    /\ NoRow # Removed

\* ILIKE ignores case. (Not so for a text with a backslash, its escape
\* character: such texts are not among Texts.)
ASSUME ILikeAssumption ==
    \A s, t \in Texts : Fold[s] = Fold[t] => <<s, t>> \in ILike

ASSUME SeedAssumption ==
    /\ InitialRows \in [Ids -> Row \cup {NoRow}]
    /\ \A d, e \in Ids : d # e /\ InitialRows[d] # NoRow /\ InitialRows[e] # NoRow =>
            /\ Fold[InitialRows[d].code] # Fold[InitialRows[e].code]
            /\ Fold[InitialRows[d].name] # Fold[InitialRows[e].name]

VARIABLES
    rows,                       \* the table
    body, pc, entity, answer,   \* request: body, next step, entity, status code
    raced                       \* two requests have run at the same time

requests == <<body, pc, entity, answer>>
vars == <<rows, requests, raced>>

Steps == {"find", "code", "name", "save", "delete", "done"}

Live == {d \in Ids : rows[d] # NoRow /\ rows[d].live}

TypeOK ==
    /\ rows \in [Ids -> Row \cup {NoRow}]
    /\ body \in [Requests -> Bodies]
    /\ pc \in [Requests -> Steps]
    /\ entity \in [Requests -> Row \cup {NoRow}]
    /\ answer \in [Requests -> Nat]
    /\ raced \in BOOLEAN

Init ==
    /\ rows = InitialRows
    /\ body \in [Requests -> Bodies]
    /\ pc = [q \in Requests |-> "find"]
    /\ entity = [q \in Requests |-> NoRow]
    /\ answer = [q \in Requests |-> 0]
    /\ raced = FALSE

-----------------------------------------------------------------------------

Goto(q, from, to) == pc[q] = from /\ pc' = [pc EXCEPT ![q] = to]

\* The request ends with a status code.
Answer(q, from, status) ==
    /\ Goto(q, from, "done")
    /\ answer' = [answer EXCEPT ![q] = status]
    /\ UNCHANGED entity

Keep(q, from, to, row) ==
    /\ Goto(q, from, to)
    /\ entity' = [entity EXCEPT ![q] = row]
    /\ UNCHANGED answer

InFlight == {q \in Requests : pc[q] \notin {"find", "done"}}

IsCreate(q) == body[q].op = "create"

\* The rows in which a duplicate is looked for: update leaves out its own.
Others(q) == IF IsCreate(q) THEN Live ELSE Live \ {body[q].id}

\* findOne, 404.
FindDepartment(q) ==
    LET d == body[q].id
    IN  /\ ~IsCreate(q)
        /\ \/ d \notin Live /\ Answer(q, "find", 404)
           \/ /\ d \in Live
              /\ Keep(q, "find", IF body[q].op = "update" THEN "code" ELSE "delete", rows[d])

\* create starts with both texts trimmed.
StartCreate(q) ==
    /\ IsCreate(q)
    /\ Keep(q, "find", "code",
            [code |-> Trim[body[q].code], name |-> Trim[body[q].name], live |-> TRUE])

Begin(q) ==
    /\ StartCreate(q) \/ FindDepartment(q)
    /\ raced' = (raced \/ InFlight # {})
    /\ UNCHANGED <<rows, body>>

\* Mutant: the texts are compared as the table's indexes compare them.
CheckCode_CaseSensitive(q) ==
    LET text == Trim[body[q].code]
    IN  /\ pc[q] = "code"
        /\ \/ body[q].code = Absent /\ Keep(q, "code", "name", entity[q])
           \/ /\ body[q].code # Absent
              /\ IF \E d \in Others(q) : text = rows[d].code
                 THEN Answer(q, "code", 409)
                 ELSE Keep(q, "code", "name", [entity[q] EXCEPT !.code = text])
        /\ UNCHANGED <<rows, body, raced>>

\* No other department has the code, 409.
CheckCode(q) ==
    LET text == Trim[body[q].code]
    IN  /\ pc[q] = "code"
        /\ \/ body[q].code = Absent /\ Keep(q, "code", "name", entity[q])
           \/ /\ body[q].code # Absent
              /\ IF \E d \in Others(q) : <<text, rows[d].code>> \in ILike
                 THEN Answer(q, "code", 409)
                 ELSE Keep(q, "code", "name", [entity[q] EXCEPT !.code = text])
        /\ UNCHANGED <<rows, body, raced>>

\* No other department has the name, 409.
CheckName(q) ==
    LET text == Trim[body[q].name]
    IN  /\ pc[q] = "name"
        /\ \/ body[q].name = Absent /\ Keep(q, "name", "save", entity[q])
           \/ /\ body[q].name # Absent
              /\ IF \E d \in Others(q) : <<text, rows[d].name>> \in ILike
                 THEN Answer(q, "name", 409)
                 ELSE Keep(q, "name", "save", [entity[q] EXCEPT !.name = text])
        /\ UNCHANGED <<rows, body, raced>>

SavedId(q, d) == IF IsCreate(q) THEN rows[d] = NoRow ELSE d = body[q].id

\* Mutant: without the index on the names.
IndexAllows_CodesOnly(d, row) == \A e \in Live \ {d} : rows[e].code # row.code

\* uq_department_code and uq_department_name.
IndexAllows(d, row) ==
    \A e \in Live \ {d} : rows[e].code # row.code /\ rows[e].name # row.name

\* save: the row as the request holds it, so that one removed meanwhile is back;
\* 500 if an index refuses it.
Save(q) ==
    /\ pc[q] = "save"
    /\ \E d \in Ids :
        /\ SavedId(q, d)
        /\ \/ ~IndexAllows(d, entity[q]) /\ Answer(q, "save", 500) /\ UNCHANGED rows
           \/ /\ IndexAllows(d, entity[q])
              /\ Answer(q, "save", 200)
              /\ rows' = [rows EXCEPT ![d] = entity[q]]
    /\ UNCHANGED <<body, raced>>

\* softRemove: deleted_at is set, whatever else has happened to the row.
SoftRemove(q) ==
    /\ Answer(q, "delete", 204)
    /\ rows' = [rows EXCEPT ![body[q].id].live = FALSE]
    /\ UNCHANGED <<body, raced>>

Next ==
    \E q \in Requests : Begin(q) \/ CheckCode(q) \/ CheckName(q) \/ Save(q) \/ SoftRemove(q)

Spec == Init /\ [][Next]_vars

-----------------------------------------------------------------------------
(* Properties.                                                             *)

\* A request on its way holds a row, and the row it changes is in the table.
RequestsHoldRows ==
    \A q \in Requests : pc[q] \notin {"find", "done"} =>
        /\ entity[q] \in Row /\ entity[q].live
        /\ IsCreate(q) => pc[q] # "delete"
        /\ ~IsCreate(q) => rows[body[q].id] # NoRow

\* The partial indexes: no two active departments have the same code or the
\* same name, however the checks and saves of requests interleave, and though a
\* stale save brings removed departments back.
TextsUnique ==
    \A d, e \in Live : rows[d].code = rows[e].code \/ rows[d].name = rows[e].name => d = e

\* What a request that is alone has found: a code, and a name, that no other
\* department has, and until then those of the row it changes.
ChecksHold(q) ==
    LET held == entity[q]
    IN  /\ pc[q] \in {"name", "save"} =>
              \A d \in Others(q) : Fold[rows[d].code] # Fold[held.code]
        /\ pc[q] = "save" => \A d \in Others(q) : Fold[rows[d].name] # Fold[held.name]
        /\ ~IsCreate(q) => body[q].id \in Live
        /\ ~IsCreate(q) /\ pc[q] = "code" => held.code = rows[body[q].id].code
        /\ ~IsCreate(q) /\ pc[q] \in {"code", "name"} => held.name = rows[body[q].id].name

\* Requests one at a time: one is on its way, and what it has found still holds.
SerialInv ==
    /\ \A p, q \in InFlight : p = q
    /\ \A q \in InFlight : ChecksHold(q)

catalog ==
    [d \in Ids |-> IF rows[d] = NoRow THEN NoRow
                   ELSE IF rows[d].live THEN [code |-> rows[d].code, name |-> rows[d].name]
                   ELSE Removed]

Catalog == INSTANCE DepartmentCatalog WITH Unused <- NoRow

\* Until two requests overlap, the promise of the catalog is kept: every request
\* is one step of it or changes nothing, so that codes and names are unique
\* whatever their case and removed departments stay removed. Once they overlap
\* it is not: two requests may both look before either saves, and the indexes
\* tell "EFM" from "efm".
ImplementsCatalog == Catalog!Init /\ [][~raced' => Catalog!Next]_catalog

\* "prevent duplicate code and name (case-insensitive)" (department.service.ts:21):
\* until two requests overlap the lookups before the save are enough, although
\* the indexes are not.
NoDuplicateUntilRaced ==
    ~raced =>
        \A d, e \in Live :
            \/ Fold[rows[d].code] = Fold[rows[e].code]
            \/ Fold[rows[d].name] = Fold[rows[e].name]
            => d = e
==============================================================================
