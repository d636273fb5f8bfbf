-------------------------- MODULE DepartmentCatalog --------------------------
(***************************************************************************)
(* What DepartmentService promises of the departments: a code and a name   *)
(* belong to one active department, however they are written ("prevent     *)
(* duplicate code and name (case-insensitive)"), and a department that was *)
(* removed does not come back. Every request is one step.                  *)
(***************************************************************************)
CONSTANTS
    Ids, Texts,     \* department ids, codes and names
    Fold,           \* a text without its case
    Unused, Removed \* an id without a department, with a removed one

VARIABLE catalog

Active == {d \in Ids : catalog[d] \notin {Unused, Removed}}

Department == [code : Texts, name : Texts]

\* No active department but d is called that.
Free(d, department) ==
    \A other \in Active \ {d} :
        /\ Fold[catalog[other].code] # Fold[department.code]
        /\ Fold[catalog[other].name] # Fold[department.name]

Consistent == \A d \in Active : Free(d, catalog[d])

Init ==
    /\ catalog \in [Ids -> Department \cup {Unused, Removed}]
    /\ Consistent

Put(d, department) ==
    /\ Free(d, department)
    /\ catalog' = [catalog EXCEPT ![d] = department]

\* POST /departments.
Create(d) == catalog[d] = Unused /\ \E department \in Department : Put(d, department)

\* PATCH /departments/:id.
Change(d) == d \in Active /\ \E department \in Department : Put(d, department)

\* DELETE /departments/:id.
Remove(d) == d \in Active /\ catalog' = [catalog EXCEPT ![d] = Removed]

Next == \E d \in Ids : Create(d) \/ Change(d) \/ Remove(d)

Spec == Init /\ [][Next]_catalog
==============================================================================
