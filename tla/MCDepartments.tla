---------------------------- MODULE MCDepartments ----------------------------
(***************************************************************************)
(* Small instances of Departments: a code in two cases, one that matches   *)
(* it as a pattern, and one with blanks around it.                         *)
(***************************************************************************)
EXTENDS Departments, TLC

CONSTANTS EFM, efm, E_M, FSS, FSSblank     \* "EFM", "efm", "E_M", "FSS", " FSS "

TextFold == EFM :> efm @@ efm :> efm @@ E_M :> E_M @@ FSS :> FSS @@ FSSblank :> FSSblank

TextTrim == [t \in Texts |-> IF t = FSSblank THEN FSS ELSE t]

TextILike ==
    {<<s, t>> \in Texts \X Texts : TextFold[s] = TextFold[t] \/ (s = E_M /\ t \in {EFM, efm})}

Department(code, name) == [code |-> code, name |-> name, live |-> TRUE]

Rows == 1 :> Department(EFM, EFM) @@ 2 :> NoRow @@ 3 :> NoRow

Create(code, name) == [op |-> "create", code |-> code, name |-> name]

Patch(d, code, name) == [op |-> "update", id |-> d, code |-> code, name |-> name]

Remove(d) == [Patch(d, Absent, Absent) EXCEPT !.op = "remove"]

Changes == {
    Create(efm, FSS), Create(FSS, efm), Create(FSSblank, FSS), Create(E_M, E_M), Create(EFM, EFM),
    Patch(1, efm, Absent), Patch(1, FSS, Absent), Patch(1, Absent, E_M), Patch(2, Absent, efm),
    Remove(1), Remove(2)}
==============================================================================
