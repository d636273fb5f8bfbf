------------------------------ MODULE SeedData -------------------------------
(***************************************************************************)
(* The rows that a new installation has: the location types of the         *)
(* migrations, and the departments and locations of seed-data.ts, in the   *)
(* order of the file. Of a location, departments = {} stands for the null  *)
(* columns of a node that is not bookable.                                 *)
(***************************************************************************)
EXTENDS Sequences

CONSTANT NoNode         \* parentNumber null

Type(bookable, root, under) == [bookable |-> bookable, root |-> root, under |-> under]

SeededTypes(code) ==
    CASE code = "BUILDING"     -> Type(FALSE, TRUE, {})
      [] code = "FLOOR"        -> Type(FALSE, FALSE, {"BUILDING"})
      [] code = "OFFICE"       -> Type(FALSE, FALSE, {"BUILDING", "FLOOR"})
      [] code = "MEETING_ROOM" -> Type(TRUE, FALSE, {"FLOOR", "OFFICE"})
      [] code = "OTHER"        -> Type(FALSE, FALSE, {"BUILDING", "FLOOR", "OFFICE"})

DEPARTMENT_SEED == <<"EFM", "FSS", "AVS", "ASS">>

Seed(number, parent, type, departments) ==
    [number |-> number, parent |-> parent, type |-> type, departments |-> departments]

LOCATION_SEED == <<
    Seed("A", NoNode, "BUILDING", {}),
    Seed("A-01", "A", "FLOOR", {}),
    Seed("A-01-Lobby", "A-01", "OTHER", {}),
    Seed("A-01-01", "A-01", "MEETING_ROOM", {"EFM"}),
    Seed("A-01-02", "A-01", "MEETING_ROOM", {"EFM", "FSS"}),
    Seed("A-01-Corridor", "A-01", "OTHER", {}),
    Seed("A-01-03", "A-01", "MEETING_ROOM", {"AVS"}),
    Seed("B", NoNode, "BUILDING", {}),
    Seed("B-05", "B", "FLOOR", {}),
    Seed("B-05-11", "B-05", "MEETING_ROOM", {"ASS"}),
    Seed("B-05-12", "B-05", "MEETING_ROOM", {"EFM"}),
    Seed("B-05-13", "B-05", "MEETING_ROOM", {"FSS"}),
    Seed("B-05-14", "B-05", "MEETING_ROOM", {"EFM", "FSS", "AVS", "ASS"}),
    Seed("B-05-15", "B-05", "OTHER", {}),
    Seed("B-05-Corridor", "B-05", "OTHER", {})>>
==============================================================================
