---------------------------- MODULE MCLocationTree ---------------------------
(***************************************************************************)
(* Small instances of LocationTree: a site that contains a zone, zones may *)
(* nest, and a room stands in a zone.                                      *)
(***************************************************************************)
EXTENDS LocationTree, TLC

CONSTANTS site, wing, spare,    \* locations: the root, the one in it, a free id
          X,                    \* a department
          q1, q2, q3,           \* requests for locations
          t1                    \* a request for location types

Types == (1 :> [code |-> "ZONE", bookable |-> FALSE, root |-> TRUE, under |-> {"ZONE"}])
      @@ (2 :> [code |-> "ROOM", bookable |-> TRUE, root |-> FALSE, under |-> {"ZONE"}])
      @@ (3 :> NoType)

Location(number, type, parent) ==
    [number |-> number, type |-> type, parent |-> parent, open |-> FALSE,
     departments |-> {}, live |-> TRUE]

Rows == (site :> Location(1, "ZONE", NoNode)) @@ (wing :> Location(2, "ZONE", site)) @@ (spare :> NoRow)

Create(number, type, parent, fields, depts) ==
    [op |-> "create", number |-> number, type |-> type, parent |-> parent,
     fields |-> fields, departments |-> depts]

Patch(node, number, type, parent, fields, depts) ==
    [op |-> "update", node |-> node, number |-> number, type |-> type, parent |-> parent,
     fields |-> fields, departments |-> depts]

Remove(node) == [Patch(node, Absent, Absent, Absent, "none", Absent) EXCEPT !.op = "remove"]

Changes == {
    Create(2, "ZONE", wing, "none", Absent),
    Create(3, "ROOM", wing, "all", {X}),
    Patch(site, 3, Absent, wing, "none", Absent),
    Patch(wing, Absent, Absent, NoNode, "none", Absent),
    Patch(wing, Absent, "ROOM", Absent, "all", {X}),
    Patch(spare, Absent, Absent, site, "some", {}),
    Patch(wing, Absent, "ROOM", Absent, "malformed", {X}),
    Remove(site), Remove(wing)}

TypePatch(op, newCode, bookable) ==
    [op |-> op, id |-> 2, code |-> newCode, bookable |-> bookable,
     root |-> Absent, under |-> Absent]

TypeChanges == {
    [op |-> "create", code |-> "DESK", bookable |-> TRUE, root |-> FALSE, under |-> {"ZONE"}],
    TypePatch("update", "DESK", Absent), TypePatch("update", Absent, FALSE),
    TypePatch("remove", Absent, Absent)}

Symmetry == Permutations(Requests)
==============================================================================
