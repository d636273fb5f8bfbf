---------------------------- MODULE MCServedTree -----------------------------
(***************************************************************************)
(* Small instances of ServedTree: a site with a room in it.                *)
(***************************************************************************)
EXTENDS ServedTree, TLC

CONSTANTS site, room, spare,    \* locations: the root, the room in it, a free id
          X,                    \* a department
          q1,                   \* a request for locations
          t1,                   \* a request for location types
          g1                    \* a read

Types == (1 :> [code |-> "ZONE", bookable |-> FALSE, root |-> TRUE, under |-> {"ZONE"}])
      @@ (2 :> [code |-> "ROOM", bookable |-> TRUE, root |-> FALSE, under |-> {"ZONE"}])

Rows == (site :> [number |-> 1, type |-> "ZONE", parent |-> NoNode, open |-> FALSE,
                  departments |-> {}, live |-> TRUE])
     @@ (room :> [number |-> 2, type |-> "ROOM", parent |-> site, open |-> TRUE,
                  departments |-> {X}, live |-> TRUE])
     @@ (spare :> NoRow)

Patch(node, number, parent) ==
    [op |-> "update", node |-> node, number |-> number, type |-> Absent, parent |-> parent,
     fields |-> "none", departments |-> Absent]

Changes == {
    [op |-> "create", number |-> 3, type |-> "ZONE", parent |-> site,
     fields |-> "none", departments |-> Absent],
    Patch(site, 3, Absent),
    [Patch(room, Absent, Absent) EXCEPT !.op = "remove"]}

TypeChanges == {
    [op |-> "update", id |-> 2, code |-> "DESK", bookable |-> Absent,
     root |-> Absent, under |-> Absent]}

Whole == [root |-> NoNode, type |-> Absent]
ZonesOnly == [root |-> site, type |-> "ZONE"]
TwoParams == {Whole, ZonesOnly}
==============================================================================
