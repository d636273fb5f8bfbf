-------------------------- MODULE LocationDirectory --------------------------
(***************************************************************************)
(* What LocationService and LocationTypeService promise of the locations   *)
(* and their types, each request being one step: the live locations are a  *)
(* forest, every one stands where its type may stand when it is put there, *)
(* a node with children is not removed, a type in use is not deleted.      *)
(***************************************************************************)
CONSTANTS Nodes, TypeIds, NoNode, NoRow, NoType

VARIABLES rows, types

Live == {n \in Nodes : rows[n] # NoRow /\ rows[n].live}

Existing == {i \in TypeIds : types[i] # NoType}

TypeOf(n) == types[CHOOSE i \in Existing : types[i].code = rows[n].type]

\* Every set of locations has a topmost one: no cycle, no live node under a
\* removed one.
Forest ==
    /\ \A S \in SUBSET Live : S # {} => \E n \in S : rows[n].parent \notin S
    /\ \A n \in Live : rows[n].parent \in Live \cup {NoNode}

Consistent ==
    /\ Forest
    /\ \A m, n \in Live : rows[m].number = rows[n].number => m = n
    /\ \A i, j \in Existing : types[i].code = types[j].code => i = j
    /\ \A n \in Nodes : rows[n] # NoRow => \E i \in Existing : types[i].code = rows[n].type

\* The type of n allows the place where n stands.
Placed(n) ==
    IF rows[n].parent = NoNode THEN TypeOf(n).root
    ELSE rows[rows[n].parent].type \in TypeOf(n).under

Init == Consistent

-----------------------------------------------------------------------------

OnlyNode(n) == types' = types /\ \A m \in Nodes \ {n} : rows'[m] = rows[m]

\* POST /locations: a room is bookable with departments, another node neither.
AddNode(n) ==
    /\ rows[n] = NoRow /\ OnlyNode(n)
    /\ n \in Live' /\ Placed(n)'
    /\ LET row == rows'[n]
       IN  row.open = TypeOf(n)'.bookable /\ (row.open <=> row.departments # {})

\* PATCH /locations/:id: moved or given a type, it is placed and equipped anew.
ChangeNode(n) ==
    /\ n \in Live /\ OnlyNode(n)
    /\ n \in Live'
    /\ rows'[n].parent # rows[n].parent \/ rows'[n].type # rows[n].type => Placed(n)'
    /\ rows'[n].type # rows[n].type => rows'[n].open = TypeOf(n)'.bookable
    /\ rows'[n].departments # {} => TypeOf(n)'.bookable

\* DELETE /locations/:id: a node without children.
RemoveNode(n) ==
    /\ n \in Live /\ OnlyNode(n)
    /\ \A c \in Live : rows[c].parent # n
    /\ rows'[n] = [rows[n] EXCEPT !.live = FALSE]

OnlyType(i) == \A j \in TypeIds \ {i} : types'[j] = types[j]

\* POST /location-types.
AddType(i) == types[i] = NoType /\ OnlyType(i) /\ rows' = rows

\* PATCH /location-types/:id: the locations of the type follow its code.
ChangeType(i) ==
    /\ i \in Existing \cap Existing' /\ OnlyType(i)
    /\ types'[i].root = types[i].root /\ types'[i].under = types[i].under
    /\ rows' = [n \in Nodes |->
                    IF rows[n] # NoRow /\ rows[n].type = types[i].code
                    THEN [rows[n] EXCEPT !.type = types'[i].code] ELSE rows[n]]

\* DELETE /location-types/:id: a type that no location has.
DropType(i) ==
    /\ i \in Existing /\ OnlyType(i) /\ types'[i] = NoType
    /\ rows' = rows
    /\ \A n \in Nodes : rows[n] # NoRow => rows[n].type # types[i].code

Next ==
    /\ \/ \E n \in Nodes : AddNode(n) \/ ChangeNode(n) \/ RemoveNode(n)
       \/ \E i \in TypeIds : AddType(i) \/ ChangeType(i) \/ DropType(i)
    /\ Consistent'

Spec == Init /\ [][Next]_<<rows, types>>
==============================================================================
