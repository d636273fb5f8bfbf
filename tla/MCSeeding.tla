------------------------------ MODULE MCSeeding ------------------------------
(***************************************************************************)
(* Instances of Seeding: a part of the seed that has every kind of         *)
(* location and parent.                                                    *)
(***************************************************************************)
EXTENDS Seeding

Data == INSTANCE SeedData

Departments == Data!DEPARTMENT_SEED
Locations == Data!LOCATION_SEED
Rules(code) == Data!SeededTypes(code)

\* Two departments; a building, a floor, its lobby and a room of both departments.
FewDepartments == <<"EFM", "FSS">>
FewLocations ==
    SelectSeq(Locations, LAMBDA s : s.number \in {"A", "A-01", "A-01-Lobby", "A-01-02"})

\* The whole seed obeys the seeded types, of which SeedObeysTypes checks a part.
ASSUME WholeSeedObeysTypes ==
    \A i \in DOMAIN Locations :
        LET seed == Locations[i]
        IN  /\ IF seed.parent = NoNode THEN Rules(seed.type).root
               ELSE \E j \in 1 .. i - 1 : /\ Locations[j].number = seed.parent
                                          /\ Locations[j].type \in Rules(seed.type).under
            /\ Rules(seed.type).bookable <=> seed.departments # {}
            /\ \A c \in seed.departments : \E j \in DOMAIN Departments : Departments[j] = c

\* Nor does it have a key twice.
ASSUME WholeSeedHasKeys ==
    /\ \A i, j \in DOMAIN Departments : Departments[i] = Departments[j] => i = j
    /\ \A i, j \in DOMAIN Locations : Locations[i].number = Locations[j].number => i = j

CONSTANTS r1, r2
==============================================================================
