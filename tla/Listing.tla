------------------------------- MODULE Listing -------------------------------
(***************************************************************************)
(* The paged lists: GET /bookings, /departments and /locations/parents,    *)
(* read page by page while rows come and go.                               *)
(*                                                                         *)
(* Only the rows that a list's filter selects are modelled, each named by  *)
(* its place in the order (start_time and id, code, location_number: no    *)
(* two are equal). TypeORM's getManyAndCount is up to three statements,    *)
(* and nothing keeps the table still between them.                         *)
(***************************************************************************)
EXTENDS Integers, FiniteSets

CONSTANTS
    Keys,           \* bound: the places in the order
    Limits          \* values of limit

ASSUME ListingAssumption ==
    /\ Keys \subseteq Nat /\ IsFiniteSet(Keys)
    /\ Limits \subseteq Nat \ {0}

VARIABLES
    rows,                   \* the rows that the filter selects
    list, page, limit,      \* the list and the query parameters of the next request
    pc, ids, data,          \* the request under way
    shown,                  \* how often the reader has seen each row
    always, came, left      \* history: rows that never left, has a row come, has one left

request == <<list, page, limit, pc, ids, data>>
vars    == <<rows, request, shown, always, came, left>>

Lists == {"bookings", "departments", "parents"}

\* A list that joins first selects the ids of the page.
Joins(l) == l # "departments"

Rank(k) == Cardinality({j \in rows : j <= k})

\* Mutant: one more row is taken, to see whether there is a next page.
Page_OneMore == {k \in rows : (page - 1) * limit < Rank(k) /\ Rank(k) <= page * limit + 1}

\* ORDER BY, skip((page - 1) * limit), take(limit).
Page == {k \in rows : (page - 1) * limit < Rank(k) /\ Rank(k) <= page * limit}

\* Mutant: rounded down.
TotalPages_Floor(total) == total \div limit

\* PagedResult: Math.ceil(total / limit).
TotalPages(total) == (total + limit - 1) \div limit

Init ==
    /\ rows \in SUBSET Keys
    /\ list \in Lists /\ limit \in Limits /\ page = 1
    /\ pc = "ids" /\ ids = {} /\ data = {}
    /\ shown = [k \in Keys |-> 0]
    /\ always = rows /\ came = FALSE /\ left = FALSE

SelectIds ==
    /\ pc = "ids" /\ Joins(list)
    /\ pc' = "rows" /\ ids' = Page
    /\ UNCHANGED <<rows, list, page, limit, data, shown, always, came, left>>

\* The filter holds for the rows of the ids again.
SelectRows ==
    /\ \/ pc = "rows" /\ data' = ids \cap rows
       \/ pc = "ids" /\ ~Joins(list) /\ data' = Page
    /\ pc' = "count"
    /\ UNCHANGED <<rows, list, page, limit, ids, shown, always, came, left>>

\* The reader goes on to the next page, if meta has one.
Answer(total) ==
    /\ shown' = [k \in Keys |-> shown[k] + IF k \in data THEN 1 ELSE 0]
    /\ IF page < TotalPages(total) THEN pc' = "ids" /\ page' = page + 1
       ELSE pc' = "done" /\ page' = page
    /\ ids' = {} /\ data' = {}
    /\ UNCHANGED <<rows, list, limit, always, came, left>>

\* COUNT, unless a page that is not full tells the total.
Count ==
    /\ pc = "count"
    /\ \/ Answer(Cardinality(rows))
       \/ /\ data # {} /\ Cardinality(data) < limit
          /\ Answer((page - 1) * limit + Cardinality(data))

\* A row is created, or changed so that the filter selects it.
RowComes(k) ==
    /\ k \notin rows /\ pc # "done"
    /\ rows' = rows \cup {k} /\ came' = TRUE
    /\ UNCHANGED <<request, shown, always, left>>

\* A row is removed, or changed so that the filter leaves it out.
RowLeaves(k) ==
    /\ k \in rows /\ pc # "done"
    /\ rows' = rows \ {k} /\ always' = always \ {k} /\ left' = TRUE
    /\ UNCHANGED <<request, shown, came>>

Next ==
    \/ SelectIds \/ SelectRows \/ Count
    \/ \E k \in Keys : RowComes(k) \/ RowLeaves(k)

Spec == Init /\ [][Next]_vars

-----------------------------------------------------------------------------
(* Properties.                                                             *)

TypeOK ==
    /\ rows \subseteq Keys /\ always \subseteq rows
    /\ list \in Lists /\ limit \in Limits /\ page \in Nat \ {0}
    /\ pc \in {"ids", "rows", "count", "done"} /\ ids \subseteq Keys /\ data \subseteq Keys
    /\ shown \in [Keys -> Nat] /\ came \in BOOLEAN /\ left \in BOOLEAN

\* Without new rows: what was seen lies before the page, what is being read up
\* to its end and was not seen.
SeenBefore ==
    ~came => \A k \in Keys :
        /\ shown[k] <= 1
        /\ pc # "done" /\ shown[k] = 1 /\ k \in rows => Rank(k) <= (page - 1) * limit
        /\ k \in ids \cup data => shown[k] = 0 /\ (k \in rows => Rank(k) <= page * limit)

ReadOrAhead(k, read) ==
    k \in read \/ (page * limit < Rank(k) /\ limit <= Cardinality(read))

\* Until a row leaves: a staying row that was not seen is being read, or lies
\* after what was read, and the page under way is full.
UnseenAhead ==
    ~left => \A k \in always :
        \/ shown[k] > 0
        \/ pc = "ids" /\ (page - 1) * limit < Rank(k)
        \/ pc = "rows" /\ ids \subseteq rows /\ ReadOrAhead(k, ids)
        \/ pc = "count" /\ ReadOrAhead(k, data)

ListingInv == TypeOK /\ SeenBefore /\ UnseenAhead

\* A reader that follows totalPages sees every row that was there all the time,
\* unless rows leave the list meanwhile; new rows do not hide old ones
\* (skip, take and totalPages together).
StayingRowsShown == pc = "done" /\ ~left => \A k \in always : shown[k] > 0

\* No row is seen twice unless rows come meanwhile: the pages do not overlap.
ShownOnce == ~came => \A k \in Keys : shown[k] <= 1
==============================================================================
