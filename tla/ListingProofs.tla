---------------------------- MODULE ListingProofs ----------------------------
(***************************************************************************)
(* For every list and limit: the pages that a reader sees do not overlap   *)
(* unless rows come, and leave no row out unless rows leave.               *)
(***************************************************************************)
EXTENDS Listing, FiniteSetTheorems, TLAPS

\* The rank of a row is a natural number, and falls when rows leave.
LEMMA Ranks ==
    ASSUME TypeOK, NEW k \in Keys
    PROVE  Rank(k) \in Nat
<1>1. IsFiniteSet({j \in rows : j <= k})
  BY ListingAssumption, FS_Subset DEF TypeOK
<1> QED BY <1>1, FS_CardinalityType DEF Rank

LEMMA RankFalls ==
    ASSUME TypeOK, NEW k \in Keys, rows' \subseteq rows
    PROVE  Rank(k)' <= Rank(k) /\ Rank(k)' \in Nat
<1>1. IsFiniteSet({j \in rows : j <= k})
  BY ListingAssumption, FS_Subset DEF TypeOK
<1>2. {j \in rows' : j <= k} \subseteq {j \in rows : j <= k}
  OBVIOUS
<1>3. /\ IsFiniteSet({j \in rows' : j <= k})
      /\ Cardinality({j \in rows' : j <= k}) <= Cardinality({j \in rows : j <= k})
  BY <1>1, <1>2, FS_Subset
<1> QED BY <1>3, FS_CardinalityType DEF Rank

\* Where the pages begin and end.
LEMMA Ends ==
    ASSUME TypeOK
    PROVE  /\ (page - 1) * limit \in Nat /\ page * limit \in Nat
           /\ (page - 1) * limit <= page * limit
           /\ ((page + 1) - 1) * limit = page * limit
<1>1. page \in Nat /\ limit \in Nat /\ page - 1 \in Nat
  BY ListingAssumption DEF TypeOK
<1>2. (page - 1) * limit \in Nat /\ page * limit \in Nat
  BY <1>1
<1>3. page * limit = (page - 1) * limit + limit
  BY <1>1
<1>4. (page + 1) - 1 = page
  BY <1>1
<1> QED BY <1>1, <1>2, <1>3, <1>4

LEMMA SizeOfUnion ==
    ASSUME NEW S, IsFiniteSet(S), NEW T, IsFiniteSet(T)
    PROVE  IsFiniteSet(S \cup T) /\ Cardinality(S \cup T) <= Cardinality(S) + Cardinality(T)
<1>1. IsFiniteSet(S \cup T) /\ IsFiniteSet(S \cap T)
  BY FS_Union, FS_Intersection
<1>2. /\ Cardinality(S) \in Nat /\ Cardinality(T) \in Nat /\ Cardinality(S \cap T) \in Nat
      /\ Cardinality(S \cup T) = Cardinality(S) + Cardinality(T) - Cardinality(S \cap T)
  BY <1>1, FS_Union, FS_CardinalityType
<1> QED BY <1>1, <1>2

-----------------------------------------------------------------------------
(* Ranks, and how full a page is.                                          *)

LEMMA RankRises ==
    ASSUME TypeOK, TypeOK', NEW k \in Keys, rows \subseteq rows'
    PROVE  Rank(k) <= Rank(k)' /\ Rank(k) \in Nat /\ Rank(k)' \in Nat
<1>1. IsFiniteSet({j \in rows' : j <= k})
  BY ListingAssumption, FS_Subset DEF TypeOK
<1>2. {j \in rows : j <= k} \subseteq {j \in rows' : j <= k}
  OBVIOUS
<1>3. /\ IsFiniteSet({j \in rows : j <= k})
      /\ Cardinality({j \in rows : j <= k}) <= Cardinality({j \in rows' : j <= k})
  BY <1>1, <1>2, FS_Subset
<1> QED BY <1>1, <1>3, FS_CardinalityType DEF Rank

\* Later rows have higher ranks, so no two rows have the same.
LEMMA RankOrders ==
    ASSUME TypeOK, NEW j \in rows, NEW k \in rows
    PROVE  /\ j <= k => Rank(j) <= Rank(k)
           /\ Rank(j) = Rank(k) => j = k
<1>1. rows \subseteq Nat /\ IsFiniteSet(rows)
  BY ListingAssumption, FS_Subset DEF TypeOK
<1>2. ASSUME NEW a \in rows, NEW b \in rows, a <= b
      PROVE  Rank(a) <= Rank(b) /\ (Rank(a) = Rank(b) => a = b)
  <2> DEFINE A == {i \in rows : i <= a}
             B == {i \in rows : i <= b}
  <2>1. A \subseteq B /\ b \in B /\ (b \in A => a = b)
    <3>1. a \in Nat /\ b \in Nat /\ \A i \in rows : i \in Nat
      BY <1>1
    <3>2. \A i \in rows : i <= a => i <= b
      BY <1>2, <3>1
    <3>3. A \subseteq B
      BY <3>2
    <3>4. b \in B /\ (b \in A => a = b)
      BY <1>2, <3>1
    <3> QED BY <3>3, <3>4
  <2>2. IsFiniteSet(B)
    BY <1>1, FS_Subset
  <2>3. Cardinality(A) <= Cardinality(B) /\ (Cardinality(B) = Cardinality(A) => B = A)
    <3> HIDE DEF A, B
    <3> QED BY <2>1, <2>2, FS_Subset
  <2> QED BY <2>1, <2>3 DEF Rank
<1>3. j <= k \/ k <= j
  BY <1>1
<1> QED BY <1>2, <1>3

LEMMA RankPositive ==
    ASSUME TypeOK, NEW k \in rows
    PROVE  Rank(k) \in Nat /\ 0 < Rank(k)
<1>1. IsFiniteSet({i \in rows : i <= k})
  BY ListingAssumption, FS_Subset DEF TypeOK
<1>2. k \in {i \in rows : i <= k}
  <2>1. k \in Nat
    BY ListingAssumption DEF TypeOK
  <2> QED BY <2>1
<1>3. Rank(k) # 0
  BY <1>1, <1>2, FS_EmptySet DEF Rank
<1> QED BY <1>3, Ranks DEF TypeOK

\* Rows whose ranks lie between two numbers are no more than these allow.
LEMMA RanksBetween ==
    ASSUME TypeOK, NEW a \in Nat, NEW b \in Nat, a <= b, NEW S \in SUBSET rows,
           \A j \in S : a < Rank(j) /\ Rank(j) <= b
    PROVE  IsFiniteSet(S) /\ Cardinality(S) <= b - a
<1> DEFINE f == [j \in S |-> Rank(j)]
<1>1. \A j \in S : Rank(j) \in (a + 1)..b
  BY Ranks DEF TypeOK
<1>2. f \in Injection(S, (a + 1)..b)
  BY <1>1, RankOrders DEF Injection, IsInjective
<1>3. IsFiniteSet((a + 1)..b) /\ Cardinality((a + 1)..b) = b - a
  <2>1. a + 1 \in Int /\ b \in Int /\ (IF a + 1 > b THEN 0 ELSE b - (a + 1) + 1) = b - a
    OBVIOUS
  <2> QED BY <2>1, FS_Interval
<1> QED BY <1>2, <1>3, FS_Injection

\* If there is a row after the page, then the page is full.
LEMMA FullPage ==
    ASSUME TypeOK, NEW k \in rows, page * limit < Rank(k)
    PROVE  limit <= Cardinality(Page)
<1> DEFINE C == {j \in rows : j <= k}
           A == {j \in C : Rank(j) <= (page - 1) * limit}
           B == {j \in C : page * limit < Rank(j)}
<1>1. /\ (page - 1) * limit \in Nat /\ page * limit \in Nat /\ Rank(k) \in Nat /\ limit \in Nat
      /\ page * limit = (page - 1) * limit + limit
  <2>1. page \in Nat /\ limit \in Nat /\ k \in Keys
    BY ListingAssumption DEF TypeOK
  <2> QED BY <2>1, Ends, Ranks
<1>2. \A j \in rows : Rank(j) \in Nat /\ 0 < Rank(j)
  BY RankPositive
<1>3. IsFiniteSet(A) /\ Cardinality(A) <= (page - 1) * limit - 0
  BY <1>1, <1>2, RanksBetween
<1>4. IsFiniteSet(B) /\ Cardinality(B) <= Rank(k) - page * limit
  <2>1. \A j \in B : Rank(j) <= Rank(k)
    BY RankOrders
  <2> QED BY <1>1, <2>1, RanksBetween
<1>5. IsFiniteSet(Page) /\ Cardinality(Page) \in Nat
  BY ListingAssumption, FS_Subset, FS_CardinalityType DEF TypeOK, Page
<1>6. C \subseteq (A \cup Page) \cup B
  BY <1>1, <1>2 DEF Page
<1>7. /\ IsFiniteSet(A \cup Page)
      /\ Cardinality(A \cup Page) <= Cardinality(A) + Cardinality(Page)
  <2> HIDE DEF A
  <2> QED BY <1>3, <1>5, SizeOfUnion
<1>8. /\ IsFiniteSet((A \cup Page) \cup B)
      /\ Cardinality((A \cup Page) \cup B) <= Cardinality(A \cup Page) + Cardinality(B)
  <2> HIDE DEF A, B
  <2> QED BY <1>4, <1>7, SizeOfUnion
<1>9. Rank(k) <= Cardinality((A \cup Page) \cup B)
  <2>1. Rank(k) = Cardinality(C)
    BY DEF Rank
  <2> HIDE DEF A, B, C
  <2> QED BY <1>6, <1>8, <2>1, FS_Subset
<1>10. /\ Cardinality(A) \in Nat /\ Cardinality(B) \in Nat /\ Cardinality(A \cup Page) \in Nat
       /\ Cardinality((A \cup Page) \cup B) \in Nat
  <2> HIDE DEF A, B
  <2> QED BY <1>3, <1>4, <1>7, <1>8, FS_CardinalityType
<1> HIDE DEF A, B, C
<1> QED BY <1>1, <1>3, <1>4, <1>5, <1>7, <1>8, <1>9, <1>10

-----------------------------------------------------------------------------
(* The invariant of a reader.                                              *)

LEMMA ListingInit == Init => ListingInv
<1> SUFFICES ASSUME Init PROVE ListingInv
  OBVIOUS
<1>1. TypeOK
  <2>1. /\ rows \subseteq Keys /\ always \subseteq rows
        /\ list \in Lists /\ limit \in Limits /\ ids \subseteq Keys /\ data \subseteq Keys
        /\ came \in BOOLEAN /\ left \in BOOLEAN /\ pc \in {"ids", "rows", "count", "done"}
    BY DEF Init
  <2>2. page \in Nat \ {0} /\ shown \in [Keys -> Nat]
    BY DEF Init
  <2> QED BY <2>1, <2>2 DEF TypeOK
<1>2. \A k \in Keys : shown[k] = 0
  BY DEF Init
<1>3. ids = {} /\ data = {}
  BY DEF Init
<1>4. always = rows /\ pc = "ids" /\ (page - 1) * limit = 0
  <2>1. page - 1 = 0 /\ limit \in Int
    BY ListingAssumption DEF Init
  <2> QED BY <2>1 DEF Init
<1>5. \A k \in rows : 0 < Rank(k)
  BY <1>1, RankPositive
<1> QED BY <1>1, <1>2, <1>3, <1>4, <1>5 DEF ListingInv, SeenBefore, UnseenAhead

LEMMA TypesKept == TypeOK /\ [Next]_vars => TypeOK'
<1> SUFFICES ASSUME TypeOK, [Next]_vars PROVE TypeOK'
  OBVIOUS
<1>1. CASE SelectIds
  BY <1>1 DEF SelectIds, Page, TypeOK
<1>2. CASE SelectRows
  BY <1>2 DEF SelectRows, Page, TypeOK
<1>3. ASSUME NEW total, Answer(total) PROVE TypeOK'
  BY <1>3 DEF Answer, TypeOK
<1>4. ASSUME NEW k \in Keys, RowComes(k) \/ RowLeaves(k) PROVE TypeOK'
  BY <1>4 DEF RowComes, RowLeaves, request, TypeOK
<1>5. CASE UNCHANGED vars
  BY <1>5 DEF vars, request, TypeOK
<1> QED BY <1>1, <1>2, <1>3, <1>4, <1>5 DEF Next, Count

LEMMA SeenBeforeNext == TypeOK /\ SeenBefore /\ [Next]_vars => SeenBefore'
<1> SUFFICES ASSUME TypeOK, SeenBefore, [Next]_vars, ~came' PROVE SeenBefore'
  BY DEF SeenBefore
<1>1. CASE SelectIds
  <2>1. ASSUME NEW k \in Page PROVE k \in rows /\ shown[k] = 0 /\ Rank(k) <= page * limit
    BY <1>1, <2>1, Ranks, Ends DEF SelectIds, Page, SeenBefore, TypeOK
  <2> QED BY <1>1, <2>1 DEF SelectIds, SeenBefore, TypeOK, Rank
<1>2. CASE SelectRows
  <2>1. ASSUME NEW k \in Page, pc = "ids"
        PROVE  k \in rows /\ shown[k] = 0 /\ Rank(k) <= page * limit
    BY <1>2, <2>1, Ranks, Ends DEF SelectRows, Page, SeenBefore, TypeOK
  <2> QED BY <1>2, <2>1 DEF SelectRows, SeenBefore, TypeOK, Rank
<1>3. ASSUME NEW total, Answer(total), pc = "count" PROVE SeenBefore'
  <2>1. ASSUME NEW k \in Keys
        PROVE  /\ shown'[k] <= 1
               /\ pc' # "done" /\ shown'[k] = 1 /\ k \in rows' => Rank(k)' <= (page' - 1) * limit'
    <3>1. shown'[k] = shown[k] + IF k \in data THEN 1 ELSE 0
      BY <1>3 DEF Answer
    <3>2. shown'[k] <= 1
      BY <1>3, <3>1 DEF Answer, SeenBefore, TypeOK
    <3>3. CASE pc' # "done" /\ shown'[k] = 1 /\ k \in rows'
      <4>1. page' = page + 1 /\ limit' = limit /\ Rank(k)' = Rank(k) /\ k \in rows
        BY <1>3, <3>3 DEF Answer, Rank
      <4>2. Rank(k) <= page * limit
        <5>1. CASE k \in data
          BY <1>3, <4>1, <5>1 DEF Answer, SeenBefore
        <5>2. CASE k \notin data
          BY <1>3, <3>1, <3>3, <4>1, <5>2, Ranks, Ends DEF Answer, SeenBefore, TypeOK
        <5> QED BY <5>1, <5>2
      <4>3. ((page + 1) - 1) * limit = page * limit
        BY Ends
      <4>4. (page' - 1) * limit' = page * limit
        BY <4>1, <4>3
      <4>5. Rank(k)' <= (page' - 1) * limit'
        BY <4>1, <4>2, <4>4
      <4> QED BY <3>2, <4>5
    <3> QED BY <3>2, <3>3
  <2>2. ids' = {} /\ data' = {}
    BY <1>3 DEF Answer
  <2> QED BY <2>1, <2>2 DEF SeenBefore
<1>4. ASSUME NEW k \in Keys, RowLeaves(k) PROVE SeenBefore'
  <2>1. rows' \subseteq rows
    BY <1>4 DEF RowLeaves
  <2>2. \A j \in Keys : Rank(j)' <= Rank(j) /\ Rank(j)' \in Nat /\ Rank(j) \in Nat
    BY <2>1, RankFalls, Ranks
  <2>3. UNCHANGED <<page, limit, pc, ids, data, shown>> /\ came' = came
    BY <1>4 DEF RowLeaves, request
  <2>4. (page - 1) * limit \in Nat /\ page * limit \in Nat
    BY Ends
  <2> QED BY <2>1, <2>2, <2>3, <2>4 DEF SeenBefore
<1>5. CASE UNCHANGED vars
  BY <1>5 DEF vars, request, SeenBefore, Rank
<1>6. ASSUME NEW k \in Keys, RowComes(k) PROVE FALSE
  BY <1>6 DEF RowComes
<1> QED BY <1>1, <1>2, <1>3, <1>4, <1>5, <1>6 DEF Next, Count

\* Multiplication keeps an order.
LEMMA TimesOrders ==
    ASSUME NEW a \in Int, NEW b \in Int, NEW c \in Nat, a <= b
    PROVE  a * c <= b * c
<1>1. (b - a) * c \in Nat /\ b * c = a * c + (b - a) * c
  <2>1. b - a \in Nat
    OBVIOUS
  <2> QED BY <2>1
<1>2. a * c \in Int /\ b * c \in Int
  OBVIOUS
<1> QED BY <1>1, <1>2

\* Rows after the page are on a next one: totalPages is rounded up.
LEMMA MorePages ==
    ASSUME TypeOK, NEW total \in Nat, page * limit < total
    PROVE  page < TotalPages(total)
<1> DEFINE n == total + limit - 1
           q == TotalPages(total)
<1>1. page \in Nat /\ limit \in Nat /\ limit > 0
  BY ListingAssumption DEF TypeOK
<1>2. n \in Nat /\ q \in Int /\ n < (q + 1) * limit
  <2>1. n \in Nat /\ q = n \div limit
    BY <1>1 DEF TotalPages
  <2> HIDE DEF n
  <2>2. n \div limit \in Int /\ n < ((n \div limit) + 1) * limit
    BY <1>1, <2>1
  <2> QED BY <2>1, <2>2
<1>3. ASSUME q <= page PROVE FALSE
  <2>1. (q + 1) * limit <= (page + 1) * limit
    <3> HIDE DEF n, q
    <3> QED BY <1>1, <1>2, <1>3, TimesOrders
  <2>2. (page + 1) * limit = page * limit + limit /\ page * limit \in Int /\ (q + 1) * limit \in Int
    <3> HIDE DEF n, q
    <3> QED BY <1>1, <1>2
  <2>3. page * limit + limit <= n
    BY <1>1, <2>2
  <2> HIDE DEF n, q
  <2> QED BY <1>1, <1>2, <2>1, <2>2, <2>3
<1> QED BY <1>1, <1>2, <1>3

LEMMA UnseenAheadNext == TypeOK /\ UnseenAhead /\ [Next]_vars => UnseenAhead'
<1> SUFFICES ASSUME TypeOK, UnseenAhead, [Next]_vars, ~left', NEW k \in always'
             PROVE  \/ shown'[k] > 0
                    \/ pc' = "ids" /\ (page' - 1) * limit' < Rank(k)'
                    \/ pc' = "rows" /\ ids' \subseteq rows' /\ ReadOrAhead(k, ids)'
                    \/ pc' = "count" /\ ReadOrAhead(k, data)'
  BY DEF UnseenAhead
<1>1. TypeOK'
  BY TypesKept
<1>2. (page - 1) * limit \in Nat /\ page * limit \in Nat /\ ((page + 1) - 1) * limit = page * limit
  BY Ends
<1>3. ASSUME k \in always, left = FALSE
      PROVE  /\ k \in rows /\ k \in Keys /\ Rank(k) \in Nat /\ shown[k] \in Nat
             /\ \/ shown[k] > 0
                \/ pc = "ids" /\ (page - 1) * limit < Rank(k)
                \/ pc = "rows" /\ ids \subseteq rows /\ ReadOrAhead(k, ids)
                \/ pc = "count" /\ ReadOrAhead(k, data)
  BY <1>3, Ranks DEF UnseenAhead, TypeOK
<1>4. ASSUME UNCHANGED <<rows, page, limit>>, pc = "ids", (page - 1) * limit < Rank(k), k \in rows
      PROVE  k \in Page \/ (page * limit < Rank(k) /\ limit <= Cardinality(Page))
  <2>1. CASE Rank(k) <= page * limit
    BY <1>4, <2>1 DEF Page
  <2>2. CASE page * limit < Rank(k)
    BY <1>4, <2>2, FullPage
  <2> QED BY <1>2, <1>4, <2>1, <2>2, Ranks DEF TypeOK
<1>5. CASE SelectIds
  <2>1. UNCHANGED <<rows, page, limit, shown, always, left>> /\ pc = "ids" /\ pc' = "rows" /\ ids' = Page
    BY <1>5 DEF SelectIds
  <2>2. Page \subseteq rows /\ Rank(k)' = Rank(k) /\ k \in always
    BY <2>1 DEF Page, Rank
  <2> QED BY <1>3, <1>4, <2>1, <2>2 DEF ReadOrAhead, TypeOK
<1>6. CASE SelectRows
  <2>1. /\ UNCHANGED <<rows, page, limit, shown, always, left>> /\ pc' = "count"
        /\ \/ pc = "rows" /\ data' = ids \cap rows
           \/ pc = "ids" /\ data' = Page
    BY <1>6 DEF SelectRows
  <2>2. Rank(k)' = Rank(k) /\ k \in always
    BY <2>1 DEF Rank
  <2>3. ids \subseteq rows => ids \cap rows = ids
    OBVIOUS
  <2> QED BY <1>3, <1>4, <2>1, <2>2, <2>3 DEF ReadOrAhead, TypeOK
<1>7. ASSUME NEW total, Answer(total), pc = "count",
             \/ total = Cardinality(rows)
             \/ data # {} /\ Cardinality(data) < limit
      PROVE  shown'[k] > 0 \/ (pc' = "ids" /\ (page' - 1) * limit' < Rank(k)')
  <2>1. UNCHANGED <<rows, limit, always, left>> /\ k \in always /\ Rank(k)' = Rank(k)
    BY <1>7 DEF Answer, Rank
  <2>2. k \in rows /\ k \in Keys /\ Rank(k) \in Nat /\ shown[k] \in Nat
    BY <1>3, <2>1 DEF TypeOK
  <2>3. shown'[k] = shown[k] + IF k \in data THEN 1 ELSE 0
    BY <1>7, <2>2 DEF Answer
  <2>4. CASE shown[k] > 0 \/ k \in data
    BY <2>2, <2>3, <2>4
  <2>5. CASE page * limit < Rank(k) /\ limit <= Cardinality(data)
    <3>1. total = Cardinality(rows)
      <4>1. IsFiniteSet(data) /\ Cardinality(data) \in Nat /\ limit \in Nat
        BY ListingAssumption, FS_Subset, FS_CardinalityType DEF TypeOK
      <4> QED BY <1>7, <2>5, <4>1
    <3>2. IsFiniteSet(rows) /\ total \in Nat /\ Rank(k) <= total
      <4>1. IsFiniteSet(rows) /\ {j \in rows : j <= k} \subseteq rows
        BY ListingAssumption, FS_Subset DEF TypeOK
      <4> QED BY <3>1, <4>1, FS_Subset, FS_CardinalityType DEF Rank
    <3>3. page < TotalPages(total)
      BY <1>2, <2>2, <2>5, <3>2, MorePages
    <3>4. pc' = "ids" /\ page' = page + 1
      BY <1>7, <3>3 DEF Answer
    <3> QED BY <1>2, <2>1, <2>5, <3>4
  <2> QED BY <1>3, <1>7, <2>1, <2>4, <2>5 DEF ReadOrAhead, TypeOK
<1>8. ASSUME NEW j \in Keys, RowComes(j)
      PROVE  \/ shown'[k] > 0
             \/ pc' = "ids" /\ (page' - 1) * limit' < Rank(k)'
             \/ pc' = "rows" /\ ids' \subseteq rows' /\ ReadOrAhead(k, ids)'
             \/ pc' = "count" /\ ReadOrAhead(k, data)'
  <2>1. /\ UNCHANGED <<page, limit, pc, ids, data, shown, always, left>> /\ rows \subseteq rows'
    BY <1>8 DEF RowComes, request
  <2>2. k \in always /\ Rank(k) <= Rank(k)' /\ Rank(k)' \in Nat
    BY <1>1, <2>1, RankRises DEF TypeOK
  <2>3. /\ page' * limit' = page * limit /\ (page' - 1) * limit' = (page - 1) * limit
        /\ left = FALSE
    BY <2>1 DEF TypeOK
  <2>4. Rank(k) \in Nat
    BY <1>3, <2>2, <2>3
  <2>5. ASSUME NEW n \in Nat PROVE n < Rank(k) => n < Rank(k)'
    BY <2>2, <2>4
  <2>6. ReadOrAhead(k, ids) => ReadOrAhead(k, ids)'
    BY <1>2, <2>1, <2>3, <2>5 DEF ReadOrAhead
  <2>7. ReadOrAhead(k, data) => ReadOrAhead(k, data)'
    BY <1>2, <2>1, <2>3, <2>5 DEF ReadOrAhead
  <2>8. (page - 1) * limit < Rank(k) => (page' - 1) * limit' < Rank(k)'
    BY <1>2, <2>3, <2>5
  <2> QED BY <1>3, <2>1, <2>2, <2>3, <2>6, <2>7, <2>8
<1>9. CASE UNCHANGED vars
  BY <1>3, <1>9 DEF vars, request, ReadOrAhead, Rank, TypeOK
<1>10. ASSUME NEW j \in Keys, RowLeaves(j) PROVE FALSE
  BY <1>10 DEF RowLeaves
<1> QED BY <1>5, <1>6, <1>7, <1>8, <1>9, <1>10 DEF Next, Count

\* The inductive invariant of a reader.
THEOREM ListingInvariant == Spec => []ListingInv
<1>1. ListingInv /\ [Next]_vars => ListingInv'
  BY TypesKept, SeenBeforeNext, UnseenAheadNext DEF ListingInv
<1> QED BY <1>1, ListingInit, PTL DEF Spec

\* Pages do not overlap as long as no row comes.
THEOREM ShownOnceHolds == Spec => []ShownOnce
<1>1. ListingInv => ShownOnce
  BY DEF ListingInv, SeenBefore, ShownOnce
<1> QED BY <1>1, ListingInvariant, PTL

\* A reader that follows totalPages has seen every row that was there from its
\* first request to its last, unless some row left the list meanwhile.
THEOREM StayingRowsShownHolds == Spec => []StayingRowsShown
<1>1. ListingInv => StayingRowsShown
  BY DEF ListingInv, UnseenAhead, StayingRowsShown
<1> QED BY <1>1, ListingInvariant, PTL
==============================================================================
