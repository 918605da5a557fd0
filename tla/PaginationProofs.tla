------------------------- MODULE PaginationProofs -------------------------
(***************************************************************************)
(* Proofs about walks over the API's lists, for every table, page size and *)
(* bound.  What holds of a walk with a cursor needs that the walk descends *)
(* (the condition on the height is the same whatever the order), and that  *)
(* nothing is missed needs one row per height.  That a page may come from  *)
(* the response cache changes neither: every table it may show has the     *)
(* settled rows, and only the rows of the table.                           *)
(***************************************************************************)
EXTENDS Pagination, FiniteSetTheorems, TLAPS

\* The walks for which the cursor means what its documentation says.
CursorsDescend == \A k \in Walks : k.mode = "cursor" => k.order = "DESC"

\* The rows that come before r in the whole list.
Before(r) == {s \in rows : Sorted(s, r)}

\* The walks in which no row can move in front of the rows already skipped.
Complete == kind.mode = "cursor" \/ ~kind.cached

\* How the client's state follows from the pages it got.
WalkOK ==
    /\ IsFiniteSet(rows)
    /\ kind.cached => initial \subseteq settled
    /\ ~begun => seen = {} /\ cursor = NoCursor /\ offset = 0 /\ repeated = {} /\ hasNext
    /\ begun => (hasNext <=> cursor # NoCursor)

\* A descending cursor walk has seen nothing below its cursor.
SeenAbove ==
    kind.mode = "cursor" /\ cursor # NoCursor => \A r \in seen : r.height >= cursor

\* What a walk has not shown yet still lies ahead of it: below the cursor, or
\* behind at least as many rows as the next request skips.
UnseenAhead ==
    begun /\ hasNext /\ Complete =>
        \A r \in initial \ seen :
            IF kind.mode = "cursor" THEN r.height < cursor
            ELSE Cardinality(Before(r)) >= offset

-----------------------------------------------------------------------------
\* A page has room for a row.
LEMMA PageSizePositive == PageSize \in Nat \ {0}
BY BoundsAssumption DEF PageSize

\* The first n rows of R are at most n, and all of R when they are fewer.
LEMMA FirstRowsSize ==
    ASSUME NEW R, IsFiniteSet(R), NEW n \in Nat, NEW S, FirstRows(S, R, n)
    PROVE  /\ IsFiniteSet(S) /\ S \subseteq R /\ Cardinality(S) \in Nat
           /\ Cardinality(S) <= n
           /\ Cardinality(S) # n => S = R
<1>1. S \in SUBSET R
  BY DEF FirstRows
<1>2. /\ IsFiniteSet(S)
      /\ Cardinality(R) = Cardinality(S) => R = S
  BY <1>1, FS_Subset
<1>3. Cardinality(S) \in Nat /\ Cardinality(R) \in Nat
  BY <1>2, FS_CardinalityType
<1> QED BY <1>1, <1>2, <1>3 DEF FirstRows

\* Rows of different heights are ordered, one way or the other.
LEMMA SortedTotal ==
    ASSUME TypeOK, MaxPerHeight = 1,
           NEW r \in rows, NEW s \in rows, r # s
    PROVE  (Sorted(r, s) \/ Sorted(s, r)) /\ ~(Sorted(r, s) /\ Sorted(s, r))
<1>1. r \in Row /\ s \in Row /\ r.height \in Nat /\ s.height \in Nat
  BY BoundsAssumption DEF TypeOK, Row, Heights
<1>2. r.idx = 1 /\ s.idx = 1
  BY <1>1 DEF Row
<1>3. r.height # s.height
  BY <1>1, <1>2 DEF Row
<1> QED BY <1>1, <1>3 DEF Sorted

-----------------------------------------------------------------------------
\* What a page shows has the settled rows, and rows of the table; without a cache it is
\* the table.
LEMMA ShownFacts ==
    ASSUME NEW table \in Shown, TypeOK
    PROVE  table \subseteq rows /\ settled \subseteq table /\ (~kind.cached => table = rows)
<1>1. Len(recent) \in Nat
  BY DEF TypeOK
<1>2. CASE kind.cached
  <2>1. PICK n \in 0..Len(recent) : table = Table(n)
    BY <1>2 DEF Shown
  <2>2. 1..n \subseteq 1..Len(recent)
    BY <1>1, <2>1
  <2> QED BY <1>2, <2>1, <2>2 DEF rows, Table
<1>3. CASE ~kind.cached
  <2>1. table = rows
    BY <1>3 DEF Shown
  <2> QED BY <2>1 DEF rows, Table
<1> QED BY <1>2, <1>3

LEMMA InsertRows ==
    ASSUME TypeOK, Insert
    PROVE  /\ \E r \in Row : rows' = rows \cup {r}
           /\ recent' \in Seq(Row) /\ UNCHANGED <<settled, walk>>
<1>1. PICK r \in Row : recent' = Append(recent, r)
  BY DEF Insert
<1>2. recent \in Seq(Row) /\ UNCHANGED <<settled, walk>>
  BY DEF TypeOK, Insert
<1>3. recent' \in Seq(Row) /\ Len(recent') = Len(recent) + 1 /\ Len(recent) \in Nat
  BY <1>1, <1>2
<1>4. /\ \A i \in 1..Len(recent) : recent'[i] = recent[i] /\ i \in 1..Len(recent')
      /\ recent'[Len(recent')] = r
      /\ \A i \in 1..Len(recent') : i \in 1..Len(recent) \/ i = Len(recent')
      /\ Len(recent') \in 1..Len(recent')
  BY <1>1, <1>2, <1>3
<1>5. {recent'[i] : i \in 1..Len(recent')} = {recent[i] : i \in 1..Len(recent)} \cup {r}
  BY <1>4
<1>6. rows' = rows \cup {r}
  BY <1>2, <1>5 DEF rows, Table
<1> QED BY <1>2, <1>3, <1>6

LEMMA ExpireRows ==
    ASSUME TypeOK, Expire
    PROVE  /\ rows' = rows /\ settled \subseteq settled'
           /\ recent' \in Seq(Row) /\ UNCHANGED walk
<1>1. /\ recent \in Seq(Row) /\ recent # << >>
      /\ settled' = settled \cup {Head(recent)} /\ recent' = Tail(recent)
      /\ UNCHANGED walk
  BY DEF TypeOK, Expire
<1>2. /\ recent' \in Seq(Row) /\ Len(recent) \in Nat /\ Len(recent) > 0
      /\ Len(recent') = Len(recent) - 1
      /\ Head(recent) = recent[1]
      /\ \A i \in 1..Len(recent') : recent'[i] = recent[i + 1]
  BY <1>1
<1>3. /\ \A i \in 1..Len(recent') : i + 1 \in 1..Len(recent)
      /\ \A i \in 1..Len(recent) : i = 1 \/ (i - 1 \in 1..Len(recent') /\ recent[i] = recent'[i - 1])
      /\ 1 \in 1..Len(recent)
  <2>1. ASSUME NEW i \in 1..Len(recent), i # 1
        PROVE  i - 1 \in 1..Len(recent') /\ recent[i] = recent'[i - 1]
    <3>1. i - 1 \in 1..Len(recent') /\ (i - 1) + 1 = i
      BY <1>2, <2>1
    <3> QED BY <1>2, <3>1
  <2> QED BY <1>2, <2>1
<1>4. {recent[i] : i \in 1..Len(recent)}
        = {recent[1]} \cup {recent'[i] : i \in 1..Len(recent')}
  BY <1>2, <1>3
<1>5. rows' = rows
  BY <1>1, <1>2, <1>4 DEF rows, Table
<1> QED BY <1>1, <1>2, <1>5

\* One request, in terms of what it finds.
LEMMA GetPageFacts ==
    ASSUME TypeOK, WalkOK, GetPage
    PROVE  \E table \in Shown :
           \E skip \in SUBSET table, S \in SUBSET table, c \in {NoCursor} \cup Heights :
              /\ table \subseteq rows /\ settled \subseteq table /\ IsFiniteSet(table)
              /\ ~kind.cached => table = rows
              /\ FirstRows(skip, table, IF kind.mode = "offset" THEN offset ELSE 0)
              /\ FirstRows(S, IF kind.mode = "cursor"
                              THEN {r \in table : BelowCursor(r, cursor)}
                              ELSE table \ skip, PageSize)
              /\ NextCursor(S, c)
              /\ IsFiniteSet(S) /\ Cardinality(S) <= PageSize
              /\ hasNext' = (c # NoCursor)
              /\ (c # NoCursor) <=> (Cardinality(S) = PageSize)
              /\ page' = S /\ cursor' = c /\ seen' = seen \cup S
              /\ repeated' = repeated \cup (seen \cap S)
<1>0. PICK table \in Shown :
      \E skip \in SUBSET table, S \in SUBSET table, c \in {NoCursor} \cup Heights :
        /\ FirstRows(skip, table, IF kind.mode = "offset" THEN offset ELSE 0)
        /\ FirstRows(S, IF kind.mode = "cursor"
                        THEN {r \in table : BelowCursor(r, cursor)}
                        ELSE table \ skip, PageSize)
        /\ NextCursor(S, c)
        /\ page' = S
        /\ cursor' = c
        /\ hasNext' = HasNext(c)
        /\ seen' = seen \cup S
        /\ repeated' = repeated \cup (seen \cap S)
  BY DEF GetPage
<1>1. PICK skip \in SUBSET table, S \in SUBSET table, c \in {NoCursor} \cup Heights :
        /\ FirstRows(skip, table, IF kind.mode = "offset" THEN offset ELSE 0)
        /\ FirstRows(S, IF kind.mode = "cursor"
                        THEN {r \in table : BelowCursor(r, cursor)}
                        ELSE table \ skip, PageSize)
        /\ NextCursor(S, c)
        /\ page' = S
        /\ cursor' = c
        /\ hasNext' = HasNext(c)
        /\ seen' = seen \cup S
        /\ repeated' = repeated \cup (seen \cap S)
  BY <1>0
<1> DEFINE R == IF kind.mode = "cursor" THEN {r \in table : BelowCursor(r, cursor)}
                ELSE table \ skip
<1>2. /\ table \subseteq rows /\ settled \subseteq table /\ (~kind.cached => table = rows)
      /\ IsFiniteSet(table)
  <2>1. table \subseteq rows /\ settled \subseteq table /\ (~kind.cached => table = rows)
    BY ShownFacts
  <2> QED BY <2>1, FS_Subset DEF WalkOK
<1>3. IsFiniteSet(R)
  <2>1. R \in SUBSET table
    OBVIOUS
  <2> QED BY <1>2, <2>1, FS_Subset
<1>4. IsFiniteSet(S) /\ Cardinality(S) <= PageSize
  <2> HIDE DEF R
  <2>1. FirstRows(S, R, PageSize)
    BY <1>1 DEF R
  <2> QED BY <1>3, <2>1, FirstRowsSize, PageSizePositive
<1>5. (c # NoCursor) <=> (Cardinality(S) = PageSize)
  <2>1. ASSUME Cardinality(S) = PageSize PROVE c # NoCursor
    <3>1. PICK r \in S : r.height = c
      BY <1>1, <2>1 DEF NextCursor, LastHeight
    <3>2. r \in Row
      BY <1>2, <3>1 DEF TypeOK
    <3> QED BY <3>1, <3>2, BoundsAssumption DEF Row, Heights, NoCursor
  <2>2. ASSUME Cardinality(S) # PageSize PROVE c = NoCursor
    BY <1>1, <2>2 DEF NextCursor
  <2> QED BY <2>1, <2>2
<1> HIDE DEF R
<1>6. hasNext' = (c # NoCursor)
  BY <1>1 DEF HasNext
<1> QED BY <1>1, <1>4, <1>5, <1>2, <1>6

LEMMA TypeInit == Init => TypeOK /\ WalkOK
<1> SUFFICES ASSUME Init PROVE TypeOK /\ WalkOK
  OBVIOUS
<1>1. IsFiniteSet({}) /\ Cardinality({}) = 0
  BY FS_EmptySet
<1>2. rows = {} /\ recent \in Seq(Row)
  <2>1. Len(recent) = 0 /\ settled = {} /\ recent \in Seq(Row)
    BY DEF Init
  <2> QED BY <2>1 DEF rows, Table
<1>3. TypeOK
  BY <1>1, <1>2, PageSizePositive DEF Init, TypeOK
<1>4. WalkOK
  BY <1>1, <1>2 DEF Init, WalkOK
<1> QED BY <1>3, <1>4

LEMMA InsertType == ASSUME TypeOK, WalkOK, Insert PROVE TypeOK' /\ WalkOK'
<1>1. PICK r \in Row : rows' = rows \cup {r}
  BY InsertRows
<1>2. UNCHANGED <<settled, walk>> /\ recent' \in Seq(Row)
  BY InsertRows
<1>3. IsFiniteSet(rows')
  BY <1>1, FS_AddElement DEF WalkOK
<1>4. PageSize' = PageSize
  BY DEF PageSize
<1>5. TypeOK'
  BY <1>1, <1>2, <1>4 DEF TypeOK, walk
<1>6. WalkOK'
  BY <1>2, <1>3 DEF WalkOK, walk
<1> QED BY <1>5, <1>6

LEMMA ExpireType == ASSUME TypeOK, WalkOK, Expire PROVE TypeOK' /\ WalkOK'
<1>1. rows' = rows /\ settled \subseteq settled' /\ recent' \in Seq(Row) /\ UNCHANGED walk
  BY ExpireRows
<1>2. PageSize' = PageSize
  BY DEF PageSize
<1>3. TypeOK'
  BY <1>1, <1>2 DEF TypeOK, walk
<1>4. WalkOK'
  BY <1>1 DEF WalkOK, walk
<1> QED BY <1>3, <1>4

LEMMA PageType == ASSUME TypeOK, WalkOK, GetPage PROVE TypeOK' /\ WalkOK'
<1>1. PICK S \in SUBSET rows, c \in {NoCursor} \cup Heights :
         /\ Cardinality(S) <= PageSize
         /\ hasNext' = (c # NoCursor)
         /\ page' = S /\ cursor' = c /\ seen' = seen \cup S
         /\ repeated' = repeated \cup (seen \cap S)
  BY GetPageFacts
<1>2. /\ offset' = IF kind.mode = "offset" THEN offset + PageSize ELSE 0
      /\ begun' = TRUE
      /\ initial' = IF begun THEN initial ELSE IF kind.cached THEN settled ELSE rows
      /\ UNCHANGED <<settled, recent, rows, kind>>
  BY DEF GetPage, rows, Table
<1>3. TypeOK'
  <2>1. settled \subseteq rows
    BY DEF rows, Table
  <2> QED BY <1>1, <1>2, <2>1, PageSizePositive DEF TypeOK, PageSize
<1>4. WalkOK'
  BY <1>1, <1>2 DEF WalkOK
<1> QED BY <1>3, <1>4

LEMMA TypeStep == TypeOK /\ WalkOK /\ [Next]_vars => TypeOK' /\ WalkOK'
<1> SUFFICES ASSUME TypeOK, WalkOK, [Next]_vars PROVE TypeOK' /\ WalkOK'
  OBVIOUS
<1>1. CASE Insert
  BY <1>1, InsertType
<1>2. CASE GetPage
  BY <1>2, PageType
<1>3. CASE UNCHANGED vars
  BY <1>3 DEF vars, TypeOK, WalkOK, PageSize, rows, Table
<1>4. CASE Expire
  BY <1>4, ExpireType
<1> QED BY <1>1, <1>2, <1>3, <1>4 DEF Next

\* Whatever the table and the walk, a page has at most PageSize rows, and the rows
\* shown, repeated and initial are rows of the table.
THEOREM TypeCorrect == Spec => []TypeOK
<1>1. TypeOK /\ WalkOK /\ [Next]_vars => (TypeOK /\ WalkOK)'
  BY TypeStep
<1> QED BY <1>1, TypeInit, PTL DEF Spec

-----------------------------------------------------------------------------
\* Every row of a page lies below the cursor the page was asked for with, and above
\* or at the one it comes with.
LEMMA SeenAboveStep ==
    ASSUME CursorsDescend, TypeOK, WalkOK, SeenAbove, NoRepeat, [Next]_vars
    PROVE  SeenAbove' /\ NoRepeat'
<1>1. CASE Insert
  BY <1>1 DEF Insert, walk, SeenAbove, NoRepeat
<1>2. CASE UNCHANGED vars \/ Expire
  BY <1>2 DEF vars, Expire, walk, SeenAbove, NoRepeat
<1>3. ASSUME GetPage, kind.mode = "cursor"
      PROVE  SeenAbove' /\ NoRepeat'
  <2>1. PICK S \in SUBSET rows, c \in {NoCursor} \cup Heights :
          /\ \A r \in S : BelowCursor(r, cursor)
          /\ NextCursor(S, c)
          /\ (c # NoCursor) <=> (Cardinality(S) = PageSize)
          /\ cursor' = c /\ seen' = seen \cup S
          /\ repeated' = repeated \cup (seen \cap S)
    <3>1. PICK table \in Shown :
          \E skip \in SUBSET table, S \in SUBSET table, c \in {NoCursor} \cup Heights :
            /\ table \subseteq rows
            /\ FirstRows(S, {r \in table : BelowCursor(r, cursor)}, PageSize)
            /\ NextCursor(S, c)
            /\ (c # NoCursor) <=> (Cardinality(S) = PageSize)
            /\ cursor' = c /\ seen' = seen \cup S
            /\ repeated' = repeated \cup (seen \cap S)
      BY <1>3, GetPageFacts
    <3>2. PICK S \in SUBSET table, c \in {NoCursor} \cup Heights :
            /\ table \subseteq rows
            /\ FirstRows(S, {r \in table : BelowCursor(r, cursor)}, PageSize)
            /\ NextCursor(S, c)
            /\ (c # NoCursor) <=> (Cardinality(S) = PageSize)
            /\ cursor' = c /\ seen' = seen \cup S
            /\ repeated' = repeated \cup (seen \cap S)
      BY <3>1
    <3>3. S \in SUBSET rows /\ \A r \in S : BelowCursor(r, cursor)
      BY <3>2 DEF FirstRows
    <3> QED BY <3>2, <3>3
  <2>2. hasNext /\ kind' = kind
    BY <1>3 DEF GetPage
  <2>3. kind.order = "DESC"
    BY <1>3 DEF CursorsDescend, TypeOK
  <2>4. \A r \in rows : r.height \in Nat
    BY BoundsAssumption DEF TypeOK, Row, Heights
  <2>5. cursor \in Nat /\ c \in Nat
    BY BoundsAssumption DEF TypeOK, Heights, NoCursor
  <2>6. \A r \in S : cursor # NoCursor => r.height < cursor
    BY <2>1 DEF BelowCursor
  <2>7. ~begun \/ cursor # NoCursor
    BY <2>2 DEF WalkOK
  <2>8. seen \cap S = {}
    BY <1>3, <2>4, <2>5, <2>6, <2>7 DEF SeenAbove, WalkOK
  <2>9. ASSUME c # NoCursor PROVE \A r \in seen \cup S : r.height >= c
    <3>1. PICK s \in S : s.height = c /\ \A r \in S : ~Sorted(s, r)
      BY <2>1, <2>9 DEF NextCursor, LastHeight
    <3>2. \A r \in S : r.height >= c
      BY <2>3, <2>4, <3>1 DEF Sorted
    <3>3. \A r \in seen : cursor # NoCursor /\ r.height >= cursor
      BY <1>3, <2>7 DEF SeenAbove, WalkOK
    <3>4. seen \subseteq rows
      BY DEF TypeOK
    <3> QED BY <2>4, <2>5, <2>6, <3>1, <3>2, <3>3, <3>4
  <2> QED BY <1>3, <2>1, <2>2, <2>8, <2>9 DEF SeenAbove, NoRepeat
<1>4. ASSUME GetPage, kind.mode # "cursor"
      PROVE  SeenAbove' /\ NoRepeat'
  BY <1>4 DEF GetPage, SeenAbove, NoRepeat
<1> QED BY <1>1, <1>2, <1>3, <1>4 DEF Next

\* A descending walk with a cursor never shows a row twice, however many rows share
\* a height and whatever is inserted while it goes on.
THEOREM CursorWalksDoNotRepeat ==
    ASSUME CursorsDescend
    PROVE  Spec => []NoRepeat
<1> DEFINE Inv == TypeOK /\ WalkOK /\ SeenAbove /\ NoRepeat
<1>1. Init => Inv
  BY TypeInit DEF Init, SeenAbove, NoRepeat
<1>2. Inv /\ [Next]_vars => Inv'
  BY TypeStep, SeenAboveStep
<1>3. Inv => NoRepeat
  OBVIOUS
<1> QED BY <1>1, <1>2, <1>3, PTL DEF Spec

-----------------------------------------------------------------------------
\* Rows inserted meanwhile only push the unseen ones further behind.
LEMMA InsertUnseen ==
    ASSUME TypeOK, WalkOK, UnseenAhead, NothingMissed, Insert
    PROVE  UnseenAhead' /\ NothingMissed'
<1>1. PICK r \in Row : rows' = rows \cup {r}
  BY InsertRows
<1>2. UNCHANGED walk
  BY DEF Insert
<1>3. ASSUME NEW x \in initial
      PROVE  Cardinality(Before(x)) <= Cardinality(Before(x)')
             /\ Cardinality(Before(x)) \in Nat /\ Cardinality(Before(x)') \in Nat
  <2>1. Before(x) \in SUBSET (Before(x)') /\ Before(x)' \in SUBSET rows'
    BY <1>1, <1>2 DEF Before, Sorted, walk
  <2>2. IsFiniteSet(rows')
    BY InsertType DEF WalkOK
  <2>3. IsFiniteSet(Before(x)')
    BY <2>1, <2>2, FS_Subset
  <2> QED BY <2>1, <2>3, FS_Subset, FS_CardinalityType
<1>4. NothingMissed'
  BY <1>2 DEF NothingMissed, walk
<1>5. UnseenAhead'
  <2> SUFFICES ASSUME begun, hasNext, Complete, NEW x \in initial \ seen
               PROVE  IF kind.mode = "cursor" THEN x.height < cursor
                      ELSE Cardinality(Before(x)') >= offset
    BY <1>2 DEF UnseenAhead, Complete, walk
  <2>1. IF kind.mode = "cursor" THEN x.height < cursor
        ELSE Cardinality(Before(x)) >= offset
    BY DEF UnseenAhead
  <2>2. offset \in Nat
    BY DEF TypeOK
  <2> QED BY <1>3, <2>1, <2>2
<1> QED BY <1>4, <1>5

\* A row that is not skipped and not on the page of an offset walk has the skipped
\* rows and the page before it.
LEMMA OffsetUnseen ==
    ASSUME TypeOK, WalkOK, MaxPerHeight = 1,
           NEW skip, NEW S, NEW x \in rows, x \notin S,
           FirstRows(skip, rows, offset),
           FirstRows(S, rows \ skip, PageSize),
           Cardinality(Before(x)) >= offset
    PROVE  /\ Cardinality(S) = PageSize
           /\ Cardinality(Before(x)) >= offset + PageSize
<1>1. IsFiniteSet(rows) /\ offset \in Nat /\ PageSize \in Nat
  BY PageSizePositive DEF WalkOK, TypeOK
<1>2. /\ IsFiniteSet(skip) /\ skip \subseteq rows /\ Cardinality(skip) \in Nat
      /\ Cardinality(skip) <= offset
      /\ Cardinality(skip) # offset => skip = rows
  BY <1>1, FirstRowsSize
<1>3. IsFiniteSet(Before(x)) /\ Cardinality(Before(x)) \in Nat
  <2>1. Before(x) \in SUBSET rows
    BY DEF Before
  <2> QED BY <1>1, <2>1, FS_Subset, FS_CardinalityType
<1>4. x \notin Before(x)
  <2>1. x.height \in Nat
    BY BoundsAssumption DEF TypeOK, Row, Heights
  <2> QED BY <2>1 DEF Before, Sorted
<1>5. x \notin skip
  <2> SUFFICES ASSUME x \in skip PROVE FALSE
    OBVIOUS
  <2>1. Before(x) \cup {x} \in SUBSET skip
    BY DEF Before, FirstRows
  <2>2. Cardinality(Before(x) \cup {x}) = Cardinality(Before(x)) + 1
    BY <1>3, <1>4, FS_AddElement
  <2>3. Cardinality(Before(x) \cup {x}) <= Cardinality(skip)
    BY <1>2, <2>1, FS_Subset
  <2> QED BY <1>1, <1>2, <1>3, <2>2, <2>3
<1>6. Cardinality(skip) = offset
  BY <1>2, <1>5
<1>7. IsFiniteSet(rows \ skip)
  BY <1>1, FS_Subset
<1>8. /\ IsFiniteSet(S) /\ S \subseteq rows \ skip
      /\ Cardinality(S) # PageSize => S = rows \ skip
  BY <1>1, <1>7, FirstRowsSize
<1>9. Cardinality(S) = PageSize
  BY <1>5, <1>8
<1>10. \A r \in skip \cup S : r \in rows /\ ~Sorted(x, r) /\ r # x
  BY <1>2, <1>5, <1>8 DEF FirstRows
<1>11. skip \cup S \in SUBSET Before(x)
  BY <1>10, SortedTotal DEF Before
<1>12. Cardinality(skip \cup S) = offset + PageSize
  <2>1. skip \cap S = {}
    BY <1>8
  <2>2. Cardinality(skip \cup S)
           = Cardinality(skip) + Cardinality(S) - Cardinality(skip \cap S)
    BY <1>2, <1>8, FS_Union
  <2>3. Cardinality(skip \cap S) = 0
    BY <2>1, FS_EmptySet
  <2> QED BY <1>1, <1>6, <1>9, <2>2, <2>3
<1>13. Cardinality(skip \cup S) <= Cardinality(Before(x))
  BY <1>3, <1>11, FS_Subset
<1> QED BY <1>1, <1>3, <1>9, <1>12, <1>13

\* What a request does not show, it leaves ahead of the next one; a page that is not
\* full leaves nothing.
LEMMA PageUnseen ==
    ASSUME CursorsDescend, MaxPerHeight = 1,
           TypeOK, WalkOK, UnseenAhead, NothingMissed, GetPage
    PROVE  UnseenAhead' /\ NothingMissed'
<1>0. PICK table \in Shown :
      \E skip \in SUBSET table, S \in SUBSET table, c \in {NoCursor} \cup Heights :
        /\ table \subseteq rows /\ settled \subseteq table /\ IsFiniteSet(table)
        /\ ~kind.cached => table = rows
        /\ FirstRows(skip, table, IF kind.mode = "offset" THEN offset ELSE 0)
        /\ FirstRows(S, IF kind.mode = "cursor"
                        THEN {r \in table : BelowCursor(r, cursor)}
                        ELSE table \ skip, PageSize)
        /\ NextCursor(S, c)
        /\ hasNext' = (c # NoCursor)
        /\ (c # NoCursor) <=> (Cardinality(S) = PageSize)
        /\ cursor' = c /\ seen' = seen \cup S
  BY GetPageFacts
<1>1. PICK skip \in SUBSET table, S \in SUBSET table, c \in {NoCursor} \cup Heights :
        /\ table \subseteq rows /\ settled \subseteq table /\ IsFiniteSet(table)
        /\ ~kind.cached => table = rows
        /\ FirstRows(skip, table, IF kind.mode = "offset" THEN offset ELSE 0)
        /\ FirstRows(S, IF kind.mode = "cursor"
                        THEN {r \in table : BelowCursor(r, cursor)}
                        ELSE table \ skip, PageSize)
        /\ NextCursor(S, c)
        /\ hasNext' = (c # NoCursor)
        /\ (c # NoCursor) <=> (Cardinality(S) = PageSize)
        /\ cursor' = c /\ seen' = seen \cup S
  BY <1>0
<1>2. /\ hasNext
      /\ offset' = IF kind.mode = "offset" THEN offset + PageSize ELSE 0
      /\ begun' = TRUE
      /\ initial' = IF begun THEN initial ELSE IF kind.cached THEN settled ELSE rows
      /\ UNCHANGED <<settled, recent, rows, kind>>
  BY DEF GetPage, rows, Table
<1>3. ASSUME Complete, NEW x \in initial' \ seen'
      PROVE  /\ Cardinality(S) = PageSize
             /\ IF kind.mode = "cursor" THEN x.height < c
                ELSE Cardinality(Before(x)) >= offset + PageSize
  <2>1. /\ x \in table /\ x \in rows /\ x \notin S /\ x \notin seen
        /\ begun => x \in initial
    BY <1>1, <1>2, <1>3 DEF TypeOK, WalkOK
  <2>2. CASE kind.mode = "cursor"
    <3> DEFINE R == {r \in table : BelowCursor(r, cursor)}
    <3>1. x \in R
      BY <1>2, <1>3, <2>1, <2>2 DEF UnseenAhead, WalkOK, BelowCursor
    <3>2. IsFiniteSet(R)
      <4>1. R \in SUBSET table
        OBVIOUS
      <4> QED BY <1>1, <4>1, FS_Subset
    <3>3. FirstRows(S, R, PageSize)
      BY <1>1, <2>2
    <3> HIDE DEF R
    <3>4. Cardinality(S) = PageSize
      BY <2>1, <3>1, <3>2, <3>3, FirstRowsSize, PageSizePositive
    <3>5. PICK r \in S : r.height = c
      BY <1>1, <3>4 DEF NextCursor, LastHeight
    <3>6. ~Sorted(x, r)
      BY <2>1, <3>1, <3>3 DEF FirstRows
    <3>7. Sorted(r, x)
      BY <1>1, <2>1, <3>6, SortedTotal
    <3>8. kind.order = "DESC"
      BY <2>2 DEF CursorsDescend, TypeOK
    <3>9. r.height \in Nat /\ x.height \in Nat
      BY <1>1, <2>1, BoundsAssumption DEF TypeOK, Row, Heights
    <3> QED BY <2>2, <3>4, <3>5, <3>7, <3>8, <3>9 DEF Sorted
  <2>3. CASE kind.mode # "cursor"
    <3>1. kind.mode = "offset"
      BY <2>3, WalksAssumption DEF TypeOK
    <3>2. Cardinality(Before(x)) >= offset
      <4>1. CASE begun
        BY <1>2, <1>3, <2>1, <2>3, <4>1 DEF UnseenAhead
      <4>2. CASE ~begun
        <5>1. Before(x) \in SUBSET rows
          BY DEF Before
        <5>2. Cardinality(Before(x)) \in Nat
          BY <5>1, FS_Subset, FS_CardinalityType DEF WalkOK
        <5> QED BY <4>2, <5>2 DEF WalkOK
      <4> QED BY <4>1, <4>2
    <3>3. FirstRows(skip, rows, offset) /\ FirstRows(S, rows \ skip, PageSize)
      <4>1. table = rows
        BY <1>1, <1>3, <2>3 DEF Complete
      <4> QED BY <1>1, <2>3, <3>1, <4>1
    <3> QED BY <2>1, <2>3, <3>2, <3>3, OffsetUnseen
  <2> QED BY <2>2, <2>3
<1>4. Complete' <=> Complete
  BY <1>2 DEF Complete
<1>5. NothingMissed'
  BY <1>1, <1>2, <1>3 DEF NothingMissed, Complete
<1>6. UnseenAhead'
  <2>1. \A x : Before(x)' = Before(x)
    BY <1>2 DEF Before, Sorted
  <2>2. kind.mode # "cursor" => kind.mode = "offset"
    BY WalksAssumption DEF TypeOK
  <2> QED BY <1>1, <1>2, <1>3, <1>4, <2>1, <2>2 DEF UnseenAhead
<1> QED BY <1>5, <1>6

\* With one row per height, a walk by cursor, or by offset over a list without a cache,
\* that came to its end has shown every row that was there when it began (and for as
\* long as responses are kept, if they are), wherever rows were inserted meanwhile,
\* whatever age each page had and whatever the size of the table and of the pages.
THEOREM WalksMissNothing ==
    ASSUME CursorsDescend, MaxPerHeight = 1
    PROVE  Spec => []NothingMissed
<1> DEFINE Inv == TypeOK /\ WalkOK /\ UnseenAhead /\ NothingMissed
<1>1. Init => Inv
  BY TypeInit DEF Init, UnseenAhead, NothingMissed
<1>2. Inv /\ [Next]_vars => Inv'
  <2> SUFFICES ASSUME Inv, [Next]_vars PROVE Inv'
    OBVIOUS
  <2>1. TypeOK' /\ WalkOK'
    BY TypeStep
  <2>2. CASE Insert
    BY <2>1, <2>2, InsertUnseen
  <2>3. CASE GetPage
    BY <2>1, <2>3, PageUnseen
  <2>4. CASE UNCHANGED vars \/ Expire
    <3>1. UNCHANGED <<rows, walk>>
      BY <2>4, ExpireRows DEF vars, walk, rows, Table
    <3>2. \A x : Before(x)' = Before(x)
      BY <3>1 DEF walk, Before, Sorted
    <3> QED BY <2>1, <3>1, <3>2 DEF walk, UnseenAhead, NothingMissed, Complete
  <2> QED BY <2>2, <2>3, <2>4 DEF Next
<1>3. Inv => NothingMissed
  OBVIOUS
<1> QED BY <1>1, <1>2, <1>3, PTL DEF Spec
=============================================================================
