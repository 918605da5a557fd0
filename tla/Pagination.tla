----------------------------- MODULE Pagination -----------------------------
(***************************************************************************)
(* A client of the API walks through a list page by page while the indexer *)
(* goes on inserting rows: blocks (one row per height) and transactions,   *)
(* messages and address histories (several rows per height).               *)
(*                                                                         *)
(* In "cursor" mode the client sends back the next_cursor of the previous  *)
(* page, a block height; in "offset" mode it skips the rows of the pages   *)
(* it has.  Rows of one height have no order among themselves: the queries *)
(* sort by height alone, and each may return them differently.             *)
(*                                                                         *)
(* Most lists stand behind CacheInterceptor, which keeps the response of   *)
(* each URL for the time of @CacheTTL: a page may show the table as another *)
(* client's request found it.  No two requests of a walk have one URL, so  *)
(* each page may be as old as that, independently of the others.           *)
(***************************************************************************)
EXTENDS Integers, Sequences, FiniteSets

CONSTANTS
    Walks,          \* the requests a client may repeat: a mode, a sort_order, and
                    \* whether responses of the list are cached
    MaxHeight,      \* bound on the heights
    MaxPerHeight,   \* bound on the rows of a height
    RawLimit,       \* the limit in the request; 0 when there is none
    DefaultLimit,   \* app.defaultPageSize
    MaxLimit,       \* app.maxPageSize
    Backfill        \* whether rows below the newest height may still appear

ASSUME WalksAssumption ==
    /\ Walks \subseteq [mode: {"cursor", "offset"}, order: {"DESC", "ASC"},
                   cached: BOOLEAN]
    /\ Backfill \in BOOLEAN
ASSUME BoundsAssumption ==
    /\ MaxHeight \in Nat /\ MaxPerHeight \in Nat
    /\ RawLimit \in Nat /\ DefaultLimit \in Nat \ {0} /\ MaxLimit \in Nat \ {0}

VARIABLES
    settled,    \* rows that are in the table longer than a response is kept
    recent,     \* the other rows, in the order they came
    kind,       \* what the client walks with: one of Walks
    page,       \* the rows of the last page the client got
    cursor,     \* the next_cursor of that page, NoCursor if it had none
    offset,     \* rows to skip for the next page
    hasNext,    \* whether the last page said there is another one
    seen,       \* history: rows of all pages
    repeated,   \* history: rows that came on two pages
    begun,      \* history: whether a page has been asked for
    initial     \* history: what every answer showed when the walk began

vars == <<settled, recent, kind, page, cursor, offset, hasNext, seen, repeated, begun,
          initial>>
walk == <<kind, page, cursor, offset, hasNext, seen, repeated, begun, initial>>

Heights == 1..MaxHeight
Row == [height: Heights, idx: 1..MaxPerHeight]
NoCursor == 0

\* The table when the first n of the recent rows had come.
Table(n) == settled \cup {recent[i] : i \in 1..n}

\* The table now.
rows == Table(Len(recent))

Init ==
    /\ settled = {} /\ recent = << >>
    /\ kind \in Walks
    /\ page = {} /\ cursor = NoCursor /\ offset = 0 /\ hasNext = TRUE
    /\ seen = {} /\ repeated = {} /\ begun = FALSE /\ initial = {}

\* The indexer stores a row, of the newest height unless it fills a gap.
Insert ==
    /\ \E r \in Row \ rows :
          /\ Backfill \/ \A s \in rows : s.height <= r.height
          /\ recent' = Append(recent, r)
    /\ UNCHANGED <<settled, walk>>

\* Time passes: the responses without the oldest of the recent rows expire.
Expire ==
    /\ recent # << >>
    /\ settled' = settled \cup {Head(recent)}
    /\ recent' = Tail(recent)
    /\ UNCHANGED walk

-----------------------------------------------------------------------------
\* normalizePagePagination, normalizeOffsetPagination: at least one row, at most
\* the configured maximum.
PageSize ==
    LET raw == IF RawLimit = 0 THEN DefaultLimit ELSE RawLimit
    IN IF raw > MaxLimit THEN MaxLimit ELSE raw

\* Mutated form of BelowCursor: the row of the cursor's height comes again.
BelowCursorInclusive(r, c) == c # NoCursor => r.height <= c

\* andWhere("height < :cursor"), whatever the sort order.
BelowCursor(r, c) == c # NoCursor => r.height < c

\* r comes before s in any answer.
Sorted(r, s) ==
    IF kind.order = "DESC" THEN r.height > s.height ELSE r.height < s.height

\* Mutated form of FirstRows: one row beyond the limit.
FirstRowsOneMore(S, R, n) ==
    /\ S \subseteq R
    /\ Cardinality(S) = IF Cardinality(R) < n + 1 THEN Cardinality(R) ELSE n + 1
    /\ \A r \in S, s \in R \ S : ~Sorted(s, r)

\* S is a possible answer to ORDER BY height LIMIT n of the rows in R.
FirstRows(S, R, n) ==
    /\ S \subseteq R
    /\ Cardinality(S) = IF Cardinality(R) < n THEN Cardinality(R) ELSE n
    /\ \A r \in S, s \in R \ S : ~Sorted(s, r)

\* Some row of S comes last in it.
LastHeight(S, h) ==
    \E r \in S : r.height = h /\ \A s \in S : ~Sorted(r, s)

\* Mutated form of NextCursor: the comparison with the limit is off by one.
NextCursorOffByOne(S, c) ==
    IF Cardinality(S) > PageSize THEN LastHeight(S, c) ELSE c = NoCursor

\* hasNext = length === limit; the cursor is the height of the last row.
NextCursor(S, c) ==
    IF Cardinality(S) = PageSize THEN LastHeight(S, c) ELSE c = NoCursor

\* Mutated form of HasNext: there is always another page.
HasNextAlways(c) == TRUE

\* buildPaginationMeta(1, limit, -1, nextCursor[, hasNext]): without a total the
\* page says there is more when it has a cursor.
HasNext(c) == c # NoCursor

\* The tables a page may show: the one now, or one that another client's request for
\* the same URL found.
Shown == IF kind.cached THEN {Table(n) : n \in 0..Len(recent)} ELSE {rows}

\* One request.  With an offset the skipped rows are some first rows, not
\* necessarily those of the pages before.
GetPage ==
    /\ hasNext
    /\ \E table \in Shown :
       \E skip \in SUBSET table, S \in SUBSET table, c \in {NoCursor} \cup Heights :
          /\ FirstRows(skip, table, IF kind.mode = "offset" THEN offset ELSE 0)
          /\ FirstRows(S, IF kind.mode = "cursor"
                          THEN {r \in table : BelowCursor(r, cursor)}
                          ELSE table \ skip, PageSize)
          /\ NextCursor(S, c)
          /\ page' = S
          /\ cursor' = c
          /\ hasNext' = HasNext(c)
          /\ seen' = seen \cup S
          /\ repeated' = repeated \cup (seen \cap S)
    /\ offset' = IF kind.mode = "offset" THEN offset + PageSize ELSE 0
    /\ begun' = TRUE
    /\ initial' = IF begun THEN initial ELSE IF kind.cached THEN settled ELSE rows
    /\ UNCHANGED <<settled, recent, kind>>

Next == Insert \/ Expire \/ GetPage

Spec == Init /\ [][Next]_vars

\* The client goes on while it is told that there is another page.
FairSpec == Spec /\ WF_vars(GetPage)

-----------------------------------------------------------------------------
TypeOK ==
    /\ kind \in Walks
    /\ recent \in Seq(Row)
    /\ rows \subseteq Row /\ page \subseteq seen /\ seen \subseteq rows
    /\ cursor \in {NoCursor} \cup Heights
    /\ offset \in Nat /\ hasNext \in BOOLEAN
    /\ repeated \subseteq seen
    /\ initial \subseteq rows /\ (hasNext \/ begun)
    /\ Cardinality(page) <= PageSize

\* No row comes on two pages of a walk with a cursor, although rows are inserted
\* between the requests (an offset walk does repeat rows then).
NoRepeat == kind.mode = "cursor" => repeated = {}

\* A walk that came to its end has shown every row that was there when it began, and,
\* where responses are cached, for as long as they are kept.  With an offset that holds
\* of the lists without a cache only: a page from an older table skips rows that an
\* earlier page, from a newer table, did not have yet.
NothingMissed ==
    ~hasNext /\ (kind.mode = "cursor" \/ ~kind.cached) => initial \subseteq seen

\* The walk comes to an end.
WalkEnds == <>~hasNext
=============================================================================
