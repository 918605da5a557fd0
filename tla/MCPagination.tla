--------------------------- MODULE MCPagination ---------------------------
(* Small instances of Pagination and TransactionCounts for TLC: the two      *)
(* reads of the API whose answers depend on the requests before.  They share *)
(* no state, so a history with an empty list stands for all those in which   *)
(* the counts are asked for.                                                 *)
EXTENDS Pagination, TransactionCounts

Walk(mode, order, cached) == [mode |-> mode, order |-> order, cached |-> cached]

\* The walks over a list with one row per height.
BlockWalks == {Walk("cursor", "DESC", TRUE), Walk("offset", "DESC", TRUE),
               Walk("offset", "DESC", FALSE), Walk("offset", "ASC", FALSE)}

\* The default walk over the transactions.
CursorWalk == {Walk("cursor", "DESC", TRUE)}

\* The counts have not been asked for.
NoQuestion == now = 1 /\ request = [c \in Client |-> Waiting]

\* Bound: two rows come while a response is kept.
FewRecent == Len(recent') <= 2

\* Bound: at the last instant the requests that come are answered from the responses.
LastInstant == now = MaxTime => UNCHANGED request

ReadsNext ==
    \/ NoQuestion /\ Next /\ FewRecent /\ UNCHANGED countsVars
    \/ rows = {} /\ ~hasNext /\ kind = Walk("cursor", "DESC", TRUE)
       /\ CountsNext /\ LastInstant /\ UNCHANGED vars

ReadsInit == Init /\ CountsInit

ReadsSpec ==
    /\ ReadsInit
    /\ [][ReadsNext]_<<vars, countsVars>>
    /\ WF_vars(GetPage)
=============================================================================
