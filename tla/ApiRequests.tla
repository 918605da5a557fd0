---------------------------- MODULE ApiRequests -----------------------------
(***************************************************************************)
(* A request through the API: the router finds its handler, the            *)
(* ValidationPipe checks its path and its query string, the handler calls  *)
(* a method of a service, the method runs its queries one after the other, *)
(* each of which finds rows, finds none or fails, and the handler answers. *)
(***************************************************************************)
EXTENDS ApiRoutes, ApiQueries

CONSTANTS
    IntegerWords,
    \* the words of a path that read as an integer
    Requests
    \* [path, given, serving]: the path and the parameters as they are written, and
    \* the place, in Handlers, of the handler whose documentation describes them

ASSUME RequestsAssumption ==
    \A r \in Requests :
        /\ r.serving \in DOMAIN Handlers
        /\ \A p \in DOMAIN r.given : r.given[p].number \in Int

VARIABLES
    request,    \* the request being served
    stage,      \* how far it got
    handler,    \* the place of the handler that serves it, 0 when there is none
    params,     \* the query string as the handler sees it
    left,       \* the queries still to run
    sent,       \* the last query that was run, with its LIMIT and OFFSET
    status      \* the status of the answer

vars == <<request, stage, handler, params, left, sent, status>>

Nothing == [query |-> From("Block", "block"), limit |-> 0, offset |-> 0]

TypeOK ==
    /\ request.serving \in DOMAIN Handlers
    /\ stage \in {"received", "dispatched", "querying", "answered"}
    /\ handler \in 0 .. Len(Handlers)
    /\ stage = "querying" => IsSuffix(left, Methods[Handlers[handler].service].queries)
    /\ stage # "querying" => left = << >>
    /\ stage = "answered" <=> status # 0
    /\ sent.limit \in Int /\ sent.offset \in Int
    /\ status \in {0, 200, 400, 404, 500}

Init ==
    /\ request \in Requests
    /\ stage = "received" /\ handler = 0 /\ params = << >>
    /\ left = << >> /\ sent = Nothing /\ status = 0

\* Mutated form of AnswerWith: the queries that are left run on.
AnswerWithLeft(code) == status' = code /\ stage' = "answered" /\ left' = left

\* The answer of a request, whatever is left to do.
AnswerWith(code) == status' = code /\ stage' = "answered" /\ left' = << >>

-----------------------------------------------------------------------------
\* The path has an integer wherever the handler takes nothing else.
PathValidated(h) == \A k \in h.integers : request.path[k] \in IntegerWords

\* The router finds a handler.
Dispatch ==
    /\ stage = "received"
    /\ Dispatched(request.path) # 0
    /\ handler' = Dispatched(request.path)
    /\ stage' = "dispatched"
    /\ UNCHANGED <<request, params, left, sent, status>>

\* The ValidationPipe refuses the path or the query string, or the handler misses a
\* parameter.
Refuse ==
    /\ stage = "dispatched"
    /\ LET h == Handlers[handler] IN
       \/ ~PathValidated(h)
       \/ h.checked /\ ~Validated(h.dto, request.given)
       \/ ~(h.required \subseteq DOMAIN request.given)
    /\ AnswerWith(400)
    /\ UNCHANGED <<request, handler, params, sent>>

\* The handler calls the method that answers it.
Call ==
    /\ stage = "dispatched"
    /\ LET h == Handlers[handler] IN
       /\ PathValidated(h)
       /\ h.checked => Validated(h.dto, request.given)
       /\ h.required \subseteq DOMAIN request.given
       /\ params' = IF h.checked THEN Transformed(h.dto, request.given) ELSE << >>
       /\ left' = Methods[h.service].queries
    /\ stage' = "querying"
    /\ UNCHANGED <<request, handler, sent, status>>

\* The next query is sent to the database.
Send ==
    sent' = [query |-> Head(left), limit |-> LimitOf(Head(left).paging, params),
             offset |-> OffsetOf(Head(left).paging, params)]

\* It answers, with rows or, after the first query, without any.
Found ==
    /\ stage = "querying" /\ left # << >>
    /\ Executable(Head(left), params)
    /\ Send
    /\ left' = Tail(left)
    /\ UNCHANGED <<request, stage, handler, params, status>>

\* It is not needed: the row that was found has the messages.
Skip ==
    /\ stage = "querying" /\ left # << >>
    /\ Head(left).fallback
    /\ left' = Tail(left)
    /\ UNCHANGED <<request, stage, handler, params, sent, status>>

\* The first query finds nothing.
Missing ==
    /\ stage = "querying" /\ left # << >>
    /\ LET method == Methods[Handlers[handler].service] IN
       /\ left = method.queries
       /\ AnswerWith(CASE method.missing = "error" -> Handlers[handler].onError
                       [] method.missing = "null" -> Handlers[handler].onNull
                       [] OTHER -> 200)
    /\ Executable(Head(left), params)
    /\ Send
    /\ UNCHANGED <<request, handler, params>>

\* Mutated form of Fail: an error of the database is awaited for ever.
FailUncaught ==
    /\ stage = "querying" /\ left # << >>
    /\ Executable(Head(left), params)
    /\ Send
    /\ AnswerWith(Handlers[handler].onError)
    /\ UNCHANGED <<request, handler, params>>

\* It fails: it names what does not exist, or the database is out of reach.
Fail ==
    /\ stage = "querying" /\ left # << >>
    /\ Send
    /\ AnswerWith(Handlers[handler].onError)
    /\ UNCHANGED <<request, handler, params>>

\* All queries have answered; a method without any may still answer null.
Answer ==
    /\ stage = "querying" /\ left = << >>
    /\ LET h == Handlers[handler] IN
       \/ AnswerWith(200)
       \/ /\ Methods[h.service] = Answering(<< >>, "null")
          /\ AnswerWith(h.onNull)
    /\ UNCHANGED <<request, handler, params, sent>>

Next == Dispatch \/ Refuse \/ Call \/ Found \/ Skip \/ Missing \/ Fail \/ Answer

Spec == Init /\ [][Next]_vars

\* Every step of a request is taken: the router, the pipe and the handlers are code
\* that runs to its end, and a query answers or fails.
FairSpec == Spec /\ WF_vars(Next)

-----------------------------------------------------------------------------
\* What the handlers below are known to get wrong; the README has the list.  The
\* properties say that the others, and these otherwise, do what they document.

\* Handlers behind one whose path parameter matches their last word.
Shadowed ==
    {SearchTransactions, GetTransactionAnalytics, GetTokenUnits, GetTokenPrices,
     GetTokenStatistics}

\* Parameters that are documented and refused.
Undeclared ==
    {"weekday_only", "weekend_only", "quarter", "date_range_start", "date_range_end",
     "date_range_label"}

Documented == Handlers[request.serving]
Given == DOMAIN request.given

\* Parameters that are accepted and then used by nothing.
Presentation ==
    {"date_range_type", "date_pattern", "date_format", "timezone", "granularity",
     "aggregation", "interval"}
OfStaking ==
    {"getDelegationsByAddress", "getDelegationsByValidator", "getUndelegationsByAddress",
     "getUndelegationsByValidator", "getRedelegationsByAddress",
     "getWithdrawalsByAddress", "getWithdrawalsByValidator"}
Fees == {"min_fee_amount", "max_fee_amount", "fee_denom"}
Unused(h) ==
    CASE h = GetTransactionsAdvanced -> Fees
      [] h = GetAddressTransactionsAdvanced ->
             Fees \cup {"min_amount", "max_amount", "denom", "include_failed",
                        "group_by_type", "include_messages", "include_logs"}
      [] h \in {GetTransactions, GetAddressTransactions, GetMessagesByAddress,
                GetMessagesByType, SearchMessages} -> {"page"}
      [] h = GetBlocks -> Presentation \cup {"page"}
      [] h = GetMessages -> Presentation \cup {"page", "amount_min", "amount_max"}
      [] h \in {GetProposals, GetProposalVotes, GetTokenUnits, GetTokenPrices,
                GetTokenPriceHistory, GetSupply} -> Presentation
      [] h = GetProposalDeposits -> Presentation \cup {"amount_min", "amount_max"}
      [] h = GetTokens ->
             Presentation \cup {"denom", "price_id", "price_min", "price_max", "denoms"}
      [] h.service \in OfStaking -> {"cursor"}
      [] OTHER -> {}

\* A cursor is a height: an order by anything else sets it aside, else it sets the
\* offset aside.  A relative date is a value and a unit, one of them is no date.
Overridden ==
    (CASE "cursor" \notin Given -> {}
       [] "cursor" \in Given /\ "sort_by" \in Given
          /\ request.given["sort_by"].word # "height" -> {"cursor"}
       [] OTHER -> {"offset"})
    \cup (IF {"relative_value", "relative_unit"} \subseteq Given THEN {}
          ELSE {"relative_value", "relative_unit"})

\* Values that are accepted and filter nothing: a zero where the test is for truth,
\* both directions, the categories without message types.
FiltersNothing(p, value) ==
    \/ p \in TestedForTruth /\ value.number = 0
    \/ p = "direction" /\ value.word = "both"
    \/ p = "category" /\ value.word \in {"mint", "other"}
Dropped == {p \in Given : FiltersNothing(p, request.given[p])}

\* Handlers whose queries name what their entity does not have, for any request.
Broken ==
    {GetProposals, GetProposalById, GetProposalVotes, GetProposalDeposits, GetTokens,
     GetTokenByName, GetTokenPrices, GetSupply, GetLatestSupply, GetSupplyByDenom,
     GetGenesis, GetGenesisByHeight}

\* Parameters that make a query of another handler fail.
Breaking(h) ==
    CASE h = GetMessages -> ComparedDates \cup ExtractedDates \cup TimesOfDay
      [] h = GetTokenPriceHistory -> TimesOfDay \cup {"price_id", "price_ids"}
      [] h = GetTokenUnits -> ExtractedDates \cup TimesOfDay
      [] h.service = "getBlocks" -> TimesOfDay
      [] OTHER -> {}

-----------------------------------------------------------------------------
\* A word that stands in some path.
IsFixedWord(word) ==
    /\ word # "*"
    /\ \E i \in DOMAIN Handlers : \E k \in DOMAIN Handlers[i].path : Handlers[i].path[k] = word

\* Requests whose path is that of the handler they are meant for: an address, a hash
\* or a height in the place of a path parameter is not a word of another path.
PathsAsDocumented ==
    \A r \in Requests :
        LET meant == Handlers[r.serving] IN
        /\ r.path \in Seq(STRING) /\ Matches(r.path, meant)
        /\ \A k \in DOMAIN r.path : meant.path[k] = "*" => ~IsFixedWord(r.path[k])

\* Requests that write a truth value, a module or a direction as it is documented.
ValuesAsDocumented ==
    \A r \in Requests :
        LET dto == Handlers[r.serving].dto IN
        \A p \in DOMAIN r.given \cap DOMAIN dto :
            /\ dto[p].check \in {"boolean", "flag"} =>
                   r.given[p] \in {WrittenWord("true"), WrittenWord("false")}
            /\ p = "module" => r.given[p].word \in ParsedModules
            /\ p = "direction" => r.given[p].word \in {"sent", "received", "both"}

\* Requests that give parameters their handler documents or declares, in any number.
ParametersAsDocumented ==
    \A r \in Requests :
        LET meant == Handlers[r.serving] IN
        DOMAIN r.given \subseteq meant.documented \cup DOMAIN meant.dto

-----------------------------------------------------------------------------
\* No request makes the API read a table without a bound: whatever limit the client
\* asks for, every query has a LIMIT of at most 100 (1000 for one block's
\* transactions), or reads the rows of one key.  Either the DTO or the service has
\* to see to it, and each list relies on another of the two.
EveryReadBounded ==
    LET query == sent.query IN
    sent # Nothing =>
        /\ sent.offset >= 0
        /\ IF query.paging.by = "nothing"
           THEN query.paging.most > 0 \/ query.equals # {}
           ELSE sent.limit \in 1 .. 100

\* A request reaches the handler that documents it, wherever the two stand in the
\* sources, unless a path parameter is known to shadow it.
HandlersReached ==
    handler # 0 => handler = request.serving \/ Documented \in Shadowed

\* What a handler documents, written as documented, passes the ValidationPipe: a
\* number where the path or the query string is documented to have one.
OnlyKnownRefusals ==
    status = 400 =>
        \/ Given \cap Undeclared # {}
        \/ Documented = SearchMessages
        \/ \E p \in Given \cap DOMAIN Documented.dto :
              ~Accepts(Documented.dto[p], request.given[p])
        \/ handler # request.serving
        \/ \E k \in Documented.integers : request.path[k] \notin IntegerWords

\* A parameter that is let through takes effect, with the value it was given: some
\* query of the method filters, orders or cuts by it.
AcceptedParametersApply ==
    (stage = "querying" /\ handler = request.serving) =>
        \A p \in (DOMAIN params \cap Given) \ (Unused(Documented) \cup Overridden \cup Dropped) :
            /\ \E i \in DOMAIN Methods[Documented.service].queries :
                  p \in Effective(Methods[Documented.service].queries[i], params)
            /\ params[p] = request.given[p]
               \/ request.given[p] = WrittenWord("false")

\* No query names a column, a relation or a function that does not exist, but for the
\* handlers and the parameters known to: whatever a request orders and filters by, the
\* aliases of the query and the entities behind them have it.
QueriesExecutable ==
    (stage = "querying" /\ left # << >> /\ Documented \notin Broken
        /\ handler = request.serving /\ Given \cap Breaking(Documented) = {}) =>
            Executable(Head(left), params)

\* A request is answered, whatever the database does.
EveryRequestAnswered == <>(stage = "answered")
=============================================================================
