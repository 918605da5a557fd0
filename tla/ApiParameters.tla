--------------------------- MODULE ApiParameters ----------------------------
(***************************************************************************)
(* What the API makes of a query string.  A DTO says which parameters a    *)
(* handler takes and how each is checked; the ValidationPipe of main.ts    *)
(* converts what the client wrote (transform, enableImplicitConversion),   *)
(* rejects a parameter of no DTO field (forbidNonWhitelisted) and a value  *)
(* that fails its check.                                                   *)
(*                                                                         *)
(* A value as the client writes it is a number, a date, some other word,   *)
(* or the same name several times, which is how a list is sent.            *)
(***************************************************************************)
EXTENDS Integers, TLC

CONSTANT NoMaximum      \* larger than any number a client sends

ASSUME NoMaximumAssumption == NoMaximum \in Nat

\* f, and g where f is not defined: TLC's @@, which has no definition a proof could use.
f ++ g == [x \in DOMAIN f \cup DOMAIN g |-> IF x \in DOMAIN f THEN f[x] ELSE g[x]]

Written(kind, word, number) == [kind |-> kind, word |-> word, number |-> number]
WrittenNumber(n) == Written("number", "", n)
WrittenWord(w) == Written("word", w, 0)
WrittenDate == Written("date", "", 0)
WrittenTwice == Written("several", "", 0)

-----------------------------------------------------------------------------
\* The checks a field may carry; NoDefault when the DTO gives it no value.
NoDefault == -1
Field(check, min, max, words, default) ==
    [check |-> check, min |-> min, max |-> max, words |-> words, default |-> default]

IntIn(min, max, default) == Field("int", min, max, {}, default)
IntFrom(min) == IntIn(min, NoMaximum, NoDefault)
AnyInt == IntIn(-NoMaximum, NoMaximum, NoDefault)
Text == Field("text", 0, 0, {}, NoDefault)
List == Field("list", 0, 0, {}, NoDefault)
Date == Field("date", 0, 0, {}, NoDefault)
OneOf(words) == Field("word", 0, 0, words, NoDefault)
Checked == Field("boolean", 0, 0, {}, NoDefault)
\* Declared, hence let through, but checked by nothing.
Flag == Field("flag", 0, 0, {}, NoDefault)
Unchecked == Field("none", 0, 0, {}, NoDefault)

\* class-validator.  A name sent once is never an array, a name sent twice is one.
Accepts(field, raw) ==
    CASE field.check = "int" -> /\ raw.kind = "number"
                                /\ raw.number >= field.min
                                /\ raw.number <= field.max
      [] field.check = "word" -> raw.kind = "word" /\ raw.word \in field.words
      [] field.check = "date" -> raw.kind = "date"
      [] field.check = "list" -> raw.kind = "several"
      [] field.check \in {"text", "boolean"} -> raw.kind # "several"
      [] field.check \in {"flag", "none"} -> TRUE

\* class-transformer: a field of type boolean becomes Boolean(text), which is
\* true of every text but the empty one, "false" included.
Converted(field, raw) ==
    IF field.check \in {"boolean", "flag"} THEN WrittenWord("true") ELSE raw

-----------------------------------------------------------------------------
\* The fields of one DTO, and of the DTO it extends.
Page == IntIn(1, NoMaximum, 1)
Limit == IntIn(1, 100, 20)
Offset == IntIn(0, NoMaximum, 0)
Cursor == IntFrom(1)
SortOrder == OneOf({"ASC", "DESC"})

PaginationDto == [page |-> Page, limit |-> Limit, cursor |-> Cursor]
OffsetPaginationDto == [limit |-> Limit, offset |-> Offset]

\* DateFilterDto: dates and their parts.
DatePartFields ==
    [date_from |-> Date, date_to |-> Date, date_exact |-> Date,
     year |-> IntIn(2020, 2030, NoDefault), month |-> IntIn(1, 12, NoDefault),
     day |-> IntIn(1, 31, NoDefault), day_of_week |-> IntIn(0, 6, NoDefault),
     hour |-> IntIn(0, 23, NoDefault), minute |-> IntIn(0, 59, NoDefault),
     second |-> IntIn(0, 59, NoDefault)]

\* DateFilterDto: times, distances from now, and how to read and show a date.
DateFormatFields ==
    [time_from |-> Text, time_to |-> Text, relative_value |-> IntFrom(1),
     relative_unit |->
         OneOf({"minutes", "hours", "days", "weeks", "months", "years"}),
     date_range_type |-> OneOf({"exact", "range", "relative"}),
     date_pattern |-> Text, date_format |-> Text, timezone |-> Text,
     business_days_only |-> Flag]

\* DateFilterDto: lists of parts, seasons, fiscal years, ranges.
DateListFields ==
    [weekdays |-> Text, months |-> Text, quarters |-> Text, years |-> Text,
     granularity |-> Text, aggregation |-> Text, season |-> Text, fiscal_year |-> AnyInt,
     fiscal_quarter |-> IntIn(1, 4, NoDefault), leap_years_only |-> Flag,
     custom_ranges |-> Text, interval |-> Text, date_offset |-> Text,
     valid_dates_only |-> Flag]

DateFilterDto == DatePartFields ++ DateFormatFields ++ DateListFields

TransactionListDto ==
    [page |-> Page, limit |-> Limit, address |-> Text, message_type |-> Text,
     success |-> Flag, cursor |-> Cursor]

GasFilters ==
    [success |-> Checked, min_height |-> IntFrom(1), max_height |-> IntFrom(1),
     min_gas_used |-> IntFrom(0), max_gas_used |-> IntFrom(0),
     min_gas_wanted |-> IntFrom(0), max_gas_wanted |-> IntFrom(0)]

TransactionSortFields == {"height", "timestamp", "gas_used", "gas_wanted", "fee"}

TransactionFilterDto ==
    GasFilters ++
    [min_fee_amount |-> Text, max_fee_amount |-> Text, fee_denom |-> Text, memo |-> Text,
     signer |-> Text, message_types |-> List, addresses |-> List, validator |-> Text,
     date_from |-> Date, date_to |-> Date, limit |-> Limit, offset |-> Offset,
     cursor |-> Cursor, sort_by |-> OneOf(TransactionSortFields), sort_order |-> SortOrder]

TransactionSearchDto == [q |-> Text, limit |-> Limit, offset |-> Offset]
TransactionCountsQueryDto == [period |-> OneOf({"24h", "7d"})]

\* AddressTransactionFilterDto: what to select.
AddressTransactionFilters ==
    GasFilters ++
    [min_fee_amount |-> Text, max_fee_amount |-> Text, fee_denom |-> Text, memo |-> Text,
     message_types |-> List, modules |-> List, direction |-> Text, min_amount |-> Text,
     max_amount |-> Text, denom |-> Text, date_from |-> Date, date_to |-> Date,
     search |-> Text]

\* AddressTransactionFilterDto: which page of it, and what to show.
AddressTransactionPage ==
    [limit |-> Limit, offset |-> Offset, cursor |-> Cursor,
     sort_by |-> OneOf(TransactionSortFields), sort_order |-> SortOrder,
     sender_only |-> Checked, receiver_only |-> Checked, include_failed |-> Checked,
     group_by_type |-> Checked, include_messages |-> Checked, include_logs |-> Checked]

AddressTransactionFilterDto == AddressTransactionFilters ++ AddressTransactionPage

\* Mutated form of BlockListDto: it does not extend DateFilterDto.
BlockListDtoWithoutDates ==
    [page |-> Page, limit |-> IntIn(1, NoMaximum, 20), cursor |-> Cursor,
     proposer |-> Text, min_txs |-> IntFrom(0), max_txs |-> IntFrom(0)]

BlockListDto ==
    DateFilterDto ++
    [page |-> Page, limit |-> IntIn(1, NoMaximum, 20), cursor |-> Cursor,
     proposer |-> Text, min_txs |-> IntFrom(0), max_txs |-> IntFrom(0)]

MessageCategories ==
    {"bank", "staking", "governance", "distribution", "slashing", "mint", "auth", "fees",
     "upgrade", "evidence", "other"}

MessageListDto ==
    DateFilterDto ++
    [page |-> Page, limit |-> Limit, cursor |-> Cursor, type |-> Text, module |-> Text,
     category |-> OneOf(MessageCategories), address |-> Text, types |-> List,
     modules |-> List, height_from |-> IntFrom(0), height_to |-> IntFrom(0),
     denom |-> Text, amount_min |-> Text, amount_max |-> Text]

ValidatorListDto ==
    [page |-> Page, limit |-> IntIn(1, NoMaximum, 20), status |-> AnyInt,
     jailed |-> Flag, search |-> Text]

ProposalListDto ==
    DateFilterDto ++
    [page |-> Page, limit |-> Limit,
     status |-> OneOf({"PROPOSAL_STATUS_DEPOSIT_PERIOD", "PROPOSAL_STATUS_VOTING_PERIOD",
                       "PROPOSAL_STATUS_PASSED", "PROPOSAL_STATUS_REJECTED",
                       "PROPOSAL_STATUS_FAILED"}),
     proposer |-> Text, search |-> Text, ids |-> List,
     sort_by |-> OneOf({"id", "submit_time", "deposit_end_time", "voting_start_time",
                        "voting_end_time"}),
     sort_order |-> SortOrder]

ProposalVoteListDto ==
    DateFilterDto ++
    [page |-> Page, limit |-> Limit, proposal_id |-> AnyInt, voter |-> Text,
     option |-> OneOf({"VOTE_OPTION_YES", "VOTE_OPTION_ABSTAIN", "VOTE_OPTION_NO",
                       "VOTE_OPTION_NO_WITH_VETO"}),
     voters |-> List]

ProposalDepositListDto ==
    DateFilterDto ++
    [page |-> Page, limit |-> Limit, proposal_id |-> AnyInt, depositor |-> Text,
     depositors |-> List, amount_min |-> Text, amount_max |-> Text, denom |-> Text]

TokenListDto ==
    DateFilterDto ++
    [page |-> Page, limit |-> Limit, name |-> Text, denom |-> Text, price_id |-> Text,
     price_min |-> IntFrom(0), price_max |-> IntFrom(0), names |-> List, denoms |-> List,
     sort_by |-> Unchecked, sort_order |-> Unchecked]

TokenUnitListDto ==
    DateFilterDto ++
    [page |-> Page, limit |-> Limit, token_name |-> Text, denom |-> Text,
     price_id |-> Text, exponent_min |-> IntFrom(0), exponent_max |-> IntFrom(0),
     denoms |-> List]

TokenPriceListDto ==
    DateFilterDto ++
    [page |-> Page, limit |-> Limit, price_id |-> Text, price_min |-> IntFrom(0),
     price_max |-> IntFrom(0), price_ids |-> List]

TokenPriceHistoryListDto == TokenPriceListDto

SupplyListDto ==
    DateFilterDto ++
    [page |-> Page, limit |-> Limit, denom |-> Text, denoms |-> List, amount_min |-> Text,
     amount_max |-> Text, height_min |-> IntFrom(1), height_max |-> IntFrom(1),
     sort_by |-> Unchecked, sort_order |-> Unchecked]

\* The getters of a class, which the client cannot set but may name.
Getters(dto) ==
    CASE dto = PaginationDto -> {"offset"}
      [] dto = OffsetPaginationDto -> {"page"}
      [] OTHER -> {}

-----------------------------------------------------------------------------
\* The ValidationPipe: given maps the parameter names of the request to what was
\* written.  A getter of the class is passed over in silence, a name that is
\* neither a field nor a getter refuses the request.
Validated(dto, given) ==
    /\ DOMAIN given \subseteq DOMAIN dto \cup Getters(dto)
    /\ \A p \in DOMAIN given \cap DOMAIN dto : Accepts(dto[p], given[p])

\* What the service then sees: the fields given, and the defaults of the others.
Transformed(dto, given) ==
    [p \in {f \in DOMAIN dto : f \in DOMAIN given \/ dto[f].default # NoDefault} |->
        IF p \in DOMAIN given THEN Converted(dto[p], given[p])
        ELSE WrittenNumber(dto[p].default)]
=============================================================================
