----------------------------- MODULE ApiRoutes ------------------------------
(***************************************************************************)
(* The handlers of the API: for each, its path, the service method that    *)
(* answers, the DTO of its query string, the parameters its documentation  *)
(* adds to those of the DTO, the places of its path where it takes only an *)
(* integer, the status an error or a null becomes, and the time its        *)
(* answers are cached for.                                                 *)
(*                                                                         *)
(* A segment of a path is a word, or "*" for a path parameter.  A          *)
(* controller lists its handlers in the order of the source, which is the  *)
(* order in which they are tried.                                          *)
(***************************************************************************)
EXTENDS ApiParameters, SequencesExt

\* A handler without a query string, whose errors become 500.
Get(path, service) ==
    [path |-> path, service |-> service, checked |-> FALSE, dto |-> << >>,
     documented |-> {}, required |-> {}, integers |-> {}, onError |-> 500,
     onNull |-> 200, cached |-> 0]

\* A handler with a query string.
GetWith(path, service, dto, documented) ==
    [Get(path, service) EXCEPT !.checked = TRUE, !.dto = dto,
                               !.documented = documented]

\* The handler catches every error and answers 404, or answers 404 to a null.
NotFoundOnError(handler) == [handler EXCEPT !.onError = 404]
NotFoundWhenNull(handler) == [handler EXCEPT !.onNull = 404]

\* The handler refuses a request without the parameter.
Requiring(parameter, handler) == [handler EXCEPT !.required = {parameter}]

\* The DTO of the path wants an integer in a place of it; the DTOs of the other
\* handlers want a word that is not empty, which the router sees to.
IntegerAt(place, handler) == [handler EXCEPT !.integers = {place}]

\* CacheInterceptor and CacheTTL.
CachedFor(ttl, handler) == [handler EXCEPT !.cached = ttl]

\* The date parameters that two families of lists document.
DocumentedDates ==
    {"date_from", "date_to", "date_exact", "year", "month", "day", "day_of_week", "hour",
     "minute", "second", "time_from", "time_to", "relative_value", "relative_unit",
     "business_days_only", "weekdays", "months", "years", "quarters", "season",
     "fiscal_year", "fiscal_quarter", "leap_years_only", "custom_ranges", "date_offset",
     "valid_dates_only"}

DocumentedDatesAndRanges ==
    {"date_from", "date_to", "date_exact", "year", "month", "day", "day_of_week", "hour",
     "minute", "second", "time_from", "time_to", "relative_value", "relative_unit",
     "date_range_type", "date_pattern", "date_format", "timezone", "weekday_only",
     "weekend_only", "business_days_only", "quarter", "season", "fiscal_year",
     "fiscal_quarter", "leap_years_only", "date_range_start", "date_range_end",
     "date_range_label"}

-----------------------------------------------------------------------------
\* modules/transaction/transaction.controller.ts
GetTransactionCounts ==
    CachedFor(60, GetWith(<<"transaction", "counts">>, "getTransactionCountsRecent",
        TransactionCountsQueryDto, {"period"}))
GetTransaction ==
    NotFoundOnError(Get(<<"transaction", "*">>, "getTransactionByHash"))
GetTransactions ==
    CachedFor(120, GetWith(<<"transaction">>, "getTransactions", TransactionListDto,
        {"page", "limit", "cursor", "address", "message_type", "success"}))
GetTransactionMessages ==
    NotFoundOnError(Get(<<"transaction", "*", "messages">>,
        "getTransactionMessages"))
GetTransactionStatistics ==
    NotFoundOnError(Get(<<"transaction", "*", "statistics">>,
        "getTransactionStatistics"))
GetTransactionsAdvanced ==
    CachedFor(120, GetWith(<<"transaction", "advanced", "filter">>,
        "getTransactionsAdvanced", TransactionFilterDto, {}))
SearchTransactions ==
    CachedFor(120, GetWith(<<"transaction", "search">>, "searchTransactions",
        TransactionSearchDto, {}))
GetTransactionsByMessageType ==
    GetWith(<<"transaction", "message-type", "*">>, "getTransactionsByMessageType",
        OffsetPaginationDto, {"limit", "offset"})
GetTransactionsByValidator ==
    GetWith(<<"transaction", "validator", "*">>, "getTransactionsByValidator",
        OffsetPaginationDto, {"limit", "offset"})
GetTransactionsByBlockRange ==
    GetWith(<<"transaction", "block-range", "*", "*">>,
        "getTransactionsByBlockRange", OffsetPaginationDto, {"limit", "offset"})
GetGlobalTransactionStatistics ==
    CachedFor(60, Get(<<"transaction", "statistics", "global">>,
        "getGlobalTransactionStatistics"))
GetTransactionAnalytics ==
    CachedFor(120, Get(<<"transaction", "analytics">>, "getTransactionAnalytics"))

TransactionController == <<GetTransactionCounts, GetTransaction, GetTransactions,
      GetTransactionMessages, GetTransactionStatistics, GetTransactionsAdvanced,
      SearchTransactions, GetTransactionsByMessageType,
      GetTransactionsByValidator, GetTransactionsByBlockRange,
      GetGlobalTransactionStatistics, GetTransactionAnalytics>>
-----------------------------------------------------------------------------
\* modules/address/address.controller.ts
GetAddressInfo == NotFoundOnError(Get(<<"address", "*">>, "getAddressInfo"))
GetAddressTransactions ==
    CachedFor(120, NotFoundOnError(GetWith(<<"address", "*", "transactions">>,
        "getAddressTransactions", PaginationDto, {"page", "limit", "cursor"})))
GetAddressBalance ==
    NotFoundOnError(Get(<<"address", "*", "balance">>, "getAddressInfo"))
GetAddressVesting ==
    NotFoundOnError(Get(<<"address", "*", "vesting">>, "getAddressInfo"))
GetAddressGovernance ==
    NotFoundOnError(Get(<<"address", "*", "governance">>, "getAddressInfo"))
GetAddressTransactionsAdvanced ==
    CachedFor(120, NotFoundOnError(GetWith(<<"address", "*", "transactions",
        "advanced">>, "getAddressTransactionsAdvanced", AddressTransactionFilterDto,
        {"success", "min_height", "max_height", "min_gas_used", "max_gas_used",
        "min_gas_wanted", "max_gas_wanted", "memo", "message_types", "modules",
        "direction", "min_amount", "max_amount", "denom", "date_from", "date_to",
        "search", "sender_only", "receiver_only", "include_failed",
        "include_messages", "include_logs", "sort_by", "sort_order", "limit",
        "offset", "cursor"})))
GetAddressTransactionStatistics ==
    CachedFor(120, NotFoundOnError(Get(<<"address", "*", "transactions",
        "statistics">>, "getAddressTransactionStatistics")))

AddressController == <<GetAddressInfo, GetAddressTransactions, GetAddressBalance,
      GetAddressVesting, GetAddressGovernance, GetAddressTransactionsAdvanced,
      GetAddressTransactionStatistics>>
-----------------------------------------------------------------------------
\* modules/message/message.controller.ts
GetMessages ==
    CachedFor(120, GetWith(<<"message">>, "getMessages", MessageListDto, {"page",
        "limit", "type", "module", "category", "address", "types", "modules",
        "height_from", "height_to", "denom", "amount_min", "amount_max"} \cup
        DocumentedDates))
GetMessageTypes == Get(<<"message", "types">>, "getMessageTypes")
GetMessageTypeInfo ==
    NotFoundWhenNull(Get(<<"message", "types", "*">>, "getMessageTypeInfo"))
GetMessageStatistics ==
    CachedFor(120, Get(<<"message", "statistics">>, "getMessageStatistics"))
GetMessagesByAddress ==
    CachedFor(120, GetWith(<<"message", "address", "*">>, "getMessagesByAddress",
        PaginationDto, {"page", "limit"}))
GetMessagesByType ==
    CachedFor(120, GetWith(<<"message", "type", "*">>, "getMessagesByType",
        PaginationDto, {"page", "limit"}))
SearchMessages ==
    Requiring("q", CachedFor(120, GetWith(<<"message", "search">>, "searchMessages",
        PaginationDto, {"q", "page", "limit"})))
GetMessageModules == Get(<<"message", "modules">>, "getMessageTypes")
GetMessageCategories == Get(<<"message", "categories">>, "getMessageTypes")

MessageController == <<GetMessages, GetMessageTypes, GetMessageTypeInfo,
      GetMessageStatistics, GetMessagesByAddress, GetMessagesByType,
      SearchMessages, GetMessageModules, GetMessageCategories>>
-----------------------------------------------------------------------------
\* modules/block/block.controller.ts
GetBlockByHeight ==
    NotFoundOnError(Get(<<"block", "height", "*">>, "getBlockByHeight"))
GetBlockByHash == NotFoundOnError(Get(<<"block", "hash", "*">>, "getBlockByHash"))
GetBlocks ==
    CachedFor(120, GetWith(<<"block">>, "getBlocks", BlockListDto, {"page", "limit",
        "cursor", "proposer", "min_txs", "max_txs"} \cup DocumentedDates))

BlockController == <<GetBlockByHeight, GetBlockByHash, GetBlocks>>
-----------------------------------------------------------------------------
\* modules/supply/supply.controller.ts
GetSupply ==
    GetWith(<<"supply">>, "getSupply", SupplyListDto, {"page", "limit", "denom",
        "denoms", "amount_min", "amount_max", "height_min", "height_max", "sort_by",
        "sort_order"} \cup DocumentedDatesAndRanges)
GetLatestSupply == Get(<<"supply", "latest">>, "getLatestSupply")
GetSupplyByDenom == Get(<<"supply", "denom", "*">>, "getSupplyByDenom")
GetSupplyStatistics == Get(<<"supply", "statistics">>, "getSupplyStatistics")

SupplyController == <<GetSupply, GetLatestSupply, GetSupplyByDenom,
      GetSupplyStatistics>>
-----------------------------------------------------------------------------
\* modules/genesis/genesis.controller.ts
GetGenesis == NotFoundWhenNull(Get(<<"genesis">>, "getGenesis"))
GetGenesisByHeight ==
    NotFoundWhenNull(Get(<<"genesis", "height", "*">>, "getGenesisByHeight"))

GenesisController == <<GetGenesis, GetGenesisByHeight>>
-----------------------------------------------------------------------------
\* modules/validator/validator.controller.ts
GetValidator == NotFoundOnError(Get(<<"validator", "*">>, "getValidatorByAddress"))
GetValidators ==
    CachedFor(120, GetWith(<<"validator">>, "getValidators", ValidatorListDto,
        {"page", "limit", "status", "jailed", "search"}))
GetValidatorDescription ==
    NotFoundOnError(Get(<<"validator", "*", "description">>,
        "getValidatorByAddress"))
GetValidatorCommission ==
    NotFoundOnError(Get(<<"validator", "*", "commission">>,
        "getValidatorByAddress"))
GetValidatorVotingPower ==
    NotFoundOnError(Get(<<"validator", "*", "voting-power">>,
        "getValidatorByAddress"))
GetValidatorStatus ==
    NotFoundOnError(Get(<<"validator", "*", "status">>, "getValidatorByAddress"))
GetValidatorStatistics ==
    NotFoundOnError(Get(<<"validator", "*", "statistics">>,
        "getValidatorByAddress"))
GetValidatorActivity ==
    NotFoundOnError(Get(<<"validator", "*", "activity">>, "getValidatorByAddress"))

ValidatorController == <<GetValidator, GetValidators, GetValidatorDescription,
      GetValidatorCommission, GetValidatorVotingPower, GetValidatorStatus,
      GetValidatorStatistics, GetValidatorActivity>>
-----------------------------------------------------------------------------
\* modules/staking/staking.controller.ts
GetStakingPool == Get(<<"staking", "pool">>, "getStakingPool")
GetStakingParams == Get(<<"staking", "params">>, "getStakingParams")
GetDelegationsByAddress ==
    GetWith(<<"staking", "delegations", "address", "*">>, "getDelegationsByAddress",
        PaginationDto, {"limit", "offset"})
GetDelegationsByValidator ==
    GetWith(<<"staking", "delegations", "validator", "*">>,
        "getDelegationsByValidator", PaginationDto, {"limit", "offset"})
GetUndelegationsByAddress ==
    GetWith(<<"staking", "undelegations", "address", "*">>,
        "getUndelegationsByAddress", PaginationDto, {"limit", "offset"})
GetUndelegationsByValidator ==
    GetWith(<<"staking", "undelegations", "validator", "*">>,
        "getUndelegationsByValidator", PaginationDto, {"limit", "offset"})
GetRedelegationsByAddress ==
    GetWith(<<"staking", "redelegations", "address", "*">>,
        "getRedelegationsByAddress", PaginationDto, {"limit", "offset"})
GetWithdrawalsByAddress ==
    GetWith(<<"staking", "withdrawals", "address", "*">>, "getWithdrawalsByAddress",
        PaginationDto, {"limit", "offset"})
GetWithdrawalsByValidator ==
    GetWith(<<"staking", "withdrawals", "validator", "*">>,
        "getWithdrawalsByValidator", PaginationDto, {"limit", "offset"})
GetValidatorSigningInfo ==
    Get(<<"staking", "validator", "*", "signing-info">>, "getValidatorSigningInfo")
GetAllValidatorSigningInfo ==
    Get(<<"staking", "validators", "signing-info">>, "getAllValidatorSigningInfo")
GetCommunityPool == Get(<<"staking", "community-pool">>, "getCommunityPool")
GetDistributionParams ==
    Get(<<"staking", "distribution-params">>, "getDistributionParams")
GetSlashingParams == Get(<<"staking", "slashing-params">>, "getSlashingParams")
GetMintParams == Get(<<"staking", "mint-params">>, "getMintParams")
GetInflation == Get(<<"staking", "inflation">>, "getInflation")
GetGovParams == Get(<<"staking", "gov-params">>, "getGovParams")
GetStakingStatistics == Get(<<"staking", "statistics">>, "getStakingStatistics")

StakingController == <<GetStakingPool, GetStakingParams, GetDelegationsByAddress,
      GetDelegationsByValidator, GetUndelegationsByAddress,
      GetUndelegationsByValidator, GetRedelegationsByAddress,
      GetWithdrawalsByAddress, GetWithdrawalsByValidator, GetValidatorSigningInfo,
      GetAllValidatorSigningInfo, GetCommunityPool, GetDistributionParams,
      GetSlashingParams, GetMintParams, GetInflation, GetGovParams,
      GetStakingStatistics>>
-----------------------------------------------------------------------------
\* modules/governance/governance.controller.ts
GetProposals ==
    GetWith(<<"governance", "proposals">>, "getProposals", ProposalListDto, {"page",
        "limit", "status", "proposer", "search", "ids", "sort_by", "sort_order"}
        \cup DocumentedDatesAndRanges)
GetProposalById ==
    IntegerAt(3, NotFoundWhenNull(Get(<<"governance", "proposals", "*">>,
        "getProposalById")))
GetProposalVotes ==
    GetWith(<<"governance", "votes">>, "getProposalVotes", ProposalVoteListDto,
        {"page", "limit", "proposal_id", "voter", "option", "voters", "date_from",
        "date_to"})
GetProposalDeposits ==
    GetWith(<<"governance", "deposits">>, "getProposalDeposits",
        ProposalDepositListDto, {"page", "limit", "proposal_id", "depositor",
        "depositors", "amount_min", "amount_max", "denom", "date_from", "date_to"})
GetGovernanceStatistics ==
    Get(<<"governance", "statistics">>, "getGovernanceStatistics")

GovernanceController == <<GetProposals, GetProposalById, GetProposalVotes,
      GetProposalDeposits, GetGovernanceStatistics>>
-----------------------------------------------------------------------------
\* modules/token/token.controller.ts
GetTokens ==
    GetWith(<<"token">>, "getTokens", TokenListDto, {"page", "limit", "name",
        "names", "sort_by", "sort_order"} \cup DocumentedDatesAndRanges)
GetTokenByName == NotFoundWhenNull(Get(<<"token", "*">>, "getTokenByName"))
GetTokenUnits ==
    GetWith(<<"token", "units">>, "getTokenUnits", TokenUnitListDto, {"page",
        "limit", "token_name", "denom", "price_id", "denoms", "exponent_min",
        "exponent_max", "date_from", "date_to"})
GetTokenPrices ==
    GetWith(<<"token", "prices">>, "getTokenPrices", TokenPriceListDto, {"page",
        "limit", "price_id", "price_ids", "price_min", "price_max", "date_from",
        "date_to"})
GetTokenPriceHistory ==
    GetWith(<<"token", "prices", "history">>, "getTokenPriceHistory",
        TokenPriceHistoryListDto, {"page", "limit", "price_id", "price_ids",
        "price_min", "price_max", "interval", "date_from", "date_to"})
GetTokenStatistics == Get(<<"token", "statistics">>, "getTokenStatistics")

TokenController == <<GetTokens, GetTokenByName, GetTokenUnits, GetTokenPrices,
      GetTokenPriceHistory, GetTokenStatistics>>

-----------------------------------------------------------------------------
\* The handlers of the controllers, in the order of the modules of the application;
\* no two controllers serve the same first word.
Handlers ==
    AddressController \o TransactionController \o ValidatorController \o
    BlockController \o MessageController \o StakingController \o
    GovernanceController \o TokenController \o SupplyController \o GenesisController

\* A route matches when every segment is the same word or a path parameter.
Matches(path, handler) ==
    /\ Len(path) = Len(handler.path)
    /\ \A i \in DOMAIN path : handler.path[i] \in {"*", path[i]}

\* Mutated form of Dispatched: the last handler that matches.
DispatchedToLast(path) ==
    SelectLastInSeq(Handlers, LAMBDA handler : Matches(path, handler))

\* Express: the position of the first handler that matches, 0 when none does.
Dispatched(path) ==
    SelectInSeq(Handlers, LAMBDA handler : Matches(path, handler))
=============================================================================
