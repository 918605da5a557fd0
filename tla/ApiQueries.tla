----------------------------- MODULE ApiQueries -----------------------------
(***************************************************************************)
(* What the methods of the services ask of the database.  A method is the  *)
(* queries it runs one after the other and what it does when the first of  *)
(* them finds nothing.  A query is an entity, the relations it joins, the  *)
(* columns it names whatever the request says, those it names for each     *)
(* parameter of the request, and the page it reads.                        *)
(*                                                                         *)
(* The methods have the names of the source.                               *)
(***************************************************************************)
EXTENDS ApiSchema, ApiParameters, SequencesExt

\* leftJoin of a relation of an alias already known, under a new alias.
Join(of, relation, as) == [of |-> of, relation |-> relation, as |-> as]

\* Which rows are read: all, the first few, or a page of them.
Paging(by, clamped, most) == [by |-> by, clamped |-> clamped, most |-> most]
Everything == Paging("nothing", FALSE, 0)
First(n) == Paging("nothing", TRUE, n)
\* page and limit, as they come.
ByPageAsGiven == Paging("page", FALSE, 0)
\* Math.min(Math.max(limit, 1), 100), or the normalize functions of pagination.util.
ByPage == Paging("page", TRUE, 100)
ByOffset == Paging("offset", TRUE, 100)
ByCursor == Paging("cursor", TRUE, 100)
ByCursorOrOffset == Paging("either", TRUE, 100)

\* A query of an entity under an alias, with nothing else.
From(entity, alias) ==
    [entity |-> entity, as |-> alias, joins |-> << >>, exists |-> << >>,
     equals |-> {}, uses |-> {}, filters |-> << >>, dates |-> << >>, sortable |-> << >>,
     paging |-> Everything, fallback |-> FALSE]

\* The columns of one alias that each parameter compares.
Columns(alias, columns) == [p \in DOMAIN columns |-> {<<alias, columns[p]>>}]

\* findOne of an entity by one of its columns.
FindOne(entity, column) ==
    [equals |-> {<<"one", column>>}, paging |-> First(1)] ++ From(entity, "one")

Answering(queries, missing) == [queries |-> queries, missing |-> missing]
\* A method that answers without asking the database.
Placeholder == Answering(<< >>, "empty")

-----------------------------------------------------------------------------
\* EXISTS (SELECT 1 FROM message m WHERE m.transaction_hash = transaction.hash ...)
OfTransaction == {<<"m", "transaction_hash">>, <<"transaction", "hash">>}
OfPartition == {<<"m", "partition_id">>, <<"transaction", "partition_id">>}
InvolvedInTransaction ==
    OfTransaction \cup OfPartition \cup {<<"m", "involved_accounts_addresses">>}
WithMessage(column) == OfTransaction \cup {<<"m", column>>}
WithMessageOfPartition(column) == WithMessage(column) \cup OfPartition

\* The columns of a transaction that its filters compare.
GasColumns ==
    Columns("transaction",
        [success |-> "success", min_height |-> "height", max_height |-> "height",
         min_gas_used |-> "gas_used", max_gas_used |-> "gas_used",
         min_gas_wanted |-> "gas_wanted", max_gas_wanted |-> "gas_wanted",
         memo |-> "memo"])
    ++ Columns("block", [date_from |-> "timestamp", date_to |-> "timestamp"])

\* Mutated form of getSortField: the time of the block without its alias.
getSortFieldOfTransaction ==
    {<<"transaction", "height">>, <<"transaction", "timestamp">>}

\* getSortField: the columns that the values of sort_by stand for.
getSortField ==
    {<<"transaction", "height">>, <<"block", "timestamp">>, <<"transaction", "gas_used">>,
     <<"transaction", "gas_wanted">>, <<"transaction", "fee">>}
TransactionOrder == [sort_by |-> getSortField, sort_order |-> getSortField]

WithBlock == <<Join("transaction", "block", "block")>>
WithBlockAndMessages == Append(WithBlock, Join("transaction", "messages_entities", "message"))

FromTransaction ==
    [joins |-> WithBlock, exists |-> [m |-> "Message"],
     uses |-> {<<"transaction", "height">>}] ++ From("Transaction", "transaction")

MessagesOfTransaction ==
    [equals |-> {<<"message", "transaction_hash">>}, uses |-> {<<"message", "index">>}]
    ++ From("Message", "message")

preloadMessagesByHash == MessagesOfTransaction

\* The messages of a transaction whose JSON column has none.
MessagesWhenMissing == [fallback |-> TRUE] ++ MessagesOfTransaction

TransactionByHash ==
    [joins |-> <<Join("one", "block", "block")>>] ++ FindOne("Transaction", "hash")

getTransactionByHash == Answering(<<TransactionByHash, MessagesWhenMissing>>, "error")
getTransactionMessages == Answering(<<MessagesOfTransaction>>, "empty")
getTransactionStatistics ==
    Answering(<<TransactionByHash, [uses |-> {}] ++ MessagesOfTransaction>>, "error")

\* Mutated form of getTransactions: the filter by success is forgotten.
getTransactionsOfAnySuccess ==
    Answering(<<[filters |-> [address |-> InvolvedInTransaction,
                              message_type |-> WithMessageOfPartition("type")],
                 paging |-> ByCursor] ++ FromTransaction,
                preloadMessagesByHash>>, "empty")

getTransactions ==
    Answering(<<[filters |-> [address |-> InvolvedInTransaction,
                              message_type |-> WithMessageOfPartition("type"),
                              success |-> {<<"transaction", "success">>}],
                 paging |-> ByCursor] ++ FromTransaction,
                preloadMessagesByHash>>, "empty")

buildTransactionQuery ==
    [joins |-> WithBlockAndMessages,
     filters |-> GasColumns ++ TransactionOrder ++
                 [signer |-> {<<"transaction", "signer_infos">>},
                  message_types |-> WithMessage("type"),
                  addresses |-> WithMessage("involved_accounts_addresses"),
                  validator |-> WithMessage("involved_accounts_addresses")]]
    ++ FromTransaction

getTransactionsAdvanced ==
    Answering(<<[paging |-> ByCursorOrOffset] ++ buildTransactionQuery,
                preloadMessagesByHash>>, "empty")

searchTransactions ==
    Answering(<<[joins |-> WithBlockAndMessages,
                 filters |-> [q |-> {<<"transaction", "hash">>, <<"transaction", "memo">>,
                                     <<"message", "value">>}],
                 paging |-> ByOffset] ++ FromTransaction,
                preloadMessagesByHash>>, "empty")

getTransactionsByMessageType ==
    Answering(<<[joins |-> WithBlockAndMessages, uses |-> WithMessage("type"),
                 paging |-> ByOffset] ++ FromTransaction,
                preloadMessagesByHash>>, "empty")

getTransactionsByValidator ==
    Answering(<<[joins |-> WithBlockAndMessages,
                 uses |-> WithMessage("involved_accounts_addresses"),
                 paging |-> ByOffset] ++ FromTransaction,
                preloadMessagesByHash>>, "empty")

getTransactionsByBlockRange ==
    Answering(<<[paging |-> ByOffset] ++ FromTransaction, preloadMessagesByHash>>, "empty")

\* Two counts; TransactionCounts has what is kept of them.
runCountsQuery ==
    [exists |-> [block |-> "Block"], uses |-> {<<"block", "height">>, <<"block", "timestamp">>},
     filters |-> [period |-> {<<"block", "timestamp">>}], paging |-> First(1)]
    ++ From("Transaction", "transaction")
getTransactionCountsRecent == Answering(<<runCountsQuery>>, "empty")

getGlobalTransactionStatistics == Placeholder
getTransactionAnalytics == Placeholder

-----------------------------------------------------------------------------
\* address.service
getRecentTransactions ==
    [uses |-> InvolvedInTransaction \cup {<<"transaction", "height">>},
     paging |-> First(10)] ++ FromTransaction

getAddressInfo ==
    Answering(
        <<[joins |-> <<Join("one", "vestingAccounts", "vesting"),
                       Join("vesting", "vestingPeriods", "periods")>>]
            ++ FindOne("Account", "address"),
          [joins |-> <<Join("one", "vestingPeriods", "periods")>>]
            ++ FindOne("VestingAccount", "address"),
          getRecentTransactions>>, "error")

getAddressTransactions ==
    Answering(<<[uses |-> InvolvedInTransaction, paging |-> ByCursor] ++ FromTransaction>>,
              "empty")

\* The conditions of a direction; each looks at one field of the message value.
SentOrReceived == WithMessageOfPartition("value")

buildAddressTransactionQuery ==
    [exists |-> [m |-> "Message", mt |-> "MessageType"],
     uses |-> InvolvedInTransaction,
     filters |-> GasColumns ++ TransactionOrder ++
                 [message_types |-> WithMessageOfPartition("type"),
                  modules |-> WithMessageOfPartition("type")
                              \cup {<<"mt", "type">>, <<"mt", "module">>},
                  direction |-> SentOrReceived, sender_only |-> SentOrReceived,
                  receiver_only |-> SentOrReceived,
                  search |-> SentOrReceived \cup
                             {<<"transaction", "hash">>, <<"transaction", "memo">>}]]
    ++ FromTransaction

\* include_messages and include_logs select what is shown of each transaction.
getAddressTransactionsAdvanced ==
    Answering(<<[paging |-> ByCursorOrOffset] ++ buildAddressTransactionQuery,
                MessagesWhenMissing>>, "empty")

getAddressTransactionStatistics == Placeholder

-----------------------------------------------------------------------------
\* block.service
getBlockStatistics ==
    [equals |-> {<<"one", "height">>}, paging |-> First(1000)] ++ From("Transaction", "one")
getBlockTransactions ==
    [equals |-> {<<"one", "height">>}, uses |-> {<<"one", "hash">>}, paging |-> First(10)]
    ++ From("Transaction", "one")

WithProposer == [joins |-> <<Join("one", "proposer", "proposer")>>]

getBlockByHeight ==
    Answering(<<WithProposer ++ FindOne("Block", "height"), getBlockStatistics,
                getBlockTransactions>>, "error")
getBlockByHash ==
    Answering(<<WithProposer ++ FindOne("Block", "hash"), getBlockStatistics,
                getBlockTransactions>>, "error")

getBlocks ==
    Answering(<<[uses |-> {<<"block", "height">>},
                 filters |-> Columns("block", [proposer |-> "proposer_address",
                                               min_txs |-> "num_txs", max_txs |-> "num_txs"]),
                 dates |-> <<"block", "timestamp">>, paging |-> ByCursor]
                ++ From("Block", "block")>>, "empty")

-----------------------------------------------------------------------------
\* validator.service: the validator, then five tables at once, then its blocks.
getRecentActivity ==
    [uses |-> {<<"one", "proposer_address">>, <<"one", "height">>}, paging |-> First(10)]
    ++ From("Block", "one")

getValidatorByAddress ==
    Answering(<<FindOne("Validator", "consensus_address"),
                FindOne("ValidatorInfo", "consensus_address"),
                FindOne("ValidatorDescription", "validator_address"),
                FindOne("ValidatorCommission", "validator_address"),
                FindOne("ValidatorVotingPower", "validator_address"),
                FindOne("ValidatorStatus", "validator_address"),
                getRecentActivity>>, "error")

getValidators ==
    Answering(
        <<[joins |-> <<Join("validator", "info", "info"),
                       Join("validator", "description", "description"),
                       Join("validator", "commission", "commission"),
                       Join("validator", "votingPower", "votingPower"),
                       Join("validator", "status", "status")>>,
           uses |-> {<<"votingPower", "voting_power">>},
           filters |-> Columns("status", [status |-> "status", jailed |-> "jailed"]) ++
                       [search |-> {<<"description", "moniker">>,
                                    <<"info", "operator_address">>,
                                    <<"validator", "consensus_address">>}],
           paging |-> ByPage] ++ From("Validator", "validator")>>, "empty")

-----------------------------------------------------------------------------
\* message.service
FromMessage ==
    [uses |-> {<<"message", "height">>}, paging |-> ByCursor] ++ From("Message", "message")

getMessages ==
    Answering(<<[filters |-> Columns("message",
                    [type |-> "type", types |-> "type", module |-> "type",
                     modules |-> "type", category |-> "type",
                     address |-> "involved_accounts_addresses", height_from |-> "height",
                     height_to |-> "height", denom |-> "value"]),
                 dates |-> <<"message", "timestamp">>] ++ FromMessage>>, "empty")

MessagesWith(columns) ==
    Answering(<<[uses |-> {<<"message", "height">>} \cup {<<"message", c>> : c \in columns}]
                ++ FromMessage>>, "empty")

getMessagesByAddress == MessagesWith({"involved_accounts_addresses"})
getMessagesByType == MessagesWith({"type"})
searchMessages == MessagesWith({"value", "type", "involved_accounts_addresses"})

\* Answered from the table of the message parser.
getMessageTypes == Placeholder
getMessageTypeInfo == Answering(<< >>, "null")
getMessageStatistics == Placeholder

-----------------------------------------------------------------------------
\* staking.service: the messages of one type that involve an address.  The offset
\* is that of PaginationDto, which comes from page.
StakingMessages ==
    Answering(<<[joins |-> <<Join("message", "transaction", "transaction"),
                             Join("transaction", "block", "block")>>,
                 uses |-> {<<"message", "type">>, <<"message", "height">>,
                           <<"message", "involved_accounts_addresses">>},
                 paging |-> ByPage] ++ From("Message", "message")>>, "empty")

getDelegationsByAddress == StakingMessages
getDelegationsByValidator == StakingMessages
getUndelegationsByAddress == StakingMessages
getUndelegationsByValidator == StakingMessages
getRedelegationsByAddress == StakingMessages
getWithdrawalsByAddress == StakingMessages
getWithdrawalsByValidator == StakingMessages

\* The row of a single-row table, an error when there is none.
OneRowOf(entity) ==
    Answering(<<[uses |-> {<<"one", "height">>}] ++ FindOne(entity, "one_row_id")>>, "error")

getStakingPool == OneRowOf("StakingPool")
getStakingParams == OneRowOf("StakingParams")
getCommunityPool == OneRowOf("CommunityPool")
getDistributionParams == OneRowOf("DistributionParams")
getSlashingParams == OneRowOf("SlashingParams")
getMintParams == OneRowOf("MintParams")
getInflation == OneRowOf("Inflation")
getGovParams == OneRowOf("GovParams")

getValidatorSigningInfo ==
    Answering(<<FindOne("ValidatorSigningInfo", "validator_address")>>, "error")
getAllValidatorSigningInfo ==
    Answering(<<[uses |-> {<<"one", "height">>}, paging |-> First(100)]
                ++ From("ValidatorSigningInfo", "one")>>, "empty")

getStakingStatistics == Placeholder

-----------------------------------------------------------------------------
\* governance.service
FromProposal ==
    [joins |-> <<Join("proposal", "proposer", "proposer"),
                 Join("proposal", "tally_result", "tally_result"),
                 Join("proposal", "deposits", "deposits"),
                 Join("proposal", "votes", "votes")>>] ++ From("Proposal", "proposal")

getProposals ==
    Answering(<<[filters |-> Columns("proposal",
                    [status |-> "status", proposer |-> "proposer_address", ids |-> "id"])
                    ++ [search |-> {<<"proposal", "title">>, <<"proposal", "description">>}],
                 dates |-> <<"proposal", "submit_time">>, sortable |-> <<"proposal", "submit_time">>,
                 paging |-> ByPageAsGiven] ++ FromProposal>>, "empty")

getProposalById ==
    Answering(<<[equals |-> {<<"proposal", "id">>}, paging |-> First(1)] ++ FromProposal>>,
              "null")

getProposalVotes ==
    Answering(<<[joins |-> <<Join("vote", "proposal", "proposal"),
                             Join("vote", "voter", "voter")>>,
                 uses |-> {<<"vote", "submit_time">>},
                 filters |-> Columns("vote",
                    [proposal_id |-> "proposal_id", voter |-> "voter_address",
                     voters |-> "voter_address", option |-> "option"]),
                 dates |-> <<"vote", "submit_time">>, paging |-> ByPageAsGiven]
                ++ From("ProposalVote", "vote")>>, "empty")

getProposalDeposits ==
    Answering(<<[joins |-> <<Join("deposit", "proposal", "proposal"),
                             Join("deposit", "depositor", "depositor")>>,
                 uses |-> {<<"deposit", "submit_time">>},
                 filters |-> Columns("deposit",
                    [proposal_id |-> "proposal_id", depositor |-> "depositor_address",
                     depositors |-> "depositor_address", denom |-> "amount"]),
                 dates |-> <<"deposit", "submit_time">>, paging |-> ByPageAsGiven]
                ++ From("ProposalDeposit", "deposit")>>, "empty")

getGovernanceStatistics == Placeholder

-----------------------------------------------------------------------------
\* token.service
WithUnits == <<Join("token", "units", "units"), Join("units", "token", "unitToken")>>

\* processTokenResponse, run for every token of an answer.
PriceOfToken ==
    [joins |-> <<Join("price", "tokenUnit", "tokenUnit")>>,
     uses |-> {<<"tokenUnit", "token_name">>, <<"price", "last_updated">>},
     paging |-> First(1)] ++ From("TokenPrice", "price")

getTokens ==
    Answering(<<[joins |-> WithUnits,
                 filters |-> Columns("token", [name |-> "name", names |-> "name"]),
                 dates |-> <<"token", "height">>, sortable |-> <<"token", "name">>,
                 paging |-> ByPageAsGiven] ++ From("Token", "token"),
                PriceOfToken>>, "empty")

getTokenByName ==
    Answering(<<[joins |-> WithUnits, equals |-> {<<"token", "name">>}, paging |-> First(1)]
                ++ From("Token", "token"),
                PriceOfToken>>, "null")

getTokenUnits ==
    Answering(<<[joins |-> <<Join("unit", "token", "token")>>,
                 uses |-> {<<"unit", "denom">>},
                 filters |-> Columns("unit",
                    [token_name |-> "token_name", denom |-> "denom", price_id |-> "price_id",
                     denoms |-> "denom", exponent_min |-> "exponent",
                     exponent_max |-> "exponent"]),
                 dates |-> <<"unit", "token_name">>, paging |-> ByPageAsGiven]
                ++ From("TokenUnit", "unit")>>, "empty")

\* The filters of prices and of their history, under the alias of each.
PriceFilters(alias) ==
    Columns(alias, [price_id |-> "price_id", price_ids |-> "price_id",
                    price_min |-> "price", price_max |-> "price"])

getTokenPrices ==
    Answering(<<[joins |-> <<Join("price", "tokenUnit", "tokenUnit")>>,
                 uses |-> {<<"price", "last_updated">>}, filters |-> PriceFilters("price"),
                 dates |-> <<"price", "last_updated">>, paging |-> ByPageAsGiven]
                ++ From("TokenPrice", "price")>>, "empty")

getTokenPriceHistory ==
    Answering(<<[joins |-> <<Join("history", "tokenUnit", "tokenUnit")>>,
                 uses |-> {<<"history", "timestamp">>}, filters |-> PriceFilters("history"),
                 dates |-> <<"history", "timestamp">>, paging |-> ByPageAsGiven]
                ++ From("TokenPriceHistory", "history")>>, "empty")

getTokenStatistics == Placeholder

-----------------------------------------------------------------------------
\* supply.service and genesis.service
FromSupply == [joins |-> <<Join("supply", "block", "block")>>] ++ From("Supply", "supply")

getSupply ==
    Answering(<<[filters |-> Columns("supply",
                    [denom |-> "denom", denoms |-> "denom", amount_min |-> "amount",
                     amount_max |-> "amount", height_min |-> "height",
                     height_max |-> "height"]),
                 dates |-> <<"block", "timestamp">>, sortable |-> <<"supply", "denom">>,
                 paging |-> ByPageAsGiven] ++ FromSupply>>, "empty")

getLatestSupply ==
    Answering(<<[uses |-> {<<"block", "height">>}, paging |-> First(1)]
                ++ From("Block", "block"),
                [equals |-> {<<"supply", "height">>}, uses |-> {<<"supply", "denom">>}]
                ++ FromSupply>>, "empty")

getSupplyByDenom ==
    Answering(<<[equals |-> {<<"supply", "denom">>}, uses |-> {<<"supply", "height">>}]
                ++ FromSupply>>, "empty")

getSupplyStatistics == Placeholder

getGenesis ==
    Answering(<<[uses |-> {<<"genesis", "height">>}, paging |-> First(1)]
                ++ From("Genesis", "genesis")>>, "null")
getGenesisByHeight ==
    Answering(<<[equals |-> {<<"genesis", "height">>}, paging |-> First(1)]
                ++ From("Genesis", "genesis")>>, "null")

\* The methods by name, as the handlers refer to them.
Methods ==
    [getTransactionCountsRecent |-> getTransactionCountsRecent,
     getTransactionByHash |-> getTransactionByHash,
     getTransactions |-> getTransactions,
     getTransactionMessages |-> getTransactionMessages,
     getTransactionStatistics |-> getTransactionStatistics,
     getTransactionsAdvanced |-> getTransactionsAdvanced,
     searchTransactions |-> searchTransactions,
     getTransactionsByMessageType |-> getTransactionsByMessageType,
     getTransactionsByValidator |-> getTransactionsByValidator,
     getTransactionsByBlockRange |-> getTransactionsByBlockRange,
     getGlobalTransactionStatistics |-> getGlobalTransactionStatistics,
     getTransactionAnalytics |-> getTransactionAnalytics,
     getAddressInfo |-> getAddressInfo,
     getAddressTransactions |-> getAddressTransactions,
     getAddressTransactionsAdvanced |-> getAddressTransactionsAdvanced,
     getAddressTransactionStatistics |-> getAddressTransactionStatistics,
     getMessages |-> getMessages, getMessageTypes |-> getMessageTypes,
     getMessageTypeInfo |-> getMessageTypeInfo,
     getMessageStatistics |-> getMessageStatistics,
     getMessagesByAddress |-> getMessagesByAddress,
     getMessagesByType |-> getMessagesByType, searchMessages |-> searchMessages,
     getBlockByHeight |-> getBlockByHeight, getBlockByHash |-> getBlockByHash,
     getBlocks |-> getBlocks, getSupply |-> getSupply,
     getLatestSupply |-> getLatestSupply, getSupplyByDenom |-> getSupplyByDenom,
     getSupplyStatistics |-> getSupplyStatistics, getGenesis |-> getGenesis,
     getGenesisByHeight |-> getGenesisByHeight,
     getValidatorByAddress |-> getValidatorByAddress, getValidators |-> getValidators,
     getStakingPool |-> getStakingPool, getStakingParams |-> getStakingParams,
     getDelegationsByAddress |-> getDelegationsByAddress,
     getDelegationsByValidator |-> getDelegationsByValidator,
     getUndelegationsByAddress |-> getUndelegationsByAddress,
     getUndelegationsByValidator |-> getUndelegationsByValidator,
     getRedelegationsByAddress |-> getRedelegationsByAddress,
     getWithdrawalsByAddress |-> getWithdrawalsByAddress,
     getWithdrawalsByValidator |-> getWithdrawalsByValidator,
     getValidatorSigningInfo |-> getValidatorSigningInfo,
     getAllValidatorSigningInfo |-> getAllValidatorSigningInfo,
     getCommunityPool |-> getCommunityPool,
     getDistributionParams |-> getDistributionParams,
     getSlashingParams |-> getSlashingParams, getMintParams |-> getMintParams,
     getInflation |-> getInflation, getGovParams |-> getGovParams,
     getStakingStatistics |-> getStakingStatistics, getProposals |-> getProposals,
     getProposalById |-> getProposalById, getProposalVotes |-> getProposalVotes,
     getProposalDeposits |-> getProposalDeposits,
     getGovernanceStatistics |-> getGovernanceStatistics, getTokens |-> getTokens,
     getTokenByName |-> getTokenByName, getTokenUnits |-> getTokenUnits,
     getTokenPrices |-> getTokenPrices, getTokenPriceHistory |-> getTokenPriceHistory,
     getTokenStatistics |-> getTokenStatistics]

-----------------------------------------------------------------------------
\* DateFilterService.applyDateFilters: the parameters that compare the column, those
\* that extract a part of it, and those that take its TIME.
ComparedDates ==
    {"date_from", "date_to", "date_exact", "relative_value", "relative_unit",
     "fiscal_year", "custom_ranges", "date_offset", "valid_dates_only"}
ExtractedDates ==
    {"year", "month", "day", "day_of_week", "hour", "minute", "second",
     "business_days_only", "weekdays", "months", "years", "quarters", "season",
     "fiscal_quarter", "leap_years_only"}
TimesOfDay == {"time_from", "time_to"}

\* MessageParserService: the modules and the categories it lists message types of.
ParsedModules ==
    {"bank", "staking", "gov", "distribution", "slashing", "auth", "feegrant", "upgrade",
     "evidence"}
ParsedCategories ==
    {"bank", "staking", "governance", "distribution", "slashing", "auth", "fees", "upgrade",
     "evidence"}

\* Filters that select something for these words only; a list of modules is one of
\* modules that have messages.
SelectingWords ==
    [direction |-> {"sent", "received"}, module |-> ParsedModules,
     category |-> ParsedCategories]

\* Filters under if (filters.p), for which a zero is no value.
TestedForTruth ==
    {"min_gas_used", "max_gas_used", "min_gas_wanted", "max_gas_wanted", "proposal_id",
     "fiscal_year"}

\* The parameters a method heeds, for the values they have.
Heeded(params) ==
    {p \in DOMAIN params :
        /\ p \in DOMAIN SelectingWords => params[p].word \in SelectingWords[p]
        /\ p \in TestedForTruth => params[p] # WrittenNumber(0)}

\* The date conditions of a request on a query.
DateConditions(query, given) ==
    LET relative == {"relative_value", "relative_unit"} IN
    {p \in given \cap (ComparedDates \cup ExtractedDates \cup TimesOfDay) :
        query.dates # << >> /\ (p \in relative => relative \subseteq given)}

\* The aliases a query knows: its own, those of its joins, those of its subqueries.
\* A join of an unknown relation adds no alias.
Joined(known, join) ==
    IF join.of \in DOMAIN known /\ HasRelation(known[join.of], join.relation)
    THEN [as \in {join.as} |-> Related(known[join.of], join.relation)] ++ known
    ELSE known

Aliases(query) ==
    LET own == [as \in {query.as} |-> query.entity]
        known[n \in 0 .. Len(query.joins)] ==
            IF n = 0 THEN query.exists ++ own ELSE Joined(known[n - 1], query.joins[n])
    IN  known[Len(query.joins)]

\* A list with both reads from the cursor, unless it is ordered by something else.
UsesCursor(paging, params) ==
    /\ "cursor" \in DOMAIN params
    /\ \/ paging.by = "cursor"
       \/ /\ paging.by = "either"
          /\ "sort_by" \in DOMAIN params => params["sort_by"].word = "height"

\* The parameters that change what a query selects, orders or cuts.
Effective(query, params) ==
    LET given == Heeded(params) IN
    {p \in given :
        \/ p \in DOMAIN query.filters
        \/ p \in DateConditions(query, given)
        \/ p \in {"sort_by", "sort_order"} /\ query.sortable # << >>
        \/ p = "limit" /\ query.paging.by # "nothing"
        \/ p = "page" /\ query.paging.by = "page"
        \/ /\ p = "offset"
           /\ query.paging.by \in {"offset", "either"} /\ ~UsesCursor(query.paging, params)
        \/ p = "cursor" /\ UsesCursor(query.paging, params)}

\* The columns a query names for a request that gives these parameters.
Named(query, given) ==
    query.equals \cup query.uses
    \cup (UNION {query.filters[p] : p \in given \cap DOMAIN query.filters})
    \cup {query.dates : p \in DateConditions(query, given)}

\* The column of sort_by, which is not checked, or the default one.
SortColumn(query, params) ==
    IF "sort_by" \in DOMAIN params THEN <<query.sortable[1], params["sort_by"].word>>
    ELSE query.sortable

\* PostgreSQL: every relation and column exists, the column a query is ordered by
\* included, no TIME(...) is called, which is no function of it, and what EXTRACT is
\* applied to is a timestamp.
Executable(query, params) ==
    LET aliases == Aliases(query)
        given == Heeded(params)
        conditions == DateConditions(query, given)
        Has(column) == /\ column[1] \in DOMAIN aliases
                       /\ HasColumn(aliases[column[1]], column[2])
    IN  /\ \A i \in DOMAIN query.joins : query.joins[i].as \in DOMAIN aliases
        /\ \A column \in Named(query, given) : Has(column)
        /\ query.sortable # << >> => Has(SortColumn(query, params))
        /\ conditions \cap TimesOfDay = {}
        /\ conditions \cap ExtractedDates # {} =>
               IsTimestamp(aliases[query.dates[1]], query.dates[2])

\* Mutated form of LimitOf: the maximum is not applied.
LimitOfUnclamped(paging, params) ==
    IF "limit" \in DOMAIN params THEN params["limit"].number ELSE 20

\* The LIMIT of a query, 0 when it has none.
LimitOf(paging, params) ==
    LET asked == IF "limit" \in DOMAIN params THEN params["limit"].number ELSE 20
    IN  CASE paging.by = "nothing" -> paging.most
          [] paging.by # "nothing" /\ paging.clamped -> Min({Max({asked, 1}), paging.most})
          [] OTHER -> asked

\* The OFFSET of a query.
OffsetOf(paging, params) ==
    CASE paging.by = "page" /\ "page" \in DOMAIN params ->
             (params["page"].number - 1) * LimitOf(paging, params)
      [] /\ paging.by \in {"offset", "either"} /\ ~UsesCursor(paging, params)
         /\ "offset" \in DOMAIN params -> Max({params["offset"].number, 0})
      [] OTHER -> 0
=============================================================================
