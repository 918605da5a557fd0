----------------------------- MODULE ApiSchema ------------------------------
(***************************************************************************)
(* The tables of the database as the API knows them: what each TypeORM     *)
(* entity declares.  A query may name only the columns and the relations   *)
(* declared here, and the rows of an answer that agree on the key become   *)
(* one object.                                                             *)
(***************************************************************************)
EXTENDS Naturals

\* @ManyToOne and @OneToOne lead to one row, @OneToMany to any number of rows.
One(entity) == [to |-> entity, many |-> FALSE]
Many(entity) == [to |-> entity, many |-> TRUE]

Entity(key, columns, relations) ==
    [key |-> key, columns |-> key \cup columns, relations |-> relations]

\* The entities of a single row have the same key.
OneRow(columns) == Entity({"one_row_id"}, columns \cup {"height"}, << >>)

Account == Entity({"address"}, {},
    [vestingAccounts |-> Many("VestingAccount"), proposals |-> Many("Proposal"),
     proposalDeposits |-> Many("ProposalDeposit"), proposalVotes |-> Many("ProposalVote")])

VestingAccount == Entity({"id"},
    {"type", "address", "original_vesting", "end_time", "start_time"},
    [account |-> One("Account"), vestingPeriods |-> Many("VestingPeriod")])

VestingPeriod == Entity({"vesting_account_id", "period_order"}, {"length", "amount"},
    [vestingAccount |-> One("VestingAccount")])

Block == Entity({"height"},
    {"hash", "num_txs", "total_gas", "proposer_address", "timestamp"},
    [transactions |-> Many("Transaction"), proposer |-> One("Validator")])

Transaction == Entity({"hash"},
    {"height", "success", "messages", "memo", "signatures", "signer_infos", "fee",
     "gas_wanted", "gas_used", "raw_log", "logs", "partition_id"},
    [block |-> One("Block"), messages_entities |-> Many("Message")])

Message == Entity({"transaction_hash", "index"},
    {"type", "value", "involved_accounts_addresses", "partition_id", "height"},
    [transaction |-> One("Transaction")])

MessageType == Entity({"type"}, {"module", "label", "height"}, << >>)

Validator == Entity({"consensus_address"}, {"consensus_pubkey"},
    [proposedBlocks |-> Many("Block"), info |-> One("ValidatorInfo"),
     description |-> One("ValidatorDescription"), commission |-> One("ValidatorCommission"),
     votingPower |-> One("ValidatorVotingPower"), status |-> One("ValidatorStatus")])

\* The tables with one row per validator.
OfValidator(columns) == Entity({"validator_address"}, columns \cup {"height"},
    [validator |-> One("Validator")])

ValidatorInfo == Entity({"consensus_address"},
    {"operator_address", "self_delegate_address", "max_change_rate", "max_rate", "height"},
    [validator |-> One("Validator")])
ValidatorDescription == OfValidator(
    {"moniker", "identity", "avatar_url", "website", "security_contact", "details"})
ValidatorCommission == OfValidator({"commission", "min_self_delegation"})
ValidatorVotingPower == OfValidator({"voting_power"})
ValidatorStatus == OfValidator({"status", "jailed"})
ValidatorSigningInfo == Entity({"validator_address"},
    {"start_height", "index_offset", "jailed_until", "tombstoned",
     "missed_blocks_counter", "height"}, << >>)

Proposal == Entity({"id"},
    {"title", "description", "metadata", "content", "submit_time", "deposit_end_time",
     "voting_start_time", "voting_end_time", "proposer_address", "status"},
    [proposer |-> One("Account"), deposits |-> Many("ProposalDeposit"),
     votes |-> Many("ProposalVote"), tallyResults |-> Many("ProposalTallyResult")])

ProposalDeposit == Entity({"proposal_id", "depositor_address", "transaction_hash"},
    {"amount", "timestamp", "height"},
    [proposal |-> One("Proposal"), depositor |-> One("Account")])

ProposalVote == Entity({"proposal_id", "voter_address", "option"},
    {"weight", "timestamp", "height"},
    [proposal |-> One("Proposal"), voter |-> One("Account")])

ProposalTallyResult == Entity({"proposal_id"},
    {"yes", "abstain", "no", "no_with_veto", "height"}, [proposal |-> One("Proposal")])

Token == Entity({"name"}, {}, [units |-> Many("TokenUnit")])

TokenUnit == Entity({"token_name"}, {"denom", "exponent", "aliases", "price_id"},
    [token |-> One("Token")])

TokenPrice == Entity({"id"}, {"unit_name", "price", "market_cap", "timestamp"},
    [tokenUnit |-> One("TokenUnit")])

TokenPriceHistory == Entity({"id"}, {"unit_name", "price", "market_cap", "timestamp"},
    [tokenUnit |-> One("TokenUnit")])

Genesis == Entity({"one_row_id"}, {"chain_id", "time", "initial_height"}, << >>)
Supply == OneRow({"coins"})
CommunityPool == OneRow({"coins"})
StakingPool == OneRow({"bonded_tokens", "not_bonded_tokens", "unbonding_tokens",
                       "staked_not_bonded_tokens"})
StakingParams == OneRow({"params"})
DistributionParams == OneRow({"params"})
SlashingParams == OneRow({"params"})
MintParams == OneRow({"params"})
GovParams == OneRow({"params"})
Inflation == OneRow({"value"})

\* The entities by name, as relations and queries refer to them.
Entities ==
    [Account |-> Account, VestingAccount |-> VestingAccount, VestingPeriod |-> VestingPeriod,
     Block |-> Block, Transaction |-> Transaction, Message |-> Message,
     MessageType |-> MessageType, Validator |-> Validator, ValidatorInfo |-> ValidatorInfo,
     ValidatorDescription |-> ValidatorDescription,
     ValidatorCommission |-> ValidatorCommission,
     ValidatorVotingPower |-> ValidatorVotingPower, ValidatorStatus |-> ValidatorStatus,
     ValidatorSigningInfo |-> ValidatorSigningInfo, Proposal |-> Proposal,
     ProposalDeposit |-> ProposalDeposit, ProposalVote |-> ProposalVote,
     ProposalTallyResult |-> ProposalTallyResult, Token |-> Token, TokenUnit |-> TokenUnit,
     TokenPrice |-> TokenPrice, TokenPriceHistory |-> TokenPriceHistory,
     Genesis |-> Genesis, Supply |-> Supply, CommunityPool |-> CommunityPool,
     StakingPool |-> StakingPool, StakingParams |-> StakingParams,
     DistributionParams |-> DistributionParams, SlashingParams |-> SlashingParams,
     MintParams |-> MintParams, GovParams |-> GovParams, Inflation |-> Inflation]

\* The columns of type timestamp.
Timestamps ==
    {<<"Block", "timestamp">>, <<"Proposal", "submit_time">>, <<"Proposal", "deposit_end_time">>,
     <<"Proposal", "voting_start_time">>, <<"Proposal", "voting_end_time">>,
     <<"ProposalVote", "timestamp">>, <<"ProposalDeposit", "timestamp">>,
     <<"TokenPrice", "timestamp">>, <<"TokenPriceHistory", "timestamp">>}

HasRelation(entity, relation) == relation \in DOMAIN Entities[entity].relations
Related(entity, relation) == Entities[entity].relations[relation].to
HasColumn(entity, column) == column \in Entities[entity].columns
IsTimestamp(entity, column) == <<entity, column>> \in Timestamps
=============================================================================
