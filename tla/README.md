# A TLA+ model of the Safrochain indexer

The repository holds two programs that share one PostgreSQL database:

- **callisto** (`src/callisto`, Go), a fork of BDJuno: it follows a Cosmos SDK
  chain through a node and writes blocks, transactions, messages and the state of
  the chain's modules into the database.  Its block loop is the *juno* library,
  which is not part of the repository.
- **the API** (`src/safrochain_api_indexeur`, TypeScript/NestJS): it answers HTTP
  requests by reading that database.

What can go wrong in callisto is the order of things: workers, periodic
operations, message handlers, genesis parsing and `parse` commands write the same
tables at the same time, in an order nobody fixes, with heights they picked
earlier; most tables are protected only by the `WHERE table.height <=
excluded.height` of their upserts, and some are not protected at all.  What can go
wrong in the API is what a client concludes from several requests while the
tables grow.  The modules here are about these two things.

## Inventory

| Component | State | Operations | What makes it correct | Hard part |
|---|---|---|---|---|
| Block ingestion (juno worker, `registrar.go`, `message_type`) | queue of heights; `block`, `transaction`, `message_type`, `message` | listener enqueues, workers take a height, store block, transaction, run the modules | every message of a handled block is stored, no message is handled twice, a queued block is eventually stored | several workers, failures that re-queue, restarts that forget the queue, foreign keys that depend on the order of the modules |
| `daily_refetch` | none of its own | at midnight: list the missing heights, fetch each | after a completed run yesterday has no hole, and refetched blocks are like others | list computed once, a list that cannot be read looks empty, first error ends it, no stored block is a day old |
| Single-row snapshots: bank supply, inflation, staking pool, community pool, params of five modules, four average block times | one row per table: height, value | refresh (pick height, query, upsert), genesis, prune | the newest height wins, the value belongs to its height, the row is not ahead of the blocks, refreshes catch up | three steps others come between; errors only logged or swallowed |
| gov and upgrade | proposals, votes, deposits, tally and pool snapshots, `software_upgrade_plan` | block events, four message handlers, two periodic operations, `parse gov proposal`, upgrade at a height | status follows the chain, votes are stored, what a passed proposal asks for is done, snapshots never go back and catch up | unguarded status updates, proposals that vanish, first-error-ends-the-loop |
| feegrant | `fee_grant_allowance` | grant, revoke, removals of the end-block, `parse feegrant allowance` | the table mirrors the chain's grants | deletes leave no trace; the end-block is handled before the messages; allowances used up by fees go unseen |
| pruning | none | delete the rows of one height | only old rows go | ends with an error at its fourth table |
| staking | `validator` and five tables with a row per validator, snapshots of open proposals, double sign votes and evidences | block, messages, genesis, upgrade, `parse staking`, the periodic refresh of the statuses, a goroutine per block with evidence | a row is of its height and never replaced by an older one, every validator of a handled block has infos, a refresh reaches every bonded validator, evidence is stored once | sequences of statements without a transaction, one batch for all validators, slices with zero entries, a goroutine nobody waits for |
| pricefeed, auth (vesting), modules table, actions server | small tables; the actions server none | handlers and periodic operations | newest price wins, periods replaced as a whole, runs until a signal | delete-then-insert |
| API lists | none; the client holds a cursor or an offset | one request per page | a walk shows every row that was there, none twice, and ends | rows arrive between requests; cached pages of different ages; several rows per height |
| API transaction counts | two caches | requests that run concurrently, each with two queries | an answer has what was asked for, as old as the caches allow | the service's cache is one record for all periods |
| API requests: routes, DTOs, services, entities | none | router, ValidationPipe, handler, the queries of a method | a request reaches the handler that documents it, what is documented is accepted and takes effect, a query names what exists and reads a bounded number of rows, every request is answered | four declarations of the same thing in four places: documentation, DTO, query, entity |

Components interact through the database (every table has several writers), through
calls (gov calls `UpdateParams` of the params modules and the staking module;
upgrade calls the staking module), and through the block loop, which runs the block
handlers of all modules, then each message through all modules, in the order of
`callisto_conf/config.yaml` 5-22, and only logs their errors.

`PROJECT.json` lists the components with their status and the hazards with their
lines.

## Modules

| Module | What it models |
|---|---|
| `VersionedRegisters` | abstract: one register per key; a write never replaces a newer height, pruning empties |
| `ChainSnapshots` | the thirteen single-row tables; implements `VersionedRegisters` |
| `ChainSnapshotsProofs` | theorems about `ChainSnapshots` |
| `Gov` | gov and upgrade; its snapshot tables implement `VersionedRegisters` |
| `GovProofs` | theorems about `Gov` |
| `FeeGrant` | feegrant |
| `FeeGrantProofs` | theorems about `FeeGrant` |
| `Pipeline` | the block loop with `message_type`, `messages` and `daily_refetch` |
| `PipelineProofs` | theorems about `Pipeline` |
| `Staking` | the validator tables; they implement `VersionedRegisters`, one register per table and validator |
| `StakingProofs` | theorems about `Staking` |
| `Pagination` | walks over the API's lists |
| `PaginationProofs` | theorems about `Pagination` |
| `TransactionCounts` | the API's transaction counts and their two caches |
| `TransactionCountsProofs` | theorems about `TransactionCounts` |
| `ApiSchema` | the entities: columns, keys and relations |
| `ApiParameters` | the DTOs and the validation of a query string |
| `ApiRoutes` | the controllers' handlers and the order they are tried in |
| `ApiQueries` | the services' methods: the queries each sends, their columns, joins, filters, order and page |
| `ApiRequests` | a request through router, validation, handler and queries; uses the four above |
| `ApiRequestsProofs` | theorems about `ApiRequests` |
| `MC*` | constants, symmetry and constraints of the small instances; `MCPagination` puts `Pagination` and `TransactionCounts` side by side |

Definitions marked "Mutated form of ..." are never used by a specification.  Each
is a plausible bug that a property must notice when it takes the place of the
definition it is named after.

### ChainSnapshots

`op[p]` is what goroutine `p` is doing: `UpdateSupply`, ..., `UpdateGovParams` pick
the height (the newest of the `block` table, or the height of the block being
handled), `QueryAnswered`/`QueryFailed` are the gRPC call, `SaveSupply`, ...,
`SaveGovParams` the upsert.  The value is abstracted to `asOf`, the height whose
state it is.  `WatchMethod` skips nothing and locks nothing, so any number of
refreshes of one table may be under way.  Two failed
queries go unnoticed (`QueryFailureSwallowed`): the source of the slashing params
returns empty params (`source/remote/source.go` 64), and
`getTotalUnbondingDelegationsFromValidator` an empty list (`utils_staking_pool.go` 64),
after which the pool lacks the unbonding tokens of that validator (`Undercounted`).
`RowsBelong` allows these two tables these two values at any height; nothing puts
them right before the next refresh.  `Prune` deletes the rows of exactly one height and stops
at `pruneMint`, which returns an error every time; tables after it are never
pruned, and the model says so.  `HandleGenesis` stores values of the genesis file
at `InitialHeight`.

The average block times ask the database instead of the node: `UpdateBlockTimeIn*`
pick the last block, `GetBlockHeightTime` looks up the block the window begins with,
and without one, or without the genesis row, nothing is saved.  The comments want the
chain to be "at least a minute ago" old and compare with 0
(`consensus/handle_periodic_operations.go` 57-60); the failing lookup has the same
effect.  The average since genesis divides by `height - InitialHeight`
(`consensus/handle_block.go` 44): after the genesis block the row holds a quotient by
zero (`NotANumber`) until a later block is handled, and `RowsBelong` leaves it out.

`saved` is a history variable: the heights upserted since the table was last empty.

### Gov

A block of the model's chain carries at most one gov transaction (submit, deposit or
vote) and the proposals whose voting or deposit period ended.  The node's answer to
a query at a height never changes, so it is part of the step that uses it, and the
height it is asked for is picked in the step where the code does that.
`UpdateProposalStatus` and `HandlePassedProposal` are `updateProposalsStatus` one
proposal at a time, `RefreshDataUponSoftwareUpgrade` is the upgrade module's block
handler, then the transaction's handler runs (`SubmitProposal`, `HandleDeposit`,
`HandleVote`, `UpdateProposalTallyResult`).  `Round*` are the two periodic
operations, `Parse*` the parse command.  `HandlerFails`, `UpgradeRefreshFails`,
`ForeignKeyFails`, `RoundError`, `ParseFails` and `Crash` are the ways to fail, each
with what the code goes on with.  The foreign keys refuse votes and deposits of a
proposal that is not stored, and the plan of one (`schema/12-upgrade.sql` 3,
`PlanRefused`), which ends the block handler like any failure.

What the model shows and no property claims, because it is not so: the status has
no height guard, so two workers or the parse command can leave an older one
(`database/gov.go` 208); a second vote for another option is stored beside the
first, the unique key includes the option (`schema/08-gov.sql` 47); a passed cancel
proposal deletes the plan of its own id, which has none (`utils_proposal.go` 245); a
proposal deleted at the end of its deposit period is never closed, since nobody looks
for `inactive_proposal` events and the parse command stops at `GetProposal`, which
cannot read the messages it stored.

### FeeGrant

The grants of the model's chain are named by their place (height, index).  The end of
a block may remove any grant, those of the block's own messages included, and the fee
of a transaction may use an allowance up (`used`), after which it can be granted again
in the same block.  For each block, `RemoveExpiredFeeGrantAllowance` handles the
revocations of the end-block, one statement each, until `RemovalsDone` or a failure,
and then `HandleNextMsg` handles the messages; the chain did it the other way round,
and no handler looks at allowances that are used up.  So the table keeps a row that
the chain does not have when a grant is removed by the end of its own block or used
up, until the next message about the pair or its removal at the end of a block:
`GoneUnseen` in `MirrorsChain`, which says that there is no other such row, that each
of them is the last grant of its pair, and that no grant of the chain is missing.
The parse command (`ParseStart`, `ParseMsg`) sorts what it replays by height alone
and knows nothing of grants that expired, so it re-creates those
(`cmd/parse/feegrant/allowance.go` 62): `MirrorsChain` is about histories without it.

### Pipeline

`Take`, `FetchFails`, `SaveBlock`, `SaveTx`, `SaveTxFails`, `HandleMsg*`,
`ModuleFails` are a worker, as juno runs it and callisto configures it;
`EnqueueNewBlock` and `Crash` are the listener with `parse_old_blocks: false`, which
starts at the newest block.  `Refetch*` are `refetchMissingBlocks`.  `GetMissingBlocks`
returns an empty list when its query fails (`database/daily_refetch.go` 8), so a
refetch may end as usual with holes left (`MissingBlocksUnread`): the day is then
`unlisted`, and `YesterdayComplete` is about the others.  The next night starts from a
later block, so nothing lists such a hole again.  The module `daily_refetch` is
registered by callisto (`registrar.go`); the shipped `config.yaml` (5-22) does not
enable it.  Its parser
context has no registrar, so it stores block and transaction and calls no module.

### Pagination

`GetPage` is one request of a client that goes on while it is told there is another
page; `Insert` is the indexer.  Most lists answer through `CacheInterceptor`, one
response for each URL (`block.controller.ts` 315, `transaction.controller.ts` 153, 296,
326, `message.controller.ts` 289): a page may be the one that another client's request
found, so it shows the table as it was at any time a response is kept for
(`Shown`), independently of the pages before.  Rows that are older than that are
`settled`, the others `recent` in the order they came; `Expire` is the time passing.
A walk by cursor still shows every row that was settled when it began, since a page
lies below its cursor whatever its age.  A walk by offset through the cache does not: a
page of an older table skips rows that an earlier page, of a newer table, did not have
yet; `NothingMissed` is about offsets over the lists without a cache
(`transaction/message-type`, `transaction/validator`, `transaction/block-range`).  Rows of one height have no order among
themselves.  `PageSize`, `BelowCursor`, `FirstRows`, `NextCursor`, `HasNext` are the
query and its metadata.  A cursor with ascending order is not among the walks of
`Pagination_blocks`: the condition is `<` whatever the order
(`transaction.service.ts` 346), and every page is the first one again.

### Staking

A row is abstracted to the height it is stamped with and to `asOf`, the chain height
whose state it holds.  `op[p]` is the handler a goroutine or command runs and the
statement it has come to:

- `HandleBlock`, `HandleMsg`, `RefreshAllValidatorInfos`, `HandleGenesis` start with
  the query; `SaveValidatorsData`, `SaveValidatorDescription`,
  `SaveValidatorCommission` are the statements that follow, the last two once per
  validator and only outside the block handler;
- `UpdateValidatorStatuses` picks the newest stored height, `QueryBonded` asks the
  node, `HasValidator` looks one validator up (a lookup that fails is taken for a
  validator that is not there, and the loop goes on: `StatementFails`), then come
  `SaveValidatorsVotingPowers`, `SaveValidatorsStatuses` and, for each open
  proposal, `UpdateProposalSnapshot`;
- `SaveDoubleSignVote` and `InsertEvidences` are the goroutine `HandleBlock` starts
  (`routine[r]`);
- `Prune`, `StatementFails`, `RoutineFails` and `Crash` are the rest.  The pruning
  heights are over-approximated: the loop that calls `Prune` is juno's, so any height
  `keep_recent` below a stored block may be pruned.

What the model shows and no property claims, because it is not so:

- an operator whose validator was removed and who comes back with another consensus
  key has two rows; `operator_address` is unique and not a conflict target
  (`schema/03-staking.sql` 31), so the batch of every later block fails for every
  validator (`Blocked` in `InfosFollowBlocks`);
- the status and power of a validator that leaves the bonded set are never updated
  again, since only bonded ones are asked for (`utils_validators.go` 213);
- a bonded validator that is not in the `validator` table, or whose lookup failed, as
  the error is discarded (`utils_validators.go` 282), leaves a zero entry in the slices: the powers of all the others fail, one zero entry is stored as the
  status of a validator without an address, two make the statuses fail as well
  (`known` in `UpdatesReachRows`);
- evidence whose goroutine ended between the votes and the insert can never be stored
  again, as `ON CONFLICT DO NOTHING RETURNING` has no row for a vote that is there
  (`staking_validators.go` 450); that is also why it is never stored twice;
- the key of a vote is its block id and its validator (`schema/03-staking.sql` 95), so two
  votes of one validator for nil, of whatever heights, are in each other's way: the
  evidence of the later block is dropped (`Clashes` in `EvidenceOfHandledBlocks`);
- `pruneStaking` deletes the votes before the evidences that refer to them
  (`pruning.go` 71), and the foreign key ends the pruning of such a height.

`handled` and `updated` are history variables: the blocks whose handler came to the
infos, and the heights of the refreshes that found every bonded validator and whose
statements succeeded.

### TransactionCounts

`GetTransactionCounts` is the arrival of a request at the response cache,
`AnswerFromCache`, `StartQueries`, `RunQuery`, `FinishQueries`, `QueryFails` are the
service.  A count is abstracted to the time its query ran at.  The record is shared by
all periods, so a client may be told nothing about the period it asked for, but no
longer than both times to live after a question about one period alone
(`MissingOnlyAfterOnePeriod`).

The controllers write `@CacheTTL(60)` and `@CacheTTL(120)`.  With the cache-manager
the project depends on that is 60 and 120 *milliseconds*; `app.module.ts` 74
multiplies by 1000.  The model has the two times to live as constants.

### The API's requests

`ApiRequests` is small, and its data are the sources: `Handlers` (`ApiRoutes`) has
one record for each handler of the controllers in the order they are registered in,
with its DTO (`ApiParameters`), the parameters its documentation names and what it
does with errors; `Methods` (`ApiQueries`) has one record for each method of the
services, with the queries it sends; `ApiSchema` has what the entities declare.
`Dispatch`, `Refuse`, `Call`, `Found`, `Skip`, `Missing`, `Fail` and `Answer` take a
request through them.  The pipe checks the path as well: `governance/proposals/:id` has
a DTO that wants an integer (`governance.controller.ts` 310, `PathValidated`); the other
DTOs of paths want a word that is not empty, and the router passes no other on.  The names of handlers, methods, entities, columns and
parameters are those of the sources.

The response cache (a request answered without its handler) and the throttler (a
request over its limit gets 429) stand before all of this and are left out of
`ApiRequests`; `Pagination` and `TransactionCounts` have the cache where it matters.

How a found row becomes a response (labels of messages, amounts, direction of a
transaction) is not modelled, and neither is what becomes of the text of a value: a
`season` without a name in the service's table gives an empty list of months, a
`custom_ranges` without a range adds no condition.  `Executable` is about what a query
names.  The words that decide whether there is a condition at all are those of
`direction`, `module` and `category` (`SelectingWords`); the list of `modules` is taken
to name modules that have messages.

The properties except what is known to be otherwise, by name, in one list each:

- `Shadowed`: `transaction/search`, `transaction/analytics`, `tokens/units`,
  `tokens/prices` and `tokens/statistics` come after a handler whose path parameter
  takes the word, so the other handler answers;
- `Undeclared`: documented date parameters that no DTO declares; the pipe refuses
  them, and so it does `q` of `message/search`;
- `Unused`: parameters that pass and that nothing looks at, such as the fee filters, the
  formats of dates, and `page` where the list goes by cursors;
- `Overridden`: parameters that another one sets aside: the offset beside a cursor, the
  cursor beside an order by anything but the height, half of a relative date;
- `Dropped`: values that pass and filter nothing.  Zero for `min_gas_used`,
  `max_gas_used`, `min_gas_wanted`, `max_gas_wanted`, `proposal_id` and `fiscal_year`,
  which are tested for truth (`transaction.service.ts` 699, `governance.service.ts` 132,
  `date-filter.service.ts` 199), where the other numbers are compared with `undefined`;
  `category=mint` and `category=other`, which no message type is of, so that every
  message is returned (`message.service.ts` 76); `direction=both`;
- `Broken`: methods that name a column or relation their entity does not have,
  whatever the request (governance, tokens, supply and genesis), and so always fail;
- `Breaking`: parameters that do the same to another handler.

A `direction` or a `module` of no known name passes as well and filters nothing, and a
truth value that is written `false` becomes true; `ValuesAsDocumented` leaves words
that are documented nowhere out.

A handler or parameter outside the lists that joins one of them is what the run
would notice.

## Runs

| Run | Bounds | Shows |
|---|---|---|
| `ChainSnapshots` | 13 tables, one at a time; 2 refreshers; height 2; 1 restart | `TypeOK`, `LatestWins`, `RowsBelong`, `RowsNotAheadOfBlocks`, `TablesAreRegisters`, `PeriodicTableCatchesUp` |
| `Gov_safety` | 2 proposals (upgrade, params); 1 worker; 4 blocks; 1 failure | `TypeOK`, `StatusFollowsBlocks`, `PassedProposalsApplied` |
| `Gov_concurrent` | 1 proposal; 2 workers; 3 blocks, one handled late; 1 failure; 1 parse command | `VotesStored`, `SnapshotsAreRegisters` |
| `Gov_liveness` | 1 proposal; 1 worker; tally rounds; 3 blocks; 1 failure | `SnapshotsCatchUpUnlessDeleted` |
| `Gov_stuck` | 2 proposals; tally rounds | `SnapshotsCatchUp` violated |
| `FeeGrant_safety` | 2 pairs; 3 blocks of up to 2 messages, 3 in all (`FewMessages`), one handled late; at most one block waits (`Follows`); 1 failure; 1 parse command | `TypeOK`, `MirrorsChain`, `NewestGrantPresent` |
| `Pipeline` | 2 workers; 3 blocks, one with a message; 3 days; 1 failure; 1 crash | `TypeOK`, `EveryMessageStored`, `HandledAtMostOnce`, `YesterdayComplete`, `QueuedBlocksStored` |
| `Pipeline_refetch` | 1 worker; 3 days; 1 crash | `RefetchedBlocksHaveMessages` violated |
| `Staking` | 3 consensus keys of 2 operators; 2 goroutines; 1 open proposal; 2 evidence goroutines; 3 blocks, evidence in two of them with votes for nil at both heights; 1 failure or crash; three kinds of history | `TypeOK`, `RowsBelong`, `InfosFollowBlocks`, `UpdatesReachRows`, `EvidenceOfHandledBlocks`, `ValidatorTablesAreRegisters` |
| `Requests` | every handler; `x` in the places of its path, and an integer where one is wanted; no parameter, each documented or declared one at both ends of its range and beyond, `page` with `limit`, `cursor` with `sort_by`, `cursor` with `offset`, both halves of a relative date | `TypeOK`, `EveryReadBounded`, `HandlersReached`, `OnlyKnownRefusals`, `AcceptedParametersApply`, `QueriesExecutable`, `EveryRequestAnswered` |
| `Pagination_blocks` | 5 heights, pages of 2, four walks (cursor and offset, through the cache and without), 2 rows while a response is kept (`FewRecent`); 2 clients, 5 instants, both caches | `TypeOK`, `NoRepeat`, `NothingMissed`, `WalkEnds`, `AnswersRecent`, `MissingOnlyAfterOnePeriod` |
| `Pagination_transactions` | 2 rows per height | `NothingMissed` violated |

Why the bounds are enough: an upsert compares two heights, so two or three heights and
two writers already give every order of an older, an equal and a newer write; three
blocks let one be handled before, between and after two others; a day-old block, a
block of yesterday and one of today need three days; five rows and pages of two give
full, partial and exactly full last pages.  One restart or failure is enough because
the code keeps nothing between failures: a second one meets a state the first one
could have met.  Tables of `ChainSnapshots` share nothing but the block table and
`Prune`, so the run over all of them explores one table at a time.  The chain of `Gov`
is at most one block ahead of the workers (`Following`), as with a listener that keeps
up, and proposals are submitted in the order of their ids.

A history of `Staking` is about infos, statuses or evidences (`part` in
`MCStaking`): infos are written by blocks and messages and only read by the refresh
of the statuses, which writes tables of its own, and evidences have theirs.  The
statuses' histories keep a block handler, the only other writer of `validator`, where
nothing fails or is pruned: there a failure or a pruning meets the refreshes alone.
The evidences' histories handle blocks 2 and 3, which have evidence, one handler at a
time; the goroutines they start run side by side.  In the other two a goroutine that
saves evidences runs to its end before anything else happens (`EvidenceRuns`): it
writes tables of its own.  The theorems need no such split.

A request of `Requests` has one parameter, or two where the code treats them together;
the checks of a DTO and the conditions of a query look at one parameter each but for
those pairs; the theorems have no such bound.  `Pagination` and `TransactionCounts`
share no state, so a history of `MCPagination` is about one of them.  The five instants are those an answer of the
greatest age needs; at the last one requests are answered from the kept responses only
(`LastInstant`).

Deadlock is not checked: the chain's length and the budgets are bounded, and every
instance stops when they are used up.

### Fairness

- `ChainSnapshots`: strong fairness of starting each periodic refresh and of its
  query being answered (the scheduler starts them for ever, a node does not refuse
  for ever), weak fairness of the save.  Strong, because a goroutine may be busy
  with another refresh each time and a query may fail many times before it succeeds.
- `Gov`: weak fairness of each worker and of each periodic operation; failures are
  bounded.
- `Pipeline`: weak fairness of the listener and of each worker; failures are
  bounded, a crash excuses the blocks it forgets.
- `ApiRequests`: weak fairness of the next step: router, pipe and handlers are code
  that runs to its end, and a query answers or fails.
- `Pagination`: weak fairness of the next request.  Walks by cursor go down and end
  on any chain; the others end because the heights are bounded, that is, because
  clients read faster than the chain adds rows.


## Findings

- `Gov_stuck`: `UpdateProposalsTallyResults` returns at the first error
  (`utils_proposal.go` 177).  The node has no tally for a proposal it deleted, the
  database has it open for ever, so rounds that come to it first never reach the others.
- `Pipeline_refetch`: `parsecmdtypes.NewConfig()` has no registrar
  (`daily_refetch/handle_periodic_operations.go` 52), so a refetched block is stored
  without its messages, and counts as stored from then on.
- `Pagination_transactions`: `transaction.height < :cursor`
  (`transaction.service.ts` 171) skips the transactions of the cursor's height that did
  not fit on the page.

## Proofs

All theorems are about every value of the constants, under the assumptions the modules
name; TLC evaluates these on every run.

`ChainSnapshotsProofs`, for every set of tables and goroutines and every bound:

- `TypeCorrect`: `Spec => []TypeOK`;
- `LatestHeightWins`, `StoredValuesBelong`, `TablesNotAhead`: the three invariants;
- `TablesImplementRegisters`: `Spec => TablesAreRegisters`, the refinement.

Assumptions: those of `ChainSnapshots` (the tables are among the thirteen, bounds are
naturals, `NoRow` is no row).  `TypeOK /\ LatestWins` is inductive: the guard of the
upsert compares with the stored height, which is the largest saved.  `RowsBelong` is
not, since a save installs whatever the goroutine holds: `OpsBelong` says what it
holds belongs to the height it holds.  `RowsNotAheadOfBlocks` needs that the height a
goroutine holds is 0, the genesis height or a stored block, also part of `OpsBelong`,
and that blocks are never deleted.  `IInv` is the conjunction.  The refinement is a
step simulation from `TypeOK`: `Save` maps to `Write`, `Prune` to `Clear`, all other
steps stutter.

`FeeGrantProofs`, for every set of workers and pairs and every bound:

- `TypeCorrect`: `Spec => []TypeOK`;
- `NewestGrantIsPresent`: `Spec => []NewestGrantPresent`;
- `RowsAreBacked`: every row comes from a handled grant about its pair.

Assumptions: bounds are naturals, `NoRow` is no row.  `NewestGrantPresent` alone is
not inductive.  A guard only compares heights, so the order of the messages of one
height is the worker's business: `InOrder` says what is handled of a block lies
before the place its worker has come to, and `StartedOnce` that no block has two
workers or is handled twice, because it left the queue or the skipped heights.  An
upsert must not be refused by an older row, hence `Backed`: rows are handled grants.
`ChainOK` and `PlacesOK` (a handled place is on the chain and never changes) make
histories stable under new blocks.  Once a parse command has run `Before` compares
heights alone, and `InOrder` is not needed.
- `TableMirrorsChain`: `Spec => []MirrorsChain`, if there is one worker (`OneWorker`).
  `ChainFacts` is about the chain alone: a grant of its list is the newest message about
  its pair and was not removed since, and where it has none the newest grant went unseen
  or was removed at the end of a later block.  `MirrorInv` is about the table: without
  failures every message and removal of a stored block is handled or still ahead of its
  worker (`AllHandled`), and as long as blocks come in turn a row is the last of what
  was handled of its pair, in the handlers' order (`RowsNewest`).

`StakingProofs`, for every set of validators, operators, chain states, votes,
proposals, goroutines and every bound:

- `TypeCorrect`, `RowsAreOfTheirHeight`: `TypeOK` and `RowsBelong`.  The inductive
  invariant adds `OpsBelong`: what a goroutine carries belongs to the height it
  carries, a block handler carries all validators of its block, and nobody stamps
  height 0 but a refresh of the statuses; and `RoutinesOK`, the shape of the evidence
  goroutines.
- `TablesImplementRegisters`: `Spec => ValidatorTablesAreRegisters`.  `RowSteps` says
  of every step and every row that it is unchanged, written with a height at least
  its own, or pruned; each of the statements is one lemma (`UpsertWrites`,
  `StatusesWrite`, `PruneRemoves`).
- `InfosFollow`: `InfosFollowBlocks`.  Rows of infos are never removed, so both a row
  that is recent enough and one that is in the way stay (`AtLeastStays`,
  `BlockedStays`), and the chain's past does not change (`Grows`).
- `RefreshesReachRows`: `UpdatesReachRows`.  `RefreshesOK` is the progress of a refresh
  that knew its validators: found and still to be found ones are all of them, no entry
  is missing, no lookup failed, and the tables behind it are reached.
- `EvidencesStoredOnce`: `EvidenceStoredOnce`, the first half of
  `EvidenceOfHandledBlocks`.  `VoteLocks` says why: the first vote of a list acts as a
  lock.  It is in the table as long as the evidences are (the foreign key) or a
  goroutine goes on with them, only the goroutine that inserted it goes on, and a
  goroutine whose vote was pruned inserts no evidences.
- `EvidencesStored`: `EvidenceOfHandledBlocks`, if the chain never removes a validator it
  has evidence of (`VotersStay`).  `Storing` is the invariant: somebody answers for every vote of a
  list that is in the table and for every handled block, namely the evidences or a
  goroutine past that vote; so one that meets a conflict leaves the list to another.
  A vote from another place with the same key (`Clashes`) is a conflict nobody answers
  for; once there it stays, as long as nothing is pruned.  The hypothesis is needed: a
  vote by an unknown validator is refused by its foreign key.

`PaginationProofs`, for every table, arrivals, page size and bound:

- `TypeCorrect`;
- `CursorWalksDoNotRepeat`: if cursor walks descend, `Spec => []NoRepeat`, for any
  number of rows per height; the invariant is that nothing seen lies below the cursor;
- `WalksMissNothing`: if moreover `MaxPerHeight = 1`, `Spec => []NothingMissed`, for
  walks by cursor, through the cache or not, and by offset without it.  `UnseenAhead` is
  the invariant: what every page must show and none has shown lies below the cursor, or
  behind at least as many rows as the next request skips, however many rows arrive and
  however old the page is.  Both hypotheses are needed:
  `Pagination_transactions` shows what happens without the second, and an ascending
  walk with a cursor repeats its first page.

`TransactionCountsProofs`, for every number of clients, times to live and delays:
`CountsAreRecent` (`AnswersRecent`) and `HolesComeFromOnePeriod`
(`MissingOnlyAfterOnePeriod`), from the age of what each cache and each request holds
(`AgesBounded`) and where a count may be missing (`HolesExplained`).

`GovProofs`, for every set of proposals, voters, workers and chain, and every bound:

- `TypeCorrect`: `TypeOK`.  The inductive invariant `Typed` adds `ChainOK`, what a block
  may say (its events name every proposal whose status it changes, except deletions, and
  a submitted proposal never becomes absent again), and the shape of the jobs and of the
  parse command: a job is about a stored block, first its named proposals, then its
  transaction.
- `SnapshotsImplementRegisters`: `Spec => SnapshotsAreRegisters`.
- `VotesAreStored`: `VotesStored`, for any interleaving of workers, rounds and parse
  commands.  `VotesInv`: a worker that has come to the tally has stored the vote, and a
  handled block's vote is stored with a tally at its height; no later write takes either
  away.
- `PassedAreApplied`, `StatusesFollow`: `PassedProposalsApplied` and
  `StatusFollowsBlocks`, if blocks are handled `OneByOne`: one worker, no block handled
  late, no parse command.  `AppliedInv` and `StatusInv` say of a stored block that what
  it asks for is done or still in the worker's job, or that its handler failed, on the
  plan's foreign key for one.  Without the hypothesis neither
  holds: nothing guards the status of a proposal or the plan with a height, so a block
  handled after a later one, or a parse command, puts back what was.

`PipelineProofs`, for every number of workers, blocks, messages, days and failures:

- `TypeCorrect`: `TypeOK`;
- `MessagesHandledOnce`: `HandledAtMostOnce`.  A height is in the queue once or in the
  hands of one worker (`OneHolder`), the worker skips a block that is stored, and the
  messages handled of its block are those it has come past (`HandledSoFar`);
- `MessagesFindTheirTypes`: `EveryMessageStored`, from `BlocksComeFirst` (what is
  handled belongs to a stored block) and `StoredSoFar`: unless a module failed, the type
  is there when `messages` comes to a message, and rows of both tables stay;
- `RefetchLeavesNoGap`: `YesterdayComplete`.  `YesterdayCovered`: every block of the day
  that has passed is stored or still on the refetch's list, although the list is as old
  as the refetch, because days do not decrease along the chain, or the
  list of that day could not be read.

`ApiRequestsProofs`, for every set of requests, that is, any path, any number of
parameters in any combination, any values.  The routes, DTOs, queries and entities are
those of the sources; the requests are what is arbitrary:

- `TypeCorrect`, `ReadsAreBounded`: `TypeOK` and `EveryReadBounded`.  The inductive
  invariant `IInv` is `TypeOK` and `Served`: the handler is the first that matches, the
  query string that a handler sees is the one given, checked and converted, and what is
  left to run are queries of its method.  `SafeHandlers` goes over the handlers: each
  list has a limit that the DTO bounds or the method clamps, and the queries without one
  read the rows of one key.
- `RequestsReachHandlers`: `HandlersReached`.  `HandlersOrdered` says of any two handlers
  of the application that the earlier one takes no path meant for the later one, unless
  the later one is in `Shadowed`; it is put together controller by controller
  (`OrderedConcat`), since no two serve the same first word.
- `DocumentedParametersPass`: `OnlyKnownRefusals`.  `HandlersDeclare` compares what each
  handler documents with the fields of its DTO; a word in the path that is no integer
  where one is documented is a refusal the property names.
- `QueriesNameWhatExists`: `QueriesExecutable`.  `Sound` says of a query that the aliases
  of its joins are known and that every column it can name for some request, whatever is
  filtered, ordered or dated, is one of the entity behind its alias; `SoundIsExecutable`
  that such a query is executable for any parameters but those it avoids.  One lemma per
  method; the aliases of a chain of joins are computed by `AliasesByStep`.
- `ParametersApply`: `AcceptedParametersApply`.  `UsesAll` says of a handler that some
  query of its method takes each field of its DTO outside `Unused`; `ValueHeeded`,
  `CursorUsed` and `OffsetUsed` that the query then heeds it, unless it is in
  `Overridden` or `Dropped`.

Assumptions: a request is meant for some handler, and what it writes as a number is one
(`RequestsAssumption`).  Three theorems suppose more of the requests, in their statement:
`PathsAsDocumented` (a path parameter is no word of another route: a transaction hash is
not `search`), `ParametersAsDocumented` (parameters are documented or declared by the
handler) and `ValuesAsDocumented` (a truth value, a module and a direction are among
those documented).  A property about a handler's documentation has nothing to say of
other requests: `GET /transaction/counts` asks for no transaction.  The run evaluates
the three for its own requests (`RequestsDocumented` in `MCApiRequests`), which reach
every handler of the API.

Only model-checked: liveness, since the prover has no rule for fairness here.  That is
`PeriodicTableCatchesUp`, `SnapshotsCatchUpUnlessDeleted`, `QueuedBlocksStored`,
`WalkEnds` and `EveryRequestAnswered`.  Every other property of a passing run is a
theorem, where it needs a hypothesis under the one named above.

## Not modelled

- Prices, accounts and vesting, the modules table: one statement each on tables of
  their own, or run once before anything else.
- The actions server forwards stateless queries to the node.
- `SplitAccounts` and `QueryTxs`: a list cut into pieces, a loop over pages.
- Responses of the API: labels, amounts and the rest of the message parser, of which only
  the modules and categories that have message types count here.
- Hasura's metadata has no behaviour.
- Juno, the node, PostgreSQL, NestJS and the chain's modules are modelled as far as the
  sources rely on them (`external` in the map).  Message contents, coins and timestamps
  are abstracted to what the properties compare.

## Plan

1. `Vesting` and the modules table (delete and insert without a transaction),
   `PriceFeed`, `Actions` (start and stop).
2. Pure algorithms: `SplitAccounts`, `QueryTxs` against a changing answer, the API's
   message parser, each against a reference definition.
