--------------------------- MODULE ChainSnapshots ---------------------------
(***************************************************************************)
(* The single-row tables of callisto: supply, inflation, staking_pool,     *)
(* community_pool, the params tables and the average block times.  Each    *)
(* one is refreshed by goroutines that run concurrently: periodic          *)
(* operations (WatchMethod), block and message handlers of the workers,    *)
(* genesis parsing and the `parse` commands, which call the same functions *)
(* from another process.                                                   *)
(*                                                                         *)
(* Every refresh has three steps another goroutine can come between: it    *)
(* picks a height, queries the node for the state at that height, and      *)
(* upserts the answer with `WHERE table.height <= excluded.height`.  An    *)
(* average is computed from two blocks of the database instead.            *)
(*                                                                         *)
(* The queried value is abstracted to where it comes from: `asOf` is the   *)
(* chain height whose state the node returned, or up to which the average  *)
(* was taken.                                                              *)
(***************************************************************************)
EXTENDS Integers, FiniteSets

CONSTANTS
    Tables,         \* the tables under consideration, a subset of AllTables
    Proc,           \* goroutines and commands that refresh tables
    MaxHeight,      \* bound on the chain's height
    MaxCrashes,     \* bound on the restarts of the indexer
    KeepRecent,     \* pruning.keep_recent of the configuration
    NoRow           \* the table is empty

PeriodicTables == {"supply", "inflation", "staking_pool", "community_pool"}

ParamsTables == {"staking_params", "mint_params", "distribution_params",
                 "slashing_params", "gov_params"}

\* The averages over the last minute, hour and day.
WindowTables == {"average_block_time_per_minute", "average_block_time_per_hour",
                 "average_block_time_per_day"}

FromGenesis == "average_block_time_from_genesis"

AverageTables == WindowTables \cup {FromGenesis}

AllTables == PeriodicTables \cup ParamsTables \cup AverageTables

\* Tables that are saved although a query failed: the remote slashing source turns
\* the failure into empty params, and the staking pool takes the unbonding delegations
\* it could not get for none.
SwallowsQueryError == {"slashing_params", "staking_pool"}

ASSUME TablesAssumption == Tables \subseteq AllTables
ASSUME BoundsAssumption ==
    /\ MaxHeight \in Nat \ {0}
    /\ MaxCrashes \in Nat
    /\ KeepRecent \in Nat
ASSUME NoRowAssumption == NoRow \notin [height: Nat, asOf: Int]

InitialHeight == 1  \* doc.InitialHeight of the genesis file
GenesisState  == 0  \* asOf of a value read from the genesis file
ZeroValue     == -1 \* asOf of a Go zero value that no state of the chain holds
NotANumber    == -2 \* asOf of a quotient whose divisor is zero
Undercounted  == -3 \* asOf of a pool that lacks some unbonding delegations

VARIABLES
    chain,      \* the node's latest height
    block,      \* heights stored in the block table
    row,        \* the content of every table
    op,         \* what each goroutine is doing
    saved,      \* history: heights upserted since the table was last empty
    crashes     \* restarts so far

vars == <<chain, block, row, op, saved, crashes>>

Row  == [height: Nat, asOf: Int]
Idle == [stage |-> "idle", table |-> "none", height |-> 0, asOf |-> 0]
Op   == [stage: {"idle", "query", "save"}, table: Tables \cup {"none"},
         height: Nat, asOf: Int]

Init ==
    /\ chain = InitialHeight
    /\ block = {}
    /\ row = [t \in Tables |-> NoRow]
    /\ op = [p \in Proc |-> Idle]
    /\ saved = [t \in Tables |-> {}]
    /\ crashes = 0

-----------------------------------------------------------------------------
(* The chain and the worker that stores blocks.                            *)

\* The node commits a block.
NewBlock ==
    /\ chain < MaxHeight
    /\ chain' = chain + 1
    /\ UNCHANGED <<block, row, op, saved, crashes>>

\* Mutated form of SaveBlock: a block the chain does not have yet.
SaveBlockAhead(h) ==
    /\ h \notin block
    /\ block' = block \cup {h}
    /\ UNCHANGED <<chain, row, op, saved, crashes>>

\* A worker stores a block; heights arrive in any order (several workers,
\* refetched blocks).
SaveBlock(h) ==
    /\ h \notin block
    /\ h <= chain
    /\ block' = block \cup {h}
    /\ UNCHANGED <<chain, row, op, saved, crashes>>

-----------------------------------------------------------------------------
(* Refreshes: the first step picks the height.                             *)

\* Mutated forms of GetLastBlockHeight: the node's height, and the oldest block.
NodeHeight(h) == h = chain

GetFirstBlockHeight(h) ==
    IF block = {} THEN h = 0 ELSE h \in block /\ \A k \in block : k >= h

\* SELECT height FROM block ORDER BY height DESC LIMIT 1; the zero value when
\* there is no block.
GetLastBlockHeight(h) ==
    IF block = {} THEN h = 0 ELSE h \in block /\ \A k \in block : k <= h

Begin(p, t, h) ==
    /\ t \in Tables
    /\ op[p] = Idle
    /\ op' = [op EXCEPT ![p] =
                [stage |-> "query", table |-> t, height |-> h, asOf |-> 0]]
    /\ UNCHANGED <<chain, block, row, saved, crashes>>

UpdateSupply(p, h) == GetLastBlockHeight(h) /\ Begin(p, "supply", h)

UpdateInflation(p, h) == GetLastBlockHeight(h) /\ Begin(p, "inflation", h)

UpdateStakingPool(p, h) == GetLastBlockHeight(h) /\ Begin(p, "staking_pool", h)

GetLatestCommunityPool(p, h) ==
    GetLastBlockHeight(h) /\ Begin(p, "community_pool", h)

\* MsgFundCommunityPool in a successful transaction of a stored block.
HandleMsgFundCommunityPool(p, h) ==
    /\ h \in block
    /\ Begin(p, "community_pool", h)

\* UpdateParams(height) of the params modules, called by the gov module when
\* a proposal that changes params has passed in block h.
UpdateStakingParams(p, h) == h \in block /\ Begin(p, "staking_params", h)

UpdateMintParams(p, h) == h \in block /\ Begin(p, "mint_params", h)

UpdateDistributionParams(p, h) ==
    h \in block /\ Begin(p, "distribution_params", h)

UpdateSlashingParams(p, h) == h \in block /\ Begin(p, "slashing_params", h)

UpdateGovParams(p, h) == h \in block /\ Begin(p, "gov_params", h)

\* GetLastBlock fails when there is no block.
UpdateBlockTime(p, t, h) == block # {} /\ GetLastBlockHeight(h) /\ Begin(p, t, h)

UpdateBlockTimeInMinute(p, h) == UpdateBlockTime(p, "average_block_time_per_minute", h)

UpdateBlockTimeInHour(p, h) == UpdateBlockTime(p, "average_block_time_per_hour", h)

UpdateBlockTimeInDay(p, h) == UpdateBlockTime(p, "average_block_time_per_day", h)

\* The block handler, whatever the order blocks are handled in.
UpdateBlockTimeFromGenesis(p, h) == h \in block /\ Begin(p, FromGenesis, h)

\* Parsing the genesis stores the params of the genesis file at InitialHeight;
\* no query is made.
HandleGenesis(p, t) ==
    /\ t \in Tables \cap ParamsTables
    /\ op[p] = Idle
    /\ op' = [op EXCEPT ![p] =
                [stage |-> "save", table |-> t,
                 height |-> InitialHeight, asOf |-> GenesisState]]
    /\ UNCHANGED <<chain, block, row, saved, crashes>>

-----------------------------------------------------------------------------
(* The second step queries the node, or the database for another block.    *)

\* Mutated form of StateAt: the height header is forgotten.
StateAtLatest(h) == chain

\* Every source passes the height in the request header; height 0 asks for the
\* latest state.
StateAt(h) == IF h = 0 THEN chain ELSE h

QueryAnswered(p) ==
    /\ op[p].stage = "query"
    /\ op[p].table \notin AverageTables
    /\ op' = [op EXCEPT ![p].stage = "save",
                        ![p].asOf = StateAt(op[p].height)]
    /\ UNCHANGED <<chain, block, row, saved, crashes>>

\* The average is taken since the newest block old enough for the window, which lies
\* below the last one, or since the genesis block.
GetBlockHeightTime(p) ==
    /\ op[p].stage = "query"
    /\ op[p].table \in AverageTables
    /\ op[p].table \in WindowTables => \E k \in block : k < op[p].height
    /\ op' = [op EXCEPT ![p].stage = "save",
                        ![p].asOf = IF op[p].table = FromGenesis
                                       /\ op[p].height = InitialHeight
                                    THEN NotANumber ELSE op[p].height]
    /\ UNCHANGED <<chain, block, row, saved, crashes>>

\* A failed query ends the refresh with an error that is only logged; so does a
\* database without the genesis or without a block that is old enough.  For the
\* staking pool this is the query of the pool or of the database for the validators.
QueryFailed(p) ==
    /\ op[p].stage = "query"
    /\ op[p].table # "slashing_params"
    /\ op' = [op EXCEPT ![p] = Idle]
    /\ UNCHANGED <<chain, block, row, saved, crashes>>

\* What the refresh of a table goes on with after a query that failed unnoticed.
AfterSwallowed(t) == IF t = "slashing_params" THEN ZeroValue ELSE Undercounted

\* GetParams of the remote slashing source returns `Params{}, nil` on error, and
\* getTotalUnbondingDelegationsFromValidator an empty list: the tokens of that
\* validator are then missing from unbonding and left in staked_not_bonded.
QueryFailureSwallowed(p) ==
    /\ op[p].stage = "query"
    /\ op[p].table \in SwallowsQueryError
    /\ op' = [op EXCEPT ![p].stage = "save",
                        ![p].asOf = AfterSwallowed(op[p].table)]
    /\ UNCHANGED <<chain, block, row, saved, crashes>>

-----------------------------------------------------------------------------
(* The third step upserts the answer.                                      *)

\* Mutated form of Accepts: the upsert without its WHERE clause.
AcceptsAlways(old, h) == TRUE

\* ON CONFLICT (one_row_id) DO UPDATE ... WHERE table.height <= excluded.height
Accepts(old, h) == old = NoRow \/ old.height <= h

Save(p, t) ==
    /\ op[p].stage = "save"
    /\ op[p].table = t
    /\ row' = IF Accepts(row[t], op[p].height)
              THEN [row EXCEPT ![t] = [height |-> op[p].height,
                                       asOf |-> op[p].asOf]]
              ELSE row
    /\ saved' = [saved EXCEPT ![t] = @ \cup {op[p].height}]
    /\ op' = [op EXCEPT ![p] = Idle]
    /\ UNCHANGED <<chain, block, crashes>>

SaveSupply(p) == Save(p, "supply")

SaveInflation(p) == Save(p, "inflation")

SaveStakingPool(p) == Save(p, "staking_pool")

SaveCommunityPool(p) == Save(p, "community_pool")

SaveStakingParams(p) == Save(p, "staking_params")

SaveMintParams(p) == Save(p, "mint_params")

SaveDistributionParams(p) == Save(p, "distribution_params")

SaveSlashingParams(p) == Save(p, "slashing_params")

SaveGovParams(p) == Save(p, "gov_params")

SaveAverageBlockTimePerMin(p) == Save(p, "average_block_time_per_minute")

SaveAverageBlockTimePerHour(p) == Save(p, "average_block_time_per_hour")

SaveAverageBlockTimePerDay(p) == Save(p, "average_block_time_per_day")

SaveAverageBlockTimeGenesis(p) == Save(p, FromGenesis)

-----------------------------------------------------------------------------
(* Pruning and restarts.                                                   *)

\* Prune(height) deletes the rows of that exact height, table by table, and
\* stops at the first error.  pruneMint builds an error even when its DELETE
\* succeeded, so community_pool and slashing_params are never reached.
PrunedTables == {"supply", "staking_pool", "inflation"}

Prune(h) ==
    /\ \E b \in block : h + KeepRecent <= b
    /\ LET gone == {t \in Tables \cap PrunedTables :
                        row[t] # NoRow /\ row[t].height = h}
       IN /\ gone # {}
          /\ row' = [t \in Tables |-> IF t \in gone THEN NoRow ELSE row[t]]
          /\ saved' = [t \in Tables |-> IF t \in gone THEN {} ELSE saved[t]]
    /\ UNCHANGED <<chain, block, op, crashes>>

\* The process dies: whatever its goroutines were doing is lost.
Crash ==
    /\ crashes < MaxCrashes
    /\ crashes' = crashes + 1
    /\ op' = [p \in Proc |-> Idle]
    /\ UNCHANGED <<chain, block, row, saved>>

-----------------------------------------------------------------------------
RefreshStart(p) ==
    \/ \E h \in 0..MaxHeight :
        \/ UpdateSupply(p, h) \/ UpdateInflation(p, h)
        \/ UpdateStakingPool(p, h) \/ GetLatestCommunityPool(p, h)
        \/ HandleMsgFundCommunityPool(p, h)
        \/ UpdateStakingParams(p, h) \/ UpdateMintParams(p, h)
        \/ UpdateDistributionParams(p, h) \/ UpdateSlashingParams(p, h)
        \/ UpdateGovParams(p, h)
        \/ UpdateBlockTimeInMinute(p, h) \/ UpdateBlockTimeInHour(p, h)
        \/ UpdateBlockTimeInDay(p, h) \/ UpdateBlockTimeFromGenesis(p, h)
    \/ \E t \in ParamsTables : HandleGenesis(p, t)

Query(p) ==
    \/ QueryAnswered(p) \/ GetBlockHeightTime(p)
    \/ QueryFailed(p) \/ QueryFailureSwallowed(p)

RefreshEnd(p) ==
    \/ SaveSupply(p) \/ SaveInflation(p) \/ SaveStakingPool(p)
    \/ SaveCommunityPool(p) \/ SaveStakingParams(p) \/ SaveMintParams(p)
    \/ SaveDistributionParams(p) \/ SaveSlashingParams(p) \/ SaveGovParams(p)
    \/ SaveAverageBlockTimePerMin(p) \/ SaveAverageBlockTimePerHour(p)
    \/ SaveAverageBlockTimePerDay(p) \/ SaveAverageBlockTimeGenesis(p)

Next ==
    \/ NewBlock
    \/ \E h \in 1..MaxHeight : SaveBlock(h)
    \/ \E p \in Proc : RefreshStart(p) \/ Query(p) \/ RefreshEnd(p)
    \/ \E h \in 0..MaxHeight : Prune(h)
    \/ Crash

Spec == Init /\ [][Next]_vars

-----------------------------------------------------------------------------
TypeOK ==
    /\ chain \in 1..MaxHeight
    /\ block \subseteq 1..chain
    /\ row \in [Tables -> Row \cup {NoRow}]
    /\ op \in [Proc -> Op]
    /\ saved \in [Tables -> SUBSET Nat]
    /\ crashes \in 0..MaxCrashes

\* The value belongs to the height it is stamped with.
Belongs(r) ==
    \/ r.height = 0
    \/ r.asOf = r.height
    \/ r.height = InitialHeight /\ r.asOf = GenesisState

\* However refreshes of different heights interleave, the row holds the most
\* recent of the heights that were saved since the table was last empty.
LatestWins ==
    \A t \in Tables :
        /\ (row[t] = NoRow) <=> (saved[t] = {})
        /\ row[t] # NoRow =>
              /\ row[t].height \in saved[t]
              /\ \A h \in saved[t] : h <= row[t].height

\* The value a table stores that no state of the chain holds: empty slashing params
\* and a pool without some unbonding delegations after a query that failed unnoticed,
\* and the average since genesis at the genesis block, which divides by zero.
KnownlyWrong(t, r) ==
    \/ t \in SwallowsQueryError /\ r.asOf = AfterSwallowed(t)
    \/ t = FromGenesis /\ r.height = InitialHeight /\ r.asOf = NotANumber

\* The stored value is the chain's value at the stored height, although the
\* height is picked before the query and the save comes after both.  No table
\* holds anything else, but for the three values above.
RowsBelong ==
    \A t \in Tables : row[t] # NoRow =>
        Belongs(row[t]) \/ KnownlyWrong(t, row[t])

\* No row is newer than the newest block stored: readers never see a height
\* the block table does not have, except the genesis stamp.
RowsNotAheadOfBlocks ==
    \A t \in Tables :
        row[t] # NoRow => \/ row[t].height <= InitialHeight
                          \/ row[t].height \in block

\* Every table implements a versioned register: no interleaving of refreshes,
\* crashes and pruning lets an older height replace a newer one.
Registers == INSTANCE VersionedRegisters WITH Key <- Tables, reg <- row

TablesAreRegisters == Registers!Spec

-----------------------------------------------------------------------------
(* Liveness: the schedulers start every periodic refresh again and again,  *)
(* and the node and the database do not fail forever.                      *)

StartPeriodic(p, t) ==
    \E h \in 0..MaxHeight :
        \/ t = "supply" /\ UpdateSupply(p, h)
        \/ t = "inflation" /\ UpdateInflation(p, h)
        \/ t = "staking_pool" /\ UpdateStakingPool(p, h)
        \/ t = "community_pool" /\ GetLatestCommunityPool(p, h)

Fairness ==
    \A p \in Proc :
        /\ \A t \in Tables \cap PeriodicTables :
              /\ SF_vars(StartPeriodic(p, t))
              /\ \A h \in 0..MaxHeight :
                    SF_vars(/\ op[p].table = t /\ op[p].height = h
                            /\ QueryAnswered(p))
        /\ WF_vars(RefreshEnd(p))

FairSpec == Spec /\ Fairness

\* Once a block is stored, every periodic table eventually reaches it.
PeriodicTablesCatchUp ==
    \A t \in Tables \cap PeriodicTables : \A h \in 1..MaxHeight :
        h \in block ~> (row[t] # NoRow /\ row[t].height >= h)
=============================================================================
