------------------------ MODULE ChainSnapshotsProofs ------------------------
(***************************************************************************)
(* Proofs about the single-row tables, for every set of tables, any number *)
(* of goroutines and every bound.                                          *)
(***************************************************************************)
EXTENDS ChainSnapshots, TLAPS

\* A goroutine about to save carries what RowsBelong allows in its table, and
\* every height a goroutine carries is 0, the genesis height or a stored block.
OpsBelong ==
    \A p \in Proc :
        /\ op[p].stage = "save"
              => Belongs(op[p]) \/ KnownlyWrong(op[p].table, op[p])
        /\ op[p].height <= InitialHeight \/ op[p].height \in block

\* The invariants are inductive only together with what goroutines carry.
IInv == TypeOK /\ LatestWins /\ RowsBelong /\ RowsNotAheadOfBlocks /\ OpsBelong

-----------------------------------------------------------------------------
\* Starting a refresh at a height the goroutine may carry preserves IInv.
LEMMA BeginPreserves ==
    ASSUME IInv, NEW p \in Proc, NEW t \in AllTables, NEW h \in 0..MaxHeight,
           h <= InitialHeight \/ h \in block,
           Begin(p, t, h)
    PROVE  IInv'
<1> USE BoundsAssumption, NoRowAssumption
        DEF IInv, TypeOK, Row, Op, Idle, InitialHeight
<1>1. TypeOK'
  BY DEF Begin
<1>2. (LatestWins /\ RowsBelong /\ RowsNotAheadOfBlocks)'
  BY DEF Begin, LatestWins, RowsBelong, Belongs, KnownlyWrong, RowsNotAheadOfBlocks
<1>3. OpsBelong'
  BY DEF Begin, OpsBelong, Belongs, KnownlyWrong
<1> QED BY <1>1, <1>2, <1>3

\* The guarded upsert preserves IInv: it keeps the larger height.
LEMMA SavePreserves ==
    ASSUME IInv, NEW p \in Proc, NEW t \in AllTables, Save(p, t)
    PROVE  IInv'
<1> USE BoundsAssumption, NoRowAssumption
        DEF IInv, TypeOK, Row, Op, Idle, InitialHeight
<1>0. t \in Tables
  BY DEF Save, AllTables, PeriodicTables, ParamsTables, AverageTables, WindowTables, FromGenesis
<1>1. TypeOK'
  BY <1>0 DEF Save
<1>2. LatestWins'
  <2> DEFINE h == op[p].height
  <2>1. h \in Nat /\ [height |-> h, asOf |-> op[p].asOf] # NoRow
    OBVIOUS
  <2>2. saved'[t] = saved[t] \cup {h} /\ saved'[t] # {}
    BY <1>0 DEF Save
  <2>3. ASSUME NEW u \in Tables, u # t
        PROVE  row'[u] = row[u] /\ saved'[u] = saved[u]
    BY <1>0, <2>3 DEF Save
  <2>4. CASE Accepts(row[t], h)
    <3>1. row'[t] = [height |-> h, asOf |-> op[p].asOf]
      BY <1>0, <2>4 DEF Save
    <3>2. row'[t].height = h
      BY <3>1
    <3>3. \A k \in saved[t] : k <= h
      BY <1>0, <2>1, <2>4 DEF LatestWins, Accepts
    <3>4. /\ row'[t] # NoRow /\ row'[t].height \in saved'[t]
          /\ \A k \in saved'[t] : k <= row'[t].height
      <4>1. row'[t] # NoRow
        BY <2>1, <3>1
      <4>2. \A k \in saved[t] \cup {h} : k <= h
        BY <2>1, <3>3
      <4> QED BY <2>2, <3>2, <4>1, <4>2
    <3> QED BY <1>0, <2>2, <2>3, <3>4 DEF LatestWins
  <2>5. CASE ~Accepts(row[t], h)
    <3>1. row'[t] = row[t] /\ row[t] # NoRow /\ row[t].height \in Nat
      BY <1>0, <2>5 DEF Save, Accepts
    <3>2. h <= row[t].height
      BY <2>1, <2>5, <3>1 DEF Accepts
    <3> QED BY <1>0, <2>2, <2>3, <3>1, <3>2 DEF LatestWins
  <2> QED BY <2>4, <2>5
<1>3. RowsBelong'
  BY <1>0 DEF Save, RowsBelong, OpsBelong, Belongs, KnownlyWrong, Accepts
<1>4. RowsNotAheadOfBlocks'
  BY <1>0 DEF Save, RowsNotAheadOfBlocks, OpsBelong, Accepts
<1>5. OpsBelong'
  BY DEF Save, OpsBelong, Belongs, KnownlyWrong
<1> QED BY <1>1, <1>2, <1>3, <1>4, <1>5

\* Pruning removes whole rows together with their history.
LEMMA PrunePreserves ==
    ASSUME IInv, NEW h \in 0..MaxHeight, Prune(h)
    PROVE  IInv'
<1> USE BoundsAssumption, NoRowAssumption
        DEF IInv, TypeOK, Row, Op, InitialHeight, Prune
<1>1. TypeOK'
  OBVIOUS
<1>2. LatestWins'
  BY DEF LatestWins
<1>3. RowsBelong'
  BY DEF RowsBelong, Belongs, KnownlyWrong
<1>4. RowsNotAheadOfBlocks'
  BY DEF RowsNotAheadOfBlocks
<1>5. OpsBelong'
  BY DEF OpsBelong, Belongs, KnownlyWrong
<1> QED BY <1>1, <1>2, <1>3, <1>4, <1>5

\* The node's answer is the state at the height the goroutine carries.
LEMMA QueryPreserves ==
    ASSUME IInv, NEW p \in Proc, Query(p)
    PROVE  IInv'
<1> USE BoundsAssumption, NoRowAssumption
        DEF IInv, TypeOK, Row, Op, Idle, InitialHeight, Query,
            QueryAnswered, GetBlockHeightTime, QueryFailed, QueryFailureSwallowed
<1>1. TypeOK'
  BY DEF StateAt, ZeroValue, NotANumber
<1>2. (LatestWins /\ RowsBelong /\ RowsNotAheadOfBlocks)'
  BY DEF LatestWins, RowsBelong, Belongs, KnownlyWrong, RowsNotAheadOfBlocks
<1>3. OpsBelong'
  BY DEF OpsBelong, Belongs, KnownlyWrong, StateAt, AfterSwallowed
<1> QED BY <1>1, <1>2, <1>3

-----------------------------------------------------------------------------
LEMMA IInvInit == Init => IInv
BY BoundsAssumption, NoRowAssumption
   DEF Init, IInv, TypeOK, Row, Op, Idle, InitialHeight, LatestWins,
       RowsBelong, RowsNotAheadOfBlocks, OpsBelong, Belongs, KnownlyWrong

LEMMA IInvStep == IInv /\ [Next]_vars => IInv'
<1> SUFFICES ASSUME IInv, [Next]_vars PROVE IInv'
  OBVIOUS
<1> USE DEF IInv
<1>1. CASE NewBlock
  BY <1>1, BoundsAssumption
     DEF NewBlock, TypeOK, LatestWins, RowsBelong, Belongs, KnownlyWrong,
         RowsNotAheadOfBlocks, OpsBelong
<1>2. CASE \E h \in 1..MaxHeight : SaveBlock(h)
  BY <1>2 DEF SaveBlock, TypeOK, LatestWins, RowsBelong, Belongs, KnownlyWrong,
              RowsNotAheadOfBlocks, OpsBelong
<1>3. ASSUME NEW p \in Proc, RefreshStart(p) PROVE IInv'
  <2>1. ASSUME NEW h \in 0..MaxHeight, NEW t \in AllTables,
               GetLastBlockHeight(h) \/ h \in block, Begin(p, t, h)
        PROVE  IInv'
    BY <2>1, BeginPreserves DEF GetLastBlockHeight, InitialHeight
  <2>2. ASSUME NEW t \in ParamsTables, HandleGenesis(p, t) PROVE IInv'
    <3> USE <2>2, BoundsAssumption DEF HandleGenesis
    <3>1. TypeOK'
      BY DEF TypeOK, Op, Idle, InitialHeight, GenesisState
    <3>2. (LatestWins /\ RowsBelong /\ RowsNotAheadOfBlocks)'
      BY DEF LatestWins, RowsBelong, Belongs, KnownlyWrong, RowsNotAheadOfBlocks
    <3>3. OpsBelong'
      BY DEF TypeOK, Op, OpsBelong, Belongs, KnownlyWrong, InitialHeight, GenesisState
    <3> QED BY <3>1, <3>2, <3>3
  <2> QED
    BY <1>3, <2>1, <2>2
       DEF RefreshStart, UpdateSupply, UpdateInflation, UpdateStakingPool,
           GetLatestCommunityPool, HandleMsgFundCommunityPool,
           UpdateStakingParams, UpdateMintParams, UpdateDistributionParams,
           UpdateSlashingParams, UpdateGovParams, UpdateBlockTime,
           UpdateBlockTimeInMinute, UpdateBlockTimeInHour, UpdateBlockTimeInDay,
           UpdateBlockTimeFromGenesis,
           AllTables, PeriodicTables, ParamsTables, AverageTables,
           WindowTables, FromGenesis
<1>4. ASSUME NEW p \in Proc, RefreshEnd(p) PROVE IInv'
  BY <1>4, SavePreserves
     DEF RefreshEnd, SaveSupply, SaveInflation, SaveStakingPool,
         SaveCommunityPool, SaveStakingParams, SaveMintParams,
         SaveDistributionParams, SaveSlashingParams, SaveGovParams,
         SaveAverageBlockTimePerMin, SaveAverageBlockTimePerHour,
         SaveAverageBlockTimePerDay, SaveAverageBlockTimeGenesis,
         AllTables, PeriodicTables, ParamsTables, AverageTables,
         WindowTables, FromGenesis
<1>5. CASE Crash
  <2> USE <1>5, BoundsAssumption DEF Crash
  <2>1. TypeOK'
    BY DEF TypeOK, Op, Idle
  <2>2. (LatestWins /\ RowsBelong /\ RowsNotAheadOfBlocks)'
    BY DEF LatestWins, RowsBelong, Belongs, KnownlyWrong, RowsNotAheadOfBlocks
  <2>3. OpsBelong'
    BY DEF OpsBelong, Belongs, KnownlyWrong, Idle, InitialHeight
  <2> QED BY <2>1, <2>2, <2>3
<1>6. CASE UNCHANGED vars
  BY <1>6 DEF vars, TypeOK, LatestWins, RowsBelong, Belongs, KnownlyWrong,
              RowsNotAheadOfBlocks, OpsBelong
<1> QED
  BY <1>1, <1>2, <1>3, <1>4, <1>5, <1>6, QueryPreserves, PrunePreserves
     DEF Next

LEMMA IInvHolds == Spec => []IInv
BY IInvInit, IInvStep, PTL DEF Spec

-----------------------------------------------------------------------------
\* Type correctness of the tables and of the refreshing goroutines.
THEOREM TypeCorrect == Spec => []TypeOK
<1>1. IInv => TypeOK
  BY DEF IInv
<1> QED BY <1>1, IInvHolds, PTL

\* `WHERE table.height <= excluded.height` makes the most recent height win
\* in every interleaving of refreshes, prunings and crashes.
THEOREM LatestHeightWins == Spec => []LatestWins
<1>1. IInv => LatestWins
  BY DEF IInv
<1> QED BY <1>1, IInvHolds, PTL

\* A stored value is the chain's value at the height stored with it, or one of the
\* three values that queries failing unnoticed and the genesis block leave.
THEOREM StoredValuesBelong == Spec => []RowsBelong
<1>1. IInv => RowsBelong
  BY DEF IInv
<1> QED BY <1>1, IInvHolds, PTL

\* No table shows a height whose block is not stored.
THEOREM TablesNotAhead == Spec => []RowsNotAheadOfBlocks
<1>1. IInv => RowsNotAheadOfBlocks
  BY DEF IInv
<1> QED BY <1>1, IInvHolds, PTL

-----------------------------------------------------------------------------
\* Saving maps to a write of the register or leaves it alone.
LEMMA SaveRefines ==
    ASSUME IInv, NEW p \in Proc, NEW t \in AllTables, Save(p, t)
    PROVE  Registers!Next
<1>1. t \in Tables
  BY DEF Save, AllTables, PeriodicTables, ParamsTables, AverageTables, WindowTables, FromGenesis, IInv, TypeOK, Op
<1>2. /\ op[p].height \in Nat /\ op[p].asOf \in Int
      /\ [height |-> op[p].height, asOf |-> op[p].asOf] # NoRow
  BY NoRowAssumption DEF IInv, TypeOK, Op
<1> QED
  BY <1>1, <1>2
     DEF IInv, TypeOK, Row, Save, Accepts, Registers!Next, Registers!Write

\* Every table behaves as the versioned register its readers rely on.
THEOREM TablesImplementRegisters == Spec => TablesAreRegisters
<1>1. Init => Registers!Init
  BY DEF Init, Registers!Init
<1>2. IInv /\ [Next]_vars => [Registers!Next]_row
  <2> SUFFICES ASSUME IInv, [Next]_vars PROVE [Registers!Next]_row
    OBVIOUS
  <2>1. ASSUME NEW p \in Proc, RefreshEnd(p) PROVE Registers!Next
    BY <2>1, SaveRefines
       DEF RefreshEnd, SaveSupply, SaveInflation, SaveStakingPool,
           SaveCommunityPool, SaveStakingParams, SaveMintParams,
           SaveDistributionParams, SaveSlashingParams, SaveGovParams,
         SaveAverageBlockTimePerMin, SaveAverageBlockTimePerHour,
         SaveAverageBlockTimePerDay, SaveAverageBlockTimeGenesis,
           AllTables, PeriodicTables, ParamsTables, AverageTables,
           WindowTables, FromGenesis
  <2>2. ASSUME NEW h \in 0..MaxHeight, Prune(h) PROVE Registers!Next
    BY <2>2 DEF Prune, Registers!Next, Registers!Clear
  <2>3. ASSUME NEW p \in Proc, RefreshStart(p) \/ Query(p)
        PROVE  UNCHANGED row
    BY <2>3
       DEF RefreshStart, Query, QueryAnswered, GetBlockHeightTime, QueryFailed,
           QueryFailureSwallowed, UpdateSupply, UpdateInflation,
           UpdateStakingPool, GetLatestCommunityPool,
           HandleMsgFundCommunityPool, UpdateStakingParams,
           UpdateMintParams, UpdateDistributionParams,
           UpdateSlashingParams, UpdateGovParams, UpdateBlockTime,
           UpdateBlockTimeInMinute, UpdateBlockTimeInHour, UpdateBlockTimeInDay,
           UpdateBlockTimeFromGenesis, HandleGenesis, Begin
  <2> QED
    BY <2>1, <2>2, <2>3 DEF Next, NewBlock, SaveBlock, Crash, vars
<1> QED
  BY <1>1, <1>2, IInvHolds, PTL DEF Spec, TablesAreRegisters, Registers!Spec
=============================================================================
