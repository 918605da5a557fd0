--------------------------- MODULE StakingProofs ---------------------------
(***************************************************************************)
(* Proofs about the validator tables, for any validators, proposals,       *)
(* goroutines, chain and bounds.                                           *)
(***************************************************************************)
EXTENDS Staking, TLAPS

Keys == Tables \X Address

\* The shape of an evidence goroutine: it has a place in the list of its block.
RoutinesOK ==
    /\ routine \in [Routine -> [height: 0..MaxHeight, next: Nat, vote: {"a", "b"},
                                gone: BOOLEAN]]
    /\ \A r \in Routine : routine[r].height # 0 => Evidence[routine[r].height] # << >>

\* What a goroutine carries belongs to the height it carries, and a block handler
\* carries all validators of its block.
OpBelongs(o) ==
    /\ o.kind = "block" =>
          /\ o.step = "info" /\ o.height \in block
          /\ o.batch = Present(o.height)
    /\ o.known => o.kind = "statuses" /\ o.height \in block
    /\ o.step \in {"info", "description", "commission"} =>
          o.height > 0 /\ o.asOf = o.height
    /\ o.step \in {"lookup", "power", "status", "snapshot"} =>
          o.height = 0 \/ o.asOf = o.height
    /\ o.step \in {"info", "description", "commission", "lookup"} =>
          o.todo \subseteq Validator
    /\ o.step = "snapshot" => o.todo \subseteq Proposal
    /\ o.step = "query" => o.kind = "statuses" /\ o.missing = 0 /\ o.done = {}

OpsBelong == \A p \in Proc : OpBelongs(op[p])

\* A refresh that found all bonded validators has saved what lies behind it.
RefreshOK(o) ==
    /\ o.asOf = o.height /\ o.height \in block
    /\ o.batch = Bonded(o.height) /\ o.missing = 0 /\ o.batch \subseteq validator
    /\ \/ o.step = "lookup" /\ o.done \cup o.todo = o.batch
       \/ o.step \in {"power", "status"} /\ o.done = o.batch
       \/ o.step = "snapshot"
    /\ o.step \in {"status", "snapshot"} =>
          \A v \in o.batch : AtLeast("power", v, o.height)
    /\ o.step = "snapshot" =>
          \A v \in o.batch : \A t \in {"status"} \cup (Proposal \ o.todo) :
              AtLeast(t, v, o.height)

RefreshesOK == \A p \in Proc : op[p].known => RefreshOK(op[p])

-----------------------------------------------------------------------------
\* What a step may do to a row: write it, not older than it was, or prune it.
RowStep(k) ==
    \/ row'[k] = row[k]
    \/ /\ row'[k] \in Row
       /\ row[k] # NoRow => row[k].height <= row'[k].height
    \/ /\ row'[k] = NoRow /\ row[k] # NoRow /\ k[1] \in PrunedTables
       /\ row[k].height <= pruned'

\* The guarded upsert writes the rows of its addresses, and no older than they were.
LEMMA UpsertWrites ==
    ASSUME TypeOK, NEW t, NEW addresses, NEW h \in Nat, NEW a \in Nat,
           Upsert(t, addresses, h, a)
    PROVE  /\ row' \in [Keys -> Row \cup {NoRow}]
           /\ \A k \in Keys : RowStep(k)
           /\ \A k \in Keys : \/ row'[k] = row[k]
                              \/ k[1] = t /\ row'[k] = [height |-> h, asOf |-> a]
           /\ \A k \in Keys : k[1] = t /\ k[2] \in addresses =>
                 row'[k] # NoRow /\ row'[k].height >= h
<1> USE NamesAssumption DEF Keys
<1>1. [height |-> h, asOf |-> a] \in Row /\ row \in [Keys -> Row \cup {NoRow}]
  BY DEF Row, TypeOK
<1>2. \A k \in Keys : row'[k] = IF k[1] = t /\ k[2] \in addresses /\ Accepts(row[k], h)
                               THEN [height |-> h, asOf |-> a] ELSE row[k]
  BY DEF Upsert
<1>3. row' \in [Keys -> Row \cup {NoRow}]
  BY <1>1 DEF Upsert
<1>4. ASSUME NEW k \in Keys
      PROVE  /\ RowStep(k)
             /\ \/ row'[k] = row[k]
                \/ k[1] = t /\ row'[k] = [height |-> h, asOf |-> a]
             /\ k[1] = t /\ k[2] \in addresses => row'[k] # NoRow /\ row'[k].height >= h
  <2>1. CASE k[1] = t /\ k[2] \in addresses /\ Accepts(row[k], h)
    <3>1. row'[k] = [height |-> h, asOf |-> a]
      BY <1>2, <2>1
    <3> QED BY <1>1, <2>1, <3>1 DEF RowStep, Accepts
  <2>2. CASE ~(k[1] = t /\ k[2] \in addresses /\ Accepts(row[k], h))
    <3>1. row'[k] = row[k]
      BY <1>2, <2>2
    <3>2. row[k] = NoRow \/ row[k].height \in Nat
      BY <1>1 DEF Row
    <3> QED BY <2>2, <3>1, <3>2 DEF RowStep, Accepts
  <2> QED BY <2>1, <2>2
<1> QED BY <1>3, <1>4

\* The statuses are upserted likewise, the empty address with height 0.
LEMMA StatusesWrite ==
    ASSUME TypeOK, NEW p \in Proc, SaveValidatorsStatuses(p)
    PROVE  /\ row' \in [Keys -> Row \cup {NoRow}]
           /\ \A k \in Keys : RowStep(k)
           /\ \A k \in Keys :
                 \/ row'[k] = row[k]
                 \/ /\ k[1] = "status"
                    /\ \/ row'[k] = [height |-> 0, asOf |-> 0]
                       \/ row'[k] = [height |-> op[p].height, asOf |-> op[p].asOf]
           /\ op[p].missing = 0 => \A v \in op[p].done :
                 row'[<<"status", v>>] # NoRow /\ row'[<<"status", v>>].height >= op[p].height
<1> USE NamesAssumption DEF Keys
<1> DEFINE h == op[p].height
           new == [height |-> h, asOf |-> op[p].asOf]
           zero == [height |-> 0, asOf |-> 0]
<1>1. /\ new \in Row /\ zero \in Row /\ row \in [Keys -> Row \cup {NoRow}]
      /\ h \in Nat /\ op[p].done \subseteq Validator /\ op[p].missing \in Nat
  BY DEF Row, TypeOK, Op
<1>2. row' = IF op[p].missing > 1 THEN row
             ELSE [k \in Keys |->
                    CASE k[1] = "status" /\ k[2] \in op[p].done /\ Accepts(row[k], h) -> new
                      [] k = <<"status", Nobody>> /\ op[p].missing = 1
                            /\ Accepts(row[k], 0) -> zero
                      [] OTHER -> row[k]]
  BY DEF SaveValidatorsStatuses
<1>3. ASSUME NEW k \in Keys
      PROVE  /\ row'[k] \in Row \cup {NoRow}
             /\ RowStep(k)
             /\ \/ row'[k] = row[k]
                \/ k[1] = "status" /\ (row'[k] = zero \/ row'[k] = new)
  <2>0. row[k] \in Row \cup {NoRow}
    BY <1>1
  <2>1. CASE /\ ~(op[p].missing > 1)
             /\ k[1] = "status" /\ k[2] \in op[p].done /\ Accepts(row[k], h)
    <3>0. k # <<"status", Nobody>>
      BY <1>1, <2>1
    <3>1. row'[k] = new
      BY <1>2, <2>1, <3>0
    <3> QED BY <1>1, <2>0, <2>1, <3>1 DEF RowStep, Accepts
  <2>2. CASE /\ ~(op[p].missing > 1)
             /\ ~(k[1] = "status" /\ k[2] \in op[p].done /\ Accepts(row[k], h))
             /\ k = <<"status", Nobody>> /\ op[p].missing = 1 /\ Accepts(row[k], 0)
    <3>1. row'[k] = zero
      BY <1>2, <2>2
    <3> QED BY <1>1, <2>0, <2>2, <3>1 DEF RowStep, Accepts
  <2>3. CASE \/ op[p].missing > 1
             \/ /\ ~(k[1] = "status" /\ k[2] \in op[p].done /\ Accepts(row[k], h))
                /\ ~(k = <<"status", Nobody>> /\ op[p].missing = 1 /\ Accepts(row[k], 0))
    <3>1. row'[k] = row[k]
      BY <1>2, <2>3
    <3> QED BY <2>0, <3>1 DEF RowStep
  <2> QED BY <2>1, <2>2, <2>3
<1>4. row' \in [Keys -> Row \cup {NoRow}]
  BY <1>1, <1>2, <1>3
<1>5. ASSUME op[p].missing = 0, NEW v \in op[p].done
      PROVE  row'[<<"status", v>>] # NoRow /\ row'[<<"status", v>>].height >= h
  <2> DEFINE k == <<"status", v>>
  <2>1. k \in Keys /\ k[1] = "status" /\ k[2] = v
    BY <1>1 DEF Tables, Address
  <2>2. CASE Accepts(row[k], h)
    BY <1>1, <1>2, <1>5, <2>1, <2>2
  <2>3. CASE ~Accepts(row[k], h)
    <3>1. row'[k] = row[k]
      BY <1>2, <1>5, <2>1, <2>3
    <3> QED BY <1>1, <2>1, <2>3, <3>1 DEF Accepts, Row
  <2> QED BY <2>2, <2>3
<1> QED BY <1>3, <1>4, <1>5

\* Pruning removes rows of the pruned height, of the pruned tables.
LEMMA PruneRemoves ==
    ASSUME TypeOK, NEW h \in Heights, Prune(h)
    PROVE  /\ row' \in [Keys -> Row \cup {NoRow}]
           /\ \A k \in Keys : RowStep(k)
           /\ \A k \in Keys : row'[k] = row[k] \/ row'[k] = NoRow
           /\ pruned' \in 0..MaxHeight /\ pruned <= pruned'
<1> USE NamesAssumption, BoundsAssumption DEF Keys
<1>1. row \in [Keys -> Row \cup {NoRow}] /\ pruned \in 0..MaxHeight
  BY DEF TypeOK
<1>2. pruned' \in 0..MaxHeight /\ pruned <= pruned' /\ h <= pruned'
  BY <1>1 DEF Prune, Heights
<1>3. row' = [k \in Keys |->
                IF k[1] \in PrunedTables /\ row[k] # NoRow /\ row[k].height = h
                THEN NoRow ELSE row[k]]
  BY DEF Prune
<1>4. ASSUME NEW k \in Keys
      PROVE  (row'[k] = row[k] \/ row'[k] = NoRow) /\ RowStep(k)
  BY <1>1, <1>2, <1>3 DEF RowStep, Row, Heights
<1> QED BY <1>1, <1>2, <1>3, <1>4

-----------------------------------------------------------------------------
\* The inductive invariant of the rows.
IInv == TypeOK /\ RoutinesOK /\ OpsBelong /\ RowsBelong

LEMMA IdleOp == Idle \in Op /\ OpBelongs(Idle)
BY DEF Idle, Op, OpBelongs

\* A step of one goroutine keeps what the others carry.
LEMMA OpStep ==
    ASSUME TypeOK, OpsBelong, NEW p \in Proc, NEW o \in Op, OpBelongs(o),
           op' = [op EXCEPT ![p] = o], UNCHANGED <<chain, block>>
    PROVE  op' \in [Proc -> Op] /\ OpsBelong'
<1>1. op' \in [Proc -> Op]
  BY DEF TypeOK
<1>2. chain' = chain /\ block' = block
  OBVIOUS
<1>3. ASSUME NEW q \in Proc PROVE OpBelongs(op[q])'
  <2>1. OpBelongs(op'[q])
    BY DEF TypeOK, OpsBelong
  <2> QED BY <1>2, <2>1 DEF OpBelongs, Present
<1> QED BY <1>1, <1>3 DEF OpsBelong

\* A step that leaves the database alone needs to be looked at for its goroutine only.
LEMMA OpStepPreserves ==
    ASSUME IInv, NEW p \in Proc, NEW o \in Op, OpBelongs(o),
           op' = [op EXCEPT ![p] = o],
           UNCHANGED <<chain, tables, routine, history>>,
           failures' \in 0..MaxFailures
    PROVE  IInv'
<1> USE DEF IInv, tables, history
<1>1. op' \in [Proc -> Op] /\ OpsBelong'
  BY OpStep
<1>2. TypeOK'
  BY <1>1 DEF TypeOK
<1>3. RoutinesOK' /\ RowsBelong'
  BY DEF RoutinesOK, RowsBelong
<1> QED BY <1>1, <1>2, <1>3

LEMMA IInvInit == Init => IInv
<1> SUFFICES ASSUME Init PROVE IInv
  OBVIOUS
<1> USE BoundsAssumption DEF Init
<1>1. OpsBelong /\ op \in [Proc -> Op]
  BY IdleOp DEF OpsBelong
<1>2. RoutinesOK
  BY DEF RoutinesOK, NoRoutine
<1>3. RowsBelong
  BY DEF RowsBelong
<1>4. TypeOK
  BY <1>1 DEF TypeOK, NoRoutine
<1> QED BY <1>1, <1>2, <1>3, <1>4 DEF IInv

-----------------------------------------------------------------------------
(* The chain and the start of a handler.                                   *)

\* The states of the blocks there are do not change.
LEMMA ChainGrows ==
    ASSUME TypeOK, NewBlock
    PROVE  /\ chain' \in Seq(ChainState) /\ Len(chain) \in Nat
           /\ Len(chain') = Len(chain) + 1 /\ Len(chain') <= MaxHeight
           /\ \A h \in 1..Len(chain) : chain'[h] = chain[h]
BY BoundsAssumption DEF NewBlock, TypeOK

LEMMA NewBlockPreserves == ASSUME IInv, NewBlock PROVE IInv'
<1> USE DEF IInv
<1>1. UNCHANGED <<tables, op, routine, history, failures>>
  BY DEF NewBlock
<1>2. TypeOK'
  BY <1>1, ChainGrows DEF TypeOK, tables, history
<1>3. OpsBelong'
  <2>1. \A h \in block : Present(h)' = Present(h)
    BY ChainGrows DEF Present, TypeOK
  <2>2. ASSUME NEW p \in Proc PROVE OpBelongs(op[p])'
    BY <1>1, <2>1 DEF OpsBelong, OpBelongs, tables
  <2> QED BY <1>1, <2>2 DEF OpsBelong
<1>4. RoutinesOK' /\ RowsBelong'
  BY <1>1 DEF RoutinesOK, RowsBelong, tables
<1> QED BY <1>2, <1>3, <1>4

LEMMA SaveBlockPreserves ==
    ASSUME IInv, NEW h \in Heights, SaveBlock(h)
    PROVE  IInv'
<1> USE DEF IInv, SaveBlock
<1>0. Signers(h) \subseteq Address
  BY DEF Signers, Bonded, Address
<1>1. TypeOK'
  BY <1>0 DEF TypeOK, history
<1>2. OpsBelong'
  <2>1. ASSUME NEW p \in Proc PROVE OpBelongs(op[p])'
    BY DEF OpsBelong, OpBelongs, Present
  <2> QED BY <2>1 DEF OpsBelong
<1>3. RoutinesOK' /\ RowsBelong'
  BY DEF RoutinesOK, RowsBelong
<1> QED BY <1>1, <1>2, <1>3

\* Blocks have heights within the bound.
LEMMA BlockHeights == TypeOK => \A h \in block : h \in 1..Len(chain) /\ h \in Heights
BY BoundsAssumption DEF TypeOK, Heights

LEMMA StartPreserves ==
    ASSUME IInv, NEW p \in Proc, NEW kind \in {"block", "refresh"}, NEW h \in 1..Len(chain),
           NEW batch \in SUBSET Validator, NEW todo \in SUBSET Validator,
           kind = "block" => h \in block /\ batch = Present(h),
           Start(p, kind, h, batch, todo)
    PROVE  IInv'
<1> DEFINE o == [Idle EXCEPT !.kind = kind, !.step = "info", !.height = h, !.asOf = h,
                             !.batch = batch, !.todo = todo]
<1>0. h \in Nat /\ h > 0
  BY DEF IInv, TypeOK
<1>1. o \in Op /\ OpBelongs(o)
  BY <1>0 DEF Idle, Op, OpBelongs
<1>2. op' = [op EXCEPT ![p] = o] /\ UNCHANGED <<chain, tables, routine, history, failures>>
  BY DEF Start
<1>3. failures' \in 0..MaxFailures
  BY <1>2 DEF IInv, TypeOK
<1> QED BY <1>1, <1>2, <1>3, OpStepPreserves

LEMMA BeginPreserves == ASSUME IInv, NEW p \in Proc, Begin(p) PROVE IInv'
<1>0. \A h : Present(h) \in SUBSET Validator
  BY DEF Present
<1>1. ASSUME NEW h \in 1..Len(chain), HandleBlock(p, h) PROVE IInv'
  BY <1>0, <1>1, StartPreserves DEF HandleBlock, getValidators
<1>2. ASSUME NEW h \in 1..Len(chain), NEW v \in Validator, HandleMsg(p, h, v) PROVE IInv'
  BY <1>2, StartPreserves DEF HandleMsg
<1>3. ASSUME NEW h \in 1..Len(chain), NEW v \in Validator,
             RefreshAllValidatorInfos(p, h, v)
      PROVE  IInv'
  <2>1. Present(h) \ {v} \in SUBSET Validator
    BY <1>0
  <2> QED BY <1>3, <2>1, StartPreserves DEF RefreshAllValidatorInfos
<1>4. ASSUME NEW v \in Validator, HandleGenesis(p, v) PROVE IInv'
  <2>1. 1 \in 1..Len(chain)
    BY <1>4 DEF HandleGenesis, IInv, TypeOK
  <2>2. Present(1) \ {v} \in SUBSET Validator /\ {v} \in SUBSET Validator
    BY <1>0
  <2>3. CASE Start(p, "refresh", 1, {v}, Present(1) \ {v})
    BY <2>1, <2>2, <2>3, StartPreserves
  <2>4. CASE Start(p, "refresh", 1, Present(1), {})
    BY <1>0, <2>1, <2>4, StartPreserves
  <2> QED BY <1>4, <2>3, <2>4 DEF HandleGenesis
<1>5. ASSUME NEW h \in 0..MaxHeight, UpdateValidatorStatuses(p, h) PROVE IInv'
  <2> DEFINE o == [Idle EXCEPT !.kind = "statuses", !.step = "query", !.height = h]
  <2>0. h \in Nat
    BY BoundsAssumption
  <2>1. o \in Op /\ OpBelongs(o)
    BY <2>0 DEF Idle, Op, OpBelongs
  <2>2. op' = [op EXCEPT ![p] = o]
        /\ UNCHANGED <<chain, tables, routine, history, failures>>
    BY <1>5 DEF UpdateValidatorStatuses
  <2>3. failures' \in 0..MaxFailures
    BY <2>2 DEF IInv, TypeOK
  <2> QED BY <2>1, <2>2, <2>3, OpStepPreserves
<1> QED BY <1>1, <1>2, <1>3, <1>4, <1>5 DEF Begin


-----------------------------------------------------------------------------
(* The statements.                                                         *)

\* The evidence goroutines are where their lists let them be.
RoutinePlaces ==
    \A r \in Routine : routine[r].height # 0 =>
        routine[r].next \in 1..Len(Evidence[routine[r].height]) + 1

\* What RowsBelong says of one row.
RowBelongs(k) ==
    row[k] # NoRow => \/ row[k].height > 0 /\ row[k].asOf = row[k].height
                      \/ row[k].height = 0 /\ k[1] \in {"status"} \cup Proposal

\* A step of a handler that writes rows that belong keeps the invariant.
LEMMA WritePreserves ==
    ASSUME IInv, NEW p \in Proc, NEW o \in Op, OpBelongs(o),
           op' = [op EXCEPT ![p] = o],
           UNCHANGED <<chain, block, votes, evidence, pruned, failures>>,
           validator' \subseteq Address,
           row' \in [Keys -> Row \cup {NoRow}],
           \A k \in Keys : row'[k] = row[k] \/ RowBelongs(k)',
           RoutinesOK', RoutinePlaces',
           handled' \cup updated' \subseteq block
    PROVE  IInv'
<1> USE DEF IInv
<1>1. op' \in [Proc -> Op] /\ OpsBelong'
  BY OpStep
<1>2. TypeOK'
  BY <1>1 DEF TypeOK, RoutinePlaces, Keys
<1>3. RowsBelong'
  <2>1. ASSUME NEW k \in Keys PROVE RowBelongs(k)'
    BY DEF RowsBelong, RowBelongs, Keys
  <2> QED BY <2>1 DEF RowsBelong, RowBelongs, Keys
<1> QED BY <1>1, <1>2, <1>3

\* What a row upserted by a handler of blocks or messages holds.
LEMMA UpsertBelongs ==
    ASSUME TypeOK, NEW t, NEW addresses, NEW h \in Nat, NEW a \in Nat,
           Upsert(t, addresses, h, a),
           \/ h > 0 /\ a = h
           \/ h = 0 /\ t \in {"status"} \cup Proposal
           \/ addresses = {}
    PROVE  \A k \in Keys : row'[k] = row[k] \/ RowBelongs(k)'
<1> SUFFICES ASSUME NEW k \in Keys, row'[k] # row[k] PROVE RowBelongs(k)'
  OBVIOUS
<1>1. k[1] = t /\ row'[k] = [height |-> h, asOf |-> a]
  BY DEF Upsert, Keys
<1>2. addresses # {}
  BY DEF Upsert, Keys
<1> QED BY <1>1, <1>2 DEF RowBelongs

LEMMA RoutineTypes ==
    ASSUME IInv
    PROVE  RoutinesOK /\ RoutinePlaces
BY DEF IInv, TypeOK, RoutinePlaces

\* A new evidence goroutine starts at the head of its list.
LEMMA SpawnTypes ==
    ASSUME IInv, NEW h \in block, SpawnEvidence(h)
    PROVE  RoutinesOK' /\ RoutinePlaces'
<1>1. RoutinesOK /\ RoutinePlaces /\ h \in Heights /\ h \in 0..MaxHeight
  BY BlockHeights, RoutineTypes, BoundsAssumption DEF IInv, Heights
<1>2. CASE Evidence[h] = << >>
  BY <1>1, <1>2 DEF SpawnEvidence, RoutinesOK, RoutinePlaces
<1>3. CASE Evidence[h] # << >>
  <2>1. PICK r \in Routine :
            routine[r] = NoRoutine /\ routine' = [routine EXCEPT ![r].height = h]
    BY <1>3 DEF SpawnEvidence
  <2>2. Evidence[h] \in Seq([a: Vote, b: Vote])
    BY <1>1, EvidenceAssumption
  <2>3. Len(Evidence[h]) \in Nat
    BY <2>2
  <2> DEFINE n == [NoRoutine EXCEPT !.height = h]
  <2>4. /\ n \in [height: 0..MaxHeight, next: Nat, vote: {"a", "b"}, gone: BOOLEAN]
        /\ n.height = h /\ n.next = 1
        /\ routine' = [routine EXCEPT ![r] = n]
    BY <1>1, <2>1 DEF NoRoutine
  <2> HIDE DEF n
  <2>5. RoutinesOK'
    BY <1>1, <1>3, <2>4 DEF RoutinesOK
  <2>6. RoutinePlaces'
    BY <1>1, <2>3, <2>4 DEF RoutinePlaces, RoutinesOK
  <2> QED BY <2>5, <2>6
<1> QED BY <1>2, <1>3

LEMMA InfoPreserves ==
    ASSUME IInv, NEW p \in Proc, SaveValidatorsData(p)
    PROVE  IInv'
<1> USE DEF SaveValidatorsData
<1>1. op[p] \in Op /\ OpBelongs(op[p]) /\ TypeOK
  BY DEF IInv, TypeOK, OpsBelong
<1>2. /\ validator' \subseteq Address /\ handled' \cup updated' \subseteq block
      /\ op[p].height \in Nat /\ op[p].asOf \in Nat
      /\ op[p].height > 0 /\ op[p].asOf = op[p].height
      /\ op[p].kind = "block" => op[p].height \in block
  BY <1>1 DEF TypeOK, Op, OpBelongs, Address
<1>3. RoutinesOK /\ RoutinePlaces
  BY RoutineTypes
<1>4. CASE \E v \in op[p].batch : OperatorTaken(v)
  <2>1. op' = [op EXCEPT ![p] = Idle] /\ UNCHANGED <<row, routine>>
    BY <1>4 DEF Ends
  <2>2. RoutinesOK' /\ RoutinePlaces'
    BY <1>3, <2>1 DEF RoutinesOK, RoutinePlaces
  <2>3. row' \in [Keys -> Row \cup {NoRow}]
    BY <1>1, <2>1 DEF TypeOK, Keys
  <2> QED BY <1>2, <2>1, <2>2, <2>3, IdleOp, WritePreserves
<1>5. CASE ~(\E v \in op[p].batch : OperatorTaken(v))
  <2>1. Upsert("info", op[p].batch, op[p].height, op[p].asOf)
    BY <1>5
  <2>2. /\ row' \in [Keys -> Row \cup {NoRow}]
        /\ \A k \in Keys : row'[k] = row[k] \/ RowBelongs(k)'
    <3>1. row' \in [Keys -> Row \cup {NoRow}]
      BY <1>1, <1>2, <2>1, UpsertWrites
    <3>2. \A k \in Keys : row'[k] = row[k] \/ RowBelongs(k)'
      BY <1>1, <1>2, <2>1, UpsertBelongs
    <3> QED BY <3>1, <3>2
  <2>3. CASE op[p].kind = "block"
    <3>1. op' = [op EXCEPT ![p] = Idle] /\ SpawnEvidence(op[p].height)
      BY <1>5, <2>3 DEF Ends
    <3>2. RoutinesOK' /\ RoutinePlaces'
      BY <1>2, <2>3, <3>1, SpawnTypes
    <3> QED BY <1>2, <2>2, <3>1, <3>2, IdleOp, WritePreserves
  <2>4. CASE op[p].kind # "block"
    <3> DEFINE o == [op[p] EXCEPT !.step = "description"]
    <3>1. op' = [op EXCEPT ![p] = o] /\ UNCHANGED routine
      BY <1>1, <1>5, <2>4 DEF Goes
    <3>2. o \in Op /\ OpBelongs(o)
      BY <1>1, <2>4 DEF Op, OpBelongs
    <3>3. RoutinesOK' /\ RoutinePlaces'
      BY <1>3, <3>1 DEF RoutinesOK, RoutinePlaces
    <3> HIDE DEF o
    <3> QED BY <1>2, <2>2, <3>1, <3>2, <3>3, WritePreserves
  <2> QED BY <2>3, <2>4
<1> QED BY <1>4, <1>5

\* Description and commission, whatever validator the operator's infos belong to.
LEMMA EachPreserves ==
    ASSUME IInv, NEW p \in Proc, NEW t \in {"description", "commission"},
           NEW next \in Op, OpBelongs(next), SaveEach(p, t, next)
    PROVE  IInv'
<1> USE DEF SaveEach, history
<1>1. op[p] \in Op /\ OpBelongs(op[p]) /\ TypeOK
  BY DEF IInv, TypeOK, OpsBelong
<1>2. /\ validator' \subseteq Address /\ handled' \cup updated' \subseteq block
      /\ op[p].height \in Nat /\ op[p].asOf \in Nat
      /\ op[p].height > 0 /\ op[p].asOf = op[p].height
  BY <1>1 DEF TypeOK, Op, OpBelongs
<1>3. RoutinesOK' /\ RoutinePlaces'
  BY RoutineTypes DEF RoutinesOK, RoutinePlaces
<1> DEFINE more(v) == [op[p] EXCEPT !.done = @ \cup {v}]
<1>4. PICK v \in op[p].batch \ op[p].done :
         /\ Upsert(t, {ConsensusAddress(v)}, op[p].height, op[p].asOf)
         /\ op' = [op EXCEPT ![p] =
                      IF op[p].done \cup {v} # op[p].batch THEN more(v) ELSE next]
  OBVIOUS
<1>5. row' \in [Keys -> Row \cup {NoRow}]
  BY <1>1, <1>2, <1>4, UpsertWrites
<1>6. \A k \in Keys : row'[k] = row[k] \/ RowBelongs(k)'
  BY <1>1, <1>2, <1>4, UpsertBelongs
<1>7. more(v) \in Op /\ OpBelongs(more(v))
  BY <1>1 DEF Op, OpBelongs
<1> DEFINE o == IF op[p].done \cup {v} # op[p].batch THEN more(v) ELSE next
<1> HIDE DEF more
<1>8. o \in Op /\ OpBelongs(o)
  BY <1>7
<1>9. op' = [op EXCEPT ![p] = o]
  BY <1>4
<1> HIDE DEF o
<1> QED BY <1>2, <1>3, <1>5, <1>6, <1>8, <1>9, WritePreserves

LEMMA DescriptionPreserves ==
    ASSUME IInv, NEW p \in Proc, SaveValidatorDescription(p)
    PROVE  IInv'
<1>1. op[p] \in Op /\ OpBelongs(op[p]) /\ op[p].step = "description"
  BY DEF IInv, TypeOK, OpsBelong, SaveValidatorDescription, SaveEach
<1> DEFINE o == [op[p] EXCEPT !.step = "commission", !.done = {}]
<1>2. o \in Op /\ OpBelongs(o)
  BY <1>1 DEF Op, OpBelongs
<1>3. SaveEach(p, "description", o)
  BY DEF SaveValidatorDescription
<1> HIDE DEF o
<1> QED BY <1>2, <1>3, EachPreserves

LEMMA CommissionPreserves ==
    ASSUME IInv, NEW p \in Proc, SaveValidatorCommission(p)
    PROVE  IInv'
<1>1. op[p] \in Op /\ OpBelongs(op[p]) /\ op[p].step = "commission"
  BY DEF IInv, TypeOK, OpsBelong, SaveValidatorCommission, SaveEach
<1>2. CASE op[p].todo = {}
  BY <1>2, IdleOp, EachPreserves DEF SaveValidatorCommission
<1>3. CASE op[p].todo # {}
  <2>1. PICK w \in op[p].todo :
            SaveEach(p, "commission", [op[p] EXCEPT !.step = "info", !.done = {},
                                                    !.batch = {w}, !.todo = @ \ {w}])
    BY <1>3 DEF SaveValidatorCommission
  <2> DEFINE o == [op[p] EXCEPT !.step = "info", !.done = {},
                                !.batch = {w}, !.todo = @ \ {w}]
  <2>2. op[p].kind # "block"
    BY <1>1 DEF OpBelongs
  <2>3. w \in Validator
    BY <1>1 DEF OpBelongs
  <2>4. o \in Op /\ OpBelongs(o)
    BY <1>1, <2>2, <2>3 DEF Op, OpBelongs
  <2>5. SaveEach(p, "commission", o)
    BY <2>1
  <2> HIDE DEF o
  <2> QED BY <2>4, <2>5, EachPreserves
<1> QED BY <1>2, <1>3

LEMMA QueryPreserves == ASSUME IInv, NEW p \in Proc, QueryBonded(p) PROVE IInv'
<1>1. op[p] \in Op /\ OpBelongs(op[p]) /\ op[p].step = "query" /\ TypeOK
  BY DEF IInv, TypeOK, OpsBelong, QueryBonded
<1> DEFINE asOf == StateAt(op[p].height)
           batch == Bonded(asOf)
           known == batch \subseteq validator /\ op[p].height \in block
           o == [op[p] EXCEPT !.step = IF batch = {} THEN "power" ELSE "lookup",
                              !.asOf = asOf, !.batch = batch, !.todo = batch,
                              !.known = known]
<1>2. asOf \in Nat /\ batch \subseteq Validator /\ known \in BOOLEAN
  BY <1>1 DEF StateAt, Bonded, Op, TypeOK
<1>3. op[p].height = 0 \/ asOf = op[p].height
  BY DEF StateAt
<1>4. known => op[p].height \in block
  OBVIOUS
<1>5. op' = [op EXCEPT ![p] = o] /\ UNCHANGED <<chain, tables, routine, history, failures>>
  BY <1>1 DEF QueryBonded, TypeOK
<1> HIDE DEF asOf, batch, known
<1>6. o \in Op
  BY <1>1, <1>2 DEF Op
<1>7. op[p].kind = "statuses" => OpBelongs(o)
  BY <1>1, <1>2, <1>3, <1>4 DEF Op, OpBelongs
<1>8. op[p].kind = "statuses"
  BY <1>1 DEF OpBelongs
<1>9. failures' \in 0..MaxFailures
  BY <1>1, <1>5 DEF TypeOK
<1> HIDE DEF o
<1> QED BY <1>5, <1>6, <1>7, <1>8, <1>9, OpStepPreserves

LEMMA LookupPreserves == ASSUME IInv, NEW p \in Proc, HasValidator(p) PROVE IInv'
<1>1. op[p] \in Op /\ OpBelongs(op[p]) /\ op[p].step = "lookup" /\ TypeOK
  BY DEF IInv, TypeOK, OpsBelong, HasValidator
<1> DEFINE done(v) == op[p].done \cup (IF Found(v) THEN {v} ELSE {})
           missing(v) == op[p].missing + (IF Found(v) THEN 0 ELSE 1)
           step(v) == IF op[p].todo = {v} THEN "power" ELSE "lookup"
           o(v) == [op[p] EXCEPT !.todo = @ \ {v}, !.done = done(v),
                                 !.missing = missing(v), !.step = step(v)]
<1>2. PICK v \in op[p].todo : op' = [op EXCEPT ![p] = o(v)]
  BY <1>1 DEF HasValidator
<1>3. v \in Validator
  BY <1>1 DEF OpBelongs
<1>4. /\ done(v) \subseteq Validator /\ missing(v) \in Nat
      /\ step(v) \in {"power", "lookup"}
  BY <1>1, <1>3 DEF Op
<1>5. o(v) \in Op /\ OpBelongs(o(v))
  <2> HIDE DEF done, missing, step
  <2>1. o(v) \in Op
    BY <1>1, <1>4 DEF Op
  <2>2. OpBelongs(o(v))
    BY <1>1, <1>4 DEF Op, OpBelongs
  <2> QED BY <2>1, <2>2
<1>6. UNCHANGED <<chain, tables, routine, history, failures>> /\ failures' \in 0..MaxFailures
  BY <1>1 DEF HasValidator, TypeOK
<1> HIDE DEF o
<1> QED BY <1>2, <1>5, <1>6, OpStepPreserves

LEMMA PowersPreserve ==
    ASSUME IInv, NEW p \in Proc, SaveValidatorsVotingPowers(p)
    PROVE  IInv'
<1> USE DEF SaveValidatorsVotingPowers, history
<1>1. op[p] \in Op /\ OpBelongs(op[p]) /\ op[p].step = "power" /\ TypeOK
  BY DEF IInv, TypeOK, OpsBelong
<1>2. /\ validator' \subseteq Address /\ handled' \cup updated' \subseteq block
      /\ op[p].height \in Nat /\ op[p].asOf \in Nat
      /\ op[p].height = 0 \/ op[p].asOf = op[p].height
  BY <1>1 DEF TypeOK, Op, OpBelongs
<1>3. RoutinesOK' /\ RoutinePlaces'
  BY RoutineTypes DEF RoutinesOK, RoutinePlaces
<1> DEFINE o == [op[p] EXCEPT !.step = "status"]
<1>4. o \in Op /\ OpBelongs(o)
  BY <1>1 DEF Op, OpBelongs
<1>5. op' = [op EXCEPT ![p] = o]
  BY <1>1 DEF Goes
<1>6. /\ row' \in [Keys -> Row \cup {NoRow}]
      /\ \A k \in Keys : row'[k] = row[k] \/ RowBelongs(k)'
  <2>1. CASE op[p].missing = 0 /\ op[p].height \in block
    <3>1. Upsert("power", op[p].done, op[p].height, op[p].asOf)
      BY <2>1
    <3>2. op[p].height > 0
      BY <1>1, <1>2, <2>1, BlockHeights DEF Heights
    <3>3. row' \in [Keys -> Row \cup {NoRow}]
      BY <1>1, <1>2, <3>1, UpsertWrites
    <3>4. \A k \in Keys : row'[k] = row[k] \/ RowBelongs(k)'
      BY <1>1, <1>2, <3>1, <3>2, UpsertBelongs
    <3> QED BY <3>3, <3>4
  <2>2. CASE ~(op[p].missing = 0 /\ op[p].height \in block)
    BY <1>1, <2>2 DEF TypeOK, Keys
  <2> QED BY <2>1, <2>2
<1> HIDE DEF o
<1> QED BY <1>2, <1>3, <1>4, <1>5, <1>6, WritePreserves

LEMMA StatusesPreserve ==
    ASSUME IInv, NEW p \in Proc, SaveValidatorsStatuses(p)
    PROVE  IInv'
<1> USE DEF SaveValidatorsStatuses
<1>1. op[p] \in Op /\ OpBelongs(op[p]) /\ op[p].step = "status" /\ TypeOK
  BY DEF IInv, TypeOK, OpsBelong
<1>2. /\ op[p].height \in Nat /\ op[p].asOf \in Nat /\ op[p].done \subseteq Validator
      /\ op[p].height = 0 \/ op[p].asOf = op[p].height
      /\ op[p].known => op[p].height \in block
  BY <1>1 DEF TypeOK, Op, OpBelongs
<1>3. validator' \subseteq Address /\ handled' \cup updated' \subseteq block
  BY <1>1, <1>2 DEF TypeOK, Address
<1>4. RoutinesOK' /\ RoutinePlaces'
  BY RoutineTypes DEF RoutinesOK, RoutinePlaces
<1>5. row' \in [Keys -> Row \cup {NoRow}]
  BY <1>1, StatusesWrite
<1>6. ASSUME NEW k \in Keys, row'[k] # row[k] PROVE RowBelongs(k)'
  <2>1. /\ k[1] = "status"
        /\ \/ row'[k] = [height |-> 0, asOf |-> 0]
           \/ row'[k] = [height |-> op[p].height, asOf |-> op[p].asOf]
    BY <1>1, <1>6, StatusesWrite
  <2> QED BY <1>2, <2>1 DEF RowBelongs
<1>7. ASSUME NEW o \in Op, OpBelongs(o), op' = [op EXCEPT ![p] = o] PROVE IInv'
  BY <1>3, <1>4, <1>5, <1>6, <1>7, WritePreserves
<1>8. CASE Proposal = {}
  BY <1>7, <1>8, IdleOp DEF AfterStatuses, Ends
<1>9. CASE Proposal # {}
  <2> DEFINE o == [op[p] EXCEPT !.step = "snapshot", !.todo = Proposal]
  <2>1. o \in Op /\ OpBelongs(o)
    BY <1>1 DEF Op, OpBelongs
  <2>2. op' = [op EXCEPT ![p] = o]
    BY <1>1, <1>9 DEF AfterStatuses, TypeOK
  <2> HIDE DEF o
  <2> QED BY <1>7, <2>1, <2>2
<1> QED BY <1>8, <1>9

LEMMA SnapshotPreserves ==
    ASSUME IInv, NEW p \in Proc, UpdateProposalSnapshot(p)
    PROVE  IInv'
<1> USE DEF UpdateProposalSnapshot
<1>1. op[p] \in Op /\ OpBelongs(op[p]) /\ op[p].step = "snapshot" /\ TypeOK
  BY DEF IInv, TypeOK, OpsBelong
<1>2. /\ op[p].height \in Nat /\ op[p].asOf \in Nat
      /\ op[p].height = 0 \/ op[p].asOf = op[p].height
      /\ op[p].todo \subseteq Proposal
      /\ op[p].known => op[p].height \in block
  BY <1>1 DEF TypeOK, Op, OpBelongs
<1>3. validator' \subseteq Address /\ handled' \cup updated' \subseteq block
  BY <1>1, <1>2 DEF TypeOK
<1>4. RoutinesOK' /\ RoutinePlaces'
  BY RoutineTypes DEF RoutinesOK, RoutinePlaces
<1>5. ASSUME NEW o \in Op, OpBelongs(o), op' = [op EXCEPT ![p] = o],
             row' \in [Keys -> Row \cup {NoRow}],
             \A k \in Keys : row'[k] = row[k] \/ RowBelongs(k)'
      PROVE  IInv'
  BY <1>3, <1>4, <1>5, WritePreserves
<1>6. CASE op[p].batch \subseteq validator
  <2>1. PICK pr \in op[p].todo :
            /\ Upsert(pr, op[p].batch, op[p].height, op[p].asOf)
            /\ IF op[p].todo = {pr} THEN Ends(p)
               ELSE op' = [op EXCEPT ![p].todo = @ \ {pr}]
    BY <1>6
  <2>2. row' \in [Keys -> Row \cup {NoRow}]
    BY <1>1, <1>2, <2>1, UpsertWrites
  <2>3. \A k \in Keys : row'[k] = row[k] \/ RowBelongs(k)'
    <3>1. pr \in Proposal
      BY <1>2
    <3> QED BY <1>1, <1>2, <2>1, <3>1, UpsertBelongs
  <2>4. CASE op[p].todo = {pr}
    BY <1>5, <2>1, <2>2, <2>3, <2>4, IdleOp DEF Ends
  <2>5. CASE op[p].todo # {pr}
    <3> DEFINE o == [op[p] EXCEPT !.todo = @ \ {pr}]
    <3>1. o \in Op /\ OpBelongs(o)
      BY <1>1 DEF Op, OpBelongs
    <3>2. op' = [op EXCEPT ![p] = o]
      BY <2>1, <2>5
    <3> HIDE DEF o
    <3> QED BY <1>5, <2>2, <2>3, <3>1, <3>2
  <2> QED BY <2>4, <2>5
<1>7. CASE ~(op[p].batch \subseteq validator)
  <2>1. op' = [op EXCEPT ![p] = Idle] /\ UNCHANGED row
    BY <1>7 DEF Ends
  <2>2. row' \in [Keys -> Row \cup {NoRow}]
    BY <1>1, <2>1 DEF TypeOK, Keys
  <2> QED BY <1>5, <2>1, <2>2, IdleOp
<1> QED BY <1>6, <1>7

-----------------------------------------------------------------------------
(* Evidences, pruning and failures.                                        *)

\* A step that leaves the handlers and the rows alone.
LEMMA EvidenceStepPreserves ==
    ASSUME IInv, UNCHANGED <<chain, block, validator, op, handled, updated>>,
           row' \in [Keys -> Row \cup {NoRow}],
           \A k \in Keys : row'[k] = row[k] \/ row'[k] = NoRow,
           votes' \subseteq Vote, evidence' \in [Heights -> Nat],
           RoutinesOK', RoutinePlaces', pruned' \in 0..MaxHeight,
           failures' \in 0..MaxFailures
    PROVE  IInv'
<1> USE DEF IInv
<1>1. TypeOK'
  BY DEF TypeOK, RoutinePlaces, Keys
<1>2. OpsBelong'
  <2>1. ASSUME NEW p \in Proc PROVE OpBelongs(op[p])'
    BY DEF OpsBelong, OpBelongs, Present
  <2> QED BY <2>1 DEF OpsBelong
<1>3. RowsBelong'
  BY DEF RowsBelong, Keys
<1> QED BY <1>1, <1>2, <1>3

\* A goroutine that works on a list has its place in it.
LEMMA RoutineAt ==
    ASSUME IInv, NEW r \in Routine, routine[r].height # 0
    PROVE  /\ routine[r].height \in Heights
           /\ Evidence[routine[r].height] \in Seq([a: Vote, b: Vote])
           /\ Len(Evidence[routine[r].height]) \in Nat
           /\ routine[r].next \in 1..Len(Evidence[routine[r].height]) + 1
           /\ routine[r] \in [height: 0..MaxHeight, next: Nat, vote: {"a", "b"},
                              gone: BOOLEAN]
<1>1. routine[r] \in [height: 0..MaxHeight, next: Nat, vote: {"a", "b"}, gone: BOOLEAN]
  BY DEF IInv, RoutinesOK
<1>2. routine[r].height \in Heights
  BY <1>1, BoundsAssumption DEF Heights
<1>3. Evidence[routine[r].height] \in Seq([a: Vote, b: Vote])
  BY <1>2, EvidenceAssumption
<1>4. Len(Evidence[routine[r].height]) \in Nat
  BY <1>3
<1> QED BY <1>1, <1>2, <1>3, <1>4, RoutineTypes DEF RoutinePlaces

\* A step of one goroutine that works on an evidence list.
LEMMA RoutineStep ==
    ASSUME IInv, NEW r \in Routine,
           NEW n \in [height: 0..MaxHeight, next: Nat, vote: {"a", "b"}, gone: BOOLEAN],
           routine' = [routine EXCEPT ![r] = n],
           n.height # 0 => /\ Evidence[n.height] # << >>
                           /\ n.next \in 1..Len(Evidence[n.height]) + 1
    PROVE  RoutinesOK' /\ RoutinePlaces'
<1>1. RoutinesOK /\ RoutinePlaces
  BY RoutineTypes
<1>2. RoutinesOK'
  BY <1>1 DEF RoutinesOK
<1>3. RoutinePlaces'
  BY <1>1 DEF RoutinePlaces, RoutinesOK
<1> QED BY <1>2, <1>3

LEMMA NoRoutineType ==
    /\ NoRoutine \in [height: 0..MaxHeight, next: Nat, vote: {"a", "b"}, gone: BOOLEAN]
    /\ NoRoutine.height = 0
BY BoundsAssumption DEF NoRoutine

LEMMA ElementOf ==
    ASSUME NEW S, NEW list \in Seq(S), NEW i \in 1..Len(list)
    PROVE  list[i] \in S
OBVIOUS

LEMMA VotePreserves ==
    ASSUME IInv, NEW r \in Routine, SaveDoubleSignVote(r)
    PROVE  IInv'
<1> DEFINE n == routine[r]
           pair == Evidence[n.height][n.next]
           x == IF n.vote = "a" THEN pair.a ELSE pair.b
           toB == [n EXCEPT !.vote = "b"]
           toA == [n EXCEPT !.vote = "a", !.next = n.next + 1]
<1>1. /\ n.height # 0 /\ n.next <= Len(Evidence[n.height])
      /\ UNCHANGED <<chain, block, validator, row, evidence, op, handled, updated, pruned,
                     failures>>
      /\ \/ routine' = [routine EXCEPT ![r] = NoRoutine] /\ votes' = votes
         \/ /\ votes' = votes \cup {x}
            /\ \/ routine' = [routine EXCEPT ![r] = toB]
               \/ routine' = [routine EXCEPT ![r] = toA]
  BY DEF SaveDoubleSignVote, history
<1>2. /\ n \in [height: 0..MaxHeight, next: Nat, vote: {"a", "b"}, gone: BOOLEAN]
      /\ Evidence[n.height] \in Seq([a: Vote, b: Vote])
      /\ Len(Evidence[n.height]) \in Nat
      /\ n.next \in 1..Len(Evidence[n.height]) + 1
  BY <1>1, RoutineAt
<1>3. Evidence[n.height] # << >>
  BY <1>1 DEF IInv, RoutinesOK
<1>4. pair \in [a: Vote, b: Vote]
  <2>1. n.next \in 1..Len(Evidence[n.height])
    BY <1>1, <1>2
  <2> HIDE DEF n
  <2> QED BY <1>2, <2>1, ElementOf
<1>5. x \in Vote
  BY <1>4
<1>6. /\ toB \in [height: 0..MaxHeight, next: Nat, vote: {"a", "b"}, gone: BOOLEAN]
      /\ toB.height = n.height /\ toB.next = n.next
  BY <1>2
<1>7. /\ toA \in [height: 0..MaxHeight, next: Nat, vote: {"a", "b"}, gone: BOOLEAN]
      /\ toA.height = n.height /\ toA.next = n.next + 1
  <2>1. n \in [height: 0..MaxHeight, next: Nat, vote: {"a", "b"}, gone: BOOLEAN]
    BY <1>2
  <2>2. n.next + 1 \in Nat
    BY <2>1
  <2> DEFINE next == n.next + 1
  <2> HIDE DEF n, next
  <2>3. toA \in [height: 0..MaxHeight, next: Nat, vote: {"a", "b"}, gone: BOOLEAN]
    BY <2>1, <2>2 DEF next
  <2>4. toA.height = n.height
    BY <2>1
  <2>5. toA.next = n.next + 1
    BY <2>1
  <2> QED BY <2>3, <2>4, <2>5
<1>8. n.next + 1 \in 1..Len(Evidence[n.height]) + 1
  BY <1>1, <1>2
<1> HIDE DEF x, toA, toB, n
<1>9. RoutinesOK' /\ RoutinePlaces'
  <2>1. CASE routine' = [routine EXCEPT ![r] = NoRoutine]
    BY <2>1, NoRoutineType, RoutineStep
  <2>2. CASE routine' = [routine EXCEPT ![r] = toB]
    BY <1>2, <1>3, <1>6, <2>2, RoutineStep
  <2>3. CASE routine' = [routine EXCEPT ![r] = toA]
    BY <1>3, <1>7, <1>8, <2>3, RoutineStep
  <2> QED BY <1>1, <2>1, <2>2, <2>3
<1>10. /\ votes' \subseteq Vote /\ row' \in [Keys -> Row \cup {NoRow}]
       /\ evidence' \in [Heights -> Nat] /\ pruned' \in 0..MaxHeight
       /\ failures' \in 0..MaxFailures
  BY <1>1, <1>5 DEF IInv, TypeOK, Keys
<1> QED BY <1>1, <1>9, <1>10, EvidenceStepPreserves

LEMMA InsertPreserves ==
    ASSUME IInv, NEW r \in Routine, InsertEvidences(r)
    PROVE  IInv'
<1>1. RoutinesOK' /\ RoutinePlaces'
  BY NoRoutineType, RoutineStep DEF InsertEvidences
<1>2. routine[r].height \in Heights
  BY RoutineAt DEF InsertEvidences
<1>3. /\ votes' \subseteq Vote /\ row' \in [Keys -> Row \cup {NoRow}]
      /\ evidence' \in [Heights -> Nat] /\ pruned' \in 0..MaxHeight
      /\ failures' \in 0..MaxFailures
  BY <1>2 DEF IInv, TypeOK, Keys, InsertEvidences, history
<1> QED BY <1>1, <1>3, EvidenceStepPreserves DEF InsertEvidences, history

LEMMA PrunePreserves == ASSUME IInv, NEW h \in Heights, Prune(h) PROVE IInv'
<1>1. RoutinesOK' /\ RoutinePlaces'
  <2>1. RoutinesOK /\ RoutinePlaces
    BY RoutineTypes
  <2>2. CASE routine' = routine
    BY <2>1, <2>2 DEF RoutinesOK, RoutinePlaces
  <2>3. CASE routine' = [r \in Routine |->
                  IF \E x \in votes : x.height = h /\ SavedBy(r, x)
                  THEN [routine[r] EXCEPT !.gone = TRUE] ELSE routine[r]]
    <3>1. ASSUME NEW r \in Routine
          PROVE  /\ routine'[r] \in [height: 0..MaxHeight, next: Nat, vote: {"a", "b"},
                                     gone: BOOLEAN]
                 /\ routine'[r].height = routine[r].height
                 /\ routine'[r].next = routine[r].next
      <4>1. /\ routine[r] \in [height: 0..MaxHeight, next: Nat, vote: {"a", "b"},
                               gone: BOOLEAN]
            /\ routine'[r] \in {[routine[r] EXCEPT !.gone = TRUE], routine[r]}
        BY <2>1, <2>3 DEF RoutinesOK
      <4> QED BY <4>1
    <3>2. RoutinesOK'
      BY <2>1, <2>3, <3>1 DEF RoutinesOK
    <3>3. RoutinePlaces'
      BY <2>1, <3>1 DEF RoutinePlaces
    <3> QED BY <3>2, <3>3
  <2> QED BY <2>2, <2>3 DEF Prune
<1>2. /\ row' \in [Keys -> Row \cup {NoRow}] /\ pruned' \in 0..MaxHeight
      /\ \A k \in Keys : row'[k] = row[k] \/ row'[k] = NoRow
  BY PruneRemoves DEF IInv
<1>3. /\ votes' \subseteq Vote /\ evidence' \in [Heights -> Nat]
      /\ failures' \in 0..MaxFailures
  BY DEF Prune, IInv, TypeOK
<1> QED BY <1>1, <1>2, <1>3, EvidenceStepPreserves DEF Prune

LEMMA StatementFailsPreserves ==
    ASSUME IInv, NEW p \in Proc, StatementFails(p)
    PROVE  IInv'
<1>1. op[p] \in Op /\ OpBelongs(op[p]) /\ TypeOK
  BY DEF IInv, TypeOK, OpsBelong
<1>2. /\ UNCHANGED <<chain, tables, routine, history>>
      /\ failures' \in 0..MaxFailures
  <2>1. /\ UNCHANGED <<chain, tables, routine, history>>
        /\ failures < MaxFailures /\ failures' = failures + 1
    BY DEF StatementFails
  <2> QED BY <1>1, <2>1, BoundsAssumption DEF TypeOK
<1>3. ASSUME NEW o \in Op, OpBelongs(o), op' = [op EXCEPT ![p] = o] PROVE IInv'
  BY <1>2, <1>3, OpStepPreserves
<1>4. CASE op[p].step = "power"
  <2> DEFINE o == [op[p] EXCEPT !.step = "status", !.known = FALSE]
  <2>1. o \in Op /\ OpBelongs(o)
    BY <1>1, <1>4 DEF Op, OpBelongs
  <2>2. op' = [op EXCEPT ![p] = o]
    BY <1>4 DEF StatementFails
  <2> HIDE DEF o
  <2> QED BY <1>3, <2>1, <2>2
<1>5. CASE op[p].step = "status" /\ Proposal # {}
  <2> DEFINE o == [op[p] EXCEPT !.step = "snapshot", !.known = FALSE, !.todo = Proposal]
  <2>1. o \in Op /\ OpBelongs(o)
    BY <1>1, <1>5 DEF Op, OpBelongs
  <2>2. op' = [op EXCEPT ![p] = o]
    BY <1>5 DEF StatementFails
  <2> HIDE DEF o
  <2> QED BY <1>3, <2>1, <2>2
<1>6. CASE op[p].step = "lookup"
  <2> DEFINE step(v) == IF op[p].todo = {v} THEN "power" ELSE "lookup"
             o(v) == [op[p] EXCEPT !.todo = @ \ {v}, !.missing = @ + 1, !.known = FALSE,
                                   !.step = step(v)]
  <2>1. PICK v \in op[p].todo : op' = [op EXCEPT ![p] = o(v)]
    BY <1>6 DEF StatementFails
  <2>2. op[p].missing + 1 \in Nat /\ step(v) \in {"power", "lookup"}
    BY <1>1 DEF Op
  <2> HIDE DEF step
  <2>3. o(v) \in Op /\ OpBelongs(o(v))
    <3>1. o(v) \in Op
      BY <1>1, <2>2 DEF Op
    <3>2. /\ o(v).kind = op[p].kind /\ o(v).height = op[p].height /\ o(v).asOf = op[p].asOf
          /\ o(v).step = step(v) /\ ~o(v).known /\ o(v).todo \subseteq op[p].todo
      BY <1>1, <2>2 DEF Op
    <3> HIDE DEF o
    <3> QED BY <1>1, <1>6, <2>2, <3>1, <3>2 DEF OpBelongs
  <2>4. ASSUME NEW n \in Op, n = o(v) PROVE IInv'
    <3> HIDE DEF o
    <3> QED BY <1>3, <2>1, <2>3, <2>4
  <2> QED BY <2>3, <2>4
<1>7. CASE op[p].step \notin {"lookup", "power"} /\ ~(op[p].step = "status" /\ Proposal # {})
  BY <1>3, <1>7, IdleOp DEF StatementFails, Ends
<1> QED BY <1>4, <1>5, <1>6, <1>7

LEMMA RoutineFailsPreserves ==
    ASSUME IInv, NEW r \in Routine, RoutineFails(r)
    PROVE  IInv'
<1>1. RoutinesOK' /\ RoutinePlaces'
  BY NoRoutineType, RoutineStep DEF RoutineFails
<1>2. /\ votes' \subseteq Vote /\ row' \in [Keys -> Row \cup {NoRow}]
      /\ evidence' \in [Heights -> Nat] /\ pruned' \in 0..MaxHeight
      /\ failures' \in 0..MaxFailures
  BY BoundsAssumption DEF IInv, TypeOK, Keys, RoutineFails, tables, history
<1> QED BY <1>1, <1>2, EvidenceStepPreserves DEF RoutineFails, tables, history

LEMMA CrashPreserves == ASSUME IInv, Crash PROVE IInv'
<1> USE DEF IInv, Crash, tables, history
<1>1. OpsBelong' /\ op' \in [Proc -> Op]
  <2>1. \A p \in Proc : op'[p] = Idle
    OBVIOUS
  <2>2. OpBelongs(Idle)'
    BY DEF OpBelongs, Idle
  <2> QED BY <2>1, <2>2, IdleOp DEF OpsBelong
<1>2. RoutinesOK' /\ RoutinePlaces'
  BY NoRoutineType DEF RoutinesOK, RoutinePlaces
<1>3. TypeOK'
  BY <1>1, <1>2, BoundsAssumption DEF TypeOK, RoutinePlaces
<1>4. RowsBelong'
  BY DEF RowsBelong
<1> QED BY <1>1, <1>2, <1>3, <1>4

-----------------------------------------------------------------------------
LEMMA GoonPreserves == ASSUME IInv, NEW p \in Proc, Goon(p) PROVE IInv'
BY InfoPreserves, DescriptionPreserves, CommissionPreserves, QueryPreserves,
   LookupPreserves, PowersPreserve, StatusesPreserve, SnapshotPreserves DEF Goon

LEMMA IInvStep == IInv /\ [Next]_vars => IInv'
<1> SUFFICES ASSUME IInv, [Next]_vars PROVE IInv'
  OBVIOUS
<1>1. CASE Next
  BY <1>1, NewBlockPreserves, SaveBlockPreserves, BeginPreserves, GoonPreserves,
     StatementFailsPreserves, VotePreserves, InsertPreserves, RoutineFailsPreserves,
     PrunePreserves, CrashPreserves DEF Next
<1>2. CASE UNCHANGED vars
  <2> USE <1>2 DEF vars
  <2>1. TypeOK' /\ RoutinesOK' /\ RowsBelong'
    BY DEF IInv, TypeOK, RoutinesOK, RowsBelong
  <2>2. ASSUME NEW p \in Proc PROVE OpBelongs(op[p])'
    BY DEF IInv, OpsBelong, OpBelongs, Present
  <2> QED BY <2>1, <2>2 DEF IInv, OpsBelong
<1> QED BY <1>1, <1>2

LEMMA IInvHolds == Spec => []IInv
BY IInvInit, IInvStep, PTL DEF Spec

\* The variables keep the types that the tables and the handlers give them.
THEOREM TypeCorrect == Spec => []TypeOK
<1>1. IInv => TypeOK
  BY DEF IInv
<1> QED BY <1>1, IInvHolds, PTL

\* However the handlers, refreshes, commands and failures interleave, a row of a
\* validator holds the state of the height it is stamped with; the height is 0
\* for statuses and snapshots of refreshes that found no block only.
THEOREM RowsAreOfTheirHeight == Spec => []RowsBelong
<1>1. IInv => RowsBelong
  BY DEF IInv
<1> QED BY <1>1, IInvHolds, PTL

-----------------------------------------------------------------------------
(* What every step does to the rows.                                       *)

LEMMA GoonRows ==
    ASSUME IInv, NEW p \in Proc, Goon(p)
    PROVE  \A k \in Keys : RowStep(k)
<1>1. op[p] \in Op /\ TypeOK /\ op[p].height \in Nat /\ op[p].asOf \in Nat
  BY DEF IInv, TypeOK, Op
<1>2. CASE UNCHANGED row
  BY <1>2 DEF RowStep
<1>3. ASSUME NEW t, NEW addresses, Upsert(t, addresses, op[p].height, op[p].asOf)
      PROVE  \A k \in Keys : RowStep(k)
  BY <1>1, <1>3, UpsertWrites
<1>4. CASE SaveValidatorsData(p)
  BY <1>2, <1>3, <1>4 DEF SaveValidatorsData
<1>5. CASE SaveValidatorDescription(p)
  BY <1>3, <1>5 DEF SaveValidatorDescription, SaveEach
<1>6. CASE SaveValidatorCommission(p)
  BY <1>3, <1>6 DEF SaveValidatorCommission, SaveEach
<1>7. CASE QueryBonded(p) \/ HasValidator(p)
  BY <1>2, <1>7 DEF QueryBonded, HasValidator, tables
<1>8. CASE SaveValidatorsVotingPowers(p)
  BY <1>2, <1>3, <1>8 DEF SaveValidatorsVotingPowers
<1>9. CASE SaveValidatorsStatuses(p)
  BY <1>1, <1>9, StatusesWrite
<1>10. CASE UpdateProposalSnapshot(p)
  BY <1>2, <1>3, <1>10 DEF UpdateProposalSnapshot
<1> QED BY <1>4, <1>5, <1>6, <1>7, <1>8, <1>9, <1>10 DEF Goon

LEMMA BeginChanges ==
    ASSUME NEW p \in Proc, Begin(p)
    PROVE  UNCHANGED <<chain, block, validator, row, votes, evidence, routine, handled,
                       updated, pruned, failures>>
BY DEF Begin, HandleBlock, HandleMsg, RefreshAllValidatorInfos, HandleGenesis,
       UpdateValidatorStatuses, Start, tables, history

LEMMA RowSteps == ASSUME IInv, [Next]_vars PROVE \A k \in Keys : RowStep(k)
<1>1. CASE UNCHANGED row
  BY <1>1 DEF RowStep
<1>2. ASSUME NEW p \in Proc, Begin(p) \/ StatementFails(p) PROVE UNCHANGED row
  BY <1>2, BeginChanges DEF StatementFails, tables
<1>3. ASSUME NEW r \in Routine,
             SaveDoubleSignVote(r) \/ InsertEvidences(r) \/ RoutineFails(r)
      PROVE  UNCHANGED row
  BY <1>3 DEF SaveDoubleSignVote, InsertEvidences, RoutineFails, tables
<1>4. ASSUME NewBlock \/ (\E h \in Heights : SaveBlock(h)) \/ Crash PROVE UNCHANGED row
  BY <1>4 DEF NewBlock, SaveBlock, Crash, tables
<1>5. ASSUME NEW h \in Heights, Prune(h) PROVE \A k \in Keys : RowStep(k)
  BY <1>5, PruneRemoves DEF IInv
<1>6. CASE UNCHANGED vars
  BY <1>1, <1>6 DEF vars
<1>7. CASE Next
  BY <1>1, <1>2, <1>3, <1>4, <1>5, <1>7, GoonRows DEF Next
<1> QED BY <1>6, <1>7

\* The row of a validator is never replaced by an older one, whichever handler,
\* refresh or command writes it.
THEOREM TablesImplementRegisters == Spec => ValidatorTablesAreRegisters
<1>1. Init => Registers!Init
  BY DEF Init, Registers!Init
<1>2. IInv /\ [Next]_vars => [Registers!Next]_row
  <2> SUFFICES ASSUME IInv, [Next]_vars PROVE Registers!Next
    OBVIOUS
  <2>1. ASSUME NEW k \in Keys
        PROVE  row'[k] = row[k] \/ Registers!Write(k) \/ Registers!Clear(k)
    <3>1. RowStep(k)
      BY RowSteps
    <3> QED BY <3>1, NamesAssumption DEF RowStep, Registers!Write, Registers!Clear
  <2> QED BY <2>1 DEF Registers!Next, Keys
<1> QED BY <1>1, <1>2, IInvHolds, PTL DEF Spec, ValidatorTablesAreRegisters, Registers!Spec

-----------------------------------------------------------------------------
(* The infos of handled blocks.                                            *)

\* What only grows: blocks, validators, the newest pruned height; and the states of
\* the chain do not change.
Grows ==
    /\ block \subseteq block' /\ validator \subseteq validator' /\ pruned <= pruned'
    /\ \A h \in block : chain'[h] = chain[h]

LEMMA StepGrows == ASSUME IInv, [Next]_vars PROVE Grows
<1> USE DEF Grows
<1>0. pruned <= pruned
  BY DEF IInv, TypeOK
<1>1. ASSUME NEW p \in Proc, Begin(p) PROVE Grows
  BY <1>0, <1>1, BeginChanges
<1>2. ASSUME NEW p \in Proc, Goon(p) PROVE Grows
  BY <1>0, <1>2
     DEF Goon, SaveValidatorsData, SaveValidatorDescription, SaveValidatorCommission,
         SaveEach, QueryBonded, HasValidator, SaveValidatorsVotingPowers,
         SaveValidatorsStatuses, UpdateProposalSnapshot, tables, history
<1>3. ASSUME NEW p \in Proc, StatementFails(p) PROVE Grows
  BY <1>0, <1>3 DEF StatementFails, tables, history
<1>4. ASSUME NEW r \in Routine,
             SaveDoubleSignVote(r) \/ InsertEvidences(r) \/ RoutineFails(r)
      PROVE  Grows
  BY <1>0, <1>4 DEF SaveDoubleSignVote, InsertEvidences, RoutineFails, tables, history
<1>5. ASSUME NewBlock PROVE Grows
  <2>1. \A h \in block : h \in 1..Len(chain)
    BY DEF IInv, TypeOK
  <2> QED BY <1>0, <1>5, <2>1, ChainGrows DEF IInv, NewBlock, tables, history
<1>6. ASSUME NEW h \in Heights, SaveBlock(h) PROVE Grows
  BY <1>0, <1>6 DEF SaveBlock, history
<1>7. ASSUME NEW h \in Heights, Prune(h) PROVE Grows
  BY <1>7, PruneRemoves DEF Prune, IInv
<1>8. ASSUME Crash \/ UNCHANGED vars PROVE Grows
  BY <1>0, <1>8 DEF Crash, tables, history, vars
<1> QED BY <1>1, <1>2, <1>3, <1>4, <1>5, <1>6, <1>7, <1>8 DEF Next

\* A row that was recent enough stays so, or is pruned as one of an old height.
LEMMA AtLeastStays ==
    ASSUME IInv, [Next]_vars,
           NEW t \in Tables, NEW v \in Validator, NEW h \in Nat, AtLeast(t, v, h)
    PROVE  AtLeast(t, v, h)'
<1> DEFINE k == <<t, v>>
<1>1. k \in Keys /\ k[1] = t /\ row[k] \in Row \cup {NoRow} /\ RowStep(k)
  BY RowSteps DEF Keys, Address, IInv, TypeOK
<1>2. pruned \in Nat /\ pruned' \in Nat /\ pruned <= pruned'
  <2>1. IInv'
    BY IInvStep
  <2>2. pruned \in 0..MaxHeight /\ pruned' \in 0..MaxHeight
    BY <2>1 DEF IInv, TypeOK
  <2>3. Grows
    BY StepGrows
  <2> QED BY <2>2, <2>3, BoundsAssumption DEF Grows
<1>3. (row[k] # NoRow /\ row[k].height >= h) \/ (t \in PrunedTables /\ pruned >= h)
  BY DEF AtLeast
<1> HIDE DEF k
<1>4. (row'[k] # NoRow /\ row'[k].height >= h) \/ (t \in PrunedTables /\ pruned' >= h)
  BY <1>1, <1>2, <1>3, NamesAssumption DEF RowStep, Row
<1> QED BY <1>4 DEF k, AtLeast

\* A row that is upserted is recent enough, written or not.
LEMMA UpsertReaches ==
    ASSUME TypeOK, NEW t \in Tables, NEW addresses, NEW h \in Nat, NEW a \in Nat,
           Upsert(t, addresses, h, a), NEW v \in Validator, v \in addresses
    PROVE  AtLeast(t, v, h)'
<1> DEFINE k == <<t, v>>
<1>1. k \in Keys /\ k[1] = t /\ k[2] \in addresses
  BY DEF Keys, Address
<1> HIDE DEF k
<1>2. row'[k] # NoRow /\ row'[k].height >= h
  BY <1>1, UpsertWrites
<1> QED BY <1>2 DEF AtLeast, k

LEMMA BlockedStays ==
    ASSUME IInv, [Next]_vars, NEW h \in block, Blocked(h)
    PROVE  Blocked(h)'
<1>0. Grows /\ \A k \in Keys : RowStep(k)
  BY StepGrows, RowSteps
<1>1. PICK v \in Present(h) : OperatorTaken(v)
  BY DEF Blocked
<1>2. PICK w \in Validator \ {v} : Operator[w] = Operator[v] /\ row[<<"info", w>>] # NoRow
  BY <1>1 DEF OperatorTaken
<1>3. row'[<<"info", w>>] # NoRow
  <2> DEFINE k == <<"info", w>>
  <2>1. k \in Keys /\ k[1] = "info"
    BY DEF Keys, Tables, Address
  <2>2. RowStep(k) /\ row[k] # NoRow
    BY <1>0, <1>2, <2>1
  <2> HIDE DEF k
  <2>3. row'[k] # NoRow
    BY <2>1, <2>2, NamesAssumption DEF RowStep, PrunedTables
  <2> QED BY <2>3 DEF k
<1>4. v \in Present(h)'
  BY <1>0, <1>1 DEF Present, Grows
<1>5. OperatorTaken(v)'
  BY <1>2, <1>3 DEF OperatorTaken
<1> QED BY <1>4, <1>5 DEF Blocked

LEMMA HandledChanges ==
    ASSUME [Next]_vars
    PROVE  handled' = handled \/ \E p \in Proc : SaveValidatorsData(p)
<1>1. ASSUME NEW p \in Proc, Begin(p) PROVE handled' = handled
  BY <1>1, BeginChanges
<1>2. ASSUME NEW p \in Proc, Goon(p), ~SaveValidatorsData(p) PROVE handled' = handled
  BY <1>2
     DEF Goon, SaveValidatorDescription, SaveValidatorCommission, SaveEach, QueryBonded,
         HasValidator, SaveValidatorsVotingPowers, SaveValidatorsStatuses,
         UpdateProposalSnapshot, history
<1>3. ASSUME NEW p \in Proc, StatementFails(p) PROVE handled' = handled
  BY <1>3 DEF StatementFails, history
<1>4. ASSUME NEW r \in Routine,
             SaveDoubleSignVote(r) \/ InsertEvidences(r) \/ RoutineFails(r)
      PROVE  handled' = handled
  BY <1>4 DEF SaveDoubleSignVote, InsertEvidences, RoutineFails, history
<1>5. ASSUME NEW h \in Heights, SaveBlock(h) \/ Prune(h) PROVE handled' = handled
  BY <1>5 DEF SaveBlock, Prune, history
<1>6. ASSUME NewBlock \/ Crash \/ UNCHANGED vars PROVE handled' = handled
  BY <1>6 DEF NewBlock, Crash, vars, history
<1> QED BY <1>1, <1>2, <1>3, <1>4, <1>5, <1>6 DEF Next

LEMMA InfosStep == IInv /\ InfosFollowBlocks /\ [Next]_vars => InfosFollowBlocks'
<1> SUFFICES ASSUME IInv, InfosFollowBlocks, [Next]_vars, NEW h \in handled', ~Blocked(h)',
                    NEW v \in Present(h)'
             PROVE  AtLeast("info", v, h)'
  BY DEF InfosFollowBlocks
<1>1. v \in Validator /\ "info" \in Tables
  BY DEF Present, Tables
<1>2. Grows
  BY StepGrows
<1>3. CASE h \in handled
  <2>1. h \in block /\ h \in Nat
    <3>1. TypeOK /\ h \in block
      BY <1>3 DEF IInv, TypeOK
    <3>2. h \in Heights
      BY <3>1, BlockHeights
    <3> QED BY <3>1, <3>2 DEF Heights
  <2>2. ~Blocked(h)
    BY <2>1, BlockedStays
  <2>3. v \in Present(h)
    BY <1>2, <2>1 DEF Grows, Present
  <2>4. AtLeast("info", v, h)
    BY <1>3, <2>2, <2>3 DEF InfosFollowBlocks
  <2> QED BY <1>1, <2>1, <2>4, AtLeastStays
<1>4. CASE h \notin handled
  <2>1. PICK p \in Proc : SaveValidatorsData(p)
    BY <1>4, HandledChanges
  <2>2. op[p].kind = "block" /\ op[p].height = h /\ op[p] \in Op /\ OpBelongs(op[p])
    BY <1>4, <2>1 DEF SaveValidatorsData, IInv, TypeOK, OpsBelong
  <2>3. h \in block /\ op[p].batch = Present(h) /\ op[p].asOf \in Nat /\ h \in Nat
    BY <2>2 DEF OpBelongs, Op
  <2>4. v \in Present(h)
    BY <1>2, <2>3 DEF Grows, Present
  <2>5. CASE \E w \in op[p].batch : OperatorTaken(w)
    <3>1. Blocked(h)
      BY <2>3, <2>5 DEF Blocked
    <3> QED BY <2>3, <3>1, BlockedStays
  <2>6. CASE ~(\E w \in op[p].batch : OperatorTaken(w))
    <3>1. Upsert("info", op[p].batch, h, op[p].asOf)
      BY <2>1, <2>2, <2>6 DEF SaveValidatorsData
    <3>2. v \in op[p].batch
      BY <2>3, <2>4
    <3>3. TypeOK
      BY DEF IInv
    <3> QED BY <1>1, <2>3, <3>1, <3>2, <3>3, UpsertReaches
  <2> QED BY <2>5, <2>6
<1> QED BY <1>3, <1>4

\* Once the handler of a block has come to the infos, every validator of the block
\* has infos at least as recent, unless an operator of the block has the row of a
\* former validator in the way; and it stays so.
THEOREM InfosFollow == Spec => []InfosFollowBlocks
<1>1. Init => InfosFollowBlocks
  BY DEF Init, InfosFollowBlocks
<1> QED BY <1>1, InfosStep, IInvHolds, PTL DEF Spec

-----------------------------------------------------------------------------
(* The refreshes of powers, statuses and snapshots.                        *)

LEMMA BondedStays ==
    ASSUME Grows, NEW h \in block
    PROVE  Bonded(h)' = Bonded(h)
BY DEF Grows, Bonded

\* What a refresh has done stays done while others work.
LEMMA RefreshStays ==
    ASSUME IInv, [Next]_vars, NEW o \in Op, RefreshOK(o)
    PROVE  RefreshOK(o)'
<1>1. Grows
  BY StepGrows
<1>2. /\ o.height \in block /\ o.height \in Nat /\ o.batch \subseteq Validator
      /\ "power" \in Tables /\ "status" \in Tables /\ Proposal \subseteq Tables
  BY DEF RefreshOK, Bonded, Op, Tables
<1>3. /\ o.height \in block' /\ o.batch = Bonded(o.height)' /\ o.batch \subseteq validator'
  BY <1>1, <1>2, BondedStays DEF RefreshOK, Grows
<1>4. ASSUME NEW v \in o.batch, NEW t \in Tables, AtLeast(t, v, o.height)
      PROVE  AtLeast(t, v, o.height)'
  BY <1>2, <1>4, AtLeastStays
<1>5. o.step \in {"status", "snapshot"} => \A v \in o.batch : AtLeast("power", v, o.height)'
  BY <1>2, <1>4 DEF RefreshOK
<1>6. o.step = "snapshot" =>
          \A v \in o.batch : \A t \in {"status"} \cup (Proposal \ o.todo) :
              AtLeast(t, v, o.height)'
  BY <1>2, <1>4 DEF RefreshOK
<1> QED BY <1>3, <1>5, <1>6 DEF RefreshOK

\* Only the refresh that takes the step needs to be looked at.
LEMMA RefreshStep ==
    ASSUME IInv, RefreshesOK, [Next]_vars, NEW p \in Proc, NEW o \in Op,
           op' = [op EXCEPT ![p] = o], o.known => RefreshOK(o)'
    PROVE  RefreshesOK'
<1> SUFFICES ASSUME NEW q \in Proc, NEW n \in Op, n = op'[q], n.known PROVE RefreshOK(n)'
  <2>1. op' \in [Proc -> Op]
    BY DEF IInv, TypeOK
  <2>2. \A q \in Proc : op'[q].known => RefreshOK(op[q])'
    BY <2>1
  <2> QED BY <2>2 DEF RefreshesOK
<1>1. CASE q = p
  BY <1>1 DEF IInv, TypeOK
<1>2. CASE q # p
  <2>1. n = op[q]
    BY <1>2 DEF IInv, TypeOK
  <2>2. RefreshOK(n)
    BY <2>1 DEF RefreshesOK
  <2> QED BY <2>2, RefreshStays
<1> QED BY <1>1, <1>2

\* A handler of blocks or messages is no refresh of the statuses.
LEMMA HandlerUnknown ==
    ASSUME RefreshesOK, NEW p \in Proc,
           op[p].step \in {"info", "description", "commission"}
    PROVE  ~op[p].known
BY DEF RefreshesOK, RefreshOK

LEMMA IdleUnknown == Idle \in Op /\ ~Idle.known
BY IdleOp DEF Idle

LEMMA BeginRefreshes ==
    ASSUME IInv, RefreshesOK, [Next]_vars, NEW p \in Proc, Begin(p)
    PROVE  RefreshesOK'
<1>1. ASSUME NEW kind, NEW h, NEW batch, NEW todo, Start(p, kind, h, batch, todo)
      PROVE  \E o : op' = [op EXCEPT ![p] = o] /\ o.known = FALSE
  <2> DEFINE o == [Idle EXCEPT !.kind = kind, !.step = "info", !.height = h, !.asOf = h,
                               !.batch = batch, !.todo = todo]
  <2>1. o.known = FALSE
    BY DEF Idle
  <2>2. op' = [op EXCEPT ![p] = o]
    BY <1>1 DEF Start
  <2> HIDE DEF o
  <2> QED BY <2>1, <2>2
<1>2. ASSUME NEW h, UpdateValidatorStatuses(p, h)
      PROVE  \E o : op' = [op EXCEPT ![p] = o] /\ o.known = FALSE
  <2> DEFINE o == [Idle EXCEPT !.kind = "statuses", !.step = "query", !.height = h]
  <2>1. o.known = FALSE
    BY DEF Idle
  <2>2. op' = [op EXCEPT ![p] = o]
    BY <1>2 DEF UpdateValidatorStatuses
  <2> HIDE DEF o
  <2> QED BY <2>1, <2>2
<1>3. PICK o : op' = [op EXCEPT ![p] = o] /\ o.known = FALSE
  BY <1>1, <1>2 DEF Begin, HandleBlock, HandleMsg, RefreshAllValidatorInfos, HandleGenesis
<1>4. o \in Op
  <2>1. IInv'
    BY IInvStep
  <2>2. op'[p] = o /\ op'[p] \in Op
    BY <1>3, <2>1 DEF IInv, TypeOK
  <2> QED BY <2>2
<1> QED BY <1>3, <1>4, RefreshStep

LEMMA HandlersRefreshes ==
    ASSUME IInv, RefreshesOK, [Next]_vars, NEW p \in Proc,
           SaveValidatorsData(p) \/ SaveValidatorDescription(p) \/ SaveValidatorCommission(p)
    PROVE  RefreshesOK'
<1>1. op[p] \in Op /\ ~op[p].known
  BY HandlerUnknown DEF IInv, TypeOK, SaveValidatorsData, SaveValidatorDescription,
                        SaveValidatorCommission, SaveEach
<1>2. PICK o : op' = [op EXCEPT ![p] = o] /\ ~o.known
  <2>1. CASE SaveValidatorsData(p)
    BY <1>1, <2>1, IdleUnknown DEF SaveValidatorsData, Ends, Goes, Op
  <2>2. ASSUME NEW t, NEW next \in Op, ~next.known, SaveEach(p, t, next)
        PROVE  \E o : op' = [op EXCEPT ![p] = o] /\ ~o.known
    <3>1. PICK v : op' = [op EXCEPT ![p] =
                            IF op[p].done \cup {v} # op[p].batch
                            THEN [op[p] EXCEPT !.done = @ \cup {v}] ELSE next]
      BY <2>2 DEF SaveEach
    <3> DEFINE more == [op[p] EXCEPT !.done = @ \cup {v}]
               o == IF op[p].done \cup {v} # op[p].batch THEN more ELSE next
    <3>2. ~more.known
      BY <1>1 DEF Op
    <3>3. ~o.known
      BY <2>2, <3>2
    <3>4. op' = [op EXCEPT ![p] = o]
      BY <3>1
    <3> HIDE DEF o
    <3> QED BY <3>3, <3>4
  <2>3. CASE SaveValidatorDescription(p)
    <3> DEFINE n == [op[p] EXCEPT !.step = "commission", !.done = {}]
    <3>1. n \in Op /\ ~n.known
      BY <1>1 DEF Op
    <3>2. SaveEach(p, "description", n)
      BY <2>3 DEF SaveValidatorDescription
    <3> HIDE DEF n
    <3> QED BY <2>2, <3>1, <3>2
  <2>4. CASE SaveValidatorCommission(p)
    <3>1. CASE op[p].todo = {}
      BY <2>2, <2>4, <3>1, IdleUnknown DEF SaveValidatorCommission
    <3>2. CASE op[p].todo # {}
      <4>1. PICK w \in op[p].todo :
               SaveEach(p, "commission", [op[p] EXCEPT !.step = "info", !.done = {},
                                                       !.batch = {w}, !.todo = @ \ {w}])
        BY <2>4, <3>2 DEF SaveValidatorCommission
      <4> DEFINE n == [op[p] EXCEPT !.step = "info", !.done = {},
                                    !.batch = {w}, !.todo = @ \ {w}]
      <4>2. op[p].step = "commission" /\ OpBelongs(op[p])
        BY <4>1 DEF SaveEach, IInv, OpsBelong
      <4>3. w \in Validator
        BY <4>2 DEF OpBelongs
      <4>4. n \in Op /\ ~n.known
        BY <1>1, <4>3 DEF Op
      <4>5. SaveEach(p, "commission", n)
        BY <4>1
      <4> HIDE DEF n
      <4> QED BY <2>2, <4>4, <4>5
    <3> QED BY <3>1, <3>2
  <2> QED BY <2>1, <2>3, <2>4
<1>3. o \in Op
  <2>1. IInv'
    BY IInvStep
  <2>2. op'[p] = o /\ op'[p] \in Op
    BY <1>2, <2>1 DEF IInv, TypeOK
  <2> QED BY <2>2
<1> QED BY <1>2, <1>3, RefreshStep

LEMMA QueryRefreshes ==
    ASSUME IInv, RefreshesOK, [Next]_vars, NEW p \in Proc, QueryBonded(p)
    PROVE  RefreshesOK'
<1>1. /\ op[p] \in Op /\ op[p].step = "query" /\ op[p].missing = 0 /\ op[p].done = {}
      /\ TypeOK
  BY DEF IInv, TypeOK, OpsBelong, OpBelongs, QueryBonded
<1> DEFINE asOf == StateAt(op[p].height)
           batch == Bonded(asOf)
           known == batch \subseteq validator /\ op[p].height \in block
           o == [op[p] EXCEPT !.step = IF batch = {} THEN "power" ELSE "lookup",
                              !.asOf = asOf, !.batch = batch, !.todo = batch,
                              !.known = known]
<1>2. op' = [op EXCEPT ![p] = o]
  BY <1>1 DEF QueryBonded
<1>3. asOf \in Nat /\ batch \subseteq Validator /\ known \in BOOLEAN
  BY <1>1 DEF StateAt, Bonded, Op, TypeOK
<1>4. known => batch \subseteq validator /\ op[p].height \in block
  OBVIOUS
<1>5. known => asOf = op[p].height /\ batch = Bonded(op[p].height)
  <2>1. known => op[p].height \in Heights
    BY <1>1, <1>4, BlockHeights
  <2> QED BY <2>1 DEF StateAt, Heights
<1> HIDE DEF asOf, batch, known
<1>6. o \in Op
  BY <1>1, <1>3 DEF Op
<1>7. o.known => RefreshOK(o)
  BY <1>1, <1>3, <1>4, <1>5 DEF Op, RefreshOK
<1> HIDE DEF o
<1>8. ASSUME NEW n \in Op, n = o PROVE RefreshesOK'
  <2>1. n.known => RefreshOK(n)
    BY <1>7, <1>8
  <2>2. n.known => RefreshOK(n)'
    BY <2>1, RefreshStays
  <2>3. op' = [op EXCEPT ![p] = n]
    BY <1>2, <1>8
  <2> QED BY <2>2, <2>3, RefreshStep
<1> QED BY <1>6, <1>8

LEMMA LookupRefreshes ==
    ASSUME IInv, RefreshesOK, [Next]_vars, NEW p \in Proc, HasValidator(p)
    PROVE  RefreshesOK'
<1>1. /\ op[p] \in Op /\ op[p].step = "lookup" /\ OpBelongs(op[p])
      /\ op[p].known => RefreshOK(op[p])
  BY DEF IInv, TypeOK, OpsBelong, HasValidator, RefreshesOK
<1> DEFINE done(v) == op[p].done \cup (IF Found(v) THEN {v} ELSE {})
           missing(v) == op[p].missing + (IF Found(v) THEN 0 ELSE 1)
           step(v) == IF op[p].todo = {v} THEN "power" ELSE "lookup"
           o(v) == [op[p] EXCEPT !.todo = @ \ {v}, !.done = done(v),
                                 !.missing = missing(v), !.step = step(v)]
<1>2. PICK v \in op[p].todo : op' = [op EXCEPT ![p] = o(v)]
  BY <1>1 DEF HasValidator
<1>3. v \in Validator
  BY <1>1 DEF OpBelongs
<1>4. /\ done(v) \subseteq Validator /\ missing(v) \in Nat
      /\ step(v) \in {"power", "lookup"}
  BY <1>1, <1>3 DEF Op
<1>5. ASSUME op[p].known
      PROVE  /\ done(v) = op[p].done \cup {v} /\ missing(v) = 0
             /\ op[p].done \cup op[p].todo = op[p].batch
  BY <1>1, <1>2, <1>5 DEF RefreshOK, Found, Op
<1>6. step(v) = "power" => op[p].todo = {v}
  OBVIOUS
<1> HIDE DEF done, missing, step
<1>7. o(v) \in Op /\ o(v).known = op[p].known
  BY <1>1, <1>4 DEF Op
<1>8. ASSUME op[p].known PROVE RefreshOK(o(v))
  <2>1. RefreshOK(op[p])
    BY <1>1, <1>8
  <2>2. /\ o(v).asOf = op[p].asOf /\ o(v).height = op[p].height
        /\ o(v).batch = op[p].batch /\ o(v).missing = 0
        /\ o(v).done = op[p].done \cup {v} /\ o(v).todo = op[p].todo \ {v}
        /\ o(v).step = step(v)
    BY <1>1, <1>5, <1>8 DEF Op
  <2> HIDE DEF o
  <2> QED BY <1>2, <1>4, <1>5, <1>6, <1>8, <2>1, <2>2 DEF RefreshOK
<1> HIDE DEF o
<1>9. ASSUME NEW n \in Op, n = o(v) PROVE RefreshesOK'
  <2>1. n.known => RefreshOK(n)
    BY <1>7, <1>8, <1>9
  <2>2. n.known => RefreshOK(n)'
    BY <2>1, RefreshStays
  <2>3. op' = [op EXCEPT ![p] = n]
    BY <1>2, <1>9
  <2> QED BY <2>2, <2>3, RefreshStep
<1> QED BY <1>7, <1>9

LEMMA PowersRefresh ==
    ASSUME IInv, RefreshesOK, [Next]_vars, NEW p \in Proc, SaveValidatorsVotingPowers(p)
    PROVE  RefreshesOK'
<1> SUFFICES ASSUME NEW a \in Op, a = op[p] PROVE RefreshesOK'
  BY DEF IInv, TypeOK
<1> DEFINE o == [a EXCEPT !.step = "status"]
<1>1. a.step = "power" /\ (a.known => RefreshOK(a)) /\ TypeOK
  BY DEF SaveValidatorsVotingPowers, RefreshesOK, IInv
<1>2. op' = [op EXCEPT ![p] = o]
  BY DEF SaveValidatorsVotingPowers, Goes
<1>3. /\ o \in Op /\ o.known = a.known /\ o.step = "status" /\ o.asOf = a.asOf
      /\ o.height = a.height /\ o.batch = a.batch /\ o.missing = a.missing
      /\ o.done = a.done
  BY DEF Op
<1>4. ASSUME a.known PROVE RefreshOK(o)'
  <2>1. RefreshOK(a) /\ RefreshOK(a)'
    BY <1>1, <1>4, RefreshStays
  <2>2. a.missing = 0 /\ a.height \in block /\ a.done = a.batch /\ a.batch \subseteq Validator
    BY <1>1, <2>1 DEF RefreshOK, Op
  <2>3. Upsert("power", a.done, a.height, a.asOf)
    BY <2>2 DEF SaveValidatorsVotingPowers
  <2>4. a.height \in Nat /\ a.asOf \in Nat /\ "power" \in Tables
    BY DEF Op, Tables
  <2>5. \A v \in a.batch : AtLeast("power", v, a.height)'
    BY <1>1, <2>2, <2>3, <2>4, UpsertReaches
  <2> HIDE DEF o
  <2> QED BY <1>1, <1>3, <2>1, <2>2, <2>5 DEF RefreshOK
<1> HIDE DEF o
<1> QED BY <1>2, <1>3, <1>4, RefreshStep

\* A refresh that knew its validators has brought their statuses to its height.
LEMMA StatusesReach ==
    ASSUME IInv, RefreshesOK, [Next]_vars, NEW p \in Proc, NEW a \in Op, a = op[p],
           SaveValidatorsStatuses(p), a.known
    PROVE  /\ RefreshOK(a) /\ RefreshOK(a)' /\ a.step = "status"
           /\ \A v \in a.batch : \A t \in {"power", "status"} : AtLeast(t, v, a.height)'
<1>1. a.step = "status" /\ RefreshOK(a) /\ RefreshOK(a)' /\ TypeOK
  BY RefreshStays DEF SaveValidatorsStatuses, RefreshesOK, IInv
<1>2. a.missing = 0 /\ a.done = a.batch
  BY <1>1 DEF RefreshOK
<1>3. \A v \in a.done :
         row'[<<"status", v>>] # NoRow /\ row'[<<"status", v>>].height >= a.height
  BY <1>1, <1>2, StatusesWrite
<1>4. \A v \in a.batch : AtLeast("status", v, a.height)'
  BY <1>2, <1>3 DEF AtLeast
<1>5. \A v \in a.batch : AtLeast("power", v, a.height)'
  BY <1>1 DEF RefreshOK
<1> QED BY <1>1, <1>4, <1>5

LEMMA StatusesRefresh ==
    ASSUME IInv, RefreshesOK, [Next]_vars, NEW p \in Proc, SaveValidatorsStatuses(p)
    PROVE  RefreshesOK'
<1> SUFFICES ASSUME NEW a \in Op, a = op[p] PROVE RefreshesOK'
  BY DEF IInv, TypeOK
<1>1. CASE Proposal = {}
  BY <1>1, IdleUnknown, RefreshStep DEF SaveValidatorsStatuses, AfterStatuses, Ends
<1>2. CASE Proposal # {}
  <2> DEFINE o == [a EXCEPT !.step = "snapshot", !.todo = Proposal]
  <2>1. op' = [op EXCEPT ![p] = o]
    BY <1>2 DEF SaveValidatorsStatuses, AfterStatuses, IInv, TypeOK
  <2>2. /\ o \in Op /\ o.known = a.known /\ o.step = "snapshot" /\ o.asOf = a.asOf
        /\ o.height = a.height /\ o.batch = a.batch /\ o.missing = a.missing
        /\ o.todo = Proposal
    BY DEF Op
  <2> HIDE DEF o
  <2>3. ASSUME a.known PROVE RefreshOK(o)'
    <3>1. /\ RefreshOK(a)' /\ a.step = "status"
          /\ \A v \in a.batch : \A t \in {"power", "status"} : AtLeast(t, v, a.height)'
      BY <2>3, StatusesReach
    <3> QED BY <2>2, <3>1 DEF RefreshOK
  <2> QED BY <2>1, <2>2, <2>3, RefreshStep
<1> QED BY <1>1, <1>2

LEMMA SnapshotRefreshes ==
    ASSUME IInv, RefreshesOK, [Next]_vars, NEW p \in Proc, UpdateProposalSnapshot(p)
    PROVE  RefreshesOK'
<1> SUFFICES ASSUME NEW a \in Op, a = op[p] PROVE RefreshesOK'
  BY DEF IInv, TypeOK
<1>1. a.step = "snapshot" /\ (a.known => RefreshOK(a)) /\ TypeOK /\ OpBelongs(a)
  BY DEF UpdateProposalSnapshot, RefreshesOK, IInv, OpsBelong
<1>2. CASE Ends(p)
  BY <1>2, IdleUnknown, RefreshStep DEF Ends
<1>3. CASE ~Ends(p)
  <2>1. PICK pr \in a.todo :
            /\ a.batch \subseteq validator
            /\ Upsert(pr, a.batch, a.height, a.asOf)
            /\ op' = [op EXCEPT ![p].todo = @ \ {pr}]
    BY <1>3 DEF UpdateProposalSnapshot
  <2> DEFINE o == [a EXCEPT !.todo = @ \ {pr}]
  <2>2. op' = [op EXCEPT ![p] = o]
    BY <2>1
  <2>3. /\ o \in Op /\ o.known = a.known /\ o.step = "snapshot" /\ o.asOf = a.asOf
        /\ o.height = a.height /\ o.batch = a.batch /\ o.missing = a.missing
        /\ o.todo = a.todo \ {pr}
    BY <1>1 DEF Op
  <2> HIDE DEF o
  <2>4. ASSUME a.known PROVE RefreshOK(o)'
    <3>1. RefreshOK(a)'
      BY <1>1, <2>4, RefreshStays
    <3>2. a.height \in Nat /\ a.asOf \in Nat /\ a.batch \subseteq Validator /\ pr \in Tables
      BY <1>1, <2>1 DEF Op, OpBelongs, Tables
    <3>3. \A v \in a.batch : AtLeast(pr, v, a.height)'
      BY <1>1, <2>1, <3>2, UpsertReaches
    <3> QED BY <1>1, <2>3, <3>1, <3>3 DEF RefreshOK
  <2> QED BY <2>2, <2>3, <2>4, RefreshStep
<1> QED BY <1>2, <1>3

LEMMA FailureRefreshes ==
    ASSUME IInv, RefreshesOK, [Next]_vars, NEW p \in Proc, StatementFails(p)
    PROVE  RefreshesOK'
<1>1. op[p] \in Op
  BY DEF IInv, TypeOK
<1>2. CASE op[p].step = "power"
  <2> DEFINE o == [op[p] EXCEPT !.step = "status", !.known = FALSE]
  <2>1. o \in Op /\ ~o.known
    BY <1>1 DEF Op
  <2>2. op' = [op EXCEPT ![p] = o]
    BY <1>2 DEF StatementFails
  <2> HIDE DEF o
  <2> QED BY <2>1, <2>2, RefreshStep
<1>3. CASE op[p].step = "status" /\ Proposal # {}
  <2> DEFINE o == [op[p] EXCEPT !.step = "snapshot", !.known = FALSE, !.todo = Proposal]
  <2>1. o \in Op /\ ~o.known
    BY <1>1 DEF Op
  <2>2. op' = [op EXCEPT ![p] = o]
    BY <1>3 DEF StatementFails
  <2> HIDE DEF o
  <2> QED BY <2>1, <2>2, RefreshStep
<1>4. CASE op[p].step = "lookup"
  <2> DEFINE step(v) == IF op[p].todo = {v} THEN "power" ELSE "lookup"
             o(v) == [op[p] EXCEPT !.todo = @ \ {v}, !.missing = @ + 1, !.known = FALSE,
                                   !.step = step(v)]
  <2>1. PICK v \in op[p].todo : op' = [op EXCEPT ![p] = o(v)]
    BY <1>4 DEF StatementFails
  <2>2. op[p].missing + 1 \in Nat /\ step(v) \in {"power", "lookup"}
    BY <1>1 DEF Op
  <2> HIDE DEF step
  <2>3. o(v) \in Op /\ ~o(v).known
    BY <1>1, <2>2 DEF Op
  <2> HIDE DEF o
  <2> QED BY <2>1, <2>3, RefreshStep
<1>5. CASE op[p].step \notin {"lookup", "power"} /\ ~(op[p].step = "status" /\ Proposal # {})
  BY <1>5, IdleUnknown, RefreshStep DEF StatementFails, Ends
<1> QED BY <1>2, <1>3, <1>4, <1>5

\* Steps of others than the handlers.
LEMMA OthersRefreshes ==
    ASSUME IInv, RefreshesOK, [Next]_vars, UNCHANGED op \/ Crash
    PROVE  RefreshesOK'
<1> SUFFICES ASSUME NEW q \in Proc, NEW n \in Op, n = op'[q], n.known PROVE RefreshOK(n)'
  <2>1. op' \in [Proc -> Op]
    BY IInvStep DEF IInv, TypeOK
  <2>2. \A q \in Proc : op'[q].known => RefreshOK(op[q])'
    BY <2>1
  <2> QED BY <2>2 DEF RefreshesOK
<1>1. op' = op
  BY IdleUnknown DEF Crash
<1>2. RefreshOK(n)
  BY <1>1 DEF RefreshesOK
<1> QED BY <1>2, RefreshStays

LEMMA RefreshesStep == IInv /\ RefreshesOK /\ [Next]_vars => RefreshesOK'
<1> SUFFICES ASSUME IInv, RefreshesOK, [Next]_vars PROVE RefreshesOK'
  OBVIOUS
<1>1. ASSUME NEW p \in Proc, Begin(p) \/ Goon(p) \/ StatementFails(p) PROVE RefreshesOK'
  BY <1>1, BeginRefreshes, HandlersRefreshes, QueryRefreshes, LookupRefreshes,
     PowersRefresh, StatusesRefresh, SnapshotRefreshes, FailureRefreshes DEF Goon
<1>2. ASSUME NEW r \in Routine,
             SaveDoubleSignVote(r) \/ InsertEvidences(r) \/ RoutineFails(r)
      PROVE  UNCHANGED op
  BY <1>2 DEF SaveDoubleSignVote, InsertEvidences, RoutineFails
<1>3. ASSUME NEW h \in Heights, SaveBlock(h) \/ Prune(h) PROVE UNCHANGED op
  BY <1>3 DEF SaveBlock, Prune
<1>4. ASSUME NewBlock \/ UNCHANGED vars PROVE UNCHANGED op
  BY <1>4 DEF NewBlock, vars
<1> QED BY <1>1, <1>2, <1>3, <1>4, OthersRefreshes DEF Next

LEMMA UpdatedChanges ==
    ASSUME [Next]_vars
    PROVE  \/ updated' = updated
           \/ \E p \in Proc : SaveValidatorsStatuses(p) \/ UpdateProposalSnapshot(p)
<1>1. ASSUME NEW p \in Proc, Begin(p) PROVE updated' = updated
  BY <1>1, BeginChanges
<1>2. ASSUME NEW p \in Proc, Goon(p),
             ~SaveValidatorsStatuses(p), ~UpdateProposalSnapshot(p)
      PROVE  updated' = updated
  BY <1>2
     DEF Goon, SaveValidatorsData, SaveValidatorDescription, SaveValidatorCommission,
         SaveEach, QueryBonded, HasValidator, SaveValidatorsVotingPowers, history
<1>3. ASSUME NEW p \in Proc, StatementFails(p) PROVE updated' = updated
  BY <1>3 DEF StatementFails, history
<1>4. ASSUME NEW r \in Routine,
             SaveDoubleSignVote(r) \/ InsertEvidences(r) \/ RoutineFails(r)
      PROVE  updated' = updated
  BY <1>4 DEF SaveDoubleSignVote, InsertEvidences, RoutineFails, history
<1>5. ASSUME NEW h \in Heights, SaveBlock(h) \/ Prune(h) PROVE updated' = updated
  BY <1>5 DEF SaveBlock, Prune, history
<1>6. ASSUME NewBlock \/ Crash \/ UNCHANGED vars PROVE updated' = updated
  BY <1>6 DEF NewBlock, Crash, vars, history
<1> QED BY <1>1, <1>2, <1>3, <1>4, <1>5, <1>6 DEF Next

LEMMA UpdatesStep ==
    IInv /\ RefreshesOK /\ UpdatesReachRows /\ [Next]_vars => UpdatesReachRows'
<1> SUFFICES ASSUME IInv, RefreshesOK, UpdatesReachRows, [Next]_vars, NEW h \in updated',
                    NEW v \in Bonded(h)', NEW t \in {"power", "status"} \cup Proposal
             PROVE  AtLeast(t, v, h)'
  BY DEF UpdatesReachRows
<1>1. v \in Validator /\ t \in Tables /\ Grows
  BY StepGrows DEF Bonded, Tables
<1>2. CASE h \in updated
  <2>1. TypeOK /\ h \in block
    BY <1>2 DEF IInv, TypeOK
  <2>2. h \in Nat
    BY <2>1, BlockHeights DEF Heights
  <2>3. v \in Bonded(h)
    BY <1>1, <2>1, BondedStays
  <2>4. AtLeast(t, v, h)
    BY <1>2, <2>3 DEF UpdatesReachRows
  <2> QED BY <1>1, <2>2, <2>4, AtLeastStays
<1>3. CASE h \notin updated
  <2>1. PICK p \in Proc : SaveValidatorsStatuses(p) \/ UpdateProposalSnapshot(p)
    BY <1>3, UpdatedChanges
  <2>2. ASSUME NEW a \in Op, a = op[p] PROVE AtLeast(t, v, h)'
    <3>1. a.known /\ a.height = h
      BY <1>3, <2>1, <2>2 DEF SaveValidatorsStatuses, UpdateProposalSnapshot
    <3>2. RefreshOK(a) /\ RefreshOK(a)'
      BY <2>2, <3>1, RefreshStays DEF RefreshesOK
    <3>3. v \in a.batch /\ a.batch \subseteq Validator
      BY <3>1, <3>2 DEF RefreshOK, Op
    <3>4. CASE SaveValidatorsStatuses(p)
      <4>1. Proposal = {}
        BY <1>3, <3>4 DEF SaveValidatorsStatuses
      <4> QED BY <2>2, <3>1, <3>3, <3>4, <4>1, StatusesReach
    <3>5. CASE UpdateProposalSnapshot(p)
      <4>1. PICK pr \in a.todo :
               Upsert(pr, a.batch, a.height, a.asOf) /\ a.todo = {pr}
        BY <1>3, <2>2, <3>5 DEF UpdateProposalSnapshot
      <4>2. a.step = "snapshot" /\ OpBelongs(a) /\ TypeOK
        BY <2>2, <3>5 DEF UpdateProposalSnapshot, IInv, OpsBelong
      <4>3. a.height \in Nat /\ a.asOf \in Nat /\ pr \in Tables
        BY <4>1, <4>2 DEF Op, OpBelongs, Tables
      <4>4. CASE t = pr
        BY <3>1, <3>3, <4>1, <4>2, <4>3, <4>4, UpsertReaches
      <4>5. CASE t # pr
        BY <3>1, <3>2, <3>3, <4>1, <4>2, <4>5 DEF RefreshOK
      <4> QED BY <4>4, <4>5
    <3> QED BY <2>1, <3>4, <3>5
  <2>3. op[p] \in Op
    BY DEF IInv, TypeOK
  <2> QED BY <2>2, <2>3
<1> QED BY <1>2, <1>3

\* A refresh of the statuses that found every bonded validator in the validator
\* table, and met no failure, leaves power, status and snapshots of all of them at
\* its height or later, or pruned as rows of an old height, whatever others do.
THEOREM RefreshesReachRows == Spec => []UpdatesReachRows
<1>1. Init => RefreshesOK /\ UpdatesReachRows
  BY IdleUnknown DEF Init, RefreshesOK, UpdatesReachRows
<1> QED BY <1>1, RefreshesStep, UpdatesStep, IInvHolds, PTL DEF Spec

-----------------------------------------------------------------------------
(* Evidences are stored once.                                              *)

First(h) == Evidence[h][1].a

\* The goroutine has stored the first vote of its list, and it is still there.
Holds(r) == /\ routine[r].height # 0 /\ ~routine[r].gone
            /\ routine[r].next > 1 \/ routine[r].vote = "b"

\* The first vote of a block's list is the lock of the list: it is there when the
\* evidences are, and when a goroutine holds it, which only one does.
VoteLocks ==
    /\ \A h \in Heights : evidence[h] <= 1
    /\ \A h \in Heights : evidence[h] > 0 => Evidence[h] # << >> /\ First(h) \in votes
    /\ \A r \in Routine : Holds(r) =>
          /\ First(routine[r].height) \in votes
          /\ evidence[routine[r].height] = 0
          /\ \A s \in Routine :
                Holds(s) /\ routine[s].height = routine[r].height => s = r

\* Steps that touch neither votes nor evidences, and start or end goroutines only.
LEMMA LocksStay ==
    ASSUME IInv, VoteLocks, UNCHANGED <<votes, evidence>>,
           \A r \in Routine : Holds(r)' => routine'[r] = routine[r]
    PROVE  VoteLocks'
<1>1. \A r \in Routine : Holds(r)' => Holds(r) /\ routine'[r] = routine[r]
  BY DEF Holds
<1> QED BY <1>1 DEF VoteLocks

LEMMA NewHoldsNothing ==
    /\ NoRoutine.height = 0 /\ NoRoutine.next = 1 /\ NoRoutine.vote = "a"
    /\ NoRoutine.gone = FALSE
BY DEF NoRoutine

LEMMA VoteLocked ==
    ASSUME IInv, VoteLocks, NEW r \in Routine, SaveDoubleSignVote(r)
    PROVE  VoteLocks'
<1> DEFINE n == routine[r]
           pair == Evidence[n.height][n.next]
           x == IF n.vote = "a" THEN pair.a ELSE pair.b
           toB == [n EXCEPT !.vote = "b"]
           toA == [n EXCEPT !.vote = "a", !.next = n.next + 1]
<1>1. /\ n.height # 0 /\ UNCHANGED evidence
      /\ \/ routine' = [routine EXCEPT ![r] = NoRoutine] /\ votes' = votes
         \/ /\ x \notin votes /\ votes' = votes \cup {x}
            /\ \/ n.vote = "a" /\ routine' = [routine EXCEPT ![r] = toB]
               \/ n.vote # "a" /\ routine' = [routine EXCEPT ![r] = toA]
  BY DEF SaveDoubleSignVote, Conflicts, SameKey
<1>2. /\ n \in [height: 0..MaxHeight, next: Nat, vote: {"a", "b"}, gone: BOOLEAN]
      /\ n.height \in Heights /\ Evidence[n.height] # << >>
  BY <1>1, RoutineAt DEF IInv, RoutinesOK
<1>3. routine \in [Routine -> [height: 0..MaxHeight, next: Nat, vote: {"a", "b"},
                               gone: BOOLEAN]]
  BY DEF IInv, RoutinesOK
<1>4. CASE routine' = [routine EXCEPT ![r] = NoRoutine] /\ votes' = votes
  <2>1. \A s \in Routine : Holds(s)' => routine'[s] = routine[s]
    BY <1>3, <1>4, NewHoldsNothing DEF Holds
  <2> QED BY <1>1, <1>4, <2>1, LocksStay
<1>5. ASSUME NEW m \in [height: 0..MaxHeight, next: Nat, vote: {"a", "b"}, gone: BOOLEAN],
             m.height = n.height, m.gone = n.gone,
             routine' = [routine EXCEPT ![r] = m],
             x \notin votes, votes' = votes \cup {x},
             n.next > 1 \/ n.vote = "b" \/ x = First(n.height)
      PROVE  VoteLocks'
  <2> HIDE DEF x
  <2>1. \A s \in Routine : s # r => (Holds(s)' <=> Holds(s)) /\ routine'[s] = routine[s]
    BY <1>3, <1>5 DEF Holds
  <2>2. routine'[r].height = n.height /\ routine'[r].gone = n.gone
    BY <1>3, <1>5
  <2>3. CASE Holds(r)
    BY <1>1, <1>3, <1>5, <2>1, <2>2, <2>3 DEF VoteLocks
  <2>4. CASE ~Holds(r) /\ Holds(r)'
    <3>1. x = First(n.height)
      BY <1>1, <1>5, <2>2, <2>4 DEF Holds
    <3>2. evidence[n.height] \in Nat
      BY <1>2 DEF IInv, TypeOK
    <3>3. evidence[n.height] = 0
      BY <1>2, <1>5, <3>1, <3>2 DEF VoteLocks
    <3>4. \A s \in Routine : Holds(s) => routine[s].height # n.height
      BY <1>5, <3>1 DEF VoteLocks
    <3> QED BY <1>1, <1>2, <1>3, <1>5, <2>1, <2>2, <3>1, <3>3, <3>4 DEF VoteLocks
  <2>5. CASE ~Holds(r)'
    BY <1>1, <1>5, <2>1, <2>5 DEF VoteLocks
  <2> QED BY <2>3, <2>4, <2>5
<1>6. n.next > 1 \/ n.vote = "b" \/ x = First(n.height)
  <2>1. n.next \in Nat /\ n.next >= 1
    BY <1>1, <1>2, RoutineTypes DEF RoutinePlaces
  <2> QED BY <1>2, <2>1 DEF First
<1>7. CASE n.vote = "a" /\ x \notin votes /\ votes' = votes \cup {x}
           /\ routine' = [routine EXCEPT ![r] = toB]
  <2>1. /\ toB \in [height: 0..MaxHeight, next: Nat, vote: {"a", "b"}, gone: BOOLEAN]
        /\ toB.height = n.height /\ toB.gone = n.gone
    BY <1>2
  <2>2. ASSUME NEW m, m = toB PROVE VoteLocks'
    <3> HIDE DEF toB, x
    <3>1. m \in [height: 0..MaxHeight, next: Nat, vote: {"a", "b"}, gone: BOOLEAN]
          /\ m.height = n.height /\ m.gone = n.gone
      BY <2>1, <2>2
    <3> QED BY <1>5, <1>6, <1>7, <2>2, <3>1
  <2> QED BY <2>2
<1>8. CASE n.vote # "a" /\ x \notin votes /\ votes' = votes \cup {x}
           /\ routine' = [routine EXCEPT ![r] = toA]
  <2>1. n.next + 1 \in Nat
    BY <1>2
  <2>2. /\ toA \in [height: 0..MaxHeight, next: Nat, vote: {"a", "b"}, gone: BOOLEAN]
        /\ toA.height = n.height /\ toA.gone = n.gone
    <3> DEFINE next == n.next + 1
    <3> HIDE DEF n, next
    <3>1. toA \in [height: 0..MaxHeight, next: Nat, vote: {"a", "b"}, gone: BOOLEAN]
      BY <1>2, <2>1 DEF next
    <3>2. toA.height = n.height
      BY <1>2
    <3>3. toA.gone = n.gone
      BY <1>2
    <3> QED BY <3>1, <3>2, <3>3
  <2>3. ASSUME NEW m, m = toA PROVE VoteLocks'
    <3> HIDE DEF toA, x
    <3>1. m \in [height: 0..MaxHeight, next: Nat, vote: {"a", "b"}, gone: BOOLEAN]
          /\ m.height = n.height /\ m.gone = n.gone
      BY <2>2, <2>3
    <3> QED BY <1>5, <1>6, <1>8, <2>3, <3>1
  <2> QED BY <2>3
<1> QED BY <1>1, <1>4, <1>7, <1>8

LEMMA InsertLocked ==
    ASSUME IInv, VoteLocks, NEW r \in Routine, InsertEvidences(r)
    PROVE  VoteLocks'
<1> DEFINE h == routine[r].height
<1>1. /\ h # 0 /\ h \in Heights /\ Evidence[h] # << >>
      /\ routine' = [routine EXCEPT ![r] = NoRoutine] /\ UNCHANGED votes
  BY RoutineAt DEF InsertEvidences, IInv, RoutinesOK
<1>2. routine \in [Routine -> [height: 0..MaxHeight, next: Nat, vote: {"a", "b"},
                               gone: BOOLEAN]] /\ evidence \in [Heights -> Nat]
  BY DEF IInv, RoutinesOK, TypeOK
<1>3. ~Holds(r)' /\ \A s \in Routine : s # r => (Holds(s)' <=> Holds(s))
                                                 /\ routine'[s] = routine[s]
  BY <1>1, <1>2, NewHoldsNothing DEF Holds
<1>4. CASE routine[r].gone
  BY <1>1, <1>3, <1>4 DEF VoteLocks, InsertEvidences
<1>5. CASE ~routine[r].gone
  <2>1. Len(Evidence[h]) \in Nat /\ Len(Evidence[h]) > 0
    <3>1. Evidence[h] \in Seq([a: Vote, b: Vote])
      BY <1>1, RoutineAt
    <3> QED BY <1>1, <3>1
  <2>2. Holds(r)
    BY <1>1, <1>2, <1>5, <2>1 DEF InsertEvidences, Holds
  <2>3. /\ First(h) \in votes /\ evidence[h] = 0
        /\ \A s \in Routine : Holds(s) /\ routine[s].height = h => s = r
    BY <2>2 DEF VoteLocks
  <2>4. evidence' = [evidence EXCEPT ![h] = 1]
    BY <1>2, <1>5, <2>3 DEF InsertEvidences
  <2> HIDE DEF h
  <2> QED BY <1>1, <1>2, <1>3, <2>3, <2>4 DEF VoteLocks
<1> QED BY <1>4, <1>5

LEMMA PruneLocked ==
    ASSUME IInv, VoteLocks, NEW h \in Heights, Prune(h)
    PROVE  VoteLocks'
<1>1. routine \in [Routine -> [height: 0..MaxHeight, next: Nat, vote: {"a", "b"},
                               gone: BOOLEAN]] /\ evidence \in [Heights -> Nat]
  BY DEF IInv, RoutinesOK, TypeOK
<1>2. CASE \E k \in Heights : Refers(h, k)
  <2>1. \A r \in Routine : Holds(r)' => routine'[r] = routine[r]
    BY <1>2 DEF Prune
  <2> QED BY <1>2, <2>1, LocksStay DEF Prune
<1>3. CASE ~(\E k \in Heights : Refers(h, k))
  <2>1. /\ routine' = [r \in Routine |->
                 IF \E x \in votes : x.height = h /\ SavedBy(r, x)
                 THEN [routine[r] EXCEPT !.gone = TRUE] ELSE routine[r]]
        /\ votes' = {x \in votes : x.height # h}
        /\ evidence' = [k \in Heights |-> IF k = h THEN 0 ELSE evidence[k]]
    BY <1>3 DEF Prune
  <2>2. ASSUME NEW k \in Heights, evidence'[k] > 0
        PROVE  /\ evidence'[k] = evidence[k] /\ Evidence[k] # << >>
               /\ First(k) \in votes'
    <3>1. evidence'[k] = evidence[k] /\ evidence[k] > 0
      BY <1>1, <2>1, <2>2
    <3>2. Evidence[k] # << >> /\ First(k) \in votes
      BY <3>1 DEF VoteLocks
    <3>3. Len(Evidence[k]) \in Nat /\ Len(Evidence[k]) > 0
      <4>1. Evidence[k] \in Seq([a: Vote, b: Vote])
        BY EvidenceAssumption
      <4> QED BY <3>2, <4>1
    <3>4. First(k).height # h
      BY <1>3, <3>1, <3>3 DEF Refers, First
    <3> QED BY <2>1, <3>1, <3>2, <3>4
  <2>3. \A k \in Heights : evidence'[k] <= 1
    BY <1>1, <2>1 DEF VoteLocks
  <2>4. ASSUME NEW r \in Routine, Holds(r)'
        PROVE  Holds(r) /\ routine'[r] = routine[r] /\ First(routine[r].height) \in votes'
    <3>1. ~(\E x \in votes : x.height = h /\ SavedBy(r, x)) /\ routine'[r] = routine[r]
      BY <1>1, <2>1, <2>4 DEF Holds
    <3>2. Holds(r)
      BY <2>4, <3>1 DEF Holds
    <3>3. First(routine[r].height) \in votes
      BY <3>2 DEF VoteLocks
    <3>4. Len(Evidence[routine[r].height]) \in Nat /\ Len(Evidence[routine[r].height]) > 0
      <4>1. routine[r].height # 0
        BY <3>2 DEF Holds
      <4>2. Evidence[routine[r].height] # << >>
        BY <4>1 DEF IInv, RoutinesOK
      <4>3. Evidence[routine[r].height] \in Seq([a: Vote, b: Vote])
        BY <4>1, RoutineAt
      <4> QED BY <4>2, <4>3
    <3>5. SavedBy(r, First(routine[r].height))
      BY <1>1, <3>2, <3>4 DEF Holds, SavedBy, First
    <3>6. First(routine[r].height).height # h
      BY <3>1, <3>3, <3>5
    <3> QED BY <2>1, <3>1, <3>2, <3>3, <3>6
  <2>5. ASSUME NEW r \in Routine, Holds(r)'
        PROVE  /\ First(routine'[r].height) \in votes'
               /\ evidence'[routine'[r].height] = 0
               /\ \A s \in Routine :
                     Holds(s)' /\ routine'[s].height = routine'[r].height => s = r
    <3>1. Holds(r) /\ routine'[r] = routine[r] /\ First(routine[r].height) \in votes'
      BY <2>4, <2>5
    <3>2. evidence[routine[r].height] = 0 /\ routine[r].height \in Heights
      BY <3>1, RoutineAt DEF VoteLocks, Holds
    <3>3. evidence'[routine'[r].height] = 0
      BY <2>1, <3>1, <3>2
    <3>4. ASSUME NEW s \in Routine, Holds(s)', routine'[s].height = routine'[r].height
          PROVE  s = r
      <4>1. Holds(s) /\ routine'[s] = routine[s]
        BY <2>4, <3>4
      <4> QED BY <3>1, <3>4, <4>1 DEF VoteLocks
    <3> QED BY <3>1, <3>3, <3>4
  <2> QED BY <2>2, <2>3, <2>5 DEF VoteLocks
<1> QED BY <1>2, <1>3

LEMMA LocksStep == IInv /\ VoteLocks /\ [Next]_vars => VoteLocks'
<1> SUFFICES ASSUME IInv, VoteLocks, [Next]_vars PROVE VoteLocks'
  OBVIOUS
<1>0. routine \in [Routine -> [height: 0..MaxHeight, next: Nat, vote: {"a", "b"},
                               gone: BOOLEAN]]
  BY DEF IInv, RoutinesOK
<1>1. CASE UNCHANGED <<votes, evidence, routine>>
  BY <1>1, LocksStay
<1>2. ASSUME NEW p \in Proc, Begin(p) \/ StatementFails(p) PROVE VoteLocks'
  BY <1>1, <1>2, BeginChanges DEF StatementFails, tables
<1>3. ASSUME NEW p \in Proc, SaveValidatorsData(p) PROVE VoteLocks'
  <2>1. UNCHANGED <<votes, evidence>>
        /\ (UNCHANGED routine \/ SpawnEvidence(op[p].height))
    BY <1>3 DEF SaveValidatorsData
  <2>2. ASSUME SpawnEvidence(op[p].height), NEW r \in Routine, Holds(r)'
        PROVE  routine'[r] = routine[r]
    <3>1. CASE UNCHANGED routine
      BY <3>1
    <3>2. CASE ~UNCHANGED routine
      <4>1. PICK s \in Routine :
                routine[s] = NoRoutine
                /\ routine' = [routine EXCEPT ![s].height = op[p].height]
        BY <2>2, <3>2 DEF SpawnEvidence
      <4> DEFINE m == [NoRoutine EXCEPT !.height = op[p].height]
      <4>2. m.next = 1 /\ m.vote = "a"
        BY DEF NoRoutine
      <4>3. routine' = [routine EXCEPT ![s] = m]
        BY <4>1
      <4> HIDE DEF m
      <4> QED BY <1>0, <2>2, <4>2, <4>3 DEF Holds
    <3> QED BY <3>1, <3>2
  <2>3. \A r \in Routine : Holds(r)' => routine'[r] = routine[r]
    BY <2>1, <2>2
  <2> QED BY <2>1, <2>3, LocksStay
<1>4. ASSUME NEW p \in Proc, Goon(p), ~SaveValidatorsData(p) PROVE VoteLocks'
  BY <1>1, <1>4
     DEF Goon, SaveValidatorDescription, SaveValidatorCommission, SaveEach, QueryBonded,
         HasValidator, SaveValidatorsVotingPowers, SaveValidatorsStatuses,
         UpdateProposalSnapshot, tables
<1>5. ASSUME NEW r \in Routine, RoutineFails(r) PROVE VoteLocks'
  <2>1. \A s \in Routine : Holds(s)' => routine'[s] = routine[s]
    BY <1>0, <1>5, NewHoldsNothing DEF Holds, RoutineFails
  <2> QED BY <1>5, <2>1, LocksStay DEF RoutineFails, tables
<1>6. CASE Crash
  <2>1. \A s \in Routine : ~Holds(s)'
    BY <1>6, NewHoldsNothing DEF Holds, Crash
  <2> QED BY <1>6, <2>1, LocksStay DEF Crash, tables
<1>7. ASSUME NewBlock \/ (\E h \in Heights : SaveBlock(h)) \/ UNCHANGED vars
      PROVE  VoteLocks'
  BY <1>1, <1>7 DEF NewBlock, SaveBlock, vars, tables
<1> QED BY <1>2, <1>3, <1>4, <1>5, <1>6, <1>7, VoteLocked, InsertLocked, PruneLocked DEF Next

LEMMA LocksInit == Init => VoteLocks
<1> SUFFICES ASSUME Init PROVE VoteLocks
  OBVIOUS
<1>1. \A r \in Routine : ~Holds(r)
  BY NewHoldsNothing DEF Init, Holds
<1>2. \A h \in Heights : evidence[h] = 0
  BY DEF Init
<1> QED BY <1>1, <1>2 DEF VoteLocks

\* However often a block is handled, by however many goroutines at a time, its list of
\* evidences is in the table once at most.
THEOREM EvidencesStoredOnce == Spec => []EvidenceStoredOnce
<1>1. Init => VoteLocks
  BY LocksInit
<1>2. VoteLocks => EvidenceStoredOnce
  BY DEF VoteLocks, EvidenceStoredOnce
<1> QED BY <1>1, <1>2, LocksStep, IInvHolds, PTL DEF Spec

-----------------------------------------------------------------------------
(* Evidences are stored.                                                   *)

\* The chain removes no validator of whom it has evidence.
VotersStay ==
    \A h \in Heights : \A i \in Index(h) : \A c \in {"a", "b"} :
        \A s \in ChainState : s[VoteOf(h, i, c).by] # "absent"

\* The goroutine has come past the vote.
Passed(r, i, c) ==
    i < routine[r].next \/ (i = routine[r].next /\ c = "a" /\ routine[r].vote = "b")

\* As long as nothing failed or was pruned, some goroutine answers for every vote of a
\* list that is in the table, and for every block that was handled, where no vote from
\* another place is in the way.
VoteStored(h, i, c) ==
    VoteOf(h, i, c) \in votes =>
        \/ evidence[h] = 1
        \/ \E r \in Routine : routine[r].height = h /\ Passed(r, i, c)

BlockStored(h) ==
    Blocked(h) \/ Clashes(h) \/ Evidence[h] = << >> \/ evidence[h] = 1
        \/ \E r \in Routine : routine[r].height = h

VotersKnown(r) ==
    LET h == routine[r].height
    IN h # 0 => \A i \in Index(h) : \A c \in {"a", "b"} : VoteOf(h, i, c).by \in validator

Listed(x) ==
    \E h \in Heights : \E i \in Index(h), c \in {"a", "b"} : x = VoteOf(h, i, c)

VotesStored(h) == Clashes(h) \/ \A i \in Index(h), c \in {"a", "b"} : VoteStored(h, i, c)

Storing ==
    failures = 0 /\ pruned = 0 =>
        /\ \A r \in Routine : ~routine[r].gone /\ VotersKnown(r)
        /\ \A x \in votes : Listed(x)
        /\ \A h \in Heights : VotesStored(h)
        /\ \A h \in handled : BlockStored(h)

RoutineRecord == [height: 0..MaxHeight, next: Nat, vote: {"a", "b"}, gone: BOOLEAN]

\* Failures and pruning are not forgotten.
LEMMA FaultsStay ==
    ASSUME IInv, [Next]_vars, failures' = 0, pruned' = 0
    PROVE  failures = 0 /\ pruned = 0
<1>1. failures \in Nat /\ pruned \in Nat /\ pruned' \in Nat /\ pruned <= pruned'
  <2>1. IInv'
    BY IInvStep
  <2>2. pruned \in 0..MaxHeight /\ pruned' \in 0..MaxHeight /\ failures \in 0..MaxFailures
    BY <2>1 DEF IInv, TypeOK
  <2>3. Grows
    BY StepGrows
  <2> QED BY <2>2, <2>3, BoundsAssumption DEF Grows
<1>2. failures' = failures \/ failures' = failures + 1
  <2>1. ASSUME NEW p \in Proc, Begin(p) PROVE failures' = failures
    BY <2>1, BeginChanges
  <2>2. ASSUME NEW p \in Proc, Goon(p) PROVE failures' = failures
    BY <2>2
       DEF Goon, SaveValidatorsData, SaveValidatorDescription, SaveValidatorCommission,
           SaveEach, QueryBonded, HasValidator, SaveValidatorsVotingPowers,
           SaveValidatorsStatuses, UpdateProposalSnapshot
  <2>3. ASSUME NEW p \in Proc, StatementFails(p) PROVE failures' = failures + 1
    BY <2>3 DEF StatementFails
  <2>4. ASSUME NEW r \in Routine,
               SaveDoubleSignVote(r) \/ InsertEvidences(r) \/ RoutineFails(r)
        PROVE  failures' = failures \/ failures' = failures + 1
    BY <2>4 DEF SaveDoubleSignVote, InsertEvidences, RoutineFails
  <2>5. ASSUME NEW h \in Heights, SaveBlock(h) \/ Prune(h) PROVE failures' = failures
    BY <2>5 DEF SaveBlock, Prune
  <2>6. ASSUME NewBlock \/ Crash \/ UNCHANGED vars
        PROVE  failures' = failures \/ failures' = failures + 1
    BY <2>6 DEF NewBlock, Crash, vars
  <2> QED BY <2>1, <2>2, <2>3, <2>4, <2>5, <2>6 DEF Next
<1> QED BY <1>1, <1>2

\* A vote that is in the way stays there until it is pruned.
LEMMA ClashesStay ==
    ASSUME votes \subseteq votes', NEW h, Clashes(h)
    PROVE  Clashes(h)'
BY DEF Clashes, VoteOf, Index, SameKey

\* A block that has not been handled in vain so far is not, if its goroutine or its
\* evidences stay.
LEMMA BlockStaysStored ==
    ASSUME IInv, [Next]_vars, NEW h \in handled, BlockStored(h), votes \subseteq votes',
           evidence[h] = 1 => evidence'[h] = 1,
           ~Clashes(h) => \A r \in Routine : routine[r].height = h =>
               evidence'[h] = 1 \/ \E s \in Routine : routine'[s].height = h
    PROVE  BlockStored(h)'
<1>1. h \in block
  BY DEF IInv, TypeOK
<1>2. CASE Blocked(h)
  BY <1>1, <1>2, BlockedStays DEF BlockStored
<1>3. CASE Clashes(h)
  BY <1>3, ClashesStay DEF BlockStored
<1>4. CASE ~Blocked(h) /\ ~Clashes(h)
  BY <1>4 DEF BlockStored
<1> QED BY <1>2, <1>3, <1>4

\* Steps of the others: goroutines that work on a list stay as they are.
LEMMA StoringStays ==
    ASSUME IInv, Storing, [Next]_vars, UNCHANGED <<votes, evidence>>,
           \A r \in Routine : routine[r].height # 0 => routine'[r] = routine[r],
           \A r \in Routine : routine'[r] # routine[r] => ~routine'[r].gone /\ VotersKnown(r)',
           \A h \in handled' \ handled : BlockStored(h)'
    PROVE  Storing'
<1> SUFFICES ASSUME failures' = 0, pruned' = 0
    PROVE  /\ \A r \in Routine : ~routine'[r].gone /\ VotersKnown(r)'
           /\ \A x \in votes' : Listed(x)'
           /\ \A h \in Heights : VotesStored(h)'
           /\ \A h \in handled' : BlockStored(h)'
  BY DEF Storing
<1>1. failures = 0 /\ pruned = 0
  BY FaultsStay
<1>2. /\ \A r \in Routine : ~routine[r].gone /\ VotersKnown(r)
      /\ \A x \in votes : Listed(x)
      /\ \A h \in Heights : VotesStored(h)
      /\ \A h \in handled : BlockStored(h)
  BY <1>1 DEF Storing
<1>3. validator \subseteq validator'
  BY StepGrows DEF Grows
<1>4. ASSUME NEW r \in Routine PROVE ~routine'[r].gone /\ VotersKnown(r)'
  <2>1. CASE routine'[r] = routine[r]
    BY <1>2, <1>3, <2>1 DEF VotersKnown, Index, VoteOf
  <2> QED BY <2>1
<1>5. ASSUME NEW h \in Heights PROVE VotesStored(h)'
  <2>1. VotesStored(h) /\ h # 0
    BY <1>2 DEF Heights
  <2>2. ASSUME NEW i \in Index(h), NEW c \in {"a", "b"}, VoteStored(h, i, c)
        PROVE  VoteStored(h, i, c)'
    BY <2>1, <2>2 DEF VoteStored, Passed, VoteOf
  <2>3. CASE Clashes(h)
    BY <2>3, ClashesStay DEF VotesStored
  <2>4. CASE ~Clashes(h)
    <3>1. \A i \in Index(h), c \in {"a", "b"} : VoteStored(h, i, c)'
      BY <2>1, <2>2, <2>4 DEF VotesStored
    <3> QED BY <3>1 DEF VotesStored, Index
  <2> QED BY <2>3, <2>4
<1>6. ASSUME NEW h \in handled' PROVE BlockStored(h)'
  <2>1. CASE h \in handled
    <3>1. h \in Heights /\ h # 0
      <4>1. TypeOK /\ h \in block
        BY <2>1 DEF IInv, TypeOK
      <4> QED BY <4>1, BlockHeights DEF Heights
    <3>2. BlockStored(h)
      BY <1>2, <2>1
    <3> QED BY <2>1, <3>1, <3>2, BlockStaysStored
  <2> QED BY <2>1
<1>7. \A x \in votes' : Listed(x)'
  BY <1>2 DEF Listed, VoteOf, Index
<1> QED BY <1>4, <1>5, <1>6, <1>7

\* The handler of a block leaves a goroutine that answers for the block.
LEMMA InfosStoring ==
    ASSUME VotersStay, IInv, Storing, [Next]_vars, NEW p \in Proc, SaveValidatorsData(p)
    PROVE  Storing'
<1>1. op[p] \in Op /\ OpBelongs(op[p]) /\ TypeOK
  BY DEF IInv, TypeOK, OpsBelong
<1>2. UNCHANGED <<votes, evidence>> /\ validator' = validator \cup op[p].batch
  BY DEF SaveValidatorsData
<1>3. CASE op[p].kind # "block"
  BY <1>2, <1>3, StoringStays DEF SaveValidatorsData
<1>4. ASSUME NEW h, h = op[p].height, op[p].kind = "block" PROVE Storing'
  <2>1. h \in block /\ h \in Heights /\ op[p].batch = Present(h) /\ handled' = handled \cup {h}
    BY <1>1, <1>4, BlockHeights DEF OpBelongs, SaveValidatorsData
  <2>2. CASE \E v \in op[p].batch : OperatorTaken(v)
    <3>1. Blocked(h)
      BY <2>1, <2>2 DEF Blocked
    <3>2. Blocked(h)'
      BY <2>1, <3>1, BlockedStays
    <3>3. UNCHANGED routine
      BY <2>2 DEF SaveValidatorsData
    <3> QED BY <1>2, <2>1, <3>2, <3>3, StoringStays DEF BlockStored
  <2>3. CASE ~(\E v \in op[p].batch : OperatorTaken(v))
    <3>1. SpawnEvidence(h)
      BY <1>4, <2>3 DEF SaveValidatorsData
    <3>2. CASE Evidence[h] = << >>
      BY <1>2, <2>1, <3>1, <3>2, StoringStays DEF SpawnEvidence, BlockStored
    <3>3. CASE Evidence[h] # << >>
      <4>1. PICK r \in Routine :
                routine[r] = NoRoutine /\ routine' = [routine EXCEPT ![r].height = h]
        BY <3>1, <3>3 DEF SpawnEvidence
      <4>2. routine \in [Routine -> RoutineRecord]
        BY DEF IInv, RoutinesOK, RoutineRecord
      <4> DEFINE n == [NoRoutine EXCEPT !.height = h]
      <4>3. n.height = h /\ n.gone = FALSE /\ routine' = [routine EXCEPT ![r] = n]
        BY <4>1 DEF NoRoutine
      <4> HIDE DEF n
      <4>4. /\ routine'[r].height = h /\ ~routine'[r].gone
            /\ \A s \in Routine : s # r => routine'[s] = routine[s]
            /\ routine[r].height = 0
        BY <4>1, <4>2, <4>3, NewHoldsNothing
      <4>5. ASSUME NEW i \in Index(h), NEW c \in {"a", "b"}
            PROVE  VoteOf(h, i, c).by \in validator'
        <5>1. chain[h] \in ChainState
          BY <1>1, <2>1, BlockHeights, ElementOf DEF TypeOK
        <5>2. VoteOf(h, i, c).by \in Validator
          <6>1. Evidence[h] \in Seq([a: Vote, b: Vote])
            BY <2>1, EvidenceAssumption
          <6>2. Evidence[h][i] \in [a: Vote, b: Vote]
            BY <6>1, ElementOf DEF Index
          <6> QED BY <6>2, VoteAssumption DEF VoteOf
        <5>3. VoteOf(h, i, c).by \in Present(h)
          BY <2>1, <5>1, <5>2 DEF VotersStay, Present
        <5> QED BY <1>2, <2>1, <5>3
      <4>6. VotersKnown(r)'
        BY <4>4, <4>5 DEF VotersKnown, Index, VoteOf
      <4>7. BlockStored(h)'
        BY <4>4 DEF BlockStored
      <4> QED BY <1>2, <2>1, <4>4, <4>6, <4>7, StoringStays
    <3> QED BY <3>2, <3>3
  <2> QED BY <2>2, <2>3
<1> QED BY <1>3, <1>4

\* A goroutine that finds its vote in the table leaves the list to the one that put it
\* there; one that does not puts it there itself.
LEMMA VoteStoring ==
    ASSUME IInv, Storing, [Next]_vars, NEW r \in Routine, SaveDoubleSignVote(r)
    PROVE  Storing'
<1> SUFFICES ASSUME failures' = 0, pruned' = 0
    PROVE  /\ \A s \in Routine : ~routine'[s].gone /\ VotersKnown(s)'
           /\ \A y \in votes' : Listed(y)'
           /\ \A k \in Heights : VotesStored(k)'
           /\ \A k \in handled' : BlockStored(k)'
  BY DEF Storing
<1> DEFINE n == routine[r]
           h == n.height
           i == n.next
           c == n.vote
           x == VoteOf(h, i, c)
           m == [n EXCEPT !.vote = IF c = "a" THEN "b" ELSE "a",
                          !.next = IF c = "a" THEN i ELSE i + 1]
<1>1. failures = 0 /\ pruned = 0
  BY FaultsStay
<1>2. /\ \A s \in Routine : ~routine[s].gone /\ VotersKnown(s)
      /\ \A y \in votes : Listed(y)
      /\ \A k \in Heights : VotesStored(k)
      /\ \A k \in handled : BlockStored(k)
  BY <1>1 DEF Storing
<1>3. routine \in [Routine -> RoutineRecord]
  BY DEF IInv, RoutinesOK, RoutineRecord
<1>4. h # 0 /\ h \in Heights /\ i \in Index(h) /\ c \in {"a", "b"} /\ i \in Nat
  <2>1. h # 0 /\ i <= Len(Evidence[h])
    BY DEF SaveDoubleSignVote
  <2>2. n \in RoutineRecord /\ h \in Heights /\ Len(Evidence[h]) \in Nat
        /\ i \in 1..Len(Evidence[h]) + 1
    BY <2>1, RoutineAt DEF RoutineRecord
  <2> QED BY <2>1, <2>2 DEF Index, RoutineRecord
<1>5. x.by \in validator
  BY <1>2, <1>4 DEF VotersKnown
<1>6. /\ UNCHANGED <<validator, evidence, handled>>
      /\ \/ Conflicts(x) /\ votes' = votes /\ routine' = [routine EXCEPT ![r] = NoRoutine]
         \/ votes' = votes \cup {x} /\ routine' = [routine EXCEPT ![r] = m]
  <2>1. UNCHANGED <<validator, evidence, handled>>
    BY DEF SaveDoubleSignVote, history
  <2>2. CASE Conflicts(x)
    BY <1>4, <2>1, <2>2 DEF SaveDoubleSignVote, VoteOf
  <2>3. CASE ~Conflicts(x)
    <3>1. /\ votes' = votes \cup {x}
          /\ routine' = [routine EXCEPT ![r] =
                IF c = "a" THEN [n EXCEPT !.vote = "b"]
                ELSE [n EXCEPT !.vote = "a", !.next = i + 1]]
      BY <1>5, <2>3 DEF SaveDoubleSignVote, VoteOf
    <3>2. (IF c = "a" THEN [n EXCEPT !.vote = "b"]
           ELSE [n EXCEPT !.vote = "a", !.next = i + 1]) = m
      BY <1>3, <1>4 DEF RoutineRecord
    <3> QED BY <2>1, <3>1, <3>2
  <2> QED BY <2>2, <2>3
<1>7. /\ m.height = h /\ m.gone = n.gone
      /\ m.vote = (IF c = "a" THEN "b" ELSE "a") /\ m.next = (IF c = "a" THEN i ELSE i + 1)
  BY <1>3, <1>4 DEF RoutineRecord
<1>8. \A k \in handled : k \in Heights /\ k # 0
  <2>1. TypeOK /\ handled \subseteq block
    BY DEF IInv, TypeOK
  <2> QED BY <2>1, BlockHeights DEF Heights
<1> HIDE DEF m, x
<1>9. CASE Conflicts(x) /\ votes' = votes /\ routine' = [routine EXCEPT ![r] = NoRoutine]
  <2>1. routine'[r] = NoRoutine /\ \A s \in Routine : s # r => routine'[s] = routine[s]
    BY <1>3, <1>9
  <2>2. ASSUME ~Clashes(h)
        PROVE  evidence[h] = 1 \/ \E s \in Routine : routine[s].height = h /\ Passed(s, i, c)
    <3>1. PICK y \in votes : SameKey(x, y)
      BY <1>9 DEF Conflicts
    <3>2. PICK k \in Heights : \E j \in Index(k), d \in {"a", "b"} : y = VoteOf(k, j, d)
      BY <1>2 DEF Listed
    <3>3. PICK j \in Index(k), d \in {"a", "b"} : y = VoteOf(k, j, d)
      BY <3>2
    <3>4. SameKey(VoteOf(k, j, d), x) /\ VoteOf(k, j, d) \in votes
      BY <3>1, <3>3 DEF SameKey
    <3>5. <<k, j, d>> = <<h, i, c>>
      BY <1>4, <2>2, <3>4 DEF Clashes, x
    <3>6. VoteOf(h, i, c) \in votes
      BY <3>4, <3>5
    <3>7. VoteStored(h, i, c)
      BY <1>2, <1>4, <2>2 DEF VotesStored
    <3> QED BY <3>6, <3>7 DEF VoteStored
  <2>3. ASSUME NEW s \in Routine, routine[s].height = h, Passed(s, i, c)
        PROVE  /\ s # r
               /\ \A j \in Nat : \A d \in {"a", "b"} : Passed(r, j, d) => Passed(s, j, d)
    <3>1. routine[s].next \in Nat /\ routine[s].vote \in {"a", "b"}
      BY <1>3 DEF RoutineRecord
    <3> QED BY <1>4, <2>3, <3>1 DEF Passed
  <2>4. ASSUME NEW s \in Routine PROVE ~routine'[s].gone /\ VotersKnown(s)'
    BY <1>2, <1>6, <2>1, NewHoldsNothing DEF VotersKnown, Index, VoteOf
  <2>5. ASSUME NEW k \in Heights, ~Clashes(k), NEW j \in Index(k), NEW d \in {"a", "b"}
        PROVE  VoteStored(k, j, d)'
    <3>1. VoteStored(k, j, d) /\ j \in Nat
      BY <1>2, <2>5 DEF Index, VotesStored
    <3>2. CASE k = h
      <4>1. CASE evidence[h] = 1
        BY <1>6, <3>2, <4>1 DEF VoteStored
      <4>2. CASE evidence[h] # 1
        <5>1. PICK s \in Routine : routine[s].height = h /\ Passed(s, i, c)
          BY <2>2, <2>5, <3>2, <4>2
        <5>2. s # r /\ (Passed(r, j, d) => Passed(s, j, d))
          BY <2>3, <3>1, <5>1
        <5> QED BY <1>6, <1>9, <2>1, <3>1, <3>2, <5>1, <5>2 DEF VoteStored, Passed, VoteOf
      <4> QED BY <4>1, <4>2
    <3>3. CASE k # h
      BY <1>6, <1>9, <2>1, <3>1, <3>3 DEF VoteStored, Passed, VoteOf
    <3> QED BY <3>2, <3>3
  <2>6. ASSUME NEW k \in handled' PROVE BlockStored(k)'
    <3>1. k \in handled /\ BlockStored(k)
      BY <1>2, <1>6
    <3>2. ASSUME ~Clashes(k), NEW s \in Routine, routine[s].height = k
          PROVE  evidence'[k] = 1 \/ \E t \in Routine : routine'[t].height = k
      <4>1. CASE s # r
        BY <2>1, <3>2, <4>1
      <4>2. CASE s = r
        BY <1>6, <2>1, <2>2, <2>3, <3>2, <4>2
      <4> QED BY <4>1, <4>2
    <3>3. (evidence[k] = 1 => evidence'[k] = 1) /\ votes \subseteq votes'
      BY <1>6, <1>9
    <3> QED BY <3>1, <3>2, <3>3, BlockStaysStored
  <2>7. ASSUME NEW k \in Heights PROVE VotesStored(k)'
    <3>1. CASE Clashes(k)
      BY <1>9, <3>1, ClashesStay DEF VotesStored
    <3>2. CASE ~Clashes(k)
      BY <2>5, <3>2 DEF VotesStored, Index
    <3> QED BY <3>1, <3>2
  <2>8. \A y \in votes' : Listed(y)'
    BY <1>2, <1>9 DEF Listed, VoteOf, Index
  <2> QED BY <2>4, <2>6, <2>7, <2>8
<1>10. CASE votes' = votes \cup {x} /\ routine' = [routine EXCEPT ![r] = m]
  <2>1. /\ routine'[r] = m /\ routine'[r].height = h
        /\ \A s \in Routine : s # r => routine'[s] = routine[s]
    BY <1>3, <1>7, <1>10
  <2>2. ASSUME NEW s \in Routine PROVE ~routine'[s].gone /\ VotersKnown(s)'
    <3>1. routine'[s].height = routine[s].height /\ routine'[s].gone = routine[s].gone
      BY <1>7, <2>1
    <3> QED BY <1>2, <1>6, <3>1 DEF VotersKnown, Index, VoteOf
  <2>3. ASSUME NEW k \in Heights, ~Clashes(k)', NEW j \in Index(k), NEW d \in {"a", "b"}
        PROVE  VoteStored(k, j, d)'
    <3>1. VoteStored(k, j, d) /\ j \in Nat
      <4>1. ~Clashes(k)
        BY <1>10, <2>3, ClashesStay
      <4> QED BY <1>2, <4>1 DEF Index, VotesStored
    <3>2. \A s \in Routine : routine[s].height = k /\ Passed(s, j, d) =>
              routine'[s].height = k /\ Passed(s, j, d)'
      BY <1>4, <1>7, <2>1, <3>1 DEF Passed
    <3>3. CASE VoteOf(k, j, d) = x
      <4>1. VoteOf(h, i, c) \in votes' /\ SameKey(VoteOf(h, i, c), VoteOf(k, j, d))
        BY <1>10, <3>3 DEF SameKey, x
      <4>2. <<h, i, c>> = <<k, j, d>>
        <5> SUFFICES ASSUME <<h, i, c>> # <<k, j, d>> PROVE Clashes(k)'
          BY <2>3
        <5>1. PICK g, i0, c0 : g = h /\ i0 = i /\ c0 = c
          OBVIOUS
        <5>2. /\ g \in Heights /\ i0 \in Index(g) /\ c0 \in {"a", "b"}
              /\ <<g, i0, c0>> # <<k, j, d>>
              /\ VoteOf(g, i0, c0) \in votes'
              /\ SameKey(VoteOf(g, i0, c0), VoteOf(k, j, d))
          BY <1>4, <4>1, <5>1
        <5> HIDE DEF h, i, c
        <5>3. /\ j \in Index(k)' /\ i0 \in Index(g)' /\ VoteOf(g, i0, c0)' \in votes'
              /\ SameKey(VoteOf(g, i0, c0), VoteOf(k, j, d))'
          BY <2>3, <5>2 DEF Index, VoteOf, SameKey
        <5> QED BY <2>3, <5>2, <5>3 DEF Clashes
      <4>3. Passed(r, j, d)'
        BY <1>4, <1>7, <2>1, <4>2 DEF Passed
      <4> QED BY <2>1, <4>2, <4>3 DEF VoteStored
    <3>4. CASE VoteOf(k, j, d) # x
      BY <1>6, <1>10, <3>1, <3>2, <3>4 DEF VoteStored, VoteOf
    <3> QED BY <3>3, <3>4
  <2>4. ASSUME NEW k \in handled' PROVE BlockStored(k)'
    <3>1. k \in handled /\ BlockStored(k) /\ (evidence[k] = 1 => evidence'[k] = 1)
      BY <1>2, <1>6
    <3>2. \A s \in Routine : routine[s].height = k => routine'[s].height = k
      BY <2>1
    <3>3. votes \subseteq votes'
      BY <1>10
    <3> QED BY <3>1, <3>2, <3>3, BlockStaysStored
  <2>5. ASSUME NEW k \in Heights PROVE VotesStored(k)'
    BY <2>3 DEF VotesStored, Index
  <2>6. \A y \in votes' : Listed(y)'
    BY <1>2, <1>4, <1>10 DEF Listed, VoteOf, Index, x
  <2> QED BY <2>2, <2>4, <2>5, <2>6
<1> QED BY <1>6, <1>9, <1>10

\* The goroutine that comes to the end of the list stores the evidences, as the first.
LEMMA InsertStoring ==
    ASSUME IInv, VoteLocks, Storing, [Next]_vars, NEW r \in Routine, InsertEvidences(r)
    PROVE  Storing'
<1> SUFFICES ASSUME failures' = 0, pruned' = 0
    PROVE  /\ \A s \in Routine : ~routine'[s].gone /\ VotersKnown(s)'
           /\ \A y \in votes' : Listed(y)'
           /\ \A k \in Heights : VotesStored(k)'
           /\ \A k \in handled' : BlockStored(k)'
  BY DEF Storing
<1> DEFINE h == routine[r].height
<1>1. failures = 0 /\ pruned = 0
  BY FaultsStay
<1>2. /\ \A s \in Routine : ~routine[s].gone /\ VotersKnown(s)
      /\ \A y \in votes : Listed(y)
      /\ \A k \in Heights : VotesStored(k)
      /\ \A k \in handled : BlockStored(k)
  BY <1>1 DEF Storing
<1>3. /\ routine \in [Routine -> RoutineRecord] /\ evidence \in [Heights -> Nat]
      /\ h \in Heights
  BY RoutineAt DEF IInv, RoutinesOK, RoutineRecord, TypeOK, InsertEvidences
<1>4. /\ evidence' = [evidence EXCEPT ![h] = @ + 1]
      /\ routine'[r] = NoRoutine /\ \A s \in Routine : s # r => routine'[s] = routine[s]
      /\ UNCHANGED <<validator, votes, handled>>
  BY <1>2, <1>3 DEF InsertEvidences, history
<1>5. evidence'[h] = 1 /\ \A k \in Heights : k # h => evidence'[k] = evidence[k]
  <2>1. evidence'[h] <= 1
    BY <1>3, LocksStep DEF VoteLocks
  <2> QED BY <1>3, <1>4, <2>1
<1> HIDE DEF h
<1>6. ASSUME NEW s \in Routine PROVE ~routine'[s].gone /\ VotersKnown(s)'
  BY <1>2, <1>4, NewHoldsNothing DEF VotersKnown, Index, VoteOf
<1>7. ASSUME NEW k \in Heights PROVE VotesStored(k)'
  <2>1. VotesStored(k)
    BY <1>2
  <2>2. ASSUME NEW j \in Index(k), NEW d \in {"a", "b"}, VoteStored(k, j, d)
        PROVE  VoteStored(k, j, d)'
    <3>1. CASE k = h
      BY <1>5, <3>1 DEF VoteStored
    <3>2. CASE k # h
      BY <1>4, <1>5, <2>2, <3>2 DEF VoteStored, Passed, VoteOf, h
    <3> QED BY <3>1, <3>2
  <2>3. CASE Clashes(k)
    BY <1>4, <2>3, ClashesStay DEF VotesStored
  <2>4. CASE ~Clashes(k)
    <3>1. \A j \in Index(k), d \in {"a", "b"} : VoteStored(k, j, d)'
      BY <2>1, <2>2, <2>4 DEF VotesStored
    <3> QED BY <3>1 DEF VotesStored, Index
  <2> QED BY <2>3, <2>4
<1>8. ASSUME NEW k \in handled' PROVE BlockStored(k)'
  <2>1. k \in handled /\ BlockStored(k) /\ k \in Heights
    <3>1. TypeOK /\ k \in handled /\ handled \subseteq block
      BY <1>4, <1>8 DEF IInv, TypeOK
    <3> QED BY <1>2, <3>1, BlockHeights
  <2>2. CASE k = h
    BY <1>5, <2>2 DEF BlockStored
  <2>3. CASE k # h
    <3>1. evidence'[k] = evidence[k]
      BY <1>5, <2>1, <2>3
    <3>2. \A s \in Routine : routine[s].height = k => routine'[s].height = k
      BY <1>4, <2>3 DEF h
    <3>3. votes \subseteq votes'
      BY <1>4
    <3> QED BY <2>1, <3>1, <3>2, <3>3, BlockStaysStored
  <2> QED BY <2>2, <2>3
<1>9. \A y \in votes' : Listed(y)'
  BY <1>2, <1>4 DEF Listed, VoteOf, Index
<1> QED BY <1>6, <1>7, <1>8, <1>9

LEMMA StoringStep ==
    VotersStay /\ IInv /\ VoteLocks /\ Storing /\ [Next]_vars => Storing'
<1> SUFFICES ASSUME VotersStay, IInv, VoteLocks, Storing, [Next]_vars
             PROVE  Storing'
  OBVIOUS
<1>1. CASE UNCHANGED <<votes, evidence, routine, handled>>
  BY <1>1, StoringStays
<1>2. ASSUME NEW p \in Proc, Begin(p) \/ StatementFails(p) PROVE Storing'
  BY <1>1, <1>2, BeginChanges DEF StatementFails, tables, history
<1>3. ASSUME NEW p \in Proc, Goon(p), ~SaveValidatorsData(p) PROVE Storing'
  BY <1>1, <1>3
     DEF Goon, SaveValidatorDescription, SaveValidatorCommission, SaveEach, QueryBonded,
         HasValidator, SaveValidatorsVotingPowers, SaveValidatorsStatuses,
         UpdateProposalSnapshot, tables, history
<1>4. ASSUME NEW r \in Routine, RoutineFails(r) PROVE Storing'
  <2>1. failures' = failures + 1 /\ failures \in Nat
    BY <1>4, BoundsAssumption DEF RoutineFails, IInv, TypeOK
  <2> QED BY <2>1 DEF Storing
<1>5. CASE Crash
  <2>1. failures' = failures + 1 /\ failures \in Nat
    BY <1>5, BoundsAssumption DEF Crash, IInv, TypeOK
  <2> QED BY <2>1 DEF Storing
<1>6. ASSUME NEW h \in Heights, Prune(h) PROVE Storing'
  <2>1. pruned' # 0
    BY <1>6, BoundsAssumption DEF Prune, Heights, IInv, TypeOK
  <2> QED BY <2>1 DEF Storing
<1>7. ASSUME NewBlock \/ (\E h \in Heights : SaveBlock(h)) \/ UNCHANGED vars
      PROVE  Storing'
  BY <1>1, <1>7 DEF NewBlock, SaveBlock, vars, tables, history
<1> QED BY <1>2, <1>3, <1>4, <1>5, <1>6, <1>7, InfosStoring, VoteStoring, InsertStoring
        DEF Next

\* Where no validator with evidence is removed, the evidences of a handled block are in
\* the table, and once, when its goroutines are through, nothing failed or was pruned,
\* and no vote from another place has the key of one of theirs.
THEOREM EvidencesStored == VotersStay => (Spec => []EvidenceOfHandledBlocks)
<1> SUFFICES ASSUME VotersStay PROVE Spec => []EvidenceOfHandledBlocks
  OBVIOUS
<1>1. Init => VoteLocks
  BY LocksInit
<1>2. Init => Storing
  <2> SUFFICES ASSUME Init PROVE Storing
    OBVIOUS
  <2>1. \A r \in Routine : ~routine[r].gone /\ routine[r].height = 0
    BY NewHoldsNothing DEF Init
  <2>2. votes = {} /\ handled = {}
    BY DEF Init
  <2> QED BY <2>1, <2>2 DEF Storing, VotersKnown, VotesStored, VoteStored
<1>3. VoteLocks /\ Storing /\ IInv => EvidenceOfHandledBlocks
  <2> SUFFICES ASSUME VoteLocks, Storing PROVE EvidenceOfHandledBlocks
    OBVIOUS
  <2>1. EvidenceStoredOnce
    BY DEF VoteLocks, EvidenceStoredOnce
  <2>2. ASSUME NEW h \in handled, failures = 0, pruned = 0 PROVE BlockStored(h)
    BY <2>2 DEF Storing
  <2> QED BY <2>1, <2>2 DEF EvidenceOfHandledBlocks, BlockStored
<1>4. IInv /\ VoteLocks /\ Storing /\ [Next]_vars => Storing'
  BY StoringStep
<1> QED BY <1>1, <1>2, <1>3, <1>4, LocksStep, IInvHolds, PTL DEF Spec
=============================================================================
