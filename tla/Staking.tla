------------------------------ MODULE Staking ------------------------------
(***************************************************************************)
(* The validator tables of callisto's staking module: validator,           *)
(* validator_info, validator_description, validator_commission,            *)
(* validator_voting_power, validator_status, the validator snapshots of    *)
(* the open proposals, and the double sign votes and evidences.            *)
(*                                                                         *)
(* They are written by block and message handlers of several workers, by   *)
(* the periodic refresh of the statuses, by genesis, upgrades and the      *)
(* `parse staking` command.  A handler reads the node and then runs a      *)
(* sequence of statements without a transaction; each statement is a step. *)
(*                                                                         *)
(* A row is abstracted to its height and to `asOf`, the chain height whose *)
(* state it holds.  A validator is its consensus address.  An operator has *)
(* one validator at a time; when that one has been removed it may come     *)
(* back with another consensus key.                                        *)
(***************************************************************************)
EXTENDS Integers, Sequences, FiniteSets

CONSTANTS
    Validator,      \* consensus addresses
    Operator,       \* the operator of every validator
    ChainState,     \* the states of the validators a block may end with
    Vote,           \* signed votes, records with fields by, height and block: the
                    \* id voted for, the same one for nil whatever the height
    Evidence,       \* double signs of every block: sequences of [a: Vote, b: Vote]
    Proposal,       \* the open proposals
    Proc,           \* goroutines and commands that run handlers
    Routine,        \* bound: evidence goroutines at a time
    MaxHeight,      \* bound on the chain's height
    MaxFailures,    \* bound on failed statements and crashes
    KeepRecent,     \* pruning.keep_recent of the configuration
    Nobody,         \* the empty address, of the zero value of a Go struct
    NoRow           \* there is no row for the key

Heights == 1..MaxHeight
Status  == {"absent", "unbonded", "bonded"}
Tables  == {"info", "description", "commission", "power", "status"} \cup Proposal
Address == Validator \cup {Nobody}
Row     == [height: Nat, asOf: Nat]

ASSUME ChainStateAssumption ==
    /\ ChainState \subseteq [Validator -> Status]
    /\ \A s \in ChainState, v, w \in Validator :
          s[v] # "absent" /\ s[w] # "absent" /\ Operator[v] = Operator[w] => v = w
ASSUME VoteAssumption == \A x \in Vote : x.by \in Validator /\ x.height \in Nat
ASSUME EvidenceAssumption == Evidence \in [Heights -> Seq([a: Vote, b: Vote])]
ASSUME BoundsAssumption ==
    /\ MaxHeight \in Nat /\ MaxFailures \in Nat /\ KeepRecent \in Nat
ASSUME NamesAssumption == Nobody \notin Validator /\ NoRow \notin Row

VARIABLES
    chain,      \* the validators' states at the end of every block
    block,      \* block table: the stored heights
    validator,  \* validator table: the consensus addresses
    row,        \* the tables that have a row per validator
    votes,      \* double_sign_vote table
    evidence,   \* double_sign_evidence: how often each block's list is stored
    op,         \* what each goroutine is doing
    routine,    \* what each evidence goroutine is doing
    handled,    \* history: blocks whose handler came to save the infos
    updated,    \* history: heights of the completed refreshes of the statuses
    pruned,     \* history: the newest pruned height
    failures

vars == <<chain, block, validator, row, votes, evidence, op, routine, handled,
          updated, pruned, failures>>
tables  == <<block, validator, row, votes, evidence>>
history == <<handled, updated, pruned>>

Op == [kind: {"idle", "block", "refresh", "statuses"},
       step: {"idle", "query", "info", "description", "commission",
              "lookup", "power", "status", "snapshot"},
       height: Nat, asOf: Nat,
       batch: SUBSET Validator,     \* the validators being saved
       done: SUBSET Validator,      \* those of them found or saved so far
       todo: SUBSET (Validator \cup Proposal),
       missing: Nat,                \* zero entries in the slices
       known: BOOLEAN]              \* history: all were in the validator table

Idle == [kind |-> "idle", step |-> "idle", height |-> 0, asOf |-> 0, batch |-> {},
         done |-> {}, todo |-> {}, missing |-> 0, known |-> FALSE]

NoRoutine == [height |-> 0, next |-> 1, vote |-> "a", gone |-> FALSE]

Init ==
    /\ chain = << >> /\ block = {} /\ validator = {}
    /\ row = [k \in Tables \X Address |-> NoRow]
    /\ votes = {} /\ evidence = [h \in Heights |-> 0]
    /\ op = [p \in Proc |-> Idle] /\ routine = [r \in Routine |-> NoRoutine]
    /\ handled = {} /\ updated = {} /\ pruned = 0 /\ failures = 0

Present(h) == {v \in Validator : chain[h][v] # "absent"}
Bonded(h)  == {v \in Validator : chain[h][v] = "bonded"}

\* Mutated form of Accepts: an upsert without its WHERE clause.
AcceptsAlways(r, h) == TRUE

\* ... DO UPDATE ... WHERE table.height <= excluded.height.
Accepts(r, h) == r = NoRow \/ r.height <= h

Upsert(t, addresses, h, asOf) ==
    row' = [k \in Tables \X Address |->
              IF k[1] = t /\ k[2] \in addresses /\ Accepts(row[k], h)
              THEN [height |-> h, asOf |-> asOf] ELSE row[k]]

Goes(p, step) == op' = [op EXCEPT ![p].step = step]
Ends(p) == op' = [op EXCEPT ![p] = Idle]

-----------------------------------------------------------------------------
(* The chain, and the worker that stores blocks and their signers.         *)

NewBlock ==
    /\ Len(chain) < MaxHeight
    /\ \E s \in ChainState : chain' = Append(chain, s)
    /\ UNCHANGED <<tables, op, routine, history, failures>>

\* A block comes with the validators that may sign it: those bonded when the
\* block before the last one ended.
Signers(h) == Bonded(IF h > 2 THEN h - 2 ELSE 1)

SaveBlock(h) ==
    /\ h \in 1..Len(chain) \ block
    /\ validator' = validator \cup Signers(h)
    /\ block' = block \cup {h}
    /\ UNCHANGED <<chain, row, votes, evidence, op, routine, history, failures>>

-----------------------------------------------------------------------------
(* Handlers start.  The node's state at a past height does not change, so a *)
(* query for one is part of the first step; when it fails nothing happens.  *)

Start(p, kind, h, batch, todo) ==
    /\ op[p] = Idle
    /\ op' = [op EXCEPT ![p] =
                 [Idle EXCEPT !.kind = kind, !.step = "info", !.height = h, !.asOf = h,
                              !.batch = batch, !.todo = todo]]
    /\ UNCHANGED <<chain, tables, routine, history, failures>>

\* Mutated form of getValidators: the bonded ones.
BondedValidators(h) == Bonded(h)

\* Every validator whatever its status.
getValidators(h) == Present(h)

\* Mutated form of HandleBlock: called before the block is stored.
HandleBlockFirst(p, h) == Start(p, "block", h, getValidators(h), {})

\* The block handler saves all validators in one batch.
HandleBlock(p, h) == h \in block /\ Start(p, "block", h, getValidators(h), {})

\* MsgCreateValidator and MsgEditValidator: one validator is refreshed; the
\* query fails when it was removed before the end of the block.
HandleMsg(p, h, v) ==
    h \in block /\ v \in Present(h) /\ Start(p, "refresh", h, {v}, {})

\* An upgrade (at its block) and the command (at the node's latest height)
\* refresh every validator, one after another.
RefreshAllValidatorInfos(p, h, v) ==
    /\ h \in block \/ h = Len(chain)
    /\ h > 0 /\ v \in Present(h)
    /\ Start(p, "refresh", h, {v}, Present(h) \ {v})

\* The genesis file is parsed before the first block is: the validators of its
\* transactions one by one, or those of an exported state in one batch.
HandleGenesis(p, v) ==
    /\ Len(chain) > 0 /\ block = {} /\ v \in Present(1)
    /\ \/ Start(p, "refresh", 1, {v}, Present(1) \ {v})
       \/ Start(p, "refresh", 1, Present(1), {})

\* The periodic refresh, and MsgDelegate, MsgBeginRedelegate and MsgUndelegate,
\* take the newest height of the block table, 0 when it is empty.
UpdateValidatorStatuses(p, h) ==
    /\ op[p] = Idle
    /\ Len(chain) > 0
    /\ IF block = {} THEN h = 0 ELSE h \in block /\ \A k \in block : k <= h
    /\ op' = [op EXCEPT ![p] = [Idle EXCEPT !.kind = "statuses", !.step = "query",
                                           !.height = h]]
    /\ UNCHANGED <<chain, tables, routine, history, failures>>

-----------------------------------------------------------------------------
(* SaveValidatorsData, then description and commission.                    *)

\* operator_address is unique and only consensus_address is a conflict target:
\* the row of an operator's former validator makes the whole batch fail.
OperatorTaken(v) ==
    \E w \in Validator \ {v} :
        Operator[w] = Operator[v] /\ row[<<"info", w>>] # NoRow

\* The block handler is through when the infos are saved, and starts the
\* goroutine that saves the block's evidences.
SpawnEvidence(h) ==
    IF Evidence[h] = << >> THEN UNCHANGED routine
    ELSE \E r \in Routine :
            /\ routine[r] = NoRoutine
            /\ routine' = [routine EXCEPT ![r].height = h]

\* The rows of validator are inserted first, and stay when the infos fail.
SaveValidatorsData(p) ==
    /\ op[p].step = "info"
    /\ validator' = validator \cup op[p].batch
    /\ handled' = IF op[p].kind = "block" THEN handled \cup {op[p].height} ELSE handled
    /\ IF \E v \in op[p].batch : OperatorTaken(v)
       THEN Ends(p) /\ UNCHANGED <<row, routine>>
       ELSE /\ Upsert("info", op[p].batch, op[p].height, op[p].asOf)
            /\ IF op[p].kind = "block"
               THEN Ends(p) /\ SpawnEvidence(op[p].height)
               ELSE Goes(p, "description") /\ UNCHANGED routine
    /\ UNCHANGED <<chain, block, votes, evidence, updated, pruned, failures>>

\* The rows of description and commission are keyed by the consensus address
\* that validator_info has for the operator.
ConsensusAddress(v) ==
    CHOOSE w \in Validator : Operator[w] = Operator[v] /\ row[<<"info", w>>] # NoRow

\* One statement for each validator of the batch, then the next step.
SaveEach(p, table, next) ==
    /\ op[p].step = table
    /\ \E v \in op[p].batch \ op[p].done :
          /\ Upsert(table, {ConsensusAddress(v)}, op[p].height, op[p].asOf)
          /\ op' = [op EXCEPT ![p] =
                       IF op[p].done \cup {v} # op[p].batch
                       THEN [op[p] EXCEPT !.done = @ \cup {v}] ELSE next]
    /\ UNCHANGED <<chain, block, validator, votes, evidence, routine, history, failures>>

SaveValidatorDescription(p) ==
    SaveEach(p, "description", [op[p] EXCEPT !.step = "commission", !.done = {}])

\* After the commission the next validator is queried and refreshed.
SaveValidatorCommission(p) ==
    IF op[p].todo = {} THEN SaveEach(p, "commission", Idle)
    ELSE \E w \in op[p].todo :
            SaveEach(p, "commission", [op[p] EXCEPT !.step = "info", !.done = {},
                                                    !.batch = {w}, !.todo = @ \ {w}])
-----------------------------------------------------------------------------
(* UpdateValidatorStatuses.                                                *)

\* Mutated form of StateAt: the query goes to the latest state.
StateAtLatest(h) == Len(chain)

\* The state the node answers with: for height 0 the latest one.
StateAt(h) == IF h = 0 THEN Len(chain) ELSE h

\* Only the bonded validators are asked for.
QueryBonded(p) ==
    /\ op[p].step = "query"
    /\ LET asOf  == StateAt(op[p].height)
           batch == Bonded(asOf)
       IN op' = [op EXCEPT ![p] =
                   [@ EXCEPT !.step = IF batch = {} THEN "power" ELSE "lookup",
                             !.asOf = asOf, !.batch = batch, !.todo = batch,
                             !.known = batch \subseteq validator
                                       /\ op[p].height \in block]]
    /\ UNCHANGED <<chain, tables, routine, history, failures>>

\* Mutated form of Found: only validators whose infos are stored.
FoundWithInfo(v) == row[<<"info", v>>] # NoRow

\* The validator table has the address.
Found(v) == v \in validator

\* A validator that is not found is skipped, but its place in the slices stays,
\* with the zero value: no address, height 0.
HasValidator(p) ==
    /\ op[p].step = "lookup"
    /\ \E v \in op[p].todo :
          op' = [op EXCEPT ![p] =
                   [op[p] EXCEPT
                      !.todo = @ \ {v},
                      !.done = @ \cup (IF Found(v) THEN {v} ELSE {}),
                      !.missing = @ + (IF Found(v) THEN 0 ELSE 1),
                      !.step = IF op[p].todo = {v} THEN "power" ELSE "lookup"]]
    /\ UNCHANGED <<chain, tables, routine, history, failures>>

\* The heights refer to the block table, so a zero entry makes the statement
\* fail, and with it the powers of all the others; the error is only logged.
SaveValidatorsVotingPowers(p) ==
    /\ op[p].step = "power"
    /\ Goes(p, "status")
    /\ IF op[p].missing = 0 /\ op[p].height \in block
       THEN Upsert("power", op[p].done, op[p].height, op[p].asOf)
       ELSE UNCHANGED row
    /\ UNCHANGED <<chain, block, validator, votes, evidence, routine, history, failures>>

\* After the statuses come the snapshots, if a proposal is open.
AfterStatuses(p) ==
    IF Proposal = {} THEN Ends(p)
    ELSE op' = [op EXCEPT ![p].step = "snapshot", ![p].todo = Proposal]

\* The validators of the statuses are inserted first, the empty address too.  The
\* second statement may write a row once: two zero entries make it fail.
SaveValidatorsStatuses(p) ==
    /\ op[p].step = "status"
    /\ validator' = validator \cup op[p].done
                              \cup (IF op[p].missing = 0 THEN {} ELSE {Nobody})
    /\ AfterStatuses(p)
    /\ row' = IF op[p].missing > 1 THEN row
              ELSE [k \in Tables \X Address |->
                      CASE k[1] = "status" /\ k[2] \in op[p].done
                              /\ Accepts(row[k], op[p].height) ->
                                  [height |-> op[p].height, asOf |-> op[p].asOf]
                        [] k = <<"status", Nobody>> /\ op[p].missing = 1
                              /\ Accepts(row[k], 0) -> [height |-> 0, asOf |-> 0]
                        [] OTHER -> row[k]]
    /\ updated' = IF Proposal = {} /\ op[p].known THEN updated \cup {op[p].height}
                  ELSE updated
    /\ UNCHANGED <<chain, block, votes, evidence, routine, handled, pruned,
                   failures>>

\* The snapshot of one proposal has every bonded validator, found or not; one
\* that is not in the validator table ends the handler with an error.
UpdateProposalSnapshot(p) ==
    /\ op[p].step = "snapshot"
    /\ \E pr \in op[p].todo :
          IF op[p].batch \subseteq validator
          THEN /\ Upsert(pr, op[p].batch, op[p].height, op[p].asOf)
               /\ IF op[p].todo = {pr} THEN Ends(p)
                  ELSE op' = [op EXCEPT ![p].todo = @ \ {pr}]
               /\ updated' = IF op[p].todo = {pr} /\ op[p].known
                             THEN updated \cup {op[p].height} ELSE updated
          ELSE Ends(p) /\ UNCHANGED <<row, updated>>
    /\ UNCHANGED <<chain, block, validator, votes, evidence, routine, handled, pruned,
                   failures>>

-----------------------------------------------------------------------------
(* The goroutine that saves a block's double sign evidences.               *)

\* Mutated form of Conflicts: the insert returns the id of the stored vote.
ConflictsNever(x) == FALSE

\* UNIQUE (block_id, validator_address): the votes of one validator for nil have one
\* key, at whatever heights and rounds.
SameKey(x, y) == x.block = y.block /\ x.by = y.by

\* ON CONFLICT DO NOTHING RETURNING id: nothing is returned for a vote whose key is
\* taken, and the goroutine ends with an error.
Conflicts(x) == \E y \in votes : SameKey(x, y)

SaveDoubleSignVote(r) ==
    LET n    == routine[r]
        pair == Evidence[n.height][n.next]
        x    == IF n.vote = "a" THEN pair.a ELSE pair.b
    IN /\ n.height # 0
       /\ n.next <= Len(Evidence[n.height])
       /\ IF Conflicts(x) \/ x.by \notin validator
          THEN routine' = [routine EXCEPT ![r] = NoRoutine] /\ UNCHANGED votes
          ELSE /\ votes' = votes \cup {x}
               /\ routine' = [routine EXCEPT ![r] =
                     IF n.vote = "a" THEN [n EXCEPT !.vote = "b"]
                     ELSE [n EXCEPT !.vote = "a", !.next = n.next + 1]]
       /\ UNCHANGED <<chain, block, validator, row, evidence, op, history, failures>>

\* The evidences of the block are inserted by one statement, without a key that
\* could conflict; the ids of the votes must still be there.
InsertEvidences(r) ==
    /\ routine[r].height # 0
    /\ routine[r].next > Len(Evidence[routine[r].height])
    /\ evidence' = IF routine[r].gone THEN evidence
                   ELSE [evidence EXCEPT ![routine[r].height] = @ + 1]
    /\ routine' = [routine EXCEPT ![r] = NoRoutine]
    /\ UNCHANGED <<chain, block, validator, row, votes, op, history, failures>>

-----------------------------------------------------------------------------
(* Pruning and failures.                                                   *)

PrunedTables == {"commission", "power", "status"}

\* The evidences that refer to a vote of the height.
Refers(h, k) ==
    /\ evidence[k] > 0
    /\ \E i \in 1..Len(Evidence[k]) :
          Evidence[k][i].a.height = h \/ Evidence[k][i].b.height = h

\* The goroutine holds the id of the vote it saved.
SavedBy(r, x) ==
    /\ routine[r].height # 0
    /\ \E i \in 1..Len(Evidence[routine[r].height]) :
          LET pair == Evidence[routine[r].height][i]
          IN \/ x = pair.a /\ (i < routine[r].next \/ routine[r].vote = "b")
             \/ x = pair.b /\ i < routine[r].next

\* Votes go before the evidences that refer to them: the foreign key stops the
\* pruning there.
Prune(h) ==
    /\ \E b \in block : h + KeepRecent <= b
    /\ row' = [k \in Tables \X Address |->
                 IF k[1] \in PrunedTables /\ row[k] # NoRow /\ row[k].height = h
                 THEN NoRow ELSE row[k]]
    /\ IF \E k \in Heights : Refers(h, k) THEN UNCHANGED <<votes, evidence, routine>>
       ELSE /\ routine' = [r \in Routine |->
                  IF \E x \in votes : x.height = h /\ SavedBy(r, x)
                  THEN [routine[r] EXCEPT !.gone = TRUE] ELSE routine[r]]
            /\ votes' = {x \in votes : x.height # h}
            /\ evidence' = [k \in Heights |-> IF k = h THEN 0 ELSE evidence[k]]
    /\ pruned' = IF h > pruned THEN h ELSE pruned
    /\ UNCHANGED <<chain, block, validator, op, handled, updated, failures>>

\* A query or a statement fails.  The error of a lookup is discarded, and the validator
\* counts as not found; one of the statuses' own statements is logged and the handler
\* goes on; any other ends it.
StatementFails(p) ==
    /\ op[p].step # "idle"
    /\ failures < MaxFailures
    /\ failures' = failures + 1
    /\ CASE op[p].step = "lookup" ->
              \E v \in op[p].todo :
                 op' = [op EXCEPT ![p] =
                          [op[p] EXCEPT
                             !.todo = @ \ {v}, !.missing = @ + 1, !.known = FALSE,
                             !.step = IF op[p].todo = {v} THEN "power" ELSE "lookup"]]
         [] op[p].step = "power" ->
              op' = [op EXCEPT ![p] = [@ EXCEPT !.step = "status", !.known = FALSE]]
         [] op[p].step = "status" /\ Proposal # {} ->
              op' = [op EXCEPT ![p] = [@ EXCEPT !.step = "snapshot", !.known = FALSE,
                                                !.todo = Proposal]]
         [] OTHER -> Ends(p)
    /\ UNCHANGED <<chain, tables, routine, history>>

RoutineFails(r) ==
    /\ routine[r] # NoRoutine
    /\ failures < MaxFailures
    /\ failures' = failures + 1
    /\ routine' = [routine EXCEPT ![r] = NoRoutine]
    /\ UNCHANGED <<chain, tables, op, history>>

\* The process dies with all its goroutines.
Crash ==
    /\ failures < MaxFailures
    /\ failures' = failures + 1
    /\ op' = [p \in Proc |-> Idle]
    /\ routine' = [r \in Routine |-> NoRoutine]
    /\ UNCHANGED <<chain, tables, history>>

-----------------------------------------------------------------------------
Begin(p) ==
    \/ \E h \in 1..Len(chain) :
          \/ HandleBlock(p, h)
          \/ \E v \in Validator :
                HandleMsg(p, h, v) \/ RefreshAllValidatorInfos(p, h, v)
    \/ \E v \in Validator : HandleGenesis(p, v)
    \/ \E h \in 0..MaxHeight : UpdateValidatorStatuses(p, h)

Goon(p) ==
    \/ SaveValidatorsData(p)
    \/ SaveValidatorDescription(p) \/ SaveValidatorCommission(p)
    \/ QueryBonded(p) \/ HasValidator(p) \/ SaveValidatorsVotingPowers(p)
    \/ SaveValidatorsStatuses(p) \/ UpdateProposalSnapshot(p)

Next ==
    \/ NewBlock
    \/ \E h \in Heights : SaveBlock(h)
    \/ \E p \in Proc : Begin(p) \/ Goon(p) \/ StatementFails(p)
    \/ \E r \in Routine : SaveDoubleSignVote(r) \/ InsertEvidences(r) \/ RoutineFails(r)
    \/ \E h \in Heights : Prune(h)
    \/ Crash

Spec == Init /\ [][Next]_vars

-----------------------------------------------------------------------------
TypeOK ==
    /\ chain \in Seq(ChainState) /\ Len(chain) <= MaxHeight
    /\ block \subseteq 1..Len(chain)
    /\ validator \subseteq Address
    /\ row \in [Tables \X Address -> Row \cup {NoRow}]
    /\ votes \subseteq Vote
    /\ evidence \in [Heights -> Nat]
    /\ op \in [Proc -> Op]
    /\ \A r \in Routine : routine[r].height # 0 =>
          routine[r].next \in 1..Len(Evidence[routine[r].height]) + 1
    /\ handled \cup updated \subseteq block /\ pruned \in 0..MaxHeight
    /\ failures \in 0..MaxFailures

\* A row of the validator is at least as recent as h, or recent ones were pruned.
AtLeast(t, v, h) ==
    (row[<<t, v>>] # NoRow /\ row[<<t, v>>].height >= h) \/ (t \in PrunedTables /\ pruned >= h)

\* However the handlers interleave, a row holds the state of the height it is
\* stamped with, and belongs to a stored block; only refreshes that found no block
\* stamp height 0, and only on statuses and snapshots.
RowsBelong ==
    \A k \in Tables \X Address : row[k] # NoRow =>
        \/ row[k].height > 0 /\ row[k].asOf = row[k].height
        \/ row[k].height = 0 /\ k[1] \in {"status"} \cup Proposal

\* An operator of the block has the row of its former validator in the way.
Blocked(h) == \E v \in Present(h) : OperatorTaken(v)

\* The handler of a block leaves infos of all its validators, bonded or not, that
\* are at least as recent; only an operator that came back with another key makes
\* it miss them, and then it misses the infos of every validator of the block.
InfosFollowBlocks ==
    \A h \in handled : Blocked(h) \/ \A v \in Present(h) : AtLeast("info", v, h)

\* A refresh of the statuses whose statements succeed, and that starts when the
\* validator table has every bonded validator, brings power, status and snapshots of
\* all of them to its height, whatever other refreshes run: zero entries come only from
\* unknown validators, and from lookups whose error is discarded.
UpdatesReachRows ==
    \A h \in updated : \A v \in Bonded(h) :
        \A t \in {"power", "status"} \cup Proposal : AtLeast(t, v, h)

\* The row of a validator is never replaced by an older one.
Registers == INSTANCE VersionedRegisters WITH Key <- Tables \X Address, reg <- row

ValidatorTablesAreRegisters == Registers!Spec

\* The evidences of a block are stored once at most, however often and however
\* concurrently the block is handled: the votes that are there stop the others.
EvidenceStoredOnce == \A h \in Heights : evidence[h] <= 1

\* The places of the votes in the list of a block.
Index(h) == 1..Len(Evidence[h])
VoteOf(h, i, c) == IF c = "a" THEN Evidence[h][i].a ELSE Evidence[h][i].b

\* A vote from another place, of this list or of another block's, is stored under the
\* key of a vote of the list.
Clashes(h) ==
    \E i \in Index(h), c \in {"a", "b"}, k \in Heights :
        \E j \in Index(k), d \in {"a", "b"} :
            /\ <<k, j, d>> # <<h, i, c>>
            /\ VoteOf(k, j, d) \in votes
            /\ SameKey(VoteOf(k, j, d), VoteOf(h, i, c))

\* They are stored, and once, when the goroutines of the block are through.  Short of
\* failures and pruning, only a vote from elsewhere with the same key, such as another
\* vote of the validator for nil, keeps them out.
EvidenceOfHandledBlocks ==
    /\ EvidenceStoredOnce
    /\ \A h \in Heights :
          (/\ h \in handled /\ ~Blocked(h) /\ Evidence[h] # << >>
           /\ failures = 0 /\ pruned = 0 /\ ~Clashes(h)
           /\ \A r \in Routine : routine[r].height # h)
              => evidence[h] = 1
=============================================================================
