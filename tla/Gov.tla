-------------------------------- MODULE Gov --------------------------------
(***************************************************************************)
(* The gov module of callisto together with the upgrade module that reads  *)
(* its software_upgrade_plan table.                                        *)
(*                                                                         *)
(* Workers handle blocks: first HandleBlock refreshes the proposals the    *)
(* events of the block name, then the upgrade module looks for a plan of   *)
(* this height, then the gov transaction of the block is handled.  Two     *)
(* periodic operations refresh snapshots of the open proposals, and the    *)
(* `parse gov proposal` command redoes everything about one proposal.      *)
(*                                                                         *)
(* A query at a height answers the same whenever it is asked, so it is     *)
(* part of the step that uses the answer; picking the height is a step of  *)
(* its own wherever the code does that earlier.  A block carries at most   *)
(* one gov transaction.                                                    *)
(***************************************************************************)
EXTENDS Integers, Sequences, FiniteSets

CONSTANTS
    Proposal,       \* proposal ids
    Content,        \* what a proposal does when it passes
    UpgradeHeight,  \* plan.height of the upgrade proposals
    Voter,
    VoteOption,
    Worker,
    Periodic,       \* the scheduled operations: "tally", "pool" or both
    MaxHeight,      \* bound on the chain's length
    MaxSkips,       \* bound on the blocks handled later than their successors
    MaxFailures,    \* bound on failing steps and restarts
    MaxParses,      \* bound on runs of the parse command
    NoRow           \* there is no row

ASSUME ContentAssumption ==
    Content \in [Proposal -> {"upgrade", "cancel", "params"}]
ASSUME PeriodicAssumption == Periodic \subseteq {"tally", "pool"}
ASSUME BoundsAssumption ==
    /\ MaxHeight \in Nat /\ MaxSkips \in Nat
    /\ MaxFailures \in Nat /\ MaxParses \in Nat
    /\ UpgradeHeight \in Nat
ASSUME NoRowAssumption ==
    NoRow \notin [height: Nat] \cup {"deposit", "voting", "passed", "rejected"}

VARIABLES
    chain,      \* blocks of the chain, with the proposals' phases after each
    next,       \* the next height of the workers' queue
    skipped,    \* heights that will be handled later
    block,      \* heights stored in the block table
    proposal,   \* proposal table: the stored status
    vote,       \* proposal_vote table
    deposit,    \* proposal_deposit table
    snapshot,   \* proposal_tally_result and proposal_staking_pool_snapshot
    plan,       \* software_upgrade_plan table
    params,     \* height at which a passed proposal last refreshed params
    refreshed,  \* heights at which validators were refreshed for an upgrade
    job,        \* what each worker is doing
    round,      \* what each periodic operation is doing
    cmd,        \* what the parse command is doing
    lost,       \* history: heights whose handling a failure cut short
    failures, skips, parses

chainVars == <<chain>>
queueVars == <<next, skipped, block, skips>>
planVars  == <<plan, params, refreshed>>
tableVars == <<proposal, vote, deposit, snapshot, plan, params, refreshed>>
procVars  == <<job, round, cmd>>
vars == <<chain, queueVars, tableVars, procVars, lost, failures, parses>>

Snapshots == {"tally", "pool"}
Heights   == 1..MaxHeight

OnChain == {"deposit", "voting", "passed", "rejected"}
Phase   == OnChain \cup {"absent", "deleted"}

NoTx == [type |-> "none"]
Tx ==
    [type: {"submit", "deposit"}, p: Proposal, starts: BOOLEAN]
    \cup [type: {"vote"}, p: Proposal, voter: Voter, option: VoteOption]

\* Work in progress: the ids still to do and the one being handled.
Doing(stage, h, todo, cur) ==
    [stage |-> stage, height |-> h, todo |-> todo, cur |-> cur]
Idle == Doing("idle", 0, {}, {})

Init ==
    /\ chain = << >>
    /\ next = 1 /\ skipped = {} /\ block = {} /\ skips = 0
    /\ proposal = [p \in Proposal |-> NoRow]
    /\ vote = {} /\ deposit = {}
    /\ snapshot = [k \in Snapshots \X Proposal |-> NoRow]
    /\ plan = {} /\ params = 0 /\ refreshed = {}
    /\ job = [w \in Worker |-> Idle]
    /\ round = [t \in Periodic |-> Idle]
    /\ cmd = Idle
    /\ lost = {} /\ failures = 0 /\ parses = 0

-----------------------------------------------------------------------------
(* The chain's gov module, as far as the indexer relies on it.             *)

\* Phases of the proposals after block h.
PhasesAt(h) ==
    IF h = 0 THEN [p \in Proposal |-> "absent"] ELSE chain[h].phases

\* Height 0 in a request asks the node for its latest state.
StateAt(h) == PhasesAt(IF h = 0 THEN Len(chain) ELSE h)

Legal(tx, ph) ==
    \/ tx = NoTx
    \/ tx.type = "submit" /\ ph[tx.p] = "absent"
    \/ tx.type = "deposit" /\ ph[tx.p] \in {"deposit", "voting"}
                           /\ (tx.starts => ph[tx.p] = "deposit")
    \/ tx.type = "vote" /\ ph[tx.p] = "voting"

Effect(tx, ph) ==
    IF tx.type \in {"submit", "deposit"}
    THEN [ph EXCEPT ![tx.p] = IF tx.starts THEN "voting"
                              ELSE IF @ = "absent" THEN "deposit" ELSE @]
    ELSE ph

\* End-block: some proposals end their voting period (active_proposal events),
\* some their deposit period without enough deposit (inactive_proposal).
NewBlock ==
    /\ Len(chain) < MaxHeight
    /\ LET ph == PhasesAt(Len(chain))
           h  == Len(chain) + 1
       IN \E tx \in Tx \cup {NoTx}, ended, expired \in SUBSET Proposal :
            /\ Legal(tx, ph)
            /\ \A p \in ended : ph[p] = "voting"
            /\ \A p \in expired : ph[p] = "deposit" /\ Effect(tx, ph)[p] = "deposit"
            /\ \E outcome \in [ended -> {"passed", "rejected"}] :
                /\ \A p \in ended : outcome[p] = "passed" /\ Content[p] = "upgrade"
                                        => h < UpgradeHeight
                /\ chain' = Append(chain,
                     [tx |-> tx, ended |-> ended,
                      phases |-> [p \in Proposal |->
                                    IF p \in ended THEN outcome[p]
                                    ELSE IF p \in expired THEN "deleted"
                                    ELSE Effect(tx, ph)[p]]])
    /\ UNCHANGED <<queueVars, tableVars, procVars, lost, failures, parses>>

-----------------------------------------------------------------------------
(* The block worker.                                                       *)

\* Mutated form of UpdatedProposals: deposits that start the vote forgotten.
UpdatedProposalsNoDeposit(b) ==
    b.ended \cup {p \in Proposal : b.tx.type = "submit" /\ b.tx.p = p /\ b.tx.starts}

\* The ids updateProposalsStatus collects: active_proposal events, and submit
\* and deposit events that carry voting_period_start.
UpdatedProposals(b) ==
    b.ended \cup {p \in Proposal : /\ b.tx.type \in {"submit", "deposit"}
                                   /\ b.tx.p = p
                                   /\ b.tx.starts}

StartBlock(w, h) ==
    /\ job[w].stage = "idle"
    /\ h <= Len(chain)
    /\ \/ h = next /\ next' = next + 1 /\ UNCHANGED skipped
       \/ h \in skipped /\ skipped' = skipped \ {h} /\ UNCHANGED next
    /\ block' = block \cup {h}
    /\ job' = [job EXCEPT ![w] = Doing("status", h, UpdatedProposals(chain[h]), {})]
    /\ UNCHANGED <<chain, skips, tableVars, round, cmd, lost, failures, parses>>

\* Fetching a block failed: it is queued again, or left to `parse blocks`.
SkipBlock ==
    /\ skips < MaxSkips
    /\ next <= Len(chain)
    /\ next' = next + 1
    /\ skipped' = skipped \cup {next}
    /\ skips' = skips + 1
    /\ UNCHANGED <<chain, block, tableVars, procVars, lost, failures, parses>>

\* UPDATE proposal SET status ... WHERE id: no row, no effect; no height guard.
UpdateProposal(p, status) ==
    proposal' = IF proposal[p] = NoRow THEN proposal
                ELSE [proposal EXCEPT ![p] = status]

\* SaveProposals upserts without looking at what is stored.
SaveProposals(p, status) == proposal' = [proposal EXCEPT ![p] = status]

\* GetProposal splits the JSON array of messages at its commas and fails to
\* parse the pieces: an error for every stored proposal.
GetProposalFails(p) == proposal[p] # NoRow

\* software_upgrade_plan.proposal_id REFERENCES proposal (id): the plan of a
\* proposal that is not stored is refused.
PlanRefused(p) == Content[p] = "upgrade" /\ proposal[p] = NoRow

\* An upsert that keeps the row of a newer height.
SaveSoftwareUpgradePlan(p, h) ==
    IF \E r \in plan : r.p = p /\ r.height > h
    THEN plan
    ELSE {r \in plan : r.p # p} \cup {[p |-> p, height |-> h]}

\* Mutated form of HandlePassed: a passed upgrade is not stored.
HandlePassedNoPlan(p, h) ==
    /\ params' = IF Content[p] = "params" /\ h >= params THEN h ELSE params
    /\ plan' = IF Content[p] = "cancel" THEN {r \in plan : r.p # p} ELSE plan

\* handlePassedProposal: store the plan, delete the plan of the cancelling
\* proposal's own id, or refresh the params.
HandlePassed(p, h) ==
    /\ params' = IF Content[p] = "params" /\ h >= params THEN h ELSE params
    /\ plan' = IF Content[p] = "upgrade" THEN SaveSoftwareUpgradePlan(p, h)
               ELSE IF Content[p] = "cancel" THEN {r \in plan : r.p # p}
               ELSE plan

UpdateProposalStatus(w, p) ==
    LET h == job[w].height IN
    /\ job[w].stage = "status"
    /\ p \in job[w].todo
    /\ UpdateProposal(p, StateAt(h)[p])
    /\ job' = [job EXCEPT ![w] =
                 IF StateAt(h)[p] = "passed"
                 THEN Doing("passed", h, @.todo \ {p}, {p})
                 ELSE Doing("status", h, @.todo \ {p}, {})]
    /\ UNCHANGED <<chain, queueVars, vote, deposit, snapshot, planVars,
                   round, cmd, lost, failures, parses>>

\* The plan or the params of a proposal the chain has passed; its stored status is
\* passed already, if there is a row.
HandlePassedProposal(w, p) ==
    LET h == job[w].height IN
    /\ job[w].stage = "passed"
    /\ p \in job[w].cur
    /\ ~PlanRefused(p)
    /\ HandlePassed(p, h)
    /\ job' = [job EXCEPT ![w] = Doing("status", h, @.todo, {})]
    /\ UNCHANGED <<chain, queueVars, proposal, vote, deposit, snapshot,
                   refreshed, round, cmd, lost, failures, parses>>

\* The block handlers are done: the transaction is next.
ToTx(j) ==
    IF chain[j.height].tx = NoTx THEN Idle
    ELSE Doing(chain[j.height].tx.type, j.height, {}, {chain[j.height].tx.p})

\* CheckSoftwareUpgradePlan: some plan is for exactly this height.
UpgradePlanned(h) == h = UpgradeHeight /\ plan # {}

\* refreshDataUponSoftwareUpgrade of the upgrade module: the validators are
\* refreshed, then the plans up to this height are deleted.
RefreshDataUponSoftwareUpgrade(w) ==
    LET h == job[w].height IN
    /\ job[w].stage = "status"
    /\ job[w].todo = {}
    /\ IF UpgradePlanned(h)
       THEN plan' = {} /\ refreshed' = refreshed \cup {h}
       ELSE UNCHANGED <<plan, refreshed>>
    /\ job' = [job EXCEPT ![w] = ToTx(@)]
    /\ UNCHANGED <<chain, queueVars, proposal, vote, deposit, snapshot, params,
                   round, cmd, lost, failures, parses>>

\* The refresh fails: the plans stay, and nothing comes back to them.
UpgradeRefreshFails(w) ==
    /\ job[w].stage = "status"
    /\ job[w].todo = {}
    /\ UpgradePlanned(job[w].height)
    /\ failures < MaxFailures
    /\ failures' = failures + 1
    /\ lost' = lost \cup {job[w].height}
    /\ job' = [job EXCEPT ![w] = ToTx(@)]
    /\ UNCHANGED <<chain, queueVars, tableVars, round, cmd, parses>>

-----------------------------------------------------------------------------
(* The gov transaction of the block.                                       *)

\* handleSubmitProposalEvent up to SaveProposals.  When the node does not find
\* the proposal at the height of the transaction, it is asked again at the
\* last height of the database.
GetLastBlockHeight(h) ==
    IF block = {} THEN h = 0 ELSE h \in block /\ \A k \in block : k <= h

SubmitProposal(w, p) ==
    /\ job[w].stage = "submit"
    /\ p \in job[w].cur
    /\ \/ /\ SaveProposals(p, StateAt(job[w].height)[p])
          /\ UNCHANGED failures
       \/ /\ failures < MaxFailures
          /\ failures' = failures + 1
          /\ \E h \in Heights : /\ GetLastBlockHeight(h)
                               /\ StateAt(h)[p] \in OnChain
                               /\ SaveProposals(p, StateAt(h)[p])
    /\ job' = [job EXCEPT ![w] = Doing("deposit", @.height, {}, {p})]
    /\ UNCHANGED <<chain, queueVars, vote, deposit, snapshot, planVars,
                   round, cmd, lost, parses>>

\* SaveDeposits: one row per transaction; the foreign key wants the proposal.
SaveDeposits(p, h) == deposit' = deposit \cup {[p |-> p, height |-> h]}

HandleDeposit(w, p) ==
    /\ job[w].stage = "deposit"
    /\ p \in job[w].cur
    /\ proposal[p] # NoRow
    /\ SaveDeposits(p, job[w].height)
    /\ job' = [job EXCEPT ![w] = Idle]
    /\ UNCHANGED <<chain, queueVars, proposal, vote, snapshot, planVars,
                   round, cmd, lost, failures, parses>>

\* Mutated form of SaveVote: an existing row is never updated.
SaveVoteOnce(p, tx, h) ==
    vote' = IF \E r \in vote : r.p = p /\ r.voter = tx.voter
            THEN vote
            ELSE vote \cup {[p |-> p, voter |-> tx.voter,
                             option |-> tx.option, height |-> h]}

\* The row of the same proposal, voter and option keeps the newest height.
SaveVote(p, tx, h) ==
    LET same == {r \in vote : /\ r.p = p /\ r.voter = tx.voter
                              /\ r.option = tx.option}
    IN vote' = IF \E r \in same : r.height > h
               THEN vote
               ELSE (vote \ same) \cup {[p |-> p, voter |-> tx.voter,
                                         option |-> tx.option, height |-> h]}

HandleVote(w, p) ==
    /\ job[w].stage = "vote"
    /\ p \in job[w].cur
    /\ proposal[p] # NoRow
    /\ SaveVote(p, chain[job[w].height].tx, job[w].height)
    /\ job' = [job EXCEPT ![w] = Doing("tally", @.height, {}, {p})]
    /\ UNCHANGED <<chain, queueVars, proposal, deposit, snapshot, planVars,
                   round, cmd, lost, failures, parses>>

\* Mutated form of SaveSnapshot: the upsert without its WHERE clause.
SaveSnapshotUnguarded(t, p, h) ==
    snapshot' = [snapshot EXCEPT ![<<t, p>>] = [height |-> h]]

\* SaveTallyResults and SaveProposalStakingPoolSnapshot.
SaveSnapshot(t, p, h) ==
    snapshot' = IF snapshot[<<t, p>>] # NoRow /\ snapshot[<<t, p>>].height > h
                THEN snapshot
                ELSE [snapshot EXCEPT ![<<t, p>>] = [height |-> h]]

\* UpdateProposalTallyResult after a vote.
UpdateProposalTallyResult(w, p) ==
    /\ job[w].stage = "tally"
    /\ p \in job[w].cur
    /\ SaveSnapshot("tally", p, job[w].height)
    /\ job' = [job EXCEPT ![w] = Idle]
    /\ UNCHANGED <<chain, queueVars, proposal, vote, deposit, planVars,
                   round, cmd, lost, failures, parses>>

\* Mutated form of AfterError: the remaining ids are kept.
AfterErrorKeep(j) ==
    IF j.stage \in {"status", "passed"}
    THEN Doing("status", j.height, j.todo, j.cur)
    ELSE Doing("idle", j.height, j.todo, j.cur)

\* An error in HandleBlock drops the remaining ids and is logged; the upgrade
\* module and the transaction still follow.  An error in a message handler
\* ends the block.
AfterError(j) ==
    IF j.stage \in {"status", "passed"}
    THEN Doing("status", j.height, {}, {})
    ELSE Idle

\* A query or a statement of the worker fails.
HandlerFails(w) ==
    /\ job[w].todo # {} \/ job[w].cur # {}
    /\ failures < MaxFailures
    /\ failures' = failures + 1
    /\ lost' = lost \cup {job[w].height}
    /\ job' = [job EXCEPT ![w] = AfterError(@)]
    /\ UNCHANGED <<chain, queueVars, tableVars, round, cmd, parses>>

\* The foreign keys refuse a deposit, a vote or a plan of an unknown proposal.
ForeignKeyFails(w, p) ==
    /\ \/ job[w].stage \in {"deposit", "vote"} /\ proposal[p] = NoRow
       \/ job[w].stage = "passed" /\ PlanRefused(p)
    /\ p \in job[w].cur
    /\ lost' = lost \cup {job[w].height}
    /\ job' = [job EXCEPT ![w] = AfterError(@)]
    /\ UNCHANGED <<chain, queueVars, tableVars, round, cmd, failures, parses>>

-----------------------------------------------------------------------------
(* UpdateProposalsTallyResults and UpdateProposalsStakingPoolSnapshot.     *)

RoundStart(t) ==
    /\ round[t].stage = "idle"
    /\ \E h \in 0..MaxHeight :
          /\ GetLastBlockHeight(h)
          /\ round' = [round EXCEPT ![t] = Doing("ids", h, {}, {})]
    /\ UNCHANGED <<chain, queueVars, tableVars, job, cmd, lost, failures, parses>>

\* Mutated form of GetOpenProposalsIds: the voting period forgotten.
GetDepositProposalsIds == {p \in Proposal : proposal[p] = "deposit"}

\* The proposals stored as being in deposit or voting period.
GetOpenProposalsIds == {p \in Proposal : proposal[p] \in {"deposit", "voting"}}

RoundIds(t) ==
    /\ round[t].stage = "ids"
    /\ round' = [round EXCEPT ![t] = Doing("save", @.height, GetOpenProposalsIds, {})]
    /\ UNCHANGED <<chain, queueVars, tableVars, job, cmd, lost, failures, parses>>

\* The node knows a tally for the proposals of its state at that height only;
\* the pool does not depend on the proposal.
Answers(t, p, h) == t = "pool" \/ StateAt(h)[p] \in OnChain

\* Rows come in no particular order.
RoundSave(t, p) ==
    /\ round[t].stage = "save"
    /\ p \in round[t].todo
    /\ Answers(t, p, round[t].height)
    /\ SaveSnapshot(t, p, round[t].height)
    /\ round' = [round EXCEPT ![t] = Doing("save", @.height, @.todo \ {p}, {})]
    /\ UNCHANGED <<chain, queueVars, proposal, vote, deposit, planVars,
                   job, cmd, lost, failures, parses>>

\* The first error ends the round.
RoundError(t, p) ==
    /\ round[t].stage = "save"
    /\ p \in round[t].todo
    /\ \/ ~Answers(t, p, round[t].height) /\ UNCHANGED failures
       \/ failures < MaxFailures /\ failures' = failures + 1
    /\ round' = [round EXCEPT ![t] = Idle]
    /\ UNCHANGED <<chain, queueVars, tableVars, job, cmd, lost, parses>>

RoundEnd(t) ==
    /\ round[t].stage = "save"
    /\ round[t].todo = {}
    /\ round' = [round EXCEPT ![t] = Idle]
    /\ UNCHANGED <<chain, queueVars, tableVars, job, cmd, lost, failures, parses>>

-----------------------------------------------------------------------------
(* callisto parse gov proposal p                                           *)

SubmittedAt(p, h) == chain[h].tx.type = "submit" /\ chain[h].tx.p = p

ParseStart(p) ==
    /\ cmd.stage = "idle"
    /\ parses < MaxParses
    /\ parses' = parses + 1
    /\ \E h \in DOMAIN chain : SubmittedAt(p, h)
    /\ cmd' = Doing("details", 0, {}, {p})
    /\ UNCHANGED <<chain, queueVars, tableVars, job, round, lost, failures>>

\* The submitting transaction is handled again, its deposit included.
ParseDetails(p) ==
    /\ cmd.stage = "details" /\ p \in cmd.cur
    /\ \E h \in DOMAIN chain :
        /\ SubmittedAt(p, h)
        /\ SaveProposals(p, StateAt(h)[p])
        /\ SaveDeposits(p, h)
    /\ cmd' = Doing("txs", 0, {h \in DOMAIN chain : /\ chain[h].tx.type \in {"deposit", "vote"}
                                                   /\ chain[h].tx.p = p}, {p})
    /\ UNCHANGED <<chain, queueVars, vote, snapshot, planVars, job, round,
                   lost, failures, parses>>

\* The deposits are handled again, then the votes.
ParseTx(p, h) ==
    LET tx == chain[h].tx IN
    /\ cmd.stage = "txs" /\ p \in cmd.cur
    /\ h \in cmd.todo
    /\ \/ tx.type = "deposit" /\ SaveDeposits(p, h) /\ UNCHANGED <<vote, snapshot>>
       \/ /\ tx.type = "vote"
          /\ \A k \in cmd.todo : chain[k].tx.type = "vote"
          /\ SaveVote(p, tx, h)
          /\ SaveSnapshot("tally", p, h)
          /\ UNCHANGED deposit
    /\ cmd' = Doing("txs", 0, cmd.todo \ {h}, {p})
    /\ UNCHANGED <<chain, queueVars, proposal, planVars, job, round,
                   lost, failures, parses>>

\* Node.LatestHeight.
ParseLatest(p) ==
    /\ cmd.stage = "txs" /\ p \in cmd.cur
    /\ cmd.todo = {}
    /\ cmd' = Doing("status", Len(chain), {}, {p})
    /\ UNCHANGED <<chain, queueVars, tableVars, job, round, lost, failures, parses>>

\* UpdateProposalStatus at the latest height; a proposal deleted from the chain
\* takes the path through GetProposal, which fails.
ParseStatus(p) ==
    LET status == StateAt(cmd.height)[p] IN
    /\ cmd.stage = "status" /\ p \in cmd.cur
    /\ IF status = "deleted"
       THEN /\ UNCHANGED proposal
            /\ cmd' = IF GetProposalFails(p) THEN Idle
                      ELSE Doing("snapshots", cmd.height, {}, {p})
       ELSE /\ UpdateProposal(p, status)
            /\ cmd' = Doing(IF status = "passed" THEN "passed" ELSE "snapshots",
                            cmd.height, {}, {p})
    /\ UNCHANGED <<chain, queueVars, vote, deposit, snapshot, planVars,
                   job, round, lost, failures, parses>>

\* ParseDetails has stored the proposal, so the foreign key lets its plan pass.
ParsePassed(p) ==
    /\ cmd.stage = "passed" /\ p \in cmd.cur
    /\ ~PlanRefused(p)
    /\ HandlePassed(p, cmd.height)
    /\ cmd' = Doing("snapshots", cmd.height, {}, {p})
    /\ UNCHANGED <<chain, queueVars, proposal, vote, deposit, snapshot,
                   refreshed, job, round, lost, failures, parses>>

\* The tally, then the staking pool.
ParseSnapshots(p) ==
    /\ cmd.stage = "snapshots" /\ p \in cmd.cur
    /\ Answers("tally", p, cmd.height)
    /\ SaveSnapshot("tally", p, cmd.height)
    /\ cmd' = Doing("pool", cmd.height, {}, {p})
    /\ UNCHANGED <<chain, queueVars, proposal, vote, deposit, planVars,
                   job, round, lost, failures, parses>>

ParsePool(p) ==
    /\ cmd.stage = "pool" /\ p \in cmd.cur
    /\ SaveSnapshot("pool", p, cmd.height)
    /\ cmd' = Idle
    /\ UNCHANGED <<chain, queueVars, proposal, vote, deposit, planVars,
                   job, round, lost, failures, parses>>

\* The first error ends the command.
ParseFails ==
    /\ cmd.stage # "idle"
    /\ failures < MaxFailures
    /\ failures' = failures + 1
    /\ cmd' = Idle
    /\ UNCHANGED <<chain, queueVars, tableVars, job, round, lost, parses>>

-----------------------------------------------------------------------------
\* The indexer dies.  Its blocks are stored, so nothing handles them again.
Crash ==
    /\ failures < MaxFailures
    /\ failures' = failures + 1
    /\ lost' = lost \cup {job[w].height : w \in {v \in Worker : job[v].stage # "idle"}}
    /\ job' = [w \in Worker |-> Idle]
    /\ round' = [t \in Periodic |-> Idle]
    /\ UNCHANGED <<chain, queueVars, tableVars, cmd, parses>>

HandleBlock(w) ==
    \/ \E h \in Heights : StartBlock(w, h)
    \/ \E p \in Proposal : UpdateProposalStatus(w, p) \/ HandlePassedProposal(w, p)
    \/ RefreshDataUponSoftwareUpgrade(w)

HandleMsg(w) ==
    \E p \in Proposal :
        \/ SubmitProposal(w, p) \/ HandleDeposit(w, p) \/ HandleVote(w, p)
        \/ UpdateProposalTallyResult(w, p)
        \/ ForeignKeyFails(w, p)

WorkerStep(w) == HandleBlock(w) \/ HandleMsg(w)

Round(t) ==
    \/ RoundStart(t) \/ RoundIds(t) \/ RoundEnd(t)
    \/ \E p \in Proposal : RoundSave(t, p) \/ RoundError(t, p)

Parse ==
    \/ ParseFails
    \/ \E p \in Proposal :
        \/ ParseStart(p) \/ ParseDetails(p) \/ ParseLatest(p) \/ ParseStatus(p)
        \/ ParsePassed(p) \/ ParseSnapshots(p) \/ ParsePool(p)
        \/ \E h \in Heights : ParseTx(p, h)

Next ==
    \/ NewBlock
    \/ SkipBlock
    \/ \E w \in Worker : WorkerStep(w) \/ HandlerFails(w) \/ UpgradeRefreshFails(w)
    \/ \E t \in Periodic : Round(t)
    \/ Parse
    \/ Crash

Spec == Init /\ [][Next]_vars

-----------------------------------------------------------------------------
Status == OnChain \cup {NoRow}

Work(stages, things) ==
    [stage: stages, height: 0..MaxHeight, todo: SUBSET things, cur: SUBSET Proposal]

TypeOK ==
    /\ chain \in Seq([tx: Tx \cup {NoTx}, ended: SUBSET Proposal,
                     phases: [Proposal -> Phase]])
    /\ Len(chain) <= MaxHeight
    /\ next \in 1..(MaxHeight + 1)
    /\ skipped \subseteq Heights
    /\ block \subseteq 1..Len(chain)
    /\ proposal \in [Proposal -> Status]
    /\ vote \subseteq [p: Proposal, voter: Voter, option: VoteOption, height: Heights]
    /\ deposit \subseteq [p: Proposal, height: Heights]
    /\ snapshot \in [Snapshots \X Proposal -> [height: 0..MaxHeight] \cup {NoRow}]
    /\ plan \subseteq [p: Proposal, height: Heights]
    /\ params \in 0..MaxHeight
    /\ refreshed \subseteq {UpgradeHeight}
    /\ job \in [Worker -> Work({"idle", "status", "passed", "submit", "deposit",
                                "vote", "tally"}, Proposal)]
    /\ \A w \in Worker : job[w].stage = "idle" => job[w] = Idle
    /\ round \in [Periodic -> Work({"idle", "ids", "save"}, Proposal)]
    /\ cmd \in Work({"idle", "details", "txs", "status", "passed", "snapshots",
                     "pool"}, Heights)
    /\ lost \subseteq block

\* Heights a worker has finished without losing anything.
Handled == block \ (lost \cup {job[w].height : w \in Worker})

\* Handled heights at which the chain gave p another status.
StatusChanges(p) ==
    {h \in block : /\ PhasesAt(h)[p] # PhasesAt(h - 1)[p]
                   /\ PhasesAt(h)[p] # "deleted"}

\* Once the newest block that changed the status of p is handled, and the one
\* that submits it was, the stored status is the one the chain had after that
\* block: the events the handler looks at name every proposal whose status
\* changed, except the deleted ones.
StatusFollowsBlocks ==
    \A p \in Proposal : \A h \in StatusChanges(p) :
        /\ \A k \in StatusChanges(p) : k <= h
        /\ h \in Handled
        /\ \E k \in Handled : SubmittedAt(p, k)
        => proposal[p] = PhasesAt(h)[p]

\* Every vote of a handled block is stored, and the tally is at least as recent
\* as the vote.
VotesStored ==
    \A h \in Handled :
        LET tx == chain[h].tx IN
        tx.type = "vote" =>
            /\ \E r \in vote : /\ r.p = tx.p /\ r.voter = tx.voter
                               /\ r.option = tx.option /\ r.height >= h
            /\ snapshot[<<"tally", tx.p>>] # NoRow
            /\ snapshot[<<"tally", tx.p>>].height >= h

\* What a passed proposal asks for is done once its last block is handled: its
\* params are refreshed, its plan waits for the upgrade height, and at that
\* height the validators are refreshed and the plan goes.
PassedProposalsApplied ==
    \A h \in Handled : \A p \in chain[h].ended :
        PhasesAt(h)[p] = "passed" =>
            /\ Content[p] = "params" => params >= h
            /\ Content[p] = "upgrade" =>
                 \/ \E r \in plan : r.p = p
                 \/ UpgradeHeight \in refreshed
            /\ UpgradeHeight \in Handled /\ UpgradeHeight > h => plan = {}

\* The snapshot tables are versioned registers, although a worker, two
\* periodic operations and the parse command write them at the same time.
Registers == INSTANCE VersionedRegisters
                 WITH Key <- Snapshots \X Proposal, reg <- snapshot

SnapshotsAreRegisters == Registers!Spec

-----------------------------------------------------------------------------
(* Liveness: workers and schedulers keep running, failures are bounded.    *)

Fairness ==
    /\ \A w \in Worker : WF_vars(WorkerStep(w))
    /\ \A t \in Periodic : WF_vars(Round(t))

FairSpec == Spec /\ Fairness

Open(p) ==
    /\ proposal[p] \in {"deposit", "voting"}
    /\ StateAt(0)[p] \in {"deposit", "voting"}

\* The tally and the pool of every proposal that stays open, in the database
\* and on the chain, reach every stored height.
SnapshotsCatchUp ==
    \A t \in Periodic : \A p \in Proposal : \A h \in Heights :
        (h \in block /\ Open(p)) ~>
            (~Open(p) \/ (snapshot[<<t, p>>] # NoRow /\ snapshot[<<t, p>>].height >= h))

\* The same, as long as no proposal is ever deleted from the chain.
Deleted == \E p \in Proposal : StateAt(0)[p] = "deleted"

SnapshotsCatchUpUnlessDeleted == []~Deleted => SnapshotsCatchUp
=============================================================================
