----------------------------- MODULE GovProofs -----------------------------
(***************************************************************************)
(* Proofs about the gov and upgrade modules, for any proposals, voters,    *)
(* number of workers and bounds.                                           *)
(***************************************************************************)
EXTENDS Gov, SequenceTheorems, TLAPS

Block == [tx: Tx \cup {NoTx}, ended: SUBSET Proposal, phases: [Proposal -> Phase]]

\* How a block at height h changes the phases the proposals had before it: the events
\* name every change except the deletions, and nothing else.
BlockOK(b, before, h) ==
    \A p \in Proposal :
        /\ p \in UpdatedProposals(b) => b.phases[p] \in OnChain /\ b.phases[p] # before[p]
        /\ b.tx.type = "submit" /\ b.tx.p = p =>
                b.phases[p] \in {"deposit", "voting"} /\ before[p] = "absent"
        /\ before[p] # "absent" => b.phases[p] # "absent"
        /\ b.phases[p] # before[p] /\ b.phases[p] # "deleted" =>
                p \in UpdatedProposals(b) \/ (b.tx.type = "submit" /\ b.tx.p = p)
        /\ p \in UpdatedProposals(b) /\ Content[p] = "upgrade" /\ b.phases[p] = "passed" =>
                h < UpgradeHeight

\* Blocks follow each other like that, and a proposal that is there does not go back to
\* not having been submitted.
ChainOK ==
    /\ \A h \in DOMAIN chain : BlockOK(chain[h], PhasesAt(h - 1), h)
    /\ \A h, k \in DOMAIN chain : \A p \in Proposal :
            h <= k /\ chain[h].phases[p] # "absent" => chain[k].phases[p] # "absent"

\* A worker's job is about a stored block: the proposals its events name, then its
\* transaction.
JobFacts(j) ==
    /\ j.stage \in {"status", "passed"} => j.todo \subseteq UpdatedProposals(chain[j.height])
    /\ j.stage \in {"submit", "deposit", "vote", "tally"} =>
            /\ chain[j.height].tx # NoTx
            /\ j.cur = {chain[j.height].tx.p}
    /\ j.stage = "submit" => chain[j.height].tx.type = "submit"
    /\ j.stage = "deposit" => chain[j.height].tx.type \in {"submit", "deposit"}
    /\ j.stage \in {"vote", "tally"} => chain[j.height].tx.type = "vote"

JobOK(j) == JobFacts(j) /\ (j.stage # "idle" => j.height \in block)

\* The parse command is about a proposal that was submitted.
CmdOK ==
    /\ \A p \in cmd.cur : \E h \in DOMAIN chain : SubmittedAt(p, h)
    /\ cmd.stage = "txs" =>
            \A h \in cmd.todo : /\ h \in DOMAIN chain
                               /\ \A p \in cmd.cur : p = chain[h].tx.p
    /\ cmd.stage \in {"status", "passed", "snapshots", "pool"} =>
            /\ cmd.height \in DOMAIN chain
            /\ \A p \in cmd.cur : chain[cmd.height].phases[p] # "absent"

Typed == TypeOK /\ ChainOK /\ (\A w \in Worker : JobOK(job[w])) /\ CmdOK

-----------------------------------------------------------------------------
(* The chain                                                               *)

\* Transactions by their type.
LEMMA TxFacts ==
    ASSUME NEW tx \in Tx \cup {NoTx}
    PROVE  /\ tx.type \in {"none", "submit", "deposit", "vote"}
           /\ tx.type = "none" <=> tx = NoTx
           /\ tx.type \in {"submit", "deposit"} => tx.p \in Proposal /\ tx.starts \in BOOLEAN
           /\ tx.type = "vote" =>
                tx.p \in Proposal /\ tx.voter \in Voter /\ tx.option \in VoteOption
           /\ tx # NoTx => tx.p \in Proposal
<1>1. CASE tx = NoTx
  BY <1>1 DEF NoTx
<1>2. CASE tx \in [type: {"submit", "deposit"}, p: Proposal, starts: BOOLEAN]
  BY <1>2 DEF NoTx
<1>3. CASE tx \in [type: {"vote"}, p: Proposal, voter: Voter, option: VoteOption]
  BY <1>3 DEF NoTx
<1> QED BY <1>1, <1>2, <1>3 DEF Tx

LEMMA BlockFacts ==
    ASSUME TypeOK, NEW h \in DOMAIN chain
    PROVE  /\ chain[h].tx \in Tx \cup {NoTx} /\ chain[h].ended \subseteq Proposal
           /\ chain[h].phases \in [Proposal -> Phase]
           /\ h \in Heights /\ DOMAIN chain = 1..Len(chain) /\ Len(chain) \in Nat
<1>1. /\ chain \in Seq(Block) /\ h \in 1..Len(chain) /\ Len(chain) \in Nat
      /\ Len(chain) <= MaxHeight /\ DOMAIN chain = 1..Len(chain)
  BY DEF TypeOK, Block
<1>2. chain[h] \in Block
  BY <1>1, ElementOfSeq
<1> QED BY <1>1, <1>2, BoundsAssumption DEF Block, Heights

LEMMA StoredBlocks ==
    ASSUME TypeOK
    PROVE  /\ block \subseteq DOMAIN chain /\ block \subseteq Heights
           /\ 0 \notin DOMAIN chain
<1>1. DOMAIN chain = 1..Len(chain) /\ Len(chain) \in Nat
  BY DEF TypeOK
<1> QED BY <1>1, BlockFacts DEF TypeOK

LEMMA PhasesType ==
    ASSUME TypeOK, NEW h \in 0..Len(chain)
    PROVE  PhasesAt(h) \in [Proposal -> Phase] /\ Len(chain) \in Nat
<1>1. Len(chain) \in Nat /\ DOMAIN chain = 1..Len(chain)
  BY DEF TypeOK
<1>2. CASE h = 0
  BY <1>1, <1>2 DEF PhasesAt, Phase
<1>3. CASE h # 0
  BY <1>1, <1>3, BlockFacts DEF PhasesAt
<1> QED BY <1>2, <1>3

\* What a legal transaction does to the phases.
LEMMA EffectFacts ==
    ASSUME NEW ph \in [Proposal -> Phase], NEW tx \in Tx \cup {NoTx}, Legal(tx, ph),
           NEW q \in Proposal
    PROVE  /\ Effect(tx, ph)[q] \in Phase
           /\ tx.type \in {"submit", "deposit"} /\ tx.p = q /\ tx.starts =>
                 Effect(tx, ph)[q] = "voting" /\ ph[q] \in {"absent", "deposit"}
           /\ tx.type = "submit" /\ tx.p = q =>
                 Effect(tx, ph)[q] \in {"deposit", "voting"} /\ ph[q] = "absent"
           /\ tx.type = "deposit" /\ tx.p = q /\ ~tx.starts => Effect(tx, ph)[q] = ph[q]
           /\ ~(tx.type \in {"submit", "deposit"} /\ tx.p = q) => Effect(tx, ph)[q] = ph[q]
<1>1. CASE tx.type \in {"submit", "deposit"}
  <2>1. tx # NoTx /\ tx.p \in Proposal /\ tx.starts \in BOOLEAN
    BY <1>1, TxFacts DEF NoTx
  <2>2. Effect(tx, ph)[q] = IF q = tx.p
                            THEN IF tx.starts THEN "voting"
                                 ELSE IF ph[q] = "absent" THEN "deposit" ELSE ph[q]
                            ELSE ph[q]
    BY <1>1, <2>1 DEF Effect
  <2> QED BY <1>1, <2>1, <2>2 DEF Legal, Phase, OnChain
<1>2. CASE ~(tx.type \in {"submit", "deposit"})
  BY <1>2 DEF Effect
<1> QED BY <1>1, <1>2

\* What the chain does when it grows.
LEMMA ChainGrows ==
    ASSUME TypeOK, NewBlock
    PROVE  /\ DOMAIN chain = 1..Len(chain) /\ Len(chain) \in Nat
           /\ DOMAIN chain' = 1..(Len(chain) + 1) /\ Len(chain') = Len(chain) + 1
           /\ chain' \in Seq(Block) /\ Len(chain') <= MaxHeight
           /\ \A h \in DOMAIN chain : chain'[h] = chain[h]
           /\ BlockOK(chain'[Len(chain) + 1], PhasesAt(Len(chain)), Len(chain) + 1)
           /\ \A h \in 0..Len(chain) : PhasesAt(h)' = PhasesAt(h)
<1> DEFINE ph == PhasesAt(Len(chain))
           h == Len(chain) + 1
<1>1. PICK tx \in Tx \cup {NoTx}, ended \in SUBSET Proposal, expired \in SUBSET Proposal :
         /\ Legal(tx, ph)
         /\ \A p \in ended : ph[p] = "voting"
         /\ \A p \in expired : ph[p] = "deposit" /\ Effect(tx, ph)[p] = "deposit"
         /\ \E outcome \in [ended -> {"passed", "rejected"}] :
             /\ \A p \in ended : outcome[p] = "passed" /\ Content[p] = "upgrade"
                                     => h < UpgradeHeight
             /\ chain' = Append(chain,
                  [tx |-> tx, ended |-> ended,
                   phases |-> [p \in Proposal |->
                                 IF p \in ended THEN outcome[p]
                                 ELSE IF p \in expired THEN "deleted"
                                 ELSE Effect(tx, ph)[p]]])
  BY DEF NewBlock
<1>2. PICK outcome \in [ended -> {"passed", "rejected"}] :
         /\ \A p \in ended : outcome[p] = "passed" /\ Content[p] = "upgrade"
                                 => h < UpgradeHeight
         /\ chain' = Append(chain,
              [tx |-> tx, ended |-> ended,
               phases |-> [p \in Proposal |->
                             IF p \in ended THEN outcome[p]
                             ELSE IF p \in expired THEN "deleted"
                             ELSE Effect(tx, ph)[p]]])
  BY <1>1
<1> DEFINE phases == [p \in Proposal |->
                        IF p \in ended THEN outcome[p]
                        ELSE IF p \in expired THEN "deleted"
                        ELSE Effect(tx, ph)[p]]
           b == [tx |-> tx, ended |-> ended, phases |-> phases]
<1>3. Len(chain) \in Nat /\ DOMAIN chain = 1..Len(chain) /\ chain \in Seq(Block)
  BY DEF TypeOK, Block
<1>4. ph \in [Proposal -> Phase]
  BY <1>3, PhasesType
<1>5. phases \in [Proposal -> Phase]
  BY <1>1, <1>2, <1>4, EffectFacts DEF Phase, OnChain
<1>6. /\ \A p \in ended : phases[p] \in {"passed", "rejected"}
      /\ \A p \in Proposal : p \notin ended /\ p \in expired => phases[p] = "deleted"
      /\ \A p \in Proposal : p \notin ended /\ p \notin expired => phases[p] = Effect(tx, ph)[p]
      /\ \A p \in ended : phases[p] = "passed" /\ Content[p] = "upgrade" => h < UpgradeHeight
  BY <1>2
<1>7. b \in Block /\ b.tx = tx /\ b.ended = ended /\ b.phases = phases /\ chain' = Append(chain, b)
  BY <1>1, <1>2, <1>5 DEF Block
<1> HIDE DEF phases, b, ph
<1>8. BlockOK(b, ph, h)
  <2> SUFFICES ASSUME NEW p \in Proposal
               PROVE  /\ p \in UpdatedProposals(b) => phases[p] \in OnChain /\ phases[p] # ph[p]
                      /\ tx.type = "submit" /\ tx.p = p =>
                            phases[p] \in {"deposit", "voting"} /\ ph[p] = "absent"
                      /\ ph[p] # "absent" => phases[p] # "absent"
                      /\ phases[p] # ph[p] /\ phases[p] # "deleted" =>
                            p \in UpdatedProposals(b) \/ (tx.type = "submit" /\ tx.p = p)
                      /\ p \in UpdatedProposals(b) /\ Content[p] = "upgrade" /\ phases[p] = "passed" =>
                            h < UpgradeHeight
    BY <1>7 DEF BlockOK
  <2>1. p \in UpdatedProposals(b) <=>
            p \in ended \/ (tx.type \in {"submit", "deposit"} /\ tx.p = p /\ tx.starts)
    BY <1>7 DEF UpdatedProposals
  <2>2. CASE p \in ended
    BY <1>1, <1>4, <1>6, <2>1, <2>2, EffectFacts DEF OnChain
  <2>3. CASE p \notin ended /\ p \in expired
    BY <1>1, <1>4, <1>6, <2>1, <2>3, EffectFacts DEF OnChain
  <2>4. CASE p \notin ended /\ p \notin expired
    <3>1. phases[p] = Effect(tx, ph)[p]
      BY <1>6, <2>4
    <3>2. CASE tx.type \in {"submit", "deposit"} /\ tx.p = p
      <4>1. tx.starts \in BOOLEAN
        BY <1>1, <3>2, TxFacts
      <4> QED BY <1>1, <1>4, <2>1, <2>4, <3>1, <3>2, <4>1, EffectFacts DEF OnChain
    <3>3. CASE ~(tx.type \in {"submit", "deposit"} /\ tx.p = p)
      BY <1>1, <1>4, <2>1, <2>4, <3>1, <3>3, EffectFacts DEF OnChain
    <3> QED BY <3>2, <3>3
  <2> QED BY <2>2, <2>3, <2>4
<1>9. /\ DOMAIN chain' = 1..(Len(chain) + 1) /\ Len(chain') = Len(chain) + 1
      /\ chain' \in Seq(Block) /\ chain'[Len(chain) + 1] = b
      /\ \A k \in DOMAIN chain : chain'[k] = chain[k]
  BY <1>3, <1>7
<1>10. Len(chain') <= MaxHeight
  BY <1>3, <1>9, BoundsAssumption DEF NewBlock
<1>11. \A k \in 0..Len(chain) : PhasesAt(k)' = PhasesAt(k)
  BY <1>3, <1>9 DEF PhasesAt
<1> QED BY <1>3, <1>8, <1>9, <1>10, <1>11 DEF ph

\* Only NewBlock changes the chain.
LEMMA ChainStep == [Next]_vars => NewBlock \/ UNCHANGED chain
<1> SUFFICES ASSUME [Next]_vars, ~NewBlock PROVE UNCHANGED chain
  OBVIOUS
<1>1. CASE SkipBlock \/ Crash \/ UNCHANGED vars
  BY <1>1 DEF SkipBlock, Crash, vars, chainVars
<1>2. ASSUME NEW w \in Worker, WorkerStep(w) PROVE UNCHANGED chain
  BY <1>2 DEF WorkerStep, HandleBlock, HandleMsg, StartBlock, UpdateProposalStatus,
              HandlePassedProposal, RefreshDataUponSoftwareUpgrade, SubmitProposal,
              HandleDeposit, HandleVote, UpdateProposalTallyResult, ForeignKeyFails
<1>3. ASSUME NEW w \in Worker, HandlerFails(w) \/ UpgradeRefreshFails(w) PROVE UNCHANGED chain
  BY <1>3 DEF HandlerFails, UpgradeRefreshFails
<1>4. ASSUME NEW t \in Periodic, Round(t) PROVE UNCHANGED chain
  BY <1>4 DEF Round, RoundStart, RoundIds, RoundEnd, RoundSave, RoundError
<1>5. CASE Parse
  BY <1>5 DEF Parse, ParseFails, ParseStart, ParseDetails, ParseLatest, ParseStatus,
              ParsePassed, ParseSnapshots, ParsePool, ParseTx
<1> QED BY <1>1, <1>2, <1>3, <1>4, <1>5 DEF Next

LEMMA ChainNext ==
    TypeOK /\ ChainOK /\ [Next]_vars =>
        /\ ChainOK' /\ chain' \in Seq(Block) /\ Len(chain') <= MaxHeight
        /\ DOMAIN chain \subseteq DOMAIN chain'
        /\ \A h \in DOMAIN chain : chain'[h] = chain[h]
<1> SUFFICES ASSUME TypeOK, ChainOK, [Next]_vars
             PROVE  /\ ChainOK' /\ chain' \in Seq(Block) /\ Len(chain') <= MaxHeight
                    /\ DOMAIN chain \subseteq DOMAIN chain'
                    /\ \A h \in DOMAIN chain : chain'[h] = chain[h]
  OBVIOUS
<1>1. CASE UNCHANGED chain
  BY <1>1 DEF TypeOK, Block, ChainOK, BlockOK, UpdatedProposals, PhasesAt, OnChain
<1>2. CASE NewBlock
  <2> DEFINE n == Len(chain) + 1
  <2>1. /\ DOMAIN chain = 1..Len(chain) /\ Len(chain) \in Nat
        /\ DOMAIN chain' = 1..n
        /\ \A h \in DOMAIN chain : chain'[h] = chain[h]
        /\ BlockOK(chain'[n], PhasesAt(Len(chain)), n)
        /\ \A h \in 0..Len(chain) : PhasesAt(h)' = PhasesAt(h)
        /\ chain' \in Seq(Block) /\ Len(chain') <= MaxHeight
    BY <1>2, ChainGrows
  <2>2. \A h \in DOMAIN chain' : BlockOK(chain'[h], PhasesAt(h - 1)', h)
    <3>1. ASSUME NEW h \in DOMAIN chain PROVE BlockOK(chain'[h], PhasesAt(h - 1)', h)
      <4>1. h - 1 \in 0..Len(chain)
        BY <2>1
      <4> QED BY <2>1, <4>1 DEF ChainOK
    <3>2. ASSUME NEW h \in DOMAIN chain', h = n PROVE BlockOK(chain'[h], PhasesAt(h - 1)', h)
      <4>1. h - 1 = Len(chain) /\ h - 1 \in 0..Len(chain)
        BY <2>1, <3>2
      <4>2. PhasesAt(h - 1)' = PhasesAt(h - 1)
        BY <2>1, <4>1
      <4> QED BY <2>1, <3>2, <4>1, <4>2
    <3> QED BY <2>1, <3>1, <3>2
  <2>3. \A h \in DOMAIN chain' : BlockOK(chain[h], PhasesAt(h - 1), h)'
    BY <2>2 DEF BlockOK, UpdatedProposals, OnChain
  <2>4. ASSUME NEW h \in DOMAIN chain', NEW k \in DOMAIN chain', NEW p \in Proposal,
               h <= k, chain'[h].phases[p] # "absent"
        PROVE  chain'[k].phases[p] # "absent"
    <3>1. CASE k \in DOMAIN chain
      BY <2>1, <2>4, <3>1 DEF ChainOK
    <3>2. CASE k = n /\ h = n
      BY <2>4, <3>2
    <3>3. CASE k = n /\ h \in DOMAIN chain
      <4>1. Len(chain) \in DOMAIN chain /\ h <= Len(chain)
        BY <2>1, <3>3
      <4>2. chain[Len(chain)].phases[p] # "absent"
        BY <2>1, <2>4, <3>3, <4>1 DEF ChainOK
      <4>3. PhasesAt(Len(chain))[p] # "absent"
        BY <2>1, <4>1, <4>2 DEF PhasesAt
      <4> QED BY <2>1, <3>3, <4>3 DEF BlockOK
    <3> QED BY <2>1, <3>1, <3>2, <3>3
  <2>5. ChainOK'
    BY <2>3, <2>4 DEF ChainOK
  <2> QED BY <2>1, <2>5
<1> QED BY <1>1, <1>2, ChainStep

\* Phases of stored blocks.
LEMMA PhasesStay ==
    ASSUME TypeOK, ChainOK, [Next]_vars, NEW h \in 0..Len(chain)
    PROVE  PhasesAt(h)' = PhasesAt(h)
<1>1. Len(chain) \in Nat /\ DOMAIN chain = 1..Len(chain)
  BY DEF TypeOK
<1> QED BY <1>1, ChainNext DEF PhasesAt

-----------------------------------------------------------------------------
(* What a step may do to the tables.                                       *)

\* A status comes from the chain, and only known ids get one by UPDATE.
LEMMA ProposalStep ==
    ASSUME Typed, [Next]_vars
    PROVE  \/ UNCHANGED proposal
           \/ \E p \in Proposal, s \in OnChain : proposal' = [proposal EXCEPT ![p] = s]
<1> USE DEF Typed
<1>1. ASSUME NEW w \in Worker, NEW p \in Proposal, UpdateProposalStatus(w, p)
      PROVE  StateAt(job[w].height)[p] \in OnChain
  <2>1. job[w].height \in DOMAIN chain /\ job[w].height # 0
    BY <1>1, StoredBlocks DEF UpdateProposalStatus, JobOK, JobFacts
  <2>2. p \in UpdatedProposals(chain[job[w].height])
    BY <1>1 DEF UpdateProposalStatus, JobOK, JobFacts
  <2> QED BY <2>1, <2>2 DEF ChainOK, BlockOK, StateAt, PhasesAt
<1>2. ASSUME NEW p \in Proposal, NEW h \in DOMAIN chain, SubmittedAt(p, h)
      PROVE  StateAt(h)[p] \in OnChain
  <2>1. h # 0
    BY BlockFacts DEF Heights
  <2> QED BY <1>2, <2>1 DEF ChainOK, BlockOK, StateAt, PhasesAt, SubmittedAt, OnChain
<1>3. ASSUME NEW w \in Worker, NEW p \in Proposal, SubmitProposal(w, p)
      PROVE  \E s \in OnChain : proposal' = [proposal EXCEPT ![p] = s]
  <2>1. job[w].height \in DOMAIN chain /\ SubmittedAt(p, job[w].height)
    <3>1. job[w].height \in DOMAIN chain /\ chain[job[w].height].tx.type = "submit"
      BY <1>3, StoredBlocks DEF SubmitProposal, JobOK, JobFacts
    <3>2. p = chain[job[w].height].tx.p
      BY <1>3 DEF SubmitProposal, JobOK, JobFacts
    <3> QED BY <3>1, <3>2 DEF SubmittedAt
  <2>2. StateAt(job[w].height)[p] \in OnChain
    BY <1>2, <2>1
  <2> QED BY <1>3, <2>2 DEF SubmitProposal, SaveProposals
<1>4. ASSUME NEW p \in Proposal, ParseDetails(p)
      PROVE  \E s \in OnChain : proposal' = [proposal EXCEPT ![p] = s]
  BY <1>2, <1>4 DEF ParseDetails, SaveProposals
<1>5. ASSUME NEW p \in Proposal, ParseStatus(p), StateAt(cmd.height)[p] # "deleted"
      PROVE  StateAt(cmd.height)[p] \in OnChain
  <2>1. cmd.height \in DOMAIN chain /\ p \in cmd.cur
    BY <1>5 DEF ParseStatus, CmdOK
  <2>2. cmd.height # 0 /\ chain[cmd.height].phases \in [Proposal -> Phase]
    BY <2>1, BlockFacts DEF Heights
  <2>3. chain[cmd.height].phases[p] # "absent"
    BY <1>5, <2>1 DEF ParseStatus, CmdOK
  <2> QED BY <1>5, <2>2, <2>3 DEF StateAt, PhasesAt, Phase
<1>6. ASSUME NEW w \in Worker, WorkerStep(w) \/ HandlerFails(w) \/ UpgradeRefreshFails(w)
      PROVE  \/ UNCHANGED proposal
             \/ \E p \in Proposal, s \in OnChain : proposal' = [proposal EXCEPT ![p] = s]
  <2>1. CASE \E h \in Heights : StartBlock(w, h)
    BY <2>1 DEF StartBlock, tableVars
  <2>2. ASSUME NEW p \in Proposal, UpdateProposalStatus(w, p)
        PROVE  \/ UNCHANGED proposal
               \/ \E q \in Proposal, s \in OnChain : proposal' = [proposal EXCEPT ![q] = s]
    BY <1>1, <2>2 DEF UpdateProposalStatus, UpdateProposal
  <2>3. ASSUME NEW p \in Proposal, SubmitProposal(w, p)
        PROVE  \E q \in Proposal, s \in OnChain : proposal' = [proposal EXCEPT ![q] = s]
    BY <1>3, <2>3
  <2>4. CASE \/ \E p \in Proposal : HandlePassedProposal(w, p)
             \/ RefreshDataUponSoftwareUpgrade(w) \/ HandlerFails(w) \/ UpgradeRefreshFails(w)
    BY <2>4 DEF HandlePassedProposal, RefreshDataUponSoftwareUpgrade, HandlerFails,
                UpgradeRefreshFails, tableVars
  <2>5. CASE \E p \in Proposal : \/ HandleDeposit(w, p) \/ HandleVote(w, p)
                                \/ UpdateProposalTallyResult(w, p) \/ ForeignKeyFails(w, p)
    BY <2>5 DEF HandleDeposit, HandleVote, UpdateProposalTallyResult, ForeignKeyFails, tableVars
  <2> QED BY <1>6, <2>1, <2>2, <2>3, <2>4, <2>5 DEF WorkerStep, HandleBlock, HandleMsg
<1>7. ASSUME NEW t \in Periodic, Round(t) PROVE UNCHANGED proposal
  BY <1>7 DEF Round, RoundStart, RoundIds, RoundEnd, RoundSave, RoundError, tableVars
<1>8. ASSUME Parse
      PROVE  \/ UNCHANGED proposal
             \/ \E p \in Proposal, s \in OnChain : proposal' = [proposal EXCEPT ![p] = s]
  <2>1. CASE \E p \in Proposal : ParseDetails(p)
    BY <1>4, <2>1
  <2>2. ASSUME NEW p \in Proposal, ParseStatus(p)
        PROVE  \/ UNCHANGED proposal
               \/ \E q \in Proposal, s \in OnChain : proposal' = [proposal EXCEPT ![q] = s]
    BY <1>5, <2>2 DEF ParseStatus, UpdateProposal
  <2>3. CASE \/ ParseFails
             \/ \E p \in Proposal : \/ ParseStart(p) \/ ParseLatest(p) \/ ParsePassed(p)
                                   \/ ParseSnapshots(p) \/ ParsePool(p)
                                   \/ \E h \in Heights : ParseTx(p, h)
    BY <2>3 DEF ParseFails, ParseStart, ParseLatest, ParsePassed, ParseSnapshots, ParsePool,
                ParseTx, tableVars
  <2> QED BY <1>8, <2>1, <2>2, <2>3 DEF Parse
<1>9. CASE NewBlock \/ SkipBlock \/ Crash \/ UNCHANGED vars
  BY <1>9 DEF NewBlock, SkipBlock, Crash, vars, tableVars
<1> QED BY <1>6, <1>7, <1>8, <1>9 DEF Next

\* A snapshot is saved under the guard of its upsert.
LEMMA SnapshotStep ==
    ASSUME Typed, [Next]_vars
    PROVE  \/ UNCHANGED snapshot
           \/ \E t \in Snapshots, p \in Proposal, h \in 0..MaxHeight : SaveSnapshot(t, p, h)
<1> USE DEF Typed
<1>h. Heights \subseteq 0..MaxHeight
  BY DEF Heights
<1>1. ASSUME NEW w \in Worker, WorkerStep(w) \/ HandlerFails(w) \/ UpgradeRefreshFails(w)
      PROVE  \/ UNCHANGED snapshot
             \/ \E t \in Snapshots, p \in Proposal, h \in 0..MaxHeight : SaveSnapshot(t, p, h)
  <2>1. ASSUME NEW p \in Proposal, UpdateProposalTallyResult(w, p)
        PROVE  \E t \in Snapshots, q \in Proposal, h \in 0..MaxHeight : SaveSnapshot(t, q, h)
    <3>1. job[w].height \in 0..MaxHeight
      BY <1>h, <2>1, StoredBlocks DEF UpdateProposalTallyResult, JobOK, JobFacts
    <3>2. SaveSnapshot("tally", p, job[w].height)
      BY <2>1 DEF UpdateProposalTallyResult
    <3> QED BY <3>1, <3>2 DEF Snapshots
  <2>2. CASE \/ \E h \in Heights : StartBlock(w, h)
             \/ \E p \in Proposal : UpdateProposalStatus(w, p) \/ HandlePassedProposal(w, p)
             \/ RefreshDataUponSoftwareUpgrade(w) \/ HandlerFails(w) \/ UpgradeRefreshFails(w)
    BY <2>2 DEF StartBlock, UpdateProposalStatus, HandlePassedProposal,
                RefreshDataUponSoftwareUpgrade, HandlerFails, UpgradeRefreshFails, tableVars
  <2>3. CASE \E p \in Proposal : \/ SubmitProposal(w, p) \/ HandleDeposit(w, p)
                                \/ HandleVote(w, p) \/ ForeignKeyFails(w, p)
    BY <2>3 DEF SubmitProposal, HandleDeposit, HandleVote, ForeignKeyFails, tableVars
  <2> QED BY <1>1, <2>1, <2>2, <2>3 DEF WorkerStep, HandleBlock, HandleMsg
<1>2. ASSUME NEW t \in Periodic, Round(t)
      PROVE  \/ UNCHANGED snapshot
             \/ \E u \in Snapshots, p \in Proposal, h \in 0..MaxHeight : SaveSnapshot(u, p, h)
  <2>1. ASSUME NEW p \in Proposal, RoundSave(t, p)
        PROVE  SaveSnapshot(t, p, round[t].height)
    BY <2>1 DEF RoundSave
  <2>2. t \in Snapshots /\ round[t].height \in 0..MaxHeight
    BY PeriodicAssumption DEF Snapshots, TypeOK, Work
  <2>3. CASE \/ RoundStart(t) \/ RoundIds(t) \/ RoundEnd(t) \/ \E p \in Proposal : RoundError(t, p)
    BY <2>3 DEF RoundStart, RoundIds, RoundEnd, RoundError, tableVars
  <2> QED BY <1>2, <2>1, <2>2, <2>3 DEF Round
<1>3. ASSUME Parse
      PROVE  \/ UNCHANGED snapshot
             \/ \E u \in Snapshots, p \in Proposal, h \in 0..MaxHeight : SaveSnapshot(u, p, h)
  <2>1. ASSUME NEW p \in Proposal, NEW h \in Heights, ParseTx(p, h)
        PROVE  UNCHANGED snapshot \/ SaveSnapshot("tally", p, h)
    BY <2>1 DEF ParseTx
  <2>2. ASSUME NEW p \in Proposal, ParseSnapshots(p) \/ ParsePool(p)
        PROVE  \/ SaveSnapshot("tally", p, cmd.height)
               \/ SaveSnapshot("pool", p, cmd.height)
    BY <2>2 DEF ParseSnapshots, ParsePool
  <2>3. cmd.height \in 0..MaxHeight /\ {"tally", "pool"} = Snapshots
    BY DEF Snapshots, TypeOK, Work
  <2>4. CASE \/ ParseFails
             \/ \E p \in Proposal : \/ ParseStart(p) \/ ParseDetails(p) \/ ParseLatest(p)
                                   \/ ParseStatus(p) \/ ParsePassed(p)
    BY <2>4 DEF ParseFails, ParseStart, ParseDetails, ParseLatest, ParseStatus, ParsePassed,
                tableVars
  <2>5. CASE \E p \in Proposal : ParseSnapshots(p) \/ ParsePool(p)
    BY <2>2, <2>3, <2>5
  <2>6. CASE \E p \in Proposal, h \in Heights : ParseTx(p, h)
    <3>1. PICK p \in Proposal, h \in Heights : ParseTx(p, h)
      BY <2>6
    <3>2. h \in 0..MaxHeight /\ "tally" \in Snapshots
      BY <1>h DEF Snapshots
    <3> QED BY <2>1, <3>1, <3>2
  <2> QED BY <1>3, <2>4, <2>5, <2>6 DEF Parse
<1>4. CASE NewBlock \/ SkipBlock \/ Crash \/ UNCHANGED vars
  BY <1>4 DEF NewBlock, SkipBlock, Crash, vars, tableVars
<1> QED BY <1>1, <1>2, <1>3, <1>4 DEF Next

\* Plans and params change for a passed proposal, and the plans go with an upgrade.
LEMMA PlanStep ==
    ASSUME Typed, [Next]_vars
    PROVE  \/ UNCHANGED planVars
           \/ /\ \E p \in Proposal, h \in Heights : HandlePassed(p, h)
              /\ UNCHANGED refreshed
           \/ plan' = {} /\ refreshed' = refreshed \cup {UpgradeHeight} /\ UNCHANGED params
<1> USE DEF Typed
<1>1. ASSUME NEW w \in Worker, NEW p \in Proposal, HandlePassedProposal(w, p)
      PROVE  job[w].height \in Heights /\ HandlePassed(p, job[w].height) /\ UNCHANGED refreshed
  BY <1>1, StoredBlocks DEF HandlePassedProposal, JobOK, JobFacts
<1>2. ASSUME NEW w \in Worker, RefreshDataUponSoftwareUpgrade(w)
      PROVE  \/ UNCHANGED planVars
             \/ plan' = {} /\ refreshed' = refreshed \cup {UpgradeHeight} /\ UNCHANGED params
  BY <1>2 DEF RefreshDataUponSoftwareUpgrade, UpgradePlanned, planVars
<1>3. ASSUME NEW w \in Worker, WorkerStep(w) \/ HandlerFails(w) \/ UpgradeRefreshFails(w),
             ~RefreshDataUponSoftwareUpgrade(w), ~\E p \in Proposal : HandlePassedProposal(w, p)
      PROVE  UNCHANGED planVars
  BY <1>3 DEF WorkerStep, HandleBlock, HandleMsg, StartBlock, UpdateProposalStatus,
              SubmitProposal, HandleDeposit, HandleVote, UpdateProposalTallyResult,
              ForeignKeyFails, HandlerFails, UpgradeRefreshFails, tableVars, planVars
<1>4. ASSUME NEW t \in Periodic, Round(t) PROVE UNCHANGED planVars
  BY <1>4 DEF Round, RoundStart, RoundIds, RoundEnd, RoundSave, RoundError, tableVars, planVars
<1>5. ASSUME NEW p \in Proposal, ParsePassed(p)
      PROVE  cmd.height \in Heights /\ HandlePassed(p, cmd.height) /\ UNCHANGED refreshed
  BY <1>5, BlockFacts DEF ParsePassed, CmdOK
<1>6. ASSUME Parse, ~\E p \in Proposal : ParsePassed(p) PROVE UNCHANGED planVars
  BY <1>6 DEF Parse, ParseFails, ParseStart, ParseDetails, ParseLatest, ParseStatus,
              ParseSnapshots, ParsePool, ParseTx, tableVars, planVars
<1>7. CASE NewBlock \/ SkipBlock \/ Crash \/ UNCHANGED vars
  BY <1>7 DEF NewBlock, SkipBlock, Crash, vars, tableVars, planVars
<1> QED BY <1>1, <1>2, <1>3, <1>4, <1>5, <1>6, <1>7 DEF Next

\* Votes are those of the chain.
LEMMA VoteStep ==
    ASSUME Typed, [Next]_vars
    PROVE  \/ UNCHANGED vote
           \/ \E h \in DOMAIN chain : /\ chain[h].tx.type = "vote"
                                     /\ SaveVote(chain[h].tx.p, chain[h].tx, h)
<1> USE DEF Typed
<1>1. ASSUME NEW w \in Worker, NEW p \in Proposal, HandleVote(w, p)
      PROVE  \E h \in DOMAIN chain : /\ chain[h].tx.type = "vote"
                                    /\ SaveVote(chain[h].tx.p, chain[h].tx, h)
  <2>1. /\ job[w].height \in DOMAIN chain /\ chain[job[w].height].tx.type = "vote"
        /\ p = chain[job[w].height].tx.p
    BY <1>1, StoredBlocks DEF HandleVote, JobOK, JobFacts
  <2> QED BY <1>1, <2>1 DEF HandleVote
<1>2. ASSUME NEW w \in Worker, WorkerStep(w) \/ HandlerFails(w) \/ UpgradeRefreshFails(w),
             ~\E p \in Proposal : HandleVote(w, p)
      PROVE  UNCHANGED vote
  BY <1>2 DEF WorkerStep, HandleBlock, HandleMsg, StartBlock, UpdateProposalStatus,
              HandlePassedProposal, RefreshDataUponSoftwareUpgrade, SubmitProposal,
              HandleDeposit, UpdateProposalTallyResult, ForeignKeyFails, HandlerFails,
              UpgradeRefreshFails, tableVars
<1>3. ASSUME NEW t \in Periodic, Round(t) PROVE UNCHANGED vote
  BY <1>3 DEF Round, RoundStart, RoundIds, RoundEnd, RoundSave, RoundError, tableVars
<1>4. ASSUME NEW p \in Proposal, NEW h \in Heights, ParseTx(p, h)
      PROVE  \/ UNCHANGED vote
             \/ /\ h \in DOMAIN chain /\ chain[h].tx.type = "vote"
                /\ SaveVote(chain[h].tx.p, chain[h].tx, h)
  <2>1. h \in DOMAIN chain /\ h \in cmd.todo
    BY <1>4 DEF ParseTx, CmdOK
  <2>2. p = chain[h].tx.p
    BY <1>4, <2>1 DEF ParseTx, CmdOK
  <2> QED BY <1>4, <2>1, <2>2 DEF ParseTx
<1>5. ASSUME Parse, ~\E p \in Proposal, h \in Heights : ParseTx(p, h) PROVE UNCHANGED vote
  BY <1>5 DEF Parse, ParseFails, ParseStart, ParseDetails, ParseLatest, ParseStatus,
              ParsePassed, ParseSnapshots, ParsePool, tableVars
<1>6. CASE NewBlock \/ SkipBlock \/ Crash \/ UNCHANGED vars
  BY <1>6 DEF NewBlock, SkipBlock, Crash, vars, tableVars
<1> QED BY <1>1, <1>2, <1>3, <1>4, <1>5, <1>6 DEF Next

LEMMA DepositStep ==
    ASSUME Typed, [Next]_vars
    PROVE  \/ UNCHANGED deposit
           \/ \E p \in Proposal, h \in Heights : SaveDeposits(p, h)
<1> USE DEF Typed
<1>1. ASSUME NEW w \in Worker, NEW p \in Proposal, HandleDeposit(w, p)
      PROVE  job[w].height \in Heights /\ SaveDeposits(p, job[w].height)
  BY <1>1, StoredBlocks DEF HandleDeposit, JobOK, JobFacts
<1>2. ASSUME NEW w \in Worker, WorkerStep(w) \/ HandlerFails(w) \/ UpgradeRefreshFails(w),
             ~\E p \in Proposal : HandleDeposit(w, p)
      PROVE  UNCHANGED deposit
  BY <1>2 DEF WorkerStep, HandleBlock, HandleMsg, StartBlock, UpdateProposalStatus,
              HandlePassedProposal, RefreshDataUponSoftwareUpgrade, SubmitProposal,
              HandleVote, UpdateProposalTallyResult, ForeignKeyFails, HandlerFails,
              UpgradeRefreshFails, tableVars
<1>3. ASSUME NEW t \in Periodic, Round(t) PROVE UNCHANGED deposit
  BY <1>3 DEF Round, RoundStart, RoundIds, RoundEnd, RoundSave, RoundError, tableVars
<1>4. ASSUME NEW p \in Proposal, NEW h \in Heights, ParseTx(p, h)
      PROVE  UNCHANGED deposit \/ SaveDeposits(p, h)
  BY <1>4 DEF ParseTx
<1>5. ASSUME NEW p \in Proposal, ParseDetails(p)
      PROVE  \E h \in Heights : SaveDeposits(p, h)
  BY <1>5, BlockFacts DEF ParseDetails
<1>6. ASSUME Parse, ~\E p \in Proposal, h \in Heights : ParseTx(p, h),
             ~\E p \in Proposal : ParseDetails(p)
      PROVE  UNCHANGED deposit
  BY <1>6 DEF Parse, ParseFails, ParseStart, ParseLatest, ParseStatus,
              ParsePassed, ParseSnapshots, ParsePool, tableVars
<1>7. CASE NewBlock \/ SkipBlock \/ Crash \/ UNCHANGED vars
  BY <1>7 DEF NewBlock, SkipBlock, Crash, vars, tableVars
<1> QED BY <1>1, <1>2, <1>3, <1>4, <1>5, <1>6, <1>7 DEF Next

\* The tables keep their types.
LEMMA TablesTyped ==
    ASSUME Typed, [Next]_vars
    PROVE  /\ proposal' \in [Proposal -> Status]
           /\ vote' \subseteq [p: Proposal, voter: Voter, option: VoteOption, height: Heights]
           /\ deposit' \subseteq [p: Proposal, height: Heights]
           /\ snapshot' \in [Snapshots \X Proposal -> [height: 0..MaxHeight] \cup {NoRow}]
           /\ plan' \subseteq [p: Proposal, height: Heights]
           /\ params' \in 0..MaxHeight
           /\ refreshed' \subseteq {UpgradeHeight}
<1> USE DEF Typed
<1>1. proposal' \in [Proposal -> Status]
  BY ProposalStep DEF TypeOK, Status
<1>2. vote' \subseteq [p: Proposal, voter: Voter, option: VoteOption, height: Heights]
  <2>1. CASE UNCHANGED vote
    BY <2>1 DEF TypeOK
  <2>2. ASSUME NEW h \in DOMAIN chain, chain[h].tx.type = "vote",
               SaveVote(chain[h].tx.p, chain[h].tx, h)
        PROVE  vote' \subseteq [p: Proposal, voter: Voter, option: VoteOption, height: Heights]
    <3>1. /\ h \in Heights /\ chain[h].tx.p \in Proposal /\ chain[h].tx.voter \in Voter
          /\ chain[h].tx.option \in VoteOption
      BY <2>2, BlockFacts, TxFacts
    <3> QED BY <2>2, <3>1 DEF SaveVote, TypeOK
  <2> QED BY <2>1, <2>2, VoteStep
<1>3. deposit' \subseteq [p: Proposal, height: Heights]
  BY DepositStep DEF TypeOK, SaveDeposits
<1>4. snapshot' \in [Snapshots \X Proposal -> [height: 0..MaxHeight] \cup {NoRow}]
  <2>1. CASE UNCHANGED snapshot
    BY <2>1 DEF TypeOK
  <2>2. ASSUME NEW t \in Snapshots, NEW p \in Proposal, NEW h \in 0..MaxHeight,
               SaveSnapshot(t, p, h)
        PROVE  snapshot' \in [Snapshots \X Proposal -> [height: 0..MaxHeight] \cup {NoRow}]
    <3>1. <<t, p>> \in Snapshots \X Proposal /\ [height |-> h] \in [height: 0..MaxHeight]
      OBVIOUS
    <3>2. snapshot' = snapshot \/ snapshot' = [snapshot EXCEPT ![<<t, p>>] = [height |-> h]]
      BY <2>2 DEF SaveSnapshot
    <3> QED BY <3>1, <3>2 DEF TypeOK
  <2> QED BY <2>1, <2>2, SnapshotStep
<1>5. /\ plan' \subseteq [p: Proposal, height: Heights]
      /\ params' \in 0..MaxHeight
      /\ refreshed' \subseteq {UpgradeHeight}
  <2>1. CASE UNCHANGED planVars
    BY <2>1 DEF TypeOK, planVars
  <2>2. ASSUME NEW p \in Proposal, NEW h \in Heights, HandlePassed(p, h), UNCHANGED refreshed
        PROVE  /\ plan' \subseteq [p: Proposal, height: Heights]
               /\ params' \in 0..MaxHeight
               /\ refreshed' \subseteq {UpgradeHeight}
    BY <2>2 DEF HandlePassed, SaveSoftwareUpgradePlan, TypeOK, Heights
  <2>3. CASE plan' = {} /\ refreshed' = refreshed \cup {UpgradeHeight} /\ UNCHANGED params
    BY <2>3 DEF TypeOK
  <2> QED BY <2>1, <2>2, <2>3, PlanStep
<1> QED BY <1>1, <1>2, <1>3, <1>4, <1>5

-----------------------------------------------------------------------------
(* The queue and the processes.                                            *)

JobStages == {"idle", "status", "passed", "submit", "deposit", "vote", "tally"}

\* The types that are not about the chain or the tables.
ProcsTyped ==
    /\ next \in 1..(MaxHeight + 1)
    /\ skipped \subseteq Heights
    /\ block \subseteq 1..Len(chain)
    /\ job \in [Worker -> Work(JobStages, Proposal)]
    /\ \A w \in Worker : job[w].stage = "idle" => job[w] = Idle
    /\ round \in [Periodic -> Work({"idle", "ids", "save"}, Proposal)]
    /\ cmd \in Work({"idle", "details", "txs", "status", "passed", "snapshots",
                     "pool"}, Heights)
    /\ lost \subseteq block
    /\ \A w \in Worker : JobOK(job[w])
    /\ CmdOK

LEMMA ProcsOfTyped == Typed => ProcsTyped
BY DEF Typed, TypeOK, ProcsTyped, JobStages

\* A job's facts do not change while blocks are added.
LEMMA JobStays ==
    ASSUME Typed, [Next]_vars, block \subseteq block', NEW j, JobOK(j)
    PROVE  JobOK(j)'
<1> USE DEF Typed
<1>1. \A h \in DOMAIN chain : chain'[h] = chain[h]
  BY ChainNext
<1>2. j.stage # "idle" => j.height \in DOMAIN chain
  BY StoredBlocks DEF JobOK, JobFacts
<1>3. j.stage # "idle" => chain'[j.height] = chain[j.height]
  BY <1>1, <1>2
<1> QED BY <1>3 DEF JobOK, JobFacts, UpdatedProposals

\* The command's facts do not change while it does nothing.
LEMMA CmdStays ==
    ASSUME Typed, [Next]_vars, UNCHANGED cmd
    PROVE  CmdOK'
<1> USE DEF Typed
<1>1. DOMAIN chain \subseteq DOMAIN chain' /\ \A h \in DOMAIN chain : chain'[h] = chain[h]
  BY ChainNext
<1> QED BY <1>1 DEF CmdOK, SubmittedAt

\* A step of a worker: what is left to show.
LEMMA WorkerTyped ==
    ASSUME Typed, [Next]_vars, NEW w \in Worker, NEW j,
           job' = [job EXCEPT ![w] = j], j \in Work(JobStages, Proposal),
           j.stage = "idle" => j = Idle,
           JobFacts(j), j.stage # "idle" => j.height \in block',
           UNCHANGED <<chain, round, cmd>>,
           next' \in 1..(MaxHeight + 1), skipped' \subseteq Heights,
           block \subseteq block', block' \subseteq 1..Len(chain),
           lost' \subseteq block'
    PROVE  ProcsTyped'
<1>1. job \in [Worker -> Work(JobStages, Proposal)]
  BY DEF Typed, TypeOK, JobStages
<1>2. /\ job' \in [Worker -> Work(JobStages, Proposal)]
      /\ \A v \in Worker : job'[v] = IF v = w THEN j ELSE job[v]
  BY <1>1
<1>3. \A v \in Worker : job'[v].stage = "idle" => job'[v] = Idle
  BY <1>2 DEF Typed, TypeOK
<1>4. \A v \in Worker : JobOK(job[v])'
  <2>1. ASSUME NEW v \in Worker, v # w PROVE JobOK(job[v])'
    <3>1. JobOK(job[v])
      BY DEF Typed
    <3>2. ASSUME NEW i, i = job[v] PROVE JobOK(i)'
      BY <3>1, <3>2, JobStays
    <3>3. job'[v] = job[v]
      BY <1>2, <2>1
    <3> QED BY <3>2, <3>3 DEF JobOK, JobFacts
  <2>2. JobOK(job[w])'
    BY <1>2 DEF JobOK, JobFacts, UpdatedProposals
  <2> QED BY <2>1, <2>2
<1>5. CmdOK'
  BY CmdStays
<1> QED BY <1>2, <1>3, <1>4, <1>5 DEF ProcsTyped, Typed, TypeOK

\* The steps of a worker.
LEMMA WorkerStepTyped ==
    ASSUME Typed, [Next]_vars, NEW w \in Worker,
           WorkerStep(w) \/ HandlerFails(w) \/ UpgradeRefreshFails(w)
    PROVE  ProcsTyped'
<1> USE DEF Typed
<1>1. /\ next \in 1..(MaxHeight + 1) /\ skipped \subseteq Heights /\ block \subseteq 1..Len(chain)
      /\ job[w] \in Work(JobStages, Proposal) /\ lost \subseteq block /\ JobOK(job[w])
      /\ Len(chain) \in Nat /\ Len(chain) <= MaxHeight /\ DOMAIN chain = 1..Len(chain)
  BY DEF TypeOK, JobStages
<1>2. /\ job[w].height \in 0..MaxHeight /\ job[w].todo \subseteq Proposal
      /\ job[w].cur \subseteq Proposal
      /\ job[w].stage # "idle" => /\ job[w].height \in DOMAIN chain
                                 /\ chain[job[w].height].tx \in Tx \cup {NoTx}
  BY <1>1, StoredBlocks, BlockFacts DEF Work, JobOK
<1>i. /\ Idle \in Work(JobStages, Proposal) /\ JobFacts(Idle) /\ Idle.stage = "idle"
      /\ 0 \in 0..MaxHeight
  BY BoundsAssumption DEF Idle, Doing, Work, JobStages, JobFacts
\* Jobs by their parts.
<1>d. \A st, h, T, C : /\ Doing(st, h, T, C).stage = st /\ Doing(st, h, T, C).height = h
                       /\ Doing(st, h, T, C).todo = T /\ Doing(st, h, T, C).cur = C
                       /\ st \in JobStages /\ h \in 0..MaxHeight /\ T \subseteq Proposal
                            /\ C \subseteq Proposal
                                => Doing(st, h, T, C) \in Work(JobStages, Proposal)
  BY DEF Doing, Work
<1>3. ASSUME NEW h \in Heights, StartBlock(w, h) PROVE ProcsTyped'
  <2>1. h \in DOMAIN chain /\ h \in 0..MaxHeight
    BY <1>1, <1>3 DEF StartBlock, Heights
  <2> DEFINE j == Doing("status", h, UpdatedProposals(chain[h]), {})
  <2>2. UpdatedProposals(chain[h]) \subseteq Proposal
    BY <2>1, BlockFacts DEF UpdatedProposals
  <2>3. /\ j \in Work(JobStages, Proposal) /\ j.stage = "status" /\ j.height = h
        /\ j.todo = UpdatedProposals(chain[h])
    BY <1>d, <2>1, <2>2 DEF JobStages
  <2>4. job' = [job EXCEPT ![w] = j]
    BY <1>3 DEF StartBlock
  <2> HIDE DEF j
  <2>5. JobFacts(j)
    BY <2>3 DEF JobFacts
  <2>6. next' \in 1..(MaxHeight + 1) /\ skipped' \subseteq Heights
    BY <1>1, <1>3, <2>1, BoundsAssumption DEF StartBlock
  <2>7. /\ block' = block \cup {h} /\ UNCHANGED <<chain, round, cmd, lost>>
    BY <1>3 DEF StartBlock
  <2> QED BY <1>1, <2>1, <2>3, <2>4, <2>5, <2>6, <2>7, WorkerTyped
\* The other steps leave the queue alone.
<1>4. ASSUME NEW j, job' = [job EXCEPT ![w] = j], j \in Work(JobStages, Proposal),
             j.stage = "idle" => j = Idle, JobFacts(j),
             j.stage # "idle" => j.height \in block,
             UNCHANGED <<chain, queueVars, round, cmd>>,
             lost' \subseteq lost \cup {job[w].height}, job[w].stage # "idle"
      PROVE  ProcsTyped'
  <2>1. lost' \subseteq block
    BY <1>1, <1>4 DEF JobOK
  <2> QED BY <1>1, <1>4, <2>1, WorkerTyped DEF queueVars
<1>5. ASSUME NEW p \in Proposal, UpdateProposalStatus(w, p) PROVE ProcsTyped'
  <2>1. \E st \in {"passed", "status"}, C \in SUBSET Proposal :
            job' = [job EXCEPT ![w] = Doing(st, job[w].height, job[w].todo \ {p}, C)]
    BY <1>5 DEF UpdateProposalStatus
  <2>2. PICK st \in {"passed", "status"}, C \in SUBSET Proposal :
            job' = [job EXCEPT ![w] = Doing(st, job[w].height, job[w].todo \ {p}, C)]
    BY <2>1
  <2> DEFINE j == Doing(st, job[w].height, job[w].todo \ {p}, C)
  <2>3. /\ j \in Work(JobStages, Proposal) /\ j.stage \in {"passed", "status"}
        /\ j.height = job[w].height /\ j.todo = job[w].todo \ {p}
    BY <1>2, <1>d DEF JobStages
  <2>4. job' = [job EXCEPT ![w] = j]
    BY <2>2
  <2> HIDE DEF j
  <2>5. job[w].stage = "status" /\ UNCHANGED <<chain, queueVars, round, cmd, lost>>
    BY <1>5 DEF UpdateProposalStatus
  <2>6. JobFacts(j) /\ j.height \in block
    BY <1>1, <2>3, <2>5 DEF JobOK, JobFacts
  <2> QED BY <1>4, <2>3, <2>4, <2>5, <2>6
<1>6. ASSUME NEW p \in Proposal, HandlePassedProposal(w, p) PROVE ProcsTyped'
  <2> DEFINE j == Doing("status", job[w].height, job[w].todo, {})
  <2>1. /\ j \in Work(JobStages, Proposal) /\ j.stage = "status"
        /\ j.height = job[w].height /\ j.todo = job[w].todo
    BY <1>2, <1>d DEF JobStages
  <2>2. /\ job' = [job EXCEPT ![w] = j] /\ job[w].stage = "passed"
        /\ UNCHANGED <<chain, queueVars, round, cmd, lost>>
    BY <1>6 DEF HandlePassedProposal
  <2> HIDE DEF j
  <2>3. JobFacts(j) /\ j.height \in block
    BY <1>1, <2>1, <2>2 DEF JobOK, JobFacts
  <2> QED BY <1>4, <2>1, <2>2, <2>3
<1>7. CASE RefreshDataUponSoftwareUpgrade(w) \/ UpgradeRefreshFails(w)
  <2> DEFINE j == ToTx(job[w])
             tx == chain[job[w].height].tx
  <2>1. /\ job' = [job EXCEPT ![w] = j] /\ job[w].stage = "status"
        /\ UNCHANGED <<chain, queueVars, round, cmd>> /\ lost' \subseteq lost \cup {job[w].height}
    BY <1>7 DEF RefreshDataUponSoftwareUpgrade, UpgradeRefreshFails, tableVars
  <2>2. job[w].height \in block /\ tx \in Tx \cup {NoTx}
    BY <1>1, <1>2, <2>1 DEF JobOK
  <2>3. CASE tx = NoTx
    <3>1. j = Idle
      BY <2>3 DEF ToTx
    <3> QED BY <1>4, <1>i, <2>1, <3>1
  <2>4. CASE tx # NoTx
    <3>1. j = Doing(tx.type, job[w].height, {}, {tx.p})
      BY <2>4 DEF ToTx
    <3>2. tx.type \in {"submit", "deposit", "vote"} /\ tx.p \in Proposal
      BY <2>2, <2>4, TxFacts
    <3>3. /\ j \in Work(JobStages, Proposal) /\ j.stage = tx.type
          /\ j.height = job[w].height /\ j.cur = {tx.p}
      BY <1>2, <1>d, <3>1, <3>2 DEF JobStages
    <3>4. JobFacts(j)
      BY <2>4, <3>2, <3>3 DEF JobFacts
    <3> HIDE DEF j
    <3> QED BY <1>4, <2>1, <2>2, <3>2, <3>3, <3>4
  <2> QED BY <2>3, <2>4
<1>8. ASSUME NEW p \in Proposal, SubmitProposal(w, p) PROVE ProcsTyped'
  <2> DEFINE j == Doing("deposit", job[w].height, {}, {p})
  <2>1. /\ j \in Work(JobStages, Proposal) /\ j.stage = "deposit"
        /\ j.height = job[w].height /\ j.cur = {p}
    BY <1>2, <1>d DEF JobStages
  <2>2. /\ job' = [job EXCEPT ![w] = j] /\ job[w].stage = "submit" /\ p \in job[w].cur
        /\ UNCHANGED <<chain, queueVars, round, cmd, lost>>
    BY <1>8 DEF SubmitProposal
  <2> HIDE DEF j
  <2>3. JobFacts(j) /\ j.height \in block
    BY <1>1, <2>1, <2>2 DEF JobOK, JobFacts
  <2> QED BY <1>4, <2>1, <2>2, <2>3
<1>9. ASSUME NEW p \in Proposal, HandleVote(w, p) PROVE ProcsTyped'
  <2> DEFINE j == Doing("tally", job[w].height, {}, {p})
  <2>1. /\ j \in Work(JobStages, Proposal) /\ j.stage = "tally"
        /\ j.height = job[w].height /\ j.cur = {p}
    BY <1>2, <1>d DEF JobStages
  <2>2. /\ job' = [job EXCEPT ![w] = j] /\ job[w].stage = "vote" /\ p \in job[w].cur
        /\ UNCHANGED <<chain, queueVars, round, cmd, lost>>
    BY <1>9 DEF HandleVote
  <2> HIDE DEF j
  <2>3. JobFacts(j) /\ j.height \in block
    BY <1>1, <2>1, <2>2 DEF JobOK, JobFacts
  <2> QED BY <1>4, <2>1, <2>2, <2>3
<1>10. ASSUME NEW p \in Proposal, HandleDeposit(w, p) \/ UpdateProposalTallyResult(w, p)
       PROVE  ProcsTyped'
  <2>1. /\ job' = [job EXCEPT ![w] = Idle] /\ job[w].stage \in {"deposit", "tally"}
        /\ UNCHANGED <<chain, queueVars, round, cmd, lost>>
    BY <1>10 DEF HandleDeposit, UpdateProposalTallyResult
  <2> QED BY <1>4, <1>i, <2>1
<1>11. CASE HandlerFails(w) \/ \E p \in Proposal : ForeignKeyFails(w, p)
  <2> DEFINE j == AfterError(job[w])
  <2>1. /\ job' = [job EXCEPT ![w] = j]
        /\ UNCHANGED <<chain, queueVars, round, cmd>> /\ lost' \subseteq lost \cup {job[w].height}
    BY <1>11 DEF HandlerFails, ForeignKeyFails
  <2>2. job[w].stage # "idle"
    <3>1. job[w].stage = "idle" => job[w].todo = {} /\ job[w].cur = {}
      BY DEF TypeOK, Idle, Doing
    <3> QED BY <1>11, <3>1 DEF HandlerFails, ForeignKeyFails
  <2>3. CASE job[w].stage \in {"status", "passed"}
    <3>1. j = Doing("status", job[w].height, {}, {})
      BY <2>3 DEF AfterError
    <3>2. /\ j \in Work(JobStages, Proposal) /\ j.stage = "status"
          /\ j.height = job[w].height /\ j.todo = {}
      BY <1>2, <1>d, <3>1 DEF JobStages
    <3> HIDE DEF j
    <3>3. JobFacts(j) /\ j.height \in block
      BY <1>1, <2>2, <3>2 DEF JobOK, JobFacts
    <3> QED BY <1>4, <2>1, <2>2, <3>2, <3>3
  <2>4. CASE job[w].stage \notin {"status", "passed"}
    <3>1. j = Idle
      BY <2>4 DEF AfterError
    <3> QED BY <1>4, <1>i, <2>1, <2>2, <3>1
  <2> QED BY <2>3, <2>4
<1> QED BY <1>3, <1>5, <1>6, <1>7, <1>8, <1>9, <1>10, <1>11, WorkerStep(w) \/ HandlerFails(w) \/ UpgradeRefreshFails(w)
        DEF WorkerStep, HandleBlock, HandleMsg

\* The chain grows, or a block is put off.
LEMMA QueueTyped ==
    ASSUME Typed, [Next]_vars, NewBlock \/ SkipBlock \/ UNCHANGED vars
    PROVE  ProcsTyped'
<1> USE DEF Typed
<1>1. UNCHANGED <<block, job, round, cmd, lost>>
  BY DEF NewBlock, SkipBlock, queueVars, procVars, vars
<1>2. CmdOK'
  BY <1>1, CmdStays
<1>3. \A w \in Worker : JobOK(job[w])'
  <2>1. ASSUME NEW w \in Worker PROVE JobOK(job[w])'
    <3>1. JobOK(job[w]) /\ job'[w] = job[w]
      BY <1>1
    <3>2. ASSUME NEW i, i = job[w] PROVE JobOK(i)'
      BY <1>1, <3>1, <3>2, JobStays
    <3> QED BY <3>1, <3>2 DEF JobOK, JobFacts
  <2> QED BY <2>1
<1>4. /\ Len(chain) \in Nat /\ Len(chain') \in Nat /\ Len(chain) <= Len(chain')
      /\ Len(chain) <= MaxHeight
  <2>1. CASE NewBlock
    BY <2>1, ChainGrows DEF TypeOK
  <2>2. CASE UNCHANGED chain
    BY <2>2 DEF TypeOK
  <2> QED BY <2>1, <2>2 DEF SkipBlock, vars, chainVars
<1>5. next' \in 1..(MaxHeight + 1) /\ skipped' \subseteq Heights
  <2>1. CASE UNCHANGED <<next, skipped>>
    BY <2>1 DEF TypeOK
  <2>2. CASE SkipBlock
    BY <2>2, <1>4, BoundsAssumption DEF TypeOK, SkipBlock, Heights
  <2> QED BY <2>1, <2>2 DEF NewBlock, queueVars, vars
<1>6. block' \subseteq 1..Len(chain')
  BY <1>1, <1>4 DEF TypeOK
<1> QED BY <1>1, <1>2, <1>3, <1>5, <1>6 DEF ProcsTyped, TypeOK, JobStages

\* A crash leaves the queue and the parse command, which runs elsewhere.
LEMMA CrashTyped ==
    ASSUME Typed, [Next]_vars, Crash
    PROVE  ProcsTyped'
<1> USE DEF Typed
<1>1. /\ UNCHANGED <<chain, next, skipped, block, cmd>>
      /\ job' = [w \in Worker |-> Idle] /\ round' = [t \in Periodic |-> Idle]
      /\ lost' = lost \cup {job[w].height : w \in {v \in Worker : job[v].stage # "idle"}}
  BY DEF Crash, queueVars
<1>2. CmdOK'
  BY <1>1, CmdStays
<1>3. /\ Idle \in Work(JobStages, Proposal) /\ JobOK(Idle)' /\ Idle.stage = "idle"
      /\ Idle \in Work({"idle", "ids", "save"}, Proposal)
  BY BoundsAssumption DEF Idle, Doing, Work, JobStages, JobFacts, JobOK
<1>4. \A w \in Worker : job'[w] = Idle
  BY <1>1
<1>5. \A w \in Worker : JobOK(job[w])'
  BY <1>3, <1>4 DEF JobOK, JobFacts
<1>6. lost' \subseteq block'
  BY <1>1 DEF TypeOK, JobOK
<1> QED BY <1>1, <1>2, <1>3, <1>4, <1>5, <1>6 DEF ProcsTyped, TypeOK

\* A scheduled operation or the parse command leaves the workers alone: what is left to
\* show is about its own state.
LEMMA OthersTyped ==
    ASSUME Typed, [Next]_vars, UNCHANGED <<chain, queueVars, job, lost>>,
           round' \in [Periodic -> Work({"idle", "ids", "save"}, Proposal)],
           cmd' \in Work({"idle", "details", "txs", "status", "passed", "snapshots",
                          "pool"}, Heights),
           CmdOK'
    PROVE  ProcsTyped'
<1>1. \A w \in Worker : JobOK(job[w])'
  BY DEF queueVars, Typed, JobOK, JobFacts, UpdatedProposals
<1> QED BY <1>1 DEF ProcsTyped, Typed, TypeOK, queueVars, JobStages

LEMMA RoundTyped ==
    ASSUME Typed, [Next]_vars, NEW t \in Periodic, Round(t)
    PROVE  ProcsTyped'
<1> USE DEF Typed
<1>1. round[t] \in Work({"idle", "ids", "save"}, Proposal)
  BY DEF TypeOK
<1>2. UNCHANGED <<chain, queueVars, job, lost, cmd>>
  BY DEF Round, RoundStart, RoundIds, RoundEnd, RoundSave, RoundError
<1>3. \E j \in Work({"idle", "ids", "save"}, Proposal) : round' = [round EXCEPT ![t] = j]
  <2>1. CASE RoundStart(t)
    <3>1. PICK h \in 0..MaxHeight : round' = [round EXCEPT ![t] = Doing("ids", h, {}, {})]
      BY <2>1 DEF RoundStart
    <3>2. Doing("ids", h, {}, {}) \in Work({"idle", "ids", "save"}, Proposal)
      BY DEF Doing, Work
    <3> QED BY <3>1, <3>2
  <2>2. CASE RoundIds(t)
    <3>1. round' = [round EXCEPT ![t] = Doing("save", round[t].height, GetOpenProposalsIds, {})]
      BY <2>2 DEF RoundIds
    <3>2. Doing("save", round[t].height, GetOpenProposalsIds, {})
              \in Work({"idle", "ids", "save"}, Proposal)
      BY <1>1 DEF Doing, Work, GetOpenProposalsIds
    <3> QED BY <3>1, <3>2
  <2>3. ASSUME NEW p \in Proposal, RoundSave(t, p)
        PROVE  \E j \in Work({"idle", "ids", "save"}, Proposal) : round' = [round EXCEPT ![t] = j]
    <3>1. round' = [round EXCEPT ![t] = Doing("save", round[t].height, round[t].todo \ {p}, {})]
      BY <2>3 DEF RoundSave
    <3>2. Doing("save", round[t].height, round[t].todo \ {p}, {})
              \in Work({"idle", "ids", "save"}, Proposal)
      BY <1>1 DEF Doing, Work
    <3> QED BY <3>1, <3>2
  <2>4. CASE RoundEnd(t) \/ \E p \in Proposal : RoundError(t, p)
    <3>1. round' = [round EXCEPT ![t] = Idle]
      BY <2>4 DEF RoundEnd, RoundError
    <3>2. Idle \in Work({"idle", "ids", "save"}, Proposal)
      BY BoundsAssumption DEF Idle, Doing, Work
    <3> QED BY <3>1, <3>2
  <2> QED BY <2>1, <2>2, <2>3, <2>4 DEF Round
<1>4. round' \in [Periodic -> Work({"idle", "ids", "save"}, Proposal)]
  BY <1>3 DEF TypeOK
<1>5. CmdOK'
  BY <1>2, CmdStays
<1> QED BY <1>2, <1>4, <1>5, OthersTyped DEF TypeOK

\* The parse command: every later step is about the proposal of its first one.
LEMMA ParseTyped ==
    ASSUME Typed, [Next]_vars, Parse
    PROVE  ProcsTyped'
<1> USE DEF Typed
<1> DEFINE Stages == {"idle", "details", "txs", "status", "passed", "snapshots", "pool"}
           Submitted(p) == \E h \in DOMAIN chain : SubmittedAt(p, h)
<1>1. /\ cmd \in Work(Stages, Heights) /\ cmd.height \in 0..MaxHeight /\ cmd.todo \subseteq Heights
      /\ cmd.cur \subseteq Proposal
      /\ Len(chain) \in Nat /\ Len(chain) <= MaxHeight /\ DOMAIN chain = 1..Len(chain)
      /\ DOMAIN chain \subseteq Heights
  BY BlockFacts DEF TypeOK, Work
<1>2. UNCHANGED <<chain, queueVars, job, lost, round>>
  BY DEF Parse, ParseFails, ParseStart, ParseDetails, ParseLatest, ParseStatus, ParsePassed,
         ParseSnapshots, ParsePool, ParseTx
<1>3. /\ Idle \in Work(Stages, Heights) /\ Idle.stage = "idle" /\ Idle.cur = {}
  BY BoundsAssumption DEF Idle, Doing, Work
\* What is left to show of the next state of the command.
<1>d. \A st, h, T, C : /\ Doing(st, h, T, C).stage = st /\ Doing(st, h, T, C).height = h
                       /\ Doing(st, h, T, C).todo = T /\ Doing(st, h, T, C).cur = C
                       /\ st \in Stages /\ h \in 0..MaxHeight /\ T \subseteq Heights
                            /\ C \subseteq Proposal
                                => Doing(st, h, T, C) \in Work(Stages, Heights)
  BY DEF Doing, Work
<1>4. ASSUME NEW p \in Proposal, NEW st \in Stages, NEW h \in 0..MaxHeight, NEW T \in SUBSET Heights,
             cmd' = Doing(st, h, T, {p}), Submitted(p),
             st = "txs" => \A k \in T : k \in DOMAIN chain /\ p = chain[k].tx.p,
             st \in {"status", "passed", "snapshots", "pool"} =>
                 h \in DOMAIN chain /\ chain[h].phases[p] # "absent"
      PROVE  cmd' \in Work(Stages, Heights) /\ CmdOK'
  <2>1. /\ cmd' \in Work(Stages, Heights) /\ cmd'.stage = st /\ cmd'.height = h /\ cmd'.todo = T
        /\ cmd'.cur = {p}
    BY <1>4, <1>d
  <2> QED BY <1>2, <1>4, <2>1 DEF CmdOK, SubmittedAt
<1>x. (cmd' \in Work(Stages, Heights) /\ CmdOK') => ProcsTyped'
  BY <1>2, OthersTyped DEF TypeOK
<1>5. CASE ParseFails \/ \E p \in Proposal : ParsePool(p)
  <2>1. cmd' = Idle
    BY <1>5 DEF ParseFails, ParsePool
  <2>2. cmd' \in Work(Stages, Heights) /\ CmdOK'
    BY <1>3, <2>1 DEF CmdOK
  <2> QED BY <1>x, <2>2
<1> HIDE DEF Stages, Submitted
<1>m. Stages = {"idle", "details", "txs", "status", "passed", "snapshots", "pool"}
  BY DEF Stages
<1>e. 0 \in 0..MaxHeight /\ {} \in SUBSET Heights
  BY BoundsAssumption
<1>s. \A p \in cmd.cur : Submitted(p)
  BY DEF CmdOK, Submitted
<1>6. ASSUME NEW p \in Proposal, ParseStart(p) PROVE cmd' \in Work(Stages, Heights) /\ CmdOK'
  <2>1. cmd' = Doing("details", 0, {}, {p}) /\ Submitted(p)
    BY <1>6 DEF ParseStart, Submitted
  <2>2. "details" \in Stages
    BY <1>m
  <2> QED BY <1>4, <1>e, <2>1, <2>2
<1>7. ASSUME NEW p \in Proposal, ParseDetails(p) PROVE cmd' \in Work(Stages, Heights) /\ CmdOK'
  <2> DEFINE T == {h \in DOMAIN chain : /\ chain[h].tx.type \in {"deposit", "vote"}
                                       /\ chain[h].tx.p = p}
  <2>1. cmd' = Doing("txs", 0, T, {p}) /\ p \in cmd.cur
    BY <1>7 DEF ParseDetails
  <2>2. T \in SUBSET Heights /\ \A k \in T : k \in DOMAIN chain /\ p = chain[k].tx.p
    BY <1>1
  <2>3. "txs" \in Stages /\ Submitted(p)
    BY <1>m, <1>s, <2>1
  <2> HIDE DEF T
  <2> QED BY <1>4, <1>e, <2>1, <2>2, <2>3
<1>8. ASSUME NEW p \in Proposal, NEW h \in Heights, ParseTx(p, h)
      PROVE  cmd' \in Work(Stages, Heights) /\ CmdOK'
  <2>1. cmd' = Doing("txs", 0, cmd.todo \ {h}, {p}) /\ p \in cmd.cur /\ cmd.stage = "txs"
    BY <1>8 DEF ParseTx
  <2>2. /\ cmd.todo \ {h} \in SUBSET Heights
        /\ \A k \in cmd.todo \ {h} : k \in DOMAIN chain /\ p = chain[k].tx.p
    BY <1>1, <2>1 DEF CmdOK
  <2>3. "txs" \in Stages /\ Submitted(p)
    BY <1>m, <1>s, <2>1
  <2> QED BY <1>4, <1>e, <2>1, <2>2, <2>3
<1>9. ASSUME NEW p \in Proposal, ParseLatest(p) PROVE cmd' \in Work(Stages, Heights) /\ CmdOK'
  <2>1. cmd' = Doing("status", Len(chain), {}, {p}) /\ p \in cmd.cur
    BY <1>9 DEF ParseLatest
  <2>2. PICK k \in DOMAIN chain : SubmittedAt(p, k)
    BY <2>1 DEF CmdOK
  <2>3. chain[k].phases[p] # "absent"
    BY <2>2 DEF SubmittedAt, ChainOK, BlockOK
  <2>4. Len(chain) \in DOMAIN chain /\ k <= Len(chain) /\ Len(chain) \in 0..MaxHeight
    BY <1>1
  <2>5. chain[Len(chain)].phases[p] # "absent"
    BY <2>3, <2>4 DEF ChainOK
  <2>6. "status" \in Stages /\ Submitted(p)
    BY <1>m, <1>s, <2>1
  <2> QED BY <1>4, <1>e, <2>1, <2>4, <2>5, <2>6
<1>10. ASSUME NEW p \in Proposal, cmd.stage \in {"status", "passed", "snapshots", "pool"},
              p \in cmd.cur, NEW st \in {"passed", "snapshots", "pool"},
              cmd' = Doing(st, cmd.height, {}, {p})
       PROVE  cmd' \in Work(Stages, Heights) /\ CmdOK'
  <2>1. cmd.height \in DOMAIN chain /\ chain[cmd.height].phases[p] # "absent"
    BY <1>10 DEF CmdOK
  <2>2. st \in Stages /\ st # "txs" /\ {} \in SUBSET Heights
    BY DEF Stages
  <2> QED BY <1>1, <1>4, <1>s, <1>10, <2>1, <2>2
<1>11. ASSUME NEW p \in Proposal, ParseStatus(p) PROVE cmd' \in Work(Stages, Heights) /\ CmdOK'
  <2>1. cmd.stage = "status" /\ p \in cmd.cur
    BY <1>11 DEF ParseStatus
  <2>2. \/ cmd' = Idle
        \/ \E st \in {"passed", "snapshots", "pool"} : cmd' = Doing(st, cmd.height, {}, {p})
    BY <1>11 DEF ParseStatus
  <2>3. CASE cmd' = Idle
    BY <1>3, <2>3 DEF CmdOK
  <2> QED BY <1>10, <2>1, <2>2, <2>3
<1>12. ASSUME NEW p \in Proposal, ParsePassed(p) \/ ParseSnapshots(p)
       PROVE  cmd' \in Work(Stages, Heights) /\ CmdOK'
  <2>1. /\ cmd.stage \in {"passed", "snapshots"} /\ p \in cmd.cur
        /\ \E st \in {"snapshots", "pool"} : cmd' = Doing(st, cmd.height, {}, {p})
    BY <1>12 DEF ParsePassed, ParseSnapshots
  <2> QED BY <1>10, <2>1
<1> QED BY <1>5, <1>6, <1>7, <1>8, <1>9, <1>11, <1>12, <1>x DEF Parse

LEMMA TypedInit == Init => Typed
<1> SUFFICES ASSUME Init PROVE Typed
  OBVIOUS
<1>1. /\ Idle \in Work(JobStages, Proposal) /\ JobOK(Idle) /\ Idle.stage = "idle" /\ Idle.cur = {}
      /\ Idle \in Work({"idle", "ids", "save"}, Proposal)
      /\ Idle \in Work({"idle", "details", "txs", "status", "passed", "snapshots", "pool"}, Heights)
  BY BoundsAssumption DEF Idle, Doing, Work, JobStages, JobFacts, JobOK
<1>2. DOMAIN chain = {} /\ Len(chain) = 0
  BY DEF Init
<1>3. TypeOK
  BY <1>1, <1>2, BoundsAssumption DEF Init, TypeOK, Status, JobStages
<1>4. ChainOK
  BY <1>2 DEF ChainOK
<1>5. \A w \in Worker : JobOK(job[w])
  BY <1>1 DEF Init
<1>6. CmdOK
  BY <1>1 DEF Init, CmdOK
<1> QED BY <1>3, <1>4, <1>5, <1>6 DEF Typed

LEMMA TypedNext == Typed /\ [Next]_vars => Typed'
<1> SUFFICES ASSUME Typed, [Next]_vars PROVE Typed'
  OBVIOUS
<1>1. ProcsTyped'
  BY QueueTyped, CrashTyped, RoundTyped, ParseTyped, WorkerStepTyped DEF Next
<1>2. ChainOK' /\ chain' \in Seq(Block) /\ Len(chain') <= MaxHeight
  BY ChainNext DEF Typed
<1>3. /\ proposal' \in [Proposal -> Status]
      /\ vote' \subseteq [p: Proposal, voter: Voter, option: VoteOption, height: Heights]
      /\ deposit' \subseteq [p: Proposal, height: Heights]
      /\ snapshot' \in [Snapshots \X Proposal -> [height: 0..MaxHeight] \cup {NoRow}]
      /\ plan' \subseteq [p: Proposal, height: Heights]
      /\ params' \in 0..MaxHeight
      /\ refreshed' \subseteq {UpgradeHeight}
  BY TablesTyped
<1>4. TypeOK'
  BY <1>1, <1>2, <1>3 DEF TypeOK, ProcsTyped, JobStages, Block
<1> QED BY <1>1, <1>2, <1>4 DEF Typed, ProcsTyped

LEMMA TypedHolds == Spec => []Typed
BY TypedInit, TypedNext, PTL DEF Spec

\* Every variable keeps its type, for any proposals, voters, number of workers and bounds:
\* in particular no worker handles a block that is not stored.
THEOREM TypeCorrect == Spec => []TypeOK
<1>1. Typed => TypeOK
  BY DEF Typed
<1> QED BY <1>1, TypedHolds, PTL

\* The tally and pool snapshots are versioned registers, whoever writes them and in whatever
\* order: none is ever replaced by an older one.
THEOREM SnapshotsImplementRegisters == Spec => SnapshotsAreRegisters
<1>1. Init => Registers!Init
  BY DEF Init, Registers!Init
<1>2. Typed /\ [Next]_vars => [Registers!Next]_snapshot
  <2> SUFFICES ASSUME Typed, [Next]_vars, snapshot' # snapshot PROVE Registers!Next
    OBVIOUS
  <2>1. PICK t \in Snapshots, p \in Proposal, h \in 0..MaxHeight : SaveSnapshot(t, p, h)
    BY SnapshotStep
  <2>2. /\ snapshot \in [Snapshots \X Proposal -> [height: 0..MaxHeight] \cup {NoRow}]
        /\ <<t, p>> \in Snapshots \X Proposal
    BY DEF Typed, TypeOK
  <2>3. [height |-> h] # NoRow
    BY NoRowAssumption, BoundsAssumption
  <2>4. /\ snapshot' = [snapshot EXCEPT ![<<t, p>>] = [height |-> h]]
        /\ snapshot[<<t, p>>] # NoRow => snapshot[<<t, p>>].height <= h
    <3>1. snapshot[<<t, p>>] # NoRow => snapshot[<<t, p>>].height \in 0..MaxHeight
      BY <2>2
    <3> QED BY <2>1, <3>1 DEF SaveSnapshot
  <2>5. snapshot'[<<t, p>>] = [height |-> h]
    BY <2>2, <2>4
  <2>6. Registers!Write(<<t, p>>)
    BY <2>3, <2>4, <2>5 DEF Registers!Write
  <2>7. \A k \in Snapshots \X Proposal : k # <<t, p>> => snapshot'[k] = snapshot[k]
    BY <2>2, <2>4
  <2> QED BY <2>6, <2>7 DEF Registers!Next
<1> QED BY <1>1, <1>2, TypedHolds, PTL DEF Spec, SnapshotsAreRegisters, Registers!Spec

-----------------------------------------------------------------------------
(* Votes                                                                   *)

\* What a worker's step does to its job, and what it has stored when it leaves a block.
JobStepOf(w) ==
    /\ \A v \in Worker : v # w => job'[v] = job[v]
    /\ \/ job[w].stage = "idle" /\ job'[w].stage = "status" /\ UNCHANGED lost
       \/ /\ job'[w].height = job[w].height /\ job'[w].stage # "tally"
          /\ job[w].stage # "tally" /\ UNCHANGED lost
       \/ /\ job'[w].height = job[w].height /\ job[w].stage = "vote" /\ UNCHANGED lost
          /\ \E p \in job[w].cur : SaveVote(p, chain[job[w].height].tx, job[w].height)
       \/ lost' = lost \cup {job[w].height} /\ job'[w].stage # "tally"
       \/ /\ job[w].stage = "tally" /\ job'[w] = Idle /\ UNCHANGED lost
          /\ \E p \in job[w].cur : SaveSnapshot("tally", p, job[w].height)
       \/ /\ chain[job[w].height].tx.type # "vote" /\ job[w].stage # "tally"
          /\ job'[w] = Idle /\ UNCHANGED lost

LEMMA JobStep ==
    ASSUME Typed, NEW w \in Worker, WorkerStep(w) \/ HandlerFails(w) \/ UpgradeRefreshFails(w)
    PROVE  JobStepOf(w)
<1> USE DEF Typed
<1>1. /\ DOMAIN job = Worker
      /\ job[w].stage # "idle" => chain[job[w].height].tx \in Tx \cup {NoTx}
  BY StoredBlocks, BlockFacts DEF TypeOK, JobOK
<1>2. Idle.stage = "idle"
  BY DEF Idle, Doing
<1>3. ASSUME NEW h \in Heights, StartBlock(w, h) PROVE JobStepOf(w)
  BY <1>1, <1>3 DEF StartBlock, Doing, JobStepOf
<1>4. ASSUME NEW p \in Proposal, UpdateProposalStatus(w, p) PROVE JobStepOf(w)
  BY <1>1, <1>4 DEF UpdateProposalStatus, Doing, JobStepOf
<1>5. ASSUME NEW p \in Proposal, HandlePassedProposal(w, p) \/ SubmitProposal(w, p) PROVE JobStepOf(w)
  BY <1>1, <1>5 DEF HandlePassedProposal, SubmitProposal, Doing, JobStepOf
<1>6. CASE RefreshDataUponSoftwareUpgrade(w) \/ UpgradeRefreshFails(w)
  <2> DEFINE tx == chain[job[w].height].tx
  <2>1. /\ job' = [job EXCEPT ![w] = ToTx(job[w])] /\ job[w].stage = "status"
        /\ lost' = lost \/ lost' = lost \cup {job[w].height}
    BY <1>6 DEF RefreshDataUponSoftwareUpgrade, UpgradeRefreshFails
  <2>2. job'[w] = ToTx(job[w]) /\ \A v \in Worker : v # w => job'[v] = job[v]
    BY <1>1, <2>1
  <2>3. tx \in Tx \cup {NoTx}
    BY <1>1, <2>1
  <2>4. CASE tx = NoTx
    <3>1. job'[w] = Idle /\ tx.type # "vote"
      BY <2>2, <2>4 DEF ToTx, NoTx
    <3> QED BY <1>2, <2>1, <2>2, <3>1 DEF JobStepOf
  <2>5. CASE tx # NoTx
    <3>1. job'[w] = Doing(tx.type, job[w].height, {}, {tx.p})
      BY <2>2, <2>5 DEF ToTx
    <3>2. job'[w].height = job[w].height /\ job'[w].stage \in {"submit", "deposit", "vote"}
      BY <2>3, <2>5, <3>1, TxFacts DEF Doing
    <3> QED BY <2>1, <2>2, <3>2 DEF JobStepOf
  <2> QED BY <2>4, <2>5
<1>7. ASSUME NEW p \in Proposal, HandleVote(w, p) PROVE JobStepOf(w)
  <2>1. /\ job' = [job EXCEPT ![w] = Doing("tally", job[w].height, {}, {p})]
        /\ job[w].stage = "vote" /\ p \in job[w].cur /\ UNCHANGED lost
        /\ SaveVote(p, chain[job[w].height].tx, job[w].height)
    BY <1>7 DEF HandleVote
  <2>2. job'[w].height = job[w].height /\ \A v \in Worker : v # w => job'[v] = job[v]
    BY <1>1, <2>1 DEF Doing
  <2> QED BY <2>1, <2>2 DEF JobStepOf
<1>8. ASSUME NEW p \in Proposal, UpdateProposalTallyResult(w, p) PROVE JobStepOf(w)
  BY <1>1, <1>8 DEF UpdateProposalTallyResult, JobStepOf
<1>9. ASSUME NEW p \in Proposal, HandleDeposit(w, p) PROVE JobStepOf(w)
  BY <1>1, <1>9 DEF HandleDeposit, JobStepOf, JobOK, JobFacts
<1>10. CASE HandlerFails(w) \/ \E p \in Proposal : ForeignKeyFails(w, p)
  BY <1>1, <1>2, <1>10 DEF HandlerFails, ForeignKeyFails, AfterError, Doing, JobStepOf
<1>11. \/ \E h \in Heights : StartBlock(w, h)
       \/ \E p \in Proposal : UpdateProposalStatus(w, p) \/ HandlePassedProposal(w, p)
       \/ RefreshDataUponSoftwareUpgrade(w)
       \/ \E p \in Proposal : \/ SubmitProposal(w, p) \/ HandleDeposit(w, p) \/ HandleVote(w, p)
                             \/ UpdateProposalTallyResult(w, p) \/ ForeignKeyFails(w, p)
       \/ HandlerFails(w) \/ UpgradeRefreshFails(w)
  BY DEF WorkerStep, HandleBlock, HandleMsg
<1> QED BY <1>3, <1>4, <1>5, <1>6, <1>7, <1>8, <1>9, <1>10, <1>11

\* A block is stored by the worker that starts it.
LEMMA BlocksAreStarted ==
    ASSUME Typed, [Next]_vars
    PROVE  \/ UNCHANGED block
           \/ \E w \in Worker, h \in DOMAIN chain :
                 /\ block' = block \cup {h}
                 /\ job'[w] = Doing("status", h, UpdatedProposals(chain[h]), {})
<1> USE DEF Typed
<1>1. ASSUME NEW w \in Worker, NEW h \in Heights, StartBlock(w, h)
      PROVE  /\ h \in DOMAIN chain /\ block' = block \cup {h}
             /\ job'[w] = Doing("status", h, UpdatedProposals(chain[h]), {})
  BY <1>1 DEF StartBlock, TypeOK, Heights
<1>2. ASSUME NEW w \in Worker, WorkerStep(w) \/ HandlerFails(w) \/ UpgradeRefreshFails(w),
             ~\E h \in Heights : StartBlock(w, h)
      PROVE  UNCHANGED block
  BY <1>2 DEF WorkerStep, HandleBlock, HandleMsg, UpdateProposalStatus, HandlePassedProposal,
              RefreshDataUponSoftwareUpgrade, SubmitProposal, HandleDeposit, HandleVote,
              UpdateProposalTallyResult, ForeignKeyFails, HandlerFails, UpgradeRefreshFails,
              queueVars
<1>3. ASSUME NEW t \in Periodic, Round(t) PROVE UNCHANGED block
  BY <1>3 DEF Round, RoundStart, RoundIds, RoundEnd, RoundSave, RoundError, queueVars
<1>4. CASE Parse
  BY <1>4 DEF Parse, ParseFails, ParseStart, ParseDetails, ParseLatest, ParseStatus,
              ParsePassed, ParseSnapshots, ParsePool, ParseTx, queueVars
<1>5. CASE NewBlock \/ SkipBlock \/ Crash \/ UNCHANGED vars
  BY <1>5 DEF NewBlock, SkipBlock, Crash, vars, queueVars
<1> QED BY <1>1, <1>2, <1>3, <1>4, <1>5 DEF Next

\* Jobs change by a worker's own steps, or a crash ends them all.
LEMMA JobsStep ==
    ASSUME Typed, [Next]_vars
    PROVE  \/ UNCHANGED <<job, lost>>
           \/ \E w \in Worker : JobStepOf(w)
           \/ Crash
<1>1. ASSUME NEW t \in Periodic, Round(t) PROVE UNCHANGED <<job, lost>>
  BY <1>1 DEF Round, RoundStart, RoundIds, RoundEnd, RoundSave, RoundError
<1>2. CASE Parse
  BY <1>2 DEF Parse, ParseFails, ParseStart, ParseDetails, ParseLatest, ParseStatus,
              ParsePassed, ParseSnapshots, ParsePool, ParseTx
<1>3. CASE NewBlock \/ SkipBlock \/ UNCHANGED vars
  BY <1>3 DEF NewBlock, SkipBlock, vars, procVars
<1> QED BY <1>1, <1>2, <1>3, JobStep DEF Next

Voted(tx, h) ==
    \E r \in vote : /\ r.p = tx.p /\ r.voter = tx.voter /\ r.option = tx.option
                    /\ r.height >= h

Tallied(p, h) ==
    snapshot[<<"tally", p>>] # NoRow /\ snapshot[<<"tally", p>>].height >= h

\* Handling a vote stores it.
LEMMA VoteSaved ==
    ASSUME TypeOK, NEW tx, NEW h \in Heights, SaveVote(tx.p, tx, h)
    PROVE  Voted(tx, h)'
<1> DEFINE same == {r \in vote : /\ r.p = tx.p /\ r.voter = tx.voter
                                 /\ r.option = tx.option}
<1>1. CASE \E r \in same : r.height > h
  <2>1. vote' = vote
    BY <1>1 DEF SaveVote
  <2>2. \A r \in vote : r.height \in Heights
    BY DEF TypeOK
  <2> QED BY <1>1, <2>1, <2>2 DEF Voted, Heights
<1>2. CASE ~\E r \in same : r.height > h
  <2> DEFINE row == [p |-> tx.p, voter |-> tx.voter, option |-> tx.option, height |-> h]
  <2>1. row \in vote'
    BY <1>2 DEF SaveVote
  <2> QED BY <2>1 DEF Voted, Heights
<1> QED BY <1>1, <1>2

\* A stored vote stays, possibly with a newer height.
LEMMA VotedStays ==
    ASSUME Typed, [Next]_vars, NEW tx, NEW k \in Heights, Voted(tx, k)
    PROVE  Voted(tx, k)'
<1> USE DEF Typed
<1>1. CASE UNCHANGED vote
  BY <1>1 DEF Voted
<1>2. ASSUME NEW h \in DOMAIN chain, SaveVote(chain[h].tx.p, chain[h].tx, h)
      PROVE  Voted(tx, k)'
  <2> DEFINE b == chain[h].tx
             same == {r \in vote : r.p = b.p /\ r.voter = b.voter /\ r.option = b.option}
  <2>1. PICK r \in vote : /\ r.p = tx.p /\ r.voter = tx.voter /\ r.option = tx.option
                          /\ r.height >= k
    BY DEF Voted
  <2>2. r.height \in Heights /\ h \in Heights
    BY BlockFacts DEF TypeOK
  <2>3. CASE r \in vote'
    BY <2>1, <2>3 DEF Voted
  <2>4. CASE r \notin vote'
    <3> DEFINE row == [p |-> b.p, voter |-> b.voter, option |-> b.option, height |-> h]
    <3>1. vote' # vote
      BY <2>4
    <3>2. /\ ~\E s \in same : s.height > h
          /\ vote' = (vote \ same) \cup {row}
      BY <1>2, <3>1 DEF SaveVote
    <3>3. r \in same /\ row \in vote'
      BY <2>4, <3>2
    <3>4. r.height <= h
      BY <2>2, <3>2, <3>3 DEF Heights
    <3>5. /\ row.p = tx.p /\ row.voter = tx.voter /\ row.option = tx.option
          /\ row.height >= k
      BY <2>1, <2>2, <3>3, <3>4 DEF Heights
    <3> QED BY <3>3, <3>5 DEF Voted
  <2> QED BY <2>3, <2>4
<1> QED BY <1>1, <1>2, VoteStep

\* A tally is saved, unless a newer one is stored.
LEMMA TallySaved ==
    ASSUME TypeOK, NEW p \in Proposal, NEW h \in 0..MaxHeight, SaveSnapshot("tally", p, h)
    PROVE  Tallied(p, h)'
<1>1. /\ snapshot \in [Snapshots \X Proposal -> [height: 0..MaxHeight] \cup {NoRow}]
      /\ <<"tally", p>> \in Snapshots \X Proposal /\ [height |-> h] # NoRow
  BY NoRowAssumption DEF TypeOK, Snapshots
<1>2. CASE snapshot[<<"tally", p>>] # NoRow /\ snapshot[<<"tally", p>>].height > h
  BY <1>1, <1>2 DEF SaveSnapshot, Tallied
<1>3. CASE ~(snapshot[<<"tally", p>>] # NoRow /\ snapshot[<<"tally", p>>].height > h)
  <2>1. snapshot'[<<"tally", p>>] = [height |-> h]
    BY <1>1, <1>3 DEF SaveSnapshot
  <2> QED BY <1>1, <2>1 DEF Tallied
<1> QED BY <1>2, <1>3

LEMMA TalliedStays ==
    ASSUME Typed, [Next]_vars, NEW p \in Proposal, NEW k \in Heights, Tallied(p, k)
    PROVE  Tallied(p, k)'
<1>1. /\ snapshot \in [Snapshots \X Proposal -> [height: 0..MaxHeight] \cup {NoRow}]
      /\ <<"tally", p>> \in Snapshots \X Proposal
  BY DEF Typed, TypeOK, Snapshots
<1>2. CASE UNCHANGED snapshot
  BY <1>2 DEF Tallied
<1>3. ASSUME NEW t \in Snapshots, NEW q \in Proposal, NEW h \in 0..MaxHeight, SaveSnapshot(t, q, h)
      PROVE  Tallied(p, k)'
  <2>1. CASE <<t, q>> # <<"tally", p>>
    BY <1>1, <1>3, <2>1 DEF SaveSnapshot, Tallied
  <2>2. CASE t = "tally" /\ q = p
    <3>1. Tallied(p, h)'
      BY <1>3, <2>2, TallySaved DEF Typed
    <3>2. CASE snapshot' = snapshot
      BY <3>2 DEF Tallied
    <3>3. CASE snapshot' # snapshot
      <4>1. ~(snapshot[<<"tally", p>>].height > h)
        BY <1>3, <2>2, <3>3 DEF SaveSnapshot, Tallied
      <4>2. snapshot'[<<"tally", p>>] = [height |-> h]
        BY <1>1, <1>3, <2>2, <3>3 DEF SaveSnapshot
      <4>3. snapshot[<<"tally", p>>].height \in 0..MaxHeight /\ k \in Nat
        BY <1>1 DEF Tallied, Heights
      <4> QED BY <3>1, <4>1, <4>2, <4>3 DEF Tallied
    <3> QED BY <3>2, <3>3
  <2> QED BY <2>1, <2>2
<1> QED BY <1>2, <1>3, SnapshotStep

\* What handled blocks, and workers that stored a vote already, left in the tables.
VotesInv ==
    /\ \A h \in Handled : chain[h].tx.type = "vote" =>
            Voted(chain[h].tx, h) /\ Tallied(chain[h].tx.p, h)
    /\ \A w \in Worker : job[w].stage = "tally" =>
            Voted(chain[job[w].height].tx, job[w].height)

LEMMA VotesNext == Typed /\ VotesInv /\ [Next]_vars => VotesInv'
<1> SUFFICES ASSUME Typed, VotesInv, [Next]_vars PROVE VotesInv'
  OBVIOUS
<1> USE DEF Typed
<1>1. /\ DOMAIN chain \subseteq DOMAIN chain' /\ \A h \in DOMAIN chain : chain'[h] = chain[h]
      /\ block \subseteq DOMAIN chain /\ block \subseteq Heights /\ 0 \notin DOMAIN chain
  BY ChainNext, StoredBlocks
<1>2. \A h \in block : chain[h].tx \in Tx \cup {NoTx}
  BY <1>1, BlockFacts
<1>3. \A w \in Worker : job[w].stage # "idle" => job[w].height \in block
  BY DEF JobOK
<1>c. CASE Crash
  <2>1. /\ UNCHANGED <<block, vote, snapshot, chain>> /\ \A w \in Worker : job'[w] = Idle
        /\ lost' = lost \cup {job[w].height : w \in {v \in Worker : job[v].stage # "idle"}}
    BY <1>c DEF Crash, queueVars, tableVars
  <2>2. Idle.stage = "idle" /\ Idle.height = 0
    BY DEF Idle, Doing
  <2>3. Handled' \subseteq Handled
    <3> SUFFICES ASSUME NEW h \in block, h \notin lost', NEW w \in Worker, h = job[w].height
                 PROVE  FALSE
      BY <2>1 DEF Handled
    <3>1. job[w].stage # "idle"
      BY <1>1, <2>2 DEF TypeOK
    <3> QED BY <2>1, <3>1
  <2> QED BY <2>1, <2>2, <2>3 DEF VotesInv, Voted, Tallied
\* Otherwise, a worker has either stored the vote or still has the block.
<1>4. ASSUME ~Crash, NEW w \in Worker, job'[w].stage = "tally", NEW h, h = job'[w].height
      PROVE  h \in block /\ Voted(chain[h].tx, h)'
  <2>1. CASE job'[w] = job[w]
    <3>1. h \in block /\ Voted(chain[h].tx, h)
      BY <1>3, <1>4, <2>1 DEF VotesInv
    <3>2. ASSUME NEW tx, tx = chain[h].tx PROVE Voted(tx, h)'
      BY <1>1, <3>1, <3>2, VotedStays
    <3>3. chain'[h] = chain[h]
      BY <1>1, <3>1
    <3> QED BY <3>1, <3>2, <3>3 DEF Voted
  <2>2. CASE job'[w] # job[w]
    <3>1. JobStepOf(w)
      BY <1>4, <2>2, JobsStep DEF JobStepOf
    <3>2. /\ job'[w].height = job[w].height /\ job[w].stage = "vote"
          /\ \E p \in job[w].cur : SaveVote(p, chain[job[w].height].tx, job[w].height)
      BY <1>4, <2>2, <3>1 DEF JobStepOf, Idle, Doing
    <3>3. h \in block /\ job[w].cur = {chain[h].tx.p}
      BY <1>3, <1>4, <3>2 DEF JobOK, JobFacts
    <3>4. SaveVote(chain[h].tx.p, chain[h].tx, h)
      BY <1>4, <3>2, <3>3
    <3>5. ASSUME NEW tx, tx = chain[h].tx PROVE Voted(tx, h)'
      BY <1>1, <3>3, <3>4, <3>5, VoteSaved
    <3>6. chain'[h] = chain[h]
      BY <1>1, <3>3
    <3> QED BY <3>3, <3>5, <3>6 DEF Voted
  <2> QED BY <2>1, <2>2
<1>5. ASSUME ~Crash, NEW h \in Handled', chain'[h].tx.type = "vote"
      PROVE  Voted(chain[h].tx, h)' /\ Tallied(chain[h].tx.p, h)'
  <2>1. h \in block' /\ h \notin lost' /\ \A w \in Worker : h # job'[w].height
    BY <1>5 DEF Handled
  <2>2. h \in block
    <3>1. SUFFICES ASSUME h \notin block PROVE FALSE
      OBVIOUS
    <3>2. PICK w \in Worker, k \in DOMAIN chain :
             /\ block' = block \cup {k}
             /\ job'[w] = Doing("status", k, UpdatedProposals(chain[k]), {})
      BY <2>1, <3>1, BlocksAreStarted
    <3>3. job'[w].height = k
      BY <3>2 DEF Doing
    <3> QED BY <2>1, <3>1, <3>2, <3>3
  <2>3. chain'[h] = chain[h] /\ chain[h].tx.type = "vote" /\ chain[h].tx.p \in Proposal /\ h \in Heights
    BY <1>1, <1>2, <1>5, <2>2, TxFacts
  <2>4. lost \subseteq lost'
    BY <1>5, JobsStep DEF JobStepOf
  <2>5. CASE h \in Handled
    <3>1. Voted(chain[h].tx, h) /\ Tallied(chain[h].tx.p, h)
      BY <2>3, <2>5 DEF VotesInv
    <3>2. ASSUME NEW tx, tx = chain[h].tx PROVE Voted(tx, h)' /\ Tallied(tx.p, h)'
      BY <2>3, <3>1, <3>2, VotedStays, TalliedStays
    <3> QED BY <2>3, <3>2 DEF Voted, Tallied
  <2>6. CASE h \notin Handled
    <3>1. PICK w \in Worker : h = job[w].height
      BY <2>1, <2>2, <2>4, <2>6 DEF Handled
    <3>2. job'[w] # job[w] /\ JobStepOf(w)
      BY <1>5, <2>1, <3>1, JobsStep DEF JobStepOf
    <3>3. job[w].stage # "idle"
      BY <1>1, <2>2, <3>1 DEF TypeOK, Idle, Doing
    <3>4. /\ job[w].stage = "tally"
          /\ \E p \in job[w].cur : SaveSnapshot("tally", p, job[w].height)
      BY <2>1, <2>3, <3>1, <3>2, <3>3 DEF JobStepOf
    <3>5. job[w].cur = {chain[h].tx.p}
      BY <3>1, <3>4 DEF JobOK, JobFacts
    <3>6. SaveSnapshot("tally", chain[h].tx.p, h) /\ Voted(chain[h].tx, h)
      BY <3>1, <3>4, <3>5 DEF VotesInv
    <3>7. h \in 0..MaxHeight
      BY <2>3 DEF Heights
    <3>8. ASSUME NEW tx, tx = chain[h].tx PROVE Voted(tx, h)' /\ Tallied(tx.p, h)'
      BY <2>3, <3>6, <3>7, <3>8, VotedStays, TallySaved
    <3> QED BY <2>3, <3>8 DEF Voted, Tallied
  <2> QED BY <2>5, <2>6
<1>6. ASSUME ~Crash PROVE VotesInv'
  BY <1>4, <1>5, <1>6 DEF VotesInv, Voted, Tallied
<1> QED BY <1>c, <1>6

\* Whatever blocks, workers, retries, restarts and runs of the parse command: once the block
\* of a vote is handled, the vote is stored and its tally is at least as recent.
THEOREM VotesAreStored == Spec => []VotesStored
<1>1. Init => VotesInv
  BY DEF Init, VotesInv, Handled, Idle, Doing
<1>2. Typed /\ VotesInv => VotesStored
  BY DEF VotesInv, VotesStored, Voted, Tallied
<1> QED BY <1>1, <1>2, VotesNext, TypedHolds, PTL DEF Spec

-----------------------------------------------------------------------------
(* Passed proposals                                                        *)

\* A job changes by its worker's own steps; one that neither fails nor is cut short by a
\* crash changes by a handler.
LEMMA OwnStep ==
    ASSUME Typed, [Next]_vars, NEW w \in Worker, job'[w] # job[w]
    PROVE  Crash \/ WorkerStep(w) \/ HandlerFails(w) \/ UpgradeRefreshFails(w)
<1>1. ASSUME NEW t \in Periodic, Round(t) PROVE FALSE
  BY <1>1 DEF Round, RoundStart, RoundIds, RoundEnd, RoundSave, RoundError
<1>2. CASE Parse
  BY <1>2 DEF Parse, ParseFails, ParseStart, ParseDetails, ParseLatest, ParseStatus,
              ParsePassed, ParseSnapshots, ParsePool, ParseTx
<1>3. CASE NewBlock \/ SkipBlock \/ UNCHANGED vars
  BY <1>3 DEF NewBlock, SkipBlock, vars, procVars
<1>4. ASSUME NEW v \in Worker, WorkerStep(v) \/ HandlerFails(v) \/ UpgradeRefreshFails(v)
      PROVE  v = w
  BY <1>4, JobStep DEF JobStepOf
<1> QED BY <1>1, <1>2, <1>3, <1>4 DEF Next

LEMMA Progress ==
    ASSUME Typed, [Next]_vars, NEW w \in Worker, job'[w] # job[w],
           job[w].stage # "idle", job[w].height \notin lost'
    PROVE  \/ \E q \in Proposal : \/ UpdateProposalStatus(w, q) \/ HandlePassedProposal(w, q)
                                 \/ SubmitProposal(w, q) \/ HandleDeposit(w, q)
                                 \/ HandleVote(w, q) \/ UpdateProposalTallyResult(w, q)
           \/ RefreshDataUponSoftwareUpgrade(w)
<1>1. CASE Crash
  BY <1>1 DEF Crash
<1>2. CASE HandlerFails(w) \/ UpgradeRefreshFails(w) \/ \E q \in Proposal : ForeignKeyFails(w, q)
  BY <1>2 DEF HandlerFails, UpgradeRefreshFails, ForeignKeyFails
<1>3. CASE \E h \in Heights : StartBlock(w, h)
  BY <1>3 DEF StartBlock
<1> QED BY <1>1, <1>2, <1>3, OwnStep DEF WorkerStep, HandleBlock, HandleMsg

\* The proposal being handled while the plan or the params are stored.
CurOK(j) ==
    /\ j.stage = "status" => j.cur = {}
    /\ j.stage = "passed" =>
         \E q \in Proposal : /\ j.cur = {q}
                             /\ Content[q] = "upgrade" => j.height < UpgradeHeight

LEMMA CurNext ==
    ASSUME Typed, [Next]_vars, NEW w \in Worker, CurOK(job[w])
    PROVE  CurOK(job[w])'
<1> USE DEF Typed
<1>1. /\ job \in [Worker -> Work(JobStages, Proposal)] /\ Idle.stage = "idle"
      /\ job[w].stage # "idle" => /\ job[w].height \in DOMAIN chain /\ job[w].height # 0
                                 /\ chain[job[w].height].tx \in Tx \cup {NoTx}
  BY StoredBlocks, BlockFacts DEF TypeOK, JobOK, JobStages, Idle, Doing
<1>2. CASE job'[w] = job[w]
  BY <1>2 DEF CurOK
<1>3. CASE Crash \/ \E h \in Heights : StartBlock(w, h)
  BY <1>1, <1>3 DEF Crash, StartBlock, Doing, CurOK
<1>4. ASSUME NEW p \in Proposal, UpdateProposalStatus(w, p) PROVE CurOK(job[w])'
  <2> DEFINE h == job[w].height
  <2>1. job[w].stage = "status" /\ h \in DOMAIN chain /\ StateAt(h) = chain[h].phases
    BY <1>1, <1>4 DEF UpdateProposalStatus, StateAt, PhasesAt
  <2>2. p \in UpdatedProposals(chain[h])
    BY <1>4, <2>1 DEF UpdateProposalStatus, JobOK, JobFacts
  <2>3. CASE StateAt(h)[p] = "passed"
    <3>1. job'[w] = Doing("passed", h, job[w].todo \ {p}, {p})
      BY <1>1, <1>4, <2>3 DEF UpdateProposalStatus
    <3>2. Content[p] = "upgrade" => h < UpgradeHeight
      BY <2>1, <2>2, <2>3 DEF ChainOK, BlockOK
    <3> QED BY <3>1, <3>2 DEF Doing, CurOK
  <2>4. CASE StateAt(h)[p] # "passed"
    BY <1>1, <1>4, <2>4 DEF UpdateProposalStatus, Doing, CurOK
  <2> QED BY <2>3, <2>4
<1>5. CASE \E p \in Proposal : \/ HandlePassedProposal(w, p) \/ SubmitProposal(w, p)
                              \/ HandleVote(w, p)
  BY <1>1, <1>5 DEF HandlePassedProposal, SubmitProposal, HandleVote, Doing, CurOK
<1>6. CASE \E p \in Proposal : HandleDeposit(w, p) \/ UpdateProposalTallyResult(w, p)
  BY <1>1, <1>6 DEF HandleDeposit, UpdateProposalTallyResult, CurOK
<1>7. CASE HandlerFails(w) \/ \E p \in Proposal : ForeignKeyFails(w, p)
  BY <1>1, <1>7 DEF HandlerFails, ForeignKeyFails, AfterError, Doing, CurOK
<1>8. CASE RefreshDataUponSoftwareUpgrade(w) \/ UpgradeRefreshFails(w)
  <2>1. job'[w] = ToTx(job[w]) /\ job[w].stage = "status"
    BY <1>1, <1>8 DEF RefreshDataUponSoftwareUpgrade, UpgradeRefreshFails
  <2>2. job'[w].stage \notin {"status", "passed"}
    BY <1>1, <2>1, TxFacts DEF ToTx, Doing
  <2> QED BY <2>2 DEF CurOK
<1> QED BY <1>2, <1>3, <1>4, <1>5, <1>6, <1>7, <1>8, OwnStep
        DEF WorkerStep, HandleBlock, HandleMsg

\* What a passed proposal asks for, once done.
Applied(p, h) ==
    /\ Content[p] = "params" => params >= h
    /\ Content[p] = "upgrade" => (\E r \in plan : r.p = p) \/ UpgradeHeight \in refreshed

LEMMA AppliedStays ==
    ASSUME Typed, [Next]_vars, NEW p \in Proposal, NEW h \in Heights, Applied(p, h)
    PROVE  Applied(p, h)'
<1> USE DEF Typed
<1>1. CASE UNCHANGED planVars
  BY <1>1 DEF planVars, Applied
<1>2. ASSUME NEW q \in Proposal, NEW k \in Heights, HandlePassed(q, k), UNCHANGED refreshed
      PROVE  Applied(p, h)'
  <2>1. params' >= params /\ params \in Int
    BY <1>2 DEF HandlePassed, TypeOK, Heights
  <2>2. ASSUME Content[p] = "upgrade", NEW r \in plan, r.p = p PROVE \E s \in plan' : s.p = p
    <3>1. CASE r \in plan'
      BY <2>2, <3>1
    <3>2. CASE r \notin plan'
      <4>1. q = p
        BY <1>2, <2>2, <3>2 DEF HandlePassed, SaveSoftwareUpgradePlan
      <4>2. [p |-> p, height |-> k] \in plan'
        BY <1>2, <2>2, <3>2, <4>1 DEF HandlePassed, SaveSoftwareUpgradePlan
      <4> QED BY <4>2
    <3> QED BY <3>1, <3>2
  <2>3. Content[p] = "params" => params' >= h
    BY <1>2, <2>1 DEF Applied, HandlePassed, Heights
  <2> QED BY <1>2, <2>2, <2>3 DEF Applied
<1>3. CASE plan' = {} /\ refreshed' = refreshed \cup {UpgradeHeight} /\ UNCHANGED params
  BY <1>3 DEF Applied
<1> QED BY <1>1, <1>2, <1>3, PlanStep

LEMMA AppliedByHandler ==
    ASSUME TypeOK, NEW p \in Proposal, NEW h \in Heights, HandlePassed(p, h)
    PROVE  Applied(p, h)'
<1>1. Content[p] = "params" => params' >= h
  BY DEF HandlePassed, TypeOK, Heights
<1>2. ASSUME Content[p] = "upgrade" PROVE \E r \in plan' : r.p = p
  <2>1. CASE \E r \in plan : r.p = p /\ r.height > h
    BY <1>2, <2>1 DEF HandlePassed, SaveSoftwareUpgradePlan
  <2>2. CASE ~\E r \in plan : r.p = p /\ r.height > h
    <3>1. [p |-> p, height |-> h] \in plan'
      BY <1>2, <2>2 DEF HandlePassed, SaveSoftwareUpgradePlan
    <3> QED BY <3>1
  <2> QED BY <2>1, <2>2
<1> QED BY <1>1, <1>2 DEF Applied

\* A stored block that nothing was lost of has its passed proposals applied, or a worker
\* that still has them to do.
AppliedInv ==
    /\ \A w \in Worker : CurOK(job[w])
    /\ \A h \in block \ lost : \A p \in chain[h].ended :
         chain[h].phases[p] = "passed" =>
            \/ Applied(p, h)
            \/ \E w \in Worker : /\ job[w].height = h /\ job[w].stage \in {"status", "passed"}
                                 /\ p \in job[w].todo \cup job[w].cur

LEMMA AppliedNext == Typed /\ AppliedInv /\ [Next]_vars => AppliedInv'
<1> SUFFICES ASSUME Typed, AppliedInv, [Next]_vars PROVE AppliedInv'
  OBVIOUS
<1> USE DEF Typed
<1>1. /\ DOMAIN chain \subseteq DOMAIN chain' /\ \A h \in DOMAIN chain : chain'[h] = chain[h]
      /\ block \subseteq DOMAIN chain /\ block \subseteq Heights /\ 0 \notin DOMAIN chain
  BY ChainNext, StoredBlocks
<1>2. \A w \in Worker : CurOK(job[w])'
  BY CurNext DEF AppliedInv
<1>3. lost \subseteq lost'
  BY JobsStep DEF JobStepOf, Crash
<1>4. ASSUME NEW h \in block', h \notin lost', NEW p \in chain'[h].ended,
             chain'[h].phases[p] = "passed"
      PROVE  \/ Applied(p, h)'
             \/ \E w \in Worker : /\ job'[w].height = h /\ job'[w].stage \in {"status", "passed"}
                                  /\ p \in job'[w].todo \cup job'[w].cur
  <2>1. CASE h \notin block
    <3>1. PICK w \in Worker : h \in DOMAIN chain /\ job'[w] = Doing("status", h, UpdatedProposals(chain[h]), {})
      BY <1>4, <2>1, BlocksAreStarted
    <3>2. p \in UpdatedProposals(chain[h])
      BY <1>1, <1>4, <3>1 DEF UpdatedProposals
    <3> QED BY <3>1, <3>2 DEF Doing
  <2>2. CASE h \in block
    <3>1. /\ chain'[h] = chain[h] /\ h \notin lost /\ h \in Heights /\ h # 0
          /\ p \in Proposal /\ StateAt(h)[p] = "passed"
      BY <1>1, <1>3, <1>4, <2>2, BlockFacts DEF StateAt, PhasesAt
    <3>2. CASE Applied(p, h)
      BY <3>1, <3>2, AppliedStays
    <3>3. ASSUME NEW w \in Worker, job[w].height = h, job[w].stage \in {"status", "passed"},
                 p \in job[w].todo \cup job[w].cur, job'[w] # job[w]
          PROVE  \/ Applied(p, h)'
                 \/ /\ job'[w].height = h /\ job'[w].stage \in {"status", "passed"}
                    /\ p \in job'[w].todo \cup job'[w].cur
      <4>1. /\ DOMAIN job = Worker
            /\ job[w].stage = "status" => job[w].cur = {}
            /\ job[w].stage = "passed" => \E q \in Proposal : job[w].cur = {q}
        BY DEF TypeOK, AppliedInv, CurOK
      <4>2. ASSUME NEW q \in Proposal, UpdateProposalStatus(w, q)
            PROVE  /\ job'[w].height = h /\ job'[w].stage \in {"status", "passed"}
                   /\ p \in job'[w].todo \cup job'[w].cur
        BY <3>1, <3>3, <4>1, <4>2 DEF UpdateProposalStatus, Doing
      <4>3. ASSUME NEW q \in Proposal, HandlePassedProposal(w, q), q # p
            PROVE  /\ job'[w].height = h /\ job'[w].stage \in {"status", "passed"}
                   /\ p \in job'[w].todo \cup job'[w].cur
        BY <3>3, <4>1, <4>3 DEF HandlePassedProposal, Doing
      <4>4. CASE HandlePassedProposal(w, p)
        BY <3>1, <3>3, <4>4, AppliedByHandler DEF HandlePassedProposal
      <4>5. CASE RefreshDataUponSoftwareUpgrade(w)
        BY <3>3, <4>1, <4>5 DEF RefreshDataUponSoftwareUpgrade
      <4>6. \/ \E q \in Proposal : UpdateProposalStatus(w, q) \/ HandlePassedProposal(w, q)
            \/ RefreshDataUponSoftwareUpgrade(w)
        BY <1>4, <3>3, Progress DEF SubmitProposal, HandleDeposit, HandleVote, UpdateProposalTallyResult
      <4> QED BY <4>2, <4>3, <4>4, <4>5, <4>6
    <3> QED BY <1>4, <2>2, <3>1, <3>2, <3>3 DEF AppliedInv
  <2> QED BY <2>1, <2>2
<1> QED BY <1>2, <1>4 DEF AppliedInv, Applied, CurOK

LEMMA AppliedHolds == Spec => []AppliedInv
<1>1. Init => AppliedInv
  BY DEF Init, AppliedInv, CurOK, Idle, Doing
<1> QED BY <1>1, AppliedNext, TypedHolds, PTL DEF Spec

-----------------------------------------------------------------------------
(* One worker that takes the blocks in order, and no parse command.        *)

\* The instances of which the next two theorems speak.
OneByOne == MaxSkips = 0 /\ MaxParses = 0 /\ \A v, w \in Worker : v = w

InOrder ==
    /\ skips = 0 /\ parses = 0 /\ skipped = {} /\ cmd.stage = "idle"
    /\ block = 1..(next - 1)
    /\ \A w \in Worker : job[w].stage # "idle" => job[w].height = next - 1

LEMMA InOrderInit == Init => InOrder
BY DEF Init, InOrder, Idle, Doing

LEMMA InOrderNext == OneByOne /\ Typed /\ InOrder /\ [Next]_vars => InOrder'
<1> SUFFICES ASSUME OneByOne, Typed, InOrder, [Next]_vars PROVE InOrder'
  OBVIOUS
<1> USE DEF Typed
<1>1. next \in Nat \ {0} /\ DOMAIN job = Worker
  BY BoundsAssumption DEF TypeOK
<1>2. ~Parse /\ ~SkipBlock
  BY DEF OneByOne, InOrder, Parse, SkipBlock, ParseFails, ParseStart, ParseDetails, ParseLatest,
         ParseStatus, ParsePassed, ParseSnapshots, ParsePool, ParseTx
<1>3. ASSUME NEW w \in Worker, NEW h \in Heights, StartBlock(w, h) PROVE InOrder'
  <2>1. /\ h = next /\ next' = next + 1 /\ block' = block \cup {h}
        /\ UNCHANGED <<skips, parses, skipped, cmd>>
    BY <1>3 DEF StartBlock, InOrder
  <2>2. job' = [job EXCEPT ![w] = Doing("status", h, UpdatedProposals(chain[h]), {})]
    BY <1>3 DEF StartBlock
  <2>3. job'[w].height = h /\ \A v \in Worker : v = w
    BY <1>1, <2>2 DEF Doing, OneByOne
  <2>4. block' = 1..(next' - 1) /\ h = next' - 1
    BY <1>1, <2>1 DEF InOrder
  <2> QED BY <2>1, <2>3, <2>4 DEF InOrder
\* The other steps leave the queue alone, and no job gets another height.
<1>4. ASSUME UNCHANGED <<next, skipped, block, skips, parses, cmd>>,
             \A w \in Worker : job'[w].stage # "idle" =>
                 job[w].stage # "idle" /\ job'[w].height = job[w].height
      PROVE  InOrder'
  BY <1>4 DEF InOrder
<1>5. ASSUME NEW w \in Worker, WorkerStep(w) \/ HandlerFails(w) \/ UpgradeRefreshFails(w),
             ~\E h \in Heights : StartBlock(w, h)
      PROVE  InOrder'
  <2>1. UNCHANGED <<next, skipped, block, skips, parses, cmd>>
    BY <1>5 DEF WorkerStep, HandleBlock, HandleMsg, UpdateProposalStatus, HandlePassedProposal,
                RefreshDataUponSoftwareUpgrade, SubmitProposal, HandleDeposit, HandleVote,
                UpdateProposalTallyResult, ForeignKeyFails, HandlerFails, UpgradeRefreshFails,
                queueVars
  <2>2. job'[w].stage # "idle" => job[w].stage # "idle" /\ job'[w].height = job[w].height
    <3>1. CASE \E p \in Proposal : UpdateProposalStatus(w, p)
      BY <1>1, <3>1 DEF UpdateProposalStatus, Doing
    <3>2. CASE \E p \in Proposal : \/ HandlePassedProposal(w, p) \/ SubmitProposal(w, p)
                                  \/ HandleVote(w, p)
      BY <1>1, <3>2 DEF HandlePassedProposal, SubmitProposal, HandleVote, Doing
    <3>3. CASE \E p \in Proposal : HandleDeposit(w, p) \/ UpdateProposalTallyResult(w, p)
      BY <1>1, <3>3 DEF HandleDeposit, UpdateProposalTallyResult, Idle, Doing
    <3>4. CASE HandlerFails(w) \/ \E p \in Proposal : ForeignKeyFails(w, p)
      <4>1. job[w].stage # "idle"
        BY <3>4 DEF HandlerFails, ForeignKeyFails, TypeOK, Idle, Doing
      <4>2. job' = [job EXCEPT ![w] = AfterError(job[w])]
        BY <3>4 DEF HandlerFails, ForeignKeyFails
      <4> QED BY <1>1, <4>1, <4>2 DEF AfterError, Idle, Doing
    <3>5. CASE RefreshDataUponSoftwareUpgrade(w) \/ UpgradeRefreshFails(w)
      <4>1. job' = [job EXCEPT ![w] = ToTx(job[w])] /\ job[w].stage = "status"
        BY <3>5 DEF RefreshDataUponSoftwareUpgrade, UpgradeRefreshFails
      <4> QED BY <1>1, <4>1 DEF ToTx, Idle, Doing
    <3> QED BY <1>5, <3>1, <3>2, <3>3, <3>4, <3>5 DEF WorkerStep, HandleBlock, HandleMsg
  <2>3. \A v \in Worker : v = w
    BY DEF OneByOne
  <2> QED BY <1>4, <2>1, <2>2, <2>3
<1>6. ASSUME NEW t \in Periodic, Round(t) PROVE InOrder'
  <2>1. UNCHANGED <<next, skipped, block, skips, parses, cmd, job>>
    BY <1>6 DEF Round, RoundStart, RoundIds, RoundEnd, RoundSave, RoundError, queueVars
  <2> QED BY <1>4, <2>1
<1>7. CASE Crash
  <2>1. /\ UNCHANGED <<next, skipped, block, skips, parses, cmd>>
        /\ \A w \in Worker : job'[w] = Idle
    BY <1>7 DEF Crash, queueVars
  <2> QED BY <1>4, <2>1 DEF Idle, Doing
<1>8. CASE NewBlock \/ UNCHANGED vars
  <2>1. UNCHANGED <<next, skipped, block, skips, parses, cmd, job>>
    BY <1>8 DEF NewBlock, vars, queueVars, procVars
  <2> QED BY <1>4, <2>1
<1> QED BY <1>2, <1>3, <1>5, <1>6, <1>7, <1>8 DEF Next

\* The upgrade module has been past the upgrade height: no plan is left, nor comes back.
PastUpgrade ==
    /\ UpgradeHeight \in block \ lost
    /\ \A w \in Worker : ~(job[w].height = UpgradeHeight /\ job[w].stage \in {"status", "passed"})

LEMMA PlansGoNext ==
    ASSUME Typed, AppliedInv, InOrder, OneByOne, [Next]_vars, PastUpgrade => plan = {}
    PROVE  PastUpgrade' => plan' = {}
<1> USE DEF Typed
<1> SUFFICES ASSUME PastUpgrade' PROVE plan' = {}
  OBVIOUS
<1>1. UpgradeHeight \in block' /\ UpgradeHeight \notin lost' /\ lost \subseteq lost'
  BY JobsStep DEF PastUpgrade, JobStepOf, Crash
<1>2. CASE PastUpgrade
  <2>1. plan = {} /\ UpgradeHeight \in block
    BY <1>2 DEF PastUpgrade
  <2>2. ASSUME NEW w \in Worker, NEW p \in Proposal, HandlePassedProposal(w, p) PROVE plan' = {}
    <3>1. job[w].height = next - 1 /\ block = 1..(next - 1)
      BY <2>2 DEF InOrder, HandlePassedProposal
    <3>2. Content[p] = "upgrade" => job[w].height < UpgradeHeight
      BY <2>2 DEF AppliedInv, CurOK, HandlePassedProposal
    <3>3. Content[p] # "upgrade"
      BY <2>1, <3>1, <3>2, BoundsAssumption DEF TypeOK
    <3> QED BY <2>1, <2>2, <3>3 DEF HandlePassedProposal, HandlePassed
  <2>3. ASSUME ~\E w \in Worker, p \in Proposal : HandlePassedProposal(w, p) PROVE plan' = {}
    <3>1. ~Parse
      BY DEF OneByOne, InOrder, Parse, ParseFails, ParseStart, ParseDetails, ParseLatest,
             ParseStatus, ParsePassed, ParseSnapshots, ParsePool, ParseTx
    <3>2. ASSUME NEW w \in Worker, WorkerStep(w) \/ HandlerFails(w) \/ UpgradeRefreshFails(w)
          PROVE  plan' = {}
      BY <2>1, <2>3, <3>2 DEF WorkerStep, HandleBlock, HandleMsg, StartBlock, UpdateProposalStatus,
              RefreshDataUponSoftwareUpgrade, SubmitProposal, HandleDeposit, HandleVote,
              UpdateProposalTallyResult, ForeignKeyFails, HandlerFails, UpgradeRefreshFails,
              tableVars, planVars
    <3>3. ASSUME NEW t \in Periodic, Round(t) PROVE plan' = {}
      BY <2>1, <3>3 DEF Round, RoundStart, RoundIds, RoundEnd, RoundSave, RoundError, tableVars,
                        planVars
    <3>4. CASE NewBlock \/ SkipBlock \/ Crash \/ UNCHANGED vars
      BY <2>1, <3>4 DEF NewBlock, SkipBlock, Crash, vars, tableVars
    <3> QED BY <3>1, <3>2, <3>3, <3>4 DEF Next
  <2> QED BY <2>2, <2>3
<1>3. CASE UpgradeHeight \notin block
  <2>1. PICK w \in Worker, h \in DOMAIN chain :
           /\ block' = block \cup {h}
           /\ job'[w] = Doing("status", h, UpdatedProposals(chain[h]), {})
    BY <1>1, <1>3, BlocksAreStarted
  <2>2. h = UpgradeHeight /\ job'[w].height = h /\ job'[w].stage = "status"
    BY <1>1, <1>3, <2>1 DEF Doing
  <2> QED BY <2>2 DEF PastUpgrade
<1>4. CASE ~PastUpgrade /\ UpgradeHeight \in block
  <2>1. PICK w \in Worker : job[w].height = UpgradeHeight /\ job[w].stage \in {"status", "passed"}
    BY <1>1, <1>4 DEF PastUpgrade
  <2>2. job'[w] # job[w]
    BY <2>1 DEF PastUpgrade
  <2>3. ASSUME NEW p \in Proposal, UpdateProposalStatus(w, p) \/ HandlePassedProposal(w, p)
        PROVE  job'[w].height = UpgradeHeight /\ job'[w].stage \in {"status", "passed"}
    BY <2>1, <2>3 DEF UpdateProposalStatus, HandlePassedProposal, Doing, TypeOK
  <2>4. RefreshDataUponSoftwareUpgrade(w)
    BY <1>1, <2>1, <2>2, <2>3, Progress
       DEF SubmitProposal, HandleDeposit, HandleVote, UpdateProposalTallyResult, PastUpgrade
  <2> QED BY <2>1, <2>4 DEF RefreshDataUponSoftwareUpgrade, UpgradePlanned
<1> QED BY <1>2, <1>3, <1>4

\* With one worker that takes the blocks in order: a handled block leaves every passed proposal
\* with its params refreshed or its plan stored, and no plan stays once the upgrade height is
\* handled.
THEOREM PassedAreApplied == OneByOne => (Spec => []PassedProposalsApplied)
<1> SUFFICES ASSUME OneByOne PROVE Spec => []PassedProposalsApplied
  OBVIOUS
<1> DEFINE NoPlanLeft == PastUpgrade => plan = {}
<1>1. Init => NoPlanLeft
  BY DEF Init, PastUpgrade
<1>2. Typed /\ AppliedInv /\ InOrder /\ NoPlanLeft /\ [Next]_vars => NoPlanLeft'
  BY PlansGoNext
<1>3. Typed /\ InOrder /\ [Next]_vars => InOrder'
  BY InOrderNext
<1>4. Typed /\ AppliedInv /\ NoPlanLeft => PassedProposalsApplied
  <2> SUFFICES ASSUME Typed, AppliedInv, NoPlanLeft, NEW h \in Handled, NEW p \in chain[h].ended,
                      PhasesAt(h)[p] = "passed"
               PROVE  /\ Applied(p, h)
                      /\ UpgradeHeight \in Handled => plan = {}
    BY DEF PassedProposalsApplied, Applied
  <2>1. h \in block \ lost /\ \A w \in Worker : h # job[w].height
    BY DEF Handled
  <2>2. h # 0
    BY <2>1, StoredBlocks DEF Typed
  <2>3. chain[h].phases[p] = "passed"
    BY <2>2 DEF PhasesAt
  <2>4. Applied(p, h)
    BY <2>1, <2>3 DEF AppliedInv
  <2>5. UpgradeHeight \in Handled => PastUpgrade
    BY DEF Handled, PastUpgrade
  <2> QED BY <2>4, <2>5
<1> HIDE DEF NoPlanLeft
<1> QED BY <1>1, <1>2, <1>3, <1>4, InOrderInit, TypedHolds, AppliedHolds, PTL DEF Spec

-----------------------------------------------------------------------------
(* Statuses                                                                *)

\* h is the newest stored block that changes the status of p.
Newest(p, h) == h \in StatusChanges(p) /\ \A k \in StatusChanges(p) : k <= h

\* What is still to do at a block that changes a status, or submits a proposal, before the
\* table shows it.
StatusInv ==
    \A p \in Proposal, h \in block :
        Newest(p, h) /\ h \notin lost /\ proposal[p] # NoRow =>
            \/ proposal[p] = PhasesAt(h)[p]
            \/ \E w \in Worker : job[w].height = h /\
                 \/ job[w].stage \in {"status", "passed"} /\ p \in job[w].todo
                 \/ job[w].stage \in {"status", "passed", "submit"} /\ SubmittedAt(p, h)

RowInv ==
    \A p \in Proposal, h \in block :
        SubmittedAt(p, h) /\ h \notin lost =>
            \/ proposal[p] # NoRow
            \/ \E w \in Worker : /\ job[w].height = h
                                 /\ job[w].stage \in {"status", "passed", "submit"}

\* A stored proposal is never removed.
LEMMA RowsStay ==
    ASSUME Typed, [Next]_vars, NEW p \in Proposal, proposal[p] # NoRow
    PROVE  proposal'[p] # NoRow
<1>1. \A s \in OnChain : s # NoRow
  BY NoRowAssumption DEF OnChain
<1> QED BY <1>1, ProposalStep DEF Typed, TypeOK

\* A transaction that submits p is handled in the stage of its own.
LEMMA SubmitStage ==
    ASSUME Typed, [Next]_vars, NEW w \in Worker, NEW p \in Proposal, NEW h, h = job[w].height,
           SubmittedAt(p, h), RefreshDataUponSoftwareUpgrade(w)
    PROVE  job'[w].height = h /\ job'[w].stage = "submit"
<1>1. job'[w] = ToTx(job[w]) /\ chain[h].tx.type = "submit"
  BY DEF RefreshDataUponSoftwareUpgrade, SubmittedAt, Typed, TypeOK
<1> QED BY <1>1 DEF ToTx, NoTx, Doing

LEMMA RowNext == Typed /\ RowInv /\ [Next]_vars => RowInv'
<1> SUFFICES ASSUME Typed, RowInv, [Next]_vars,
                    NEW p \in Proposal, NEW h \in block', SubmittedAt(p, h)', h \notin lost'
             PROVE  \/ proposal'[p] # NoRow
                    \/ \E w \in Worker : /\ job'[w].height = h
                                         /\ job'[w].stage \in {"status", "passed", "submit"}
  BY DEF RowInv
<1> USE DEF Typed
<1>1. lost \subseteq lost' /\ DOMAIN job = Worker
  BY JobsStep DEF JobStepOf, Crash, TypeOK
<1>2. CASE h \notin block
  <2>1. PICK w \in Worker, k \in DOMAIN chain :
           /\ block' = block \cup {k}
           /\ job'[w] = Doing("status", k, UpdatedProposals(chain[k]), {})
    BY <1>2, BlocksAreStarted
  <2>2. h = k /\ job'[w].height = k /\ job'[w].stage = "status"
    BY <1>2, <2>1 DEF Doing
  <2> QED BY <2>2
<1>3. CASE h \in block
  <2>1. SubmittedAt(p, h) /\ h \notin lost
    BY <1>1, <1>3, ChainNext, StoredBlocks DEF SubmittedAt
  <2>2. CASE proposal[p] # NoRow
    BY <2>2, RowsStay
  <2>3. ASSUME NEW w \in Worker, job[w].height = h,
               job[w].stage \in {"status", "passed", "submit"}, job'[w] # job[w]
        PROVE  \/ proposal'[p] # NoRow
               \/ job'[w].height = h /\ job'[w].stage \in {"status", "passed", "submit"}
    <3>1. CASE \E q \in Proposal : UpdateProposalStatus(w, q) \/ HandlePassedProposal(w, q)
      BY <1>1, <2>3, <3>1 DEF UpdateProposalStatus, HandlePassedProposal, Doing
    <3>2. CASE RefreshDataUponSoftwareUpgrade(w)
      BY <2>1, <2>3, <3>2, SubmitStage
    <3>3. ASSUME NEW q \in Proposal, SubmitProposal(w, q) PROVE proposal'[p] # NoRow
      <4>1. q = p
        BY <2>1, <2>3, <3>3 DEF SubmitProposal, JobOK, JobFacts, SubmittedAt
      <4>2. \E s : proposal' = [proposal EXCEPT ![p] = s]
        BY <3>3, <4>1 DEF SubmitProposal, SaveProposals
      <4>3. CASE proposal' = proposal
        <5>1. StateAt(h)[p] \in OnChain
          <6>1. h \in DOMAIN chain /\ h # 0
            BY <1>3, StoredBlocks
          <6> QED BY <2>1, <6>1 DEF StateAt, PhasesAt, SubmittedAt, ChainOK, BlockOK, OnChain
        <5>2. proposal'[p] \in OnChain
          BY <2>3, <3>3, <4>1, <5>1 DEF SubmitProposal, SaveProposals, TypeOK
        <5> QED BY <5>2, NoRowAssumption DEF OnChain
      <4>4. CASE proposal' # proposal
        <5>1. proposal'[p] \in OnChain
          BY <4>2, <4>4, ProposalStep DEF TypeOK
        <5> QED BY <5>1, NoRowAssumption DEF OnChain
      <4> QED BY <4>3, <4>4
    <3>4. \/ \E q \in Proposal : \/ UpdateProposalStatus(w, q) \/ HandlePassedProposal(w, q)
                                \/ SubmitProposal(w, q)
          \/ RefreshDataUponSoftwareUpgrade(w)
      BY <2>3, Progress DEF HandleDeposit, HandleVote, UpdateProposalTallyResult
    <3> QED BY <3>1, <3>2, <3>3, <3>4
  <2> QED BY <1>3, <2>1, <2>2, <2>3 DEF RowInv
<1> QED BY <1>2, <1>3

\* Which blocks change a status does not depend on later ones.
LEMMA ChangesStay ==
    ASSUME Typed, [Next]_vars, NEW p \in Proposal, NEW h \in block
    PROVE  /\ h \in StatusChanges(p)' <=> h \in StatusChanges(p)
           /\ PhasesAt(h)' = PhasesAt(h) /\ StateAt(h) = PhasesAt(h)
           /\ h \in DOMAIN chain /\ h \in Heights /\ h - 1 \in 0..Len(chain)
           /\ chain'[h] = chain[h] /\ h \in block'
<1>1. /\ h \in DOMAIN chain /\ h \in Heights /\ DOMAIN chain = 1..Len(chain) /\ Len(chain) \in Nat
      /\ h # 0 /\ chain'[h] = chain[h]
  BY StoredBlocks, BlockFacts, ChainNext DEF Typed
<1>2. h \in 0..Len(chain) /\ h - 1 \in 0..Len(chain)
  BY <1>1
<1>3. PhasesAt(h)' = PhasesAt(h) /\ PhasesAt(h - 1)' = PhasesAt(h - 1)
  BY <1>2, PhasesStay DEF Typed
<1>4. h \in block'
  BY BlocksAreStarted
<1> QED BY <1>1, <1>2, <1>3, <1>4 DEF StatusChanges, StateAt

\* The blocks named by the events are those that change a status.
LEMMA EventsAreChanges ==
    ASSUME Typed, NEW p \in Proposal, NEW h \in block
    PROVE  /\ p \in UpdatedProposals(chain[h]) \/ SubmittedAt(p, h) => h \in StatusChanges(p)
           /\ h \in StatusChanges(p) => p \in UpdatedProposals(chain[h]) \/ SubmittedAt(p, h)
<1>1. h \in DOMAIN chain /\ h # 0 /\ PhasesAt(h) = chain[h].phases
  BY StoredBlocks DEF Typed, PhasesAt
<1>2. BlockOK(chain[h], PhasesAt(h - 1), h)
  BY <1>1 DEF Typed, ChainOK
<1> QED BY <1>1, <1>2 DEF BlockOK, StatusChanges, SubmittedAt, OnChain

\* A status is written by the worker at the newest stored block, and it is the one of
\* that block.
LEMMA WrittenInOrder ==
    ASSUME Typed, InOrder, OneByOne, [Next]_vars, NEW p \in Proposal,
           NEW w \in Worker, NEW n, n = next - 1,
           (UpdateProposalStatus(w, p) /\ proposal[p] # NoRow) \/ SubmitProposal(w, p)
    PROVE  /\ job[w].height = n /\ n \in StatusChanges(p)
           /\ proposal'[p] = PhasesAt(n)[p]
           /\ \A q \in Proposal : q # p => proposal'[q] = proposal[q]
<1> USE DEF Typed
<1>1. job[w].height = n /\ n \in block /\ n \in Nat
  BY StoredBlocks DEF UpdateProposalStatus, SubmitProposal, InOrder, JobOK, TypeOK, Heights
<1>2. p \in UpdatedProposals(chain[n]) \/ SubmittedAt(p, n)
  BY <1>1 DEF UpdateProposalStatus, SubmitProposal, JobOK, JobFacts, SubmittedAt
<1>3. n \in StatusChanges(p)
  BY <1>1, <1>2, EventsAreChanges
<1>4. StateAt(n) = PhasesAt(n)
  BY <1>1, StoredBlocks DEF StateAt
<1>5. proposal' = [proposal EXCEPT ![p] = PhasesAt(n)[p]]
  <2>1. CASE UpdateProposalStatus(w, p) /\ proposal[p] # NoRow
    BY <1>1, <1>4, <2>1 DEF UpdateProposalStatus, UpdateProposal
  <2>2. CASE SubmitProposal(w, p)
    <3>1. ASSUME NEW h \in Heights, GetLastBlockHeight(h) PROVE h = n
      <4>1. h \in 1..n /\ n <= h
        BY <1>1, <3>1 DEF GetLastBlockHeight, InOrder
      <4> QED BY <1>1, <4>1
    <3> QED BY <1>1, <1>4, <2>2, <3>1 DEF SubmitProposal, SaveProposals
  <2> QED BY <2>1, <2>2
<1> QED BY <1>1, <1>3, <1>5 DEF TypeOK

LEMMA StatusNext == OneByOne /\ Typed /\ InOrder /\ StatusInv /\ [Next]_vars => StatusInv'
<1> SUFFICES ASSUME OneByOne, Typed, InOrder, StatusInv, [Next]_vars,
                    NEW p \in Proposal, NEW h \in block', Newest(p, h)', h \notin lost',
                    proposal'[p] # NoRow
             PROVE  \/ proposal'[p] = PhasesAt(h)'[p]
                    \/ \E w \in Worker : job'[w].height = h /\
                         \/ job'[w].stage \in {"status", "passed"} /\ p \in job'[w].todo
                         \/ job'[w].stage \in {"status", "passed", "submit"} /\ SubmittedAt(p, h)'
  BY DEF StatusInv
<1> USE DEF Typed
<1>1. lost \subseteq lost' /\ DOMAIN job = Worker
  BY JobsStep DEF JobStepOf, Crash, TypeOK
<1>2. CASE h \notin block
  <2>1. PICK w \in Worker, k \in DOMAIN chain :
           /\ block' = block \cup {k}
           /\ job'[w] = Doing("status", k, UpdatedProposals(chain[k]), {})
    BY <1>2, BlocksAreStarted
  <2>2. /\ h = k /\ job'[w].height = k /\ job'[w].stage = "status"
        /\ job'[w].todo = UpdatedProposals(chain[h])
    BY <1>2, <2>1 DEF Doing
  <2>3. p \in UpdatedProposals(chain[h]) \/ SubmittedAt(p, h)
    <3>1. /\ DOMAIN chain = 1..Len(chain) /\ Len(chain) \in Nat /\ h \in DOMAIN chain /\ h # 0
      BY <2>2, BlockFacts DEF TypeOK, Heights
    <3>2. PhasesAt(h)' = PhasesAt(h) /\ PhasesAt(h - 1)' = PhasesAt(h - 1)
      <4>1. h \in 0..Len(chain) /\ h - 1 \in 0..Len(chain)
        BY <3>1
      <4> QED BY <4>1, PhasesStay
    <3>3. PhasesAt(h)[p] # PhasesAt(h - 1)[p] /\ PhasesAt(h)[p] # "deleted"
      BY <3>2 DEF Newest, StatusChanges
    <3> QED BY <3>1, <3>3 DEF ChainOK, BlockOK, PhasesAt, SubmittedAt
  <2>4. chain'[h] = chain[h]
    BY <2>2, ChainNext
  <2> QED BY <2>2, <2>3, <2>4 DEF SubmittedAt
<1>3. CASE h \in block
  <2>1. /\ PhasesAt(h)' = PhasesAt(h) /\ chain'[h] = chain[h] /\ h \notin lost
        /\ h \in StatusChanges(p)
    BY <1>1, <1>3, ChangesStay DEF Newest
  <2>2. \A k \in StatusChanges(p) : k <= h
    BY ChangesStay DEF Newest, StatusChanges
  <2>3. Newest(p, h)
    BY <2>1, <2>2 DEF Newest
\* A write of the status of p: the newest stored block is h.
  <2>4. ASSUME NEW w \in Worker,
               (UpdateProposalStatus(w, p) /\ proposal[p] # NoRow) \/ SubmitProposal(w, p)
        PROVE  proposal'[p] = PhasesAt(h)'[p]
    <3>1. ASSUME NEW n, n = next - 1 PROVE n = h /\ proposal'[p] = PhasesAt(n)[p]
      <4>1. n \in StatusChanges(p) /\ proposal'[p] = PhasesAt(n)[p]
        BY <2>4, <3>1, WrittenInOrder
      <4>2. n <= h /\ h \in 1..n /\ n \in Int
        BY <1>3, <2>2, <3>1, <4>1 DEF InOrder, TypeOK
      <4> QED BY <4>1, <4>2
    <3> QED BY <2>1, <3>1
  <2>5. CASE \E w \in Worker : \/ UpdateProposalStatus(w, p) /\ proposal[p] # NoRow
                               \/ SubmitProposal(w, p)
    BY <2>4, <2>5
  <2>6. CASE ~\E w \in Worker : \/ UpdateProposalStatus(w, p) /\ proposal[p] # NoRow
                                \/ SubmitProposal(w, p)
    <3>1. proposal'[p] = proposal[p]
      <4>1. ~Parse
        BY DEF OneByOne, InOrder, Parse, ParseFails, ParseStart, ParseDetails, ParseLatest,
               ParseStatus, ParsePassed, ParseSnapshots, ParsePool, ParseTx
      <4>2. ASSUME NEW w \in Worker, NEW q \in Proposal, UpdateProposalStatus(w, q)
            PROVE  proposal'[p] = proposal[p]
        BY <2>6, <4>2 DEF UpdateProposalStatus, UpdateProposal, TypeOK
      <4>3. ASSUME NEW w \in Worker, NEW q \in Proposal, SubmitProposal(w, q)
            PROVE  proposal'[p] = proposal[p]
        BY <2>6, <4>3 DEF SubmitProposal, SaveProposals, TypeOK
      <4>4. ASSUME NEW w \in Worker, WorkerStep(w) \/ HandlerFails(w) \/ UpgradeRefreshFails(w),
                   ~\E q \in Proposal : UpdateProposalStatus(w, q) \/ SubmitProposal(w, q)
            PROVE  proposal' = proposal
        BY <4>4 DEF WorkerStep, HandleBlock, HandleMsg, StartBlock, HandlePassedProposal,
                RefreshDataUponSoftwareUpgrade, HandleDeposit, HandleVote,
                UpdateProposalTallyResult, ForeignKeyFails, HandlerFails, UpgradeRefreshFails,
                tableVars
      <4>5. ASSUME NEW t \in Periodic, Round(t) PROVE proposal' = proposal
        BY <4>5 DEF Round, RoundStart, RoundIds, RoundEnd, RoundSave, RoundError, tableVars
      <4>6. CASE NewBlock \/ SkipBlock \/ Crash \/ UNCHANGED vars
        BY <4>6 DEF NewBlock, SkipBlock, Crash, vars, tableVars
      <4> QED BY <4>1, <4>2, <4>3, <4>4, <4>5, <4>6 DEF Next
    <3>2. CASE proposal[p] = PhasesAt(h)[p]
      BY <2>1, <3>1, <3>2
    <3>3. ASSUME NEW w \in Worker, job[w].height = h,
                 \/ job[w].stage \in {"status", "passed"} /\ p \in job[w].todo
                 \/ job[w].stage \in {"status", "passed", "submit"} /\ SubmittedAt(p, h),
                 job'[w] # job[w]
          PROVE  /\ job'[w].height = h
                 /\ \/ job'[w].stage \in {"status", "passed"} /\ p \in job'[w].todo
                    \/ job'[w].stage \in {"status", "passed", "submit"} /\ SubmittedAt(p, h)
      <4>1. ASSUME NEW q \in Proposal, UpdateProposalStatus(w, q)
            PROVE  /\ job'[w].height = h
                   /\ \/ job'[w].stage \in {"status", "passed"} /\ p \in job'[w].todo
                      \/ job'[w].stage \in {"status", "passed", "submit"} /\ SubmittedAt(p, h)
        <5>1. q # p
          BY <2>6, <3>1, <4>1
        <5> QED BY <1>1, <3>3, <4>1, <5>1 DEF UpdateProposalStatus, Doing
      <4>2. ASSUME NEW q \in Proposal, HandlePassedProposal(w, q)
            PROVE  /\ job'[w].height = h
                   /\ \/ job'[w].stage \in {"status", "passed"} /\ p \in job'[w].todo
                      \/ job'[w].stage \in {"status", "passed", "submit"} /\ SubmittedAt(p, h)
        BY <1>1, <3>3, <4>2 DEF HandlePassedProposal, Doing
      <4>3. ASSUME RefreshDataUponSoftwareUpgrade(w)
            PROVE  job'[w].height = h /\ job'[w].stage = "submit" /\ SubmittedAt(p, h)
        <5>1. SubmittedAt(p, h)
          BY <3>3, <4>3 DEF RefreshDataUponSoftwareUpgrade
        <5> QED BY <3>3, <4>3, <5>1, SubmitStage
      <4>4. ~\E q \in Proposal : SubmitProposal(w, q)
        <5>1. ASSUME NEW q \in Proposal, SubmitProposal(w, q) PROVE q = p
          BY <3>3, <5>1 DEF SubmitProposal, JobOK, JobFacts, SubmittedAt
        <5> QED BY <2>6, <5>1
      <4>5. \/ \E q \in Proposal : UpdateProposalStatus(w, q) \/ HandlePassedProposal(w, q)
            \/ RefreshDataUponSoftwareUpgrade(w)
        BY <3>3, <4>4, Progress DEF HandleDeposit, HandleVote, UpdateProposalTallyResult
      <4> QED BY <4>1, <4>2, <4>3, <4>5
    <3>4. SubmittedAt(p, h)' <=> SubmittedAt(p, h)
      BY <2>1 DEF SubmittedAt
    <3> QED BY <1>3, <2>1, <2>3, <3>1, <3>2, <3>3, <3>4 DEF StatusInv
  <2> QED BY <2>5, <2>6
<1> QED BY <1>2, <1>3

\* With one worker that takes the blocks in order: once the newest block that changes the status
\* of a proposal is handled, and so was the one that submits it, the table shows that status.
THEOREM StatusesFollow == OneByOne => (Spec => []StatusFollowsBlocks)
<1> SUFFICES ASSUME OneByOne PROVE Spec => []StatusFollowsBlocks
  OBVIOUS
<1>1. Init => StatusInv /\ RowInv
  BY DEF Init, StatusInv, RowInv
<1>2. Typed /\ InOrder /\ StatusInv /\ [Next]_vars => StatusInv'
  BY StatusNext
<1>3. Typed /\ InOrder /\ [Next]_vars => InOrder'
  BY InOrderNext
<1>4. StatusInv /\ RowInv => StatusFollowsBlocks
  <2> SUFFICES ASSUME StatusInv, RowInv, NEW p \in Proposal, NEW h \in StatusChanges(p),
                      \A k \in StatusChanges(p) : k <= h, h \in Handled,
                      NEW k \in Handled, SubmittedAt(p, k)
               PROVE  proposal[p] = PhasesAt(h)[p]
    BY DEF StatusFollowsBlocks
  <2>1. proposal[p] # NoRow
    BY DEF RowInv, Handled
  <2>2. Newest(p, h) /\ h \in block /\ h \notin lost /\ \A w \in Worker : h # job[w].height
    BY DEF Newest, Handled
  <2> QED BY <2>1, <2>2 DEF StatusInv
<1> QED BY <1>1, <1>2, <1>3, <1>4, RowNext, InOrderInit, TypedHolds, PTL DEF Spec
=============================================================================
