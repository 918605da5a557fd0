------------------------------ MODULE FeeGrant ------------------------------
(***************************************************************************)
(* The feegrant module: the fee_grant_allowance table follows the grants   *)
(* of the chain.  MsgGrantAllowance upserts the row of its granter and     *)
(* grantee unless that row is newer, MsgRevokeAllowance and the revocation *)
(* events of the end-block delete it unless it is newer.  A deleted row    *)
(* leaves nothing behind that could stop an older grant.                   *)
(*                                                                         *)
(* For one block the handler of the end-block events runs before the       *)
(* handlers of its messages.  `parse feegrant allowance` handles all       *)
(* messages again, sorted by height, from another process; the node is     *)
(* taken to answer its two queries with all messages there are.            *)
(*                                                                         *)
(* Every message of a block is a transaction of its own.  The fee of a     *)
(* transaction may use an allowance up, which removes it from the chain;   *)
(* no handler looks at that.                                               *)
(***************************************************************************)
EXTENDS Integers, Sequences

CONSTANTS
    Pair,           \* pairs of granter and grantee
    Worker,
    MaxHeight,      \* bound on the chain's length
    MaxMsgs,        \* bound on the feegrant messages of a block
    MaxSkips,       \* bound on the blocks handled later than their successors
    MaxFailures,    \* bound on failing handlers and restarts
    MaxParses,      \* bound on runs of the parse command
    NoRow           \* there is no row

ASSUME BoundsAssumption ==
    /\ MaxHeight \in Nat /\ MaxMsgs \in Nat
    /\ MaxSkips \in Nat /\ MaxFailures \in Nat /\ MaxParses \in Nat
ASSUME NoRowAssumption == NoRow \notin [height: Nat, idx: Nat]

VARIABLES
    chain,      \* blocks: their messages, expired grants and the grants after
    next,       \* the next height of the workers' queue
    skipped,    \* heights that will be handled later
    block,      \* heights stored in the block table
    allowance,  \* fee_grant_allowance: the message a pair's row comes from
    job,        \* the block and the message each worker has come to
    left,       \* removals each worker still has to make for its end-block
    todo,       \* messages the parse command still has to handle
    handled,    \* history: messages and removals applied to the table
    lost,       \* history: heights whose handling a failure cut short
    failures, skips, parses

vars == <<chain, next, skipped, block, allowance, job, left, todo, handled, lost,
          failures, skips, parses>>

Heights == 1..MaxHeight
\* "used" is a transaction whose fee uses an allowance up.
Msg     == [type: {"grant", "revoke", "used"}, pair: Pair]

\* A message of the chain by its place; the end-block follows the messages.
Place   == [height: Heights, idx: 1..(MaxMsgs + 1)]
Row     == [height: Heights, idx: 1..MaxMsgs]
EndBlock == MaxMsgs + 1
Removal == [height: Heights, idx: {EndBlock}, pair: Pair]
Idle    == [height |-> 0, idx |-> 0]

Init ==
    /\ chain = << >>
    /\ next = 1 /\ skipped = {} /\ block = {}
    /\ allowance = [k \in Pair |-> NoRow]
    /\ job = [w \in Worker |-> Idle]
    /\ left = [w \in Worker |-> {}]
    /\ todo = {} /\ handled = {} /\ lost = {}
    /\ failures = 0 /\ skips = 0 /\ parses = 0

-----------------------------------------------------------------------------
(* The chain's feegrant module.                                            *)

GrantsAt(h) == IF h = 0 THEN [k \in Pair |-> NoRow] ELSE chain[h].grants

\* The messages of a block succeed one after the other: a pair that has a grant
\* cannot be granted again, one without a grant cannot be revoked or used up.
Legal(msgs, grants) ==
    \A i \in DOMAIN msgs :
        LET before == {j \in 1..(i - 1) : msgs[j].pair = msgs[i].pair}
            open == IF before = {} THEN grants[msgs[i].pair] # NoRow
                    ELSE \E j \in before : /\ msgs[j].type = "grant"
                                           /\ \A k \in before : k <= j
        IN (msgs[i].type # "grant") <=> open

\* The grants after the messages of block h.
GrantsAfter(h, msgs, grants) ==
    [k \in Pair |->
        LET about == {i \in DOMAIN msgs : msgs[i].pair = k}
        IN IF about = {} THEN grants[k]
           ELSE LET last == CHOOSE i \in about : \A j \in about : j <= i
                IN IF msgs[last].type = "grant"
                   THEN [height |-> h, idx |-> last] ELSE NoRow]

MsgSeqs == UNION {[1..n -> Msg] : n \in 0..MaxMsgs}

\* At the end of the block the chain removes any of its grants, those of the
\* block's own messages included, and reports each in a revoke_feegrant event.
NewBlock ==
    /\ Len(chain) < MaxHeight
    /\ \E msgs \in MsgSeqs :
         LET grants == GrantsAfter(Len(chain) + 1, msgs, GrantsAt(Len(chain)))
         IN \E expired \in SUBSET {k \in Pair : grants[k] # NoRow} :
            /\ Legal(msgs, GrantsAt(Len(chain)))
            /\ chain' = Append(chain,
                    [msgs |-> msgs, expired |-> expired,
                     grants |-> [k \in Pair |->
                                    IF k \in expired THEN NoRow ELSE grants[k]]])
    /\ UNCHANGED <<next, skipped, block, allowance, job, left, todo, handled, lost,
                   failures, skips, parses>>

-----------------------------------------------------------------------------
(* The table.                                                              *)

\* Mutated form of SaveFeeGrantAllowance: the upsert without its WHERE clause.
SaveUnguarded(k, h, i) ==
    allowance' = [allowance EXCEPT ![k] = [height |-> h, idx |-> i]]

\* ON CONFLICT ... DO UPDATE ... WHERE fee_grant_allowance.height <= excluded.height
SaveFeeGrantAllowance(k, h, i) ==
    allowance' = IF allowance[k] # NoRow /\ allowance[k].height > h
                 THEN allowance
                 ELSE [allowance EXCEPT ![k] = [height |-> h, idx |-> i]]

\* Mutated form of DeleteFeeGrantAllowance: a row of the same height survives.
DeleteStrictlyOlder(k, h) ==
    allowance' = IF allowance[k] # NoRow /\ allowance[k].height < h
                 THEN [allowance EXCEPT ![k] = NoRow] ELSE allowance

\* DELETE ... WHERE grantee_address AND granter_address AND height <= $3
DeleteFeeGrantAllowance(k, h) ==
    allowance' = IF allowance[k] # NoRow /\ allowance[k].height <= h
                 THEN [allowance EXCEPT ![k] = NoRow] ELSE allowance

\* HandleMsg knows two types of messages.
HandleMsg(h, i) ==
    LET m == chain[h].msgs[i] IN
    \/ m.type = "grant" /\ SaveFeeGrantAllowance(m.pair, h, i)
    \/ m.type = "revoke" /\ DeleteFeeGrantAllowance(m.pair, h)
    \/ m.type = "used" /\ UNCHANGED allowance

-----------------------------------------------------------------------------
(* The workers.                                                            *)

\* The block is stored, then removeExpiredFeeGrantAllowances goes through the
\* revoke_feegrant events of its end-block.
StartBlock(w, h) ==
    /\ job[w] = Idle
    /\ h <= Len(chain)
    /\ \/ h = next /\ next' = next + 1 /\ UNCHANGED skipped
       \/ h \in skipped /\ skipped' = skipped \ {h} /\ UNCHANGED next
    /\ block' = block \cup {h}
    /\ job' = [job EXCEPT ![w] = [height |-> h, idx |-> EndBlock]]
    /\ left' = [left EXCEPT ![w] = chain[h].expired]
    /\ UNCHANGED <<chain, allowance, todo, handled, lost, failures, skips, parses>>

\* Fetching a block failed: it is queued again, or left to `parse blocks`.
SkipBlock ==
    /\ skips < MaxSkips
    /\ next <= Len(chain)
    /\ next' = next + 1
    /\ skipped' = skipped \cup {next}
    /\ skips' = skips + 1
    /\ UNCHANGED <<chain, block, allowance, job, left, todo, handled, lost, failures,
                   parses>>

\* Mutated form of Following: one message too many.
FollowingPastEnd(h, i) ==
    IF i <= Len(chain[h].msgs) THEN [height |-> h, idx |-> i + 1] ELSE Idle

\* After message i of block h comes message i + 1, if there is one.
Following(h, i) ==
    IF i < Len(chain[h].msgs) THEN [height |-> h, idx |-> i + 1] ELSE Idle

\* The end-block events come first, one DELETE after the other.
RemoveExpiredFeeGrantAllowance(w, k) ==
    LET h == job[w].height IN
    /\ job[w].idx = EndBlock
    /\ k \in left[w]
    /\ DeleteFeeGrantAllowance(k, h)
    /\ left' = [left EXCEPT ![w] = @ \ {k}]
    /\ handled' = handled \cup {[height |-> h, idx |-> EndBlock, pair |-> k]}
    /\ UNCHANGED <<chain, next, skipped, block, job, todo, lost, failures, skips,
                   parses>>

\* The loop over the events is through: the messages follow.
RemovalsDone(w) ==
    /\ job[w].idx = EndBlock
    /\ left[w] = {}
    /\ job' = [job EXCEPT ![w] = Following(@.height, 0)]
    /\ UNCHANGED <<chain, next, skipped, block, allowance, left, todo, handled, lost,
                   failures, skips, parses>>

HandleNextMsg(w) ==
    LET h == job[w].height IN
    /\ job[w].idx \in 1..MaxMsgs
    /\ HandleMsg(h, job[w].idx)
    /\ handled' = handled \cup {job[w]}
    /\ job' = [job EXCEPT ![w] = Following(h, job[w].idx)]
    /\ UNCHANGED <<chain, next, skipped, block, left, todo, lost, failures, skips,
                   parses>>

\* One handler fails; the error is logged and the next message handled.  The
\* first error among the removals ends their loop.
HandlerFails(w) ==
    /\ job[w] # Idle
    /\ failures < MaxFailures
    /\ failures' = failures + 1
    /\ lost' = lost \cup {job[w].height}
    /\ job' = [job EXCEPT ![w] =
                 Following(@.height, IF @.idx = EndBlock THEN 0 ELSE @.idx)]
    /\ left' = [left EXCEPT ![w] = {}]
    /\ UNCHANGED <<chain, next, skipped, block, allowance, todo, handled, skips,
                   parses>>

\* The indexer dies.  The blocks in hand are stored: nothing handles them again.
Crash ==
    /\ failures < MaxFailures
    /\ failures' = failures + 1
    /\ lost' = lost \cup {job[w].height : w \in {v \in Worker : job[v] # Idle}}
    /\ job' = [w \in Worker |-> Idle]
    /\ left' = [w \in Worker |-> {}]
    /\ UNCHANGED <<chain, next, skipped, block, allowance, todo, handled, skips,
                   parses>>

-----------------------------------------------------------------------------
(* callisto parse feegrant allowance                                       *)

ParseStart ==
    /\ todo = {}
    /\ parses < MaxParses
    /\ parses' = parses + 1
    /\ todo' = {l \in Row : l.height <= Len(chain)
                              /\ l.idx \in DOMAIN chain[l.height].msgs}
    /\ UNCHANGED <<chain, next, skipped, block, allowance, job, left, handled, lost,
                   failures, skips>>

\* Grants and revocations come from two queries and are sorted by height alone:
\* the order of the messages of one height is lost.
ParseMsg(l) ==
    /\ l \in todo
    /\ \A m \in todo : l.height <= m.height
    /\ HandleMsg(l.height, l.idx)
    /\ todo' = todo \ {l}
    /\ handled' = handled \cup {l}
    /\ UNCHANGED <<chain, next, skipped, block, job, left, lost, failures, skips,
                   parses>>

WorkerStep(w) ==
    \/ \E h \in Heights : StartBlock(w, h)
    \/ \E k \in Pair : RemoveExpiredFeeGrantAllowance(w, k)
    \/ RemovalsDone(w)
    \/ HandleNextMsg(w)
    \/ HandlerFails(w)

Next ==
    \/ NewBlock
    \/ SkipBlock
    \/ \E w \in Worker : WorkerStep(w)
    \/ Crash
    \/ ParseStart
    \/ \E l \in Row : ParseMsg(l)

Spec == Init /\ [][Next]_vars

-----------------------------------------------------------------------------
TypeOK ==
    /\ next \in 1..(MaxHeight + 1)
    /\ skipped \subseteq Heights
    /\ block \subseteq 1..Len(chain)
    /\ allowance \in [Pair -> Row \cup {NoRow}]
    /\ job \in [Worker -> Place \cup {Idle}]
    /\ \A w \in Worker : job[w].idx \in 1..MaxMsgs
            => job[w].idx \in DOMAIN chain[job[w].height].msgs
    /\ left \in [Worker -> SUBSET Pair]
    /\ todo \subseteq Row
    /\ handled \subseteq Row \cup Removal
    /\ lost \subseteq block

\* Handled grants and revocations of a pair.
Grants(k) ==
    {l \in handled : l.idx # EndBlock /\ chain[l.height].msgs[l.idx]
                                            = [type |-> "grant", pair |-> k]}

Revocations(k) ==
    {l \in handled :
        IF l.idx = EndBlock THEN l.pair = k
        ELSE chain[l.height].msgs[l.idx] = [type |-> "revoke", pair |-> k]}

\* The parse command loses the order of the messages of one height.
Before(l, m) ==
    l.height < m.height \/ (l.height = m.height /\ l.idx < m.idx /\ parses = 0)

\* In whatever order blocks are handled, and whatever is lost on the way, a
\* grant that is newer than every other handled message about its pair is the
\* one in the table: the deleted rows leave no trace, the guards of upsert and
\* delete suffice.  Once the parse command has run, newer means higher up.
NewestGrantPresent ==
    \A k \in Pair : \A g \in Grants(k) :
        (\A l \in (Grants(k) \cup Revocations(k)) \ {g} : Before(l, g))
            => allowance[k] = g

\* The heights handled completely.
Done == block \ (lost \cup {job[w].height : w \in Worker})

\* Where two messages stand on the chain.
Earlier(l, m) ==
    l.height < m.height \/ (l.height = m.height /\ l.idx < m.idx)

\* The messages about a pair, up to block h, that the handlers know.
Known(k, h) ==
    {l \in Row : /\ l.height <= h
                /\ l.idx \in DOMAIN chain[l.height].msgs
                /\ chain[l.height].msgs[l.idx] \in
                       {[type |-> "grant", pair |-> k], [type |-> "revoke", pair |-> k]}}

\* The grant g of a pair is gone by the end of block h in a way the handlers do
\* not see: the end of its own block removed it, which was handled before the
\* grant, or the fee of a later transaction used it up.
GoneUnseen(k, g, h) ==
    \/ k \in chain[g.height].expired
    \/ \E l \in Row : /\ l.height <= h
                      /\ l.idx \in DOMAIN chain[l.height].msgs
                      /\ chain[l.height].msgs[l.idx] = [type |-> "used", pair |-> k]
                      /\ Earlier(g, l)

\* With the blocks handled in order and no failure, between any two blocks the
\* table has every grant of the chain, and a row the chain does not have is the
\* last grant of its pair, gone unseen, with no message about the pair since.
MirrorsChain ==
    \A h \in Done :
        (block = 1..h /\ Done = block /\ skips = 0 /\ parses = 0) =>
            \A k \in Pair :
                \/ allowance[k] = GrantsAt(h)[k]
                \/ /\ GrantsAt(h)[k] = NoRow
                   /\ allowance[k] \in Known(k, h)
                   /\ \A l \in Known(k, h) \ {allowance[k]} : Earlier(l, allowance[k])
                   /\ GoneUnseen(k, allowance[k], h)
=============================================================================
