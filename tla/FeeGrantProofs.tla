--------------------------- MODULE FeeGrantProofs ---------------------------
(***************************************************************************)
(* Proofs about the feegrant table, for any accounts, any number of        *)
(* workers and every bound.                                                *)
(***************************************************************************)
EXTENDS FeeGrant, SequenceTheorems, WellFoundedInduction, TLAPS

Blocks == {chain[h] : h \in 1..Len(chain)}

\* A place of the chain where a message is.
InChain(l) == l.height \in 1..Len(chain) /\ l.idx \in DOMAIN chain[l.height].msgs

\* The chain is a sequence of blocks with at most MaxMsgs messages each.
ChainOK ==
    /\ chain \in Seq(Blocks)
    /\ Len(chain) <= MaxHeight
    /\ \A h \in 1..Len(chain) :
          chain[h].msgs \in MsgSeqs /\ chain[h].expired \subseteq Pair

\* What is handled, or waits for the parse command, is on the chain.
PlacesOK ==
    /\ \A l \in handled : \/ (l.height \in 1..Len(chain) /\ l.idx = EndBlock)
                          \/ InChain(l)
    /\ \A l \in todo : InChain(l)

\* A height is started once: it leaves the queue, or what was skipped.
StartedOnce ==
    /\ \A h \in block : h < next /\ h \notin skipped
    /\ \A h \in skipped : h < next
    /\ \A w \in Worker : job[w] # Idle => job[w].height \in block
    /\ \A v, w \in Worker :
          job[v] # Idle /\ job[v].height = job[w].height => v = w

\* Until the parse command runs, a worker has handled of its block some
\* removals of the end-block and, after them, the messages before the one it
\* has come to.
InOrder ==
    parses = 0 =>
        /\ todo = {}
        /\ \A l \in handled :
              /\ l.height \in block
              /\ \A w \in Worker :
                    job[w] # Idle /\ job[w].height = l.height =>
                        \/ l.idx = EndBlock
                        \/ job[w].idx # EndBlock /\ l.idx < job[w].idx

\* Every row comes from a handled grant.
Backed == \A k \in Pair : allowance[k] # NoRow => allowance[k] \in Grants(k)

IInv ==
    /\ TypeOK /\ ChainOK /\ PlacesOK /\ StartedOnce /\ InOrder /\ Backed
    /\ NewestGrantPresent
    /\ parses \in Nat

-----------------------------------------------------------------------------
(* Sequences of messages, and the chain.                                   *)

LEMMA MsgSeqFacts ==
    ASSUME NEW s \in MsgSeqs
    PROVE  /\ Len(s) \in 0..MaxMsgs
           /\ DOMAIN s = 1..Len(s)
           /\ \A i \in DOMAIN s : s[i] \in Msg
<1>1. PICK n \in 0..MaxMsgs : s \in [1..n -> Msg]
  BY DEF MsgSeqs
<1>2. s \in Seq(Msg)
  BY <1>1, SeqDef, BoundsAssumption
<1>3. Len(s) = n
  BY <1>1, <1>2, LenProperties, BoundsAssumption
<1> QED BY <1>1, <1>3

LEMMA ChainGrows ==
    ASSUME ChainOK, NEW b, chain' = Append(chain, b)
    PROVE  /\ chain' \in Seq(Blocks')
           /\ Len(chain') = Len(chain) + 1
           /\ \A h \in 1..Len(chain) : chain'[h] = chain[h]
           /\ chain'[Len(chain) + 1] = b
<1> DEFINE S == Blocks \cup {b}
<1>1. chain \in Seq(S)
  BY SeqMonotonic DEF ChainOK
<1>2. /\ chain' \in Seq(S)
      /\ Len(chain') = Len(chain) + 1
      /\ \A h \in 1..Len(chain) : chain'[h] = chain[h]
      /\ chain'[Len(chain) + 1] = b
  BY <1>1, AppendProperties
<1>3. S \subseteq Blocks'
  BY <1>1, <1>2, LenProperties DEF Blocks
<1> QED BY <1>2, <1>3, SeqMonotonic

-----------------------------------------------------------------------------
(* What is known of a message is not changed by new blocks.                *)

LEMMA HandledStays ==
    ASSUME IInv, NEW b, chain' = Append(chain, b), handled' = handled
    PROVE  \A k \in Pair : Grants(k)' = Grants(k) /\ Revocations(k)' = Revocations(k)
<1>1. \A l \in handled : chain'[l.height] = chain[l.height]
  BY ChainGrows DEF IInv, PlacesOK, InChain
<1> QED BY <1>1 DEF Grants, Revocations

-----------------------------------------------------------------------------
(* Handling one message, by a worker or by the parse command.              *)

LEMMA MessageKeepsNewest ==
    ASSUME IInv, NEW l \in Row, InChain(l),
           HandleMsg(l.height, l.idx),
           handled' = handled \cup {l}, UNCHANGED <<chain, parses>>,
           parses = 0 => \A m \in handled :
               m.height = l.height => m.idx = EndBlock \/ m.idx < l.idx
    PROVE  /\ allowance' \in [Pair -> Row \cup {NoRow}]
           /\ Backed' /\ NewestGrantPresent'
<1> DEFINE msg == chain[l.height].msgs[l.idx]
           row == [height |-> l.height, idx |-> l.idx]
<1>1. msg \in Msg /\ l = row /\ l.idx # EndBlock
  BY MsgSeqFacts, BoundsAssumption DEF IInv, ChainOK, InChain, Row, EndBlock
<1>2. msg.pair \in Pair
  BY <1>1 DEF Msg
<1>3. \A k \in Pair : k # msg.pair =>
         /\ Grants(k)' = Grants(k) /\ Revocations(k)' = Revocations(k)
         /\ allowance'[k] = allowance[k]
  <2> SUFFICES ASSUME NEW k \in Pair, k # msg.pair
               PROVE  /\ Grants(k)' = Grants(k) /\ Revocations(k)' = Revocations(k)
                      /\ allowance'[k] = allowance[k]
    OBVIOUS
  <2>1. msg # [type |-> "grant", pair |-> k] /\ msg # [type |-> "revoke", pair |-> k]
    BY <1>1 DEF Msg
  <2>2. Grants(k)' = Grants(k) /\ Revocations(k)' = Revocations(k)
    BY <1>1, <2>1 DEF Grants, Revocations, EndBlock
  <2>3. allowance'[k] = allowance[k]
    BY <1>2 DEF IInv, TypeOK, HandleMsg, SaveFeeGrantAllowance, DeleteFeeGrantAllowance
  <2> QED BY <2>2, <2>3
<1>0. /\ l.height \in Nat /\ \A g \in handled : g.height \in Nat
      /\ \A k \in Pair : \A g \in Grants(k) : g # NoRow
  BY BoundsAssumption, NoRowAssumption
     DEF IInv, TypeOK, Row, Removal, Heights, EndBlock, Grants
<1>4. ASSUME NEW g \in Grants(msg.pair), Before(l, g) PROVE l.height < g.height
  BY <1>4, <1>1 DEF Before, Grants, IInv, PlacesOK, InChain, TypeOK, Row, Removal
<1>5. UNCHANGED parses /\ \A m, g : Before(m, g)' <=> Before(m, g)
  BY DEF Before
<1>6. CASE msg.type = "grant"
  <2>1. msg = [type |-> "grant", pair |-> msg.pair]
    BY <1>1, <1>6 DEF Msg
  <2>2. /\ Grants(msg.pair)' = Grants(msg.pair) \cup {l}
        /\ Revocations(msg.pair)' = Revocations(msg.pair)
    BY <1>1, <2>1 DEF Grants, Revocations
  <2>3. SaveFeeGrantAllowance(msg.pair, l.height, l.idx)
    BY <1>6 DEF HandleMsg
  <2>4. allowance' \in [Pair -> Row \cup {NoRow}]
    BY <1>1, <1>2, <2>3 DEF SaveFeeGrantAllowance, IInv, TypeOK
  <2>5. Backed'
    BY <1>1, <1>2, <1>3, <2>2, <2>3 DEF Backed, SaveFeeGrantAllowance, IInv, TypeOK
  <2>6. ASSUME NEW g \in Grants(msg.pair)',
               \A m \in (Grants(msg.pair)' \cup Revocations(msg.pair)') \ {g} : Before(m, g)
        PROVE  allowance'[msg.pair] = g
    <3>1. CASE g = l
      <4>1. ASSUME allowance[msg.pair] # NoRow, allowance[msg.pair].height > l.height
            PROVE  FALSE
        <5> DEFINE old == allowance[msg.pair]
        <5>1. old \in Grants(msg.pair) /\ old \in handled /\ old.height > l.height
          BY <1>2, <4>1 DEF IInv, Backed, Grants
        <5>2. old # l
          BY <5>1, <1>0
        <5>3. Before(old, l)
          BY <2>2, <2>6, <3>1, <5>1, <5>2
        <5> QED BY <1>0, <5>1, <5>3 DEF Before
      <4> QED BY <1>1, <1>2, <2>3, <3>1, <4>1
              DEF SaveFeeGrantAllowance, IInv, TypeOK
    <3>2. CASE g # l
      <4>1. allowance[msg.pair] = g
        BY <1>2, <2>2, <2>6, <3>2 DEF IInv, NewestGrantPresent
      <4>2. l.height < g.height
        BY <1>4, <2>2, <2>6, <3>2
      <4>3. g # NoRow /\ g.height > l.height
        BY <1>0, <1>2, <2>2, <3>2, <4>2 DEF Grants
      <4> QED BY <2>3, <4>1, <4>3 DEF SaveFeeGrantAllowance
    <3> QED BY <3>1, <3>2
  <2>7. NewestGrantPresent'
    BY <1>3, <1>5, <2>6 DEF NewestGrantPresent, IInv
  <2> QED BY <2>4, <2>5, <2>7
<1>7. CASE msg.type = "revoke"
  <2>1. msg = [type |-> "revoke", pair |-> msg.pair]
    BY <1>1, <1>7 DEF Msg
  <2>2. /\ Grants(msg.pair)' = Grants(msg.pair)
        /\ Revocations(msg.pair)' = Revocations(msg.pair) \cup {l}
        /\ l \notin Grants(msg.pair)
    BY <1>1, <2>1 DEF Grants, Revocations
  <2>3. DeleteFeeGrantAllowance(msg.pair, l.height)
    BY <1>7 DEF HandleMsg
  <2>4. /\ allowance' \in [Pair -> Row \cup {NoRow}]
        /\ allowance'[msg.pair] \in {allowance[msg.pair], NoRow}
        /\ allowance[msg.pair] # NoRow /\ ~(allowance[msg.pair].height <= l.height)
              => allowance'[msg.pair] = allowance[msg.pair]
    BY <1>2, <2>3 DEF DeleteFeeGrantAllowance, IInv, TypeOK
  <2>5. Backed'
    BY <1>2, <1>3, <2>2, <2>4 DEF Backed, IInv
  <2>6. ASSUME NEW g \in Grants(msg.pair)',
               \A m \in (Grants(msg.pair)' \cup Revocations(msg.pair)') \ {g} : Before(m, g)
        PROVE  allowance'[msg.pair] = g
    <3>1. allowance[msg.pair] = g
      BY <1>2, <2>2, <2>6 DEF IInv, NewestGrantPresent
    <3>2. l.height < g.height /\ g \in handled
      BY <1>4, <2>2, <2>6 DEF Grants
    <3> QED BY <1>0, <2>4, <3>1, <3>2
  <2>7. NewestGrantPresent'
    BY <1>3, <1>5, <2>6 DEF NewestGrantPresent, IInv
  <2> QED BY <2>4, <2>5, <2>7
<1>8. CASE msg.type = "used"
  <2>1. /\ msg # [type |-> "grant", pair |-> msg.pair]
        /\ msg # [type |-> "revoke", pair |-> msg.pair]
    BY <1>8
  <2>2. /\ Grants(msg.pair)' = Grants(msg.pair)
        /\ Revocations(msg.pair)' = Revocations(msg.pair)
    BY <1>1, <2>1 DEF Grants, Revocations
  <2>3. allowance' = allowance
    BY <1>8 DEF HandleMsg
  <2>4. Backed' /\ NewestGrantPresent'
    BY <1>3, <1>5, <2>2, <2>3 DEF Backed, NewestGrantPresent, IInv
  <2> QED BY <2>3, <2>4 DEF IInv, TypeOK
<1> QED BY <1>1, <1>6, <1>7, <1>8 DEF Msg

-----------------------------------------------------------------------------
(* One removal of the end-block of height h.                               *)

LEMMA RemovalKeepsNewest ==
    ASSUME IInv, NEW h \in 1..Len(chain), NEW x \in Pair,
           DeleteFeeGrantAllowance(x, h),
           handled' = handled \cup {[height |-> h, idx |-> EndBlock, pair |-> x]},
           UNCHANGED <<chain, parses>>
    PROVE  /\ allowance' \in [Pair -> Row \cup {NoRow}]
           /\ Backed' /\ NewestGrantPresent'
<1> DEFINE e == [height |-> h, idx |-> EndBlock, pair |-> x]
<1>1. h \in Nat /\ EndBlock \in Nat /\ \A k \in Pair : \A g \in Grants(k) :
          /\ g # NoRow /\ g.height \in Nat
          /\ g.idx \in Nat /\ ~(EndBlock < g.idx)
  BY BoundsAssumption, NoRowAssumption
     DEF IInv, ChainOK, TypeOK, Row, Removal, Heights, EndBlock, Grants
<1>2. \A k \in Pair :
         /\ Grants(k)' = Grants(k)
         /\ Revocations(k) \subseteq Revocations(k)'
         /\ k = x => e \in Revocations(k)'
  BY DEF Grants, Revocations
<1>3. allowance' \in [Pair -> Row \cup {NoRow}]
  BY DEF DeleteFeeGrantAllowance, IInv, TypeOK
<1>4. \A k \in Pair :
         /\ allowance'[k] \in {allowance[k], NoRow}
         /\ k # x => allowance'[k] = allowance[k]
         /\ allowance[k] # NoRow /\ ~(allowance[k].height <= h)
              => allowance'[k] = allowance[k]
  BY DEF DeleteFeeGrantAllowance, IInv, TypeOK
<1>5. Backed'
  BY <1>2, <1>4 DEF Backed, IInv
<1>6. ASSUME NEW k \in Pair, NEW g \in Grants(k)',
             \A m \in (Grants(k)' \cup Revocations(k)') \ {g} : Before(m, g)'
      PROVE  allowance'[k] = g
  <2>1. \A m \in (Grants(k) \cup Revocations(k)) \ {g} : Before(m, g)
    BY <1>2, <1>6 DEF Before
  <2>2. allowance[k] = g /\ g \in Grants(k) /\ g.idx # EndBlock
    BY <1>2, <2>1 DEF IInv, NewestGrantPresent, Grants
  <2>3. CASE k = x
    <3>1. Before(e, g)
      BY <1>2, <1>6, <2>2, <2>3 DEF Before
    <3>2. h < g.height
      BY <1>1, <2>2, <3>1 DEF Before
    <3> QED BY <1>1, <1>4, <2>2, <3>2
  <2> QED BY <1>4, <2>2, <2>3
<1>7. NewestGrantPresent'
  BY <1>6 DEF NewestGrantPresent
<1> QED BY <1>3, <1>5, <1>7

-----------------------------------------------------------------------------
(* What a worker does next.                                                *)

LEMMA FollowingFacts ==
    ASSUME ChainOK, NEW h \in 1..Len(chain), NEW i \in 0..MaxMsgs
    PROVE  \/ Following(h, i) = Idle
           \/ /\ Following(h, i) = [height |-> h, idx |-> i + 1]
              /\ i + 1 \in 1..MaxMsgs /\ i + 1 \in DOMAIN chain[h].msgs
<1>1. chain[h].msgs \in MsgSeqs
  BY DEF ChainOK
<1> QED BY <1>1, MsgSeqFacts, BoundsAssumption DEF Following

\* A worker at a place of the chain.
LEMMA AtWork ==
    ASSUME IInv, NEW w \in Worker, job[w] # Idle
    PROVE  /\ job[w] \in Place /\ job[w].height \in 1..Len(chain)
           /\ job[w] = [height |-> job[w].height, idx |-> job[w].idx]
           /\ job[w].height \in block
           /\ job[w].idx \in 1..MaxMsgs => job[w] \in Row /\ InChain(job[w])
BY DEF IInv, TypeOK, StartedOnce, Place, Row, InChain

LEMMA MovingOn ==
    ASSUME IInv, NEW w \in Worker, job[w] # Idle,
           NEW i \in 0..MaxMsgs, (job[w].idx = EndBlock /\ i = 0) \/ job[w].idx = i,
           job' = [job EXCEPT ![w] = Following(job[w].height, i)],
           handled' \subseteq handled \cup {job[w]},
           UNCHANGED <<chain, next, skipped, block, todo, parses>>
    PROVE  /\ job' \in [Worker -> Place \cup {Idle}]
           /\ (\A v \in Worker : job[v].idx \in 1..MaxMsgs
                   => job[v].idx \in DOMAIN chain[job[v].height].msgs)'
           /\ StartedOnce' /\ InOrder'
<1> DEFINE h == job[w].height
           to == Following(h, i)
<1>1. h \in 1..Len(chain) /\ h \in Heights /\ h \in block /\ job[w] \in Place
  BY AtWork, BoundsAssumption DEF Place
<1>2. \/ to = Idle
      \/ /\ to = [height |-> h, idx |-> i + 1]
         /\ i + 1 \in 1..MaxMsgs /\ i + 1 \in DOMAIN chain[h].msgs
  BY <1>1, FollowingFacts DEF IInv
<1>3. to \in Place \cup {Idle}
  BY <1>1, <1>2, BoundsAssumption DEF Place
<1>4. /\ job' \in [Worker -> Place \cup {Idle}] /\ job'[w] = to
      /\ \A v \in Worker \ {w} : job'[v] = job[v]
  BY <1>3 DEF IInv, TypeOK
<1>5. (\A v \in Worker : job[v].idx \in 1..MaxMsgs
           => job[v].idx \in DOMAIN chain[job[v].height].msgs)'
  BY <1>2, <1>4, BoundsAssumption DEF IInv, TypeOK, Idle
<1>6. StartedOnce'
  <2>1. \A v \in Worker : job'[v] # Idle => job[v] # Idle /\ job'[v].height = job[v].height
    BY <1>2, <1>4
  <2>2. \A v \in Worker : job'[v] # Idle => job'[v].height \in 1..Len(chain)
    BY <2>1, AtWork
  <2>3. Idle.height = 0 /\ Len(chain) \in Int
    BY DEF Idle, IInv, ChainOK
  <2>4. \A u, v \in Worker : job'[v] # Idle /\ job'[v].height = job'[u].height
             => job'[u] # Idle
    BY <2>2, <2>3
  <2>5. \A u, v \in Worker : job'[v] # Idle /\ job'[v].height = job'[u].height
             => u = v
    BY <2>1, <2>4 DEF IInv, StartedOnce
  <2> QED BY <2>1, <2>5 DEF IInv, StartedOnce
<1>7. InOrder'
  <2> SUFFICES ASSUME parses = 0 PROVE InOrder'
    BY DEF InOrder
  <2>1. todo' = {}
    BY DEF IInv, InOrder
  <2>2. ASSUME NEW l \in handled', NEW v \in Worker,
               job'[v] # Idle, job'[v].height = l.height
        PROVE  l.idx = EndBlock \/ (job'[v].idx # EndBlock /\ l.idx < job'[v].idx)
    <3>1. CASE v = w
      <4>1. to = [height |-> h, idx |-> i + 1] /\ i + 1 \in 1..MaxMsgs
        BY <1>2, <1>4, <2>2, <3>1
      <4>2. job'[v].idx # EndBlock /\ job'[v].idx = i + 1 /\ l.height = h
        BY <1>4, <2>2, <3>1, <4>1, BoundsAssumption DEF EndBlock
      <4>3. CASE l = job[w]
        BY <4>2, <4>3
      <4>4. CASE l \in handled
        <5>1. l.idx = EndBlock \/ (job[w].idx # EndBlock /\ l.idx < job[w].idx)
          BY <4>2, <4>4 DEF IInv, InOrder
        <5>2. l.idx \in Int
          BY <4>4, BoundsAssumption DEF IInv, TypeOK, Row, Removal, EndBlock
        <5> QED BY <4>2, <5>1, <5>2
      <4> QED BY <2>2, <4>3, <4>4
    <3>2. CASE v # w
      <4>1. job[v] # Idle /\ job[v].height = l.height /\ job'[v] = job[v]
        BY <1>4, <2>2, <3>2
      <4>2. l # job[w]
        BY <3>2, <4>1 DEF IInv, StartedOnce
      <4> QED BY <2>2, <4>1, <4>2 DEF IInv, InOrder
    <3> QED BY <3>1, <3>2
  <2>3. \A l \in handled' : l.height \in block'
    BY <1>1 DEF IInv, InOrder
  <2> QED BY <2>1, <2>2, <2>3 DEF InOrder
<1> QED BY <1>4, <1>5, <1>6, <1>7

-----------------------------------------------------------------------------
(* Each action preserves the invariant.                                    *)

LEMMA IInvInit == Init => IInv
<1> SUFFICES ASSUME Init PROVE IInv
  OBVIOUS
<1> USE BoundsAssumption DEF Init
<1>1. chain \in Seq(Blocks) /\ Len(chain) = 0
  BY DEF Blocks
<1>2. TypeOK
  BY <1>1 DEF TypeOK, Idle
<1>3. ChainOK /\ PlacesOK /\ StartedOnce /\ InOrder
  BY <1>1 DEF ChainOK, PlacesOK, StartedOnce, InOrder
<1>4. Backed /\ NewestGrantPresent
  BY DEF Backed, NewestGrantPresent, Grants
<1> QED BY <1>2, <1>3, <1>4 DEF IInv

LEMMA NewBlockPreserves == IInv /\ NewBlock => IInv'
<1> SUFFICES ASSUME IInv, NewBlock PROVE IInv'
  OBVIOUS
<1>0. PICK msgs \in MsgSeqs : \E b :
         chain' = Append(chain, b) /\ b.msgs = msgs /\ b.expired \subseteq Pair
  BY DEF NewBlock
<1>1. PICK b : chain' = Append(chain, b) /\ b.msgs = msgs /\ b.expired \subseteq Pair
  BY <1>0
<1>2. /\ chain' \in Seq(Blocks') /\ Len(chain) \in Nat
      /\ Len(chain') = Len(chain) + 1
      /\ \A h \in 1..Len(chain) : chain'[h] = chain[h]
      /\ chain'[Len(chain) + 1].msgs = msgs
      /\ chain'[Len(chain) + 1].expired \subseteq Pair
  BY <1>1, ChainGrows DEF IInv, ChainOK
<1>3. ChainOK'
  <2>1. Len(chain') <= MaxHeight
    BY <1>2, BoundsAssumption DEF NewBlock
  <2>2. ASSUME NEW h \in 1..Len(chain')
        PROVE  chain'[h].msgs \in MsgSeqs /\ chain'[h].expired \subseteq Pair
    <3>1. h \in 1..Len(chain) \/ h = Len(chain) + 1
      BY <1>2
    <3> QED BY <1>2, <3>1 DEF IInv, ChainOK
  <2> QED BY <1>2, <2>1, <2>2 DEF ChainOK, MsgSeqs, Msg
<1>4. TypeOK'
  <2>1. \A w \in Worker : job[w].idx \in 1..MaxMsgs
           => job[w].height \in 1..Len(chain)
    <3>1. ASSUME NEW w \in Worker, job[w].idx \in 1..MaxMsgs PROVE job[w] # Idle
      BY <3>1 DEF Idle
    <3> QED BY <3>1, AtWork
  <2> QED BY <1>2, <2>1 DEF IInv, TypeOK, NewBlock, Row, Removal, Place, Heights, Idle
<1>5. PlacesOK'
  BY <1>2 DEF IInv, PlacesOK, InChain, NewBlock, EndBlock
<1>6. StartedOnce' /\ InOrder'
  BY DEF IInv, StartedOnce, InOrder, NewBlock, EndBlock, Idle
<1>7. \A k \in Pair : Grants(k)' = Grants(k) /\ Revocations(k)' = Revocations(k)
  BY <1>1, HandledStays DEF NewBlock
<1>8. (Backed /\ NewestGrantPresent)'
  BY <1>7 DEF IInv, Backed, NewestGrantPresent, Before, NewBlock
<1> QED BY <1>3, <1>4, <1>5, <1>6, <1>8 DEF IInv, NewBlock

\* Steps that leave the chain, the table and its history alone.
LEMMA TableUntouched ==
    ASSUME IInv, UNCHANGED <<chain, allowance, handled>>,
           parses' = parses \/ parses' = parses + 1
    PROVE  /\ ChainOK' /\ Backed' /\ NewestGrantPresent' /\ parses' \in Nat
           /\ (\A l \in handled : \/ (l.height \in 1..Len(chain) /\ l.idx = EndBlock)
                                   \/ InChain(l))'
<1>1. ChainOK' /\ parses' \in Nat
  BY DEF IInv, ChainOK, Blocks, MsgSeqs, Msg
<1>2. \A k : Grants(k)' = Grants(k) /\ Revocations(k)' = Revocations(k)
  BY DEF Grants, Revocations, EndBlock
<1>3. \A l, m : Before(l, m)' => Before(l, m)
  BY DEF IInv, Before
<1>4. Backed' /\ NewestGrantPresent'
  BY <1>2, <1>3 DEF IInv, Backed, NewestGrantPresent
<1> QED BY <1>1, <1>4 DEF IInv, PlacesOK, InChain, EndBlock

LEMMA StartPreserves ==
    ASSUME IInv, NEW w \in Worker, NEW h \in Heights, StartBlock(w, h)
    PROVE  IInv'
<1> USE BoundsAssumption DEF StartBlock
<1>1. h \in 1..Len(chain) /\ h \notin block
  BY DEF IInv, StartedOnce, Heights, ChainOK
<1>2. /\ job'[w] = [height |-> h, idx |-> EndBlock]
      /\ [height |-> h, idx |-> EndBlock] \in Place
      /\ \A v \in Worker \ {w} : job'[v] = job[v]
  BY DEF IInv, TypeOK, Place, EndBlock
<1>3. TypeOK'
  <2>1. next' \in 1..(MaxHeight + 1) /\ skipped' \subseteq Heights
    BY DEF IInv, TypeOK, Heights
  <2>2. job' \in [Worker -> Place \cup {Idle}] /\ EndBlock \notin 1..MaxMsgs
    BY <1>2 DEF IInv, TypeOK, EndBlock
  <2>3. left' \in [Worker -> SUBSET Pair]
    BY <1>1 DEF IInv, TypeOK, ChainOK
  <2> QED BY <1>1, <1>2, <2>1, <2>2, <2>3 DEF IInv, TypeOK
<1>4. StartedOnce'
  <2>0. /\ next \in Int /\ h < next' /\ h \notin skipped'
        /\ skipped' \subseteq skipped /\ next' \in {next, next + 1}
    BY DEF IInv, StartedOnce, TypeOK, Heights
  <2>1. \A g \in block' : g < next' /\ g \notin skipped'
    <3>1. \A g \in block : g \in Int /\ g < next /\ g \notin skipped
      BY DEF IInv, StartedOnce, TypeOK
    <3> QED BY <2>0, <3>1
  <2>2. \A g \in skipped' : g < next'
    <3>1. \A g \in skipped : g \in Int /\ g < next
      BY DEF IInv, StartedOnce, TypeOK, Heights
    <3> QED BY <2>0, <3>1
  <2>3. \A v \in Worker : job'[v] # Idle => job'[v].height \in block'
    BY <1>2 DEF IInv, StartedOnce
  <2>4. \A v \in Worker \ {w} : job[v] = Idle \/ job[v].height \in block
    BY DEF IInv, StartedOnce
  <2>5. \A v \in Worker \ {w} : job'[v].height # h
    BY <1>1, <1>2, <2>4 DEF Idle
  <2>6. \A u, v \in Worker :
           job'[v] # Idle /\ job'[v].height = job'[u].height => u = v
    BY <1>2, <2>5 DEF IInv, StartedOnce
  <2> QED BY <2>1, <2>2, <2>3, <2>6 DEF StartedOnce
<1>5. InOrder'
  BY <1>1, <1>2 DEF IInv, InOrder, EndBlock, Idle
<1> QED BY <1>3, <1>4, <1>5, TableUntouched DEF IInv, PlacesOK, InChain

LEMMA MessagePreserves ==
    ASSUME IInv, NEW w \in Worker, HandleNextMsg(w)
    PROVE  IInv'
<1> DEFINE l == job[w]
<1>0. l # Idle /\ l.idx \in 1..MaxMsgs
  BY DEF HandleNextMsg, Idle
<1>1. l \in Row /\ InChain(l) /\ l \in Place
  BY <1>0, AtWork
<1>2. parses = 0 => \A m \in handled :
         m.height = l.height => m.idx = EndBlock \/ m.idx < l.idx
  BY <1>0 DEF IInv, InOrder
<1>3. /\ allowance' \in [Pair -> Row \cup {NoRow}]
      /\ Backed' /\ NewestGrantPresent'
  BY <1>1, <1>2, MessageKeepsNewest DEF HandleNextMsg
<1>4. /\ job' \in [Worker -> Place \cup {Idle}]
      /\ (\A v \in Worker : job[v].idx \in 1..MaxMsgs
              => job[v].idx \in DOMAIN chain[job[v].height].msgs)'
      /\ StartedOnce' /\ InOrder'
  <2>1. l.idx \in 0..MaxMsgs
    BY <1>0, BoundsAssumption
  <2>2. /\ job' = [job EXCEPT ![w] = Following(job[w].height, l.idx)]
        /\ handled' \subseteq handled \cup {job[w]}
        /\ UNCHANGED <<chain, next, skipped, block, todo, parses>>
    BY DEF HandleNextMsg
  <2> QED BY <1>0, <2>1, <2>2, MovingOn
<1>5. TypeOK'
  BY <1>1, <1>3, <1>4 DEF IInv, TypeOK, HandleNextMsg
<1>6. ChainOK' /\ PlacesOK'
  BY <1>1 DEF IInv, ChainOK, PlacesOK, InChain, HandleNextMsg, Blocks, MsgSeqs,
              Msg, EndBlock
<1> QED BY <1>3, <1>4, <1>5, <1>6 DEF IInv, HandleNextMsg

LEMMA RemovalPreserves ==
    ASSUME IInv, NEW w \in Worker, NEW k \in Pair, RemoveExpiredFeeGrantAllowance(w, k)
    PROVE  IInv'
<1> USE DEF RemoveExpiredFeeGrantAllowance
<1>1. /\ job[w] # Idle /\ job[w] \in Place /\ job[w].height \in 1..Len(chain)
      /\ job[w].idx = EndBlock /\ job[w].height \in block
  <2>1. job[w] # Idle
    BY BoundsAssumption DEF Idle, EndBlock
  <2> QED BY <2>1, AtWork
<1>2. /\ allowance' \in [Pair -> Row \cup {NoRow}]
      /\ Backed' /\ NewestGrantPresent'
  BY <1>1, RemovalKeepsNewest
<1>3. TypeOK'
  BY <1>1, <1>2 DEF IInv, TypeOK, Place, Removal
<1>4. ChainOK' /\ PlacesOK'
  BY <1>1 DEF IInv, ChainOK, PlacesOK, InChain, Blocks, MsgSeqs, Msg, EndBlock
<1>5. StartedOnce' /\ InOrder'
  BY <1>1 DEF IInv, StartedOnce, InOrder, EndBlock, Idle
<1> QED BY <1>2, <1>3, <1>4, <1>5 DEF IInv

LEMMA RemovalsDonePreserves ==
    ASSUME IInv, NEW w \in Worker, RemovalsDone(w)
    PROVE  IInv'
<1> USE DEF RemovalsDone
<1>1. job[w] # Idle
  BY BoundsAssumption DEF Idle, EndBlock
<1>2. /\ job' \in [Worker -> Place \cup {Idle}]
      /\ (\A v \in Worker : job[v].idx \in 1..MaxMsgs
              => job[v].idx \in DOMAIN chain[job[v].height].msgs)'
      /\ StartedOnce' /\ InOrder'
  <2>1. 0 \in 0..MaxMsgs /\ job[w].idx = EndBlock
    BY BoundsAssumption
  <2>2. /\ job' = [job EXCEPT ![w] = Following(job[w].height, 0)]
        /\ handled' \subseteq handled \cup {job[w]}
        /\ UNCHANGED <<chain, next, skipped, block, todo, parses>>
    BY DEF IInv, TypeOK
  <2> HIDE DEF RemovalsDone
  <2> QED BY <1>1, <2>1, <2>2, MovingOn
<1>3. TypeOK'
  BY <1>2 DEF IInv, TypeOK
<1> QED BY <1>2, <1>3, TableUntouched DEF IInv, PlacesOK, InChain

LEMMA FailurePreserves ==
    ASSUME IInv, NEW w \in Worker, HandlerFails(w)
    PROVE  IInv'
<1> USE DEF HandlerFails
<1> DEFINE i == IF job[w].idx = EndBlock THEN 0 ELSE job[w].idx
<1>0. job[w] # Idle /\ job[w].height \in block /\ job[w] \in Place
  BY AtWork
<1>1. i \in 0..MaxMsgs /\ ((job[w].idx = EndBlock /\ i = 0) \/ job[w].idx = i)
  BY <1>0, BoundsAssumption DEF EndBlock, Place
<1>2. job' = [job EXCEPT ![w] = Following(job[w].height, i)]
  BY DEF IInv, TypeOK
<1>3. /\ job' \in [Worker -> Place \cup {Idle}]
      /\ (\A v \in Worker : job[v].idx \in 1..MaxMsgs
              => job[v].idx \in DOMAIN chain[job[v].height].msgs)'
      /\ StartedOnce' /\ InOrder'
  <2>1. /\ handled' \subseteq handled \cup {job[w]}
        /\ UNCHANGED <<chain, next, skipped, block, todo, parses>>
    OBVIOUS
  <2> HIDE DEF i, HandlerFails
  <2> QED BY <1>0, <1>1, <1>2, <2>1, MovingOn
<1>4. TypeOK'
  BY <1>0, <1>3 DEF IInv, TypeOK
<1> QED BY <1>3, <1>4, TableUntouched DEF IInv, PlacesOK, InChain

LEMMA SkipPreserves == IInv /\ SkipBlock => IInv'
<1> SUFFICES ASSUME IInv, SkipBlock PROVE IInv'
  OBVIOUS
<1> USE BoundsAssumption DEF SkipBlock
<1>1. next \in Heights /\ next \notin block
  BY DEF IInv, TypeOK, StartedOnce, ChainOK, Heights
<1>2. TypeOK'
  <2>1. next' \in 1..(MaxHeight + 1) /\ skipped' \subseteq Heights
    BY <1>1 DEF IInv, TypeOK, Heights
  <2> QED BY <2>1 DEF IInv, TypeOK
<1>3. StartedOnce'
  <2>1. \A h \in block \cup skipped : h \in Int /\ h < next
    BY DEF IInv, TypeOK, StartedOnce, Heights
  <2>2. /\ \A h \in block' : h < next' /\ h \notin skipped'
        /\ \A h \in skipped' : h < next'
    BY <1>1, <2>1 DEF IInv, StartedOnce, Heights
  <2> QED BY <2>2 DEF IInv, StartedOnce, Idle
<1>4. InOrder'
  BY DEF IInv, InOrder, EndBlock, Idle
<1> QED BY <1>2, <1>3, <1>4, TableUntouched DEF IInv, PlacesOK, InChain

LEMMA CrashPreserves == IInv /\ Crash => IInv'
<1> SUFFICES ASSUME IInv, Crash PROVE IInv'
  OBVIOUS
<1> USE DEF Crash
<1>1. TypeOK'
  <2>1. \A w \in Worker : job'[w] = Idle
    OBVIOUS
  <2>2. lost' \subseteq block'
    BY DEF IInv, TypeOK, StartedOnce
  <2> QED BY <2>1, <2>2, BoundsAssumption DEF IInv, TypeOK, Idle
<1>2. StartedOnce' /\ InOrder'
  BY DEF IInv, StartedOnce, InOrder, EndBlock
<1> QED BY <1>1, <1>2, TableUntouched DEF IInv, PlacesOK, InChain

LEMMA ParseStartPreserves == IInv /\ ParseStart => IInv'
<1> SUFFICES ASSUME IInv, ParseStart PROVE IInv'
  OBVIOUS
<1> USE DEF ParseStart
<1>1. TypeOK'
  BY DEF IInv, TypeOK
<1>2. StartedOnce' /\ InOrder'
  BY DEF IInv, StartedOnce, InOrder
<1>3. \A l \in todo' : InChain(l)'
  BY DEF InChain, Row, Heights, IInv, ChainOK
<1> QED BY <1>1, <1>2, <1>3, TableUntouched DEF IInv, PlacesOK

LEMMA ParseMsgPreserves ==
    ASSUME IInv, NEW l \in Row, ParseMsg(l)
    PROVE  IInv'
<1> USE DEF ParseMsg
<1>1. InChain(l) /\ parses # 0
  BY DEF IInv, PlacesOK, InOrder
<1>2. /\ allowance' \in [Pair -> Row \cup {NoRow}]
      /\ Backed' /\ NewestGrantPresent'
  BY <1>1, MessageKeepsNewest
<1>3. l \in Place
  BY BoundsAssumption DEF Row, Place
<1>4. TypeOK'
  BY <1>2, <1>3 DEF IInv, TypeOK
<1>5. ChainOK' /\ PlacesOK'
  BY <1>1 DEF IInv, ChainOK, PlacesOK, InChain, Blocks, MsgSeqs, Msg, EndBlock
<1>6. StartedOnce' /\ InOrder'
  BY <1>1 DEF IInv, StartedOnce, InOrder
<1> QED BY <1>2, <1>4, <1>5, <1>6 DEF IInv

LEMMA IInvStep == IInv /\ [Next]_vars => IInv'
<1> SUFFICES ASSUME IInv, [Next]_vars PROVE IInv'
  OBVIOUS
<1>1. ASSUME NEW w \in Worker, WorkerStep(w) PROVE IInv'
  BY <1>1, StartPreserves, RemovalPreserves, RemovalsDonePreserves, MessagePreserves,
     FailurePreserves DEF WorkerStep
<1>2. CASE UNCHANGED vars
  <2>1. TypeOK' /\ StartedOnce' /\ InOrder'
    BY <1>2 DEF vars, IInv, TypeOK, StartedOnce, InOrder, EndBlock, Idle
  <2> QED BY <1>2, <2>1, TableUntouched DEF vars, IInv, PlacesOK, InChain
<1> QED
  BY <1>1, <1>2, NewBlockPreserves, SkipPreserves, CrashPreserves,
     ParseStartPreserves, ParseMsgPreserves DEF Next

LEMMA IInvHolds == Spec => []IInv
BY IInvInit, IInvStep, PTL DEF Spec

-----------------------------------------------------------------------------
\* The variables of the feegrant module keep their types.
THEOREM TypeCorrect == Spec => []TypeOK
BY IInvHolds, PTL DEF IInv

\* SaveFeeGrantAllowance and DeleteFeeGrantAllowance: a grant newer than every
\* other handled message about its pair is the one in the table, whatever the
\* number of workers, the order of the blocks, and the handlers that failed.
THEOREM NewestGrantIsPresent == Spec => []NewestGrantPresent
BY IInvHolds, PTL DEF IInv

\* Every row comes from a handled grant about its granter and grantee.
THEOREM RowsAreBacked == Spec => []Backed
BY IInvHolds, PTL DEF IInv

-----------------------------------------------------------------------------
(* What the chain's list of grants says about its blocks.                  *)

IsGrant(k, m) == chain[m.height].msgs[m.idx] = [type |-> "grant", pair |-> k]

\* The newest of the messages about k that the handlers know, up to block h.
NewestKnown(k, m, h) ==
    m \in Known(k, h) /\ \A l \in Known(k, h) \ {m} : Earlier(l, m)

\* A grant of the chain is the newest message about its pair and was not removed
\* since; where the chain has none, the newest grant went unseen or was removed
\* at the end of a later block.
ChainFactsAt(k, h) ==
    LET g == GrantsAt(h)[k] IN
    /\ g # NoRow => /\ IsGrant(k, g) /\ NewestKnown(k, g, h)
                    /\ \A x \in g.height..h : k \notin chain[x].expired
    /\ g = NoRow => \A m \in Row : IsGrant(k, m) /\ NewestKnown(k, m, h) =>
                        \/ GoneUnseen(k, m, h)
                        \/ \E x \in (m.height + 1)..h : k \in chain[x].expired

ChainFacts == \A h \in 0..Len(chain), k \in Pair : ChainFactsAt(k, h)

LEMMA LastOf ==
    ASSUME NEW S, NEW n \in S, S \subseteq Int, \A j \in S : j <= n
    PROVE  (CHOOSE i \in S : \A j \in S : j <= i) = n
<1> DEFINE x == CHOOSE i \in S : \A j \in S : j <= i
<1>1. x \in S /\ \A j \in S : j <= x
  OBVIOUS
<1> HIDE DEF x
<1>2. x = n
  BY <1>1
<1> QED BY <1>2 DEF x

\* A bounded set of messages has a last one.
LEMMA LastExists ==
    ASSUME NEW n \in Nat, NEW S \in SUBSET (1..n), S # {}
    PROVE  \E i \in S : \A j \in S : j <= i
<1> DEFINE T == {n - i : i \in S}
           R == OpToRel(<, Nat)
<1>0. IsWellFoundedOn(R, Nat)
  BY NatLessThanWellFounded
<1>1. \A i \in S : i \in Int /\ n - i \in Nat /\ n - i \in T
  OBVIOUS
<1>2. T \subseteq Nat /\ T # {}
  BY <1>1
<1>3. \A x, y \in Nat : y < x => <<y, x>> \in R
  BY DEF OpToRel
<1>4. PICK t \in T : \A u \in T : ~(<<u, t>> \in R)
  <2> HIDE DEF T, R
  <2> QED BY <1>0, <1>2, WFMin
<1>5. PICK i \in S : t = n - i
  OBVIOUS
<1>6. \A j \in S : ~(n - j < n - i)
  BY <1>1, <1>3, <1>4, <1>5
<1>7. \A j \in S : j <= i
  BY <1>1, <1>6
<1> QED BY <1>7

\* A new block leaves what was said of the older ones.
LEMMA GrantsStay ==
    ASSUME IInv, [Next]_vars
    PROVE  /\ Len(chain) \in Nat /\ Len(chain') \in Nat /\ Len(chain) <= Len(chain')
           /\ \A h \in 1..Len(chain) : chain'[h] = chain[h]
           /\ \A h \in 0..Len(chain) : GrantsAt(h)' = GrantsAt(h)
<1>0. Len(chain) \in Nat
  BY DEF IInv, ChainOK
<1>1. CASE NewBlock
  <2>1. PICK b : chain' = Append(chain, b)
    BY <1>1 DEF NewBlock
  <2>2. Len(chain') = Len(chain) + 1 /\ \A h \in 1..Len(chain) : chain'[h] = chain[h]
    BY <2>1, ChainGrows DEF IInv
  <2> QED BY <1>0, <2>2 DEF GrantsAt
<1>2. CASE UNCHANGED chain
  BY <1>0, <1>2 DEF GrantsAt
<1>3. NewBlock \/ UNCHANGED chain
  BY DEF Next, SkipBlock, WorkerStep, StartBlock, RemoveExpiredFeeGrantAllowance,
         RemovalsDone, HandleNextMsg, HandlerFails, Crash, ParseStart, ParseMsg, vars
<1> QED BY <1>1, <1>2, <1>3

LEMMA FactsStay ==
    ASSUME IInv, [Next]_vars, NEW k \in Pair, NEW h \in 0..Len(chain), ChainFactsAt(k, h)
    PROVE  ChainFactsAt(k, h)'
<1>1. /\ Len(chain) \in Nat /\ GrantsAt(h)' = GrantsAt(h)
      /\ \A x \in 1..Len(chain) : chain'[x] = chain[x]
  BY GrantsStay
<1>2. \A l \in Row : l.height <= h => chain'[l.height] = chain[l.height]
  BY <1>1 DEF Row, Heights
<1>3. Known(k, h)' = Known(k, h)
  BY <1>2 DEF Known
<1>4. \A l \in Known(k, h) : l \in Row /\ l.height <= h /\ chain'[l.height] = chain[l.height]
  BY <1>2 DEF Known
<1>5. \A m \in Row : NewestKnown(k, m, h) => GoneUnseen(k, m, h)' = GoneUnseen(k, m, h)
  BY <1>2, <1>4 DEF NewestKnown, GoneUnseen, Earlier
<1>6. \A m \in Row : \A x \in (m.height + 1)..h : chain'[x] = chain[x]
  BY <1>1 DEF Row, Heights
<1> DEFINE g == GrantsAt(h)[k]
<1>7. ASSUME g # NoRow
      PROVE  /\ IsGrant(k, g)' /\ NewestKnown(k, g, h)'
             /\ \A x \in g.height..h : k \notin chain'[x].expired
  <2>1. IsGrant(k, g) /\ NewestKnown(k, g, h) /\ g \in Known(k, h) /\ g \in Row
    BY <1>4, <1>7 DEF ChainFactsAt, NewestKnown
  <2>2. \A x \in g.height..h : x \in 1..Len(chain)
    BY <1>1, <2>1 DEF Row, Heights
  <2>3. \A x \in g.height..h : k \notin chain'[x].expired
    BY <1>1, <1>7, <2>2 DEF ChainFactsAt
  <2> QED BY <1>1, <1>3, <1>4, <2>1, <2>3 DEF IsGrant, NewestKnown, Earlier
<1>8. ASSUME g = NoRow, NEW m \in Row, IsGrant(k, m)', NewestKnown(k, m, h)'
      PROVE  GoneUnseen(k, m, h)' \/ \E x \in (m.height + 1)..h : k \in chain'[x].expired
  <2>1. NewestKnown(k, m, h) /\ m \in Known(k, h)
    BY <1>3, <1>8 DEF NewestKnown, Earlier
  <2>2. IsGrant(k, m)
    BY <1>4, <1>8, <2>1 DEF IsGrant
  <2> QED BY <1>5, <1>6, <1>8, <2>1, <2>2 DEF ChainFactsAt
<1>9. g' = g
  BY <1>1
<1> HIDE DEF g
<1>10. ChainFactsAt(k, h)' = (
    /\ g' # NoRow => /\ IsGrant(k, g)' /\ NewestKnown(k, g, h)'
                    /\ \A x \in g'.height..h : k \notin chain'[x].expired
    /\ g' = NoRow => \A m \in Row : IsGrant(k, m)' /\ NewestKnown(k, m, h)' =>
                        \/ GoneUnseen(k, m, h)'
                        \/ \E x \in (m.height + 1)..h : k \in chain'[x].expired)
  BY DEF ChainFactsAt, g
<1> QED BY <1>7, <1>8, <1>9, <1>10

\* What the newest block adds to the facts about its predecessors.
LEMMA FactsOfNewBlock ==
    ASSUME IInv, NEW o \in Nat, o = Len(chain),
           NEW msgs \in MsgSeqs, NEW expired \in SUBSET Pair, NEW b,
           b = [msgs |-> msgs, expired |-> expired,
                grants |-> [k \in Pair |->
                    IF k \in expired THEN NoRow
                    ELSE GrantsAfter(o + 1, msgs, GrantsAt(o))[k]]],
           chain' = Append(chain, b), o < MaxHeight,
           NEW k \in Pair, ChainFactsAt(k, o)'
    PROVE  ChainFactsAt(k, o + 1)'
<1> DEFINE n == o + 1
           about == {i \in DOMAIN msgs : msgs[i].pair = k}
           grants == GrantsAfter(n, msgs, GrantsAt(o))
           kinds == {[type |-> "grant", pair |-> k], [type |-> "revoke", pair |-> k]}
<1> PICK old : old = GrantsAt(o)[k]
  OBVIOUS
<1> PICK g : g = (GrantsAt(n)[k])'
  OBVIOUS
<1> DEFINE Facts == /\ g # NoRow => /\ IsGrant(k, g)' /\ NewestKnown(k, g, n)'
                                    /\ \A x \in g.height..n : k \notin chain'[x].expired
                    /\ g = NoRow => \A m \in Row : IsGrant(k, m)' /\ NewestKnown(k, m, n)' =>
                           \/ GoneUnseen(k, m, n)'
                           \/ \E x \in (m.height + 1)..n : k \in chain'[x].expired
<1>1. /\ o \in Nat /\ n \in Nat /\ n \in Heights /\ n = o + 1
      /\ chain'[n] = b /\ \A x \in 1..o : chain'[x] = chain[x]
      /\ GrantsAt(o)' = GrantsAt(o) /\ (GrantsAt(o)[k])' = old
  <2>1. /\ chain'[n] = b
        /\ \A x \in 1..o : chain'[x] = chain[x]
    BY ChainGrows DEF IInv, ChainOK
  <2> QED BY <2>1, BoundsAssumption DEF GrantsAt, Heights
<1>0. \A l \in Row : /\ l.height \in Nat /\ l.height >= 1 /\ l.idx \in Nat
                     /\ l = [height |-> l.height, idx |-> l.idx]
  BY BoundsAssumption DEF Row, Heights
<1>2. /\ \A i \in DOMAIN msgs : i \in 1..MaxMsgs /\ msgs[i] \in Msg
      /\ Len(msgs) \in 0..MaxMsgs /\ DOMAIN msgs = 1..Len(msgs)
  BY MsgSeqFacts, BoundsAssumption
<1>3. /\ chain'[n].msgs = msgs /\ chain'[n].expired = expired
      /\ g = IF k \in expired THEN NoRow ELSE grants[k]
  BY <1>1 DEF GrantsAt
<1>4. \A l \in Row : l \in Known(k, n)' <=>
          \/ l \in Known(k, o)'
          \/ l.height = n /\ l.idx \in DOMAIN msgs /\ msgs[l.idx] \in kinds
  BY <1>0, <1>1, <1>3 DEF Known
<1>5. /\ \A l \in Known(k, o)' : l \in Row /\ l.height <= o
      /\ \A l \in Known(k, n)' : l \in Row
  BY DEF Known
<1>6. \A i \in DOMAIN msgs : [height |-> n, idx |-> i] \in Row
  BY <1>1, <1>2 DEF Row
<1>7. \A l, m \in Row : ~(Earlier(l, m) /\ Earlier(m, l))
  BY BoundsAssumption DEF Row, Heights, Earlier
<1>8. \A m \in Row : GoneUnseen(k, m, o)' => GoneUnseen(k, m, n)'
  <2> SUFFICES ASSUME NEW m \in Row, GoneUnseen(k, m, o)' PROVE GoneUnseen(k, m, n)'
    OBVIOUS
  <2>1. CASE k \in chain'[m.height].expired
    BY <2>1 DEF GoneUnseen
  <2>2. CASE k \notin chain'[m.height].expired
    <3>1. PICK l \in Row :
              /\ l.height <= o /\ l.idx \in DOMAIN chain'[l.height].msgs
              /\ chain'[l.height].msgs[l.idx] = [type |-> "used", pair |-> k]
              /\ Earlier(m, l)
      BY <2>2 DEF GoneUnseen, Earlier
    <3>2. l.height <= n
      BY <1>0, <1>1, <3>1
    <3> QED BY <3>1, <3>2 DEF GoneUnseen, Earlier
  <2> QED BY <2>1, <2>2
<1> SUFFICES Facts
  BY DEF ChainFactsAt
<1> HIDE DEF Facts
<1>9. CASE about = {}
  <2>1. grants[k] = old
    BY <1>9 DEF GrantsAfter
  <2>2. Known(k, n)' = Known(k, o)'
      <3>1. \A l \in Row : ~(l.idx \in DOMAIN msgs /\ msgs[l.idx] \in kinds)
      <4>1. \A x \in kinds : x.pair = k
        OBVIOUS
      <4> HIDE DEF kinds
      <4> QED BY <1>9, <4>1
    <3> QED BY <1>4, <1>5, <3>1
  <2>3. \A m \in Row : NewestKnown(k, m, n)' <=> NewestKnown(k, m, o)'
    BY <2>2 DEF NewestKnown, Earlier
  <2>4. CASE g # NoRow
    <3>1. g = old /\ k \notin expired /\ old # NoRow
      BY <1>3, <2>1, <2>4
    <3>2. /\ IsGrant(k, old)' /\ NewestKnown(k, old, o)'
          /\ \A x \in old.height..o : k \notin chain'[x].expired
      BY <1>1, <3>1 DEF ChainFactsAt, IsGrant, NewestKnown, Earlier
    <3>3. old \in Row
      <4>1. old \in Known(k, o)'
        BY <3>2 DEF NewestKnown
      <4> QED BY <1>5, <4>1
    <3>4. \A x \in old.height..n : k \notin chain'[x].expired
      BY <1>0, <1>1, <1>3, <3>1, <3>2, <3>3
    <3>5. IsGrant(k, g)' /\ NewestKnown(k, g, n)'
      BY <2>3, <3>1, <3>2, <3>3 DEF IsGrant, NewestKnown, Earlier
    <3> QED BY <2>4, <3>1, <3>4, <3>5 DEF Facts
  <2>5. CASE g = NoRow
    <3> SUFFICES ASSUME NEW m \in Row, IsGrant(k, m)', NewestKnown(k, m, n)'
                 PROVE  \/ GoneUnseen(k, m, n)'
                        \/ \E x \in (m.height + 1)..n : k \in chain'[x].expired
      BY <2>5 DEF Facts
    <3>1. NewestKnown(k, m, o)' /\ m.height \in Nat /\ m.height <= o
      BY <1>0, <1>5, <2>3 DEF NewestKnown
    <3>2. CASE old = NoRow
      <4>1. \/ GoneUnseen(k, m, o)'
            \/ \E x \in (m.height + 1)..o : k \in chain'[x].expired
        BY <1>1, <3>1, <3>2 DEF ChainFactsAt
      <4> QED BY <1>1, <1>8, <3>1, <4>1
    <3>3. CASE old # NoRow
      <4>1. k \in expired
        BY <1>3, <2>1, <2>5, <3>3
      <4> QED BY <1>1, <1>3, <3>1, <4>1
    <3> QED BY <3>2, <3>3
  <2> QED BY <2>4, <2>5
<1>10. CASE about # {}
  <2>1. PICK last \in about : \A j \in about : j <= last
    <3>1. about \in SUBSET (1..Len(msgs)) /\ Len(msgs) \in Nat
      BY <1>2, BoundsAssumption
    <3> HIDE DEF about
    <3> QED BY <1>10, <3>1, LastExists
  <2> DEFINE r == [height |-> n, idx |-> last]
  <2>2. (CHOOSE i \in about : \A j \in about : j <= i) = last
    BY <1>2, <2>1, LastOf
  <2>3. grants[k] = IF msgs[last].type = "grant" THEN r ELSE NoRow
    BY <1>10, <2>2 DEF GrantsAfter
  <2>4. /\ r \in Row /\ r.height = n /\ r.idx = last /\ last \in DOMAIN msgs
        /\ msgs[last] \in Msg /\ msgs[last].pair = k
    BY <1>2, <1>6, <2>1
  <2>5. \A l \in Known(k, n)' : l # r => Earlier(l, r)
    <3> SUFFICES ASSUME NEW l \in Known(k, n)', l # r PROVE Earlier(l, r)
      OBVIOUS
    <3>1. CASE l \in Known(k, o)'
      BY <1>1, <1>5, <2>4, <3>1 DEF Earlier, Row, Heights
    <3>2. CASE l.height = n /\ l.idx \in DOMAIN msgs /\ msgs[l.idx] \in kinds
      <4>1. l.idx \in about
        BY <3>2
      <4>2. l = [height |-> l.height, idx |-> l.idx]
        BY <1>5 DEF Row
      <4>3. l.idx # last /\ l.idx <= last /\ l.idx \in Nat /\ last \in Nat
        BY <1>2, <2>1, <2>4, <3>2, <4>1, <4>2, BoundsAssumption
      <4> QED BY <2>4, <3>2, <4>3 DEF Earlier
    <3> QED BY <1>4, <1>5, <3>1, <3>2
  <2>6. msgs[last] \in kinds => r \in Known(k, n)'
    BY <1>4, <2>4
  <2>7. \A m \in Row : msgs[last] \in kinds /\ NewestKnown(k, m, n)' => m = r
    <3>1. \A l, m : Earlier(l, m)' <=> Earlier(l, m)
      BY DEF Earlier
    <3> QED BY <1>7, <2>4, <2>5, <2>6, <3>1 DEF NewestKnown
  <2>8. CASE msgs[last].type = "grant"
    <3>1. msgs[last] = [type |-> "grant", pair |-> k] /\ IsGrant(k, r)'
      BY <1>3, <2>4, <2>8 DEF Msg, IsGrant
    <3>2. NewestKnown(k, r, n)'
      BY <2>5, <2>6, <3>1 DEF NewestKnown, Earlier
    <3>3. CASE k \in expired
      <4>1. g = NoRow
        BY <1>3, <3>3
      <4>2. GoneUnseen(k, r, n)'
        BY <1>1, <1>3, <2>4, <3>3 DEF GoneUnseen
      <4> QED BY <2>7, <3>1, <4>1, <4>2 DEF Facts
    <3>4. CASE k \notin expired
      <4>1. g = r
        BY <1>3, <2>3, <2>8, <3>4
      <4>2. r # NoRow /\ \A x \in r.height..n : x = n
        BY <1>0, <1>1, <2>4, NoRowAssumption
      <4>3. IsGrant(k, g)' /\ NewestKnown(k, g, n)'
        BY <3>1, <3>2, <4>1 DEF IsGrant, NewestKnown, Earlier
      <4> QED BY <1>1, <1>3, <2>4, <3>4, <4>1, <4>2, <4>3 DEF Facts
    <3> QED BY <3>3, <3>4
  <2>9. CASE msgs[last].type = "revoke"
    <3>1. msgs[last] = [type |-> "revoke", pair |-> k]
      BY <2>4, <2>9 DEF Msg
    <3>2. ~IsGrant(k, r)'
      BY <1>1, <1>3, <2>4, <3>1 DEF IsGrant
    <3>3. g = NoRow
      BY <1>3, <2>3, <2>9
    <3> QED BY <2>7, <3>1, <3>2, <3>3 DEF Facts
  <2>10. CASE msgs[last].type = "used"
    <3>1. msgs[last] = [type |-> "used", pair |-> k] /\ g = NoRow
      BY <1>3, <2>3, <2>4, <2>10 DEF Msg
    <3>2. r \notin Known(k, n)'
      BY <1>1, <1>3, <2>4, <3>1 DEF Known
    <3>3. \A m \in Row : NewestKnown(k, m, n)' => GoneUnseen(k, m, n)'
      <4> SUFFICES ASSUME NEW m \in Row, NewestKnown(k, m, n)' PROVE GoneUnseen(k, m, n)'
        OBVIOUS
      <4>1. Earlier(m, r)
        BY <2>5, <3>2 DEF NewestKnown
      <4> QED BY <1>0, <1>1, <1>3, <2>4, <3>1, <4>1 DEF GoneUnseen, Earlier
    <3> QED BY <3>1, <3>3 DEF Facts
  <2> QED BY <2>4, <2>8, <2>9, <2>10 DEF Msg
<1> QED BY <1>9, <1>10

LEMMA ChainFactsNext == IInv /\ ChainFacts /\ [Next]_vars => ChainFacts'
<1> SUFFICES ASSUME IInv, ChainFacts, [Next]_vars, NEW k \in Pair, NEW h \in 0..Len(chain')
             PROVE  ChainFactsAt(k, h)'
  BY DEF ChainFacts
<1>1. /\ Len(chain) \in Nat /\ Len(chain') \in Nat /\ Len(chain) <= Len(chain')
  BY GrantsStay
<1> PICK o : o = Len(chain)
  OBVIOUS
<1>2. \A x \in 0..Len(chain) : ChainFactsAt(k, x)'
  BY FactsStay DEF ChainFacts
<1>3. CASE h \in 0..Len(chain)
  BY <1>2, <1>3
<1>4. CASE h \notin 0..Len(chain)
  <2>1. chain' # chain
    BY <1>1, <1>4
  <2>2. NewBlock
    BY <2>1 DEF Next, SkipBlock, WorkerStep, StartBlock, RemoveExpiredFeeGrantAllowance,
         RemovalsDone, HandleNextMsg, HandlerFails, Crash, ParseStart, ParseMsg, vars
  <2>3. PICK msgs \in MsgSeqs, expired \in SUBSET Pair :
            chain' = Append(chain,
              [msgs |-> msgs, expired |-> expired,
               grants |-> [q \in Pair |->
                 IF q \in expired THEN NoRow
                 ELSE GrantsAfter(o + 1, msgs, GrantsAt(o))[q]]])
    BY <2>2 DEF NewBlock
  <2>4. o < MaxHeight
    BY <2>2 DEF NewBlock
  <2> DEFINE b == [msgs |-> msgs, expired |-> expired,
               grants |-> [q \in Pair |->
                 IF q \in expired THEN NoRow
                 ELSE GrantsAfter(o + 1, msgs, GrantsAt(o))[q]]]
  <2>5. h = o + 1
    <3>1. Len(chain') = Len(chain) + 1
      BY <2>3, ChainGrows DEF IInv
    <3> QED BY <1>1, <1>4, <3>1
  <2>6. ChainFactsAt(k, o)'
    BY <1>1, <1>2
  <2>7. ChainFactsAt(k, o + 1)'
    BY <2>3, <2>4, <2>6, FactsOfNewBlock
  <2> QED BY <2>5, <2>7
<1> QED BY <1>3, <1>4

LEMMA ChainFactsInit == Init => ChainFacts
<1> SUFFICES ASSUME Init, NEW k \in Pair PROVE ChainFactsAt(k, 0)
  <2>1. Init => Len(chain) = 0
    BY DEF Init
  <2>2. 0..0 = {0}
    OBVIOUS
  <2> QED BY <2>1, <2>2 DEF ChainFacts
<1>1. GrantsAt(0)[k] = NoRow /\ Known(k, 0) = {}
  BY BoundsAssumption DEF GrantsAt, Known, Row, Heights
<1> QED BY <1>1 DEF ChainFactsAt, NewestKnown

-----------------------------------------------------------------------------
(* One worker that takes the blocks in order.                              *)

OneWorker == \A v, w \in Worker : v = w

\* What one worker has handled before message m: the removals of m's block, too.
HandledBefore(l, m) ==
    l.height < m.height \/ (l.height = m.height /\ (l.idx = EndBlock \/ l.idx < m.idx))

\* A row comes from the last handled message or removal of its pair.
RowsNewest ==
    \A k \in Pair : allowance[k] # NoRow =>
        \A l \in (Grants(k) \cup Revocations(k)) \ {allowance[k]} :
            HandledBefore(l, allowance[k])

\* Removals are those of the chain.
RemovalsReal ==
    /\ \A l \in handled : l.idx = EndBlock => l.pair \in chain[l.height].expired
    /\ \A w \in Worker : left[w] # {} =>
          job[w].idx = EndBlock /\ left[w] \subseteq chain[job[w].height].expired

\* Without failures a worker leaves nothing of its block out.
MsgDone(h, i) ==
    \/ [height |-> h, idx |-> i] \in handled
    \/ \E w \in Worker : job[w].height = h /\ (job[w].idx = EndBlock \/ job[w].idx <= i)

RemovalDone(h, k) ==
    \/ [height |-> h, idx |-> EndBlock, pair |-> k] \in handled
    \/ \E w \in Worker : job[w].height = h /\ k \in left[w]

AllHandled ==
    lost = {} => \A h \in block :
        /\ \A i \in DOMAIN chain[h].msgs : MsgDone(h, i)
        /\ \A k \in chain[h].expired : RemovalDone(h, k)

\* As long as nothing is lost, put off or parsed again, a row is the newest.
InTurn ==
    lost = {} /\ skips = 0 /\ parses = 0 =>
        /\ skipped = {}
        /\ \A w \in Worker : job[w] # Idle => job[w].height = next - 1
        /\ RowsNewest

MirrorInv == skips \in Nat /\ RemovalsReal /\ AllHandled /\ InTurn

LEMMA MirrorInit == Init => MirrorInv
<1> SUFFICES ASSUME Init PROVE MirrorInv
  OBVIOUS
<1>1. RowsNewest
  BY DEF Init, RowsNewest
<1> QED BY <1>1 DEF Init, MirrorInv, RemovalsReal, AllHandled, InTurn, Idle

\* Everything handled so far is of this worker's block, or of an older one.
LEMMA NothingNewer ==
    ASSUME IInv, MirrorInv, NEW w \in Worker, job[w] # Idle,
           lost = {}, skips = 0, parses = 0
    PROVE  /\ job[w].height \in Nat
           /\ \A l \in handled : l.height \in Nat /\ l.height <= job[w].height
           /\ \A k \in Pair : allowance[k] # NoRow =>
                  allowance[k].height \in Nat /\ allowance[k].height <= job[w].height
<1>1. job[w].height = next - 1 /\ next \in Nat
  BY DEF MirrorInv, InTurn, IInv, TypeOK
<1>2. \A l \in handled : l.height \in block /\ l.height \in Nat /\ l.height < next
  <2>1. \A l \in handled : l.height \in block
    BY DEF IInv, InOrder
  <2>2. \A x \in block : x \in Nat /\ x < next
    BY DEF IInv, StartedOnce, TypeOK, ChainOK
  <2> QED BY <2>1, <2>2
<1>3. \A k \in Pair : allowance[k] # NoRow => allowance[k] \in handled
  BY DEF IInv, Backed, Grants
<1>4. job[w].height \in Nat
  <2>1. job[w].height \in 1..Len(chain)
    BY AtWork
  <2>2. Len(chain) \in Nat
    BY DEF IInv, ChainOK
  <2> QED BY <2>1, <2>2
<1> QED BY <1>1, <1>2, <1>3, <1>4

LEMMA MirrorMessage ==
    ASSUME IInv, MirrorInv, OneWorker, NEW w \in Worker, HandleNextMsg(w)
    PROVE  MirrorInv'
<1> DEFINE l == job[w]
           h == job[w].height
           msg == chain[h].msgs[l.idx]
<1> USE DEF HandleNextMsg
<1>0. l # Idle /\ l.idx \in 1..MaxMsgs /\ l.idx # EndBlock /\ EndBlock \in Nat /\ l.idx \in Nat
  BY BoundsAssumption DEF Idle, EndBlock
<1>1. /\ l \in Row /\ InChain(l) /\ l \in Place /\ h \in 1..Len(chain) /\ h # 0
      /\ l = [height |-> h, idx |-> l.idx] /\ h \in block
  BY <1>0, AtWork
<1>2. /\ \/ job'[w] = Idle
         \/ /\ job'[w] = [height |-> h, idx |-> l.idx + 1]
            /\ l.idx + 1 \in 1..MaxMsgs
      /\ job'[w] = Idle => l.idx >= Len(chain[h].msgs)
      /\ \A v \in Worker \ {w} : job'[v] = job[v]
  <2>1. job' = [job EXCEPT ![w] = Following(h, l.idx)]
    OBVIOUS
  <2>2. job'[w] = Following(h, l.idx)
    BY <2>1 DEF IInv, TypeOK
  <2>3. Len(chain[h].msgs) \in Nat /\ l.idx \in 0..MaxMsgs
    BY <1>0, <1>1, MsgSeqFacts, BoundsAssumption DEF IInv, ChainOK
  <2> HIDE DEF HandleNextMsg
  <2> QED BY <1>0, <1>1, <2>1, <2>2, <2>3, FollowingFacts DEF IInv, Following, Idle
<1>3. RemovalsReal'
  BY <1>0, <1>2 DEF MirrorInv, RemovalsReal, IInv, TypeOK
<1>4. AllHandled'
  <2> SUFFICES ASSUME lost = {}, NEW x \in block
               PROVE  /\ \A i \in DOMAIN chain[x].msgs : MsgDone(x, i)'
                      /\ \A k \in chain[x].expired : RemovalDone(x, k)'
    BY DEF AllHandled
  <2>1. ASSUME NEW i \in DOMAIN chain[x].msgs PROVE MsgDone(x, i)'
    <3>1. MsgDone(x, i)
      BY <2>1 DEF MirrorInv, AllHandled
    <3>2. i \in Nat /\ x \in 1..Len(chain)
      BY <2>1, MsgSeqFacts, BoundsAssumption DEF IInv, ChainOK, TypeOK
    <3>3. CASE [height |-> x, idx |-> i] \in handled
      BY <3>3 DEF MsgDone
    <3>4. CASE x = h
      <4>1. CASE i = l.idx
        BY <1>1, <3>4, <4>1 DEF MsgDone
      <4>2. CASE l.idx < i
        <5>1. i <= Len(chain[h].msgs) /\ Len(chain[h].msgs) \in Nat
          BY <2>1, <3>2, <3>4, MsgSeqFacts, BoundsAssumption DEF IInv, ChainOK
        <5>2. job'[w] = [height |-> h, idx |-> l.idx + 1]
          BY <1>0, <1>2, <3>2, <4>2, <5>1
        <5>3. l.idx + 1 <= i
          BY <1>0, <3>2, <4>2
        <5> QED BY <3>4, <5>2, <5>3 DEF MsgDone
      <4>3. CASE i < l.idx
        <5>1. \A v \in Worker : v = w
          BY DEF OneWorker
        <5> QED BY <1>0, <3>1, <3>2, <3>3, <4>3, <5>1 DEF MsgDone
      <4> QED BY <1>0, <3>2, <4>1, <4>2, <4>3
    <3>5. CASE x # h
      BY <1>2, <3>1, <3>5 DEF MsgDone
    <3> QED BY <3>4, <3>5
  <2>2. ASSUME NEW k \in chain[x].expired PROVE RemovalDone(x, k)'
    <3>1. RemovalDone(x, k)
      BY <2>2 DEF MirrorInv, AllHandled
    <3>2. left[w] = {}
      BY <1>0 DEF MirrorInv, RemovalsReal
    <3> QED BY <1>2, <3>1, <3>2 DEF RemovalDone
  <2> QED BY <2>1, <2>2
<1>5. InTurn'
  <2> SUFFICES ASSUME lost = {}, skips = 0, parses = 0
               PROVE  /\ skipped = {}
                      /\ \A v \in Worker : job'[v] # Idle => job'[v].height = next - 1
                      /\ RowsNewest'
    BY DEF InTurn
  <2>1. /\ skipped = {} /\ RowsNewest
        /\ \A v \in Worker : job[v] # Idle => job[v].height = next - 1
    BY DEF MirrorInv, InTurn
  <2>2. \A v \in Worker : job'[v] # Idle => job'[v].height = next - 1
    BY <1>0, <1>2, <2>1
  <2>3. /\ h \in Nat
        /\ \A m \in handled : m.height \in Nat /\ m.height <= h
        /\ \A k \in Pair : allowance[k] # NoRow =>
               allowance[k].height \in Nat /\ allowance[k].height <= h
    BY <1>0, NothingNewer
  <2>4. \A m \in handled : m.height = h => m.idx = EndBlock \/ m.idx < l.idx
    BY <1>0 DEF IInv, InOrder
  <2>5. \A m \in handled : HandledBefore(m, l)
    BY <2>3, <2>4 DEF HandledBefore
  <2>6. RowsNewest'
    <3>0. msg \in Msg /\ msg.pair \in Pair
      BY <1>1, MsgSeqFacts DEF IInv, ChainOK, InChain, Msg
    <3>1. \A k \in Pair : \A m \in (Grants(k) \cup Revocations(k))' :
              \/ m \in Grants(k) \cup Revocations(k)
              \/ m = l /\ k = msg.pair
      BY <1>0, <1>1 DEF Grants, Revocations
    <3>2. \A k \in Pair : \/ allowance'[k] = NoRow
                          \/ k = msg.pair /\ allowance'[k] = l
                          \/ /\ allowance'[k] = allowance[k]
                             /\ (k # msg.pair \/ msg.type = "used")
      <4>1. allowance \in [Pair -> Row \cup {NoRow}] /\ HandleMsg(h, l.idx)
        BY DEF IInv, TypeOK
      <4>2. CASE msg.type = "used"
        BY <4>1, <4>2 DEF HandleMsg
      <4>3. CASE msg.type = "revoke"
        BY <2>3, <3>0, <4>1, <4>3 DEF HandleMsg, DeleteFeeGrantAllowance
      <4>4. CASE msg.type = "grant"
        <5>1. SaveFeeGrantAllowance(msg.pair, h, l.idx)
          BY <4>1, <4>4 DEF HandleMsg
        <5>2. ~(allowance[msg.pair] # NoRow /\ allowance[msg.pair].height > h)
          BY <2>3, <3>0
        <5>3. allowance' = [allowance EXCEPT ![msg.pair] = l]
          BY <1>1, <5>1, <5>2 DEF SaveFeeGrantAllowance
        <5> HIDE DEF HandleNextMsg, l, msg
        <5> QED BY <3>0, <4>1, <5>3
      <4> QED BY <3>0, <4>2, <4>3, <4>4 DEF Msg
    <3>3. msg.type = "used" => \A k \in Pair :
              (Grants(k) \cup Revocations(k))' = Grants(k) \cup Revocations(k)
      BY <1>0, <1>1 DEF Grants, Revocations
    <3>4. \A k \in Pair : Grants(k) \cup Revocations(k) \subseteq handled
      BY DEF Grants, Revocations
    <3>5. \A m, q : HandledBefore(m, q)' <=> HandledBefore(m, q)
      BY DEF HandledBefore
    <3> SUFFICES ASSUME NEW k \in Pair, allowance'[k] # NoRow,
                        NEW m \in (Grants(k) \cup Revocations(k))', m # allowance'[k]
                 PROVE  HandledBefore(m, allowance'[k])
      BY <3>5 DEF RowsNewest
    <3> HIDE DEF HandleNextMsg, l, msg
    <3>6. CASE k = msg.pair /\ allowance'[k] = l
      BY <2>5, <3>1, <3>4, <3>6
    <3>7. CASE allowance'[k] = allowance[k] /\ (k # msg.pair \/ msg.type = "used")
      BY <2>1, <3>1, <3>3, <3>7 DEF RowsNewest
    <3> QED BY <3>2, <3>6, <3>7
  <2> QED BY <2>1, <2>2, <2>6
<1> QED BY <1>3, <1>4, <1>5 DEF MirrorInv

LEMMA MirrorRemoval ==
    ASSUME IInv, MirrorInv, OneWorker, NEW w \in Worker, NEW k \in Pair,
           RemoveExpiredFeeGrantAllowance(w, k)
    PROVE  MirrorInv'
<1> DEFINE h == job[w].height
           e == [height |-> h, idx |-> EndBlock, pair |-> k]
<1> USE DEF RemoveExpiredFeeGrantAllowance
<1>0. job[w] # Idle /\ EndBlock \in Nat /\ job[w].idx = EndBlock
  BY BoundsAssumption DEF Idle, EndBlock
<1>1. /\ handled' = handled \cup {e} /\ UNCHANGED <<chain, job, block, lost, skips, parses>>
      /\ left'[w] = left[w] \ {k} /\ \A v \in Worker \ {w} : left'[v] = left[v]
  BY DEF IInv, TypeOK
<1>2. RemovalsReal'
  BY <1>1 DEF MirrorInv, RemovalsReal
<1>3. AllHandled'
  <2>1. \A x, i : MsgDone(x, i) => MsgDone(x, i)'
    BY <1>1 DEF MsgDone
  <2>2. \A x, q : RemovalDone(x, q) => RemovalDone(x, q)'
    BY <1>1 DEF RemovalDone
  <2> QED BY <1>1, <2>1, <2>2 DEF MirrorInv, AllHandled
<1>4. InTurn'
  <2> SUFFICES ASSUME lost = {}, skips = 0, parses = 0
               PROVE  RowsNewest'
    BY <1>1 DEF InTurn, MirrorInv
  <2>1. RowsNewest
    BY DEF MirrorInv, InTurn
  <2>2. /\ h \in Nat
        /\ \A q \in Pair : allowance[q] # NoRow =>
               allowance[q].height \in Nat /\ allowance[q].height <= h
    BY <1>0, NothingNewer
  <2>3. \A q \in Pair : \/ allowance'[q] = NoRow
                        \/ q # k /\ allowance'[q] = allowance[q]
    BY <2>2 DEF DeleteFeeGrantAllowance, IInv, TypeOK
  <2>4. \A q \in Pair : q # k =>
            (Grants(q) \cup Revocations(q))' = Grants(q) \cup Revocations(q)
    BY <1>1 DEF Grants, Revocations
  <2> HIDE DEF RemoveExpiredFeeGrantAllowance
  <2> QED BY <2>1, <2>3, <2>4 DEF RowsNewest, HandledBefore
<1> QED BY <1>1, <1>2, <1>3, <1>4 DEF MirrorInv

LEMMA MirrorRemovalsDone ==
    ASSUME IInv, MirrorInv, OneWorker, NEW w \in Worker, RemovalsDone(w)
    PROVE  MirrorInv'
<1> DEFINE h == job[w].height
<1> USE DEF RemovalsDone
<1>0. job[w] # Idle
  BY BoundsAssumption DEF Idle, EndBlock
<1>1. h \in 1..Len(chain) /\ h \in block
  BY <1>0, AtWork
<1>2. /\ \/ job'[w] = Idle /\ Len(chain[h].msgs) = 0
         \/ job'[w] = [height |-> h, idx |-> 1]
      /\ \A v \in Worker \ {w} : job'[v] = job[v]
  <2>1. Len(chain[h].msgs) \in Nat
    BY <1>1, MsgSeqFacts, BoundsAssumption DEF IInv, ChainOK
  <2> QED BY <2>1 DEF Following, IInv, TypeOK
<1>3. RemovalsReal'
  BY <1>2 DEF MirrorInv, RemovalsReal
<1>4. AllHandled'
  <2>1. ASSUME NEW x \in block, NEW i \in DOMAIN chain[x].msgs, MsgDone(x, i)
        PROVE  MsgDone(x, i)'
    <3>1. x \in 1..Len(chain) /\ i \in 1..Len(chain[x].msgs) /\ Len(chain[x].msgs) \in Nat
      BY <2>1, MsgSeqFacts, BoundsAssumption DEF IInv, ChainOK, TypeOK
    <3>2. CASE x = h
      <4>1. job'[w] = [height |-> h, idx |-> 1] /\ 1 <= i
        BY <1>2, <3>1, <3>2
      <4> QED BY <3>2, <4>1 DEF MsgDone
    <3> QED BY <1>2, <2>1, <3>2 DEF MsgDone
  <2>2. \A x, q : RemovalDone(x, q) => RemovalDone(x, q)'
    BY <1>2 DEF RemovalDone
  <2> QED BY <2>1, <2>2 DEF MirrorInv, AllHandled
<1>5. InTurn'
  <2>1. \A v \in Worker : job'[v] # Idle => job[v] # Idle /\ job'[v].height = job[v].height
    BY <1>0, <1>2
  <2>2. RowsNewest' <=> RowsNewest
    BY DEF RowsNewest, HandledBefore, Grants, Revocations
  <2> QED BY <2>1, <2>2 DEF MirrorInv, InTurn
<1> QED BY <1>3, <1>4, <1>5 DEF MirrorInv

LEMMA MirrorStart ==
    ASSUME IInv, MirrorInv, OneWorker, NEW w \in Worker, NEW h \in Heights, StartBlock(w, h)
    PROVE  MirrorInv'
<1> USE DEF StartBlock
<1>1. /\ job'[w] = [height |-> h, idx |-> EndBlock] /\ left'[w] = chain[h].expired
      /\ \A v \in Worker : v = w
      /\ job[w] = Idle /\ h \in Nat /\ h # 0
  BY DEF IInv, TypeOK, OneWorker, Heights
<1>2. RemovalsReal'
  BY <1>1 DEF MirrorInv, RemovalsReal
<1>3. AllHandled'
  <2>1. \A x \in block : x # 0
    BY DEF IInv, TypeOK
  <2>2. \A x \in block : \A i : MsgDone(x, i) => MsgDone(x, i)'
    BY <1>1, <2>1 DEF MsgDone, Idle
  <2>3. \A x \in block : \A q : RemovalDone(x, q) => RemovalDone(x, q)'
    BY <1>1, <2>1 DEF RemovalDone, Idle
  <2>4. (\A i : MsgDone(h, i)') /\ \A q \in chain[h].expired : RemovalDone(h, q)'
    BY <1>1 DEF MsgDone, RemovalDone
  <2> QED BY <2>2, <2>3, <2>4 DEF MirrorInv, AllHandled
<1>4. InTurn'
  <2>1. RowsNewest' <=> RowsNewest
    BY DEF RowsNewest, HandledBefore, Grants, Revocations
  <2>2. skipped = {} => h = next /\ next' = next + 1 /\ skipped' = skipped
    OBVIOUS
  <2>3. next \in Int
    BY DEF IInv, TypeOK
  <2> QED BY <1>1, <2>1, <2>2, <2>3 DEF MirrorInv, InTurn
<1> QED BY <1>2, <1>3, <1>4 DEF MirrorInv

LEMMA MirrorNewBlock == IInv /\ MirrorInv /\ NewBlock => MirrorInv'
<1> SUFFICES ASSUME IInv, MirrorInv, NewBlock PROVE MirrorInv'
  OBVIOUS
<1>1. PICK b : chain' = Append(chain, b)
  BY DEF NewBlock
<1>2. UNCHANGED <<next, skipped, block, allowance, job, left, handled, lost, skips, parses>>
  BY DEF NewBlock
<1>3. \A x \in 1..Len(chain) : chain'[x] = chain[x]
  BY <1>1, ChainGrows DEF IInv
<1>4. \A k \in Pair : Grants(k)' = Grants(k) /\ Revocations(k)' = Revocations(k)
  BY <1>1, <1>2, HandledStays
<1>5. RemovalsReal'
  <2>1. \A l \in handled : l.height \in 1..Len(chain)
    BY DEF IInv, PlacesOK, InChain
  <2>2. \A w \in Worker : left[w] # {} => job[w] # Idle
    BY BoundsAssumption DEF MirrorInv, RemovalsReal, Idle, EndBlock
  <2>3. \A w \in Worker : left[w] # {} => job[w].height \in 1..Len(chain)
    BY <2>2, AtWork
  <2> QED BY <1>2, <1>3, <2>1, <2>3 DEF MirrorInv, RemovalsReal
<1>6. AllHandled'
  <2>1. /\ \A x, i : MsgDone(x, i)' <=> MsgDone(x, i)
        /\ \A x, q : RemovalDone(x, q)' <=> RemovalDone(x, q)
    BY <1>2 DEF MsgDone, RemovalDone
  <2>2. \A x \in block : chain'[x] = chain[x]
    BY <1>3 DEF IInv, TypeOK
  <2> QED BY <1>2, <2>1, <2>2 DEF MirrorInv, AllHandled
<1>7. InTurn'
  BY <1>2, <1>4 DEF MirrorInv, InTurn, RowsNewest, HandledBefore
<1> QED BY <1>2, <1>5, <1>6, <1>7 DEF MirrorInv

LEMMA MirrorNext == IInv /\ MirrorInv /\ OneWorker /\ [Next]_vars => MirrorInv'
<1> SUFFICES ASSUME IInv, MirrorInv, OneWorker, [Next]_vars PROVE MirrorInv'
  OBVIOUS
<1>1. ASSUME NEW w \in Worker, HandlerFails(w) PROVE MirrorInv'
  <2>1. lost' # {}
    BY <1>1 DEF HandlerFails
  <2>2. RemovalsReal'
    BY <1>1 DEF HandlerFails, MirrorInv, RemovalsReal, IInv, TypeOK
  <2> QED BY <1>1, <2>1, <2>2 DEF HandlerFails, MirrorInv, AllHandled, InTurn
<1>2. CASE Crash
  <2>1. lost' = {} => lost = {} /\ job' = job /\ \A w \in Worker : job[w] = Idle
    <3>1. lost' = {} => lost = {} /\ \A w \in Worker : job[w] = Idle
      BY <1>2 DEF Crash
    <3> QED BY <1>2, <3>1 DEF Crash, IInv, TypeOK
  <2>2. RemovalsReal'
    BY <1>2 DEF Crash, MirrorInv, RemovalsReal
  <2>3. AllHandled'
    <3> SUFFICES ASSUME lost' = {} PROVE AllHandled'
      BY DEF AllHandled
    <3>1. \A w \in Worker : left[w] = {}
      BY <2>1, BoundsAssumption DEF MirrorInv, RemovalsReal, Idle, EndBlock
    <3>2. \A x, q : RemovalDone(x, q) => RemovalDone(x, q)'
      BY <1>2, <3>1 DEF RemovalDone, Crash
    <3>3. \A x, i : MsgDone(x, i) => MsgDone(x, i)'
      BY <1>2, <2>1 DEF MsgDone, Crash
    <3> QED BY <1>2, <2>1, <3>2, <3>3 DEF MirrorInv, AllHandled, Crash
  <2>4. InTurn'
    BY <1>2, <2>1 DEF Crash, MirrorInv, InTurn, RowsNewest, HandledBefore, Grants, Revocations
  <2> QED BY <1>2, <2>2, <2>3, <2>4 DEF Crash, MirrorInv
<1>3. CASE SkipBlock
  <2>1. RemovalsReal' /\ AllHandled'
    BY <1>3 DEF SkipBlock, MirrorInv, RemovalsReal, AllHandled, MsgDone, RemovalDone
  <2>2. skips' \in Nat /\ skips' # 0
    BY <1>3 DEF SkipBlock, MirrorInv
  <2> QED BY <2>1, <2>2 DEF MirrorInv, InTurn
<1>4. CASE ParseStart
  <2>1. RemovalsReal' /\ AllHandled'
    BY <1>4 DEF ParseStart, MirrorInv, RemovalsReal, AllHandled, MsgDone, RemovalDone
  <2>2. skips' \in Nat /\ parses' # 0
    BY <1>4 DEF ParseStart, MirrorInv, IInv
  <2> QED BY <2>1, <2>2 DEF MirrorInv, InTurn
<1>5. ASSUME NEW l \in Row, ParseMsg(l) PROVE MirrorInv'
  <2>1. parses # 0 /\ parses' = parses /\ skips' = skips /\ l.idx # EndBlock
    BY <1>5, BoundsAssumption DEF ParseMsg, IInv, InOrder, Row, EndBlock
  <2>2. RemovalsReal' /\ AllHandled'
    BY <1>5, <2>1 DEF ParseMsg, MirrorInv, RemovalsReal, AllHandled, MsgDone, RemovalDone
  <2> QED BY <2>1, <2>2 DEF MirrorInv, InTurn
<1>6. CASE UNCHANGED vars
  BY <1>6 DEF vars, MirrorInv, RemovalsReal, AllHandled, InTurn, RowsNewest,
              HandledBefore, Grants, Revocations, MsgDone, RemovalDone
<1>7. ASSUME NEW w \in Worker, WorkerStep(w) PROVE MirrorInv'
  BY <1>1, <1>7, MirrorStart, MirrorRemoval, MirrorRemovalsDone, MirrorMessage
     DEF WorkerStep
<1> QED BY <1>2, <1>3, <1>4, <1>5, <1>6, <1>7, MirrorNewBlock DEF Next

LEMMA MirrorFollows == IInv /\ ChainFacts /\ MirrorInv => MirrorsChain
<1> SUFFICES ASSUME IInv, ChainFacts, MirrorInv, NEW h \in Done,
                    block = 1..h, Done = block, skips = 0, parses = 0, NEW k \in Pair
             PROVE  \/ allowance[k] = GrantsAt(h)[k]
                    \/ /\ GrantsAt(h)[k] = NoRow
                       /\ allowance[k] \in Known(k, h)
                       /\ \A l \in Known(k, h) \ {allowance[k]} : Earlier(l, allowance[k])
                       /\ GoneUnseen(k, allowance[k], h)
  BY DEF MirrorsChain
<1> DEFINE g == GrantsAt(h)[k]
           a == allowance[k]
<1>1. lost = {} /\ \A w \in Worker : job[w].height \notin block
  BY DEF Done, IInv, TypeOK
<1>2. \A w \in Worker : left[w] = {} /\ job[w].height \notin block
  <2>1. \A w \in Worker : job[w] = Idle
    BY <1>1 DEF IInv, StartedOnce
  <2> QED BY <1>1, <2>1, BoundsAssumption DEF MirrorInv, RemovalsReal, Idle, EndBlock
<1>3. h \in 1..Len(chain) /\ h \in Nat /\ ChainFactsAt(k, h) /\ Len(chain) \in Nat
  <2>1. h \in 1..Len(chain) /\ Len(chain) \in Nat
    BY DEF Done, IInv, TypeOK, ChainOK
  <2> QED BY <2>1 DEF ChainFacts
<1>4. \A x \in 1..h :
          /\ \A i \in DOMAIN chain[x].msgs : [height |-> x, idx |-> i] \in handled
          /\ k \in chain[x].expired => [height |-> x, idx |-> EndBlock, pair |-> k] \in handled
  BY <1>1, <1>2 DEF MirrorInv, AllHandled, MsgDone, RemovalDone
<1>5. \A l \in Row : /\ l.height \in Nat /\ l.height >= 1 /\ l.idx \in Nat
                     /\ l.idx # EndBlock /\ l = [height |-> l.height, idx |-> l.idx]
  BY BoundsAssumption DEF Row, Heights, EndBlock
<1>6. RowsNewest /\ \A l \in handled : l.height \in 1..h
  BY <1>1 DEF MirrorInv, InTurn, IInv, InOrder
<1>7. \A l \in Known(k, h) :
          l \in Row /\ l \in handled /\ l.height \in 1..h /\ l \in Grants(k) \cup Revocations(k)
  <2> SUFFICES ASSUME NEW l \in Known(k, h)
               PROVE  l \in Row /\ l \in handled /\ l.height \in 1..h /\ l \in Grants(k) \cup Revocations(k)
    OBVIOUS
  <2>1. /\ l \in Row /\ l.height \in 1..h /\ l.idx \in DOMAIN chain[l.height].msgs
        /\ chain[l.height].msgs[l.idx] \in
               {[type |-> "grant", pair |-> k], [type |-> "revoke", pair |-> k]}
    BY <1>3, <1>5 DEF Known
  <2>2. l \in handled /\ l.idx # EndBlock
    BY <1>4, <1>5, <2>1
  <2> QED BY <2>1, <2>2 DEF Grants, Revocations
<1>8. \A l \in Grants(k) \cup Revocations(k) :
          \/ l \in Known(k, h)
          \/ /\ l.idx = EndBlock /\ l.height \in 1..h /\ k \in chain[l.height].expired
  <2> SUFFICES ASSUME NEW l \in Grants(k) \cup Revocations(k)
               PROVE  \/ l \in Known(k, h)
                      \/ l.idx = EndBlock /\ l.height \in 1..h /\ k \in chain[l.height].expired
    OBVIOUS
  <2>1. l \in handled /\ l.height \in 1..h
    BY <1>6 DEF Grants, Revocations
  <2>2. CASE l.idx = EndBlock
    BY <2>1, <2>2 DEF Grants, Revocations, MirrorInv, RemovalsReal
  <2>3. CASE l.idx # EndBlock
    <3>1. InChain(l) /\ l \in Row
      BY <2>1, <2>3 DEF IInv, PlacesOK, TypeOK, Removal
    <3> QED BY <2>1, <2>3, <3>1 DEF Grants, Revocations, Known, InChain
  <2> QED BY <2>2, <2>3
<1>9. ASSUME NEW l \in Row, NEW m \in Row, Earlier(l, m), Earlier(m, l) PROVE FALSE
  BY <1>5, <1>9 DEF Earlier
<1>10. CASE a # NoRow
  <2>1. a \in Grants(k) /\ a \in handled /\ a.idx # EndBlock
    BY <1>10 DEF IInv, Backed, Grants
  <2>2. a \in Known(k, h) /\ a \in Row /\ IsGrant(k, a)
    BY <1>7, <1>8, <2>1 DEF Grants, IsGrant
  <2>3. \A l \in Known(k, h) \ {a} : Earlier(l, a)
    BY <1>5, <1>6, <1>7, <1>10 DEF RowsNewest, HandledBefore, Earlier
  <2>4. NewestKnown(k, a, h)
    BY <2>2, <2>3 DEF NewestKnown
  <2>5. CASE g # NoRow
    <3>1. g \in Known(k, h) /\ \A l \in Known(k, h) \ {g} : Earlier(l, g)
      BY <1>3, <2>5 DEF ChainFactsAt, NewestKnown
    <3>2. g \in Row
      BY <1>7, <3>1
    <3> HIDE DEF g, a
    <3>3. a = g
      BY <1>9, <2>2, <2>3, <3>1, <3>2
    <3> QED BY <3>3 DEF a, g
  <2>6. CASE g = NoRow
    <3>1. ASSUME NEW x \in (a.height + 1)..h, k \in chain[x].expired PROVE FALSE
      <4> DEFINE e == [height |-> x, idx |-> EndBlock, pair |-> k]
      <4>1. x \in 1..h /\ x > a.height /\ x \in Nat /\ a.height \in Nat
        BY <1>3, <1>5, <2>2, <3>1
      <4>2. e \in handled
        BY <1>4, <3>1, <4>1
      <4>3. e \in Revocations(k) /\ e # a
        BY <2>1, <4>2 DEF Revocations
      <4>4. HandledBefore(e, a)
        BY <1>6, <1>10, <4>3 DEF RowsNewest
      <4> QED BY <4>1, <4>4 DEF HandledBefore
    <3>2. GoneUnseen(k, a, h)
      BY <1>3, <2>2, <2>4, <2>6, <3>1 DEF ChainFactsAt
    <3> QED BY <2>2, <2>3, <2>6, <3>2
  <2> QED BY <2>5, <2>6
<1>11. CASE a = NoRow
  <2> SUFFICES ASSUME g # NoRow PROVE FALSE
    BY <1>11
  <2>1. /\ IsGrant(k, g) /\ g \in Known(k, h)
        /\ \A l \in Known(k, h) \ {g} : Earlier(l, g)
        /\ \A x \in g.height..h : k \notin chain[x].expired
    BY <1>3 DEF ChainFactsAt, NewestKnown
  <2>2. g \in Row /\ g \in handled /\ g.idx # EndBlock /\ g.height \in 1..h
    BY <1>5, <1>7, <2>1
  <2>3. g \in Grants(k)
    BY <2>1, <2>2 DEF Grants, IsGrant
  <2>4. ASSUME NEW l \in (Grants(k) \cup Revocations(k)) \ {g} PROVE Before(l, g)
    <3>1. CASE l \in Known(k, h)
      BY <2>1, <2>4, <3>1 DEF Before, Earlier
    <3>2. CASE l.idx = EndBlock /\ l.height \in 1..h /\ k \in chain[l.height].expired
      <4>1. l.height < g.height
        BY <1>3, <2>1, <2>2, <3>2
      <4> QED BY <4>1 DEF Before
    <3> QED BY <1>8, <2>4, <3>1, <3>2
  <2>5. allowance[k] = g
    BY <2>3, <2>4 DEF IInv, NewestGrantPresent
  <2> QED BY <1>11, <2>5
<1> QED BY <1>10, <1>11

\* removeExpiredFeeGrantAllowances and HandleMsg, by one worker that takes the
\* blocks in order and loses none: between two blocks the table has every grant
\* of the chain, and a row too many only where the grant went in a way that the
\* handlers do not see: by the end of its own block, handled before it, or used
\* up by the fee of a transaction.
THEOREM TableMirrorsChain == OneWorker => (Spec => []MirrorsChain)
<1> SUFFICES ASSUME OneWorker PROVE Spec => []MirrorsChain
  OBVIOUS
<1>1. Init => IInv /\ ChainFacts /\ MirrorInv
  BY IInvInit, ChainFactsInit, MirrorInit
<1>2. IInv /\ ChainFacts /\ MirrorInv /\ [Next]_vars => (IInv /\ ChainFacts /\ MirrorInv)'
  BY IInvStep, ChainFactsNext, MirrorNext
<1> QED BY <1>1, <1>2, MirrorFollows, PTL DEF Spec
=============================================================================
