-------------------------- MODULE PipelineProofs --------------------------
(***************************************************************************)
(* Proofs about the pipeline, for any number of workers, heights, messages,*)
(* days, failures and crashes.                                             *)
(***************************************************************************)
EXTENDS Pipeline, SequenceTheorems, TLAPS

\* The worker holds a height.
Busy(w) == job[w].stage # "idle"

\* A worker goes on to the transaction of a block, and the refetch to that of the
\* first height it has to do, only when the block is stored.
BlocksComeFirst ==
    /\ \A w \in Worker : job[w].stage \notin {"idle", "block"} => job[w].height \in block
    /\ refetch.stage = "tx" =>
            \A h \in refetch.todo : IsFirst(h, refetch.todo) => h \in block

\* A height is in one place: once in the queue or in the hands of one worker.
OneHolder ==
    /\ \A i \in DOMAIN queue : queue[i] < cursor
    /\ \A i, j \in DOMAIN queue : queue[i] = queue[j] => i = j
    /\ \A w \in Worker : Busy(w) => job[w].height < cursor
    /\ \A w \in Worker : Busy(w) => \A i \in DOMAIN queue : queue[i] # job[w].height
    /\ \A v, w \in Worker :
            Busy(v) /\ Busy(w) /\ job[v].height = job[w].height => v = w

\* The messages given to the modules are those of stored blocks, and of a block in
\* the hands of a worker those the worker has come past.
HandledSoFar ==
    /\ \A l \in Place : handled[l] > 0 => l.height \in block
    /\ \A w \in Worker : \A l \in Place :
            Busy(w) /\ l.height = job[w].height /\ handled[l] > 0 =>
                \/ job[w].stage = "message_type" /\ l.idx < job[w].idx
                \/ job[w].stage = "messages" /\ l.idx <= job[w].idx

\* What a worker has come past without a failure is stored.
PassedStored(w) ==
    job[w].stage \in {"message_type", "messages"} /\ job[w].height \notin lost =>
        /\ \A l \in Place : l.height = job[w].height /\ l.idx < job[w].idx => l \in message
        /\ job[w].stage = "messages" => TypeOf(job[w]) \in msgTypes

StoredSoFar == \A w \in Worker : PassedStored(w)

\* Days do not decrease along the chain; a refetch that has computed what is
\* missing has everything of yesterday done or on its list.
YesterdayCovered ==
    /\ \A h, k \in DOMAIN chain : h <= k => chain[h].day <= chain[k].day
    /\ \A h \in DOMAIN chain : chain[h].day <= day
    /\ \A d \in refetched : d <= day
    /\ refetch.stage \in {"block", "tx"} /\ day \notin unlisted =>
          \A h \in DOMAIN chain : chain[h].day = day - 1 => h \in block \cup refetch.todo

-----------------------------------------------------------------------------
(* Types                                                                   *)

\* A block's messages.
LEMMA BlockOfChain ==
    ASSUME TypeOK, NEW h \in DOMAIN chain
    PROVE  /\ chain[h].day \in Nat /\ chain[h].msgs \in Seq(MsgType)
           /\ Len(chain[h].msgs) \in Nat /\ Len(chain[h].msgs) <= MaxMsgs
           /\ DOMAIN chain[h].msgs = 1..Len(chain[h].msgs)
<1>1. chain[h] \in [day: Nat, msgs: Seq(MsgType)]
  <2>1. chain \in Seq([day: Nat, msgs: Seq(MsgType)]) /\ h \in 1..Len(chain)
    BY DEF TypeOK
  <2> QED BY <2>1, ElementOfSeq
<1>2. chain[h].day \in Nat /\ chain[h].msgs \in Seq(MsgType)
  BY <1>1
<1> QED BY <1>2 DEF TypeOK

\* What the next module makes of a worker's job.
LEMMA NextModuleOutcome ==
    ASSUME TypeOK, NEW w \in Worker, job[w].stage \in {"message_type", "messages"}
    PROVE  /\ job[w].stage = "message_type" =>
                 NextModule(job[w]) = At("messages", job[w].height, job[w].idx)
           /\ job[w].stage = "messages" =>
                 \/ /\ NextModule(job[w]) = At("message_type", job[w].height, job[w].idx + 1)
                    /\ job[w].idx + 1 \in DOMAIN chain[job[w].height].msgs
                 \/ /\ NextModule(job[w]) = Idle
                    /\ job[w].idx = Len(chain[job[w].height].msgs)
<1>1. /\ job[w].idx \in DOMAIN chain[job[w].height].msgs
      /\ job[w].height \in DOMAIN chain
  BY DEF TypeOK, JobOK
<1>2. /\ Len(chain[job[w].height].msgs) \in Nat
      /\ DOMAIN chain[job[w].height].msgs = 1..Len(chain[job[w].height].msgs)
  BY <1>1, BlockOfChain
<1>3. ModuleOrder[1] = "message_type" /\ ModuleOrder[2] = "messages"
  BY DEF ModuleOrder
<1> QED BY <1>1, <1>2, <1>3 DEF NextModule

\* The place a worker has come to is a place of the tables.
LEMMA PlaceOfJob ==
    ASSUME TypeOK, NEW w \in Worker, job[w].stage \in {"message_type", "messages"}
    PROVE  /\ job[w].height \in Heights /\ job[w].idx \in 1..MaxMsgs
           /\ TypeOf(job[w]) \in MsgType
<1>1. /\ job[w].height \in DOMAIN chain
      /\ job[w].idx \in DOMAIN chain[job[w].height].msgs
  BY DEF TypeOK, JobOK
<1>2. /\ chain[job[w].height].msgs \in Seq(MsgType)
      /\ Len(chain[job[w].height].msgs) <= MaxMsgs
      /\ DOMAIN chain[job[w].height].msgs = 1..Len(chain[job[w].height].msgs)
  BY <1>1, BlockOfChain
<1>3. DOMAIN chain \subseteq Heights
  BY BoundsAssumption DEF TypeOK, Heights
<1> QED BY <1>1, <1>2, <1>3, BoundsAssumption DEF TypeOf

Typed == TypeOK /\ BlocksComeFirst

LEMMA TypedInit == Init => Typed
<1> SUFFICES ASSUME Init PROVE Typed
  OBVIOUS
<1>1. chain = << >> /\ DOMAIN chain = {} /\ queue \in Seq(DOMAIN chain)
  BY DEF Init
<1>2. TypeOK
  BY <1>1, BoundsAssumption DEF Init, TypeOK, Job, JobOK, Idle, At, NoRefetch
<1>3. BlocksComeFirst
  BY DEF Init, BlocksComeFirst, Idle, At, NoRefetch
<1> QED BY <1>2, <1>3 DEF Typed

\* A step of a worker: what is left to show when it keeps the chain, the clock and the
\* listener.
LEMMA WorkerTyped ==
    ASSUME Typed, NEW w \in Worker, NEW j,
           job' = [job EXCEPT ![w] = j], j \in Job, JobOK(j),
           j.stage \notin {"idle", "block"} => j.height \in block',
           UNCHANGED <<chain, day, cursor, refetch, refetched, unlisted>>,
           queue' \in Seq(DOMAIN chain),
           block \subseteq block', block' \subseteq DOMAIN chain,
           transaction' \subseteq block', msgTypes' \subseteq MsgType,
           message' \subseteq Place, handled' \in [Place -> Nat], lost' \subseteq block'
    PROVE  Typed'
<1>1. job' \in [Worker -> Job] /\ \A v \in Worker : job'[v] = IF v = w THEN j ELSE job[v]
  BY DEF Typed, TypeOK
<1>2. \A v \in Worker : JobOK(job[v])' 
  BY <1>1 DEF Typed, TypeOK, JobOK
<1>3. TypeOK'
  BY <1>1, <1>2 DEF Typed, TypeOK
<1>4. BlocksComeFirst'
  BY <1>1 DEF Typed, BlocksComeFirst, IsFirst
<1> QED BY <1>3, <1>4 DEF Typed

LEMMA TypedNext == Typed /\ [Next]_vars => Typed'
<1> SUFFICES ASSUME Typed, [Next]_vars PROVE Typed'
  OBVIOUS
<1> USE DEF Typed
<1>d. /\ DOMAIN chain = 1..Len(chain) /\ Len(chain) \in Nat
      /\ DOMAIN chain \subseteq Heights
  BY BoundsAssumption DEF TypeOK, Heights
<1>1. CASE NewBlock
  <2>0. PICK n \in 0..MaxMsgs : \E msgs \in [1..n -> MsgType] :
                chain' = Append(chain, [day |-> day, msgs |-> msgs])
    BY <1>1 DEF NewBlock
  <2>1. PICK msgs \in [1..n -> MsgType] :
                chain' = Append(chain, [day |-> day, msgs |-> msgs])
    BY <2>0
  <2>2. msgs \in Seq(MsgType) /\ Len(msgs) <= MaxMsgs
    BY <2>1, BoundsAssumption
  <2>3. [day |-> day, msgs |-> msgs] \in [day: Nat, msgs: Seq(MsgType)]
    BY <2>2 DEF TypeOK
  <2>4. /\ chain' \in Seq([day: Nat, msgs: Seq(MsgType)])
        /\ Len(chain') = Len(chain) + 1
        /\ \A h \in DOMAIN chain : chain'[h] = chain[h]
        /\ chain'[Len(chain) + 1] = [day |-> day, msgs |-> msgs]
        /\ DOMAIN chain' = 1..(Len(chain) + 1)
    BY <2>1, <2>3 DEF TypeOK
  <2>5. Len(chain') <= MaxHeight
    BY <1>1, <1>d, <2>4, BoundsAssumption DEF NewBlock
  <2>6. \A h \in DOMAIN chain' : Len(chain'[h].msgs) <= MaxMsgs
    <3>1. \A h \in DOMAIN chain : Len(chain'[h].msgs) <= MaxMsgs
      BY <2>4, BlockOfChain
    <3>2. Len(chain'[Len(chain) + 1].msgs) <= MaxMsgs
      BY <2>2, <2>4
    <3> QED BY <1>d, <2>4, <3>1, <3>2
  <2>7. DOMAIN chain \subseteq DOMAIN chain'
    BY <1>d, <2>4
  <2>8. queue' \in Seq(DOMAIN chain')
    BY <1>1, <2>7 DEF NewBlock, TypeOK
  <2>9. \A w \in Worker : JobOK(job[w])'
    BY <1>1, <2>4, <2>7 DEF NewBlock, TypeOK, JobOK
  <2>10. TypeOK'
    BY <1>1, <1>d, <2>4, <2>5, <2>6, <2>7, <2>8, <2>9
    DEF NewBlock, TypeOK, tables, history, budgets
  <2>11. BlocksComeFirst'
    BY <1>1 DEF NewBlock, BlocksComeFirst, IsFirst, tables
  <2> QED BY <2>10, <2>11
<1>2. CASE NextDay
  BY <1>2 DEF NextDay, NoRefetch, TypeOK, JobOK, BlocksComeFirst, tables, history
<1>3. CASE EnqueueNewBlock
  <2>1. cursor \in DOMAIN chain
    BY <1>3, <1>d DEF EnqueueNewBlock, TypeOK
  <2>2. queue' \in Seq(DOMAIN chain')
    BY <1>3, <2>1 DEF EnqueueNewBlock, TypeOK
  <2>3. cursor' \in 1..(Len(chain') + 1)
    BY <1>3, <1>d DEF EnqueueNewBlock, TypeOK
  <2>4. TypeOK'
    BY <1>3, <2>2, <2>3 DEF EnqueueNewBlock, TypeOK, JobOK, tables, history
  <2>5. BlocksComeFirst'
    BY <1>3 DEF EnqueueNewBlock, BlocksComeFirst, IsFirst, tables
  <2> QED BY <2>4, <2>5
<1>4. ASSUME NEW w \in Worker,
             WorkerStep(w) \/ FetchFails(w) \/ SaveTxFails(w) \/ ModuleFails(w)
      PROVE  Typed'
  <2>0. /\ Idle \in Job /\ JobOK(Idle) /\ Idle.stage = "idle"
        /\ job \in [Worker -> Job] /\ job[w] \in Job /\ JobOK(job[w])
        /\ queue \in Seq(DOMAIN chain) /\ handled \in [Place -> Nat]
    BY DEF Idle, At, Job, JobOK, TypeOK
  <2>1. CASE Take(w)
    <3>1. Head(queue) \in DOMAIN chain /\ queue' \in Seq(DOMAIN chain)
      BY <2>0, <2>1 DEF Take
    <3>2. CASE Exists(Head(queue))
      BY <2>1, <3>1, <3>2 DEF Take, TypeOK, BlocksComeFirst, JobOK, IsFirst, tables, history
    <3>3. CASE ~Exists(Head(queue))
      <4> DEFINE j == At("block", Head(queue), 0)
      <4>1. j \in Job /\ JobOK(j) /\ j.stage = "block"
        BY <1>d, <3>1 DEF Job, JobOK, At
      <4>2. job' = [job EXCEPT ![w] = j]
        BY <2>1, <3>3 DEF Take
      <4>3. UNCHANGED <<chain, day, cursor, tables, refetch, history>>
        BY <2>1 DEF Take
      <4> HIDE DEF j
      <4> QED BY <3>1, <4>1, <4>2, <4>3, WorkerTyped DEF TypeOK, tables, history
    <3> QED BY <3>2, <3>3
  <2>2. CASE SaveBlock(w)
    <3>1. job[w].height \in DOMAIN chain /\ block' = block \cup {job[w].height}
      BY <2>0, <2>2 DEF SaveBlock, JobOK
    <3>2. CASE chain[job[w].height].msgs = << >>
      <4>1. job' = [job EXCEPT ![w] = Idle]
        BY <2>0, <2>2, <3>2 DEF SaveBlock
      <4> QED BY <2>0, <2>2, <3>1, <4>1, WorkerTyped DEF SaveBlock, TypeOK, history
    <3>3. CASE chain[job[w].height].msgs # << >>
      <4> DEFINE j == At("tx", job[w].height, 0)
      <4>1. j \in Job /\ JobOK(j) /\ j.stage = "tx" /\ j.height = job[w].height
        BY <2>0, <3>1, <3>3 DEF Job, JobOK, At
      <4>2. job' = [job EXCEPT ![w] = j]
        BY <2>0, <2>2, <3>3 DEF SaveBlock
      <4> HIDE DEF j
      <4> QED BY <2>0, <2>2, <3>1, <4>1, <4>2, WorkerTyped DEF SaveBlock, TypeOK, history
    <3> QED BY <3>2, <3>3
  <2>3. CASE SaveTx(w)
    <3>1. job[w].height \in DOMAIN chain /\ job[w].height \in block
      BY <2>0, <2>3 DEF SaveTx, JobOK, BlocksComeFirst
    <3>2. /\ chain[job[w].height].msgs # << >>
          /\ chain[job[w].height].msgs \in Seq(MsgType)
      BY <2>0, <2>3, <3>1, BlockOfChain DEF SaveTx, JobOK
    <3> DEFINE j == At("message_type", job[w].height, 1)
    <3>3. j \in Job /\ JobOK(j) /\ j.height = job[w].height
      BY <2>0, <3>1, <3>2 DEF Job, JobOK, At
    <3>4. job' = [job EXCEPT ![w] = j]
      BY <2>0, <2>3 DEF SaveTx, ModuleOrder
    <3> HIDE DEF j
    <3> QED BY <2>3, <3>1, <3>3, <3>4, <2>0, WorkerTyped DEF SaveTx, TypeOK, history
  <2>4. ASSUME job[w].stage \in {"message_type", "messages"}
        PROVE  /\ NextModule(job[w]) \in Job /\ JobOK(NextModule(job[w]))
               /\ NextModule(job[w]).stage # "idle"
                       => NextModule(job[w]).height = job[w].height
               /\ job[w].height \in block
    <3>1. job[w].height \in block /\ job[w].height \in DOMAIN chain
          /\ job[w].idx \in DOMAIN chain[job[w].height].msgs
      BY <2>4, <2>0 DEF BlocksComeFirst, JobOK
    <3>2. CASE NextModule(job[w]) = Idle
      BY <2>0, <3>1, <3>2
    <3>3. CASE NextModule(job[w]) = At("messages", job[w].height, job[w].idx)
      BY <2>0, <3>1, <3>3 DEF Job, JobOK, At
    <3>4. CASE /\ NextModule(job[w]) = At("message_type", job[w].height, job[w].idx + 1)
               /\ job[w].idx + 1 \in DOMAIN chain[job[w].height].msgs
      BY <2>0, <3>1, <3>4 DEF Job, JobOK, At
    <3> QED BY <2>4, <3>2, <3>3, <3>4, NextModuleOutcome
  <2>5. CASE HandleMsgMessageType(w)
    <3>1. job[w].stage \in {"message_type", "messages"}
      BY <2>5 DEF HandleMsgMessageType
    <3>2. TypeOf(job[w]) \in MsgType
      BY <3>1, PlaceOfJob
    <3>3. handled' \in [Place -> Nat]
      <4>1. [height |-> job[w].height, idx |-> job[w].idx] \in Place
        BY <3>1, PlaceOfJob DEF Place
      <4>2. handled[[height |-> job[w].height, idx |-> job[w].idx]] + 1 \in Nat
        BY <2>0, <4>1
      <4> QED BY <2>0, <2>5, <4>1, <4>2 DEF HandleMsgMessageType
    <3>4. job' = [job EXCEPT ![w] = NextModule(job[w])]
      BY <2>0, <2>5 DEF HandleMsgMessageType
    <3> QED BY <2>0, <2>4, <2>5, <3>1, <3>2, <3>3, <3>4, WorkerTyped
            DEF HandleMsgMessageType, TypeOK
  <2>6. CASE HandleMsgMessages(w)
    <3>1. job[w].stage \in {"message_type", "messages"}
      BY <2>6 DEF HandleMsgMessages
    <3>2. [height |-> job[w].height, idx |-> job[w].idx] \in Place
      BY <3>1, PlaceOfJob DEF Place
    <3>3. message' \subseteq Place
      BY <2>6, <3>2 DEF HandleMsgMessages, TypeOK
    <3>4. job' = [job EXCEPT ![w] = NextModule(job[w])]
      BY <2>0, <2>6 DEF HandleMsgMessages
    <3> QED BY <2>0, <2>4, <2>6, <3>1, <3>3, <3>4, WorkerTyped
            DEF HandleMsgMessages, TypeOK, history
  <2>7. CASE FetchFails(w)
    <3>1. job[w].height \in DOMAIN chain
      BY <2>0, <2>7 DEF FetchFails, JobOK
    <3>2. queue' \in Seq(DOMAIN chain)
      BY <2>0, <2>7, <3>1 DEF FetchFails, Requeue
    <3> QED BY <2>0, <2>7, <3>2, WorkerTyped DEF FetchFails, TypeOK, tables, history
  <2>8. CASE SaveTxFails(w)
    <3>1. job[w].height \in DOMAIN chain /\ job[w].height \in block
      BY <2>0, <2>8 DEF SaveTxFails, JobOK, BlocksComeFirst
    <3>2. queue' \in Seq(DOMAIN chain)
      BY <2>0, <2>8, <3>1 DEF SaveTxFails, Requeue
    <3> QED BY <2>0, <2>8, <3>1, <3>2, WorkerTyped DEF SaveTxFails, TypeOK, tables
  <2>9. CASE ModuleFails(w)
    <3>1. job[w].stage \in {"message_type", "messages"}
      BY <2>9 DEF ModuleFails
    <3>2. job' = [job EXCEPT ![w] = NextModule(job[w])]
      BY <2>0, <2>9 DEF ModuleFails
    <3> QED BY <2>0, <2>4, <2>9, <3>1, <3>2, WorkerTyped DEF ModuleFails, TypeOK, tables
  <2> QED BY <1>4, <2>1, <2>2, <2>3, <2>5, <2>6, <2>7, <2>8, <2>9 DEF WorkerStep
<1>5. CASE Refetch \/ MissingBlocksUnread \/ RefetchFails
  <2>1. CASE RefetchStart
    <3>2. PICK h \in DayOld :
               refetch' = [stage |-> "block", todo |-> MissingBlocks(h, Len(chain))]
      BY <2>1 DEF RefetchStart
    <3>3. h \in DOMAIN chain
      BY <3>2 DEF DayOld, TypeOK
    <3>4. MissingBlocks(h, Len(chain)) \in SUBSET (DOMAIN chain)
      BY <1>d, <3>3 DEF MissingBlocks
    <3> QED BY <2>1, <3>2, <3>4
            DEF RefetchStart, TypeOK, JobOK, BlocksComeFirst, tables, history
  <2>2. CASE RefetchTooEarly
    BY <2>2 DEF RefetchTooEarly, NoRefetch, TypeOK, JobOK, BlocksComeFirst, tables, history
  <2>3. CASE RefetchBlock
    <3>1. PICK h \in refetch.todo :
              /\ IsFirst(h, refetch.todo)
              /\ block' = block \cup {h}
              /\ refetch' = IF chain[h].msgs = << >>
                            THEN [refetch EXCEPT !.todo = refetch.todo \ {h}]
                            ELSE [refetch EXCEPT !.stage = "tx"]
      BY <2>3 DEF RefetchBlock
    <3>2. h \in DOMAIN chain /\ refetch.todo \subseteq Nat
      BY <1>d, <3>1 DEF TypeOK
    <3>3. TypeOK'
      BY <2>3, <3>1, <3>2 DEF RefetchBlock, TypeOK, JobOK, history
    <3>4. refetch'.stage = "tx" =>
              \A k \in refetch'.todo : IsFirst(k, refetch'.todo) => k = h
      BY <2>3, <3>1, <3>2 DEF RefetchBlock, TypeOK, IsFirst
    <3>5. BlocksComeFirst'
      BY <2>3, <3>1, <3>4 DEF RefetchBlock, BlocksComeFirst, IsFirst
    <3> QED BY <3>3, <3>5
  <2>4. CASE RefetchTx
    BY <2>4 DEF RefetchTx, TypeOK, JobOK, BlocksComeFirst, history
  <2>5. CASE RefetchFails
    BY <2>5 DEF RefetchFails, NoRefetch, TypeOK, JobOK, BlocksComeFirst, tables, history
  <2>6. CASE RefetchEnd
    BY <2>6 DEF RefetchEnd, NoRefetch, TypeOK, JobOK, BlocksComeFirst, tables, history
  <2>7. CASE MissingBlocksUnread
    BY <2>7 DEF MissingBlocksUnread, TypeOK, JobOK, BlocksComeFirst, tables
  <2> QED BY <1>5, <2>1, <2>2, <2>3, <2>4, <2>5, <2>6, <2>7 DEF Refetch
<1>6. CASE Crash
  <2>1. {job[w].height : w \in {v \in Worker : job[v].stage \notin {"idle", "block"}}}
            \subseteq block
    BY DEF BlocksComeFirst
  <2>2. job' \in [Worker -> Job] /\ \A w \in Worker : job'[w] = Idle
    BY <1>6 DEF Crash, Idle, At, Job
  <2>3. cursor' \in 1..(Len(chain') + 1)
    BY <1>6, <1>d DEF Crash, TypeOK
  <2>4. queue' \in Seq(DOMAIN chain')
    BY <1>6 DEF Crash
  <2>5. TypeOK'
    BY <1>6, <2>1, <2>2, <2>3, <2>4 DEF Crash, TypeOK, JobOK, Idle, At, NoRefetch, tables
  <2>6. BlocksComeFirst'
    BY <1>6, <2>2 DEF Crash, BlocksComeFirst, Idle, At, NoRefetch
  <2> QED BY <2>5, <2>6
<1>7. CASE UNCHANGED vars
  BY <1>7 DEF vars, tables, history, budgets, TypeOK, JobOK, BlocksComeFirst, IsFirst,
              Place, Heights
<1> QED BY <1>1, <1>2, <1>3, <1>4, <1>5, <1>6, <1>7 DEF Next

\* Variables have their types; a transaction is stored after its block, and a message
\* the workers are at is one of the chain.
THEOREM TypeCorrect == Spec => []TypeOK
<1>1. Spec => []Typed
  BY TypedInit, TypedNext, PTL DEF Spec
<1> QED BY <1>1, PTL DEF Typed

-----------------------------------------------------------------------------
(* A height is in one place.                                               *)

\* Workers that only go on with their blocks, or put them away.
LEMMA WorkersGoOn ==
    ASSUME Typed, OneHolder, UNCHANGED <<queue, cursor>>,
           \A v \in Worker : job'[v].stage # "idle" =>
                Busy(v) /\ job'[v].height = job[v].height
    PROVE  OneHolder'
BY DEF OneHolder, Busy

\* What a step of a worker does to its own job and to the others'.
LEMMA JobsOfOthers ==
    ASSUME Typed, NEW w \in Worker, NEW j, job' = [job EXCEPT ![w] = j]
    PROVE  \A v \in Worker : job'[v] = IF v = w THEN j ELSE job[v]
BY DEF Typed, TypeOK

\* A worker that gives its height back to the queue.
LEMMA GivenBack ==
    ASSUME Typed, OneHolder, NEW w \in Worker, Busy(w),
           queue' = Requeue(job[w].height), job' = [job EXCEPT ![w] = Idle],
           UNCHANGED cursor
    PROVE  OneHolder'
<1>1. queue \in Seq(DOMAIN chain) /\ job[w].height \in DOMAIN chain
  BY DEF Typed, TypeOK, JobOK, Busy
<1>2. /\ Len(queue) \in Nat /\ DOMAIN queue = 1..Len(queue)
      /\ DOMAIN queue' = 1..(Len(queue) + 1)
      /\ \A i \in DOMAIN queue : queue'[i] = queue[i]
      /\ queue'[Len(queue) + 1] = job[w].height
  BY <1>1 DEF Requeue
<1>3. \A v \in Worker : job'[v] = IF v = w THEN Idle ELSE job[v]
  BY JobsOfOthers
<1>4. \A v \in Worker : job'[v].stage # "idle" => v # w /\ job'[v] = job[v] /\ Busy(v)
  BY <1>3 DEF Idle, At, Busy
<1>5. \A i \in DOMAIN queue' : queue'[i] < cursor
  BY <1>2 DEF OneHolder
<1>6. \A i, k \in DOMAIN queue' : queue'[i] = queue'[k] => i = k
  BY <1>2 DEF OneHolder
<1>7. \A v \in Worker : job'[v].stage # "idle" =>
            \A i \in DOMAIN queue' : queue'[i] # job'[v].height
  BY <1>2, <1>4 DEF OneHolder
<1> QED BY <1>4, <1>5, <1>6, <1>7 DEF OneHolder, Busy

LEMMA OneHolderInit == Init => OneHolder
BY DEF Init, OneHolder, Busy, Idle, At

LEMMA OneHolderNext == Typed /\ OneHolder /\ [Next]_vars => OneHolder'
<1> SUFFICES ASSUME Typed, OneHolder, [Next]_vars PROVE OneHolder'
  OBVIOUS
<1>q. queue \in Seq(DOMAIN chain) /\ Len(queue) \in Nat /\ DOMAIN queue = 1..Len(queue)
  BY DEF Typed, TypeOK
<1>1. CASE NewBlock \/ NextDay \/ Refetch \/ MissingBlocksUnread \/ RefetchFails \/ UNCHANGED vars
  <2>1. UNCHANGED <<queue, cursor, job>>
    BY <1>1 DEF NewBlock, NextDay, Refetch, RefetchStart, MissingBlocksUnread, RefetchTooEarly, RefetchBlock,
                RefetchTx, RefetchFails, RefetchEnd, vars
  <2> QED BY <2>1, WorkersGoOn DEF Busy
<1>2. CASE EnqueueNewBlock
  <2>1. /\ DOMAIN queue' = 1..(Len(queue) + 1)
        /\ \A i \in DOMAIN queue : queue'[i] = queue[i]
        /\ queue'[Len(queue) + 1] = cursor
        /\ cursor' = cursor + 1 /\ cursor \in Nat /\ job' = job
    <3>1. cursor \in DOMAIN chain
      BY <1>2 DEF EnqueueNewBlock, Typed, TypeOK
    <3> QED BY <1>2, <1>q, <3>1 DEF EnqueueNewBlock, Typed, TypeOK
  <2>2. \A i \in DOMAIN queue : queue[i] \in Nat /\ queue[i] < cursor
    BY <1>q, ElementOfSeq DEF OneHolder, Typed, TypeOK
  <2>3. \A v \in Worker : Busy(v) => job[v].height \in Nat /\ job[v].height < cursor
    BY DEF OneHolder, Typed, TypeOK, JobOK, Busy
  <2>4. \A i \in DOMAIN queue' : queue'[i] < cursor'
    BY <1>q, <2>1, <2>2
  <2>5. \A i, k \in DOMAIN queue' : queue'[i] = queue'[k] => i = k
    BY <1>q, <2>1, <2>2 DEF OneHolder
  <2>6. \A v \in Worker : Busy(v) => /\ job[v].height < cursor'
                                     /\ \A i \in DOMAIN queue' : queue'[i] # job[v].height
    BY <1>q, <2>1, <2>3 DEF OneHolder
  <2> QED BY <2>1, <2>4, <2>5, <2>6 DEF OneHolder, Busy
<1>3. ASSUME NEW w \in Worker,
             WorkerStep(w) \/ FetchFails(w) \/ SaveTxFails(w) \/ ModuleFails(w)
      PROVE  OneHolder'
  <2>1. CASE Take(w)
    <3>1. /\ DOMAIN queue' = 1..(Len(queue) - 1)
          /\ \A i \in DOMAIN queue' : queue'[i] = queue[i + 1]
          /\ Head(queue) = queue[1] /\ Len(queue) >= 1
          /\ cursor' = cursor
      BY <1>q, <2>1 DEF Take
    <3>2. \A i \in DOMAIN queue' : i \in Nat /\ i + 1 \in DOMAIN queue /\ 1 \in DOMAIN queue
      BY <1>q, <3>1
    <3>3. \A i \in DOMAIN queue' : queue'[i] < cursor /\ queue'[i] # Head(queue)
      BY <3>1, <3>2 DEF OneHolder
    <3>4. \A i, k \in DOMAIN queue' : queue'[i] = queue'[k] => i = k
      BY <3>1, <3>2 DEF OneHolder
    <3>5. CASE job' = job
      BY <3>1, <3>2, <3>3, <3>4, <3>5 DEF OneHolder, Busy
    <3>6. CASE job' = [job EXCEPT ![w] = At("block", Head(queue), 0)]
      <4>1. \A v \in Worker : job'[v] = IF v = w THEN At("block", Head(queue), 0) ELSE job[v]
        BY <3>6, JobsOfOthers
      <4>2. \A v \in Worker : job'[v].stage # "idle" =>
                IF v = w THEN job'[v].height = queue[1]
                ELSE Busy(v) /\ job'[v].height = job[v].height
        BY <3>1, <4>1 DEF At, Busy
      <4>3. \A v \in Worker : job'[v].stage # "idle" => /\ job'[v].height < cursor
                /\ \A i \in DOMAIN queue' : queue'[i] # job'[v].height
        BY <1>q, <3>1, <3>2, <3>3, <4>2 DEF OneHolder
      <4>4. \A v \in Worker : Busy(v) => queue[1] # job[v].height
        BY <1>q, <3>1 DEF OneHolder
      <4>5. \A u, v \in Worker : /\ job'[u].stage # "idle" /\ job'[v].stage # "idle"
                                /\ job'[u].height = job'[v].height => u = v
        BY <4>2, <4>4 DEF OneHolder
      <4> QED BY <3>1, <3>3, <3>4, <4>3, <4>5 DEF OneHolder, Busy
    <3> QED BY <2>1, <3>5, <3>6 DEF Take
  <2>2. CASE SaveBlock(w)
    <3> DEFINE j == IF chain[job[w].height].msgs = << >> THEN Idle ELSE At("tx", job[w].height, 0)
    <3>1. job' = [job EXCEPT ![w] = j] /\ UNCHANGED <<queue, cursor>> /\ Busy(w)
      BY <2>2 DEF SaveBlock, Busy
    <3>2. j.stage # "idle" => j.height = job[w].height
      BY DEF Idle, At
    <3> HIDE DEF j
    <3> QED BY <3>1, <3>2, JobsOfOthers, WorkersGoOn DEF Busy
  <2>3. CASE SaveTx(w)
    <3> DEFINE j == At(ModuleOrder[1], job[w].height, 1)
    <3>1. job' = [job EXCEPT ![w] = j] /\ UNCHANGED <<queue, cursor>> /\ Busy(w)
      BY <2>3 DEF SaveTx, Busy
    <3>2. j.height = job[w].height
      BY DEF At
    <3> HIDE DEF j
    <3> QED BY <3>1, <3>2, JobsOfOthers, WorkersGoOn DEF Busy
  <2>4. CASE HandleMsgMessageType(w) \/ HandleMsgMessages(w) \/ ModuleFails(w)
    <3> DEFINE j == NextModule(job[w])
    <3>1. /\ job' = [job EXCEPT ![w] = j] /\ UNCHANGED <<queue, cursor>>
          /\ job[w].stage \in {"message_type", "messages"}
      BY <2>4 DEF HandleMsgMessageType, HandleMsgMessages, ModuleFails
    <3>2. j.stage # "idle" => j.height = job[w].height
      <4>1. \/ j = At("messages", job[w].height, job[w].idx)
            \/ j = At("message_type", job[w].height, job[w].idx + 1)
            \/ j = Idle
        BY <3>1, NextModuleOutcome DEF Typed
      <4> HIDE DEF j
      <4> QED BY <4>1 DEF Idle, At
    <3> HIDE DEF j
    <3> QED BY <3>1, <3>2, JobsOfOthers, WorkersGoOn DEF Busy
  <2>5. CASE FetchFails(w) \/ SaveTxFails(w)
    <3>1. /\ Busy(w) /\ queue' = Requeue(job[w].height)
          /\ job' = [job EXCEPT ![w] = Idle] /\ cursor' = cursor
      BY <2>5 DEF FetchFails, SaveTxFails, Busy
    <3> QED BY <3>1, GivenBack
  <2> QED BY <1>3, <2>1, <2>2, <2>3, <2>4, <2>5 DEF WorkerStep
<1>4. CASE Crash
  BY <1>4 DEF Crash, OneHolder, Busy, Idle, At
<1> QED BY <1>1, <1>2, <1>3, <1>4 DEF Next

-----------------------------------------------------------------------------
(* The modules see a message once.                                         *)

\* Steps that give no message to the modules, only add blocks, and in which workers
\* go on from where they are, or stop, or take up a block that is not stored.
LEMMA NothingHandled ==
    ASSUME Typed, HandledSoFar, UNCHANGED handled, block \subseteq block',
           \A w \in Worker : job'[w].stage # "idle" =>
              \/ job'[w].height \notin block
              \/ /\ Busy(w) /\ job'[w].height = job[w].height
                 /\ \/ job'[w].stage = job[w].stage /\ job'[w].idx = job[w].idx
                    \/ job[w].stage \in {"block", "tx"}
                    \/ job[w].stage = "message_type" /\ job'[w].stage = "messages"
                       /\ job'[w].idx = job[w].idx
                    \/ job[w].stage = "messages" /\ job'[w].stage = "message_type"
                       /\ job'[w].idx = job[w].idx + 1
    PROVE  HandledSoFar'
<1>1. \A l \in Place : handled'[l] > 0 => l.height \in block'
  BY DEF HandledSoFar
<1>2. ASSUME NEW w \in Worker, NEW l \in Place, job'[w].stage # "idle",
             l.height = job'[w].height, handled'[l] > 0
      PROVE  \/ job'[w].stage = "message_type" /\ l.idx < job'[w].idx
             \/ job'[w].stage = "messages" /\ l.idx <= job'[w].idx
  <2>1. l.height \in block /\ handled[l] > 0
    BY <1>2 DEF HandledSoFar
  <2>2. Busy(w) /\ job'[w].height = job[w].height
    BY <1>2, <2>1
  <2>3. \/ job[w].stage = "message_type" /\ l.idx < job[w].idx
        \/ job[w].stage = "messages" /\ l.idx <= job[w].idx
    BY <1>2, <2>1, <2>2 DEF HandledSoFar
  <2>4. l.idx \in Nat /\ job[w].idx \in Nat
    BY DEF Place, Typed, TypeOK, Job
  <2> QED BY <1>2, <2>1, <2>3, <2>4
<1> QED BY <1>1, <1>2 DEF HandledSoFar, Busy

HandledInv == HandledSoFar /\ HandledAtMostOnce

LEMMA HandledInit == Init => HandledInv
BY DEF Init, HandledInv, HandledSoFar, HandledAtMostOnce, Busy, Idle, At

LEMMA HandledNext == Typed /\ OneHolder /\ HandledInv /\ [Next]_vars => HandledInv'
<1> SUFFICES ASSUME Typed, OneHolder, HandledInv, [Next]_vars PROVE HandledInv'
  OBVIOUS
<1> USE DEF HandledInv
<1>1. CASE NewBlock \/ NextDay \/ EnqueueNewBlock \/ Refetch \/ MissingBlocksUnread \/ RefetchFails
           \/ UNCHANGED vars
  <2>1. UNCHANGED <<job, handled>> /\ block \subseteq block'
    BY <1>1 DEF NewBlock, NextDay, EnqueueNewBlock, Refetch, RefetchStart, MissingBlocksUnread, RefetchTooEarly,
                RefetchBlock, RefetchTx, RefetchFails, RefetchEnd, vars, tables, history
  <2>2. HandledSoFar'
    BY <2>1, NothingHandled DEF Busy
  <2> QED BY <2>1, <2>2 DEF HandledAtMostOnce
<1>2. ASSUME NEW w \in Worker,
             WorkerStep(w) \/ FetchFails(w) \/ SaveTxFails(w) \/ ModuleFails(w)
      PROVE  HandledInv'
  <2>1. CASE Take(w)
    <3>1. UNCHANGED <<handled, block>>
      BY <2>1 DEF Take, tables, history
    <3>2. CASE job' = job
      BY <3>1, <3>2, NothingHandled DEF Busy, HandledAtMostOnce
    <3>3. CASE job' = [job EXCEPT ![w] = At("block", Head(queue), 0)] /\ ~Exists(Head(queue))
      <4>1. \A v \in Worker : job'[v] = IF v = w THEN At("block", Head(queue), 0) ELSE job[v]
        BY <3>3, JobsOfOthers
      <4>2. HandledSoFar'
        BY <3>1, <3>3, <4>1, NothingHandled DEF Busy, At, Exists
      <4> QED BY <3>1, <4>2 DEF HandledAtMostOnce
    <3> QED BY <2>1, <3>2, <3>3 DEF Take
  <2>2. CASE SaveBlock(w)
    <3> DEFINE j == IF chain[job[w].height].msgs = << >> THEN Idle ELSE At("tx", job[w].height, 0)
    <3>1. /\ job' = [job EXCEPT ![w] = j] /\ handled' = handled /\ block \subseteq block'
          /\ job[w].stage = "block"
      BY <2>2 DEF SaveBlock, history
    <3>2. j.stage # "idle" => j.height = job[w].height
      BY DEF Idle, At
    <3> HIDE DEF j
    <3>3. HandledSoFar'
      BY <3>1, <3>2, JobsOfOthers, NothingHandled DEF Busy
    <3> QED BY <3>1, <3>3 DEF HandledAtMostOnce
  <2>3. CASE SaveTx(w)
    <3> DEFINE j == At(ModuleOrder[1], job[w].height, 1)
    <3>1. /\ job' = [job EXCEPT ![w] = j] /\ UNCHANGED <<handled, block>>
          /\ job[w].stage = "tx"
      BY <2>3 DEF SaveTx, history
    <3>2. j.height = job[w].height
      BY DEF At
    <3> HIDE DEF j
    <3>3. HandledSoFar'
      BY <3>1, <3>2, JobsOfOthers, NothingHandled DEF Busy
    <3> QED BY <3>1, <3>3 DEF HandledAtMostOnce
  <2>4. CASE HandleMsgMessages(w) \/ ModuleFails(w)
    <3> DEFINE j == NextModule(job[w])
    <3>1. /\ job' = [job EXCEPT ![w] = j] /\ UNCHANGED <<handled, block>>
          /\ job[w].stage \in {"message_type", "messages"}
      BY <2>4 DEF HandleMsgMessages, ModuleFails, history, tables
    <3>2. \/ /\ job[w].stage = "message_type"
             /\ j.stage = "messages" /\ j.height = job[w].height /\ j.idx = job[w].idx
          \/ /\ job[w].stage = "messages"
             /\ j.stage = "message_type" /\ j.height = job[w].height
             /\ j.idx = job[w].idx + 1
          \/ j.stage = "idle"
      <4>1. \/ /\ job[w].stage = "message_type"
               /\ j = At("messages", job[w].height, job[w].idx)
            \/ /\ job[w].stage = "messages"
               /\ j = At("message_type", job[w].height, job[w].idx + 1)
            \/ j = Idle
        BY <3>1, NextModuleOutcome DEF Typed
      <4> HIDE DEF j
      <4> QED BY <3>1, <4>1 DEF Idle, At
    <3> HIDE DEF j
    <3>3. HandledSoFar'
      BY <3>1, <3>2, JobsOfOthers, NothingHandled DEF Busy
    <3> QED BY <3>1, <3>3 DEF HandledAtMostOnce
  <2>5. CASE HandleMsgMessageType(w)
    <3> DEFINE p == [height |-> job[w].height, idx |-> job[w].idx]
    <3>1. /\ job[w].stage = "message_type" /\ UNCHANGED block
          /\ handled' = [handled EXCEPT ![p] = handled[p] + 1]
          /\ job' = [job EXCEPT ![w] = NextModule(job[w])]
      BY <2>5 DEF HandleMsgMessageType
    <3>2. NextModule(job[w]) = At("messages", job[w].height, job[w].idx)
      BY <3>1, NextModuleOutcome DEF Typed
    <3>3. p \in Place /\ p.height = job[w].height /\ p.idx = job[w].idx
      BY <3>1, PlaceOfJob DEF Place, Typed
    <3>4. handled \in [Place -> Nat] /\ job[w].height \in block /\ job[w].idx \in Nat
      BY <3>1 DEF Typed, TypeOK, BlocksComeFirst, Job
    <3>5. \A l \in Place : handled'[l] = IF l = p THEN handled[l] + 1 ELSE handled[l]
      BY <3>1, <3>3, <3>4
    <3>6. handled[p] = 0
      <4>1. ~(handled[p] > 0)
        BY <3>1, <3>3, <3>4 DEF HandledSoFar, Busy
      <4> QED BY <3>3, <3>4, <4>1
    <3>7. HandledAtMostOnce'
      BY <3>5, <3>6 DEF HandledAtMostOnce
    <3>8. \A l \in Place : handled'[l] > 0 => l.height \in block'
      BY <3>1, <3>3, <3>4, <3>5 DEF HandledSoFar
    <3>9. \A v \in Worker : job'[v] =
              IF v = w THEN At("messages", job[w].height, job[w].idx) ELSE job[v]
      BY <3>1, <3>2, JobsOfOthers
    <3>10. ASSUME NEW v \in Worker, NEW l \in Place, job'[v].stage # "idle",
                  l.height = job'[v].height, handled'[l] > 0
           PROVE  \/ job'[v].stage = "message_type" /\ l.idx < job'[v].idx
                  \/ job'[v].stage = "messages" /\ l.idx <= job'[v].idx
      <4>1. CASE v = w
        <5>1. /\ job'[v].stage = "messages" /\ job'[v].idx = job[w].idx
              /\ l.height = job[w].height
          BY <3>9, <3>10, <4>1 DEF At
        <5>2. CASE l = p
          BY <3>3, <3>4, <5>1, <5>2
        <5>3. CASE l # p
          <6>1. handled[l] > 0
            BY <3>5, <3>10, <5>3
          <6>2. l.idx < job[w].idx
            BY <3>1, <5>1, <6>1 DEF HandledSoFar, Busy
          <6> QED BY <3>4, <5>1, <6>2 DEF Place
        <5> QED BY <5>2, <5>3
      <4>2. CASE v # w
        <5>1. job'[v] = job[v]
          BY <3>9, <4>2
        <5>2. job[v].height # job[w].height
          BY <3>1, <3>10, <4>2, <5>1 DEF OneHolder, Busy
        <5>3. handled[l] > 0
          BY <3>3, <3>5, <3>10, <5>1, <5>2
        <5> QED BY <3>10, <5>1, <5>3 DEF HandledSoFar, Busy
      <4> QED BY <4>1, <4>2
    <3> QED BY <3>7, <3>8, <3>10 DEF HandledSoFar, Busy
  <2>6. CASE FetchFails(w) \/ SaveTxFails(w)
    <3>1. /\ job' = [job EXCEPT ![w] = Idle] /\ UNCHANGED <<handled, block>>
      BY <2>6 DEF FetchFails, SaveTxFails, tables, history
    <3>2. \A v \in Worker : job'[v] = IF v = w THEN Idle ELSE job[v]
      BY <3>1, JobsOfOthers
    <3>3. \A v \in Worker : job'[v].stage # "idle" => job'[v] = job[v] /\ Busy(v)
      BY <3>2 DEF Idle, At, Busy
    <3>4. HandledSoFar'
      BY <3>1, <3>3, NothingHandled
    <3> QED BY <3>1, <3>4 DEF HandledAtMostOnce
  <2> QED BY <1>2, <2>1, <2>2, <2>3, <2>4, <2>5, <2>6 DEF WorkerStep
<1>3. CASE Crash
  <2>1. UNCHANGED <<handled, block>> /\ \A v \in Worker : job'[v].stage = "idle"
    BY <1>3 DEF Crash, Idle, At, tables
  <2> QED BY <2>1, NothingHandled DEF HandledAtMostOnce
<1> QED BY <1>1, <1>2, <1>3 DEF Next

\* The modules see a message once, however workers, failures, restarts and the refetch
\* interleave.
THEOREM MessagesHandledOnce == Spec => []HandledAtMostOnce
<1>1. Init => Typed /\ OneHolder /\ HandledInv
  BY TypedInit, OneHolderInit, HandledInit
<1>2. Typed /\ OneHolder /\ HandledInv /\ [Next]_vars => (Typed /\ OneHolder /\ HandledInv)'
  BY TypedNext, OneHolderNext, HandledNext
<1>3. HandledInv => HandledAtMostOnce
  BY DEF HandledInv
<1> QED BY <1>1, <1>2, <1>3, PTL DEF Spec

-----------------------------------------------------------------------------
(* No message row is refused for want of its type.                         *)

\* Blocks of the chain do not change, nothing is taken out of the tables, and what is
\* known to be lost stays known.
Grows ==
    /\ \A h \in DOMAIN chain : h \in DOMAIN chain' /\ chain'[h] = chain[h]
    /\ block \subseteq block' /\ msgTypes \subseteq msgTypes' /\ message \subseteq message'
    /\ lost \subseteq lost'

LEMMA EveryStepGrows == Typed /\ [Next]_vars => Grows
<1> SUFFICES ASSUME Typed, [Next]_vars PROVE Grows
  OBVIOUS
<1>1. CASE NewBlock
  <2>1. PICK b : chain' = Append(chain, b)
    BY <1>1 DEF NewBlock
  <2>2. \A h \in DOMAIN chain : h \in DOMAIN chain' /\ chain'[h] = chain[h]
    BY <2>1 DEF Typed, TypeOK
  <2> QED BY <1>1, <2>2 DEF NewBlock, Grows, tables, history
<1>2. CASE ~NewBlock
  BY <1>2 DEF Next, vars, tables, history, Grows, NextDay, EnqueueNewBlock, WorkerStep, Take,
              SaveBlock, SaveTx, HandleMsgMessageType, HandleMsgMessages, FetchFails,
              SaveTxFails, ModuleFails, Refetch, RefetchStart, MissingBlocksUnread, RefetchTooEarly, RefetchBlock,
              RefetchTx, RefetchEnd, RefetchFails, Crash
<1> QED BY <1>1, <1>2

\* A worker that does nothing, or is not at a message, has no more to show.
LEMMA PassedStays ==
    ASSUME Typed, Grows, NEW v \in Worker, PassedStored(v),
           job'[v] = job[v] \/ job'[v].stage \notin {"message_type", "messages"}
    PROVE  PassedStored(v)'
<1>1. CASE job'[v] = job[v] /\ job[v].stage \in {"message_type", "messages"}
  <2>1. job[v].height \in DOMAIN chain
    BY <1>1 DEF Typed, TypeOK, JobOK
  <2> QED BY <1>1, <2>1 DEF PassedStored, Grows, TypeOf, Place, Heights
<1>2. CASE job'[v].stage \notin {"message_type", "messages"}
  BY <1>2 DEF PassedStored
<1> QED BY <1>1, <1>2

\* What has to be shown of a step: blocks that leave the workers' hands were never
\* given to the modules, or are stored completely.
LEMMA DoneStaysDone ==
    ASSUME Typed, HandledSoFar, EveryMessageStored, Grows, block' \subseteq DOMAIN chain,
           \A l \in Place : l.height \notin InHand' => handled'[l] = handled[l],
           \A h \in block' \ (InHand' \cup lost') : h \in InHand =>
                \/ \A l \in Place : l.height = h => handled[l] = 0
                \/ MessagesOf(h) \subseteq message'
    PROVE  EveryMessageStored'
<1> SUFFICES ASSUME NEW h \in block' \ (InHand' \cup lost'),
                    NEW l \in MessagesOf(h)', handled'[l] > 0
             PROVE  MessagesOf(h)' \subseteq message'
  BY DEF EveryMessageStored
<1>1. h \in DOMAIN chain /\ MessagesOf(h)' = MessagesOf(h) /\ l.height = h
  BY DEF MessagesOf, Grows
<1>2. l \in Place
  <2>1. PICK i \in DOMAIN chain[h].msgs : l = [height |-> h, idx |-> i]
    BY <1>1 DEF MessagesOf
  <2>2. i \in 1..MaxMsgs
    BY <1>1, BlockOfChain, BoundsAssumption DEF Typed
  <2>3. h \in Heights
    BY <1>1, BoundsAssumption DEF Typed, TypeOK, Heights
  <2> QED BY <2>1, <2>2, <2>3 DEF Place
<1>3. handled[l] > 0 /\ h \in block
  BY <1>1, <1>2 DEF HandledSoFar
<1>4. CASE h \in InHand
  BY <1>1, <1>2, <1>3, <1>4
<1>5. CASE h \notin InHand
  BY <1>1, <1>3, <1>5 DEF EveryMessageStored, Grows
<1> QED BY <1>4, <1>5

StoredInv == StoredSoFar /\ EveryMessageStored

LEMMA StoredInit == Init => StoredInv
BY DEF Init, StoredInv, StoredSoFar, PassedStored, EveryMessageStored, Idle, At

LEMMA StoredNext ==
    Typed /\ Typed' /\ OneHolder /\ HandledInv /\ StoredInv /\ [Next]_vars => StoredInv'
<1> SUFFICES ASSUME Typed, Typed', OneHolder, HandledInv, StoredInv, [Next]_vars
             PROVE  StoredInv'
  OBVIOUS
<1>g. Grows
  BY EveryStepGrows
<1>h. HandledSoFar /\ EveryMessageStored /\ \A v \in Worker : PassedStored(v)
  BY DEF HandledInv, StoredInv, StoredSoFar
<1>j. job \in [Worker -> Job]
  BY DEF Typed, TypeOK
<1>z. 0 \notin block' /\ block' \subseteq DOMAIN chain'
  BY DEF Typed, TypeOK, Heights
<1>1. CASE NewBlock \/ NextDay \/ EnqueueNewBlock \/ Refetch \/ MissingBlocksUnread \/ RefetchFails
           \/ UNCHANGED vars
  <2>1. UNCHANGED <<job, handled>>
    BY <1>1 DEF NewBlock, NextDay, EnqueueNewBlock, Refetch, RefetchStart, MissingBlocksUnread, RefetchTooEarly,
                RefetchBlock, RefetchTx, RefetchFails, RefetchEnd, vars, history
  <2>2. block' \subseteq DOMAIN chain
    <3>1. CASE NewBlock
      BY <3>1 DEF NewBlock, Typed, TypeOK, tables
    <3>2. CASE ~NewBlock
      <4>1. chain' = chain
        BY <1>1, <3>2 DEF NextDay, EnqueueNewBlock, Refetch, RefetchStart, MissingBlocksUnread, RefetchTooEarly,
                RefetchBlock, RefetchTx, RefetchFails, RefetchEnd, vars
      <4> QED BY <1>z, <4>1
    <3> QED BY <3>1, <3>2
  <2>3. EveryMessageStored'
    BY <1>g, <1>h, <2>1, <2>2, DoneStaysDone DEF InHand
  <2> QED BY <1>g, <1>h, <2>1, <2>3, PassedStays DEF StoredInv, StoredSoFar
<1>2. ASSUME NEW w \in Worker,
             WorkerStep(w) \/ FetchFails(w) \/ SaveTxFails(w) \/ ModuleFails(w)
      PROVE  StoredInv'
  <2>0. chain' = chain /\ block' \subseteq DOMAIN chain
    BY <1>2, <1>z DEF WorkerStep, Take, SaveBlock, SaveTx, HandleMsgMessageType,
              HandleMsgMessages, FetchFails, SaveTxFails, ModuleFails
  <2>1. ASSUME NEW j, job' = [job EXCEPT ![w] = j],
               j.stage \notin {"message_type", "messages"} \/ PassedStored(w)',
               \A l \in Place : l.height \notin InHand' => handled'[l] = handled[l],
               \/ j.height = job[w].height
               \/ job[w].height = 0
               \/ job[w].height \in lost'
               \/ \A l \in Place : l.height = job[w].height => handled[l] = 0
               \/ MessagesOf(job[w].height) \subseteq message'
        PROVE  StoredInv'
    <3>1. \A v \in Worker : job'[v] = IF v = w THEN j ELSE job[v]
      BY <2>1, <1>j
    <3>2. \A v \in Worker : PassedStored(v)'
      BY <1>g, <1>h, <2>1, <3>1, PassedStays
    <3>3. ASSUME NEW h \in block' \ (InHand' \cup lost'), h \in InHand
          PROVE  \/ \A l \in Place : l.height = h => handled[l] = 0
                 \/ MessagesOf(h) \subseteq message'
      <4>1. PICK v \in Worker : h = job[v].height
        BY <3>3 DEF InHand
      <4>2. job'[v].height # h
        BY <3>3 DEF InHand
      <4>3. v = w
        BY <3>1, <4>1, <4>2
      <4> QED BY <1>z, <2>1, <3>1, <3>3, <4>1, <4>2, <4>3
    <3>4. EveryMessageStored'
      BY <1>g, <1>h, <2>0, <2>1, <3>3, DoneStaysDone
    <3> QED BY <3>2, <3>4 DEF StoredInv, StoredSoFar
  <2>2. CASE Take(w)
    <3>1. handled' = handled
      BY <2>2 DEF Take, history
    <3>2. CASE job' = job
      <4>1. EveryMessageStored'
        BY <1>g, <1>h, <2>0, <3>1, <3>2, DoneStaysDone DEF InHand
      <4> QED BY <1>g, <1>h, <3>2, <4>1, PassedStays DEF StoredInv, StoredSoFar
    <3>3. CASE job' = [job EXCEPT ![w] = At("block", Head(queue), 0)]
      <4>1. job[w].height = 0
        BY <2>2 DEF Take, Idle, At
      <4>2. At("block", Head(queue), 0).stage = "block"
        BY DEF At
      <4> QED BY <2>1, <3>1, <3>3, <4>1, <4>2
    <3> QED BY <2>2, <3>2, <3>3 DEF Take
  <2>3. CASE SaveBlock(w) \/ FetchFails(w)
    <3> DEFINE j == job'[w]
    <3>1. /\ handled' = handled /\ job[w].stage = "block"
          /\ job' = [job EXCEPT ![w] = j] /\ j.stage \in {"idle", "tx"}
      BY <2>3 DEF SaveBlock, FetchFails, Typed, TypeOK, Idle, At, history
    <3>2. \A l \in Place : l.height = job[w].height => handled[l] = 0
      <4>1. \A l \in Place : l.height = job[w].height => ~(handled[l] > 0)
        BY <1>h, <3>1 DEF HandledSoFar, Busy
      <4>2. \A l \in Place : handled[l] \in Nat
        BY DEF Typed, TypeOK
      <4> QED BY <4>1, <4>2
    <3> HIDE DEF j
    <3> QED BY <2>1, <3>1, <3>2
  <2>4. CASE SaveTx(w)
    <3> DEFINE j == At(ModuleOrder[1], job[w].height, 1)
    <3>1. job' = [job EXCEPT ![w] = j] /\ UNCHANGED <<handled, message>>
      BY <2>4 DEF SaveTx, history
    <3>2. j.height = job[w].height /\ j.stage = "message_type" /\ j.idx = 1 /\ job'[w] = j
      BY <3>1, <1>j DEF At, ModuleOrder
    <3> HIDE DEF j
    <3>3. PassedStored(w)'
      <4>1. \A l \in Place : ~(l.idx < 1)
        BY BoundsAssumption DEF Place
      <4> QED BY <3>2, <4>1 DEF PassedStored, Place, Heights
    <3> QED BY <2>1, <3>1, <3>2, <3>3
  <2>5. CASE SaveTxFails(w)
    <3>1. /\ job' = [job EXCEPT ![w] = Idle] /\ handled' = handled
          /\ job[w].height \in lost'
      BY <2>5 DEF SaveTxFails
    <3>2. Idle.stage = "idle"
      BY DEF Idle, At
    <3> QED BY <2>1, <3>1, <3>2
  <2>6. CASE ModuleFails(w)
    <3> DEFINE j == NextModule(job[w])
    <3>1. /\ job' = [job EXCEPT ![w] = j] /\ handled' = handled
          /\ job[w].height \in lost' /\ job[w].stage \in {"message_type", "messages"}
      BY <2>6 DEF ModuleFails
    <3>2. j.stage = "idle" \/ j.height = job[w].height
      <4>1. \/ j = At("messages", job[w].height, job[w].idx)
            \/ j = At("message_type", job[w].height, job[w].idx + 1)
            \/ j = Idle
        BY <3>1, NextModuleOutcome DEF Typed
      <4> HIDE DEF j
      <4> QED BY <4>1 DEF Idle, At
    <3> HIDE DEF j
    <3>3. job'[w] = j
      BY <3>1, <1>j
    <3>4. j.stage \notin {"message_type", "messages"} \/ PassedStored(w)'
      BY <3>1, <3>2, <3>3 DEF PassedStored
    <3> QED BY <2>1, <3>1, <3>4
  <2>7. CASE HandleMsgMessageType(w)
    <3> DEFINE j == At("messages", job[w].height, job[w].idx)
               p == [height |-> job[w].height, idx |-> job[w].idx]
    <3>1. /\ job[w].stage = "message_type" /\ lost' = lost /\ message' = message
          /\ msgTypes' = msgTypes \cup {TypeOf(job[w])}
          /\ handled' = [handled EXCEPT ![p] = handled[p] + 1]
          /\ job' = [job EXCEPT ![w] = NextModule(job[w])]
      BY <2>7 DEF HandleMsgMessageType
    <3>2. job' = [job EXCEPT ![w] = j]
      BY <3>1, NextModuleOutcome DEF Typed
    <3>3. /\ job'[w] = j /\ j.stage = "messages" /\ j.height = job[w].height
          /\ j.idx = job[w].idx /\ p.height = job[w].height
      BY <3>2, <1>j DEF At
    <3> HIDE DEF j, p
    <3>4. \A l \in Place : l # p => handled'[l] = handled[l]
      BY <3>1 DEF Typed, TypeOK
    <3>5. p.height \in InHand'
      BY <3>3 DEF InHand
    <3>6. PassedStored(w)'
      <4>1. TypeOf(job[w])' = TypeOf(job[w])
        BY <2>0, <3>3 DEF TypeOf
      <4> QED BY <1>h, <3>1, <3>3, <4>1 DEF PassedStored, Place, Heights
    <3> QED BY <2>1, <3>2, <3>3, <3>4, <3>5, <3>6
  <2>8. CASE HandleMsgMessages(w)
    <3> DEFINE j == NextModule(job[w])
               p == [height |-> job[w].height, idx |-> job[w].idx]
    <3>1. /\ job[w].stage = "messages" /\ UNCHANGED <<handled, lost>>
          /\ TypeOf(job[w]) \in msgTypes => message' = message \cup {p}
          /\ job' = [job EXCEPT ![w] = j]
      BY <2>8 DEF HandleMsgMessages, history
    <3>2. \/ /\ j = At("message_type", job[w].height, job[w].idx + 1)
          \/ /\ j = Idle
             /\ job[w].idx = Len(chain[job[w].height].msgs)
      BY <3>1, NextModuleOutcome DEF Typed
    <3>3. /\ job'[w] = j /\ p.height = job[w].height /\ p.idx = job[w].idx
          /\ job[w].idx \in Nat
      BY <3>1, <1>j DEF Typed, TypeOK, Job
    <3>4. \A l \in Place : l.height = job[w].height /\ l.idx = job[w].idx => l = p
      BY DEF Place
    <3> HIDE DEF j, p
    <3>5. job[w].height \notin lost =>
              \A l \in Place : l.height = job[w].height /\ l.idx < job[w].idx + 1
                                  => l \in message'
      <4> SUFFICES ASSUME job[w].height \notin lost, NEW l \in Place,
                          l.height = job[w].height, l.idx < job[w].idx + 1
                   PROVE  l \in message'
        OBVIOUS
      <4>1. l.idx \in Nat
        BY DEF Place
      <4>2. TypeOf(job[w]) \in msgTypes /\ message' = message \cup {p}
        BY <1>h, <3>1 DEF PassedStored
      <4>3. CASE l.idx = job[w].idx
        BY <3>4, <4>2, <4>3
      <4>4. CASE l.idx < job[w].idx
        BY <1>h, <3>1, <4>2, <4>4 DEF PassedStored
      <4> QED BY <3>3, <4>1, <4>3, <4>4
    <3>6. CASE j = At("message_type", job[w].height, job[w].idx + 1)
      <4>1. /\ j.stage = "message_type" /\ j.height = job[w].height
            /\ j.idx = job[w].idx + 1
        BY <3>6 DEF At
      <4>2. PassedStored(w)'
        BY <3>1, <3>3, <3>5, <4>1 DEF PassedStored, Place, Heights
      <4> QED BY <2>1, <3>1, <4>1, <4>2
    <3>7. CASE j = Idle /\ job[w].idx = Len(chain[job[w].height].msgs)
      <4>1. j.stage = "idle"
        BY <3>7 DEF Idle, At
      <4>2. job[w].height \in DOMAIN chain
        BY <3>1 DEF Typed, TypeOK, JobOK
      <4>3. MessagesOf(job[w].height) \subseteq Place
        <5>1. \A i \in DOMAIN chain[job[w].height].msgs : i \in 1..MaxMsgs
          BY <4>2, BlockOfChain, BoundsAssumption DEF Typed
        <5>2. job[w].height \in Heights
          BY <4>2, BoundsAssumption DEF Typed, TypeOK, Heights
        <5> QED BY <5>1, <5>2 DEF MessagesOf, Place
      <4>4. \A l \in MessagesOf(job[w].height) :
                l.height = job[w].height /\ l.idx < job[w].idx + 1
        BY <3>7, <4>2, BlockOfChain DEF MessagesOf, Typed
      <4>5. job[w].height \in lost' \/ MessagesOf(job[w].height) \subseteq message'
        BY <3>1, <3>5, <4>3, <4>4
      <4> QED BY <2>1, <3>1, <4>1, <4>5
    <3> QED BY <3>2, <3>6, <3>7
  <2> QED BY <1>2, <2>2, <2>3, <2>4, <2>5, <2>6, <2>7, <2>8 DEF WorkerStep
<1>3. CASE Crash
  <2>1. /\ UNCHANGED <<handled, chain>> /\ \A v \in Worker : job'[v] = Idle
        /\ block' \subseteq DOMAIN chain
        /\ \A v \in Worker : job[v].stage \notin {"idle", "block"}
                => job[v].height \in lost'
    BY <1>3, <1>z DEF Crash
  <2>2. ASSUME NEW h \in block' \ (InHand' \cup lost'), h \in InHand
        PROVE  \A l \in Place : l.height = h => handled[l] = 0
    <3>1. PICK v \in Worker : h = job[v].height
      BY <2>2 DEF InHand
    <3>2. job[v].stage # "idle"
      <4>1. job'[v].height = 0
        BY <2>1 DEF Idle, At
      <4>2. h # 0
        BY <1>z
      <4>3. job[v].stage = "idle" => job[v].height = 0
        <5>1. job[v].stage = "idle" => job[v] = Idle
          BY DEF Typed, TypeOK, JobOK
        <5>2. Idle.height = 0
          BY DEF Idle, At
        <5> QED BY <5>1, <5>2
      <4> QED BY <3>1, <4>2, <4>3
    <3>3. job[v].stage = "block"
      BY <2>1, <2>2, <3>1, <3>2
    <3>4. \A l \in Place : l.height = h => ~(handled[l] > 0)
      BY <1>h, <3>1, <3>3 DEF HandledSoFar, Busy
    <3>5. \A l \in Place : handled[l] \in Nat
      BY DEF Typed, TypeOK
    <3> QED BY <3>4, <3>5
  <2>3. EveryMessageStored'
    BY <1>g, <1>h, <2>1, <2>2, DoneStaysDone
  <2>4. \A v \in Worker : job'[v].stage = "idle"
    BY <2>1 DEF Idle, At
  <2> QED BY <2>3, <2>4 DEF StoredInv, StoredSoFar, PassedStored
<1> QED BY <1>1, <1>2, <1>3 DEF Next

\* When a worker is done with a block it gave to the modules, and no module failed, all
\* message rows of the block are there.
THEOREM MessagesFindTheirTypes == Spec => []EveryMessageStored
<1> DEFINE All == Typed /\ OneHolder /\ HandledInv /\ StoredInv
<1>1. Init => All
  BY TypedInit, OneHolderInit, HandledInit, StoredInit
<1>2. All /\ [Next]_vars => All'
  BY TypedNext, OneHolderNext, HandledNext, StoredNext
<1>3. All => EveryMessageStored
  BY DEF StoredInv
<1> HIDE DEF All
<1> QED BY <1>1, <1>2, <1>3, PTL DEF Spec

-----------------------------------------------------------------------------
(* A refetch that came to its end leaves no gap in yesterday.              *)

CoveredInv == YesterdayCovered /\ YesterdayComplete

\* Steps that leave the chain, the day and the refetch alone.
LEMMA CoverageKept ==
    ASSUME CoveredInv, block \subseteq block', UNCHANGED <<chain, day, refetched, unlisted>>,
           refetch' = refetch \/ refetch'.stage \in {"idle", "start"}
    PROVE  CoveredInv'
BY DEF CoveredInv, YesterdayCovered, YesterdayComplete

LEMMA CoveredInit == Init => CoveredInv
BY DEF Init, CoveredInv, YesterdayCovered, YesterdayComplete, NoRefetch

LEMMA CoveredNext == Typed /\ CoveredInv /\ [Next]_vars => CoveredInv'
<1> SUFFICES ASSUME Typed, CoveredInv, [Next]_vars PROVE CoveredInv'
  OBVIOUS
<1>t. /\ day \in Nat /\ Len(chain) \in Nat /\ DOMAIN chain = 1..Len(chain)
      /\ \A h \in DOMAIN chain : chain[h].day \in Nat
      /\ refetched \subseteq Nat /\ block \subseteq DOMAIN chain
      /\ refetch.todo \subseteq DOMAIN chain
      /\ refetch \in [stage: {"idle", "start", "block", "tx"}, todo: SUBSET (DOMAIN chain)]
  BY BlockOfChain DEF Typed, TypeOK
<1>1. CASE NewBlock
  <2>1. PICK n \in 0..MaxMsgs : \E msgs \in [1..n -> MsgType] :
                chain' = Append(chain, [day |-> day, msgs |-> msgs])
    BY <1>1 DEF NewBlock
  <2>2. PICK msgs \in [1..n -> MsgType] :
                chain' = Append(chain, [day |-> day, msgs |-> msgs])
    BY <2>1
  <2>3. /\ DOMAIN chain' = 1..(Len(chain) + 1)
        /\ \A h \in DOMAIN chain : chain'[h] = chain[h]
        /\ chain'[Len(chain) + 1].day = day
    BY <1>t, <2>2 DEF Typed, TypeOK
  <2>4. UNCHANGED <<day, refetched, unlisted, block, refetch>>
    BY <1>1 DEF NewBlock, tables, history
  <2>5. \A h \in DOMAIN chain' : h \in DOMAIN chain \/ h = Len(chain) + 1
    BY <1>t, <2>3
  <2>6. \A h, k \in DOMAIN chain' : h <= k => chain'[h].day <= chain'[k].day
    <3>1. \A h \in DOMAIN chain' : chain'[h].day <= day
      BY <1>t, <2>3, <2>5 DEF CoveredInv, YesterdayCovered
    <3>2. ASSUME NEW h \in DOMAIN chain', NEW k \in DOMAIN chain', h <= k
          PROVE  chain'[h].day <= chain'[k].day
      <4>1. CASE k = Len(chain) + 1
        BY <2>3, <3>1, <4>1
      <4>2. CASE k \in DOMAIN chain
        <5>1. h \in DOMAIN chain
          BY <1>t, <2>3, <3>2, <4>2
        <5> QED BY <2>3, <3>2, <4>2, <5>1 DEF CoveredInv, YesterdayCovered
      <4> QED BY <2>5, <4>1, <4>2
    <3> QED BY <3>2
  <2>7. \A h \in DOMAIN chain' : chain'[h].day <= day
    BY <1>t, <2>3, <2>5 DEF CoveredInv, YesterdayCovered
  <2>8. ASSUME NEW d \in refetched' \ unlisted', NEW h \in DOMAIN chain', chain'[h].day = d - 1
        PROVE  h \in block'
    <3>1. d \in Nat /\ d <= day
      BY <1>t, <2>4, <2>8 DEF CoveredInv, YesterdayCovered
    <3>2. h # Len(chain) + 1
      BY <1>t, <2>3, <2>8, <3>1
    <3> QED BY <2>3, <2>4, <2>5, <2>8, <3>2 DEF CoveredInv, YesterdayComplete
  <2>9. ASSUME refetch'.stage \in {"block", "tx"}, day' \notin unlisted', NEW h \in DOMAIN chain',
               chain'[h].day = day' - 1
        PROVE  h \in block' \cup refetch'.todo
    <3>1. h # Len(chain) + 1
      BY <1>t, <2>3, <2>4, <2>9
    <3> QED BY <2>3, <2>4, <2>5, <2>9, <3>1 DEF CoveredInv, YesterdayCovered
  <2> QED BY <2>4, <2>6, <2>7, <2>8, <2>9 DEF CoveredInv, YesterdayCovered, YesterdayComplete
<1>2. CASE NextDay
  <2>1. UNCHANGED <<chain, refetched, unlisted, block>> /\ day' = day + 1 /\ refetch'.stage = "start"
    BY <1>2 DEF NextDay, tables, history
  <2> QED BY <1>t, <2>1 DEF CoveredInv, YesterdayCovered, YesterdayComplete
<1>3. CASE RefetchStart
  <2>1. PICK h \in DayOld : refetch' = [stage |-> "block", todo |-> MissingBlocks(h, Len(chain))]
    BY <1>3 DEF RefetchStart
  <2>2. UNCHANGED <<chain, day, refetched, unlisted, block>>
    BY <1>3 DEF RefetchStart, tables, history
  <2>3. h \in DOMAIN chain /\ chain[h].day <= day - 2
    BY <1>t, <2>1 DEF DayOld
  <2>4. ASSUME NEW k \in DOMAIN chain, chain[k].day = day - 1
        PROVE  k \in block \cup refetch'.todo
    <3>1. ~(chain[k].day <= chain[h].day)
      BY <1>t, <2>3, <2>4
    <3>2. ~(k <= h)
      BY <2>3, <3>1 DEF CoveredInv, YesterdayCovered
    <3>3. k \in h..Len(chain)
      BY <1>t, <2>3, <3>2
    <3> QED BY <2>1, <3>3 DEF MissingBlocks
  <2> QED BY <2>2, <2>4 DEF CoveredInv, YesterdayCovered, YesterdayComplete
<1>4. CASE RefetchBlock
  <2>1. PICK h \in refetch.todo :
            /\ block' = block \cup {h}
            /\ refetch' = IF chain[h].msgs = << >>
                          THEN [refetch EXCEPT !.todo = refetch.todo \ {h}]
                          ELSE [refetch EXCEPT !.stage = "tx"]
    BY <1>4 DEF RefetchBlock
  <2>2. block' \cup refetch'.todo = block \cup refetch.todo
    BY <1>t, <2>1
  <2>3. UNCHANGED <<chain, day, refetched, unlisted>> /\ refetch.stage = "block"
    BY <1>4 DEF RefetchBlock, history
  <2> QED BY <2>1, <2>2, <2>3 DEF CoveredInv, YesterdayCovered, YesterdayComplete
<1>5. CASE RefetchTx
  <2>1. PICK h \in refetch.todo : /\ IsFirst(h, refetch.todo)
                                 /\ refetch' = [stage |-> "block", todo |-> refetch.todo \ {h}]
    BY <1>5 DEF RefetchTx
  <2>2. UNCHANGED <<chain, day, refetched, unlisted, block>> /\ refetch.stage = "tx"
    BY <1>5 DEF RefetchTx, history
  <2>3. h \in block
    BY <2>1, <2>2 DEF Typed, BlocksComeFirst
  <2> QED BY <2>1, <2>2, <2>3 DEF CoveredInv, YesterdayCovered, YesterdayComplete
<1>6. CASE RefetchEnd
  <2>1. /\ UNCHANGED <<chain, day, unlisted, block>> /\ refetched' = refetched \cup {day}
        /\ refetch'.stage = "idle" /\ refetch.stage = "block" /\ refetch.todo = {}
    BY <1>6 DEF RefetchEnd, NoRefetch, tables
  <2> QED BY <1>t, <2>1 DEF CoveredInv, YesterdayCovered, YesterdayComplete
<1>7. CASE MissingBlocksUnread
  <2>1. /\ UNCHANGED <<chain, day, refetched, block>>
        /\ unlisted' = unlisted \cup {day}
    BY <1>7 DEF MissingBlocksUnread, tables
  <2> QED BY <2>1 DEF CoveredInv, YesterdayCovered, YesterdayComplete
<1>8. CASE ~(\/ NewBlock \/ NextDay \/ RefetchStart \/ RefetchBlock \/ RefetchTx
             \/ RefetchEnd \/ MissingBlocksUnread)
  <2>1. /\ block \subseteq block' /\ UNCHANGED <<chain, day, refetched, unlisted>>
        /\ refetch' = refetch \/ refetch'.stage \in {"idle", "start"}
    <3>1. CASE EnqueueNewBlock
      BY <3>1 DEF EnqueueNewBlock, tables, history
    <3>2. ASSUME NEW w \in Worker, WorkerStep(w)
          PROVE  block \subseteq block' /\ UNCHANGED <<chain, day, refetched, unlisted, refetch>>
      BY <3>2 DEF WorkerStep, Take, SaveBlock, SaveTx, HandleMsgMessageType,
                  HandleMsgMessages, tables, history
    <3>3. ASSUME NEW w \in Worker, FetchFails(w) \/ SaveTxFails(w) \/ ModuleFails(w)
          PROVE  block \subseteq block' /\ UNCHANGED <<chain, day, refetched, unlisted, refetch>>
      BY <3>3 DEF FetchFails, SaveTxFails, ModuleFails, tables, history
    <3>4. CASE RefetchTooEarly \/ RefetchFails
      BY <3>4 DEF RefetchTooEarly, RefetchFails, NoRefetch, tables, history
    <3>5. CASE Crash
      BY <3>5 DEF Crash, NoRefetch, tables
    <3>6. CASE UNCHANGED vars
      BY <3>6 DEF vars
    <3> QED BY <1>8, <3>1, <3>2, <3>3, <3>4, <3>5, <3>6 DEF Next, Refetch
  <2> QED BY <2>1, CoverageKept
<1> QED BY <1>1, <1>2, <1>3, <1>4, <1>5, <1>6, <1>7, <1>8

\* A refetch that came to its end leaves no gap in the day that has passed, although it
\* computes the gaps once and workers go on storing blocks, unless the list of the gaps
\* could not be read, which the refetch does not see.
THEOREM RefetchLeavesNoGap == Spec => []YesterdayComplete
<1>1. Init => Typed /\ CoveredInv
  BY TypedInit, CoveredInit
<1>2. Typed /\ CoveredInv /\ [Next]_vars => (Typed /\ CoveredInv)'
  BY TypedNext, CoveredNext
<1>3. CoveredInv => YesterdayComplete
  BY DEF CoveredInv
<1> QED BY <1>1, <1>2, <1>3, PTL DEF Spec
=============================================================================
