------------------------------ MODULE Pipeline ------------------------------
(***************************************************************************)
(* How blocks get into the database: the queue and the workers of Juno,    *)
(* which call the modules of callisto in the order of the configuration,   *)
(* the restart after a crash, and the daily refetch of missing blocks.     *)
(*                                                                         *)
(* Juno is not part of the repository.  What is modelled of it is what the *)
(* modules, the configuration and the schema rely on: a stored block is    *)
(* never handled again, a block that could not be fetched goes back to the *)
(* queue, an error of a module is only logged, and new blocks are listened *)
(* to from the node's latest height on.                                    *)
(*                                                                         *)
(* A block carries at most one transaction, with messages of some types.   *)
(* Its block, transaction and message rows are written by separate         *)
(* statements.  Time is counted in days: the refetch runs at midnight.     *)
(***************************************************************************)
EXTENDS Integers, Sequences, FiniteSets

CONSTANTS
    MsgType,        \* types of messages
    Worker,
    MaxHeight,      \* bound on the chain's length
    MaxMsgs,        \* bound on the messages of a transaction
    MaxDays,        \* bound on the days that pass
    MaxFailures,    \* bound on failed fetches and statements
    MaxCrashes      \* bound on crashes

ASSUME BoundsAssumption ==
    /\ MaxHeight \in Nat /\ MaxMsgs \in Nat /\ MaxDays \in Nat
    /\ MaxFailures \in Nat /\ MaxCrashes \in Nat

VARIABLES
    chain,      \* blocks of the chain: their day and their messages
    day,        \* today
    cursor,     \* the next height the listener will put into the queue
    queue,      \* the heights waiting for a worker
    block,      \* block table: the stored heights
    transaction,\* transaction table: the heights whose transaction is stored
    msgTypes,   \* message_type table
    message,    \* message table: height and index of the stored messages
    job,        \* what each worker is doing
    refetch,    \* what the daily refetch is doing
    handled,    \* history: messages given to the modules, with repetitions
    lost,       \* history: heights whose handling a failure cut short
    refetched,  \* history: the days whose refetch came to its end
    unlisted,   \* history: the days whose list of missing blocks was not read
    failures, crashes

vars == <<chain, day, cursor, queue, block, transaction, msgTypes, message, job,
          refetch, handled, lost, refetched, unlisted, failures, crashes>>
tables == <<block, transaction, msgTypes, message>>
history == <<handled, lost, refetched, unlisted>>
budgets == <<failures, crashes>>

Heights == 1..MaxHeight
Place   == [height: Heights, idx: 1..MaxMsgs]

\* A worker has come to stage s of block h, at its i-th message.
At(s, h, i) == [stage |-> s, height |-> h, idx |-> i]
Idle == At("idle", 0, 0)
NoRefetch == [stage |-> "idle", todo |-> {}]

Init ==
    /\ chain = << >> /\ day = 1 /\ cursor = 1 /\ queue = << >>
    /\ block = {} /\ transaction = {} /\ msgTypes = {} /\ message = {}
    /\ job = [w \in Worker |-> Idle]
    /\ refetch = NoRefetch
    /\ handled = [l \in Place |-> 0] /\ lost = {}
    /\ refetched = {} /\ unlisted = {} /\ failures = 0 /\ crashes = 0

-----------------------------------------------------------------------------
(* The chain, the clock and the listener.                                  *)

NewBlock ==
    /\ Len(chain) < MaxHeight
    /\ \E n \in 0..MaxMsgs : \E msgs \in [1..n -> MsgType] :
            chain' = Append(chain, [day |-> day, msgs |-> msgs])
    /\ UNCHANGED <<day, cursor, queue, tables, job, refetch, history, budgets>>

\* Midnight: no refetch is still running from the night before.
NextDay ==
    /\ day < MaxDays
    /\ refetch = NoRefetch
    /\ day' = day + 1
    /\ refetch' = [stage |-> "start", todo |-> {}]
    /\ UNCHANGED <<chain, cursor, queue, tables, job, history, budgets>>

\* listen_new_blocks: the heights up to the latest are queued one by one.
EnqueueNewBlock ==
    /\ cursor <= Len(chain)
    /\ queue' = Append(queue, cursor)
    /\ cursor' = cursor + 1
    /\ UNCHANGED <<chain, day, tables, job, refetch, history, budgets>>

-----------------------------------------------------------------------------
(* A worker handles a block.                                               *)

\* Mutated form of Exists: stored blocks are handled again.
NeverExists(h) == FALSE

\* The worker skips the heights the block table has.
Exists(h) == h \in block

Take(w) ==
    /\ job[w] = Idle
    /\ queue # << >>
    /\ queue' = Tail(queue)
    /\ job' = IF Exists(Head(queue)) THEN job
              ELSE [job EXCEPT ![w] = At("block", Head(queue), 0)]
    /\ UNCHANGED <<chain, day, cursor, tables, refetch, history, budgets>>

\* Mutated form of Requeue: a block that failed is given up.
RequeueNever(h) == queue

\* The height goes to the end of the queue.
Requeue(h) == Append(queue, h)

\* Fetching or storing the block fails: the height is queued again.
FetchFails(w) ==
    /\ job[w].stage = "block"
    /\ failures < MaxFailures
    /\ failures' = failures + 1 /\ UNCHANGED crashes
    /\ queue' = Requeue(job[w].height)
    /\ job' = [job EXCEPT ![w] = Idle]
    /\ UNCHANGED <<chain, day, cursor, tables, refetch, history>>

\* The block is stored, then its block handlers run (modelled by Gov, FeeGrant
\* and ChainSnapshots); their errors are logged.
SaveBlock(w) ==
    /\ job[w].stage = "block"
    /\ block' = block \cup {job[w].height}
    /\ job' = [job EXCEPT ![w] =
                 IF chain[@.height].msgs = << >> THEN Idle
                 ELSE At("tx", @.height, 0)]
    /\ UNCHANGED <<chain, day, cursor, queue, transaction, msgTypes, message,
                   refetch, history, budgets>>

\* Mutated form of ModuleOrder: messages before message_type.
MessagesFirst == <<"messages", "message_type">>

\* The modules a message meets, as far as its own row depends on them.
ModuleOrder == <<"message_type", "messages">>

\* The foreign key to block is satisfied: blocks come first and are never
\* deleted.
SaveTx(w) ==
    /\ job[w].stage = "tx"
    /\ transaction' = transaction \cup {job[w].height}
    /\ job' = [job EXCEPT ![w] = At(ModuleOrder[1], @.height, 1)]
    /\ UNCHANGED <<chain, day, cursor, queue, block, msgTypes, message, refetch,
                   history, budgets>>

\* Storing the transaction fails: the height is queued again, but its block is
\* stored now, so it will be skipped.
SaveTxFails(w) ==
    /\ job[w].stage = "tx"
    /\ failures < MaxFailures
    /\ failures' = failures + 1 /\ UNCHANGED crashes
    /\ queue' = Requeue(job[w].height)
    /\ lost' = lost \cup {job[w].height}
    /\ job' = [job EXCEPT ![w] = Idle]
    /\ UNCHANGED <<chain, day, cursor, tables, refetch, handled, refetched, unlisted>>

\* Mutated form of NextModule: one message too many.
NextModulePastEnd(j) ==
    IF j.stage = ModuleOrder[1] THEN At(ModuleOrder[2], j.height, j.idx)
    ELSE IF j.idx <= Len(chain[j.height].msgs) THEN At(ModuleOrder[1], j.height, j.idx + 1)
    ELSE Idle

\* Each message goes through the modules in the order of the configuration.
NextModule(j) ==
    IF j.stage = ModuleOrder[1] THEN At(ModuleOrder[2], j.height, j.idx)
    ELSE IF j.idx < Len(chain[j.height].msgs) THEN At(ModuleOrder[1], j.height, j.idx + 1)
    ELSE Idle

TypeOf(j) == chain[j.height].msgs[j.idx]

\* SaveMessageType: INSERT ... ON CONFLICT (type) DO NOTHING.
HandleMsgMessageType(w) ==
    /\ job[w].stage = "message_type"
    /\ msgTypes' = msgTypes \cup {TypeOf(job[w])}
    /\ handled' = [handled EXCEPT ![[height |-> job[w].height,
                                     idx |-> job[w].idx]] = @ + 1]
    /\ job' = [job EXCEPT ![w] = NextModule(@)]
    /\ UNCHANGED <<chain, day, cursor, queue, block, transaction, message, refetch,
                   lost, refetched, unlisted, budgets>>

\* The message row references its type; without it the insert fails.
HandleMsgMessages(w) ==
    /\ job[w].stage = "messages"
    /\ message' = IF TypeOf(job[w]) \in msgTypes
                  THEN message \cup {[height |-> job[w].height, idx |-> job[w].idx]}
                  ELSE message
    /\ job' = [job EXCEPT ![w] = NextModule(@)]
    /\ UNCHANGED <<chain, day, cursor, queue, block, transaction, msgTypes, refetch,
                   history, budgets>>

\* A module fails on a message; the error is logged and the next one runs.
ModuleFails(w) ==
    /\ job[w].stage \in {"message_type", "messages"}
    /\ failures < MaxFailures
    /\ failures' = failures + 1 /\ UNCHANGED crashes
    /\ lost' = lost \cup {job[w].height}
    /\ job' = [job EXCEPT ![w] = NextModule(@)]
    /\ UNCHANGED <<chain, day, cursor, queue, tables, refetch, handled, refetched,
                   unlisted>>

\* The indexer dies and is started again.  parse_old_blocks is off: the listener
\* starts at the latest height of the node, and what was queued is forgotten.
Crash ==
    /\ crashes < MaxCrashes
    /\ crashes' = crashes + 1 /\ UNCHANGED failures
    /\ lost' = lost \cup {job[w].height :
                            w \in {v \in Worker : job[v].stage \notin {"idle", "block"}}}
    /\ job' = [w \in Worker |-> Idle]
    /\ queue' = << >>
    /\ cursor' = IF chain = << >> THEN 1 ELSE Len(chain)
    /\ refetch' = NoRefetch
    /\ UNCHANGED <<chain, day, tables, handled, refetched, unlisted>>

-----------------------------------------------------------------------------
(* refetchMissingBlocks                                                    *)

\* GetBlockHeightTimeDayAgo: the last stored block that is at least 24 hours
\* old at midnight.
DayOld == {h \in block : chain[h].day <= day - 2}

\* Mutated form of MissingBlocks: the last height is left out.
MissingBlocksOpen(from, to) == {h \in from..(to - 1) : h \notin block}

\* generate_series(from, to) EXCEPT SELECT height FROM block
MissingBlocks(from, to) == {h \in from..to : h \notin block}

\* ORDER BY 1: the heights are fetched from the lowest to the highest.
IsFirst(h, S) == h \in S /\ \A k \in S : h <= k

\* The heights to fetch are computed once.
RefetchStart ==
    /\ refetch.stage = "start"
    /\ \E h \in DayOld :
          /\ \A k \in DayOld : k <= h
          /\ refetch' = [stage |-> "block",
                         todo |-> MissingBlocks(h, Len(chain))]
    /\ UNCHANGED <<chain, day, cursor, queue, tables, job, history, budgets>>

\* GetMissingBlocks swallows the error of its query: no block seems to be missing,
\* and the refetch comes to its end as if it had looked.
MissingBlocksUnread ==
    /\ refetch.stage = "start"
    /\ DayOld # {}
    /\ failures < MaxFailures
    /\ failures' = failures + 1 /\ UNCHANGED crashes
    /\ unlisted' = unlisted \cup {day}
    /\ refetch' = [stage |-> "block", todo |-> {}]
    /\ UNCHANGED <<chain, day, cursor, queue, tables, job, handled, lost, refetched>>

\* No stored block is old enough: the refetch returns an error nobody looks at.
RefetchTooEarly ==
    /\ refetch.stage = "start"
    /\ DayOld = {}
    /\ refetch' = NoRefetch
    /\ UNCHANGED <<chain, day, cursor, queue, tables, job, history, budgets>>

\* Process stores the block without looking whether it exists by now.  The
\* parser context is built from parsecmdtypes.NewConfig(), which has no
\* registrar: there are no modules to call.
RefetchBlock ==
    /\ refetch.stage = "block"
    /\ \E h \in refetch.todo :
          /\ IsFirst(h, refetch.todo)
          /\ block' = block \cup {h}
          /\ refetch' = IF chain[h].msgs = << >>
                        THEN [refetch EXCEPT !.todo = refetch.todo \ {h}]
                        ELSE [refetch EXCEPT !.stage = "tx"]
    /\ UNCHANGED <<chain, day, cursor, queue, transaction, msgTypes, message, job,
                   history, budgets>>

RefetchTx ==
    /\ refetch.stage = "tx"
    /\ \E h \in refetch.todo :
          /\ IsFirst(h, refetch.todo)
          /\ transaction' = transaction \cup {h}
          /\ refetch' = [stage |-> "block", todo |-> refetch.todo \ {h}]
    /\ UNCHANGED <<chain, day, cursor, queue, block, msgTypes, message, job,
                   history, budgets>>

\* The first error ends the refetch.
RefetchFails ==
    /\ refetch.stage # "idle"
    /\ failures < MaxFailures
    /\ failures' = failures + 1 /\ UNCHANGED crashes
    /\ refetch' = NoRefetch
    /\ UNCHANGED <<chain, day, cursor, queue, tables, job, history>>

RefetchEnd ==
    /\ refetch.stage = "block" /\ refetch.todo = {}
    /\ refetched' = refetched \cup {day}
    /\ refetch' = NoRefetch
    /\ UNCHANGED <<chain, day, cursor, queue, tables, job, handled, lost, unlisted,
                   budgets>>

-----------------------------------------------------------------------------
WorkerStep(w) ==
    \/ Take(w) \/ SaveBlock(w) \/ SaveTx(w)
    \/ HandleMsgMessageType(w) \/ HandleMsgMessages(w)

Refetch ==
    \/ RefetchStart \/ RefetchTooEarly \/ RefetchBlock \/ RefetchTx \/ RefetchEnd

Next ==
    \/ NewBlock \/ NextDay \/ EnqueueNewBlock
    \/ \E w \in Worker :
            WorkerStep(w) \/ FetchFails(w) \/ SaveTxFails(w) \/ ModuleFails(w)
    \/ Refetch \/ MissingBlocksUnread \/ RefetchFails
    \/ Crash

Spec == Init /\ [][Next]_vars

-----------------------------------------------------------------------------
Job == [stage: {"idle", "block", "tx", "message_type", "messages"},
        height: Heights \cup {0}, idx: Nat]

\* A busy worker has a height of the chain, and past the block a message of it.
JobOK(j) ==
    /\ IF j.stage = "idle" THEN j = Idle ELSE j.height \in DOMAIN chain
    /\ j.stage = "tx" => chain[j.height].msgs # << >>
    /\ j.stage \in {"message_type", "messages"}
            => j.idx \in DOMAIN chain[j.height].msgs

TypeOK ==
    /\ chain \in Seq([day: Nat, msgs: Seq(MsgType)]) /\ Len(chain) <= MaxHeight
    /\ \A h \in DOMAIN chain : Len(chain[h].msgs) <= MaxMsgs
    /\ day \in Nat /\ cursor \in 1..(Len(chain) + 1)
    /\ queue \in Seq(DOMAIN chain)
    /\ block \subseteq DOMAIN chain /\ transaction \subseteq block
    /\ msgTypes \subseteq MsgType /\ message \subseteq Place
    /\ job \in [Worker -> Job] /\ \A w \in Worker : JobOK(job[w])
    /\ refetch \in [stage: {"idle", "start", "block", "tx"}, todo: SUBSET (DOMAIN chain)]
    /\ handled \in [Place -> Nat] /\ lost \subseteq block
    /\ refetched \subseteq Nat /\ unlisted \subseteq Nat

MessagesOf(h) == {[height |-> h, idx |-> i] : i \in DOMAIN chain[h].msgs}

InHand == {job[w].height : w \in Worker}

\* No message row is refused for want of its type: when a worker is done with a
\* block it gave to the modules, and no module failed, all message rows of the
\* block are there.
EveryMessageStored ==
    \A h \in block \ (InHand \cup lost) :
        (\E l \in MessagesOf(h) : handled[l] > 0) => MessagesOf(h) \subseteq message

\* The modules see a message once: handlers that are not idempotent rely on
\* it.  Several workers, blocks queued again, restarts that queue the latest
\* block again and the refetch do not change it.
HandledAtMostOnce == \A l \in Place : handled[l] <= 1

\* A refetch that came to its end leaves no gap in the day that has passed,
\* although it computes the gaps once and workers go on storing blocks.  Only
\* where the list of the gaps could not be read it ends with gaps left.
YesterdayComplete ==
    \A d \in refetched \ unlisted : \A h \in DOMAIN chain :
        chain[h].day = d - 1 => h \in block

-----------------------------------------------------------------------------
(* What comments say, and the code does not do.                            *)

Queued(h) == h \in InHand \/ \E i \in DOMAIN queue : queue[i] = h

\* A block the refetch brings has its messages like any other.
RefetchedBlocksHaveMessages ==
    \A h \in transaction :
        h \notin InHand \cup lost /\ refetch = NoRefetch
            => MessagesOf(h) \subseteq message

-----------------------------------------------------------------------------
(* Liveness: the listener and the workers keep running; failures end.      *)

Fairness ==
    /\ WF_vars(EnqueueNewBlock)
    /\ \A w \in Worker : WF_vars(WorkerStep(w))

FairSpec == Spec /\ Fairness

\* A queued block is stored unless a crash forgets the queue, although fetching
\* it may fail and send it to the end of the queue.
QueuedBlocksStored ==
    \A h \in Heights : \A c \in 0..MaxCrashes :
        (Queued(h) /\ crashes = c) ~> (h \in block \/ crashes > c)
=============================================================================
