-------------------------------- MODULE SAE --------------------------------
(***************************************************************************)
(* The life cycle of a block under Streaming Asynchronous Execution:       *)
(* verified by consensus, Accepted, Executed, Settled.  Two threads share  *)
(* the block objects and run concurrently:                                 *)
(*                                                                         *)
(*  - consensus, which verifies a block (VM.VerifyBlock, walking the       *)
(*    parent's ancestry in blocks.LastToSettleAt), accepts it              *)
(*    (VM.AcceptBlock) or rejects it (VM.RejectBlock).  The engine holds   *)
(*    one lock over these calls, so they never overlap each other;         *)
(*  - the execution stream (saexec.Executor.processQueue).                 *)
(*                                                                         *)
(* Every write of docs/invariants.md is a step of its own, in the order of *)
(* the code: (D)isk, then (M)emory, then (I)nternal pointer, then the      *)
(* channel close or event that is broadcast (X).                           *)
(*                                                                         *)
(* Times are in ticks.  A tick is one unit of gas, and block times and gas *)
(* times are compared on the same scale, as proxytime.Time.Compare does.   *)
(***************************************************************************)
EXTENDS Headers, FiniteSets

CONSTANTS
  MaxBlocks,    \* bound: blocks ever built on top of the last synchronous one
  BlockTimes,   \* the block times consensus may see
  GasUsed,      \* the amounts of gas a block may consume
  QueueCap      \* capacity of the executor's channel

ASSUME SAEAssumption ==
  /\ MaxBlocks \in Nat
  /\ BlockTimes \subseteq Nat
  /\ GasUsed \subseteq Nat
  /\ QueueCap \in Nat \ {0}

Genesis == 0                     \* the last synchronous block
Block == 0 .. MaxBlocks
None == -1                       \* a nil pointer, or a time that is not set

Larger(a, b) == IF a >= b THEN a ELSE b

\* A header, with two things that follow from it and its ancestors' headers
\* alone: the set of ancestors, the block itself included, and the gas time at
\* which execution of the block is due to finish.
Header == [parent : Block, height : Nat, time : Nat, gas : Nat,
           anc : SUBSET Block, due : Nat]

VARIABLES
  hdr,          \* the headers of the blocks that have been seen
  \* Disk.
  canonical,    \* block of the greatest canonical hash
  finalized,    \* rawdb finalized block hash
  xdb,          \* blocks with execution results
  head,         \* rawdb head block hash, in one batch with the receipts
  \* Memory: fields of blocks.Block and the VM's map.
  settledBy,    \* ancestry.lastSettled
  settled,      \* blocks whose ancestry is nil
  interim,      \* interimExecutionTime
  execution,    \* execution.byGas
  critical,     \* VM.consensusCritical
  \* Internal indicators: atomic pointers and closed channels.
  lastAccepted, lastSettled, lastExecuted, executedClosed, settledClosed,
  \* External indicators: blocks sent on the two event feeds.
  acceptedSent, headSent,
  \* Consensus.
  bootstrapping,
  processing,   \* verified and neither accepted nor rejected
  cpc, cb,      \* program counter, the block being verified or accepted
  cur, certain, \* LastToSettleAt's `block` and `known`
  todo, dropped,\* AcceptBlock: blocks still to settle, and to delete at the end
  \* Executor.
  queue, epc, eb, clock, left

verifyVars == <<hdr, settledBy, certain, processing>>
acceptVars == <<canonical, finalized, lastAccepted, acceptedSent, dropped>>
settleVars == <<settled, lastSettled, settledClosed, todo>>
consensusVars == <<verifyVars, acceptVars, settleVars, critical, cb, cur, cpc>>
resultVars == <<xdb, head, execution, lastExecuted, executedClosed, headSent>>
runVars == <<interim, eb, clock, left>>
executorVars == <<resultVars, runVars, epc>>
vars == <<consensusVars, executorVars, queue, bootstrapping>>

----------------------------------------------------------------------------
\* blocks.Block

\* Block.ParentBlock
ParentBlock(b) == IF b \in settled THEN None ELSE hdr[b].parent

\* Block.LastSettled; only the last synchronous block answers once settled
LastSettled(b) ==
  IF b = Genesis THEN b ELSE IF b \in settled THEN None ELSE settledBy[b]

\* Range: the blocks above start, up to and including end
RangeFromStart(start, end) ==
  {x \in hdr[end].anc : hdr[x].height >= hdr[start].height}
Range(start, end) ==
  {x \in hdr[end].anc : hdr[x].height > hdr[start].height}

\* Block.Settles
Settles(b) == Range(LastSettled(hdr[b].parent), settledBy[b])

----------------------------------------------------------------------------
GenesisHeader == [parent |-> Genesis, height |-> 0, time |-> GenesisTime,
                  gas |-> 0, anc |-> {Genesis}, due |-> GenesisTime]

Init ==
  /\ hdr = [b \in {Genesis} |-> GenesisHeader]
  /\ canonical = Genesis /\ finalized = Genesis
  /\ xdb = {Genesis} /\ head = Genesis
  /\ settledBy = [b \in Block |-> Genesis]
  /\ settled = {Genesis}
  /\ interim = [b \in Block |-> None]
  /\ execution = [b \in Block |-> IF b = Genesis THEN GenesisTime ELSE None]
  /\ critical = {Genesis}
  /\ lastAccepted = Genesis /\ lastSettled = Genesis /\ lastExecuted = Genesis
  /\ executedClosed = {Genesis} /\ settledClosed = {Genesis}
  /\ acceptedSent = {} /\ headSent = {}
  /\ bootstrapping \in BOOLEAN
  /\ processing = {}
  /\ cpc = "idle" /\ cb = Genesis /\ cur = Genesis /\ certain = TRUE
  /\ todo = {} /\ dropped = {}
  /\ queue = <<>>
  /\ epc = "idle" /\ eb = Genesis /\ clock = GenesisTime /\ left = 0

----------------------------------------------------------------------------
\* Consensus: VM.VerifyBlock

\* The header of a block built on p.  Execution of the block starts at the later
\* of its own time and the end of p's, and every unit of gas takes a tick.
Child(b, p, t, g) ==
  [parent |-> p, height |-> hdr[p].height + 1, time |-> t, gas |-> g,
   anc |-> hdr[p].anc \cup {b}, due |-> Larger(hdr[p].due, t) + g]

\* A block that nobody has seen is parsed, or built and then verified like any
\* other.  Its parent is in the map: GetBlock finds only settled blocks outside
\* it, and a child of those fails the check against the last accepted height.
\* lastToSettle refuses a time below Tau or before the parent's.  While
\* bootstrapping, the engine verifies and accepts blocks one by one.
BeginVerify ==
  /\ cpc = "idle"
  /\ bootstrapping => processing = {}
  /\ \E b \in Block \ DOMAIN hdr, p \in critical, t \in BlockTimes, g \in GasUsed :
       /\ \A x \in Block \ DOMAIN hdr : b <= x
       /\ hdr[p].height + 1 > hdr[lastAccepted].height
       /\ t >= Tau /\ t >= hdr[p].time
       /\ hdr' = [x \in DOMAIN hdr \cup {b} |->
                    IF x = b THEN Child(b, p, t, g) ELSE hdr[x]]
       /\ cb' = b /\ cur' = p
  /\ certain' = TRUE
  /\ cpc' = "walk"
  /\ UNCHANGED <<settledBy, processing, acceptVars, settleVars, critical,
                 executorVars, queue, bootstrapping>>

\* The argument that lastToSettle passes to LastToSettleAt.
SettleAtNow(b) == hdr[b].time
SettleAt(b) == hdr[b].time - Tau

\* The three ways in which LastToSettleAt knows that a block finishes too late:
\* it starts too late, it was seen to be executing too late, or it did finish.
StartsLate(b) == hdr[b].time > SettleAt(cb)
RunsLate(b) == interim[b] > SettleAt(cb)
NeverEndsLate(b) == FALSE
EndsLate(b) == execution[b] > SettleAt(cb)

\* VerifyBlock returns an error.  The block was never stored.
FailVerify ==
  /\ hdr' = [x \in DOMAIN hdr \ {cb} |-> hdr[x]]
  /\ cb' = lastAccepted
  /\ cur' = lastSettled
  /\ certain' = TRUE
  /\ cpc' = "idle"

\* LastToSettleAt moves on to the parent of its current block.
WalkOn(sure) ==
  /\ cur' = ParentBlock(cur)
  /\ certain' = sure
  /\ cpc' = "walk"
  /\ UNCHANGED <<hdr, cb>>

\* LastToSettleAt returns its current block, with ok = certain; if it is not ok
\* then lastToSettle fails with errExecutionLagging.
WalkReturn ==
  IF certain
    THEN cpc' = "awaitArtefact" /\ UNCHANGED <<hdr, cb, cur, certain>>
    ELSE FailVerify

\* One iteration of LastToSettleAt up to the load of the interim time ...
WalkTimes ==
  /\ cpc = "walk" /\ cur # None
  /\ \/ cur \in settled /\ WalkReturn
     \/ /\ cur \notin settled
        /\ StartsLate(cur) \/ RunsLate(cur)
        /\ WalkOn(TRUE)
     \/ /\ cur \notin settled
        /\ ~ StartsLate(cur) /\ ~ RunsLate(cur)
        /\ cpc' = "loadExecution"
        /\ UNCHANGED <<hdr, cb, cur, certain>>
  /\ UNCHANGED <<settledBy, processing, acceptVars, settleVars, critical,
                 executorVars, queue, bootstrapping>>

\* ... and from the load of the execution results, which the executor may have
\* stored since.
WalkExecution ==
  /\ cpc = "loadExecution"
  /\ \/ execution[cur] = None /\ WalkOn(FALSE)
     \/ execution[cur] # None /\ EndsLate(cur) /\ WalkOn(TRUE)
     \/ execution[cur] # None /\ ~ EndsLate(cur) /\ WalkReturn
  /\ UNCHANGED <<settledBy, processing, acceptVars, settleVars, critical,
                 executorVars, queue, bootstrapping>>

\* Both buildWithTxs and verifyWhenBootstrapping block on an execution artefact
\* of the block to settle, that is on its `executed` channel.
LoadArtefact(b) == execution[b] # None
AwaitArtefact(b) == b \in executedClosed

\* The rebuilt block gives b its ancestors, and b enters the map.
FinishVerify ==
  /\ cpc = "awaitArtefact"
  /\ AwaitArtefact(cur)
  /\ settledBy' = [settledBy EXCEPT ![cb] = cur]
  /\ critical' = critical \cup {cb}
  /\ processing' = processing \cup {cb}
  /\ cpc' = "idle"
  /\ UNCHANGED <<hdr, certain, acceptVars, settleVars, cb, cur, executorVars,
                 queue, bootstrapping>>

\* Verification fails for another reason: a full queue, an invalid transaction,
\* a hash that differs.
RefuseBlock ==
  /\ cpc = "awaitArtefact"
  /\ AwaitArtefact(cur)
  /\ FailVerify
  /\ UNCHANGED <<settledBy, processing, acceptVars, settleVars, critical,
                 executorVars, queue, bootstrapping>>

----------------------------------------------------------------------------
\* Consensus: VM.AcceptBlock

\* The blocks that AcceptBlock deletes from the map: what b settles, and what its
\* parent settled last, except for what b settles last.
ObsoleteWithKept(b) == Settles(b) \cup {LastSettled(hdr[b].parent)}
ObsoleteSettles(b) == Settles(b) \ {settledBy[b]}
Obsolete(b) == (Settles(b) \cup {LastSettled(hdr[b].parent)}) \ {settledBy[b]}

\* One batch: finalized hash (if anything settles), block and canonical hash.
AcceptOnDisk ==
  /\ cpc = "idle"
  /\ \E b \in processing :
       /\ hdr[b].parent = lastAccepted
       /\ canonical' = b
       /\ finalized' = IF Settles(b) = {} THEN finalized ELSE settledBy[b]
       /\ todo' = Settles(b)
       /\ dropped' = Obsolete(b)
       /\ processing' = processing \ {b}
       /\ cb' = b
  /\ cpc' = "settle"
  /\ UNCHANGED <<hdr, settledBy, certain, lastAccepted, acceptedSent, settled,
                 lastSettled, settledClosed, critical, cur, executorVars, queue,
                 bootstrapping>>

\* AcceptBlock settles in order of height, and all before it accepts.
SettleAny(s) == TRUE
SettleNext(s) == \A x \in todo : hdr[s].height <= hdr[x].height
AcceptAtOnce == TRUE
AllSettled == todo = {}

\* Block.MarkSettled on the next block: ancestry to nil ...
SettleInMemory ==
  /\ cpc = "settle"
  /\ \E s \in todo :
       /\ SettleNext(s)
       /\ s \notin settled
       /\ settled' = settled \cup {s}
       /\ cur' = s
  /\ cpc' = "storeSettled"
  /\ UNCHANGED <<verifyVars, acceptVars, lastSettled, settledClosed, todo,
                 critical, cb, executorVars, queue, bootstrapping>>

\* ... the last-settled pointer ...
StoreLastSettled ==
  /\ cpc = "storeSettled"
  /\ lastSettled' = cur
  /\ cpc' = "closeSettled"
  /\ UNCHANGED <<verifyVars, acceptVars, settled, settledClosed, todo, critical,
                 cb, cur, executorVars, queue, bootstrapping>>

\* ... and the channel of WaitUntilSettled.
CloseSettled ==
  /\ cpc = "closeSettled"
  /\ settledClosed' = settledClosed \cup {cur}
  /\ todo' = todo \ {cur}
  /\ cpc' = "settle"
  /\ UNCHANGED <<verifyVars, acceptVars, settled, lastSettled, critical, cb, cur,
                 executorVars, queue, bootstrapping>>

StoreLastAccepted ==
  /\ cpc = "settle"
  /\ AllSettled
  /\ lastAccepted' = cb
  /\ cpc' = "sendAccepted"
  /\ UNCHANGED <<verifyVars, canonical, finalized, acceptedSent, dropped,
                 settleVars, critical, cb, cur, executorVars, queue,
                 bootstrapping>>

SendAccepted ==
  /\ cpc = "sendAccepted"
  /\ acceptedSent' = acceptedSent \cup {cb}
  /\ cpc' = "enqueue"
  /\ UNCHANGED <<verifyVars, canonical, finalized, lastAccepted, dropped,
                 settleVars, critical, cb, cur, executorVars, queue,
                 bootstrapping>>

\* When bootstrapping, AcceptBlock waits for the execution.
NoAwaitExecuted == "evict"
AfterEnqueue == IF bootstrapping THEN "awaitExecuted" ELSE "evict"

\* Executor.Enqueue; the channel send blocks while the buffer is full.
Enqueue ==
  /\ cpc = "enqueue"
  /\ Len(queue) < QueueCap
  /\ queue' = Append(queue, cb)
  /\ cpc' = AfterEnqueue
  /\ UNCHANGED <<verifyVars, acceptVars, settleVars, critical, cb, cur,
                 executorVars, bootstrapping>>

AwaitExecuted ==
  /\ cpc = "awaitExecuted"
  /\ cb \in executedClosed
  /\ cpc' = "evict"
  /\ UNCHANGED <<verifyVars, acceptVars, settleVars, critical, cb, cur,
                 executorVars, queue, bootstrapping>>

\* The blocks that conflict with the last accepted one.
Conflicting == {b \in processing : lastAccepted \notin hdr[b].anc}

\* The deletions at the end of AcceptBlock.
Evict ==
  /\ cpc = "evict"
  /\ critical' = critical \ dropped
  /\ dropped' = {}
  /\ cpc' = IF Conflicting = {} THEN "idle" ELSE "reject"
  /\ UNCHANGED <<verifyVars, canonical, finalized, lastAccepted, acceptedSent,
                 settleVars, cb, cur, executorVars, queue, bootstrapping>>

\* VM.RejectBlock; the engine rejects every conflicting block before it goes on.
RejectBlock ==
  /\ cpc = "reject"
  /\ \E b \in Conflicting :
       /\ critical' = critical \ {b}
       /\ processing' = processing \ {b}
       /\ cpc' = IF Conflicting = {b} THEN "idle" ELSE "reject"
  /\ UNCHANGED <<hdr, settledBy, certain, acceptVars, settleVars, cb, cur,
                 executorVars, queue, bootstrapping>>

\* VM.SetState: bootstrapping ends.
SetState ==
  /\ cpc = "idle"
  /\ bootstrapping
  /\ bootstrapping' = FALSE
  /\ UNCHANGED <<consensusVars, executorVars, queue>>

----------------------------------------------------------------------------
\* The execution stream: Executor.processQueue

\* Executor.execute refuses a block that is not the child of the last executed
\* one, which ends the stream.
IsNextAccepted(b) == lastAccepted = hdr[b].parent
IsNextToExecute(b) == lastExecuted = hdr[b].parent

\* Take the next block.  Execute starts the clock at the later of the parent's
\* gas time and the block's own time.
Dequeue ==
  /\ epc = "idle"
  /\ queue # <<>>
  /\ eb' = Head(queue)
  /\ queue' = Tail(queue)
  /\ IF IsNextToExecute(eb')
       THEN /\ epc' = "run"
            /\ clock' = Larger(execution[ParentBlock(eb')], hdr[eb'].time)
            /\ left' = hdr[eb'].gas
       ELSE epc' = "dead" /\ UNCHANGED <<clock, left>>
  /\ UNCHANGED <<consensusVars, resultVars, interim, bootstrapping>>

\* A transaction, or an end-of-block operation, consumes gas.
TxGasOverrun == 1 .. left + 1
TxGas == 1 .. left
RunTx ==
  /\ epc = "run"
  /\ \E g \in TxGas :
       /\ clock' = clock + g
       /\ left' = left - g
       /\ interim' = [interim EXCEPT ![eb] = clock + g]
  /\ UNCHANGED <<consensusVars, resultVars, eb, epc, queue, bootstrapping>>

\* The order of the steps of Block.MarkExecuted and afterExecution.
MemoryBeforeDisk == [run |-> "memory", memory |-> "batch", batch |-> "pointer",
                     pointer |-> "close", close |-> "events", events |-> "idle"]
NoClose == [run |-> "batch", batch |-> "memory", memory |-> "pointer",
            pointer |-> "events", close |-> "events", events |-> "idle"]
StreamOrder == [run |-> "batch", batch |-> "memory", memory |-> "pointer",
                pointer |-> "close", close |-> "events", events |-> "idle"]

\* D, execution results ...
PutResults ==
  /\ epc = "run"
  /\ left = 0
  /\ xdb' = xdb \cup {eb}
  /\ epc' = StreamOrder[epc]
  /\ UNCHANGED <<consensusVars, head, execution, lastExecuted, executedClosed,
                 headSent, runVars, queue, bootstrapping>>

\* ... D, receipts and head block in one batch ...
WriteBatch ==
  /\ epc = "batch"
  /\ head' = eb
  /\ epc' = StreamOrder[epc]
  /\ UNCHANGED <<consensusVars, xdb, execution, lastExecuted, executedClosed,
                 headSent, runVars, queue, bootstrapping>>

\* ... M ...
StoreExecution ==
  /\ epc = "memory"
  /\ execution' = [execution EXCEPT ![eb] = clock]
  /\ epc' = StreamOrder[epc]
  /\ UNCHANGED <<consensusVars, xdb, head, lastExecuted, executedClosed,
                 headSent, runVars, queue, bootstrapping>>

\* ... I, polled ...
StoreLastExecuted ==
  /\ epc = "pointer"
  /\ lastExecuted' = eb
  /\ epc' = StreamOrder[epc]
  /\ UNCHANGED <<consensusVars, xdb, head, execution, executedClosed, headSent,
                 runVars, queue, bootstrapping>>

\* ... I, broadcast ...
CloseExecuted ==
  /\ epc = "close"
  /\ executedClosed' = executedClosed \cup {eb}
  /\ epc' = StreamOrder[epc]
  /\ UNCHANGED <<consensusVars, xdb, head, execution, lastExecuted, headSent,
                 runVars, queue, bootstrapping>>

\* ... and X: Executor.sendPostExecutionEvents.
SendEvents ==
  /\ epc = "events"
  /\ headSent' = headSent \cup {eb}
  /\ epc' = StreamOrder[epc]
  /\ UNCHANGED <<consensusVars, xdb, head, execution, lastExecuted,
                 executedClosed, runVars, queue, bootstrapping>>

----------------------------------------------------------------------------
\* Steps that a call in progress takes.
Proceed ==
  \/ WalkTimes \/ WalkExecution \/ FinishVerify \/ RefuseBlock
  \/ SettleInMemory \/ StoreLastSettled \/ CloseSettled \/ StoreLastAccepted
  \/ SendAccepted \/ Enqueue \/ AwaitExecuted \/ Evict \/ RejectBlock

\* Steps of the execution stream.
Stream ==
  \/ Dequeue \/ RunTx \/ PutResults \/ WriteBatch \/ StoreExecution
  \/ StoreLastExecuted \/ CloseExecuted \/ SendEvents

Next == BeginVerify \/ AcceptOnDisk \/ SetState \/ Proceed \/ Stream

Spec == Init /\ [][Next]_vars

\* A goroutine that can run is scheduled.  The engine need not call the VM again.
FairSpec == Spec /\ WF_vars(Proceed) /\ WF_vars(Stream)

----------------------------------------------------------------------------
\* The types of the variables.  A gas time is never negative: the transactions of
\* a block never consume more than its header's gas (Execute).
TypeOK ==
  /\ DOMAIN hdr \subseteq Block /\ Genesis \in DOMAIN hdr
  /\ hdr \in [DOMAIN hdr -> Header]
  /\ {canonical, finalized, head, lastAccepted, lastSettled, lastExecuted,
      cb, eb} \subseteq Block
  /\ settledBy \in [Block -> Block]
  /\ interim \in [Block -> Nat \cup {None}]
  /\ execution \in [Block -> Nat \cup {None}]
  /\ xdb \subseteq Block /\ settled \subseteq Block /\ critical \subseteq Block
  /\ executedClosed \subseteq Block /\ settledClosed \subseteq Block
  /\ acceptedSent \subseteq Block /\ headSent \subseteq Block
  /\ bootstrapping \in BOOLEAN
  /\ processing \subseteq Block
  /\ cpc \in {"idle", "walk", "loadExecution", "awaitArtefact", "settle",
              "storeSettled", "closeSettled", "sendAccepted", "enqueue",
              "awaitExecuted", "evict", "reject"}
  /\ cur \in Block \cup {None}
  /\ certain \in BOOLEAN
  /\ todo \subseteq Block /\ dropped \subseteq Block
  /\ queue \in Seq(Block)
  /\ epc \in {"idle", "run", "batch", "memory", "pointer", "close", "events",
              "dead"}
  /\ clock \in Nat /\ left \in Nat

----------------------------------------------------------------------------
\* Correctness

Accepted == hdr[canonical].anc \ {Genesis}
Executed == {b \in Block : execution[b] # None}

\* b is the block to settle when building on p at time t: the last of p and its
\* ancestors that is due by then, or the last synchronous block.
IsLastToSettle(b, p, t) ==
  /\ b \in hdr[p].anc
  /\ hdr[b].due <= t \/ b = Genesis
  /\ \A x \in hdr[p].anc : hdr[x].height > hdr[b].height => hdr[x].due > t

\* Whatever the execution stream had finished, and whenever it moved on during
\* the walk of LastToSettleAt, the block it settles on depends on the headers
\* alone.  Every node therefore computes the same settled height and root.
SettlementIsDeterministic ==
  \A b \in processing \cup Accepted :
    IsLastToSettle(settledBy[b], hdr[b].parent, SettleAt(b))

\* docs/invariants.md, execution of a block: external event after closed channel
\* after pointer after memory after disk after acceptance, in MarkExecuted,
\* afterExecution and AcceptBlock.
ExecutionIsOrdered ==
  /\ headSent \subseteq executedClosed
  /\ executedClosed \subseteq hdr[lastExecuted].anc
  /\ hdr[lastExecuted].anc \subseteq Executed
  /\ Executed \subseteq hdr[head].anc
  /\ hdr[head].anc \subseteq xdb
  /\ xdb \ {Genesis} \subseteq acceptedSent
  /\ acceptedSent \subseteq hdr[lastAccepted].anc
  /\ hdr[lastAccepted].anc \subseteq hdr[canonical].anc

\* docs/invariants.md, settlement: each effect of settling a block follows the
\* same effect of executing it, on disk, in memory, for the pointers and for the
\* closed channels.  MarkSettled never looks at the execution; the order rests on
\* VerifyBlock having waited for an artefact of the block to settle.
SettledAfterExecuted ==
  /\ hdr[finalized].anc \subseteq hdr[head].anc
  /\ settled \subseteq Executed
  /\ hdr[lastSettled].anc \subseteq hdr[lastExecuted].anc
  /\ settledClosed \subseteq executedClosed

\* docs/invariants.md, note (2): an effect of accepting a block follows the same
\* effect of settling every block that it settles, and settlement itself goes
\* channel after pointer after memory after disk.
SettledBeforeAccepted ==
  /\ settledClosed \subseteq hdr[lastSettled].anc
  /\ hdr[lastSettled].anc \subseteq settled
  /\ settled \subseteq hdr[finalized].anc
  /\ canonical # Genesis => finalized = settledBy[canonical]
  /\ lastAccepted # Genesis => settledBy[lastAccepted] \in hdr[lastSettled].anc
  /\ \A b \in acceptedSent : settledBy[b] \in settledClosed

\* docs/invariants.md, note (1): no effect on a block precedes the same effect on
\* its parent.
ParentFirst ==
  \A S \in {xdb, Executed, executedClosed, settled, settledClosed,
            acceptedSent \cup {Genesis}, headSent \cup {Genesis}} :
    \A b \in S : hdr[b].parent \in S

\* A block that the map no longer holds is settled, so that GetBlock and the RPC
\* readers can fall back to the database (settledBlockFromDB refuses a height
\* above the last settled), and the last settled block itself is still there.
EvictedIsSettled ==
  /\ \A b \in hdr[canonical].anc \ critical : b \in hdr[lastSettled].anc
  /\ lastSettled \in critical

\* Between calls the map holds exactly the blocks consensus needs: the undecided
\* ones and the accepted ones from the last settled block up.  None leaks.
CriticalIsExact ==
  cpc \in {"idle", "walk", "loadExecution", "awaitArtefact"} =>
    critical = processing \cup
      {b \in hdr[lastAccepted].anc : hdr[b].height >= hdr[lastSettled].height}

\* None of the errors the code calls impossible is reached: LastToSettleAt never
\* walks past a settled block (errIncompleteBlockHistory), Block.Settles never
\* meets a nil ancestry, MarkSettled never settles twice (errBlockResettled),
\* MarkExecuted never executes twice (errMarkBlockExecutedAgain), Execute finds
\* its parent, and the stream never receives a block out of order.
NoInternalError ==
  /\ cur # None
  /\ cpc = "loadExecution" => cur \notin settled
  /\ cpc = "idle" => \A b \in processing :
       hdr[b].parent = lastAccepted =>
         /\ LastSettled(hdr[b].parent) # None
         /\ Settles(b) \cap settled = {}
  /\ cpc = "settle" => todo \cap settled = {}
  /\ queue # <<>> => ParentBlock(Head(queue)) # None
  /\ epc = "memory" => execution[eb] = None
  /\ epc # "dead"

\* While bootstrapping, where the engine treats any error of Verify as fatal,
\* verification never fails because execution lags: AcceptBlock waited for it.
BootstrapNeverLags == bootstrapping => certain

\* The accepted, executed and settled blocks, as pointers and as database labels,
\* only ever move up their own chain.
LabelsMonotone ==
  [][/\ canonical \in hdr'[canonical'].anc
     /\ finalized \in hdr'[finalized'].anc
     /\ head \in hdr'[head'].anc
     /\ lastAccepted \in hdr'[lastAccepted'].anc
     /\ lastSettled \in hdr'[lastSettled'].anc
     /\ lastExecuted \in hdr'[lastExecuted'].anc]_vars

\* Every block written as canonical is eventually executed and announced.
AcceptedIsExecuted ==
  \A b \in Block : (b \in DOMAIN hdr /\ b \in hdr[canonical].anc) ~> (b \in headSent \/ b = Genesis)

\* Every call of the engine returns: neither verification, which waits for an
\* artefact of execution, nor acceptance, which waits for room in the queue,
\* blocks for ever.
CallsReturn == cpc # "idle" ~> cpc = "idle"
=============================================================================
