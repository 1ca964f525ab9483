------------------------------ MODULE Readers ------------------------------
(***************************************************************************)
(* Calls that read blocks while consensus and the execution stream of SAE  *)
(* go on: VM.GetBlock, block and header sources, the receipts of a block   *)
(* (getReceipts), the receipt of a transaction (Executor.RecentReceipt,    *)
(* then the database), the state after a block or before one of its        *)
(* transactions, and the receipts that the Bloom indexer reads.  They take *)
(* no lock over the map, the pointers and the database together, so that   *)
(* every load is a step of its own and the block may be accepted,          *)
(* executed, settled and evicted in between.                               *)
(*                                                                         *)
(* One call is in progress at a time: calls write nothing that another     *)
(* call reads.  A block stands for its hash, and for the first transaction *)
(* that it includes.                                                       *)
(***************************************************************************)
EXTENDS SAE

CONSTANTS
  Archival,        \* does the node keep every state? (saedb.Config)
  CommitInterval   \* how often it commits a settled state otherwise

ASSUME ReadersAssumption == Archival \in BOOLEAN /\ CommitInterval \in Nat \ {0}

\* rpc.BlockNumber; libevm also has FinalizedBlockNumber, which the VM treats
\* like SafeBlockNumber.
Pending == -1
Latest == -2
Safe == -4

\* GetBlock answers neither a block nor an error.
Nil == -2

VARIABLES
  buffers,    \* blocks with receipt buffers in Executor.receipts
  committed,  \* blocks whose post-execution state has been committed to disk
  op,         \* the call
  at,         \* its next load, or "done"
  id,         \* the hash that it is about, once it is known
  num,        \* the label or number that it was given, then the block's number
  promised,   \* when it began: does the VM owe it an answer?
  floor,      \* when it began: height of the block with the label
  reply       \* the block found or whose results or state were found, None, or Nil

nodeVars == <<vars, buffers, committed>>
callVars == <<op, at, id, num, promised, floor, reply>>
allVars == <<nodeVars, callVars>>

----------------------------------------------------------------------------
\* The database

OnChain == hdr[canonical].anc
ReadCanonicalHash(n) ==
  IF \E b \in OnChain : hdr[b].height = n
    THEN CHOOSE b \in OnChain : hdr[b].height = n ELSE None

\* Execution results, and the receipts that are written with the head block.
HasArtefacts(b) == b \in xdb /\ b \in hdr[head].anc

\* Execution results alone have the height as their key.
ReadResults(n) ==
  IF \E b \in xdb : hdr[b].height = n THEN CHOOSE b \in xdb : hdr[b].height = n ELSE None

\* Tracker.MaybeCommit, when the executor has run b: the block whose state it commits.
ShouldCommitTrieDB(n) == n % CommitInterval = 0
MaybeCommit(b) ==
  IF Archival THEN {b}
  ELSE IF ShouldCommitTrieDB(hdr[b].height) THEN {settledBy[b]} ELSE {}

\* The Tracker holds in memory the states after the blocks of the map, and the states
\* that these have settled; any other state is gone unless it was committed.
Pruned(b) ==
  /\ b \notin critical \cup committed
  /\ \A x \in critical : settledBy[x] # b

----------------------------------------------------------------------------
\* Executor.receipts

\* The start of Executor.Enqueue.
CreateReceiptBuffers ==
  /\ cpc = "enqueue"
  /\ cb \notin buffers
  /\ buffers' = buffers \cup {cb}
  /\ UNCHANGED <<vars, committed, callVars>>

\* Blocks that can be reached from b through ancestry pointers, which settling
\* sets to nil.
Ancestry(b) ==
  LET up == {x \in hdr[b].anc :
               \A y \in hdr[b].anc : hdr[y].height > hdr[x].height => y \notin settled}
  IN up \cup {settledBy[y] : y \in up \ settled}

\* Blocks that the garbage collector must keep.
OnlyPending == processing
Roots == critical \cup {queue[i] : i \in DOMAIN queue} \cup todo \cup dropped
           \cup {lastAccepted, lastExecuted, lastSettled, cb, eb}
Reachable == UNION {Ancestry(b) : b \in Roots \cap DOMAIN hdr}

\* The cleanup that createReceiptBuffers attached to the block runs.
Cleanup ==
  /\ \E b \in buffers \ Reachable : buffers' = buffers \ {b}
  /\ UNCHANGED <<vars, committed, callVars>>

\* Consensus and the stream go on; a block is sent to the queue only after its
\* buffers exist, and its results are stored only after MaybeCommit.
LifeCycle ==
  /\ Next
  /\ cpc = "enqueue" /\ cpc' # cpc => cb \in buffers
  /\ committed' = committed \cup (IF xdb' # xdb THEN MaybeCommit(eb) ELSE {})
  /\ UNCHANGED <<buffers, callVars>>

----------------------------------------------------------------------------
\* The calls

\* A call begins.
Begin(o, first, b, n, owed, height) ==
  /\ op' = o /\ at' = first /\ id' = b /\ num' = n
  /\ promised' = owed /\ floor' = height /\ reply' = None

Continue(next) == at' = next /\ UNCHANGED <<op, id, num, promised, floor, reply>>
Return(b) == at' = "done" /\ reply' = b /\ UNCHANGED <<op, id, num, promised, floor>>

\* The post-execution root of b is known: its state is opened next.
OpenAt(b) == at' = "open" /\ reply' = b /\ UNCHANGED <<op, id, num, promised, floor>>

\* VM.GetBlock.  Its doc promises the blocks that are verified or accepted.
GetBlock(b) ==
  Begin("GetBlock", "lookUp", b, 0, b \in processing \cup hdr[lastAccepted].anc, 0)

\* A block or header by hash and number (source, FromNumberAndHash): from the map,
\* and else from the database.
Source(b) == Begin("Source", "source", b, 0, b \in processing \cup hdr[lastAccepted].anc, 0)

\* backend.getReceipts by hash, owed once execution was announced.
Receipts(b) == Begin("Receipts", "lookUp", b, 0, b \in headSent, 0)

\* The height that a label stands for, or the number itself.
Resolved(n) ==
  CASE n = Pending -> hdr[lastAccepted].height
    [] n = Latest  -> hdr[lastExecuted].height
    [] n = Safe    -> hdr[lastSettled].height
    [] OTHER       -> n

\* backend.getReceipts by label or number; ResolveRPCNumber loads the tip first.
ByNumber(n) ==
  LET owed == \/ n \in {Latest, Safe}
              \/ \E b \in headSent : hdr[b].height = n
  IN Begin("ByNumber", "tip", None, n, owed, Resolved(n))

\* immediateReceipts.GetTransactionReceipt, owed once AcceptBlock has enqueued the
\* block with the transaction.
TxReceipt(b) ==
  LET enqueued == /\ b \in hdr[lastAccepted].anc \ {Genesis}
                  /\ b = cb => cpc \notin {"sendAccepted", "enqueue"}
  IN Begin("TxReceipt", "recent", b, 0, enqueued, 0)

\* StateAndHeaderByNumberOrHash, owed for what is accepted; not for the pending block.
State(b) == Begin("State", "lookUp", b, 0, b \in hdr[lastAccepted].anc, 0)
StateByNumber(n) ==
  Begin("StateByNumber", "tip", None, n, Resolved(n) <= hdr[lastAccepted].height, Resolved(n))

\* StateAtBlock, of a block that the tracer has loaded before; owed once it is executed.
StateAtBlock(b) == Begin("StateAtBlock", "load", b, 0, b \in hdr[lastExecuted].anc, 0)

\* StateAtTransaction starts from the state after the parent; owed once that is executed.
StateAtTransaction(b) ==
  Begin("StateAtTransaction", "parent", b, 0, hdr[b].parent \in hdr[lastExecuted].anc, 0)

\* OverrideHeaderBloom for the chain indexer, which starts at the last executed block
\* and then goes on with the head events.
Bloom(b) == Begin("Bloom", "restore", b, 0, TRUE, 0)

Call ==
  /\ at = "done"
  /\ \/ \E b \in Block : GetBlock(b) \/ Source(b) \/ Receipts(b) \/ TxReceipt(b) \/ State(b)
     \/ \E b \in processing \cup OnChain : StateAtBlock(b)
     \/ \E b \in OnChain \ {Genesis} : StateAtTransaction(b)
     \/ \E b \in headSent \cup {lastExecuted} : Bloom(b)
     \/ \E n \in {Latest, Safe} \cup 0 .. MaxBlocks : ByNumber(n) \/ StateByNumber(n)
     \/ ByNumber(Pending)
  /\ UNCHANGED nodeVars

\* ResolveRPCNumber: the last accepted block, then the pointer of the label ...
FutureNumberPlusOne(n) == n > hdr[lastAccepted].height + 1
FutureNumber(n) == n > hdr[lastAccepted].height
ResolveTip ==
  /\ at = "tip"
  /\ \/ num = Pending
        /\ num' = hdr[lastAccepted].height /\ at' = "canonicalHash"
        /\ UNCHANGED <<op, id, promised, floor, reply>>
     \/ num \in {Latest, Safe} /\ Continue("label")
     \/ FutureNumber(num) /\ Return(None)
     \/ num >= 0 /\ ~ FutureNumber(num) /\ Continue("canonicalHash")
  /\ UNCHANGED nodeVars

ResolveLabel ==
  /\ at = "label"
  /\ num' = IF num = Latest THEN hdr[lastExecuted].height ELSE hdr[lastSettled].height
  /\ at' = "canonicalHash"
  /\ UNCHANGED <<nodeVars, op, id, promised, floor, reply>>

\* ... and the canonical hash, which is not checked.
ReadHashOfNumber ==
  /\ at = "canonicalHash"
  /\ id' = ReadCanonicalHash(num)
  /\ at' = "load"
  /\ UNCHANGED <<nodeVars, op, num, promised, floor, reply>>

\* FromHash and ResolveRPCNumberOrHash first look for the hash in the map.  All
\* readers of package rpc set RequireCanonical; GetBlock does not.
AlwaysCanonical == TRUE
RequireCanonical == op # "GetBlock"
LookUp ==
  /\ at = "lookUp"
  /\ \/ id \in critical /\ RequireCanonical /\ Continue("isCanonical")
     \/ id \in critical /\ ~ RequireCanonical /\ Return(id)
     \/ id \notin critical /\ Continue("headerNumber")
  /\ UNCHANGED nodeVars

\* The block is known by now, but it may have been rejected.
IsCanonical ==
  /\ at = "isCanonical"
  /\ IF id \in OnChain THEN Continue("load") ELSE Return(None)
  /\ UNCHANGED nodeVars

\* ReadHeaderNumber: only canonical blocks are in the database.
ReadHeaderNumber ==
  /\ at = "headerNumber"
  /\ IF id \notin OnChain THEN Return(None)
     ELSE Continue(IF op = "GetBlock" THEN "check" ELSE "load")
  /\ UNCHANGED nodeVars

\* FromNumberOrHash, and the readers of state, look in the map again.
StateOps == {"State", "StateByNumber", "StateAtBlock"}
Load ==
  /\ at = "load"
  /\ Continue(IF id \in critical
                THEN IF op \in {"State", "StateByNumber"} THEN "await" ELSE "executed"
                ELSE IF op \in StateOps THEN "results" ELSE "check")
  /\ UNCHANGED nodeVars

\* PostExecutionStateRoot and ExecutedBaseFee wait until a block of the map is executed ...
AwaitState ==
  /\ at = "await"
  /\ AwaitArtefact(id)
  /\ OpenAt(id)
  /\ UNCHANGED nodeVars

\* ... and the root and base fee of any other block are read by its number.
ReadState ==
  /\ at = "results"
  /\ LET b == ReadResults(hdr[id].height) IN IF b = None THEN Return(None) ELSE OpenAt(b)
  /\ UNCHANGED nodeVars

\* StateDB(root), which Execute calls for StateAtTransaction: it fails if the trie is
\* pruned, unless another block that is not has the same root.
OpenState ==
  /\ at = "open"
  /\ \/ Return(reply)
     \/ Pruned(reply) /\ Return(None)
  /\ UNCHANGED nodeVars

\* StateAtTransaction refuses a block whose parent is not executed, and restores the
\* parent from the database.
ParentMissing == hdr[lastExecuted].height < hdr[id].height - 1
LoadParent ==
  /\ at = "parent"
  /\ \/ ParentMissing /\ Return(None)
     \/ /\ ~ ParentMissing
        /\ id' = hdr[id].parent /\ at' = "restore"
        /\ UNCHANGED <<op, num, promised, floor, reply>>
  /\ UNCHANGED nodeVars

\* getReceipts and postExecutionStateRoot on a block of the map.
IsExecuted ==
  /\ at = "executed"
  /\ IF execution[id] = None THEN Return(None)
     ELSE IF op = "StateAtBlock" THEN OpenAt(id) ELSE Return(id)
  /\ UNCHANGED nodeVars

\* The guard before restoring from the database, of settledBlockFromDB and of
\* getReceipts.  GetBlock drops the error of settledBlockFromDB, which is not
\* the blocks.ErrNotFound that it looks for.
Unguarded == FALSE
TooRecent ==
  hdr[id].height > hdr[IF op = "GetBlock" THEN lastSettled ELSE lastExecuted].height
Check ==
  /\ at = "check"
  /\ IF TooRecent THEN Return(IF op = "GetBlock" THEN Nil ELSE None)
     ELSE Continue("restore")
  /\ UNCHANGED nodeVars

\* RestoreExecutionArtefacts, or the receipts alone; all turn an error into no answer.
Restore ==
  /\ at = "restore"
  /\ IF ~ HasArtefacts(id) THEN Return(IF op = "GetBlock" THEN Nil ELSE None)
     ELSE IF op = "StateAtTransaction" THEN OpenAt(id) ELSE Return(id)
  /\ UNCHANGED nodeVars

SourceInMap ==
  /\ at = "source"
  /\ IF id \in critical THEN Return(id) ELSE Continue("readBlock")
  /\ UNCHANGED nodeVars

SourceOnDisk ==
  /\ at = "readBlock"
  /\ Return(IF id \in OnChain THEN id ELSE None)
  /\ UNCHANGED nodeVars

\* Executor.RecentReceipt loads the buffer and then waits for the receipt, which
\* Execute puts into it along with the interim execution time.
LoadRecent ==
  /\ at = "recent"
  /\ Continue(IF id \in buffers THEN "peek" ELSE "transaction")
  /\ UNCHANGED nodeVars

PeekReceipt ==
  /\ at = "peek"
  /\ interim[id] # None
  /\ Return(id)
  /\ UNCHANGED nodeVars

\* TransactionAPI.GetTransactionReceipt: the block of the transaction by its
\* lookup entry, then backend.GetReceipts by that block's hash.
ReadTransaction ==
  /\ at = "transaction"
  /\ IF id \in OnChain THEN Continue("lookUp") ELSE Return(None)
  /\ UNCHANGED nodeVars

Reader ==
  \/ Call \/ ResolveTip \/ ResolveLabel \/ ReadHashOfNumber \/ LookUp
  \/ IsCanonical \/ ReadHeaderNumber \/ Load \/ IsExecuted \/ Check \/ Restore
  \/ AwaitState \/ ReadState \/ OpenState \/ LoadParent
  \/ LoadRecent \/ PeekReceipt \/ ReadTransaction \/ SourceInMap \/ SourceOnDisk

ReadersInit ==
  /\ Init
  /\ buffers = {} /\ committed = {Genesis}
  /\ op = "GetBlock" /\ at = "done" /\ id = None /\ num = 0
  /\ promised = FALSE /\ floor = 0 /\ reply = None

ReadersSpec ==
  ReadersInit /\ [][LifeCycle \/ CreateReceiptBuffers \/ Cleanup \/ Reader]_allVars

----------------------------------------------------------------------------
\* A block that was verified or accepted when GetBlock or a source was called is
\* returned, even if it moves from the map to the database meanwhile; unless it gets
\* rejected.
StoredIsFound ==
  op \in {"GetBlock", "Source"} /\ at = "done" /\ promised /\ id \in processing \cup OnChain
    => reply = id

\* Receipts are found of every block announced as executed and every transaction
\* enqueued when the call began, and a Bloom filter is never made of receipts that are
\* not yet there.  States are found of every block accepted, for the tracers of every
\* block executed, unless their trie has been pruned ("tracing is limited to recent
\* blocks whose trie data has not been pruned").  A receipt leaves the buffers only once
\* the database has it, and a block leaves the map only once its results can be read
\* from disk; these, although read by number, are the ones of the block that was asked
\* for if that is on the accepted chain.
StateCalls == {"State", "StateByNumber", "StateAtBlock", "StateAtTransaction"}
ResultsAreFound ==
  op \notin {"GetBlock", "Source"} /\ at = "done" =>
    /\ promised => /\ id \in OnChain
                   /\ reply = id \/ (op \in StateCalls /\ Pruned(id))
    /\ id \in OnChain => reply \in {id, None}

\* The number that ResolveRPCNumber returns always has a canonical hash, as
\* ResolveRPCNumberOrHash assumes when it does not check for a zero hash, and a
\* label never resolves to a block below the one that had it when the call began.
NumberIsCanonical ==
  op \in {"ByNumber", "StateByNumber"} /\ at \notin {"tip", "label", "canonicalHash", "done"} =>
    /\ id # None
    /\ hdr[id].height = num
    /\ num >= floor

\* No reader restores a block that has no execution artefacts on disk, even if the
\* block was unknown at the first load and accepted since, as the comment in
\* settledBlockFromDB requires of its check, and the one in StateAtTransaction of its.
RestoresOnlyExecuted == at = "restore" => HasArtefacts(id)

\* "GetBlock returns the block with the given ID, or [database.ErrNotFound]", says
\* its comment: never neither.
GetBlockAnswers == op = "GetBlock" => reply # Nil
=============================================================================
