--------------------------- MODULE ReadersProofs ---------------------------
(***************************************************************************)
(* The readers of Readers find what they are owed, for every number of     *)
(* blocks, all block times and all amounts of gas.                         *)
(*                                                                         *)
(* The life cycle keeps its inductive invariant, since calls write nothing *)
(* of it.  On top of that, two facts are inductive: the executor holds the *)
(* receipt buffers of every block that is enqueued and not executed, and   *)
(* at every load of a call, what the call has seen so far still holds,     *)
(* whatever has happened since.  The latter rests on sets of blocks that   *)
(* only ever grow.                                                         *)
(***************************************************************************)
EXTENDS Readers, SAEProofs

USE Zenon

----------------------------------------------------------------------------
\* The sets of blocks that calls rely on.

Tip == hdr[lastAccepted].anc
Ran == hdr[lastExecuted].anc
Final == hdr[lastSettled].anc
OnDisk == hdr[head].anc
Sent == hdr[Enqueued].anc
Live == processing \cup OnChain
Gone == {b \in OnChain : Pruned(b)}

\* Blocks that are verified, accepted or rejected, but not being verified.
Stored == DOMAIN hdr \ (IF Verifying THEN {cb} ELSE {})

HeightOf(b) == hdr[b].height

----------------------------------------------------------------------------
\* Heights on a branch have no gaps.
NoGaps ==
  \A b \in DOMAIN hdr : \A n \in 0 .. hdr[b].height :
    \E x \in hdr[b].anc : hdr[x].height = n

\* A block has receipt buffers from before it is enqueued until it is executed.
BuffersInv == Sent \ Ran \subseteq buffers

\* An archival node commits every state before its results are stored.
ArchiveInv == Archival => xdb \subseteq committed

----------------------------------------------------------------------------
\* The calls

ByLabel == {"ByNumber", "StateByNumber"}
ByHash == {"Receipts", "TxReceipt", "State"}
Whole == {"GetBlock", "Source"}
OfReceipts == {"Receipts", "ByNumber", "TxReceipt"}

\* The loads that the calls take.
PathInv ==
  /\ op \in ByLabel \cup ByHash \cup Whole \cup {"StateAtBlock", "StateAtTransaction", "Bloom"}
  /\ at \in {"source", "readBlock", "recent", "peek", "transaction", "tip", "label",
             "canonicalHash", "parent", "lookUp", "headerNumber", "isCanonical", "load",
             "await", "results", "executed", "check", "restore", "open", "done"}
  /\ at \in {"source", "readBlock"} => op = "Source"
  /\ at \in {"recent", "peek", "transaction"} => op = "TxReceipt"
  /\ at \in {"tip", "label", "canonicalHash"} => op \in ByLabel
  /\ at = "parent" => op = "StateAtTransaction"
  /\ at \in {"lookUp", "headerNumber"} => op \in ByHash \cup {"GetBlock"}
  /\ at = "isCanonical" => op \in ByHash
  /\ at = "load" => op \in ByHash \cup ByLabel \cup {"StateAtBlock"}
  /\ at = "await" => op \in {"State", "StateByNumber"}
  /\ at = "results" => op \in StateOps
  /\ at = "executed" => op \in OfReceipts \cup {"StateAtBlock"}
  /\ at = "check" => op \in OfReceipts \cup {"GetBlock"}
  /\ at = "restore" => op \in OfReceipts \cup {"GetBlock", "StateAtTransaction", "Bloom"}
  /\ at = "open" => op \in StateCalls

\* What is known of the block.
BlockInv ==
  /\ at \in {"load", "await", "results", "executed", "open"} =>
       IF op = "StateAtBlock" THEN id \in Stored ELSE id \in OnChain
  /\ at = "results" => id \in Final \/ id \notin Live
  /\ at = "check" => id \in OnChain
  /\ at = "parent" => id \in OnChain \ {Genesis}
  /\ at = "restore" => id \in OnDisk

\* What is known of the number.
NumberInv ==
  /\ at \in {"tip", "label", "canonicalHash"} => floor \in Nat
  /\ at = "tip" =>
       \/ num = Pending /\ floor <= HeightOf(lastAccepted)
       \/ num = Latest /\ floor <= HeightOf(lastExecuted)
       \/ num = Safe /\ floor <= HeightOf(lastSettled)
       \/ num \in Nat /\ num = floor
  /\ at = "label" =>
       \/ num = Latest /\ floor <= HeightOf(lastExecuted)
       \/ num = Safe /\ floor <= HeightOf(lastSettled)
  /\ at = "canonicalHash" => num \in Nat /\ floor <= num /\ num <= HeightOf(lastAccepted)
  /\ op \in ByLabel /\ at \in {"load", "await", "results", "executed", "check", "restore", "open"} =>
       HeightOf(id) = num /\ num >= floor

\* What is still owed, because it was when the call began.
PromiseInv ==
  promised =>
    /\ op \in Whole => id \in Stored
    /\ op = "GetBlock" /\ at \in {"headerNumber", "check"} => id \in Final \/ id \notin Live
    /\ at = "readBlock" => id \in OnChain \/ id \notin Live
    /\ op \in {"Receipts", "StateAtBlock"} => id \in Ran
    /\ op = "TxReceipt" => id \in Sent
    /\ op = "TxReceipt" /\ at \notin {"recent", "peek", "done"} => id \in Ran
    /\ op = "State" => id \in OnChain
    /\ at = "tip" => \/ num \in {Latest, Safe}
                     \/ num <= HeightOf(IF op = "ByNumber" THEN lastExecuted ELSE lastAccepted)
                        /\ num # Pending
    /\ op = "ByNumber" /\ at = "canonicalHash" => num <= HeightOf(lastExecuted)
    /\ op = "ByNumber" /\ at \in {"load", "executed", "check"} => id \in Ran
    /\ at = "parent" => hdr[id].parent \in Ran

\* What has been found.
ReplyInv ==
  /\ at = "open" => reply = id \/ id \in Stored \ Live
  /\ at = "done" =>
       /\ op \in Whole /\ promised => reply = id \/ id \notin Live
       /\ op \notin Whole /\ promised =>
            id \in OnChain /\ (reply = id \/ (op \in StateCalls /\ id \in Gone))
       /\ op \notin Whole => reply \in {id, None} \/ id \in Stored \ Live

CallInv == PathInv /\ BlockInv /\ NumberInv /\ PromiseInv /\ ReplyInv

ReadersInv == IInv /\ NoGaps /\ BuffersInv /\ ArchiveInv /\ CallInv

----------------------------------------------------------------------------
\* What the life cycle's invariant says of these sets

LEMMA SetsNested ==
  ASSUME IInv
  PROVE  /\ lastAccepted \in OnChain /\ lastExecuted \in OnChain
         /\ lastSettled \in OnChain /\ head \in OnChain /\ Enqueued \in OnChain
         /\ canonical \in DOMAIN hdr /\ OnChain \subseteq DOMAIN hdr
         /\ Tip \subseteq OnChain /\ Ran \subseteq OnDisk /\ OnDisk \subseteq OnChain
         /\ Final \subseteq Ran /\ Sent \subseteq Tip /\ lastExecuted \in Ran
         /\ OnDisk \subseteq xdb /\ xdb \subseteq OnChain /\ Ran \subseteq Executed
         /\ headSent \subseteq Ran /\ Genesis \in Ran
<1>1. TypeOK /\ Tree /\ StreamInv /\ ChainInv /\ SettlingInv
  BY DEF IInv
<1>2. /\ canonical \in DOMAIN hdr /\ OnChain \subseteq DOMAIN hdr
      /\ \A b \in OnChain : hdr[b].anc \subseteq OnChain /\ b \in hdr[b].anc
  BY <1>1, KnownBlocks, AncestorsNested, ParentIsAncestor DEF OnChain
<1>3. ExecutionIsOrdered
  BY ExecutionOrdered
<1>4. lastAccepted \in OnChain /\ Tip \subseteq OnChain /\ Sent \subseteq Tip /\ Enqueued \in OnChain
  BY <1>2, KnownBlocks DEF OnChain, Tip, Sent
<1>5. \A x \in hdr[Taken].anc : x \in OnChain
  BY <1>2, <1>4, KnownBlocks DEF Tip, Sent
<1>6. lastExecuted \in OnChain /\ head \in OnChain
  BY <1>1, <1>5, KnownBlocks DEF StreamInv
<1>7. OnDisk \subseteq OnChain /\ OnDisk \subseteq xdb /\ Ran \subseteq OnDisk /\ Ran \subseteq Executed
      /\ headSent \subseteq Ran
  BY <1>2, <1>3, <1>6 DEF ExecutionIsOrdered, OnDisk, Ran
<1>8. xdb \subseteq OnChain
  BY <1>1, <1>2, <1>5, KnownBlocks DEF StreamInv
<1>9. Final \subseteq hdr[finalized].anc /\ hdr[finalized].anc \subseteq executedClosed
  BY SettledChain DEF Final
<1>10. executedClosed \subseteq Ran
  BY <1>3 DEF ExecutionIsOrdered, Ran
<1>11. lastSettled \in Final /\ lastExecuted \in Ran /\ Genesis \in Ran
  BY <1>1, <1>2, <1>6, ParentIsAncestor DEF Final, Ran, SettlingInv
<1>12. Final \subseteq Ran /\ lastSettled \in OnChain
  BY <1>7, <1>9, <1>10, <1>11
<1> QED
  BY ZenonT(60), <1>2, <1>4, <1>6, <1>7, <1>8, <1>11, <1>12

\* Blocks leave the map only once they are settled, and only undecided ones are
\* in the map besides the canonical ones.
LEMMA MapHolds ==
  ASSUME IInv
  PROVE  /\ processing \subseteq critical
         /\ OnChain \ critical \subseteq Final
<1>1. processing \subseteq critical
  BY DEF IInv, MapInv
<1>2. EvictedIsSettled
  BY EvictedSettled
<1> QED
  BY <1>1, <1>2 DEF EvictedIsSettled, OnChain, Final

\* On the canonical chain, heights tell which blocks are executed, settled and so on.
LEMMA Heights ==
  ASSUME IInv, NEW b \in OnChain
  PROVE  /\ HeightOf(b) \in Nat /\ b # None
         /\ HeightOf(lastAccepted) \in Nat /\ HeightOf(lastExecuted) \in Nat
         /\ HeightOf(lastSettled) \in Nat
         /\ HeightOf(b) <= HeightOf(lastAccepted) <=> b \in Tip
         /\ HeightOf(b) <= HeightOf(lastExecuted) <=> b \in Ran
         /\ HeightOf(b) <= HeightOf(lastSettled) <=> b \in Final
         /\ \A x \in OnChain : HeightOf(x) = HeightOf(b) => x = b
<1>1. TypeOK /\ Tree
  BY DEF IInv
<1>2. /\ b \in DOMAIN hdr /\ lastAccepted \in DOMAIN hdr /\ lastExecuted \in DOMAIN hdr
      /\ lastSettled \in DOMAIN hdr /\ canonical \in DOMAIN hdr
  BY SetsNested
<1>3. b # None
  BY SMTT(60), <1>1, <1>2, SAEAssumption DEF TypeOK, Block, None
<1>4. /\ HeightOf(b) <= HeightOf(lastAccepted) <=> b \in Tip
      /\ HeightOf(b) <= HeightOf(lastExecuted) <=> b \in Ran
      /\ HeightOf(b) <= HeightOf(lastSettled) <=> b \in Final
  BY <1>1, <1>2, SetsNested, HeightOrders DEF HeightOf, OnChain, Tip, Ran, Final
<1>5. \A x \in OnChain : HeightOf(x) = HeightOf(b) => x = b
  BY <1>1, <1>2, SameHeight DEF HeightOf, OnChain
<1> QED
  BY <1>1, <1>2, <1>3, <1>4, <1>5, HeaderFields DEF HeightOf

\* What is read by number is what is on the canonical chain.
LEMMA NumberReads ==
  ASSUME IInv, NoGaps
  PROVE  /\ \A n \in Nat : n <= HeightOf(lastAccepted) =>
              ReadCanonicalHash(n) \in OnChain /\ HeightOf(ReadCanonicalHash(n)) = n
         /\ \A b \in Final : ReadResults(hdr[b].height) = b
         /\ \A b : HasArtefacts(b) <=> b \in OnDisk
<1>1. ASSUME NEW n \in Nat, n <= HeightOf(lastAccepted)
      PROVE  ReadCanonicalHash(n) \in OnChain /\ HeightOf(ReadCanonicalHash(n)) = n
  <2>1. lastAccepted \in DOMAIN hdr /\ Tip \subseteq OnChain /\ hdr[lastAccepted].height \in Nat
    BY SetsNested, Heights DEF HeightOf
  <2>2. n \in 0 .. hdr[lastAccepted].height
    BY SMTT(60), <1>1, <2>1 DEF HeightOf
  <2>3. \E x \in OnChain : hdr[x].height = n
    BY <2>1, <2>2 DEF NoGaps, Tip
  <2> QED
    BY <2>3 DEF ReadCanonicalHash, HeightOf
<1>2. ASSUME NEW b \in Final
      PROVE  ReadResults(hdr[b].height) = b
  <2>1. b \in xdb /\ xdb \subseteq OnChain
    BY SetsNested
  <2>2. \A x \in xdb : hdr[x].height = hdr[b].height => x = b
    BY <2>1, Heights DEF HeightOf
  <2> QED
    BY <2>1, <2>2 DEF ReadResults
<1>3. \A b : HasArtefacts(b) <=> b \in OnDisk
  BY SetsNested DEF HasArtefacts, OnDisk
<1> QED
  BY <1>1, <1>2, <1>3

\* Parents on the canonical chain.
LEMMA ParentOnChain ==
  ASSUME IInv, NEW b \in OnChain \ {Genesis}
  PROVE  /\ hdr[b].parent \in OnChain
         /\ HeightOf(hdr[b].parent) = HeightOf(b) - 1
<1>1. TypeOK /\ Tree /\ b \in DOMAIN hdr /\ canonical \in DOMAIN hdr
  BY SetsNested DEF IInv
<1>2. hdr[b].parent \in OnChain
  BY <1>1, BranchHoldsParents DEF OnChain
<1>3. hdr[b].parent \in DOMAIN hdr
  BY <1>2, SetsNested
<1>4. hdr[b].height = hdr[hdr[b].parent].height + 1
  BY <1>1 DEF Tree, Linked
<1>5. hdr[hdr[b].parent].height \in Nat
  BY <1>1, <1>3, HeaderFields
<1>6. hdr[hdr[b].parent].height = hdr[b].height - 1
  BY SMTT(60), <1>4, <1>5
<1> QED
  BY <1>2, <1>6 DEF HeightOf

\* Undecided and accepted blocks are stored.
LEMMA LiveIsStored ==
  ASSUME IInv
  PROVE  Live \subseteq Stored
<1>1. processing \subseteq DOMAIN hdr /\ OnChain \subseteq DOMAIN hdr
  BY SetsNested DEF IInv, MapInv
<1>2. ASSUME Verifying
      PROVE  cb \notin processing /\ cb \notin OnChain
  <2>1. /\ cb \notin processing /\ cb \in DOMAIN hdr
        /\ \A x \in DOMAIN hdr \ {cb} : cb \notin hdr[x].anc
        /\ lastAccepted \in hdr[hdr[cb].parent].anc
    BY <1>2 DEF IInv, WalkInv
  <2>2. canonical = lastAccepted
    BY ZenonT(60), <1>2 DEF IInv, ChainInv, Verifying, Settling
  <2>3. canonical # cb
    BY ZenonT(60), <1>2, <2>1, <2>2 DEF IInv, WalkInv, Tree, Linked
  <2> QED
    BY <2>1, <2>3, SetsNested DEF OnChain
<1> QED
  BY <1>1, <1>2 DEF Live, Stored

----------------------------------------------------------------------------
\* What a step of the life cycle does to these sets

\* The labels are known after the step, too.
Known == {canonical, lastAccepted, lastExecuted, lastSettled, head} \subseteq DOMAIN hdr

LEMMA LabelsKnown == IInv' => Known'
<1>1. IInv => Known
  BY SetsNested DEF Known
<1> QED
  BY <1>1, PTL

\* The canonical chain and its stretches only grow.
LEMMA SetsGrow ==
  ASSUME IInv, IInv', [Next]_vars
  PROVE  /\ OnChain \subseteq OnChain' /\ Tip \subseteq Tip' /\ Ran \subseteq Ran'
         /\ Final \subseteq Final' /\ OnDisk \subseteq OnDisk'
         /\ \A b \in OnChain : hdr'[b] = hdr[b] /\ HeightOf(b)' = HeightOf(b)
<1>1. /\ lastAccepted \in OnChain /\ lastExecuted \in OnChain
      /\ lastSettled \in OnChain /\ head \in OnChain /\ canonical \in OnChain
  BY SetsNested, ParentIsAncestor DEF OnChain, IInv
<1>2. TypeOK' /\ Tree'
  BY DEF IInv
<1>3. /\ canonical' \in DOMAIN hdr' /\ lastAccepted' \in DOMAIN hdr'
      /\ lastExecuted' \in DOMAIN hdr' /\ lastSettled' \in DOMAIN hdr'
      /\ head' \in DOMAIN hdr'
  BY LabelsKnown DEF Known
<1>4. \A b \in OnChain : hdr'[b] = hdr[b]
  BY CanonicalHeadersFixed DEF OnChain
<1>5. ASSUME NEW b \in OnChain, NEW r \in DOMAIN hdr', b \in hdr'[r].anc
      PROVE  hdr[b].anc \subseteq hdr'[r].anc
  <2>1. hdr'[b].anc \subseteq hdr'[r].anc
    BY <1>2, <1>5 DEF Tree, Branches
  <2> QED
    BY <1>4, <1>5, <2>1
<1> QED
  BY <1>1, <1>3, <1>4, <1>5, LabelsMove DEF OnChain, Tip, Ran, Final, OnDisk, HeightOf

LEMMA CanonicalStays ==
  ASSUME IInv, [Next]_vars, canonical' = canonical
  PROVE  OnChain' = OnChain
BY CanonicalHeadersFixed, ParentIsAncestor, KnownBlocks DEF OnChain, IInv

\* The steps by what they do to the headers and to the undecided and canonical blocks.
LEMMA StepKinds ==
  ASSUME IInv, [Next]_vars
  PROVE  \/ BeginVerify
         \/ Verifying /\ FailVerify /\ UNCHANGED <<processing, canonical>>
         \/ FinishVerify
         \/ AcceptOnDisk
         \/ RejectBlock
         \/ /\ UNCHANGED <<hdr, processing, canonical>>
            /\ Verifying' => Verifying /\ cb' = cb
<1> DEFINE Quiet == /\ UNCHANGED <<hdr, processing, canonical>>
                    /\ Verifying' => Verifying /\ cb' = cb
           Fails == Verifying /\ FailVerify /\ UNCHANGED <<processing, canonical>>
<1>1. CASE WalkTimes \/ WalkExecution
  BY <1>1 DEF WalkTimes, WalkExecution, WalkOn, WalkReturn, Verifying, acceptVars
<1>2. CASE RefuseBlock
  BY <1>2 DEF RefuseBlock, Verifying, acceptVars
<1>3. CASE SettleInMemory \/ StoreLastSettled \/ CloseSettled
  BY <1>3 DEF SettleInMemory, StoreLastSettled, CloseSettled, Verifying, verifyVars, acceptVars
<1>4. CASE StoreLastAccepted \/ SendAccepted \/ AwaitExecuted
  BY <1>4 DEF StoreLastAccepted, SendAccepted, AwaitExecuted, Verifying, verifyVars, acceptVars
<1>5. CASE Enqueue
  BY <1>5 DEF Enqueue, AfterEnqueue, Verifying, verifyVars, acceptVars
<1>6. CASE Evict
  BY <1>6 DEF Evict, Verifying, verifyVars, acceptVars
<1>7. CASE SetState
  BY <1>7 DEF SetState, Verifying, consensusVars, verifyVars, acceptVars
<1>8. CASE Stream
  <2>1. UNCHANGED consensusVars
    BY <1>8 DEF Stream, Dequeue, RunTx, PutResults, WriteBatch, StoreExecution,
                StoreLastExecuted, CloseExecuted, SendEvents
  <2> QED
    BY <2>1 DEF Verifying, consensusVars, verifyVars, acceptVars
<1>9. CASE UNCHANGED vars
  BY <1>9 DEF vars, Verifying, consensusVars, verifyVars, acceptVars
<1> QED
  BY ZenonT(60), <1>1, <1>2, <1>3, <1>4, <1>5, <1>6, <1>7, <1>8, <1>9 DEF Next, Proceed

\* A stored block stays stored; one that is neither undecided nor canonical stays so.
LEMMA StoredStays ==
  ASSUME IInv, IInv', [Next]_vars
  PROVE  Stored \subseteq Stored' /\ Stored \cap Live' \subseteq Live
<1>1. CASE BeginVerify
  <2>1. PICK b \in Block \ DOMAIN hdr : DOMAIN hdr' = DOMAIN hdr \cup {b} /\ cb' = b
    BY <1>1 DEF BeginVerify
  <2>2. ~ Verifying /\ UNCHANGED <<processing, canonical>>
    BY <1>1 DEF BeginVerify, Verifying, acceptVars
  <2>3. OnChain' = OnChain
    BY <2>2, CanonicalStays
  <2> QED
    BY <2>1, <2>2, <2>3 DEF Stored, Live
<1>2. CASE Verifying /\ FailVerify /\ UNCHANGED <<processing, canonical>>
  <2>1. DOMAIN hdr' = DOMAIN hdr \ {cb} /\ ~ Verifying'
    BY <1>2 DEF FailVerify, Verifying
  <2>2. OnChain' = OnChain
    BY <1>2, CanonicalStays
  <2> QED
    BY <1>2, <2>1, <2>2 DEF Stored, Live
<1>3. CASE FinishVerify
  <2>1. Verifying /\ ~ Verifying' /\ UNCHANGED <<hdr, canonical>> /\ processing' = processing \cup {cb}
    BY <1>3 DEF FinishVerify, Verifying, acceptVars
  <2> QED
    BY <2>1 DEF Stored, Live, OnChain
<1>4. CASE AcceptOnDisk
  <2>1. PICK b \in processing : /\ hdr[b].parent = lastAccepted /\ canonical' = b
                                /\ processing' = processing \ {b}
    BY <1>4 DEF AcceptOnDisk
  <2>2. ~ Verifying /\ ~ Verifying' /\ hdr' = hdr /\ cpc = "idle"
    BY <1>4 DEF AcceptOnDisk, Verifying
  <2>3. canonical = lastAccepted /\ b \in DOMAIN hdr \ {Genesis}
    BY <2>1, <2>2, LastSettledOfAccepted, NextSettlesMore
  <2>4. hdr[b].anc = OnChain \cup {b}
    BY ZenonT(60), <2>1, <2>3 DEF IInv, Tree, Linked, OnChain
  <2> QED
    BY <2>1, <2>2, <2>4 DEF Stored, Live, OnChain
<1>5. CASE RejectBlock
  <2>1. processing' \subseteq processing /\ UNCHANGED <<hdr, canonical>> /\ ~ Verifying /\ ~ Verifying'
    BY <1>5 DEF RejectBlock, Verifying, acceptVars
  <2> QED
    BY <2>1 DEF Stored, Live, OnChain
<1>6. CASE /\ UNCHANGED <<hdr, processing, canonical>>
           /\ Verifying' => Verifying /\ cb' = cb
  BY <1>6 DEF Stored, Live, OnChain
<1> QED
  BY ZenonT(60), <1>1, <1>2, <1>3, <1>4, <1>5, <1>6, StepKinds

\* Only Enqueue adds to the blocks that were sent to the executor.
LEMMA SentGrows ==
  ASSUME IInv, IInv', [Next]_vars
  PROVE  /\ Sent \subseteq Sent'
         /\ Sent' \subseteq Sent \cup {b \in {cb} : cpc = "enqueue" /\ cpc' # cpc}
<1>1. hdr'[lastAccepted] = hdr[lastAccepted] /\ hdr'[Enqueued] = hdr[Enqueued]
  BY SetsNested, SetsGrow
<1>2. SUFFICES \/ Enqueued' = Enqueued
               \/ /\ cpc = "enqueue" /\ cpc' # cpc /\ Enqueued' = lastAccepted
                  /\ hdr[lastAccepted].anc = Sent \cup {cb}
  BY <1>1 DEF Sent
<1>3. CASE Enqueue
  <2>1. cpc = "enqueue" /\ cpc' \in {"awaitExecuted", "evict"} /\ lastAccepted' = lastAccepted
    BY <1>3 DEF Enqueue, AfterEnqueue, acceptVars
  <2>2. lastAccepted = cb /\ cb # Genesis /\ cb \in DOMAIN hdr
    BY <2>1 DEF IInv, ChainInv, Accepting, Settling
  <2>3. Enqueued = hdr[cb].parent /\ Enqueued' = lastAccepted
    BY <2>1, <2>2 DEF Enqueued
  <2>4. hdr[cb].anc = hdr[hdr[cb].parent].anc \cup {cb}
    BY <2>2 DEF IInv, Tree, Linked
  <2> QED
    BY <2>1, <2>2, <2>3, <2>4 DEF Sent
<1>4. CASE StoreLastAccepted
  <2>1. cpc = "settle" /\ cpc' = "sendAccepted" /\ lastAccepted' = cb /\ hdr' = hdr
    BY <1>4 DEF StoreLastAccepted, verifyVars
  <2>2. hdr[cb].parent = lastAccepted
    BY <2>1 DEF IInv, ChainInv, Settling
  <2> QED
    BY <2>1, <2>2 DEF Enqueued
<1>5. CASE SendAccepted
  BY <1>5 DEF SendAccepted, Enqueued, verifyVars
<1>6. CASE /\ lastAccepted' = lastAccepted
           /\ cpc \notin {"sendAccepted", "enqueue"} /\ cpc' \notin {"sendAccepted", "enqueue"}
  BY <1>6 DEF Enqueued
<1>7. CASE BeginVerify \/ WalkTimes \/ WalkExecution \/ FinishVerify \/ RefuseBlock
  BY <1>6, <1>7 DEF BeginVerify, WalkTimes, WalkExecution, FinishVerify, RefuseBlock, WalkOn,
                    WalkReturn, FailVerify, acceptVars
<1>8. CASE AcceptOnDisk \/ SettleInMemory \/ StoreLastSettled \/ CloseSettled
  BY <1>6, <1>8 DEF AcceptOnDisk, SettleInMemory, StoreLastSettled, CloseSettled, acceptVars
<1>9. CASE AwaitExecuted \/ RejectBlock
  BY <1>6, <1>9 DEF AwaitExecuted, RejectBlock, acceptVars
<1>10. CASE Evict
  BY <1>6, <1>10 DEF Evict
<1>11. CASE SetState \/ Stream \/ UNCHANGED vars
  <2>1. UNCHANGED consensusVars
    BY <1>11 DEF SetState, vars, Stream, Dequeue, RunTx, PutResults, WriteBatch,
                 StoreExecution, StoreLastExecuted, CloseExecuted, SendEvents
  <2> QED
    BY <2>1 DEF Enqueued, consensusVars, verifyVars, acceptVars
<1> QED
  BY ZenonT(60), <1>3, <1>4, <1>5, <1>7, <1>8, <1>9, <1>10, <1>11 DEF Next, Proceed

\* A new header fills the next height of its parent's branch.
LEMMA NoGapsStep ==
  ASSUME IInv, NoGaps, [Next]_vars
  PROVE  NoGaps'
<1> USE DEF IInv
<1>1. CASE BeginVerify
  <2>1. PICK b \in Block \ DOMAIN hdr, p \in critical, t \in BlockTimes, g \in GasUsed :
          /\ t >= Tau /\ t >= hdr[p].time
          /\ hdr' = [x \in DOMAIN hdr \cup {b} |->
                       IF x = b THEN Child(b, p, t, g) ELSE hdr[x]]
          /\ cb' = b
    BY <1>1 DEF BeginVerify
  <2>2. p \in DOMAIN hdr
    BY SetsNested DEF MapInv, OnChain
  <2>3. /\ DOMAIN hdr' = DOMAIN hdr \cup {b}
        /\ \A x \in DOMAIN hdr : hdr'[x] = hdr[x]
        /\ hdr'[b] = Child(b, p, t, g)
    BY ZenonT(60), <2>1, <2>2, TreeGrows
  <2>4. /\ hdr'[b].height = hdr[p].height + 1 /\ hdr'[b].anc = hdr[p].anc \cup {b}
        /\ hdr[p].height \in Nat /\ hdr[p].anc \subseteq DOMAIN hdr
    BY SMTT(60), <2>2, <2>3, HeaderFields DEF Child, Tree, Rooted
  <2>5. ASSUME NEW n \in 0 .. hdr'[b].height
        PROVE  \E x \in hdr'[b].anc : hdr'[x].height = n
    <3>1. CASE n = hdr[p].height + 1
      BY <2>4, <3>1
    <3>2. CASE n # hdr[p].height + 1
      <4>1. n \in 0 .. hdr[p].height
        BY SMTT(60), <2>4, <2>5, <3>2
      <4> QED
        BY SMTT(60), <2>2, <2>3, <2>4, <4>1 DEF NoGaps
    <3> QED
      BY <3>1, <3>2
  <2>6. ASSUME NEW c \in DOMAIN hdr, NEW n \in 0 .. hdr'[c].height
        PROVE  \E x \in hdr'[c].anc : hdr'[x].height = n
    BY SMTT(60), <2>3, <2>6 DEF NoGaps, Tree, Rooted
  <2> QED
    BY <2>3, <2>5, <2>6 DEF NoGaps
<1>2. CASE Verifying /\ FailVerify
  <2>1. cb \in DOMAIN hdr \ {Genesis} /\ \A x \in DOMAIN hdr \ {cb} : cb \notin hdr[x].anc
    BY <1>2 DEF WalkInv
  <2>2. DOMAIN hdr' = DOMAIN hdr \ {cb} /\ \A x \in DOMAIN hdr \ {cb} : hdr'[x] = hdr[x]
    BY <1>2, <2>1, TreeShrinks DEF FailVerify
  <2> QED
    BY SMTT(60), <2>1, <2>2 DEF NoGaps, Tree, Rooted
<1>3. CASE hdr' = hdr
  BY SMTT(60), <1>3 DEF NoGaps
<1>4. CASE FinishVerify \/ AcceptOnDisk \/ RejectBlock
  BY <1>3, <1>4 DEF FinishVerify, AcceptOnDisk, RejectBlock
<1> QED
  BY ZenonT(60), <1>1, <1>2, <1>3, <1>4, StepKinds

\* The block that is enqueued has buffers, as createReceiptBuffers comes first.
LEMMA BuffersLifeCycle ==
  ASSUME IInv, IInv', BuffersInv, LifeCycle
  PROVE  BuffersInv'
<1>1. Ran \subseteq Ran' /\ Sent' \subseteq Sent \cup {b \in {cb} : cpc = "enqueue" /\ cpc' # cpc}
  BY SetsGrow, SentGrows DEF LifeCycle
<1>2. buffers' = buffers /\ (cpc = "enqueue" /\ cpc' # cpc => cb \in buffers)
  BY DEF LifeCycle
<1> QED
  BY <1>1, <1>2 DEF BuffersInv

\* The cleanup spares the buffers of a block that is not executed: the map holds it.
LEMMA BuffersKept ==
  ASSUME IInv, BuffersInv
  PROVE  Sent \ Ran \subseteq Reachable
<1> SUFFICES ASSUME NEW b \in Sent, b \notin Ran
             PROVE  b \in Reachable
  OBVIOUS
<1>1. b \in critical /\ b \in DOMAIN hdr
  BY SetsNested, MapHolds
<1>2. b \in Ancestry(b)
  <2>1. b \in hdr[b].anc
    BY <1>1, ParentIsAncestor DEF IInv
  <2>2. \A y \in hdr[b].anc : ~ (hdr[y].height > hdr[b].height)
    <3> SUFFICES ASSUME NEW y \in hdr[b].anc, hdr[y].height > hdr[b].height
                 PROVE  FALSE
      OBVIOUS
    <3>1. hdr[y].height <= hdr[b].height /\ hdr[y].height \in Nat /\ hdr[b].height \in Nat
      BY ZenonT(60), <1>1, AncestorsNested, HeaderFields DEF IInv, Tree, Branches
    <3> QED
      BY SMTT(60), <3>1
  <2> QED
    BY <2>1, <2>2 DEF Ancestry
<1> QED
  BY <1>1, <1>2 DEF Reachable, Roots

----------------------------------------------------------------------------
\* Pruned states stay pruned

\* Only PutResults stores results, of a block that is in the map.
LEMMA StoringResults ==
  ASSUME IInv, [Next]_vars, xdb' # xdb
  PROVE  eb \in critical /\ xdb' = xdb \cup {eb} /\ UNCHANGED <<critical, settledBy>>
<1>1. PutResults
  <2>1. CASE Stream
    BY <2>1 DEF Stream, Dequeue, RunTx, WriteBatch, StoreExecution, StoreLastExecuted,
                CloseExecuted, SendEvents, resultVars
  <2>3. CASE BeginVerify \/ WalkTimes \/ WalkExecution \/ FinishVerify \/ RefuseBlock
    BY <2>3 DEF BeginVerify, WalkTimes, WalkExecution, FinishVerify, RefuseBlock,
                executorVars, resultVars
  <2>4. CASE AcceptOnDisk \/ SettleInMemory \/ StoreLastSettled \/ CloseSettled
             \/ StoreLastAccepted \/ SendAccepted
    BY <2>4 DEF AcceptOnDisk, SettleInMemory, StoreLastSettled, CloseSettled,
                StoreLastAccepted, SendAccepted, executorVars, resultVars
  <2>5. CASE Enqueue \/ AwaitExecuted \/ Evict \/ RejectBlock \/ SetState
    BY <2>5 DEF Enqueue, AwaitExecuted, Evict, RejectBlock, SetState, executorVars, resultVars
  <2>6. CASE UNCHANGED vars
    BY <2>6 DEF vars, executorVars, resultVars
  <2> QED
    BY ZenonT(60), <2>1, <2>3, <2>4, <2>5, <2>6 DEF Next, Proceed
<1>2. xdb' = xdb \cup {eb} /\ UNCHANGED <<critical, settledBy>> /\ epc = "run"
  BY <1>1 DEF PutResults, consensusVars, verifyVars
<1>3. Taken = eb /\ eb # Genesis /\ lastExecuted = hdr[eb].parent
  BY <1>2 DEF IInv, StreamInv, Taken, Reached
<1>4. eb \in OnChain /\ eb \in DOMAIN hdr
  BY ZenonT(60), <1>3, KnownBlocks, SetsNested DEF Tip, Sent
<1>5. eb \notin Ran
  BY ZenonT(60), <1>3, <1>4 DEF IInv, Tree, Linked, Ran
<1> QED
  BY ZenonT(60), <1>2, <1>4, <1>5, SetsNested, MapHolds

\* The block that a new one settles is in the map.
LEMMA ToSettleIsHeld ==
  ASSUME IInv, cpc = "awaitArtefact", cur \in OnChain
  PROVE  cur \in critical
<1> USE DEF IInv
<1> DEFINE p == hdr[cb].parent
           s == lastSettled
<1>1. /\ canonical = lastAccepted /\ lastAccepted \in DOMAIN hdr /\ Floor = s
      /\ s = settledBy[lastAccepted]
  BY DEF ChainInv, SettlingInv, Floor, Settling, Accepting
<1>2. Verifying
  BY DEF Verifying
<1>3. /\ cb \in DOMAIN hdr \ {Genesis} /\ lastAccepted \in hdr[p].anc /\ p \in DOMAIN hdr
      /\ IsLastToSettle(cur, p, SettleAt(cb))
  BY ZenonT(60), <1>2, ParentIsAncestor DEF WalkInv
<1>4. lastAccepted \in hdr[canonical].anc
  BY <1>1, ParentIsAncestor
<1>5. s \in DOMAIN hdr /\ s \in hdr[lastAccepted].anc
  BY ZenonT(60), <1>1, <1>4, SettledByCanonical
<1>6. s \in hdr[p].anc /\ cur \in DOMAIN hdr
  BY ZenonT(60), <1>3, <1>5, AncestorsNested DEF WalkInv
<1>7. /\ hdr[s].height \in Nat /\ hdr[cur].height \in Nat /\ hdr[s].due \in Nat
      /\ hdr[lastAccepted].time \in Nat /\ hdr[p].time \in Nat /\ hdr[cb].time \in Nat
  BY ZenonT(60), <1>1, <1>3, <1>5, <1>6, HeaderFields
<1>8. ~ (hdr[s].height > hdr[cur].height)
  <2>1. CASE s = Genesis
    BY SMTT(60), <1>7, <2>1 DEF Tree, GenesisHeader
  <2>2. CASE s # Genesis
    <3>1. lastAccepted # Genesis
      BY ZenonT(60), <1>1, <2>2 DEF SettledByInv
    <3>2. hdr[s].due <= SettleAt(lastAccepted)
      BY ZenonT(60), <1>1, <1>4, <2>2, <3>1, SettledByAncestor
    <3>3. hdr[lastAccepted].time <= hdr[p].time
      BY ZenonT(60), <1>3 DEF Tree, Branches
    <3>4. hdr[cb].time >= hdr[p].time
      BY ZenonT(60), <1>3 DEF Tree, Linked
    <3>5. ~ (hdr[s].due > SettleAt(cb))
      BY SMTT(60), <1>7, <3>2, <3>3, <3>4, HeadersAssumption DEF SettleAt
    <3> QED
      BY ZenonT(60), <1>3, <1>6, <3>5 DEF IsLastToSettle
  <2> QED
    BY <2>1, <2>2
<1>9. hdr[cur].height >= hdr[s].height
  BY SMTT(60), <1>7, <1>8
<1> QED
  BY ZenonT(60), <1>1, <1>9 DEF MapInv, OnChain

\* A canonical block never enters the map again, and no new block settles one that
\* has left it.
LEMMA MapShrinks ==
  ASSUME IInv, [Next]_vars, NEW b \in OnChain, b \notin critical,
         \A x \in critical : settledBy[x] # b
  PROVE  b \notin critical' /\ \A x \in critical' : settledBy'[x] # b
<1>1. CASE FinishVerify
  <2>1. /\ cpc = "awaitArtefact" /\ critical' = critical \cup {cb}
        /\ settledBy' = [settledBy EXCEPT ![cb] = cur]
    BY <1>1 DEF FinishVerify
  <2>2. cb \notin OnChain
    BY <2>1, LiveIsStored DEF Live, Stored, Verifying
  <2>3. cur # b
    BY <2>1, ToSettleIsHeld
  <2>4. settledBy'[cb] = cur /\ \A x \in critical \ {cb} : settledBy'[x] = settledBy[x]
    <3>1. settledBy \in [Block -> Block] /\ cb \in Block /\ critical \subseteq Block
      BY DEF IInv, TypeOK
    <3> QED
      BY SMTT(60), <2>1, <3>1
  <2> QED
    BY <2>1, <2>2, <2>3, <2>4
<1>2. CASE critical' \subseteq critical /\ settledBy' = settledBy
  BY <1>2
<1>3. CASE Evict \/ RejectBlock
  <2>1. critical' \subseteq critical /\ settledBy' = settledBy
    BY <1>3 DEF Evict, RejectBlock, verifyVars
  <2> QED
    BY <1>2, <2>1
<1>4. CASE BeginVerify \/ WalkTimes \/ WalkExecution \/ RefuseBlock
  BY <1>2, <1>4 DEF BeginVerify, WalkTimes, WalkExecution, RefuseBlock
<1>5. CASE AcceptOnDisk \/ SettleInMemory \/ StoreLastSettled \/ CloseSettled
           \/ StoreLastAccepted \/ SendAccepted
  BY <1>2, <1>5 DEF AcceptOnDisk, SettleInMemory, StoreLastSettled, CloseSettled,
                    StoreLastAccepted, SendAccepted, verifyVars
<1>6. CASE Enqueue \/ AwaitExecuted
  BY <1>2, <1>6 DEF Enqueue, AwaitExecuted, verifyVars
<1>7. CASE SetState \/ Stream \/ UNCHANGED vars
  <2>1. UNCHANGED consensusVars
    BY <1>7 DEF SetState, vars, Stream, Dequeue, RunTx, PutResults, WriteBatch,
                StoreExecution, StoreLastExecuted, CloseExecuted, SendEvents
  <2> QED
    BY <1>2, <2>1 DEF consensusVars, verifyVars
<1> QED
  BY ZenonT(60), <1>1, <1>3, <1>4, <1>5, <1>6, <1>7 DEF Next, Proceed

\* What the executor commits, the map still held.
LEMMA GoneGrows ==
  ASSUME IInv, IInv', LifeCycle
  PROVE  Gone \subseteq Gone'
<1> SUFFICES ASSUME NEW b \in OnChain, Pruned(b)
             PROVE  b \in Gone'
  BY DEF Gone
<1>1. /\ Next
      /\ committed' = committed \cup (IF xdb' # xdb THEN MaybeCommit(eb) ELSE {})
  BY DEF LifeCycle
<1>2. b \in OnChain'
  BY <1>1, SetsGrow
<1>3. /\ b \notin critical /\ b \notin committed
      /\ \A x \in critical : settledBy[x] # b
  BY DEF Pruned
<1>4. b \notin critical' /\ \A x \in critical' : settledBy'[x] # b
  BY <1>1, <1>3, MapShrinks
<1>5. xdb' # xdb => b \notin MaybeCommit(eb)
  BY <1>1, <1>3, StoringResults DEF MaybeCommit
<1>6. b \notin committed'
  BY <1>1, <1>3, <1>5
<1>7. Pruned(b)'
  BY <1>4, <1>6 DEF Pruned
<1> QED
  BY <1>2, <1>7 DEF Gone

\* An archival node commits the state whose results it is about to store.
LEMMA ArchiveLifeCycle ==
  ASSUME IInv, ArchiveInv, LifeCycle
  PROVE  ArchiveInv'
<1>1. /\ Next
      /\ committed' = committed \cup (IF xdb' # xdb THEN MaybeCommit(eb) ELSE {})
  BY DEF LifeCycle
<1>2. CASE xdb' = xdb
  BY <1>1, <1>2 DEF ArchiveInv
<1>3. CASE xdb' # xdb
  BY <1>1, <1>3, StoringResults DEF ArchiveInv, MaybeCommit
<1> QED
  BY <1>2, <1>3

----------------------------------------------------------------------------
\* What a call has seen still holds after a step of the life cycle.

LEMMA LabelsRise ==
  ASSUME IInv, IInv', [Next]_vars
  PROVE  /\ hdr[lastAccepted].height \in Nat /\ hdr'[lastAccepted'].height \in Nat
         /\ hdr[lastAccepted].height <= hdr'[lastAccepted'].height
         /\ hdr[lastExecuted].height \in Nat /\ hdr'[lastExecuted'].height \in Nat
         /\ hdr[lastExecuted].height <= hdr'[lastExecuted'].height
         /\ hdr[lastSettled].height \in Nat /\ hdr'[lastSettled'].height \in Nat
         /\ hdr[lastSettled].height <= hdr'[lastSettled'].height
<1>1. /\ {lastAccepted, lastExecuted, lastSettled} \subseteq OnChain
      /\ OnChain \subseteq DOMAIN hdr
  BY SetsNested
<1>2. {lastAccepted', lastExecuted', lastSettled'} \subseteq DOMAIN hdr'
  BY LabelsKnown DEF Known
<1>3. \A b \in OnChain : hdr'[b] = hdr[b]
  BY ZenonT(60), SetsGrow
<1>4. \A b \in DOMAIN hdr' : hdr'[b].height \in Nat
  BY DEF IInv, TypeOK, Header
<1>5. \A b \in DOMAIN hdr' : \A x \in hdr'[b].anc : hdr'[x].height <= hdr'[b].height
  BY DEF IInv, Tree, Branches
<1>6. \A b \in DOMAIN hdr : hdr[b].height \in Nat
  BY HeaderFields DEF IInv
<1>7. /\ hdr'[lastAccepted].height <= hdr'[lastAccepted'].height
      /\ hdr'[lastExecuted].height <= hdr'[lastExecuted'].height
      /\ hdr'[lastSettled].height <= hdr'[lastSettled'].height
  BY <1>2, <1>5, LabelsMove
<1> QED
  BY ZenonT(60), <1>1, <1>2, <1>3, <1>4, <1>6, <1>7

LEMMA CallLifeCycle ==
  ASSUME IInv, IInv', [Next]_vars, CallInv, UNCHANGED callVars, Gone \subseteq Gone'
  PROVE  CallInv'
<1> USE DEF CallInv
<1>1. UNCHANGED <<op, at, id, num, promised, floor, reply>>
  BY DEF callVars
<1>2. /\ OnChain \subseteq OnChain' /\ Ran \subseteq Ran' /\ Final \subseteq Final'
      /\ OnDisk \subseteq OnDisk' /\ Sent \subseteq Sent'
      /\ Stored \subseteq Stored' /\ Stored \cap Live' \subseteq Live
  BY SetsGrow, SentGrows, StoredStays
<1>3. OnChain \subseteq Live /\ OnDisk \subseteq OnChain
  BY SetsNested DEF Live
<1>4. PathInv'
  BY SMTT(60), <1>1 DEF PathInv
<1>5. BlockInv'
  <2>1. at = "results" => id \in Stored \/ id \in OnChain
    BY DEF BlockInv
  <2> QED
    BY <1>1, <1>2, <1>3, <2>1 DEF BlockInv
<1>6. NumberInv'
  <2>1. op \in ByLabel /\ at \in {"load", "await", "results", "executed", "check", "restore", "open"} =>
          id \in OnChain
    BY <1>3 DEF BlockInv, ByLabel
  <2>2. \A b \in OnChain : hdr'[b] = hdr[b]
    BY SetsGrow
  <2>3. at = "tip" => NumberInv'
    BY SMTT(60), <1>1, LabelsRise DEF NumberInv, HeightOf
  <2>4. at = "label" => NumberInv'
    BY SMTT(60), <1>1, LabelsRise DEF NumberInv, HeightOf
  <2>5. at = "canonicalHash" => NumberInv'
    BY SMTT(60), <1>1, LabelsRise DEF NumberInv, HeightOf
  <2>6. at \notin {"tip", "label", "canonicalHash"} => NumberInv'
    BY <1>1, <2>1, <2>2 DEF NumberInv, HeightOf
  <2> QED
    BY <2>3, <2>4, <2>5, <2>6
<1>7. PromiseInv'
  <2>1. promised /\ at = "readBlock" => id \in Stored
    BY DEF PathInv, PromiseInv, Whole
  <2>2. promised /\ op = "GetBlock" => id \in Stored
    BY DEF PromiseInv, Whole
  <2>3. promised /\ at = "tip" =>
          \/ num \in {Latest, Safe}
          \/ /\ num <= hdr'[IF op = "ByNumber" THEN lastExecuted' ELSE lastAccepted'].height
             /\ num # Pending
    BY SMTT(60), LabelsRise DEF NumberInv, PromiseInv, HeightOf, Pending, Latest, Safe
  <2>4. promised /\ op = "ByNumber" /\ at = "canonicalHash" => num <= hdr'[lastExecuted'].height
    BY SMTT(60), LabelsRise DEF NumberInv, PromiseInv, HeightOf
  <2>5. at = "parent" => hdr'[id] = hdr[id]
    BY SetsGrow DEF BlockInv
  <2> QED
    BY ZenonT(60), <1>1, <1>2, <1>3, <2>1, <2>2, <2>3, <2>4, <2>5 DEF PromiseInv, HeightOf
<1>8. ReplyInv'
  <2>1. promised /\ op \in Whole => id \in Stored
    BY DEF PromiseInv
  <2> QED
    BY <1>1, <1>2, <1>3, <2>1 DEF ReplyInv
<1> QED
  BY <1>4, <1>5, <1>6, <1>7, <1>8

----------------------------------------------------------------------------
\* The steps of a call

Same ==
  /\ UNCHANGED <<hdr, lastAccepted, lastExecuted, lastSettled>>
  /\ OnChain' = OnChain /\ Ran' = Ran /\ Final' = Final /\ OnDisk' = OnDisk
  /\ Sent' = Sent /\ Stored' = Stored /\ Live' = Live /\ Gone' = Gone

LEMMA ReaderFrame ==
  ASSUME UNCHANGED <<vars, committed>>
  PROVE  Same
<1>1. /\ UNCHANGED <<hdr, canonical, lastAccepted, lastExecuted, lastSettled, head>>
      /\ UNCHANGED <<processing, cpc, cb, critical, settledBy>>
  BY DEF vars, consensusVars, verifyVars, acceptVars, settleVars, executorVars, resultVars
<1>2. Enqueued' = Enqueued /\ Verifying' = Verifying
  BY <1>1 DEF Enqueued, Verifying
<1> QED
  BY <1>1, <1>2 DEF Same, OnChain, Ran, Final, OnDisk, Sent, Stored, Live, Gone, Pruned

\* What the map and the heights tell a call.
LEMMA Tells ==
  ASSUME IInv
  PROVE  /\ Final \subseteq Ran /\ Ran \subseteq OnDisk /\ OnDisk \subseteq OnChain
         /\ Sent \subseteq OnChain /\ OnChain \subseteq Live /\ Tip \subseteq OnChain
         /\ \A b \in Live : b \in critical \/ b \in Final
         /\ HeightOf(lastAccepted) \in Nat /\ HeightOf(lastExecuted) \in Nat
         /\ HeightOf(lastSettled) \in Nat
         /\ HeightOf(lastSettled) <= HeightOf(lastExecuted)
         /\ HeightOf(lastExecuted) <= HeightOf(lastAccepted)
<1>1. lastExecuted \in Tip /\ lastSettled \in Ran
  <2>1. lastExecuted \in Tip
    BY KnownBlocks DEF Tip
  <2>2. lastSettled \in Final
    BY ParentIsAncestor, SetsNested DEF Final, IInv
  <2> QED
    BY <2>1, <2>2, SetsNested
<1>2. lastExecuted \in OnChain /\ lastSettled \in OnChain
  BY SetsNested
<1> QED
  BY <1>1, <1>2, SetsNested, MapHolds, Heights DEF Live

\* AcceptBlock has enqueued what TxReceipt is owed.
LEMMA EnqueuedIsSent ==
  ASSUME IInv, NEW b \in Tip, b = cb => cpc \notin {"sendAccepted", "enqueue"}
  PROVE  b \in Sent
<1>1. CASE cpc \in {"sendAccepted", "enqueue"}
  <2>1. lastAccepted = cb /\ cb # Genesis /\ cb \in DOMAIN hdr
    BY ZenonT(60), <1>1 DEF IInv, ChainInv, Accepting, Settling
  <2>2. hdr[cb].anc = hdr[hdr[cb].parent].anc \cup {cb}
    BY <2>1 DEF IInv, Tree, Linked
  <2> QED
    BY ZenonT(60), <1>1, <2>1, <2>2 DEF Sent, Tip, Enqueued
<1>2. CASE cpc \notin {"sendAccepted", "enqueue"}
  BY <1>2 DEF Sent, Tip, Enqueued
<1> QED
  BY <1>1, <1>2

\* A number that is announced as executed is not above the last executed block.
LEMMA AnnouncedNumber ==
  ASSUME IInv, NEW n, ByNumber(n)
  PROVE  promised' => n \in {Latest, Safe} \/ n \in 0 .. HeightOf(lastExecuted)
<1>1. promised' => n \in {Latest, Safe} \/ \E b \in headSent : HeightOf(b) = n
  BY DEF ByNumber, Begin, HeightOf
<1>2. ASSUME NEW b \in headSent
      PROVE  HeightOf(b) \in 0 .. HeightOf(lastExecuted)
  <2>1. b \in Ran /\ b \in OnChain
    BY SetsNested
  <2>2. HeightOf(b) \in Nat /\ HeightOf(lastExecuted) \in Nat /\ HeightOf(b) <= HeightOf(lastExecuted)
    BY ZenonT(60), <2>1, Heights
  <2> QED
    BY SMTT(60), <2>2
<1> QED
  BY <1>1, <1>2

USE DEF CallInv, PathInv, BlockInv, NumberInv, PromiseInv, ReplyInv,
        ByLabel, ByHash, Whole, OfReceipts, StateOps, StateCalls, Continue, Return, OpenAt

\* The hash of a number is that of a canonical block.
LEMMA ReadHashStep ==
  ASSUME IInv, NoGaps, CallInv, ReadHashOfNumber
  PROVE  CallInv'
<1>1. Same
  BY ReaderFrame DEF ReadHashOfNumber, nodeVars
<1>2. at = "canonicalHash" => HeightOf(id') = num /\ id' \in OnChain
  BY NumberReads DEF ReadHashOfNumber
<1>3. at = "canonicalHash" /\ num <= HeightOf(lastExecuted) => id' \in Ran
  BY ZenonT(60), <1>2, Heights
<1> QED
  BY SMTT(60), <1>1, <1>2, <1>3 DEF Same, ReadHashOfNumber, HeightOf

\* A label or a number that is not in the future goes on.
LEMMA ResolveTipStep ==
  ASSUME IInv, CallInv, ResolveTip
  PROVE  CallInv'
<1>1. Same
  BY ZenonT(60), ReaderFrame DEF ResolveTip, nodeVars
<1> QED
  BY SMTT(60), <1>1, Tells DEF Same, ResolveTip, HeightOf, FutureNumber, Pending, Latest, Safe

\* A label resolves to the height that it has by now.
LEMMA ResolveLabelStep ==
  ASSUME IInv, CallInv, ResolveLabel
  PROVE  CallInv'
<1>1. Same
  BY ZenonT(60), ReaderFrame DEF ResolveLabel, nodeVars
<1> QED
  BY SMTT(60), <1>1, Tells DEF Same, ResolveLabel, HeightOf, Pending, Latest, Safe

\* What the map no longer holds is settled.
LEMMA LookUpStep ==
  ASSUME IInv, CallInv, LookUp
  PROVE  CallInv'
<1>1. Same
  BY ZenonT(60), ReaderFrame DEF LookUp, nodeVars
<1> QED
  BY SMTT(60), <1>1, Tells DEF Same, LookUp, RequireCanonical

\* What is owed is canonical.
LEMMA IsCanonicalStep ==
  ASSUME IInv, CallInv, IsCanonical
  PROVE  CallInv'
<1>1. Same
  BY ZenonT(60), ReaderFrame DEF IsCanonical, nodeVars
<1> QED
  BY SMTT(60), <1>1, Tells DEF Same, IsCanonical

\* And so it is in the database.
LEMMA ReadHeaderNumberStep ==
  ASSUME IInv, CallInv, ReadHeaderNumber
  PROVE  CallInv'
<1>1. Same
  BY ZenonT(60), ReaderFrame DEF ReadHeaderNumber, nodeVars
<1> QED
  BY SMTT(60), <1>1, Tells DEF Same, ReadHeaderNumber

\* The second look at the map; the block may have left it since the first.
LEMMA LoadStep ==
  ASSUME IInv, CallInv, Load
  PROVE  CallInv'
<1>1. Same
  BY ZenonT(60), ReaderFrame DEF Load, nodeVars
<1> QED
  BY SMTT(60), <1>1, Tells DEF Same, Load, HeightOf

\* The results of an executed block are in memory.
LEMMA IsExecutedStep ==
  ASSUME IInv, CallInv, IsExecuted
  PROVE  CallInv'
<1>1. Same
  BY ReaderFrame DEF IsExecuted, nodeVars
<1>2. id \in Ran => execution[id] # None
  BY ZenonT(60), SetsNested DEF Executed
<1> QED
  BY SMTT(60), <1>1, <1>2, Tells DEF Same, IsExecuted

\* A block of the map is waited for.
LEMMA AwaitStateStep ==
  ASSUME IInv, CallInv, AwaitState
  PROVE  CallInv'
<1>1. Same
  BY ZenonT(60), ReaderFrame DEF AwaitState, nodeVars
<1> QED
  BY SMTT(60), <1>1, Tells DEF Same, AwaitState, HeightOf

\* Any other block is settled, and the results at its height are its own.
LEMMA ReadStateStep ==
  ASSUME IInv, NoGaps, CallInv, ReadState
  PROVE  CallInv'
<1>1. Same
  BY ReaderFrame DEF ReadState, nodeVars
<1>2. id \in Final => ReadResults(hdr[id].height) = id /\ id # None
  BY ZenonT(60), NumberReads, Tells, Heights
<1> QED
  BY SMTT(60), <1>1, <1>2, Tells DEF Same, ReadState, HeightOf

\* The state of a block that is owed is opened unless it is gone.
LEMMA OpenStateStep ==
  ASSUME IInv, CallInv, OpenState
  PROVE  CallInv'
<1>1. Same
  BY ZenonT(60), ReaderFrame DEF OpenState, nodeVars
<1>2. reply = id /\ id \in OnChain /\ Pruned(reply) => id \in Gone
  BY ZenonT(60) DEF Gone
<1> QED
  BY SMTT(60), <1>1, <1>2, Tells DEF Same, OpenState, HeightOf

\* What passes the guard has execution artefacts on disk.
LEMMA CheckStep ==
  ASSUME IInv, CallInv, Check
  PROVE  CallInv'
<1>1. Same
  BY ZenonT(60), ReaderFrame DEF Check, nodeVars
<1>2. at = "check" => (TooRecent <=> id \notin IF op = "GetBlock" THEN Final ELSE Ran)
  <2> SUFFICES ASSUME id \in OnChain
               PROVE  TooRecent <=> id \notin IF op = "GetBlock" THEN Final ELSE Ran
    OBVIOUS
  <2>1. /\ HeightOf(id) <= HeightOf(lastExecuted) <=> id \in Ran
        /\ HeightOf(id) <= HeightOf(lastSettled) <=> id \in Final
        /\ HeightOf(id) \in Nat
    BY ZenonT(60), Heights
  <2> QED
    BY SMTT(60), <2>1, Tells DEF TooRecent, HeightOf
<1> QED
  BY SMTT(60), <1>1, <1>2, Tells DEF Same, Check, HeightOf

\* Restoring never fails.
LEMMA RestoreStep ==
  ASSUME IInv, NoGaps, CallInv, Restore
  PROVE  CallInv'
<1>1. Same
  BY ReaderFrame DEF Restore, nodeVars
<1>2. HasArtefacts(id) <=> id \in OnDisk
  BY ZenonT(60), NumberReads
<1> QED
  BY SMTT(60), <1>1, <1>2, Tells DEF Same, Restore

\* The parent that StateAtTransaction does not refuse is executed.
LEMMA LoadParentStep ==
  ASSUME IInv, CallInv, LoadParent
  PROVE  CallInv'
<1>1. Same
  BY ZenonT(60), ReaderFrame DEF LoadParent, nodeVars
<1>2. at = "parent" => (ParentMissing <=> hdr[id].parent \notin Ran)
  <2> SUFFICES ASSUME id \in OnChain \ {Genesis}
               PROVE  ParentMissing <=> hdr[id].parent \notin Ran
    OBVIOUS
  <2>1. hdr[id].parent \in OnChain /\ HeightOf(hdr[id].parent) = HeightOf(id) - 1
    BY ParentOnChain
  <2>2. /\ HeightOf(hdr[id].parent) \in Nat
        /\ HeightOf(hdr[id].parent) <= HeightOf(lastExecuted) <=> hdr[id].parent \in Ran
    BY <2>1, Heights
  <2>3. HeightOf(id) \in Nat
    BY ZenonT(60), Heights
  <2> QED
    BY SMTT(60), <2>1, <2>2, <2>3, Tells DEF ParentMissing, HeightOf
<1> QED
  BY SMTT(60), <1>1, <1>2, Tells DEF Same, LoadParent

\* A transaction that has no receipt buffer any more was executed.
LEMMA LoadRecentStep ==
  ASSUME IInv, BuffersInv, CallInv, LoadRecent
  PROVE  CallInv'
<1>1. Same
  BY ZenonT(60), ReaderFrame DEF LoadRecent, nodeVars
<1> QED
  BY SMTT(60), <1>1, Tells DEF Same, LoadRecent, BuffersInv

\* A buffer answers for its own block.
LEMMA PeekReceiptStep ==
  ASSUME IInv, CallInv, PeekReceipt
  PROVE  CallInv'
<1>1. Same
  BY ZenonT(60), ReaderFrame DEF PeekReceipt, nodeVars
<1> QED
  BY SMTT(60), <1>1, Tells DEF Same, PeekReceipt

\* The lookup entry of an executed transaction exists.
LEMMA ReadTransactionStep ==
  ASSUME IInv, CallInv, ReadTransaction
  PROVE  CallInv'
<1>1. Same
  BY ZenonT(60), ReaderFrame DEF ReadTransaction, nodeVars
<1> QED
  BY SMTT(60), <1>1, Tells DEF Same, ReadTransaction

\* A source finds blocks in the map ...
LEMMA SourceInMapStep ==
  ASSUME IInv, CallInv, SourceInMap
  PROVE  CallInv'
<1>1. Same
  BY ZenonT(60), ReaderFrame DEF SourceInMap, nodeVars
<1> QED
  BY SMTT(60), <1>1, Tells DEF Same, SourceInMap

\* ... and else in the database.
LEMMA SourceOnDiskStep ==
  ASSUME IInv, CallInv, SourceOnDisk
  PROVE  CallInv'
<1>1. Same
  BY ReaderFrame DEF SourceOnDisk, nodeVars
<1> QED
  BY SMTT(60), <1>1, Tells DEF Same, SourceOnDisk

\* A call is owed no more than what its promise says.
LEMMA CallStep ==
  ASSUME IInv, CallInv, Call
  PROVE  CallInv'
<1> USE DEF Begin
<1>1. Same /\ Live \subseteq Stored
  BY ZenonT(60), ReaderFrame, LiveIsStored DEF Call, nodeVars
<1>2. ASSUME NEW b, GetBlock(b) \/ Source(b)
      PROVE  CallInv'
  <2>1. promised' => b \in Stored
    BY ZenonT(60), <1>1, <1>2, Tells DEF GetBlock, Source, Tip, Live
  <2>2. /\ \/ op' = "GetBlock" /\ at' = "lookUp"
           \/ op' = "Source" /\ at' = "source"
        /\ id' = b
    BY ZenonT(60), <1>2 DEF GetBlock, Source
  <2>3. PathInv' /\ NumberInv' /\ ReplyInv'
    BY SMTT(60), <2>2
  <2>4. BlockInv'
    BY SMTT(60), <2>2
  <2>5. PromiseInv'
    BY SMTT(60), <1>1, <2>1, <2>2 DEF Same
  <2> QED
    BY ZenonT(60), <2>3, <2>4, <2>5
<1>3. ASSUME NEW b, Receipts(b) \/ (StateAtBlock(b) /\ b \in processing \cup OnChain)
      PROVE  CallInv'
  <2>1. promised' => b \in Ran
    BY ZenonT(60), <1>3, SetsNested DEF Receipts, StateAtBlock, Ran
  <2>2. StateAtBlock(b) => b \in Stored
    BY ZenonT(60), <1>1, <1>3 DEF Live, Receipts, StateAtBlock
  <2>3. /\ \/ op' = "Receipts" /\ at' = "lookUp"
           \/ op' = "StateAtBlock" /\ at' = "load" /\ b \in Stored
        /\ id' = b
    BY ZenonT(60), <1>3, <2>2 DEF Receipts, StateAtBlock
  <2>4. PathInv' /\ NumberInv' /\ ReplyInv'
    BY SMTT(60), <2>3
  <2>5. BlockInv'
    BY SMTT(60), <1>1, <2>3 DEF Same
  <2>6. PromiseInv'
    BY SMTT(60), <1>1, <2>1, <2>3 DEF Same
  <2> QED
    BY ZenonT(60), <2>4, <2>5, <2>6
<1>4. ASSUME NEW b, TxReceipt(b)
      PROVE  CallInv'
  <2>1. promised' => b \in Sent
    BY ZenonT(60), <1>4, EnqueuedIsSent DEF TxReceipt, Tip
  <2>2. op' = "TxReceipt" /\ at' = "recent" /\ id' = b
    BY ZenonT(60), <1>4 DEF TxReceipt
  <2>3. PathInv' /\ NumberInv' /\ ReplyInv'
    BY SMTT(60), <2>2
  <2>4. BlockInv'
    BY SMTT(60), <1>1, <2>2 DEF Same
  <2>5. PromiseInv'
    BY SMTT(60), <1>1, <2>1, <2>2 DEF Same
  <2> QED
    BY ZenonT(60), <2>3, <2>4, <2>5
<1>5. ASSUME NEW b, State(b)
      PROVE  CallInv'
  <2>1. promised' => b \in OnChain
    BY ZenonT(60), <1>5, Tells DEF State, Tip
  <2>2. op' = "State" /\ at' = "lookUp" /\ id' = b
    BY ZenonT(60), <1>5 DEF State
  <2>3. PathInv' /\ NumberInv' /\ ReplyInv'
    BY SMTT(60), <2>2
  <2>4. BlockInv'
    BY SMTT(60), <1>1, <2>2 DEF Same
  <2>5. PromiseInv'
    BY SMTT(60), <1>1, <2>1, <2>2 DEF Same
  <2> QED
    BY ZenonT(60), <2>3, <2>4, <2>5
<1>6. ASSUME NEW b \in OnChain \ {Genesis}, StateAtTransaction(b)
      PROVE  CallInv'
  <2>1. promised' => hdr[b].parent \in Ran
    BY ZenonT(60), <1>6 DEF StateAtTransaction, Ran
  <2>2. op' = "StateAtTransaction" /\ at' = "parent" /\ id' = b
    BY ZenonT(60), <1>6 DEF StateAtTransaction
  <2>3. PathInv' /\ NumberInv' /\ ReplyInv'
    BY SMTT(60), <2>2
  <2>4. BlockInv'
    BY SMTT(60), <1>1, <2>2 DEF Same
  <2>5. PromiseInv'
    BY SMTT(60), <1>1, <2>1, <2>2 DEF Same
  <2> QED
    BY ZenonT(60), <2>3, <2>4, <2>5
<1>7. ASSUME NEW b \in headSent \cup {lastExecuted}, Bloom(b)
      PROVE  CallInv'
  <2>1. b \in OnDisk
    BY ZenonT(60), SetsNested
  <2>2. op' = "Bloom" /\ at' = "restore" /\ id' = b
    BY ZenonT(60), <1>7 DEF Bloom
  <2>3. PathInv' /\ NumberInv' /\ ReplyInv'
    BY SMTT(60), <2>2
  <2>4. BlockInv'
    BY SMTT(60), <1>1, <2>1, <2>2 DEF Same
  <2>5. PromiseInv'
    BY SMTT(60), <1>1, <2>1, <2>2 DEF Same
  <2> QED
    BY ZenonT(60), <2>3, <2>4, <2>5
<1>8. ASSUME NEW n \in {Pending, Latest, Safe} \cup Nat, ByNumber(n)
      PROVE  CallInv'
  <2>1. promised' => n \in {Latest, Safe} \/ n \in 0 .. HeightOf(lastExecuted)
    BY ZenonT(60), <1>8, AnnouncedNumber
  <2>2. op' = "ByNumber" /\ at' = "tip" /\ num' = n /\ floor' = Resolved(n)
    BY ZenonT(60), <1>8 DEF ByNumber
  <2>3. NumberInv'
    BY SMTT(60), <1>1, <1>8, <2>2, Tells DEF Same, Resolved, HeightOf, Pending, Latest, Safe
  <2>4. PromiseInv'
    BY SMTT(60), <1>1, <2>1, <2>2 DEF Same, HeightOf, Pending, Latest, Safe
  <2>5. PathInv'
    BY SMTT(60), <2>2
  <2>6. BlockInv' /\ ReplyInv'
    BY SMTT(60), <2>2
  <2> QED
    BY ZenonT(60), <2>3, <2>4, <2>5, <2>6
<1>9. ASSUME NEW n \in {Latest, Safe} \cup Nat, StateByNumber(n)
      PROVE  CallInv'
  <2>1. promised' => Resolved(n) <= HeightOf(lastAccepted)
    BY <1>9 DEF StateByNumber, HeightOf
  <2>2. op' = "StateByNumber" /\ at' = "tip" /\ num' = n /\ floor' = Resolved(n)
    BY ZenonT(60), <1>9 DEF StateByNumber
  <2>3. NumberInv'
    BY SMTT(60), <1>1, <1>9, <2>2, Tells DEF Same, Resolved, HeightOf, Pending, Latest, Safe
  <2>4. PromiseInv'
    BY SMTT(60), <1>1, <1>9, <2>1, <2>2, Tells DEF Same, Resolved, HeightOf, Pending, Latest, Safe
  <2>5. PathInv' /\ BlockInv' /\ ReplyInv'
    BY SMTT(60), <2>2
  <2> QED
    BY ZenonT(60), <2>3, <2>4, <2>5
<1>10. 0 .. MaxBlocks \subseteq Nat
  BY SMTT(60)
<1> HIDE DEF Begin, CallInv
<1>11. CASE \E b \in Block : GetBlock(b) \/ Source(b) \/ Receipts(b) \/ TxReceipt(b) \/ State(b)
  <2>1. PICK b \in Block : GetBlock(b) \/ Source(b) \/ Receipts(b) \/ TxReceipt(b) \/ State(b)
    BY <1>11
  <2>2. CASE GetBlock(b) \/ Source(b)
    BY <1>2, <2>2
  <2>3. CASE Receipts(b)
    BY <1>3, <2>3
  <2> QED
    BY ZenonT(60), <1>4, <1>5, <2>1, <2>2, <2>3
<1>12. CASE \E n \in {Latest, Safe} \cup 0 .. MaxBlocks : ByNumber(n) \/ StateByNumber(n)
  BY <1>8, <1>9, <1>10, <1>12
<1>13. CASE ByNumber(Pending)
  BY <1>8, <1>13
<1> QED
  BY ZenonT(60), <1>3, <1>6, <1>7, <1>11, <1>12, <1>13 DEF Call

HIDE DEF CallInv, PathInv, BlockInv, NumberInv, PromiseInv, ReplyInv,
         ByLabel, ByHash, Whole, OfReceipts, StateOps, StateCalls, Continue, Return, OpenAt

\* Every load of a call keeps what the calls have seen.
LEMMA ReaderStep ==
  ASSUME IInv, NoGaps, BuffersInv, CallInv, Reader
  PROVE  CallInv'
BY ZenonT(60), CallStep, ResolveTipStep, ResolveLabelStep, ReadHashStep, LookUpStep, IsCanonicalStep,
   ReadHeaderNumberStep, LoadStep, IsExecutedStep, CheckStep, RestoreStep, AwaitStateStep,
   ReadStateStep, OpenStateStep, LoadParentStep, LoadRecentStep, PeekReceiptStep, ReadTransactionStep,
   SourceInMapStep, SourceOnDiskStep DEF Reader

----------------------------------------------------------------------------
\* The invariant of the readers

LEMMA InitReaders ==
  ASSUME ReadersInit
  PROVE  ReadersInv
<1>1. Init
  BY DEF ReadersInit
<1>2. IInv
  BY <1>1, InitIInv
<1>3. NoGaps
  <2>1. DOMAIN hdr = {Genesis} /\ hdr[Genesis].height = 0 /\ hdr[Genesis].anc = {Genesis}
    BY SMTT(60), <1>1 DEF Init, GenesisHeader
  <2> QED
    BY SMTT(60), <2>1 DEF NoGaps
<1>4. BuffersInv
  <2>1. Enqueued = Genesis
    BY <1>1 DEF Init, Enqueued
  <2>2. lastExecuted = Genesis
    BY <1>1 DEF Init
  <2> QED
    BY <2>1, <2>2 DEF BuffersInv, Sent, Ran
<1>5. op = "GetBlock" /\ at = "done" /\ ~ promised
  BY DEF ReadersInit
<1>6. PathInv /\ BlockInv /\ NumberInv /\ PromiseInv /\ ReplyInv
  BY SMTT(60), <1>5 DEF PathInv, BlockInv, NumberInv, PromiseInv, ReplyInv, Whole, ByLabel, ByHash
<1>7. ArchiveInv
  BY <1>1 DEF ReadersInit, Init, ArchiveInv
<1> QED
  BY ZenonT(60), <1>2, <1>3, <1>4, <1>6, <1>7 DEF ReadersInv, CallInv

LEMMA ReadersStep ==
  ASSUME ReadersInv, [LifeCycle \/ CreateReceiptBuffers \/ Cleanup \/ Reader]_allVars
  PROVE  ReadersInv'
<1> USE DEF ReadersInv
<1>1. CASE LifeCycle
  <2>1. [Next]_vars /\ UNCHANGED callVars
    BY <1>1 DEF LifeCycle
  <2>2. IInv'
    BY <2>1, NextIInv
  <2>3. Gone \subseteq Gone'
    BY <1>1, <2>2, GoneGrows
  <2> QED
    BY ZenonT(60), <1>1, <2>1, <2>2, <2>3, NoGapsStep, BuffersLifeCycle, ArchiveLifeCycle,
       CallLifeCycle
<1>2. ASSUME UNCHANGED <<vars, committed>>
      PROVE  IInv' /\ NoGaps' /\ ArchiveInv' /\ Sent' = Sent /\ Ran' = Ran /\ Gone' = Gone
  <2>1. xdb' = xdb /\ committed' = committed
    BY <1>2 DEF vars, executorVars, resultVars
  <2> QED
    BY ZenonT(60), <1>2, <2>1, NextIInv, NoGapsStep, ReaderFrame DEF Same, ArchiveInv
<1>3. ASSUME UNCHANGED <<vars, committed, callVars>>
      PROVE  CallInv'
  BY <1>2, <1>3, CallLifeCycle
<1>4. CASE CreateReceiptBuffers
  <2>1. UNCHANGED <<vars, committed, callVars>> /\ buffers \subseteq buffers'
    BY <1>4 DEF CreateReceiptBuffers
  <2> QED
    BY <1>2, <1>3, <2>1 DEF BuffersInv
<1>5. CASE Cleanup
  <2>1. UNCHANGED <<vars, committed, callVars>> /\ \A b \in buffers \cap Reachable : b \in buffers'
    BY <1>5 DEF Cleanup
  <2>2. Sent \ Ran \subseteq buffers'
    BY <2>1, BuffersKept DEF BuffersInv
  <2> QED
    BY ZenonT(60), <1>2, <1>3, <2>1, <2>2 DEF BuffersInv
<1>6. CASE Reader
  <2>1. UNCHANGED nodeVars
    BY <1>6 DEF Reader, Call, ResolveTip, ResolveLabel, ReadHashOfNumber, LookUp, IsCanonical,
                ReadHeaderNumber, Load, IsExecuted, Check, Restore, AwaitState, ReadState,
                OpenState, LoadParent, LoadRecent, PeekReceipt, ReadTransaction, SourceInMap,
                SourceOnDisk
  <2>2. UNCHANGED <<vars, committed>> /\ buffers' = buffers
    BY <2>1 DEF nodeVars
  <2>3. CallInv'
    BY <1>6, ReaderStep
  <2> QED
    BY ZenonT(60), <1>2, <2>2, <2>3 DEF BuffersInv
<1>7. CASE UNCHANGED allVars
  <2>1. UNCHANGED <<vars, committed, callVars>> /\ buffers' = buffers
    BY <1>7 DEF allVars, nodeVars
  <2> QED
    BY <1>2, <1>3, <2>1 DEF BuffersInv
<1> QED
  BY ZenonT(60), <1>1, <1>4, <1>5, <1>6, <1>7

\* The life cycle's invariant and the readers' hold together.
THEOREM ReadersInvariance == ReadersSpec => []ReadersInv
<1>1. ReadersInit => ReadersInv
  BY InitReaders
<1>2. ReadersInv /\ [LifeCycle \/ CreateReceiptBuffers \/ Cleanup \/ Reader]_allVars => ReadersInv'
  BY ReadersStep
<1> QED
  BY <1>1, <1>2, PTL DEF ReadersSpec

\* GetBlock and the block sources find every block that was verified or accepted when
\* they were called, although it may move from the map to the database between two of
\* their loads.
THEOREM BlocksAreFound == ReadersSpec => []StoredIsFound
<1>1. ReadersInv => StoredIsFound
  BY DEF ReadersInv, CallInv, ReplyInv, StoredIsFound, Whole, Live
<1> QED
  BY <1>1, ReadersInvariance, PTL

\* Receipts that are owed are found, and so are states unless their trie was pruned from
\* memory and never committed; what is found is that of the block asked for.
THEOREM OwedResultsAreFound == ReadersSpec => []ResultsAreFound
<1>1. ASSUME ReadersInv PROVE ResultsAreFound
  <2>1. ReplyInv
    BY <1>1 DEF ReadersInv, CallInv
  <2>2. id \in Gone => Pruned(id)
    BY DEF Gone
  <2> QED
    BY <2>1, <2>2 DEF ReplyInv, ResultsAreFound, Whole, Live
<1> QED
  BY <1>1, ReadersInvariance, PTL

\* On an archival node every state that is owed is found, however old the block: what
\* the map no longer holds was committed before its results were stored.
ArchiveAnswers ==
  Archival /\ op \in StateCalls /\ at = "done" /\ promised => reply = id
THEOREM ArchiveFindsStates == ReadersSpec => []ArchiveAnswers
<1>1. ASSUME ReadersInv PROVE ArchiveAnswers
  <2>1. ReplyInv /\ IInv /\ ArchiveInv
    BY <1>1 DEF ReadersInv, CallInv
  <2>2. ASSUME Archival, id \in Gone
        PROVE  FALSE
    <3>1. id \in OnChain /\ id \notin critical /\ id \notin committed
      BY <2>2 DEF Gone, Pruned
    <3>2. id \in xdb
      BY ZenonT(60), <2>1, <3>1, MapHolds, SetsNested
    <3> QED
      BY ZenonT(60), <2>1, <2>2, <3>1, <3>2 DEF ArchiveInv
  <2> QED
    BY <2>1, <2>2 DEF ReplyInv, ArchiveAnswers, Whole, StateCalls
<1> QED
  BY <1>1, ReadersInvariance, PTL

\* ResolveRPCNumberOrHash need not check that the hash of a number exists, and labels
\* never resolve to a block below the one they named when the call began.
THEOREM NumbersAreCanonical == ReadersSpec => []NumberIsCanonical
<1>1. ASSUME ReadersInv PROVE NumberIsCanonical
  <2> SUFFICES ASSUME op \in ByLabel, at \notin {"tip", "label", "canonicalHash", "done"}
               PROVE  id # None /\ hdr[id].height = num /\ num >= floor
    BY DEF NumberIsCanonical, ByLabel
  <2>1. at \in {"load", "await", "results", "executed", "check", "restore", "open"}
    BY SMTT(60), <1>1 DEF ReadersInv, CallInv, PathInv, ByLabel, ByHash, StateOps
  <2>2. id \in OnChain
    BY ZenonT(60), <1>1, <2>1, SetsNested DEF ReadersInv, CallInv, BlockInv, ByLabel
  <2> QED
    BY ZenonT(60), <1>1, <2>1, <2>2, Heights DEF ReadersInv, CallInv, NumberInv, HeightOf
<1> QED
  BY <1>1, ReadersInvariance, PTL

\* Nothing is restored from the database that is not there, without any lock over the
\* checks before it.
THEOREM RestoreSucceeds == ReadersSpec => []RestoresOnlyExecuted
<1>1. ASSUME ReadersInv PROVE RestoresOnlyExecuted
  BY <1>1, NumberReads DEF ReadersInv, CallInv, BlockInv, RestoresOnlyExecuted
<1> QED
  BY <1>1, ReadersInvariance, PTL
=============================================================================
