------------------------------ MODULE Recovery ------------------------------
(***************************************************************************)
(* Crashes and recovery.  State tries live in memory, counted by           *)
(* saedb.Tracker, and only some reach the disk: all of an archival node,   *)
(* else one for every commit interval.  When a node restarts, NewVM finds  *)
(* the last block whose state it has, executes every later accepted block  *)
(* again, and rebuilds the map of consensus-critical blocks (recovery.go). *)
(*                                                                         *)
(* The module follows one accepted chain.  Verification and acceptance     *)
(* appear with their effects on the disk, the map and the reference        *)
(* counts; SAE has their finer steps.  A crash of the process loses the    *)
(* memory and keeps every write that was made before it.  A loss of power  *)
(* also loses the last writes to the database, which is never synced, but  *)
(* not the execution results, which are.  A node may come back with        *)
(* another commit interval.  Heights count from the last synchronous       *)
(* block, which is 0; a root is the number of blocks that changed the      *)
(* state, so a block that does not has its parent's root.                  *)
(***************************************************************************)
EXTENDS Headers, Tracker, FiniteSets

CONSTANTS
  BlockTimes,       \* the block times consensus may see
  GasUsed,          \* the amounts of gas a block may consume
  Lookups,          \* how many blocks back the BLOCKHASHs of a block may look
  LastSynchronous,  \* absolute height of the last synchronous block
  Configs,          \* what saedb.Config may be: [archival, interval]
  MaxHeight,        \* bound: blocks accepted
  MaxCrashes,       \* bound: crashes and losses of power
  MaxUnsynced       \* bound: writes that a loss of power undoes

ASSUME RecoveryAssumption ==
  /\ Tau > 0
  /\ BlockTimes \subseteq Nat /\ GasUsed \subseteq Nat /\ Lookups \subseteq Nat
  /\ LastSynchronous \in Nat
  /\ Configs \subseteq [archival : BOOLEAN, interval : Nat \ {0}]
  /\ MaxHeight \in Nat /\ MaxCrashes \in Nat /\ MaxUnsynced \in Nat

None == -1
NoBlock == [time |-> None, gas |-> 0, change |-> FALSE, lookup |-> 0]   \* a nil block
Header == [time : BlockTimes, gas : GasUsed, change : BOOLEAN, lookup : Lookups]

VARIABLES
  config,      \* Config.DBConfig
  \* Disk.
  chain,       \* canonical blocks above the last synchronous one
  finalized,   \* rawdb finalized block
  head,        \* rawdb head block
  disk,        \* state roots
  unsynced,    \* what these four were before each of the last writes
  xdb,         \* the block whose execution results are kept at each height
  \* Memory.
  mode,        \* "down", "recovering" (in NewVM) or "running"
  dirty,       \* the trie database
  critical,    \* heights of the accepted blocks in VM.consensusCritical
  settledBy,   \* ancestry.lastSettled of those that are not settled
  pending,     \* a verified block on top of the chain, or NoBlock
  lastSettled, \* VM.last.settled
  dropping,    \* AcceptBlock: blocks to delete from the map
  start,       \* the block recovery starts from
  enqueued,    \* the last block in the executor's queue, or before it
  executed,    \* Executor.lastExecuted
  epc,         \* program counter of the executor
  crashes

dbVars == <<chain, finalized, head, disk>>
diskVars == <<dbVars, unsynced, xdb>>
mapVars == <<critical, settledBy, pending, lastSettled, dropping>>
vars == <<config, diskVars, mode, dirty, mapVars, start, enqueued, executed,
          epc, crashes>>

\* Block.PostExecutionStateRoot and Block.SettledStateRoot.
Root(c, h) == Cardinality({x \in 1 .. h : c[x].change})
SettledStateRoot(c, h) == Root(c, SettledHeight(c, h))

\* How many of the blocks at the heights S have a root as their post-execution or
\* as their settled state.
Executions(c, S, r) == Cardinality({h \in S : Root(c, h) = r})
Settlements(c, S, r) == Cardinality({h \in S : SettledStateRoot(c, h) = r})

\* A block is known by the chain up to it.
BlockAt(c, h) == SubSeq(c, 1, h)
Put(results, h, b) == [x \in DOMAIN results \cup {h} |-> IF x = h THEN b ELSE results[x]]

\* The chain with the block under consideration.
Tip == Append(chain, pending)

----------------------------------------------------------------------------
\* Which state recovery starts from.

\* Tracker.MaybeCommit: the root that is committed after executing h.
Commits(h) == IF config.archival THEN Root(chain, h) ELSE SettledStateRoot(chain, h)
CommitsAt(h) == config.archival \/ ShouldCommitTrieDB(LastSynchronous + h, config.interval)

\* LastHeightWithExecutionRootCommitted
LastMultiple ==
  LastCommittedTrieDBHeight(LastSynchronous + head, config.interval) - LastSynchronous
LastMultipleItself ==
  IF head = 0 THEN 0 ELSE IF config.archival THEN head
  ELSE IF LastMultiple <= 0 THEN 0 ELSE LastMultiple
LastHeightWithExecutionRootCommitted ==
  IF head = 0 THEN 0 ELSE IF config.archival THEN head
  ELSE IF LastMultiple <= 0 THEN 0 ELSE SettledHeight(chain, LastMultiple)

----------------------------------------------------------------------------
Init ==
  /\ config \in Configs
  /\ chain = <<>> /\ finalized = None /\ head = None /\ disk = {0}
  /\ unsynced = <<>>
  /\ xdb = <<>>
  /\ mode = "down"
  /\ dirty = <<>>
  /\ critical = {} /\ settledBy = <<>> /\ pending = NoBlock /\ lastSettled = 0
  /\ dropping = {}
  /\ start = 0 /\ enqueued = 0 /\ executed = 0 /\ epc = "idle"
  /\ crashes = 0

\* A write to the database, which may be lost as long as it is one of the last.
Write ==
  LET db == [chain |-> chain, finalized |-> finalized, head |-> head, disk |-> disk]
      log == Append(unsynced, db)
  IN unsynced' = IF crashes = MaxCrashes THEN <<>>
                 ELSE IF Len(log) > MaxUnsynced THEN Tail(log) ELSE log

\* The process ends, at any point, and all that was in memory is lost.
LoseMemory ==
  /\ mode # "down"
  /\ crashes < MaxCrashes
  /\ crashes' = crashes + 1
  /\ mode' = "down"
  /\ dirty' = <<>>
  /\ critical' = {} /\ settledBy' = <<>> /\ pending' = NoBlock /\ lastSettled' = 0
  /\ dropping' = {}
  /\ start' = 0 /\ enqueued' = 0 /\ executed' = 0 /\ epc' = "idle"

Crash ==
  /\ LoseMemory
  /\ UNCHANGED <<config, diskVars>>

\* So does the machine.  The database is a log, of which some prefix survives; the
\* results are synced by the same step that puts them.
Synced == xdb
PowerLoss ==
  /\ LoseMemory
  /\ \E n \in DOMAIN unsynced :
       /\ chain' = unsynced[n].chain /\ finalized' = unsynced[n].finalized
       /\ head' = unsynced[n].head /\ disk' = unsynced[n].disk
       /\ unsynced' = SubSeq(unsynced, 1, n - 1)
  /\ xdb' = Synced
  /\ UNCHANGED config

\* A config under which everything that an old one committed is where it is looked
\* for: an archival node has every state, and one that commits at the multiples of
\* an interval has those at the multiples of a multiple.
CompatibleConfig(old, new) ==
  \/ old.archival
  \/ ~ new.archival /\ new.interval % old.interval = 0

----------------------------------------------------------------------------
\* NewVM

\* canonicaliseLastSynchronous does nothing once there is a later canonical block.
CanonicaliseTooLate ==
  IF chain # <<>> THEN head' = 0 /\ finalized' = 0 ELSE UNCHANGED <<head, finalized>>
CanonicaliseLastSynchronous ==
  IF chain = <<>> THEN head' = 0 /\ finalized' = 0 ELSE UNCHANGED <<head, finalized>>

\* MarkSynchronous, which leaves the head alone, comes first.
Synchronise ==
  /\ mode = "down"
  /\ mode' = "booting"
  /\ config' \in {c \in Configs : CompatibleConfig(config, c)}
  /\ xdb' = Put(xdb, 0, <<>>)
  /\ CanonicaliseLastSynchronous
  /\ Write
  /\ UNCHANGED <<chain, disk, dirty, mapVars, start, enqueued, executed,
                 epc, crashes>>

\* lastCommittedBlock, whose artefacts are restored, and a new Executor on top of
\* it.
StartExecutor ==
  /\ mode = "booting"
  /\ LastHeightWithExecutionRootCommitted \in DOMAIN xdb
  /\ mode' = "recovering"
  /\ start' = LastHeightWithExecutionRootCommitted
  /\ executed' = LastHeightWithExecutionRootCommitted
  /\ enqueued' = Len(chain)
  /\ UNCHANGED <<config, diskVars, dirty, mapVars, epc, crashes>>

\* executeAllAccepted keeps the states from the last-settled block on.
KeepsAll == {}
KeepsTooFew == {h \in start + 1 .. enqueued : h <= SettledHeight(chain, enqueued)}
NotKept == {h \in start + 1 .. enqueued : h < SettledHeight(chain, enqueued)}

\* `extend` in consensusCriticalBlocks: from the lowest block so far, down to the
\* one that the settler settled.
IsSettledBefore(settler, h) == DueAt(chain)[h] < chain[settler].time - Tau
IsSettledBy(settler, h) == DueAt(chain)[h] <= chain[settler].time - Tau
Extend(settler, low) ==
  CHOOSE h \in 0 .. low :
    /\ h = 0 \/ IsSettledBy(settler, h)
    /\ \A x \in h + 1 .. low : ~ IsSettledBy(settler, x)

\* The last-settled block of every block from h up, as restored from the last
\* executed block downwards.
Restored ==
  LET low[h \in 0 .. executed] ==
        IF h = 0 THEN 0
        ELSE Extend(h, IF h = executed THEN h ELSE low[h + 1])
  IN low

\* The rest of executeAllAccepted once the last block is executed, and
\* consensusCriticalBlocks.
FinishRecovery ==
  /\ mode = "recovering"
  /\ executed = enqueued
  /\ LET kept == UntrackAll(dirty, [r \in DOMAIN dirty |-> Executions(chain, NotKept, r)])
         m == Restored[executed] .. executed
     IN /\ m \cap 0 .. start \subseteq DOMAIN xdb   \* RestoreExecutionArtefacts
        /\ dirty' = TrackAll(kept, [r \in DOMAIN kept |-> Settlements(chain, m, r)])
        /\ critical' = m
        /\ lastSettled' = Restored[executed]
        /\ settledBy' = [h \in m \ {Restored[executed]} |-> Restored[h]]
  /\ mode' = "running"
  /\ UNCHANGED <<config, diskVars, pending, dropping, start, enqueued, executed,
                 epc, crashes>>

----------------------------------------------------------------------------
\* Consensus, between crashes.

\* VerifyBlock: a block may be verified once the block it settles is executed, and
\* the next one is known not to be due.
KnownToSettle(b) ==
  LET s == SettledHeight(Append(chain, b), Len(chain) + 1)
  IN /\ s <= executed
     /\ s < Len(chain) =>
          \/ chain[s + 1].time > b.time - Tau
          \/ s < executed
          \/ epc = "run" /\ chain[s + 1].gas > 0

VerifyBlock ==
  /\ mode = "running" /\ dropping = {} /\ pending = NoBlock
  /\ Len(chain) < MaxHeight
  /\ \E b \in Header :
       /\ b.time >= Tau
       /\ b.time >= IF chain = <<>> THEN GenesisTime ELSE chain[Len(chain)].time
       /\ pending' = b
       /\ KnownToSettle(b)
       /\ dirty' = Track(dirty, SettledStateRoot(Append(chain, b), Len(chain) + 1))
  /\ UNCHANGED <<config, diskVars, mode, critical, settledBy, lastSettled,
                 dropping, start, enqueued, executed, epc, crashes>>

\* RejectBlock: the block was never executed.
RejectBlock ==
  /\ mode = "running" /\ pending # NoBlock
  /\ pending' = NoBlock
  /\ dirty' = Untrack(dirty, SettledStateRoot(Tip, Len(Tip)))
  /\ UNCHANGED <<config, diskVars, mode, critical, settledBy, lastSettled,
                 dropping, start, enqueued, executed, epc, crashes>>

\* AcceptBlock up to Enqueue.
AcceptBlock ==
  /\ mode = "running" /\ pending # NoBlock
  /\ LET s == SettledHeight(Tip, Len(Tip)) IN
       /\ chain' = Tip
       /\ finalized' = IF s > lastSettled THEN s ELSE finalized
       /\ lastSettled' = s
       /\ critical' = critical \cup {Len(Tip)}
       /\ settledBy' = [h \in s + 1 .. Len(Tip) |->
                          IF h = Len(Tip) THEN s ELSE settledBy[h]]
       /\ dropping' = lastSettled .. s - 1
       /\ enqueued' = Len(Tip)
  /\ Write
  /\ pending' = NoBlock
  /\ UNCHANGED <<config, head, disk, xdb, mode, dirty, start, executed,
                 epc, crashes>>

\* The map's onDelete untracks the settled root and, of a block that was executed,
\* the post-execution root.
OnDelete(S, r) ==
  Settlements(chain, S, r) + Executions(chain, {h \in S : h <= executed}, r)

\* The end of AcceptBlock.
Evict ==
  /\ mode = "running" /\ dropping # {}
  /\ dirty' = UntrackAll(dirty, [r \in DOMAIN dirty |-> OnDelete(dropping, r)])
  /\ critical' = critical \ dropping
  /\ dropping' = {}
  /\ UNCHANGED <<config, diskVars, mode, settledBy, pending, lastSettled, start,
                 enqueued, executed, epc, crashes>>

----------------------------------------------------------------------------
\* The executor, in recovery and after it.

block == executed + 1

Order == [idle |-> "run", run |-> "commit", commit |-> "track", track |-> "results",
          results |-> "batch", batch |-> "mark", mark |-> "idle"]

Dequeue ==
  /\ mode \in {"recovering", "running"} /\ epc = "idle"
  /\ executed < enqueued
  /\ epc' = Order[epc]
  /\ UNCHANGED <<config, diskVars, mode, dirty, mapVars, start, enqueued,
                 executed, crashes>>

\* chainContext.GetHeader: a header is in the cache if it was executed by this
\* process, or it comes from VM.headerSource, which looks into the map; NewVM sets
\* that after executeAllAccepted.
CachedHeaders == start + 1 .. executed
HeaderSource == IF mode = "running" THEN 0 .. Len(chain) ELSE {}
GetHeader(h) == h \in CachedHeaders \cup HeaderSource

\* GetHashFn of libevm: the hash of a block is in the header of its child, and the
\* first child is the block itself.
Blockhash(n) == \A h \in n + 1 .. executed : GetHeader(h)

\* StateDB.Commit, at the end of Execute: only a changed state is a new trie.  The
\* process does not get here after a nil dereference in the header source.
CommitState ==
  /\ epc = "run"
  /\ \A n \in 0 .. executed : block - n <= chain[block].lookup => Blockhash(n)
  /\ dirty' = IF chain[block].change THEN Insert(dirty, Root(chain, block)) ELSE dirty
  /\ epc' = Order[epc]
  /\ UNCHANGED <<config, diskVars, mode, mapVars, start, enqueued, executed,
                 crashes>>

MaybeCommit ==
  /\ epc = "commit"
  /\ IF CommitsAt(block)
       THEN /\ disk' = Flush(disk, dirty, Commits(block))
            /\ dirty' = Drop(dirty, Commits(block))
            /\ Write
       ELSE UNCHANGED <<disk, unsynced, dirty>>
  /\ epc' = Order[epc]
  /\ UNCHANGED <<config, chain, finalized, head, xdb, mode, mapVars,
                 start, enqueued, executed, crashes>>

TrackRoot ==
  /\ epc = "track"
  /\ dirty' = Track(dirty, Root(chain, block))
  /\ epc' = Order[epc]
  /\ UNCHANGED <<config, diskVars, mode, mapVars, start, enqueued, executed,
                 crashes>>

\* MarkExecuted, disk: the results and then the batch with the head block.
PutResults ==
  /\ epc = "results"
  /\ xdb' = Put(xdb, block, BlockAt(chain, block))
  /\ epc' = Order[epc]
  /\ UNCHANGED <<config, dbVars, unsynced, mode, dirty, mapVars, start, enqueued,
                 executed, crashes>>

WriteBatch ==
  /\ epc = "batch"
  /\ head' = block
  /\ Write
  /\ epc' = Order[epc]
  /\ UNCHANGED <<config, chain, finalized, disk, xdb, mode, dirty,
                 mapVars, start, enqueued, executed, crashes>>

\* MarkExecuted, memory.
MarkExecuted ==
  /\ epc = "mark"
  /\ executed' = block
  /\ epc' = Order[epc]
  /\ UNCHANGED <<config, diskVars, mode, dirty, mapVars, start, enqueued,
                 crashes>>

Executor ==
  \/ Dequeue \/ CommitState \/ MaybeCommit \/ TrackRoot \/ PutResults
  \/ WriteBatch \/ MarkExecuted

NewVM == Synchronise \/ StartExecutor \/ FinishRecovery

Next ==
  \/ NewVM \/ Executor \/ Crash \/ PowerLoss
  \/ VerifyBlock \/ RejectBlock \/ AcceptBlock \/ Evict

Spec == Init /\ [][Next]_vars

\* A node that is down is started again, and its threads are scheduled until it runs.
StartUp == mode # "running" /\ (NewVM \/ Executor)
FairSpec == Spec /\ WF_vars(StartUp)

----------------------------------------------------------------------------
Available(r) == r \in disk \cup DOMAIN dirty

\* In every state, and so after a crash at any point, the block from which NewVM
\* would recover has its state and its execution results on disk.  It rests on
\* MaybeCommit's Commit of the settled root, which reports no error when the trie
\* has already gone, and holds although recovery itself moves the head back.
RecoveryCanStart ==
  head # None =>
    /\ Root(chain, LastHeightWithExecutionRootCommitted) \in disk
    /\ \A h \in 1 .. LastHeightWithExecutionRootCommitted :
         h \in DOMAIN xdb /\ xdb[h] = BlockAt(chain, h)

\* Every state that somebody may still open is in memory or on disk: that of the
\* last executed block (Execute), those of the executed blocks that consensus may
\* settle (worstcase.NewState), the settled root of every block that waits for its
\* execution, and the one that the executor is about to commit (MaybeCommit).
StateAvailable ==
  /\ mode \in {"recovering", "running"} => Available(Root(chain, executed))
  /\ \A h \in critical : h <= executed => Available(Root(chain, h))
  /\ mode = "running" =>
       \A h \in executed + 1 .. enqueued : Available(SettledStateRoot(chain, h))
  /\ epc = "commit" /\ CommitsAt(block) => Available(Commits(block))
  /\ pending # NoBlock => Available(SettledStateRoot(Tip, Len(Tip)))

\* The number of references that the blocks in the map, and the executor, hold.
References(r) ==
  Settlements(chain, critical, r)
  + Executions(chain, {h \in critical :
      h <= executed \/ (h = block /\ epc \in {"results", "batch", "mark"})}, r)
  + (IF pending # NoBlock /\ SettledStateRoot(Tip, Len(Tip)) = r THEN 1 ELSE 0)

\* While the VM runs, a trie in memory has exactly one reference for every block
\* in the map with that settled or that post-execution root, whether the block came
\* from consensus or from recovery: no trie leaks, and none goes too early.
ReferencesExact ==
  mode = "running" =>
    \A r \in DOMAIN dirty :
      /\ dirty[r] = References(r)
      /\ dirty[r] = 0 => epc \in {"commit", "track"} /\ r = Root(chain, block)

\* Recovery from the database gives the map, the last-settled block and the
\* ancestry that a VM without a crash has: what the headers settle.
RecoveredIsExact ==
  mode = "running" =>
    /\ lastSettled = SettledHeight(chain, Len(chain))
    /\ critical \ dropping = lastSettled .. Len(chain)
    /\ settledBy = [h \in lastSettled + 1 .. Len(chain) |-> SettledHeight(chain, h)]

\* A node that restarts gets to run, if it does not crash for ever.
Recovers == mode = "down" ~> mode = "running"

\* What GetHeader is for: "eth_call on historical state will miss the cache but we
\* still need to support BLOCKHASH".  No block that is executed, before a crash or
\* again after it, asks for the hash of an ancestor that the chain context cannot get.
BlockhashSupported ==
  epc = "run" =>
    \A n \in 0 .. executed : block - n <= chain[block].lookup => Blockhash(n)
=============================================================================
