--------------------------- MODULE RecoveryProofs ---------------------------
(***************************************************************************)
(* Proofs about Recovery, for every length of the chain, every set of      *)
(* configs and any number of crashes and losses of power.  The invariant   *)
(* of RecoveryInductive is established by Init and preserved by each       *)
(* action (for the executor, see RecoverySteps); the safety properties     *)
(* that Recovery states follow from it.                                    *)
(***************************************************************************)
EXTENDS RecoverySteps

----------------------------------------------------------------------------
\* Starting, and losing what is in memory

\* Without an executor, all that matters is the database.
LEMMA NothingInMemory ==
  ASSUME config' \in Configs, LogInv', mode' \in {"down", "booting"},
         mode' = "booting" => head' # None,
         DOMAIN dirty' = {}, dirty' = <<>>,
         critical' = {}, pending' = NoBlock, lastSettled' \in Nat, dropping' = {},
         start' \in Nat, enqueued' \in Nat, executed' = 0, epc' = "idle"
  PROVE  RInv'
<1>1. ~ Live' /\ mode' # "running" /\ mode' # "recovering"
  BY DEF Live
<1>2. Types'
  BY DEF Types
<1>3. DownInv' /\ ExecutorInv' /\ RunningInv'
  BY Zenon, <1>1 DEF DownInv, ExecutorInv, RunningInv
<1>4. CountsInv' /\ AvailableInv'
  BY <1>1 DEF CountsInv, AvailableInv
<1> QED
  BY <1>2, <1>3, <1>4 DEF RInv

\* A new node.
LEMMA InitInv ==
  ASSUME Init
  PROVE  RInv
<1>1. /\ config \in Configs /\ chain = <<>> /\ finalized = -1 /\ head = -1 /\ disk = {0}
      /\ unsynced = <<>> /\ mode = "down" /\ dirty = <<>>
      /\ critical = {} /\ pending = NoBlock /\ lastSettled = 0 /\ dropping = {}
      /\ start = 0 /\ enqueued = 0 /\ executed = 0 /\ epc = "idle"
  BY DEF Init, None
<1>2. ~ Live /\ DOMAIN dirty = {}
  BY <1>1 DEF Live
<1>3. Types
  BY <1>1, <1>2 DEF Types
<1>4. LogInv
  <2>1. chain \in Seq(Header) /\ Len(chain) = 0
    BY <1>1
  <2>2. Ordered(chain)
    BY <2>1 DEF Ordered
  <2>3. Db \in Database /\ Db.chain = chain /\ Db.head = -1 /\ Db.disk = {0}
    BY <1>1, <2>1 DEF Db, Database
  <2>4. CommittedUpTo(config, chain, disk, -1) /\ ResultsUpTo(xdb, chain, -1)
    BY DEF CommittedUpTo, ResultsUpTo
  <2>5. Recoverable(Db, config, xdb)
    BY <1>1, <2>1, <2>2, <2>3, <2>4 DEF Recoverable, None
  <2>6. unsynced \in Seq(Database) /\ Len(unsynced) = 0
    BY <1>1
  <2> QED
    BY <2>5, <2>6 DEF LogInv
<1>5. DownInv /\ ExecutorInv /\ RunningInv
  BY <1>1, <1>2 DEF DownInv, ExecutorInv, RunningInv
<1>6. CountsInv /\ AvailableInv
  BY <1>1, <1>2 DEF CountsInv, AvailableInv
<1> QED
  BY <1>3, <1>4, <1>5, <1>6 DEF RInv

\* After a crash only the database is left.
LEMMA CrashStep ==
  ASSUME RInv, Crash
  PROVE  RInv'
<1>1. LogInv'
  BY LogFrame DEF RInv, Crash
<1>2. config' \in Configs
  BY DEF Crash, RInv, Types
<1> QED
  BY <1>1, <1>2, NothingInMemory DEF Crash, LoseMemory

\* A database that a loss of power brings back is one from which a node can recover.
LEMMA PowerLossStep ==
  ASSUME RInv, PowerLoss
  PROVE  RInv'
<1>1. PICK n \in DOMAIN unsynced :
        /\ chain' = unsynced[n].chain /\ finalized' = unsynced[n].finalized
        /\ head' = unsynced[n].head /\ disk' = unsynced[n].disk
        /\ unsynced' = SubSeq(unsynced, 1, n - 1)
  BY Zenon DEF PowerLoss
<1>2. xdb' = xdb /\ config' = config /\ LoseMemory
  BY DEF PowerLoss, Synced
<1>3. /\ Entries(unsynced, config, xdb, chain) /\ Recoverable(Db, config, xdb)
      /\ Db.chain = chain /\ unsynced \in Seq(Database)
  BY Zenon DEF RInv, LogInv, Entries, Db
<1>4. n \in 1 .. Len(unsynced) /\ chain \in Seq(Header)
  BY <1>1, <1>3, DatabaseFacts
<1>5. Entries(SubSeq(unsynced, 1, n - 1), config, xdb, unsynced[n].chain)
  BY <1>3, <1>4, MoreEntries
<1>6. Recoverable(unsynced[n], config, xdb)
  BY <1>3, <1>4 DEF Entries
<1>7. Db' = unsynced[n]
  BY <1>1, <1>6 DEF Db, Recoverable, Database
<1>8. LogInv'
  BY Zenon, <1>1, <1>2, <1>5, <1>6, <1>7 DEF LogInv, Entries
<1>9. config' \in Configs
  BY <1>2 DEF RInv, Types
<1> QED
  BY <1>2, <1>8, <1>9, NothingInMemory DEF LoseMemory

\* A database is as good under the next config, and with results at height 0.
LEMMA NextConfig ==
  ASSUME NEW old \in Configs, NEW new \in Configs, CompatibleConfig(old, new),
         NEW R, NEW db, Recoverable(db, old, R)
  PROVE  Recoverable(db, new, Put(R, 0, <<>>))
<1>1. /\ Ordered(db.chain) /\ 0 \in db.disk /\ db.head \in Int /\ db.head <= Len(db.chain)
      /\ CommittedUpTo(old, db.chain, db.disk, db.head)
  BY DEF Recoverable, None
<1>2. CommittedUpTo(new, db.chain, db.disk, db.head)
  BY <1>1, ConfigChange
<1>3. ResultsUpTo(Put(R, 0, <<>>), db.chain, db.head)
  <2> SUFFICES ASSUME NEW h \in 1 .. db.head
               PROVE  h \in DOMAIN Put(R, 0, <<>>) /\ Put(R, 0, <<>>)[h] = BlockAt(db.chain, h)
    BY DEF ResultsUpTo
  <2>1. h \in DOMAIN R /\ R[h] = BlockAt(db.chain, h) /\ h # 0
    BY <1>1 DEF Recoverable, ResultsUpTo
  <2> QED
    BY <2>1 DEF Put
<1> QED
  BY Zenon, <1>2, <1>3 DEF Recoverable

\* NewVM canonicalises the last synchronous block and accepts a compatible config.
LEMMA SynchroniseStep ==
  ASSUME RInv, Synchronise
  PROVE  RInv'
<1>1. /\ mode = "down" /\ mode' = "booting"
      /\ config' \in Configs /\ CompatibleConfig(config, config')
      /\ xdb' = Put(xdb, 0, <<>>) /\ Write
      /\ chain' = chain /\ disk' = disk /\ dirty' = dirty
      /\ critical' = critical /\ pending' = pending /\ lastSettled' = lastSettled
      /\ dropping' = dropping /\ start' = start /\ enqueued' = enqueued
      /\ executed' = executed /\ epc' = epc
  BY DEF Synchronise, mapVars
<1>2. IF chain = <<>> THEN head' = 0 /\ finalized' = 0 ELSE head' = head /\ finalized' = finalized
  BY DEF Synchronise, CanonicaliseLastSynchronous
<1>3. ~ Live /\ mode # "running"
  BY <1>1 DEF Live
<1>4. executed = 0 /\ epc = "idle" /\ DOMAIN dirty = {} /\ critical = {} /\ dropping = {}
      /\ pending = NoBlock
  BY <1>3 DEF RInv, DownInv
<1>5. dirty = <<>> /\ config \in Configs /\ lastSettled \in Nat /\ start \in Nat
      /\ enqueued \in Nat
  <2>1. dirty \in [{} -> Nat]
    BY <1>4 DEF RInv, Types
  <2> QED
    BY <2>1 DEF RInv, Types
<1>6. Recoverable(Db, config, xdb)
  BY DEF RInv, LogInv
<1>7. \A db : Recoverable(db, config, xdb) => Recoverable(db, config', xdb')
  BY Zenon, <1>1, <1>5, NextConfig
<1>8. head' # None /\ Recoverable(Db', config', xdb')
  <2>1. CASE chain = <<>>
    <3>1. /\ Db' = [chain |-> chain, finalized |-> 0, head |-> 0, disk |-> disk]
          /\ Db'.chain = chain /\ Db'.head = 0 /\ Db'.disk = disk
      BY <1>1, <1>2, <2>1 DEF Db
    <3>2. /\ chain \in Seq(Header) /\ disk \in SUBSET Nat /\ Ordered(chain) /\ 0 \in disk
      BY DatabaseFacts
    <3>3. Db' \in Database
      BY <3>1, <3>2 DEF Database
    <3>4. CommittedUpTo(config', chain, disk, 0) /\ ResultsUpTo(xdb', chain, 0)
      BY DEF CommittedUpTo, ResultsUpTo
    <3>5. 0 <= Len(chain) /\ 0 # None /\ 0 \in Nat
      BY <2>1 DEF None
    <3> QED
      BY Zenon, <1>2, <2>1, <3>1, <3>2, <3>3, <3>4, <3>5 DEF Recoverable
  <2>2. CASE chain # <<>>
    <3>1. Db' = Db /\ Db.chain = chain /\ Db.head = head
      BY <1>1, <1>2, <2>2 DEF Db
    <3>2. head # None
      BY <1>6, <2>2, <3>1 DEF Recoverable
    <3> QED
      BY SMTT(60), <1>2, <1>6, <1>7, <2>2, <3>1, <3>2
  <2> QED
    BY <2>1, <2>2
<1>9. LogInv'
  <2>1. Prefix(chain, chain')
    BY <1>1, DatabaseFacts, PrefixOrder
  <2>2. Recoverable(Db, config, xdb)'
    BY Zenon, <1>8
  <2> QED
    BY SMTT(60), <1>1, <1>7, <2>1, <2>2, LogWrites DEF RInv
<1> QED
  BY SMTT(60), <1>1, <1>4, <1>5, <1>8, <1>9, NothingInMemory

----------------------------------------------------------------------------
\* The executor starts from the last block whose state is on disk.
LEMMA StartExecutorStep ==
  ASSUME RInv, StartExecutor
  PROVE  RInv'
<1> DEFINE s == LastHeightWithExecutionRootCommitted
<1>1. /\ mode = "booting" /\ mode' = "recovering" /\ start' = s /\ executed' = s
      /\ enqueued' = Len(chain) /\ config' = config /\ chain' = chain /\ head' = head
      /\ disk' = disk /\ xdb' = xdb /\ dirty' = dirty /\ critical' = critical
      /\ pending' = pending /\ dropping' = dropping /\ lastSettled' = lastSettled
      /\ epc' = epc /\ UNCHANGED <<config, diskVars>>
  BY DEF StartExecutor, diskVars, dbVars, mapVars
<1>2. /\ head # None /\ epc = "idle" /\ DOMAIN dirty = {} /\ critical = {} /\ dropping = {}
      /\ pending = NoBlock
  BY <1>1 DEF RInv, DownInv, Live
<1>3. config \in Configs /\ Recoverable(Db, config, xdb)
  BY DEF RInv, Types, LogInv
<1>4. /\ s \in 0 .. head /\ head \in Nat
      /\ Root(chain, s) \in disk
      /\ ~ config.archival =>
           /\ s <= SettledHeight(chain, Len(chain))
           /\ \A h \in 1 .. Len(chain) :
                CommitsUnder(config, h) /\ SettledHeight(chain, h) <= s =>
                  SettledStateRoot(chain, h) \in disk
  BY Zenon, <1>2, <1>3, StartOfRecovery
<1> HIDE DEF s
<1>5. /\ Len(chain) \in Nat /\ head <= Len(chain)
      /\ CommittedUpTo(config, chain, disk, head) /\ ResultsUpTo(xdb, chain, head)
  BY DatabaseFacts
<1>6. /\ s \in Nat /\ s <= Len(chain) /\ s <= s /\ \A h \in 1 .. s : h \in 1 .. head
      /\ \A h \in s .. s : h = s
  BY <1>4, <1>5
<1>7. /\ CommittedUpTo(config, chain, disk, s) /\ ResultsUpTo(xdb, chain, s)
  BY Zenon, <1>5, <1>6 DEF CommittedUpTo, ResultsUpTo
<1>8. Inserted' = s /\ Committed' = s /\ Tracked' = s /\ Stored' = s
  BY <1>1, <1>2, ProgressNext
<1>9. Live' /\ mode' # "running" /\ mode' # "booting"
  BY <1>1 DEF Live
<1>10. Types'
  BY SMTT(60), <1>1, <1>5, <1>6 DEF Types, RInv
<1>11. LogInv'
  BY <1>1, LogFrame DEF RInv
<1>12. DownInv' /\ RunningInv'
  BY Zenon, <1>1, <1>2, <1>9 DEF DownInv, RunningInv
<1>13. ExecutorInv'
  BY Zenon, <1>1, <1>2, <1>4, <1>6, <1>7, <1>8 DEF ExecutorInv
<1>14. CountsInv'
  BY <1>1, <1>2 DEF CountsInv
<1>15. AvailableInv'
  <2>1. Root(chain', s) \in disk' \cup DOMAIN dirty'
    BY <1>1, <1>4
  <2>2. \A h \in start' .. executed' : h = s
    BY <1>1, <1>6
  <2> QED
    BY Zenon, <1>1, <1>2, <1>8, <2>1, <2>2 DEF AvailableInv, Available
<1> QED
  BY <1>10, <1>11, <1>12, <1>13, <1>14, <1>15 DEF RInv

----------------------------------------------------------------------------
\* consensusCriticalBlocks

\* From any block between the settler and the one it settled, `extend` gets to the
\* latter: with Tau > 0, no block settles itself.
LEMMA ExtendIs ==
  ASSUME Ordered(chain), NEW h \in 1 .. Len(chain),
         NEW low \in SettledHeight(chain, h) .. h
  PROVE  Extend(h, low) = SettledHeight(chain, h)
<1> DEFINE s == SettledHeight(chain, h)
           P(x) == /\ x = 0 \/ IsSettledBy(h, x)
                   /\ \A y \in x + 1 .. low : ~ IsSettledBy(h, y)
<1>1. Numeric(chain) /\ Len(chain) \in Nat
  BY OrderedChain
<1>2. s \in 0 .. h - 1 /\ SettledBy(chain, h, s)
  BY <1>1, SettledHeightDef
<1>3. /\ chain[h].time \in Nat /\ Tau \in Nat /\ Tau > 0
      /\ \A x \in 0 .. h : DueAt(chain)[x] \in Nat
      /\ chain[h].time <= DueAt(chain)[h]
  BY <1>1, DueAtNat, HeadersAssumption, RecoveryAssumption DEF Numeric
<1>4. ~ IsSettledBy(h, h)
  BY <1>1, <1>3 DEF IsSettledBy
<1>5. /\ s = 0 \/ IsSettledBy(h, s)
      /\ \A x \in s + 1 .. h - 1 : ~ IsSettledBy(h, x)
  BY SMTT(60), <1>1, <1>2, <1>3 DEF SettledBy, IsSettledBy
<1> HIDE DEF s
<1>6. low \in Nat /\ low <= h /\ s <= low
  BY <1>1, <1>2 DEF s
<1>7. s \in 0 .. low /\ P(s)
  <2>1. \A y \in s + 1 .. low : y \in s + 1 .. h - 1 \/ y = h
    BY <1>1, <1>2, <1>6
  <2> QED
    BY <1>2, <1>4, <1>5, <1>6, <2>1
<1>8. ASSUME NEW x \in 0 .. low, P(x) PROVE x = s
  <2>1. x < s => s \in x + 1 .. low /\ s # 0
    BY <1>6, <1>7
  <2>2. s < x => x \in s + 1 .. low /\ x # 0
    BY <1>6, <1>7
  <2>3. ~ (x < s) /\ ~ (s < x)
    BY <1>7, <1>8, <2>1, <2>2
  <2> QED
    BY <1>7, <2>3
<1>9. Extend(h, low) = CHOOSE x \in 0 .. low : P(x)
  BY DEF Extend
<1> HIDE DEF P
<1> QED
  BY <1>7, <1>8, <1>9 DEF s

RestoredStep(g, n, h) == IF h = 0 THEN 0 ELSE Extend(h, IF h = n THEN h ELSE g[h + 1])

\* The recursion that restores the ancestry, downwards from the last executed block,
\* gives what every header settles.
LEMMA RestoredIs ==
  ASSUME Ordered(chain), executed = Len(chain)
  PROVE  \A h \in 0 .. executed : Restored[h] = SettledHeight(chain, h)
<1> DEFINE n == Len(chain)
           S(h) == SettledHeight(chain, h)
           g == [h \in 0 .. n |-> S(h)]
           R(f) == f = [h \in 0 .. n |-> RestoredStep(f, n, h)]
<1>1. n \in Nat
  BY OrderedChain
<1>2. /\ \A h \in 0 .. n : S(h) \in 0 .. h
      /\ \A h \in 1 .. n : S(h) < h
      /\ \A i \in 0 .. n : \A j \in i .. n : S(i) <= S(j)
  BY SettledHeights
<1>3. ASSUME NEW f, NEW h \in 0 .. n, h < n => f[h + 1] = S(h + 1)
      PROVE  RestoredStep(f, n, h) = S(h)
  <2>1. CASE h = 0
    BY <1>1, <1>2, <2>1 DEF RestoredStep
  <2>2. CASE h # 0
    <3> DEFINE low == IF h = n THEN h ELSE f[h + 1]
    <3>1. h \in 1 .. n
      BY <1>1, <2>2
    <3>2. low \in S(h) .. h
      <4>1. CASE h = n
        BY <1>1, <1>2, <4>1
      <4>2. CASE h # n
        <5>1. h + 1 \in 1 .. n /\ h + 1 \in h .. n /\ h < n
          BY <1>1, <4>2
        <5>2. low = S(h + 1)
          BY <1>3, <4>2, <5>1
        <5>3. S(h + 1) < h + 1 /\ S(h) <= S(h + 1) /\ S(h + 1) \in 0 .. h + 1 /\ S(h) \in 0 .. h
          BY <1>1, <1>2, <5>1
        <5> HIDE DEF S
        <5> QED
          BY <5>2, <5>3
      <4> QED
        BY <4>1, <4>2
    <3>3. RestoredStep(f, n, h) = Extend(h, low)
      BY <2>2 DEF RestoredStep
    <3> HIDE DEF low
    <3> QED
      BY <3>1, <3>2, <3>3, ExtendIs
  <2> QED
    BY <2>1, <2>2
<1>4. R(g)
  <2>1. \A h \in 0 .. n : h < n => g[h + 1] = S(h + 1)
    BY <1>1
  <2>2. \A h \in 0 .. n : RestoredStep(g, n, h) = S(h)
    <3> HIDE DEF g
    <3> QED
      BY <1>3, <2>1
  <2> QED
    BY <2>2
<1>5. Restored = CHOOSE f : R(f)
  BY DEF Restored, RestoredStep
<1>6. R(Restored)
  <2> HIDE DEF R, g
  <2> QED
    BY Zenon, <1>4, <1>5
<1>7. \A h \in 0 .. n : Restored[h] = RestoredStep(Restored, n, h)
  BY <1>6
<1> DEFINE T == {k \in Nat : k <= n => Restored[n - k] = S(n - k)}
<1>8. 0 \in T
  <2>1. n \in 0 .. n /\ n - 0 = n /\ ~ (n < n)
    BY <1>1
  <2>2. RestoredStep(Restored, n, n) = S(n)
    BY <1>3, <2>1
  <2> QED
    BY <1>1, <1>7, <2>1, <2>2
<1>9. ASSUME NEW k \in Nat, k \in T PROVE k + 1 \in T
  <2> SUFFICES ASSUME k + 1 <= n PROVE Restored[n - (k + 1)] = S(n - (k + 1))
    OBVIOUS
  <2> DEFINE h == n - (k + 1)
  <2>1. h \in 0 .. n /\ h + 1 = n - k /\ k <= n
    BY <1>1
  <2>2. Restored[n - k] = S(n - k)
    BY <1>9, <2>1
  <2> HIDE DEF h
  <2>3. Restored[h + 1] = S(h + 1)
    BY <2>1, <2>2
  <2>4. RestoredStep(Restored, n, h) = S(h)
    BY <1>3, <2>1, <2>3
  <2>5. Restored[h] = S(h)
    BY <1>7, <2>1, <2>4
  <2> QED
    BY <2>5 DEF h
<1>10. \A k \in Nat : k \in T
  <2> HIDE DEF T
  <2> QED
    BY <1>8, <1>9, SetInduction
<1> QED
  <2> SUFFICES ASSUME NEW h \in 0 .. n PROVE Restored[h] = S(h)
    OBVIOUS
  <2>1. n - h \in Nat /\ n - h <= n /\ n - (n - h) = h
    BY <1>1
  <2>2. Restored[n - (n - h)] = S(n - (n - h))
    BY <1>10, <2>1
  <2> QED
    BY <2>1, <2>2

----------------------------------------------------------------------------
\* The end of recovery: the map has what the chain demands, and the states that it does
\* not hold are untracked.
LEMMA FinishRecoveryStep ==
  ASSUME RInv, FinishRecovery
  PROVE  RInv'
<1> DEFINE n == Len(chain)
           L == SettledHeight(chain, n)
           m == L .. n
           calls == [r \in DOMAIN dirty |-> Executions(chain, NotKept, r)]
           Kept == {h \in start + 1 .. n : h >= L}
           untracked == UntrackAll(dirty, calls)
\* The control state.
<1>1. /\ mode = "recovering" /\ executed = enqueued /\ mode' = "running"
      /\ config' = config /\ chain' = chain /\ head' = head /\ disk' = disk /\ xdb' = xdb
      /\ pending' = pending /\ dropping' = dropping /\ start' = start
      /\ enqueued' = enqueued /\ executed' = executed /\ epc' = epc
      /\ UNCHANGED <<config, diskVars>>
  BY DEF FinishRecovery, diskVars, dbVars
<1>2. Live /\ Live'
  BY <1>1 DEF Live
<1>3. /\ executed = n /\ n \in Nat /\ start \in 0 .. n /\ epc = "idle"
      /\ \A h \in Nat : Root(chain, h) \in Nat
      /\ \A i, j \in Nat : i <= j => Root(chain, i) <= Root(chain, j)
  <2>1. /\ executed = n /\ n \in Nat /\ start \in 0 .. n
        /\ \A h \in Nat : Root(chain, h) \in Nat
        /\ \A i, j \in Nat : i <= j => Root(chain, i) <= Root(chain, j)
    BY <1>1, <1>2, LiveFacts
  <2>2. epc # "idle" => executed < enqueued
    BY <1>2 DEF RInv, ExecutorInv
  <2> QED
    BY <1>1, <2>1, <2>2
<1>4. Ordered(chain) /\ config.archival \in BOOLEAN /\ 0 \in disk
  BY DatabaseFacts
<1>5. L \in 0 .. n
  <2>1. n \in 0 .. n
    BY <1>3
  <2> QED
    BY <1>4, <2>1, SettledHeights
<1>5a. n \in Nat /\ start \in Nat /\ start <= n /\ L \in Nat /\ L <= n
  BY <1>3, <1>5
<1>6. dropping = {} /\ pending = NoBlock /\ DOMAIN dirty \subseteq Nat
      /\ dirty \in [DOMAIN dirty -> Nat] /\ start \in Nat /\ enqueued \in Nat
      /\ config \in Configs
  BY <1>1 DEF RInv, DownInv, Types
<1>7. \A h \in 0 .. n : Restored[h] = SettledHeight(chain, h)
  BY <1>3, <1>4, RestoredIs
<1>8. Restored[executed] = L
  BY <1>3, <1>7
<1>9. /\ dirty' = TrackAll(untracked, [r \in DOMAIN untracked |-> Settlements(chain, m, r)])
      /\ critical' = m
      /\ lastSettled' = L
      /\ settledBy' = [h \in m \ {L} |-> Restored[h]]
  BY SMTT(60), <1>1, <1>3, <1>8 DEF FinishRecovery
<1>10. settledBy' = [h \in L + 1 .. n |-> SettledHeight(chain, h)]
  <2>1. m \ {L} = L + 1 .. n
    <3>1. \A h : h \in L .. n /\ h # L <=> h \in L + 1 .. n
      BY <1>5a
    <3> QED
      BY Zenon, <3>1
  <2>2. \A h \in L + 1 .. n : Restored[h] = SettledHeight(chain, h)
    BY <1>3, <1>5, <1>7
  <2> HIDE DEF L, m
  <2> QED
    BY <1>9, <2>1, <2>2
\* The counts: what is left are the executions of the blocks in the map.
<1>11. /\ IsFiniteSet(NotKept) /\ IsFiniteSet(Kept) /\ IsFiniteSet(m)
       /\ NotKept \cap Kept = {} /\ NotKept \cup Kept = start + 1 .. n
  <2>1. NotKept = {h \in start + 1 .. n : h < L}
    BY <1>1, <1>3 DEF NotKept
  <2>2. IsFiniteSet(start + 1 .. n) /\ IsFiniteSet(m)
    BY <1>3, <1>5, FS_Interval
  <2>3. NotKept \in SUBSET (start + 1 .. n) /\ Kept \in SUBSET (start + 1 .. n)
    BY <2>1
  <2>4. IsFiniteSet(NotKept) /\ IsFiniteSet(Kept)
    BY Zenon, <2>2, <2>3, FS_Subset
  <2>5. NotKept \cap Kept = {} /\ NotKept \cup Kept = start + 1 .. n
    <3>1. \A h \in start + 1 .. n : h < L <=> ~ (h >= L)
      BY <1>5a
    <3> QED
      BY Zenon, <2>1, <3>1
  <2> QED
    BY <2>2, <2>4, <2>5
<1> HIDE DEF L, m, Kept
<1>12. ASSUME NEW r \in DOMAIN dirty
       PROVE  /\ Root(chain, start) < r /\ r <= Root(chain, n) /\ dirty[r] \in Nat \ {0}
              /\ Executions(chain, NotKept, r) \in Nat /\ Executions(chain, Kept, r) \in Nat
              /\ dirty[r] = Executions(chain, NotKept, r) + Executions(chain, Kept, r)
  <2>1. Inserted = n /\ Tracked = n
    BY <1>3, Progress
  <2>2. /\ Root(chain, start) < r /\ r <= Root(chain, n)
        /\ dirty[r] = Executions(chain, start + 1 .. n, r)
        /\ dirty[r] # 0
    BY ZenonT(60), <1>1, <1>2, <1>3, <2>1 DEF RInv, CountsInv
  <2>3. Executions(chain, NotKept \cup Kept, r)
          = Executions(chain, NotKept, r) + Executions(chain, Kept, r)
    BY <1>11, CountsAdd
  <2>4. Executions(chain, NotKept, r) \in Nat /\ Executions(chain, Kept, r) \in Nat
    BY <1>11, CountsAreNumbers
  <2>5. dirty[r] \in Nat \ {0}
    BY <1>6, <2>2
  <2> QED
    BY Zenon, <1>11, <2>2, <2>3, <2>4, <2>5
<1>13. ASSUME NEW r \in DOMAIN dirty
       PROVE  Executions(chain, m, r) = Executions(chain, Kept, r)
  <2> DEFINE old == {h \in m : h <= start}
  <2>1. m = old \cup Kept /\ old \cap Kept = {}
    <3>1. \A h \in L .. n : h <= start <=> ~ (h \in start + 1 .. n /\ h >= L)
      BY <1>5a
    <3>2. \A h : h \in start + 1 .. n /\ h >= L => h \in L .. n
      BY <1>5a
    <3> QED
      BY Zenon, <3>1, <3>2 DEF m, Kept
  <2>2. old \in SUBSET m
    OBVIOUS
  <2>3. \A h \in old : h \in Nat /\ h <= start
    BY <1>3, <1>5 DEF m
  <2> HIDE DEF old
  <2>4. IsFiniteSet(old)
    BY <1>11, <2>2, FS_Subset
  <2>5. \A h \in old : Root(chain, h) # r
    BY <1>3, <1>6, <1>12, <2>3
  <2>6. Executions(chain, old, r) = 0
    BY <2>4, <2>5, CountsAreNumbers
  <2>7. Executions(chain, m, r) = Executions(chain, old, r) + Executions(chain, Kept, r)
    BY <1>11, <2>1, <2>4, CountsAdd
  <2>8. Executions(chain, Kept, r) \in Nat
    BY <1>12
  <2> QED
    BY <2>6, <2>7, <2>8
<1>14. /\ DOMAIN dirty' = {r \in DOMAIN dirty : Executions(chain, Kept, r) # 0}
       /\ \A r \in DOMAIN dirty' :
            dirty'[r] = Executions(chain, Kept, r) + Settlements(chain, m, r)
  <2> DEFINE D == {r \in DOMAIN dirty : calls[r] = 0 \/ calls[r] < dirty[r]}
  <2>1. untracked = [r \in D |-> dirty[r] - calls[r]]
    BY DEF UntrackAll
  <2>2. \A r \in DOMAIN dirty : calls[r] = Executions(chain, NotKept, r)
    OBVIOUS
  <2> HIDE DEF calls
  <2>3. \A r \in DOMAIN dirty :
          /\ dirty[r] - calls[r] = Executions(chain, Kept, r)
          /\ (calls[r] = 0 \/ calls[r] < dirty[r]) <=> Executions(chain, Kept, r) # 0
    BY <1>12, <2>2
  <2>4. D = {r \in DOMAIN dirty : Executions(chain, Kept, r) # 0}
    BY Zenon, <2>3
  <2> HIDE DEF untracked
  <2>5. DOMAIN untracked = D /\ \A r \in D : untracked[r] = dirty[r] - calls[r]
    BY <2>1
  <2>6. /\ DOMAIN dirty' = D
        /\ \A r \in D : dirty'[r] = untracked[r] + Settlements(chain, m, r)
    BY <1>9, <2>5 DEF TrackAll
  <2> QED
    BY Zenon, <2>3, <2>4, <2>5, <2>6
<1>15. ASSUME NEW r \in DOMAIN dirty'
       PROVE  /\ r \in DOMAIN dirty /\ dirty'[r] \in Nat /\ dirty'[r] # 0
              /\ dirty'[r] = Settlements(chain, m, r) + Executions(chain, m, r)
  <2>1. r \in DOMAIN dirty /\ Executions(chain, Kept, r) # 0
        /\ dirty'[r] = Executions(chain, Kept, r) + Settlements(chain, m, r)
    BY Zenon, <1>14
  <2>2. Settlements(chain, m, r) \in Nat
    BY <1>11, CountsAreNumbers
  <2> QED
    BY <1>12, <1>13, <2>1, <2>2
<1>16. DOMAIN dirty' \subseteq Nat /\ dirty' \in [DOMAIN dirty' -> Nat]
  <2>1. dirty' = [r \in DOMAIN untracked |->
                    untracked[r] + [x \in DOMAIN untracked |-> Settlements(chain, m, x)][r]]
    BY <1>9 DEF TrackAll
  <2> HIDE DEF untracked
  <2>2. dirty' = [r \in DOMAIN dirty' |-> dirty'[r]]
    BY <2>1
  <2> QED
    BY <1>6, <1>15, <2>2
<1>17. critical' \subseteq Nat /\ executed' \in Nat /\ lastSettled' \in Nat
  BY SMTT(60), <1>1, <1>3, <1>5, <1>9 DEF m
<1>18. Types'
  BY SMTT(60), <1>1, <1>6, <1>9, <1>16, <1>17 DEF Types, RInv
<1>19. LogInv'
  BY <1>1, LogFrame DEF RInv
<1>20. DownInv'
  BY <1>1, <1>2 DEF DownInv
<1>21. Inserted' = n /\ Committed' = Committed /\ Tracked' = n /\ Stored' = Stored
  BY SMTT(60), <1>1, <1>3, Progress, ProgressNext
<1>22. ExecutorInv'
  BY Zenon, <1>1, <1>2, <1>21 DEF ExecutorInv, RInv
<1>23. RunningInv'
  <2>1. L <= executed
    BY <1>3, <1>5
  <2>2. critical' = dropping' \cup lastSettled' .. Len(chain')
        /\ dropping' \cap lastSettled' .. Len(chain') = {} /\ \A h \in dropping' : h < lastSettled'
    BY <1>1, <1>6, <1>9 DEF m
  <2> QED
    BY Zenon, <1>1, <1>6, <1>9, <1>10, <2>1, <2>2 DEF RunningInv, L
<1>24. ASSUME NEW r \in DOMAIN dirty' PROVE dirty'[r] = References(r)'
  <2>1. References(r)' = Holders(chain, m, n, pending, r)
    BY SMTT(60), <1>1, <1>9, <1>17, <1>21, ReferencesAre
  <2>2. {h \in m : h <= n} = m
    BY <1>3, <1>5 DEF m
  <2>3. PendingOn(chain, pending, r) = 0
    BY <1>6 DEF PendingOn
  <2>4. Settlements(chain, m, r) \in Nat /\ Executions(chain, m, r) \in Nat
    BY <1>11, CountsAreNumbers
  <2>5. Holders(chain, m, n, pending, r) = Settlements(chain, m, r) + Executions(chain, m, r)
    <3>1. Holders(chain, m, n, pending, r)
            = Settlements(chain, m, r) + Executions(chain, m, r) + PendingOn(chain, pending, r)
      BY Zenon, <2>2 DEF Holders
    <3> QED
      BY <2>3, <2>4, <3>1
  <2> QED
    BY Zenon, <1>15, <2>1, <2>5
<1>25. CountsInv'
  <2>1. \A r \in DOMAIN dirty' : Root(chain, start) < r /\ r <= Root(chain, n)
    BY Zenon, <1>12, <1>15
  <2> QED
    BY Zenon, <1>1, <1>15, <1>21, <1>24, <2>1 DEF CountsInv
\* A state that is no longer in memory is none that the map needs.
<1>26. ASSUME NEW h \in m PROVE Root(chain, h) \in disk' \cup DOMAIN dirty'
  <2>1. h \in Nat /\ h <= n
    BY <1>3, <1>5 DEF m
  <2>2. CASE h < start
    <3>1. config.archival
      <4>1. ~ config.archival => start <= L
        BY <1>2 DEF RInv, ExecutorInv, L
      <4>2. ~ (start <= L)
        BY SMTT(60), <1>3, <1>5, <2>1, <2>2 DEF m
      <4> QED
        BY SMTT(60), <1>4, <4>1, <4>2
    <3>2. CASE h = 0
      BY <1>1, <1>4, <3>2, Roots
    <3>3. CASE h # 0
      <4>1. Committed = n /\ h \in 1 .. n
        BY SMTT(60), <1>3, <2>1, <3>3, Progress
      <4>2. CommittedUpTo(config, chain, disk, n)
        BY SMTT(60), <1>2, <4>1 DEF RInv, ExecutorInv
      <4> QED
        BY <1>1, <3>1, <4>1, <4>2 DEF CommittedUpTo, CommitsUnder, CommittedRoot
    <3> QED
      BY <3>2, <3>3
  <2>3. CASE ~ (h < start)
    <3>1. h \in start .. executed
      BY SMTT(60), <1>3, <2>1, <2>3
    <3>2. Root(chain, h) \in disk \cup DOMAIN dirty
      BY SMTT(60), <1>1, <3>1 DEF RInv, AvailableInv, Available
    <3>3. ASSUME Root(chain, h) \in DOMAIN dirty PROVE Root(chain, h) \in DOMAIN dirty'
      <4>1. Root(chain, start) < Root(chain, h)
        BY <1>12, <3>3
      <4>2. h # start
        BY <1>3, <4>1
      <4>3. h \in Kept
        BY SMTT(60), <1>3, <1>5, <2>1, <2>3, <4>2 DEF m, Kept
      <4>4. Executions(chain, Kept, Root(chain, h)) # 0
        BY <1>11, <4>3, CountsAreNumbers
      <4> QED
        BY <1>14, <3>3, <4>4
    <3> QED
      BY <1>1, <3>2, <3>3
  <2> QED
    BY <2>2, <2>3
<1>27. AvailableInv'
  <2>1. n \in m /\ \A h \in m : ~ (h > executed)
    BY <1>3, <1>5 DEF m
  <2> QED
    BY Zenon, <1>1, <1>6, <1>9, <1>21, <1>26, <2>1 DEF AvailableInv, Available
<1> QED
  BY SMTT(60), <1>18, <1>19, <1>20, <1>22, <1>23, <1>25, <1>27 DEF RInv

----------------------------------------------------------------------------
\* Consensus

\* The executor is at most one block ahead of what it has executed.
LEMMA AheadOfExecuted ==
  ASSUME RInv, Live
  PROVE  /\ Inserted \in executed .. Len(chain) /\ Committed \in executed .. Len(chain)
         /\ Tracked \in executed .. Len(chain) /\ Stored \in executed .. Len(chain)
         /\ Inserted = executed \/ (Inserted = block /\ epc # "idle")
         /\ Inserted = Tracked \/ Tracked = executed
<1>1. /\ Len(chain) \in Nat /\ executed \in 0 .. Len(chain) /\ block = executed + 1
      /\ epc # "idle" => block \in 1 .. Len(chain)
  BY LiveFacts
<1>2. /\ executed \in executed .. Len(chain)
      /\ epc # "idle" => block \in executed .. Len(chain)
  BY <1>1
<1>3. /\ Inserted = executed \/ (Inserted = block /\ epc # "idle")
      /\ Committed = executed \/ (Committed = block /\ epc # "idle")
      /\ Tracked = executed \/ (Tracked = block /\ epc # "idle")
      /\ Stored = executed \/ (Stored = block /\ epc # "idle")
      /\ Inserted = Tracked \/ Tracked = executed
  BY DEF Inserted, Committed, Tracked, Stored, Upto
<1> QED
  BY Zenon, <1>2, <1>3

\* A state without a holder is none that somebody may open.
LEMMA Unreferenced ==
  ASSUME RInv, mode = "running", NEW K \in SUBSET critical, executed \in K, NEW p,
         NEW r \in Nat, r <= Root(chain, executed), Holders(chain, K, Tracked, p, r) = 0
  PROVE  /\ \A h \in K : h <= executed => Root(chain, h) # r
         /\ \A h \in K : SettledStateRoot(chain, h) # r
         /\ Root(chain, Inserted) # r
         /\ p # NoBlock => SettledStateRoot(Append(chain, p), Len(Append(chain, p))) # r
<1> DEFINE E == {h \in K : h <= Tracked}
<1>1. Live /\ IsFiniteSet(critical) /\ critical \in SUBSET (0 .. Len(chain))
  BY RunningFacts
<1>2. /\ Len(chain) \in Nat /\ executed \in 0 .. Len(chain)
      /\ \A h \in Nat : Root(chain, h) \in Nat
      /\ \A i, j \in Nat : i <= j => Root(chain, i) <= Root(chain, j)
  BY <1>1, LiveFacts
<1>3. /\ Inserted \in executed .. Len(chain) /\ Tracked \in executed .. Len(chain)
      /\ Inserted = Tracked \/ Tracked = executed
      /\ Inserted = executed \/ (Inserted = block /\ epc # "idle")
  BY <1>1, AheadOfExecuted
<1>4. IsFiniteSet(K) /\ IsFiniteSet(E)
  <2>1. E \in SUBSET K
    OBVIOUS
  <2> QED
    BY Zenon, <1>1, <2>1, FS_Subset
<1>5. /\ Settlements(chain, K, r) \in Nat /\ Executions(chain, E, r) \in Nat
      /\ PendingOn(chain, p, r) \in Nat
  BY <1>4, CountsAreNumbers DEF PendingOn
<1>6. Settlements(chain, K, r) + Executions(chain, E, r) + PendingOn(chain, p, r) = 0
  BY DEF Holders
<1> HIDE DEF E
<1>7. Settlements(chain, K, r) = 0 /\ Executions(chain, E, r) = 0 /\ PendingOn(chain, p, r) = 0
  BY <1>5, <1>6
<1>8. \A h \in K : SettledStateRoot(chain, h) # r
  BY <1>4, <1>7, CountsAreNumbers
<1>9. \A h \in E : Root(chain, h) # r
  BY <1>4, <1>7, CountsAreNumbers
<1>10. \A h \in K : h <= executed => Root(chain, h) # r
  <2>1. \A h \in K : h <= executed => h <= Tracked
    BY <1>1, <1>2, <1>3
  <2> QED
    BY <1>9, <2>1 DEF E
<1>11. Root(chain, Inserted) # r
  <2>1. executed <= executed
    BY <1>2
  <2>2. Root(chain, executed) # r
    BY <1>10, <2>1
  <2>3. Root(chain, executed) \in Nat /\ Root(chain, Inserted) \in Nat
        /\ Root(chain, executed) <= Root(chain, Inserted)
    <3>1. executed \in Nat /\ Inserted \in Nat /\ executed <= Inserted
      BY <1>2, <1>3
    <3> QED
      BY SMTT(60), <1>2, <3>1
  <2> QED
    BY <2>2, <2>3
<1>12. p # NoBlock => SettledStateRoot(Append(chain, p), Len(Append(chain, p))) # r
  BY <1>7 DEF PendingOn
<1> QED
  BY <1>8, <1>10, <1>11, <1>12

\* Some holders go, and untrack what they held.
LEMMA UntrackStep ==
  ASSUME RInv, mode = "running", UNCHANGED <<chain, mode, disk, start, executed, epc>>,
         critical' \in SUBSET critical, executed \in critical',
         pending' \in {pending, NoBlock},
         NEW calls \in [DOMAIN dirty -> Nat], dirty' = UntrackAll(dirty, calls),
         \A r \in DOMAIN dirty :
           /\ References(r) = Holders(chain, critical', Tracked, pending', r) + calls[r]
           /\ calls[r] # 0 => r <= Root(chain, executed)
  PROVE  /\ CountsInv' /\ AvailableInv'
         /\ DOMAIN dirty' \subseteq DOMAIN dirty /\ dirty' \in [DOMAIN dirty' -> Nat]
<1> DEFINE H(r) == Holders(chain, critical', Tracked, pending', r)
<1>1. Live /\ IsFiniteSet(critical) /\ critical \in SUBSET (0 .. Len(chain))
  BY RunningFacts
<1>2. DOMAIN dirty \subseteq Nat /\ dirty \in [DOMAIN dirty -> Nat] /\ critical \subseteq Nat
      /\ executed \in Nat
  BY DEF RInv, Types
<1>3. ASSUME NEW r \in DOMAIN dirty
      PROVE  /\ dirty[r] \in Nat /\ calls[r] \in Nat /\ r \in Nat
             /\ H(r) \in Nat /\ dirty[r] = H(r) + calls[r]
             /\ Root(chain, start) < r /\ r <= Root(chain, Inserted)
             /\ dirty[r] = 0 => epc \in {"commit", "track"} /\ r = Root(chain, block)
  <2>1. /\ dirty[r] = References(r)
        /\ Root(chain, start) < r /\ r <= Root(chain, Inserted)
        /\ dirty[r] = 0 => epc \in {"commit", "track"} /\ r = Root(chain, block)
    BY Zenon, <1>1 DEF RInv, CountsInv
  <2>2. H(r) \in Nat
    <3> DEFINE E == {h \in critical' : h <= Tracked}
    <3>1. E \in SUBSET critical'
      OBVIOUS
    <3> HIDE DEF E
    <3>2. IsFiniteSet(critical') /\ IsFiniteSet(E)
      BY ZenonT(60), <1>1, <3>1, FS_Subset
    <3>3. Settlements(chain, critical', r) \in Nat /\ Executions(chain, E, r) \in Nat
      BY <3>2, CountsAreNumbers
    <3>4. PendingOn(chain, pending', r) \in Nat
      BY DEF PendingOn
    <3> QED
      BY <3>3, <3>4 DEF Holders, E
  <2>3. dirty[r] \in Nat /\ calls[r] \in Nat /\ r \in Nat
    BY <1>2
  <2>4. dirty[r] = H(r) + calls[r]
    BY <2>1
  <2> QED
    BY Zenon, <2>1, <2>2, <2>3, <2>4
<1> HIDE DEF H
<1>4. /\ DOMAIN dirty' = {r \in DOMAIN dirty : calls[r] = 0 \/ calls[r] < dirty[r]}
      /\ \A r \in DOMAIN dirty' : dirty'[r] = dirty[r] - calls[r]
      /\ dirty' = [r \in DOMAIN dirty' |-> dirty'[r]]
  BY DEF UntrackAll
<1>5. ASSUME NEW r \in DOMAIN dirty'
      PROVE  /\ r \in DOMAIN dirty /\ dirty'[r] = H(r) /\ dirty'[r] \in Nat
             /\ dirty'[r] = 0 => dirty[r] = 0
  <2>1. r \in DOMAIN dirty /\ (calls[r] = 0 \/ calls[r] < dirty[r])
        /\ dirty'[r] = dirty[r] - calls[r]
    BY <1>4
  <2> QED
    BY <1>3, <2>1
<1>6. DOMAIN dirty' \subseteq DOMAIN dirty /\ dirty' \in [DOMAIN dirty' -> Nat]
  BY <1>4, <1>5
<1>7. /\ Inserted' = Inserted /\ Tracked' = Tracked /\ block' = block
  BY DEF Inserted, Tracked, Upto, block
<1>8. \A r : References(r)' = H(r)
  <2>1. critical' \subseteq Nat /\ executed' \in Nat
    BY <1>2
  <2> QED
    BY <1>7, <2>1, ReferencesAre DEF H
<1>9. CountsInv'
  <2>1. mode' = "running" /\ mode' # "recovering" /\ chain' = chain /\ start' = start /\ epc' = epc
    OBVIOUS
  <2> QED
    BY Zenon, <1>3, <1>5, <1>7, <1>8, <2>1 DEF CountsInv
<1>10. ASSUME NEW r \in DOMAIN dirty, r \notin DOMAIN dirty'
       PROVE  /\ \A h \in critical' : h <= executed => Root(chain, h) # r
              /\ \A h \in critical' : SettledStateRoot(chain, h) # r
              /\ Root(chain, Inserted) # r
              /\ pending' # NoBlock =>
                   SettledStateRoot(Append(chain, pending'), Len(Append(chain, pending'))) # r
  <2>1. calls[r] # 0 /\ ~ (calls[r] < dirty[r])
    BY SMTT(60), <1>4, <1>10
  <2>2. H(r) = 0 /\ r \in Nat
    BY <1>3, <2>1
  <2>3. r <= Root(chain, executed)
    BY <2>1
  <2> QED
    BY <2>2, <2>3, Unreferenced DEF H
<1>11. AvailableInv'
  <2>1. mode' = "running" /\ mode' # "recovering" /\ chain' = chain /\ executed' = executed
        /\ disk' = disk
    OBVIOUS
  <2>2. ASSUME NEW r, Available(r), r \in DOMAIN dirty => r \in DOMAIN dirty'
        PROVE  r \in disk' \cup DOMAIN dirty'
    BY SMTT(60), <2>1, <2>2 DEF Available
  <2>3. \A h \in critical' : h <= executed => Root(chain, h) \in disk' \cup DOMAIN dirty'
    BY SMTT(60), <1>10, <2>2 DEF RInv, AvailableInv
  <2>4. \A h \in critical' : h > executed => SettledStateRoot(chain, h) \in disk' \cup DOMAIN dirty'
    BY SMTT(60), <1>10, <2>2 DEF RInv, AvailableInv
  <2>5. Root(chain, Inserted) \in disk' \cup DOMAIN dirty'
    BY SMTT(60), <1>1, <1>10, <2>2 DEF RInv, AvailableInv
  <2>6. pending' # NoBlock => SettledStateRoot(Tip', Len(Tip')) \in disk' \cup DOMAIN dirty'
    <3> SUFFICES ASSUME pending' # NoBlock
                 PROVE  SettledStateRoot(Tip', Len(Tip')) \in disk' \cup DOMAIN dirty'
      OBVIOUS
    <3>1. pending' = pending
      OBVIOUS
    <3>2. Tip' = Append(chain, pending') /\ Tip' = Tip
      BY SMTT(60), <2>1, <3>1 DEF Tip
    <3>3. Available(SettledStateRoot(Tip, Len(Tip)))
      BY <3>1 DEF RInv, AvailableInv
    <3> QED
      BY SMTT(60), <1>10, <2>2, <3>2, <3>3
  <2> QED
    BY ZenonT(60), <1>7, <2>1, <2>3, <2>4, <2>5, <2>6 DEF AvailableInv, Available
<1> QED
  BY <1>6, <1>9, <1>11

----------------------------------------------------------------------------
\* A rejected block gives back the reference to the state that it would have settled.
LEMMA RejectBlockStep ==
  ASSUME RInv, RejectBlock
  PROVE  RInv'
<1> DEFINE q == SettledStateRoot(Tip, Len(Tip))
           once == [r \in DOMAIN dirty |-> IF r = q THEN 1 ELSE 0]
<1>1. /\ mode = "running" /\ pending # NoBlock /\ pending' = NoBlock
      /\ dirty' = Untrack(dirty, q)
      /\ config' = config /\ chain' = chain /\ head' = head /\ disk' = disk /\ xdb' = xdb
      /\ mode' = mode /\ critical' = critical /\ settledBy' = settledBy
      /\ lastSettled' = lastSettled /\ dropping' = dropping /\ start' = start
      /\ enqueued' = enqueued /\ executed' = executed /\ epc' = epc
      /\ UNCHANGED <<config, diskVars>>
  BY DEF RejectBlock, diskVars, dbVars
<1>2. /\ Live /\ Live' /\ IsFiniteSet(critical) /\ executed \in critical
  BY <1>1, RunningFacts DEF Live
<1>3. DOMAIN dirty \subseteq Nat /\ dirty \in [DOMAIN dirty -> Nat] /\ critical \subseteq Nat
      /\ executed \in Nat
  BY DEF RInv, Types
<1>4. once \in [DOMAIN dirty -> Nat] /\ dirty' = UntrackAll(dirty, once)
  BY <1>1, <1>3, OneCall DEF IsDirty
<1>5. q \in Nat /\ q <= Root(chain, executed)
  BY <1>1, PendingFacts
<1>6. ASSUME NEW r \in DOMAIN dirty
      PROVE  /\ References(r) = Holders(chain, critical, Tracked, NoBlock, r) + once[r]
             /\ once[r] # 0 => r <= Root(chain, executed)
  <2> DEFINE E == {h \in critical : h <= Tracked}
  <2>1. once[r] = IF r = q THEN 1 ELSE 0
    OBVIOUS
  <2>2. PendingOn(chain, NoBlock, r) = 0 /\ PendingOn(chain, pending, r) = once[r]
    BY <1>1, <2>1 DEF PendingOn, Tip
  <2> HIDE DEF once
  <2>3. References(r) = Holders(chain, critical, Tracked, pending, r)
    BY <1>3, ReferencesAre
  <2>4. E \in SUBSET critical
    OBVIOUS
  <2> HIDE DEF E
  <2>5. IsFiniteSet(E)
    BY SMTT(60), <1>2, <2>4, FS_Subset
  <2>6. Settlements(chain, critical, r) \in Nat /\ Executions(chain, E, r) \in Nat
    BY <1>2, <2>5, CountsAreNumbers
  <2>7. /\ Holders(chain, critical, Tracked, pending, r)
             = Settlements(chain, critical, r) + Executions(chain, E, r) + once[r]
        /\ Holders(chain, critical, Tracked, NoBlock, r)
             = Settlements(chain, critical, r) + Executions(chain, E, r) + 0
    BY Zenon, <2>2 DEF Holders, E
  <2> QED
    BY SMTT(60), <1>5, <2>1, <2>3, <2>6, <2>7
<1> HIDE DEF once, q
<1>7. /\ CountsInv' /\ AvailableInv'
      /\ DOMAIN dirty' \subseteq DOMAIN dirty /\ dirty' \in [DOMAIN dirty' -> Nat]
  BY SMTT(60), <1>1, <1>2, <1>4, <1>6, UntrackStep
<1>8. Types'
  BY SMTT(60), <1>1, <1>3, <1>7 DEF RInv, Types
<1>9. LogInv'
  BY <1>1, LogFrame DEF RInv
<1>10. DownInv'
  BY <1>1, <1>2 DEF DownInv
<1>11. Committed' = Committed /\ Stored' = Stored
  BY <1>1 DEF Committed, Stored, Upto, block
<1>12. ExecutorInv'
  BY ZenonT(60), <1>1, <1>2, <1>11 DEF ExecutorInv, RInv
<1>13. RunningInv'
  BY ZenonT(60), <1>1 DEF RunningInv, RInv
<1> QED
  BY SMTT(60), <1>7, <1>8, <1>9, <1>10, <1>12, <1>13 DEF RInv

\* A block that leaves the map gives back its references, and no other block's.
LEMMA EvictStep ==
  ASSUME RInv, Evict
  PROVE  RInv'
<1> DEFINE K == lastSettled .. Len(chain)
           calls == [r \in DOMAIN dirty |-> OnDelete(dropping, r)]
<1>1. /\ mode = "running" /\ dropping # {} /\ dropping' = {}
      /\ dirty' = UntrackAll(dirty, calls)
      /\ critical' = critical \ dropping
      /\ config' = config /\ chain' = chain /\ head' = head /\ disk' = disk /\ xdb' = xdb
      /\ mode' = mode /\ pending' = pending /\ settledBy' = settledBy
      /\ lastSettled' = lastSettled /\ start' = start
      /\ enqueued' = enqueued /\ executed' = executed /\ epc' = epc
      /\ UNCHANGED <<config, diskVars>>
  BY DEF Evict, diskVars, dbVars
<1>2. /\ Live /\ Live' /\ IsFiniteSet(critical) /\ critical \in SUBSET (0 .. Len(chain))
      /\ lastSettled \in 0 .. executed
      /\ \A h \in 0 .. Len(chain) : SettledStateRoot(chain, h) <= Root(chain, executed)
                                    /\ SettledStateRoot(chain, h) \in Nat
  BY <1>1, RunningFacts DEF Live
<1>3. DOMAIN dirty \subseteq Nat /\ dirty \in [DOMAIN dirty -> Nat] /\ critical \subseteq Nat
      /\ executed \in Nat /\ lastSettled \in Nat /\ dropping \subseteq Nat
  BY DEF RInv, Types
<1>4. /\ Len(chain) \in Nat /\ executed \in 0 .. Len(chain)
      /\ \A h \in Nat : Root(chain, h) \in Nat
      /\ \A i, j \in Nat : i <= j => Root(chain, i) <= Root(chain, j)
  BY <1>2, LiveFacts
<1>5. /\ critical = dropping \cup K /\ dropping \cap K = {}
      /\ \A h \in dropping : h < lastSettled
      /\ pending = NoBlock
  <2>1. pending # NoBlock => dropping = {}
    BY PendingFacts
  <2> QED
    BY Zenon, <1>1, <2>1 DEF RInv, RunningInv
<1>6. critical' = K /\ executed \in K /\ K \in SUBSET critical /\ dropping \in SUBSET critical
  <2>1. executed \in K
    BY <1>2, <1>4
  <2> HIDE DEF K
  <2> QED
    BY <1>1, <1>5, <2>1
<1>7. Tracked \in executed .. Len(chain)
  BY <1>2, AheadOfExecuted
<1>8. ASSUME NEW h \in dropping
      PROVE  h <= executed /\ h <= Tracked /\ h \in 0 .. Len(chain)
  <2>1. h \in Nat /\ h < lastSettled
    BY <1>3, <1>5
  <2>2. lastSettled \in Nat /\ executed \in Nat /\ Tracked \in Nat /\ Len(chain) \in Nat
        /\ lastSettled <= executed /\ executed <= Tracked /\ Tracked <= Len(chain)
    BY <1>2, <1>4, <1>7
  <2> QED
    BY <2>1, <2>2
<1>9. /\ {h \in dropping : h <= executed} = dropping
      /\ {h \in critical : h <= Tracked} = {h \in K : h <= Tracked} \cup dropping
  <2> HIDE DEF K
  <2> QED
    BY ZenonT(60), <1>5, <1>8
<1> HIDE DEF K
<1>10. ASSUME NEW r \in DOMAIN dirty
       PROVE  /\ calls[r] \in Nat
              /\ References(r) = Holders(chain, K, Tracked, NoBlock, r) + calls[r]
              /\ calls[r] # 0 => r <= Root(chain, executed)
  <2> DEFINE E == {h \in K : h <= Tracked}
  <2>1. E \in SUBSET K /\ E \cap dropping = {}
    BY <1>5
  <2>2. {h \in critical : h <= Tracked} = E \cup dropping
    BY <1>9
  <2>3. Holders(chain, K, Tracked, NoBlock, r)
          = Settlements(chain, K, r) + Executions(chain, E, r) + PendingOn(chain, NoBlock, r)
    BY DEF Holders
  <2> HIDE DEF E
  <2>4. IsFiniteSet(K) /\ IsFiniteSet(dropping)
    BY Zenon, <1>2, <1>6, FS_Subset
  <2>5. IsFiniteSet(E)
    BY SMTT(60), <2>1, <2>4, FS_Subset
  <2>6. /\ Settlements(chain, K, r) \in Nat /\ Settlements(chain, dropping, r) \in Nat
        /\ Executions(chain, E, r) \in Nat /\ Executions(chain, dropping, r) \in Nat
        /\ Settlements(chain, dropping, r) = 0 <=> \A h \in dropping : SettledStateRoot(chain, h) # r
        /\ Executions(chain, dropping, r) = 0 <=> \A h \in dropping : Root(chain, h) # r
    BY <2>4, <2>5, CountsAreNumbers
  <2>7. Settlements(chain, critical, r) = Settlements(chain, dropping, r) + Settlements(chain, K, r)
    BY <1>5, <2>4, CountsAdd
  <2>8. Executions(chain, E \cup dropping, r) = Executions(chain, E, r) + Executions(chain, dropping, r)
    BY <2>1, <2>4, <2>5, CountsAdd
  <2>9. References(r) = Holders(chain, critical, Tracked, NoBlock, r)
    BY <1>3, <1>5, ReferencesAre
  <2>10. Holders(chain, critical, Tracked, NoBlock, r)
          = Settlements(chain, critical, r) + Executions(chain, E \cup dropping, r)
              + PendingOn(chain, NoBlock, r)
    BY <2>2 DEF Holders
  <2>11. PendingOn(chain, NoBlock, r) = 0
    BY DEF PendingOn
  <2>12. calls[r] = Settlements(chain, dropping, r) + Executions(chain, dropping, r)
    BY <1>9 DEF OnDelete
  <2> HIDE DEF calls
  <2>13. calls[r] # 0 => r <= Root(chain, executed)
    <3>1. \A h \in dropping : Root(chain, h) <= Root(chain, executed)
                              /\ SettledStateRoot(chain, h) <= Root(chain, executed)
      BY SMTT(60), <1>2, <1>3, <1>4, <1>8
    <3>2. calls[r] # 0 => Settlements(chain, dropping, r) # 0 \/ Executions(chain, dropping, r) # 0
      <4> DEFINE a == Settlements(chain, dropping, r)
                 b == Executions(chain, dropping, r)
      <4>1. a \in Nat /\ b \in Nat
        BY <2>6
      <4>2. calls[r] = a + b
        BY <2>12
      <4> HIDE DEF a, b
      <4>3. calls[r] # 0 => a # 0 \/ b # 0
        BY <4>1, <4>2
      <4> QED
        BY <4>3 DEF a, b
    <3> QED
      BY SMTT(60), <2>6, <3>1, <3>2
  <2> QED
    BY SMTT(60), <2>3, <2>6, <2>7, <2>8, <2>9, <2>10, <2>11, <2>12, <2>13
<1>11. calls \in [DOMAIN dirty -> Nat]
  <2>1. calls = [r \in DOMAIN dirty |-> calls[r]]
    OBVIOUS
  <2> HIDE DEF calls
  <2> QED
    BY <1>10, <2>1
<1> HIDE DEF calls
<1>12. /\ CountsInv' /\ AvailableInv'
       /\ DOMAIN dirty' \subseteq DOMAIN dirty /\ dirty' \in [DOMAIN dirty' -> Nat]
  BY ZenonT(60), <1>1, <1>5, <1>6, <1>10, <1>11, UntrackStep
<1>13. Types'
  BY SMTT(60), <1>1, <1>3, <1>12 DEF RInv, Types
<1>14. LogInv'
  BY <1>1, LogFrame DEF RInv
<1>15. DownInv'
  BY <1>1, <1>2 DEF DownInv
<1>16. Committed' = Committed /\ Stored' = Stored
  BY <1>1 DEF Committed, Stored, Upto, block
<1>17. ExecutorInv'
  BY Zenon, <1>1, <1>2, <1>16 DEF ExecutorInv, RInv
<1>18. RunningInv'
  <2>1. critical' = dropping' \cup lastSettled' .. Len(chain')
        /\ dropping' \cap lastSettled' .. Len(chain') = {} /\ \A h \in dropping' : h < lastSettled'
    BY <1>1, <1>6 DEF K
  <2> QED
    BY ZenonT(60), <1>1, <1>5, <2>1 DEF RunningInv, RInv
<1> QED
  BY <1>12, <1>13, <1>14, <1>15, <1>17, <1>18 DEF RInv

----------------------------------------------------------------------------
\* A block that verifies settles an executed block, whose state it tracks.
LEMMA VerifyBlockStep ==
  ASSUME RInv, VerifyBlock
  PROVE  RInv'
<1>1. /\ mode = "running" /\ dropping = {} /\ pending = NoBlock
      /\ config' = config /\ chain' = chain /\ head' = head /\ disk' = disk /\ xdb' = xdb
      /\ mode' = mode /\ critical' = critical /\ settledBy' = settledBy
      /\ lastSettled' = lastSettled /\ dropping' = dropping /\ start' = start
      /\ enqueued' = enqueued /\ executed' = executed /\ epc' = epc
      /\ UNCHANGED <<config, diskVars>>
  BY DEF VerifyBlock, diskVars, dbVars
<1>2. PICK b \in Header :
        /\ b.time >= IF chain = <<>> THEN GenesisTime ELSE chain[Len(chain)].time
        /\ pending' = b
        /\ KnownToSettle(b)
        /\ dirty' = Track(dirty, SettledStateRoot(Append(chain, b), Len(chain) + 1))
  BY DEF VerifyBlock
<1> DEFINE c == Append(chain, b)
           s == SettledHeight(c, Len(c))
           q == SettledStateRoot(c, Len(c))
<1>3. Ordered(chain)
  BY DatabaseFacts
<1>4. Ordered(c) /\ Prefix(chain, c) /\ Len(c) = Len(chain) + 1
  BY SMTT(60), <1>2, <1>3, AppendOrdered
<1>5. /\ Live /\ Live' /\ lastSettled = SettledHeight(chain, Len(chain)) /\ lastSettled \in 0 .. executed
      /\ IsFiniteSet(critical) /\ executed + 1 .. Len(chain) \subseteq critical
  BY <1>1, RunningFacts DEF Live
<1>6. /\ Len(chain) \in Nat /\ executed \in 0 .. Len(chain)
      /\ \A h \in Nat : Root(chain, h) \in Nat
  BY SMTT(60), <1>5, LiveFacts
<1>7. s <= executed /\ dirty' = Track(dirty, q)
  BY SMTT(60), <1>2, <1>4 DEF KnownToSettle
<1>8. s \in lastSettled .. executed /\ s \in 0 .. Len(chain)
  <2>1. /\ Len(c) \in 0 .. Len(c) /\ Len(chain) \in 0 .. Len(c) /\ Len(c) \in Len(chain) .. Len(c)
        /\ Len(chain) \in 0 .. Len(chain)
    BY <1>4, <1>6
  <2>2. s \in 0 .. Len(c) /\ SettledHeight(c, Len(chain)) <= s
    BY Zenon, <1>4, <2>1, SettledHeights
  <2>3. SettledHeight(c, Len(chain)) = lastSettled
    BY SMTT(60), <1>3, <1>4, <1>5, <2>1, Prefixes
  <2> HIDE DEF s, c
  <2> QED
    BY SMTT(60), <1>4, <1>5, <1>6, <1>7, <2>2, <2>3
<1>9. q = Root(chain, s)
  <2>1. Root(chain, s) = Root(c, s)
    BY SMTT(60), <1>3, <1>4, <1>8, Prefixes
  <2> QED
    BY <2>1 DEF SettledStateRoot
<1>10. b # NoBlock /\ Tip' = c
  BY <1>1, <1>2, HeaderFields DEF NoBlock, None, Tip
<1>11. DOMAIN dirty \subseteq Nat /\ dirty \in [DOMAIN dirty -> Nat] /\ critical \subseteq Nat
       /\ executed \in Nat
  BY DEF RInv, Types
<1> HIDE DEF s, q
<1>12. /\ DOMAIN dirty' = DOMAIN dirty
       /\ \A r \in DOMAIN dirty : dirty'[r] = dirty[r] + (IF r = q THEN 1 ELSE 0)
       /\ dirty' \in [DOMAIN dirty' -> Nat]
  BY <1>7, <1>11 DEF Track
<1>13. /\ Inserted' = Inserted /\ Tracked' = Tracked /\ block' = block
       /\ Committed' = Committed /\ Stored' = Stored
  BY <1>1 DEF Inserted, Tracked, Committed, Stored, Upto, block
<1>14. Types'
  BY SMTT(60), <1>1, <1>2, <1>11, <1>12 DEF RInv, Types
<1>15. LogInv'
  BY <1>1, LogFrame DEF RInv
<1>16. DownInv'
  BY <1>1, <1>5 DEF DownInv
<1>17. ExecutorInv'
  BY ZenonT(60), <1>1, <1>5, <1>13 DEF ExecutorInv, RInv
<1>18. RunningInv'
  <2>1. SettledHeight(Tip', Len(Tip')) <= executed' /\ Ordered(Tip') /\ dropping' = {}
    BY SMTT(60), <1>1, <1>4, <1>7, <1>10 DEF s
  <2> QED
    BY ZenonT(60), <1>1, <2>1 DEF RunningInv, RInv
<1>19. ASSUME NEW r \in DOMAIN dirty
       PROVE  References(r)' = References(r) + (IF r = q THEN 1 ELSE 0)
  <2> DEFINE E == {h \in critical : h <= Tracked}
  <2>1. PendingOn(chain, NoBlock, r) = 0 /\ PendingOn(chain, b, r) = IF r = q THEN 1 ELSE 0
    BY <1>10 DEF PendingOn, q
  <2>2. /\ References(r) = Holders(chain, critical, Tracked, NoBlock, r)
        /\ References(r)' = Holders(chain, critical, Tracked, b, r)
    BY SMTT(60), <1>1, <1>2, <1>11, <1>13, ReferencesAre
  <2>3. E \in SUBSET critical
    OBVIOUS
  <2> HIDE DEF E
  <2>4. IsFiniteSet(E)
    BY <1>5, <2>3, FS_Subset
  <2>5. Settlements(chain, critical, r) \in Nat /\ Executions(chain, E, r) \in Nat
    BY Zenon, <1>5, <2>4, CountsAreNumbers
  <2>6. /\ Holders(chain, critical, Tracked, b, r)
             = Settlements(chain, critical, r) + Executions(chain, E, r) + (IF r = q THEN 1 ELSE 0)
        /\ Holders(chain, critical, Tracked, NoBlock, r)
             = Settlements(chain, critical, r) + Executions(chain, E, r) + 0
    BY Zenon, <2>1 DEF Holders, E
  <2> QED
    BY <2>2, <2>5, <2>6
<1>20. CountsInv'
  <2>1. ASSUME NEW r \in DOMAIN dirty
        PROVE  /\ Root(chain, start) < r /\ r <= Root(chain, Inserted)
               /\ dirty'[r] = References(r)'
               /\ dirty'[r] = 0 => epc \in {"commit", "track"} /\ r = Root(chain, block)
    <3>1. /\ Root(chain, start) < r /\ r <= Root(chain, Inserted)
          /\ dirty[r] = References(r)
          /\ dirty[r] = 0 => epc \in {"commit", "track"} /\ r = Root(chain, block)
      BY ZenonT(60), <1>1, <1>5 DEF RInv, CountsInv
    <3>2. dirty'[r] = dirty[r] + (IF r = q THEN 1 ELSE 0) /\ dirty[r] \in Nat
      BY <1>11, <1>12
    <3>3. dirty'[r] = 0 => dirty[r] = 0
      BY <3>2
    <3>4. dirty'[r] = References(r)'
      BY Zenon, <1>19, <3>1, <3>2
    <3> QED
      BY Zenon, <3>1, <3>3, <3>4
  <2>2. mode' = "running" /\ mode' # "recovering"
    BY <1>1
  <2> QED
    BY Zenon, <1>1, <1>12, <1>13, <2>1, <2>2 DEF CountsInv
<1>21. AvailableInv'
  <2>1. Available(Root(chain, s))
    <3>1. s \in critical
      <4>1. critical = lastSettled .. Len(chain)
        BY <1>1 DEF RInv, RunningInv
      <4> QED
        BY SMTT(60), <1>5, <1>6, <1>8, <4>1
    <3> QED
      BY SMTT(60), <1>7, <3>1 DEF RInv, AvailableInv, s
  <2>2. \A r : Available(r)' <=> Available(r)
    BY <1>1, <1>12 DEF Available
  <2>3. SettledStateRoot(Tip', Len(Tip')) = Root(chain, s)
    BY <1>9, <1>10 DEF q
  <2> QED
    BY ZenonT(60), <1>1, <1>5, <1>13, <2>1, <2>2, <2>3 DEF AvailableInv, RInv
<1> QED
  BY SMTT(60), <1>14, <1>15, <1>16, <1>17, <1>18, <1>20, <1>21 DEF RInv

----------------------------------------------------------------------------
\* Accepting a block moves the last-settled one up and leaves every state that is still
\* needed with a holder.
LEMMA AcceptBlockStep ==
  ASSUME RInv, AcceptBlock
  PROVE  RInv'
<1> DEFINE n == Len(chain)
           s == SettledHeight(Tip, Len(Tip))
           q == SettledStateRoot(Tip, Len(Tip))
<1>1. /\ mode = "running" /\ pending # NoBlock /\ pending' = NoBlock /\ chain' = Tip
      /\ finalized' = IF s > lastSettled THEN s ELSE finalized
      /\ lastSettled' = s /\ critical' = critical \cup {Len(Tip)}
      /\ settledBy' = [h \in s + 1 .. Len(Tip) |-> IF h = Len(Tip) THEN s ELSE settledBy[h]]
      /\ dropping' = lastSettled .. s - 1 /\ enqueued' = Len(Tip) /\ Write
      /\ config' = config /\ head' = head /\ disk' = disk /\ xdb' = xdb
      /\ mode' = mode /\ dirty' = dirty /\ start' = start
      /\ executed' = executed /\ epc' = epc
  BY DEF AcceptBlock
<1>2. Ordered(chain) /\ finalized \in Int /\ head \in Nat \cup {None} /\ disk \in SUBSET Nat
      /\ head <= n /\ 0 \in disk
      /\ CommittedUpTo(config, chain, disk, head) /\ ResultsUpTo(xdb, chain, head)
  BY SMTT(60), DatabaseFacts
<1>3. /\ dropping = {} /\ Ordered(Tip) /\ Len(Tip) = n + 1 /\ Prefix(chain, Tip)
      /\ s \in 0 .. executed /\ q = Root(chain, s)
  BY SMTT(60), <1>1, PendingFacts
<1>4. /\ Live /\ Live' /\ lastSettled = SettledHeight(chain, n)
      /\ IsFiniteSet(critical) /\ lastSettled \in 0 .. executed
      /\ critical \in SUBSET (0 .. n)
  BY <1>1, RunningFacts DEF Live
<1>5. /\ n \in Nat /\ executed \in 0 .. n /\ start \in 0 .. executed
      /\ epc # "idle" => block \in 1 .. n
  BY SMTT(60), <1>4, LiveFacts
<1>6. \A h \in 0 .. n :
        /\ Root(chain, h) = Root(Tip, h)
        /\ SettledHeight(chain, h) = SettledHeight(Tip, h)
        /\ SettledStateRoot(chain, h) = SettledStateRoot(Tip, h)
        /\ BlockAt(chain, h) = BlockAt(Tip, h)
  BY SMTT(60), <1>2, <1>3, Prefixes
<1>7. lastSettled <= s
  <2>1. /\ n \in 0 .. Len(Tip) /\ Len(Tip) \in n .. Len(Tip) /\ n \in 0 .. n
    BY <1>3, <1>5
  <2> QED
    BY SMTT(60), <1>3, <1>4, <1>6, <2>1, SettledHeights
<1> HIDE DEF s, q
<1>8. s \in Nat /\ lastSettled \in Nat /\ n \in Nat /\ s <= executed /\ executed <= n
      /\ executed \in Nat
  BY SMTT(60), <1>3, <1>4, <1>5
<1>9. DOMAIN dirty \subseteq Nat /\ dirty \in [DOMAIN dirty -> Nat] /\ critical \subseteq Nat
      /\ config \in Configs /\ start \in Nat /\ chain \in Seq(Header)
  BY SMTT(60), DatabaseFacts DEF RInv, Types
<1>10. /\ Inserted' = Inserted /\ Tracked' = Tracked /\ block' = block
       /\ Committed' = Committed /\ Stored' = Stored
  BY <1>1 DEF Inserted, Tracked, Committed, Stored, Upto, block
<1>11. /\ Inserted \in 0 .. n /\ Committed \in 0 .. n /\ Tracked \in 0 .. n /\ Stored \in 0 .. n
  <2>1. /\ Inserted \in executed .. n /\ Committed \in executed .. n
        /\ Tracked \in executed .. n /\ Stored \in executed .. n
    BY SMTT(60), <1>4, AheadOfExecuted
  <2> QED
    BY <1>8, <2>1
<1>12. Types'
  <2>1. critical' \subseteq Nat /\ dropping' \subseteq Nat /\ enqueued' \in Nat
    BY SMTT(60), <1>1, <1>3, <1>8, <1>9
  <2> QED
    BY SMTT(60), <1>1, <1>8, <1>9, <2>1 DEF RInv, Types
<1>13. DownInv'
  BY <1>1, <1>4 DEF DownInv
\* The database: the chain is longer, and what was committed and stored for its
\* blocks is the same.
<1>14. ASSUME NEW k \in Int, k <= n
       PROVE  /\ CommittedUpTo(config, chain, disk, k) => CommittedUpTo(config, Tip, disk, k)
              /\ ResultsUpTo(xdb, chain, k) => ResultsUpTo(xdb, Tip, k)
  <2>1. \A h \in 1 .. k : h \in 0 .. n
    BY <1>8, <1>14
  <2>2. \A h \in 1 .. k : CommittedRoot(config, chain, h) = CommittedRoot(config, Tip, h)
                          /\ BlockAt(chain, h) = BlockAt(Tip, h)
    BY SMTT(60), <1>6, <2>1 DEF CommittedRoot
  <2> QED
    BY Zenon, <2>2 DEF CommittedUpTo, ResultsUpTo
<1>15. head # None
  BY SMTT(60), <1>4 DEF RInv, ExecutorInv
<1>16. LogInv'
  <2>1. /\ CommittedUpTo(config, Tip, disk, head) /\ ResultsUpTo(xdb, Tip, head)
    BY SMTT(60), <1>2, <1>14 DEF None
  <2>2. /\ Db' = [chain |-> Tip, finalized |-> finalized', head |-> head, disk |-> disk]
        /\ Db'.chain = Tip /\ Db'.head = head /\ Db'.disk = disk
    BY SMTT(60), <1>1 DEF Db
  <2>3. Db' \in Database
    <3>1. finalized' \in Int
      BY <1>1, <1>2, <1>8
    <3>2. Tip \in Seq(Header)
      BY Zenon, <1>3 DEF Ordered
    <3>3. head \in Int
      BY <1>2 DEF None
    <3> QED
      BY SMTT(60), <1>2, <2>2, <3>1, <3>2, <3>3 DEF Database
  <2>4. head <= Len(Tip)
    BY <1>2, <1>3, <1>8 DEF None
  <2>5. Recoverable(Db', config, xdb)
    BY ZenonT(60), <1>2, <1>3, <1>15, <2>1, <2>2, <2>3, <2>4 DEF Recoverable
  <2>6. Recoverable(Db, config, xdb)'
    BY Zenon, <1>1, <2>5
  <2> QED
    BY SMTT(60), <1>1, <1>3, <2>6, LogWrites DEF RInv
<1>17. ExecutorInv'
  <2>1. /\ CommittedUpTo(config, Tip, disk, Committed) /\ ResultsUpTo(xdb, Tip, Stored)
    <3>1. CommittedUpTo(config, chain, disk, Committed) /\ ResultsUpTo(xdb, chain, Stored)
      BY <1>4 DEF RInv, ExecutorInv
    <3>2. Committed \in Int /\ Committed <= n /\ Stored \in Int /\ Stored <= n
      BY SMTT(60), <1>8, <1>11
    <3> QED
      BY SMTT(60), <1>14, <3>1, <3>2
  <2>2. Root(Tip, start) \in disk
    <3>1. Root(chain, start) \in disk
      BY <1>4 DEF RInv, ExecutorInv
    <3>2. start \in 0 .. n
      BY <1>5
    <3> QED
      BY SMTT(60), <1>6, <3>1, <3>2
  <2>3. ASSUME ~ config.archival
        PROVE  /\ start <= SettledHeight(Tip, Len(Tip))
               /\ \A h \in 1 .. Len(Tip) :
                    CommitsUnder(config, h) /\ SettledHeight(Tip, h) <= start =>
                      SettledStateRoot(Tip, h) \in disk
    <3>1. /\ start <= SettledHeight(chain, n)
          /\ \A h \in 1 .. n :
               CommitsUnder(config, h) /\ SettledHeight(chain, h) <= start =>
                 SettledStateRoot(chain, h) \in disk
      BY ZenonT(60), <1>4, <2>3 DEF RInv, ExecutorInv
    <3>2. start <= s
      BY SMTT(60), <1>4, <1>7, <1>8, <1>9, <3>1
    <3>3. \A h \in 1 .. Len(Tip) : (h \in 1 .. n /\ h \in 0 .. n) \/ h = Len(Tip)
      BY <1>3, <1>8
    <3>4. s <= start => SettledStateRoot(Tip, Len(Tip)) \in disk
      <4>1. s <= start => s = start
        BY SMTT(60), <1>8, <1>9, <3>2
      <4> QED
        BY <2>2, <4>1 DEF SettledStateRoot, s
    <3> QED
      BY ZenonT(60), <1>6, <3>1, <3>2, <3>3, <3>4 DEF s
  <2>4. start <= executed /\ executed <= Len(Tip) /\ (epc # "idle" => executed < Len(Tip))
    BY <1>3, <1>5
  <2> QED
    BY ZenonT(60), <1>1, <1>10, <1>15, <2>1, <2>2, <2>3, <2>4 DEF ExecutorInv
<1>18. RunningInv'
  <2>1. critical = lastSettled .. n /\ settledBy = [h \in lastSettled + 1 .. n |-> SettledHeight(chain, h)]
    BY <1>1, <1>3 DEF RInv, RunningInv
  <2>2. critical' = dropping' \cup lastSettled' .. Len(chain')
    <3>1. \A h : (h \in lastSettled .. n \/ h = n + 1)
                 <=> (h \in lastSettled .. s - 1 \/ h \in s .. n + 1)
      BY <1>7, <1>8
    <3> QED
      BY Zenon, <1>1, <1>3, <2>1, <3>1
  <2>3. dropping' \cap lastSettled' .. Len(chain') = {} /\ \A h \in dropping' : h < lastSettled'
    BY <1>1, <1>3, <1>8
  <2>4. settledBy' = [h \in s + 1 .. Len(Tip) |-> SettledHeight(Tip, h)]
    <3>1. ASSUME NEW h \in s + 1 .. Len(Tip)
          PROVE  (IF h = Len(Tip) THEN s ELSE settledBy[h]) = SettledHeight(Tip, h)
      <4>1. CASE h = Len(Tip)
        BY <4>1 DEF s
      <4>2. CASE h # Len(Tip)
        <5>1. h \in lastSettled + 1 .. n /\ h \in 0 .. n
          BY SMTT(60), <1>3, <1>7, <1>8, <4>2
        <5>2. settledBy[h] = SettledHeight(chain, h)
          BY SMTT(60), <2>1, <5>1
        <5> QED
          BY SMTT(60), <1>6, <4>2, <5>1, <5>2
      <4> QED
        BY <4>1, <4>2
    <3> QED
      BY <1>1, <3>1
  <2> QED
    BY ZenonT(60), <1>1, <1>8, <2>2, <2>3, <2>4 DEF RunningInv, s
\* The reference of the pending block is now one of a block in the map.
<1>19. ASSUME NEW r PROVE References(r)' = References(r)
  <2> DEFINE E == {h \in critical : h <= Tracked}
  <2>1. E \in SUBSET critical /\ {h \in critical' : h <= Tracked} = E
    <3>1. ~ (Len(Tip) <= Tracked)
      BY <1>3, <1>8, <1>11
    <3> QED
      BY Zenon, <1>1, <3>1
  <2> HIDE DEF E
  <2>2. IsFiniteSet(E) /\ IsFiniteSet({Len(Tip)}) /\ critical \cap {Len(Tip)} = {}
    <3>1. Len(Tip) \notin critical
      BY <1>3, <1>4, <1>8
    <3>2. IsFiniteSet(E)
      BY ZenonT(60), <1>4, <2>1, FS_Subset
    <3> QED
      BY Zenon, <3>1, <3>2, FS_Singleton
  <2>3. /\ Settlements(chain, critical, r) = Settlements(Tip, critical, r)
        /\ Executions(chain, E, r) = Executions(Tip, E, r)
    <3>1. E \in SUBSET (0 .. n)
      BY <1>4, <2>1
    <3> QED
      BY SMTT(60), <1>2, <1>3, <1>4, <3>1, CountsOfPrefix
  <2>4. Settlements(Tip, critical', r) = Settlements(Tip, critical, r) + (IF q = r THEN 1 ELSE 0)
    <3>1. Settlements(Tip, critical \cup {Len(Tip)}, r)
            = Settlements(Tip, critical, r) + Settlements(Tip, {Len(Tip)}, r)
      <4> DEFINE new == {Len(Tip)}
      <4>1. IsFiniteSet(new) /\ critical \cap new = {}
        BY SMTT(60), <2>2
      <4> HIDE DEF new
      <4>2. Settlements(Tip, critical \cup new, r) = Settlements(Tip, critical, r) + Settlements(Tip, new, r)
        BY SMTT(60), <1>4, <4>1, CountsAdd
      <4> QED
        BY <4>2 DEF new
    <3>2. Settlements(Tip, {Len(Tip)}, r) = IF q = r THEN 1 ELSE 0
      BY CountsOfOne DEF q
    <3> QED
      BY Zenon, <1>1, <3>1, <3>2
  <2>5. /\ References(r) = Holders(chain, critical, Tracked, pending, r)
        /\ References(r)' = Holders(Tip, critical', Tracked, NoBlock, r)
    <3>1. critical' \subseteq Nat /\ executed' \in Nat
      BY SMTT(60), <1>1, <1>8, <1>12 DEF Types
    <3> QED
      BY ZenonT(60), <1>1, <1>8, <1>9, <1>10, <3>1, ReferencesAre
  <2>6. /\ PendingOn(chain, pending, r) = (IF q = r THEN 1 ELSE 0)
        /\ PendingOn(Tip, NoBlock, r) = 0
    BY <1>1 DEF PendingOn, Tip, q
  <2>7. Settlements(Tip, critical, r) \in Nat /\ Executions(Tip, E, r) \in Nat
    BY <1>4, <2>2, CountsAreNumbers
  <2>8. /\ Holders(chain, critical, Tracked, pending, r)
             = Settlements(chain, critical, r) + Executions(chain, E, r) + PendingOn(chain, pending, r)
        /\ Holders(Tip, critical', Tracked, NoBlock, r)
             = Settlements(Tip, critical', r) + Executions(Tip, E, r) + PendingOn(Tip, NoBlock, r)
    BY Zenon, <2>1 DEF Holders, E
  <2> QED
    BY SMTT(60), <2>3, <2>4, <2>5, <2>6, <2>7, <2>8
<1>20. CountsInv'
  <2>1. Root(Tip, start) = Root(chain, start) /\ Root(Tip, Inserted) = Root(chain, Inserted)
    <3>1. start \in 0 .. n
      BY <1>5
    <3> QED
      BY <1>6, <1>11, <3>1
  <2>2. epc \in {"commit", "track"} => Root(Tip, block) = Root(chain, block)
    <3>1. epc \in {"commit", "track"} => block \in 0 .. n
      BY <1>5
    <3> QED
      BY <1>6, <3>1
  <2>3. mode' = "running" /\ mode' # "recovering"
    BY <1>1
  <2> QED
    BY ZenonT(60), <1>1, <1>4, <1>10, <1>19, <2>1, <2>2, <2>3 DEF CountsInv, RInv
<1>21. AvailableInv'
  <2>1. \A r : Available(r)' <=> Available(r)
    BY SMTT(60), <1>1 DEF Available
  <2>2. Root(Tip, Inserted) = Root(chain, Inserted)
    BY <1>6, <1>11
  <2>3. ~ (Len(Tip) <= executed)
    BY SMTT(60), <1>3, <1>8
  <2>4. Available(SettledStateRoot(Tip, Len(Tip)))
    BY <1>1 DEF RInv, AvailableInv
  <2>5. \A h \in critical : h \in 0 .. n
    BY <1>4
  <2>6. \A h \in critical' : h <= executed => Available(Root(Tip, h))
    BY ZenonT(60), <1>1, <1>6, <2>3, <2>5 DEF RInv, AvailableInv
  <2>7. \A h \in critical' : h > executed => Available(SettledStateRoot(Tip, h))
    BY ZenonT(60), <1>1, <1>6, <2>4, <2>5 DEF RInv, AvailableInv
  <2>8. mode' = "running" /\ mode' # "recovering"
    BY <1>1
  <2> QED
    BY ZenonT(60), <1>1, <1>4, <1>10, <2>1, <2>2, <2>6, <2>7, <2>8 DEF AvailableInv, RInv
<1> QED
  BY SMTT(60), <1>12, <1>13, <1>16, <1>17, <1>18, <1>20, <1>21 DEF RInv

----------------------------------------------------------------------------
\* The theorems

\* The invariant is about these variables only.
LEMMA StutterStep ==
  ASSUME RInv, UNCHANGED vars
  PROVE  RInv'
<1>1. /\ config' = config /\ chain' = chain /\ finalized' = finalized /\ head' = head
      /\ disk' = disk /\ unsynced' = unsynced /\ xdb' = xdb /\ mode' = mode /\ dirty' = dirty
      /\ critical' = critical /\ settledBy' = settledBy /\ pending' = pending
      /\ lastSettled' = lastSettled /\ dropping' = dropping /\ start' = start
      /\ enqueued' = enqueued /\ executed' = executed /\ epc' = epc
      /\ UNCHANGED <<config, diskVars>>
  BY SMTT(60) DEF vars, diskVars, dbVars, mapVars
<1>2. /\ Inserted' = Inserted /\ Tracked' = Tracked /\ block' = block /\ Tip' = Tip
      /\ Committed' = Committed /\ Stored' = Stored /\ (Live' <=> Live)
  BY SMTT(60), <1>1 DEF Inserted, Tracked, Committed, Stored, Upto, block, Live, Tip
<1>3. Types'
  BY <1>1 DEF RInv, Types
<1>4. LogInv'
  BY <1>1, LogFrame DEF RInv
<1>5. DownInv' /\ ExecutorInv' /\ RunningInv'
  BY ZenonT(60), <1>1, <1>2 DEF RInv, DownInv, ExecutorInv, RunningInv
<1>6. \A r : References(r)' = References(r)
  BY Zenon, <1>1, <1>2 DEF References
<1>7. CountsInv'
  BY ZenonT(60), <1>1, <1>2, <1>6 DEF RInv, CountsInv
<1>8. AvailableInv'
  BY ZenonT(60), <1>1, <1>2 DEF RInv, AvailableInv, Available
<1> QED
  BY SMTT(60), <1>3, <1>4, <1>5, <1>7, <1>8 DEF RInv

\* The inductive invariant holds in every reachable state, however long the chain,
\* however often the node crashes or loses power, and however many of its last
\* writes a loss of power undoes.
THEOREM RecoveryInvariant == Spec => []RInv
<1>1. Init => RInv
  BY InitInv
<1>2. RInv /\ [Next]_vars => RInv'
  <2> SUFFICES ASSUME RInv, [Next]_vars PROVE RInv'
    OBVIOUS
  <2>1. CASE Synchronise
    BY <2>1, SynchroniseStep
  <2>2. CASE StartExecutor
    BY SMTT(60), <2>2, StartExecutorStep
  <2>3. CASE FinishRecovery
    BY <2>3, FinishRecoveryStep
  <2>4. CASE Dequeue
    BY <2>4, DequeueStep
  <2>5. CASE CommitState
    BY <2>5, CommitStateStep
  <2>6. CASE MaybeCommit
    BY <2>6, MaybeCommitStep
  <2>7. CASE TrackRoot
    BY <2>7, TrackRootStep
  <2>8. CASE PutResults
    BY <2>8, PutResultsStep
  <2>9. CASE WriteBatch
    BY <2>9, WriteBatchStep
  <2>10. CASE MarkExecuted
    BY <2>10, MarkExecutedStep
  <2>11. CASE Crash
    BY <2>11, CrashStep
  <2>12. CASE PowerLoss
    BY <2>12, PowerLossStep
  <2>13. CASE VerifyBlock
    BY <2>13, VerifyBlockStep
  <2>14. CASE RejectBlock
    BY <2>14, RejectBlockStep
  <2>15. CASE AcceptBlock
    BY <2>15, AcceptBlockStep
  <2>16. CASE Evict
    BY <2>16, EvictStep
  <2>17. CASE UNCHANGED vars
    BY <2>17, StutterStep
  <2> QED
    BY ZenonT(60), <2>1, <2>2, <2>3, <2>4, <2>5, <2>6, <2>7, <2>8, <2>9, <2>10, <2>11, <2>12,
       <2>13, <2>14, <2>15, <2>16, <2>17 DEF Next, NewVM, Executor
<1> QED
  BY <1>1, <1>2, PTL DEF Spec

\* After a crash or a loss of power at any point, NewVM finds the state and the
\* execution results of the block that it recovers from.
THEOREM RecoveryAlwaysCanStart == Spec => []RecoveryCanStart
<1>1. RInv => RecoveryCanStart
  <2> SUFFICES ASSUME RInv, head # None PROVE RecoveryCanStart
    BY DEF RecoveryCanStart
  <2> DEFINE s == LastHeightWithExecutionRootCommitted
  <2>1. s \in 0 .. head /\ head \in Nat /\ Root(chain, s) \in disk
    BY Zenon, StartOfRecovery DEF RInv, Types, LogInv
  <2>2. ResultsUpTo(xdb, chain, head)
    BY DatabaseFacts
  <2>3. \A h \in 1 .. s : h \in 1 .. head
    BY <2>1
  <2> QED
    BY Zenon, <2>1, <2>2, <2>3 DEF RecoveryCanStart, ResultsUpTo
<1> QED
  BY <1>1, RecoveryInvariant, PTL

\* Whoever opens a state finds it in memory or on disk: reference counting drops
\* none too early, before a crash and after recovery.
THEOREM StatesStayAvailable == Spec => []StateAvailable
<1>1. RInv => StateAvailable
  <2> SUFFICES ASSUME RInv PROVE StateAvailable
    OBVIOUS
  <2>1. ASSUME Live PROVE Available(Root(chain, executed))
    <3>1. CASE mode = "recovering"
      <4>1. executed \in start .. executed
        BY <2>1, LiveFacts
      <4> QED
        BY <3>1, <4>1 DEF RInv, AvailableInv
    <3>2. CASE mode = "running"
      <4>1. executed \in critical /\ executed <= executed
        BY SMTT(60), <2>1, <3>2, LiveFacts, RunningFacts
      <4> QED
        BY SMTT(60), <4>1 DEF RInv, AvailableInv
    <3> QED
      BY SMTT(60), <2>1, <3>1, <3>2 DEF Live
  <2>2. ASSUME mode = "running", NEW h \in executed + 1 .. enqueued
        PROVE  Available(SettledStateRoot(chain, h))
    <3>1. enqueued = Len(chain) /\ executed \in 0 .. Len(chain) /\ Len(chain) \in Nat
      BY SMTT(60), <2>2, LiveFacts DEF Live
    <3>2. h \in critical
      BY <2>2, <3>1, RunningFacts
    <3>3. h > executed
      BY <3>1
    <3> QED
      BY SMTT(60), <3>2, <3>3 DEF RInv, AvailableInv
  <2>3. epc = "commit" /\ CommitsAt(block) => Available(Commits(block))
    BY CommitAvailable
  <2>4. /\ \A h \in critical : h <= executed => Available(Root(chain, h))
        /\ pending # NoBlock => Available(SettledStateRoot(Tip, Len(Tip)))
    BY Zenon DEF RInv, AvailableInv
  <2> QED
    BY Zenon, <2>1, <2>2, <2>3, <2>4 DEF StateAvailable, Live
<1> QED
  BY <1>1, RecoveryInvariant, PTL

\* No trie leaks: each in memory has exactly the references of the blocks that hold
\* it, whether consensus or recovery put them into the map.
THEOREM ReferencesStayExact == Spec => []ReferencesExact
<1>1. RInv => ReferencesExact
  BY Zenon DEF RInv, CountsInv, ReferencesExact
<1> QED
  BY <1>1, RecoveryInvariant, PTL

\* Recovery rebuilds the map, the last-settled block and the ancestry that the
\* headers of the chain demand.
THEOREM RecoveryIsExact == Spec => []RecoveredIsExact
<1>1. RInv => RecoveredIsExact
  <2> SUFFICES ASSUME RInv, mode = "running" PROVE RecoveredIsExact
    BY DEF RecoveredIsExact
  <2>1. /\ lastSettled = SettledHeight(chain, Len(chain))
        /\ critical = dropping \cup lastSettled .. Len(chain)
        /\ dropping \cap lastSettled .. Len(chain) = {}
        /\ settledBy = [h \in lastSettled + 1 .. Len(chain) |-> SettledHeight(chain, h)]
    BY Zenon DEF RInv, RunningInv
  <2>2. critical \ dropping = lastSettled .. Len(chain)
    BY Zenon, <2>1
  <2> QED
    BY Zenon, <2>1, <2>2 DEF RecoveredIsExact
<1> QED
  BY <1>1, RecoveryInvariant, PTL
=============================================================================
