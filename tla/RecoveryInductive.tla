------------------------- MODULE RecoveryInductive -------------------------
(***************************************************************************)
(* The inductive invariant of Recovery: what the database, each of its     *)
(* earlier states that a loss of power may bring back, the map and the     *)
(* reference counts have to do with one another in every reachable state.  *)
(* The safety properties of Recovery follow from it (RecoveryProofs).      *)
(***************************************************************************)
EXTENDS Recovery

Live == mode \in {"recovering", "running"}

\* How far an effect of execution that is visible once epc is in S has got.
Upto(S) == IF epc \in S THEN block ELSE executed
Inserted == Upto({"commit", "track", "results", "batch", "mark"})
Committed == Upto({"track", "results", "batch", "mark"})
Tracked == Upto({"results", "batch", "mark"})
Stored == Upto({"batch", "mark"})

Types ==
  /\ config \in Configs
  /\ mode \in {"down", "booting", "recovering", "running"}
  /\ epc \in {"idle", "run", "commit", "track", "results", "batch", "mark"}
  /\ start \in Nat /\ executed \in Nat /\ enqueued \in Nat
  /\ lastSettled \in Nat
  /\ critical \subseteq Nat /\ dropping \subseteq Nat
  /\ DOMAIN dirty \subseteq Nat /\ dirty \in [DOMAIN dirty -> Nat]
  /\ pending \in Header \cup {NoBlock}

----------------------------------------------------------------------------
\* The database

\* Block times do not decrease.
Ordered(c) ==
  /\ c \in Seq(Header)
  /\ \A i, j \in 1 .. Len(c) : i <= j => c[i].time <= c[j].time

Prefix(c, e) == Len(c) <= Len(e) /\ \A h \in 1 .. Len(c) : c[h] = e[h]

\* After executing the blocks up to n of the chain c, what MaybeCommit wrote is
\* among the states D, and the results R are those of the chain.
CommitsUnder(cfg, h) ==
  cfg.archival \/ ShouldCommitTrieDB(LastSynchronous + h, cfg.interval)
CommittedRoot(cfg, c, h) == IF cfg.archival THEN Root(c, h) ELSE SettledStateRoot(c, h)
CommittedUpTo(cfg, c, D, n) ==
  \A h \in 1 .. n : CommitsUnder(cfg, h) => CommittedRoot(cfg, c, h) \in D
ResultsUpTo(R, c, n) == \A h \in 1 .. n : h \in DOMAIN R /\ R[h] = BlockAt(c, h)

Database == [chain : Seq(Header), finalized : Int, head : Int, disk : SUBSET Nat]

\* A database from which a node can recover with these results.
Recoverable(db, cfg, R) ==
  /\ db \in Database
  /\ Ordered(db.chain)
  /\ db.head \in Nat \cup {None} /\ db.head <= Len(db.chain)
  /\ db.chain # <<>> => db.head # None
  /\ 0 \in db.disk
  /\ CommittedUpTo(cfg, db.chain, db.disk, db.head)
  /\ ResultsUpTo(R, db.chain, db.head)

Db == [chain |-> chain, finalized |-> finalized, head |-> head, disk |-> disk]

\* The database is one, and so is every earlier state of it that may come back.
LogInv ==
  /\ Recoverable(Db, config, xdb)
  /\ unsynced \in Seq(Database)
  /\ \A i \in 1 .. Len(unsynced) :
       /\ Recoverable(unsynced[i], config, xdb)
       /\ Prefix(unsynced[i].chain, chain)
       /\ \A j \in i .. Len(unsynced) : Prefix(unsynced[i].chain, unsynced[j].chain)

----------------------------------------------------------------------------
\* Nothing is in memory before the executor starts.
DownInv ==
  /\ mode = "booting" => head # None
  /\ ~ Live => executed = 0 /\ epc = "idle" /\ DOMAIN dirty = {}
  /\ mode # "running" => critical = {} /\ dropping = {} /\ pending = NoBlock

\* The executor, from the block that recovery started with.  A block whose settled
\* state is older than that one has its commit on disk, or will not commit.
ExecutorInv ==
  Live =>
    /\ enqueued = Len(chain)
    /\ start <= executed /\ executed <= enqueued
    /\ epc # "idle" => executed < enqueued
    /\ head # None
    /\ CommittedUpTo(config, chain, disk, Committed)
    /\ ResultsUpTo(xdb, chain, Stored)
    /\ Root(chain, start) \in disk
    /\ ~ config.archival =>
         /\ start <= SettledHeight(chain, Len(chain))
         /\ \A h \in 1 .. Len(chain) :
              CommitsUnder(config, h) /\ SettledHeight(chain, h) <= start =>
                SettledStateRoot(chain, h) \in disk

\* A VM that runs has the map that its chain demands, and whatever a block of the
\* chain settles is executed.
RunningInv ==
  mode = "running" =>
    /\ lastSettled = SettledHeight(chain, Len(chain))
    /\ lastSettled <= executed
    /\ critical = dropping \cup lastSettled .. Len(chain)
    /\ dropping \cap lastSettled .. Len(chain) = {}
    /\ \A h \in dropping : h < lastSettled
    /\ settledBy = [h \in lastSettled + 1 .. Len(chain) |-> SettledHeight(chain, h)]
    /\ pending # NoBlock =>
         dropping = {} /\ Ordered(Tip) /\ SettledHeight(Tip, Len(Tip)) <= executed

----------------------------------------------------------------------------
\* States

\* A trie in memory is newer than the state that recovery started with, and has as
\* many references as there are holders; only a new one has none.
CountsInv ==
  /\ Live => \A r \in DOMAIN dirty : Root(chain, start) < r /\ r <= Root(chain, Inserted)
  /\ mode = "recovering" =>
       \A r \in DOMAIN dirty : dirty[r] = Executions(chain, start + 1 .. Tracked, r)
  /\ mode = "running" => \A r \in DOMAIN dirty : dirty[r] = References(r)
  /\ \A r \in DOMAIN dirty :
       dirty[r] = 0 => epc \in {"commit", "track"} /\ r = Root(chain, block)

\* The states that somebody may open.
AvailableInv ==
  /\ mode = "recovering" => \A h \in start .. executed : Available(Root(chain, h))
  /\ \A h \in critical : h <= executed => Available(Root(chain, h))
  /\ \A h \in critical : h > executed => Available(SettledStateRoot(chain, h))
  /\ Live => Available(Root(chain, Inserted))
  /\ pending # NoBlock => Available(SettledStateRoot(Tip, Len(Tip)))

----------------------------------------------------------------------------
RInv ==
  /\ Types /\ LogInv
  /\ DownInv /\ ExecutorInv /\ RunningInv
  /\ CountsInv /\ AvailableInv
=============================================================================
