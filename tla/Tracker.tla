------------------------------- MODULE Tracker -------------------------------
(***************************************************************************)
(* saedb.Tracker: reference counts on the state tries in memory.           *)
(*                                                                         *)
(* Dirty tries are a function from the roots in memory to their reference  *)
(* counts, as in the dirty cache of libevm's hash-scheme trie database,    *)
(* which is modelled from its use here.  A trie is identified by its root: *)
(* the nodes that it shares with other tries have reference counts of      *)
(* their own, inside that database.                                        *)
(***************************************************************************)
EXTENDS Integers, Functions

Drop(dirty, root) == Restrict(dirty, DOMAIN dirty \ {root})

\* triedb.Database.Update: a new trie comes without references.
Insert(dirty, root) ==
  [r \in DOMAIN dirty \cup {root} |-> IF r \in DOMAIN dirty THEN dirty[r] ELSE 0]

\* triedb.Database.Commit, on the roots on disk; it does nothing, and reports
\* nothing, for a trie that is not in memory.
Flush(disk, dirty, root) ==
  disk \cup (IF root \in DOMAIN dirty THEN {root} ELSE {})

\* Tracker.Track; a trie that is not dirty is not counted.
Track(dirty, root) ==
  IF root \in DOMAIN dirty THEN [dirty EXCEPT ![root] = @ + 1] ELSE dirty

\* Tracker.Untrack; the trie goes with its last reference.
Untrack(dirty, root) ==
  IF root \in DOMAIN dirty /\ dirty[root] > 1
    THEN [dirty EXCEPT ![root] = @ - 1]
    ELSE Drop(dirty, root)

\* As many calls as `calls` has for each root; in which order makes no difference.
TrackAll(dirty, calls) == [r \in DOMAIN dirty |-> dirty[r] + calls[r]]
UntrackAll(dirty, calls) ==
  [r \in {x \in DOMAIN dirty : calls[x] = 0 \/ calls[x] < dirty[x]} |-> dirty[r] - calls[r]]

\* ShouldCommitTrieDB, LastCommittedTrieDBHeight
ShouldCommitTrieDB(height, interval) == height % interval = 0
LastCommittedTrieDBHeight(atOrBefore, interval) == atOrBefore - (atOrBefore % interval)
=============================================================================
