------------------------------- MODULE Mempool -------------------------------
(***************************************************************************)
(* The candidates for a block (package txgossip): transactions are added   *)
(* to the pool by gossip or by a client, and the block builder takes all   *)
(* that are pending in the order of their priority.                        *)
(*                                                                         *)
(* The pool is that of libevm, known by its use: for each sender it holds  *)
(* the pending transactions in the order of their nonces.  The sort is     *)
(* slices.SortStableFunc of Go's library, whose steps matter because the   *)
(* comparison that it is given is not a strict weak order.                 *)
(***************************************************************************)
EXTENDS Integers, SequencesExt

CONSTANTS
  Senders,
  Prices,      \* what a transaction may offer: [cap, tip]
  BaseFees,    \* the worst-case base fees of the block to be built
  BlockSize,   \* blockSize of Go's stable sort, which is 20
  MaxTxs       \* bound: transactions in the pool

VARIABLES
  pool,    \* the pending transactions of each sender
  clock,   \* arrivals so far
  all      \* what TransactionsByPriority returned last

vars == <<pool, clock, all>>

Init ==
  /\ pool = [s \in Senders |-> <<>>]
  /\ clock = 0
  /\ all = <<>>

\* Set.Add and SendTx: the next transaction of a sender.  One that is known is no
\* error and changes nothing.
Add(s, price) ==
  /\ clock < MaxTxs
  /\ clock' = clock + 1
  /\ pool' = [pool EXCEPT ![s] =
       Append(@, [sender |-> s, nonce |-> Len(@), cap |-> price.cap, tip |-> price.tip,
                  time |-> clock])]
  /\ UNCHANGED all

----------------------------------------------------------------------------
EffectiveGasTip(tx, baseFee) ==
  IF tx.cap <= baseFee THEN 0
  ELSE IF tx.cap - baseFee < tx.tip THEN tx.cap - baseFee ELSE tx.tip

\* The comparison: a comes before b.
Before(a, b, baseFee) ==
  LET aTip == EffectiveGasTip(a, baseFee)
      bTip == EffectiveGasTip(b, baseFee)
  IN /\ a.sender # b.sender
     /\ aTip > bTip \/ (aTip = bTip /\ a.time < b.time)

----------------------------------------------------------------------------
\* SortStableFunc; indices count from 1, and a range goes from its first index up to,
\* but not including, its last.

Move(s, from, to) == InsertAt(RemoveAt(s, from), to, s[from])

\* insertionSort: each element moves down as long as it comes before its neighbour.
RECURSIVE Sink(_, _, _, _)
Sink(s, first, j, fee) ==
  IF j > first /\ Before(s[j], s[j - 1], fee) THEN Sink(Move(s, j, j - 1), first, j - 1, fee)
  ELSE s
InsertionSort(s, first, last, fee) ==
  FoldLeft(LAMBDA t, j : Sink(t, first, j, fee), s, [k \in 1 .. last - first |-> first + k - 1])

\* Binary search for an index between i and j from which stop holds.
RECURSIVE Search(_, _, _)
Search(i, j, stop) ==
  LET h == (i + j) \div 2
  IN IF i >= j THEN i ELSE IF stop[h] THEN Search(i, h, stop) ELSE Search(h + 1, j, stop)

Rotate(s, a, m, b) ==
  SubSeq(s, 1, a - 1) \o SubSeq(s, m, b - 1) \o SubSeq(s, a, m - 1) \o SubSeq(s, b, Len(s))

\* symMerge of the ranges from a to m and from m to b.
RECURSIVE SymMerge(_, _, _, _, _)
SymMerge(s, a, m, b, fee) ==
  IF m - a = 1
    THEN Move(s, a, Search(m, b, [h \in m .. b - 1 |-> ~ Before(s[h], s[a], fee)]) - 1)
  ELSE IF b - m = 1
    THEN Move(s, m, Search(a, m, [h \in a .. m - 1 |-> Before(s[m], s[h], fee)]))
  ELSE
    LET mid == (a + b) \div 2
        n == mid + m
        first == IF m > mid THEN n - b ELSE a
        last == IF m > mid THEN mid ELSE m
        start == Search(first, last,
                        [c \in first .. last - 1 |-> Before(s[n - 1 - c], s[c], fee)])
        end == n - start
        rotated == IF start < m /\ m < end THEN Rotate(s, start, m, end) ELSE s
        low == IF a < start /\ start < mid THEN SymMerge(rotated, a, start, mid, fee)
               ELSE rotated
    IN IF mid < end /\ end < b THEN SymMerge(low, mid, end, b, fee) ELSE low

\* stable: blocks, then merges of neighbours, of twice the size each time.
Blocks(n, size) == [k \in 1 .. (n + size - 1) \div size |-> 1 + (k - 1) * size]
Least(x, y) == IF x < y THEN x ELSE y
RECURSIVE MergeBlocks(_, _, _)
MergeBlocks(s, size, fee) ==
  LET Merge(t, a) ==
        IF a + size > Len(s) THEN t
        ELSE SymMerge(t, a, a + size, Least(a + 2 * size, Len(s) + 1), fee)
  IN IF size >= Len(s) THEN s
     ELSE MergeBlocks(FoldLeft(Merge, s, Blocks(Len(s), 2 * size)), 2 * size, fee)
SortStable(s, fee) ==
  LET Sort(t, a) == InsertionSort(t, a, Least(a + BlockSize, Len(s) + 1), fee)
  IN MergeBlocks(FoldLeft(Sort, s, Blocks(Len(s), BlockSize)), BlockSize, fee)

----------------------------------------------------------------------------
\* Set.TransactionsByPriority; the senders come in the order of a Go map, which is any.
TransactionsByPriority(baseFee) ==
  /\ \E order \in SetToSeqs(Senders) :
       all' = SortStable(FlattenSeq([k \in DOMAIN order |-> pool[order[k]]]), baseFee)
  /\ UNCHANGED <<pool, clock>>

Next ==
  \/ \E s \in Senders, price \in Prices : Add(s, price)
  \/ \E baseFee \in BaseFees : TransactionsByPriority(baseFee)

Spec == Init /\ [][Next]_vars

----------------------------------------------------------------------------
\* The comment on TransactionsByPriority: "Transactions from the same sender are
\* merely sorted by increasing nonce".  The block builder goes through the candidates
\* once, and skips a transaction that comes before one with a lower nonce.
NoncesIncrease ==
  \A i, j \in DOMAIN all :
    i < j /\ all[i].sender = all[j].sender => all[i].nonce < all[j].nonce
=============================================================================
