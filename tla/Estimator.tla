----------------------------- MODULE Estimator -----------------------------
(***************************************************************************)
(* The gas-price estimator (package gasprice): suggested tips, the price   *)
(* options that customAPI makes of them, and fee history, from the blocks  *)
(* that are being accepted while its callers run.                          *)
(* A cache of blocks is filled by the callers and by a goroutine that      *)
(* receives accepted blocks.                                               *)
(*                                                                         *)
(* chain[n + 1] is the block at height n.  A block has its time, the base  *)
(* fee of its header, the base fee at the latest end of its execution      *)
(* (WorstCaseBounds.LatestEndTime; Unbounded for a block that this process *)
(* never verified), its gas, and transactions with a gas limit and an      *)
(* effective tip.                                                          *)
(***************************************************************************)
EXTENDS Integers, SequencesExt

CONSTANTS
  Genesis,
  Blocks,             \* the blocks that may be accepted
  MaxHeight,          \* bound: blocks accepted
  Callers,            \* of SuggestGasTipCap
  PriceCallers,       \* those of them that are in SuggestPriceOptions
  Percentiles,        \* the argument of FeeHistory, increasing
  Counts,             \* how many blocks are asked of FeeHistory
  \* Config; the percentile is a per cent value.
  MinSuggestedTip, MaxSuggestedTip, SuggestedTipPercentile,
  SuggestedTipMaxBlocks, HistoryMaxBlocksFromHead, HistoryMaxBlocks

ASSUME EstimatorAssumption ==     \* Config.validate, validatePercentiles
  /\ PriceCallers \subseteq Callers
  /\ MinSuggestedTip <= MaxSuggestedTip
  /\ SuggestedTipPercentile \in 1 .. 100
  /\ \A i \in DOMAIN Percentiles :
       /\ Percentiles[i] \in 0 .. 100
       /\ i > 1 => Percentiles[i] > Percentiles[i - 1]

VARIABLES
  chain,              \* the accepted blocks
  announced,          \* heights sent on the feed of accepted blocks
  events,             \* the estimator's channel, with one slot
  cache,              \* heights in the block cache
  last,               \* Estimator.last
  tip,                \* for each caller, its progress in these
  history             \* progress of a call of FeeHistory

chainVars == <<chain, announced>>
cacheVars == <<events, cache>>
vars == <<chainVars, cacheVars, last, tip, history>>

LastAccepted == Len(chain) - 1

\* WorstCaseBounds() is nil for a block restored by recovery or accepted while
\* bootstrapping.
Unbounded == -1

NoCall == [at |-> "idle", accepted |-> 0, price |-> 0, prices |-> <<>>]
NoHistory == [at |-> "idle"]

Init ==
  /\ chain = <<Genesis>> /\ announced = 0
  /\ events = <<>> /\ cache = {}
  /\ last = [number |-> 0, price |-> MinSuggestedTip]
  /\ tip = [c \in Callers |-> NoCall]
  /\ history = NoHistory

----------------------------------------------------------------------------
\* The rest of the VM

\* AcceptBlock stores the pointer, and returns once the block is on the feed.
Accept ==
  /\ LastAccepted < MaxHeight /\ announced = LastAccepted
  /\ \E b \in Blocks :
       /\ b.time >= chain[Len(chain)].time
       /\ chain' = Append(chain, b)
  /\ UNCHANGED <<announced, cacheVars, last, tip, history>>

Announce ==
  /\ announced < LastAccepted
  /\ events = <<>>
  /\ events' = <<LastAccepted>>
  /\ announced' = LastAccepted
  /\ UNCHANGED <<chain, cache, last, tip, history>>

----------------------------------------------------------------------------
\* blockCache

\* The goroutine of NewEstimator.
CacheAccepted ==
  /\ events # <<>>
  /\ cache' = cache \cup {Head(events)}
  /\ events' = <<>>
  /\ UNCHANGED <<chainVars, last, tip, history>>

\* The cache has a limited size.
EvictLeastRecent ==
  /\ \E n \in cache : cache' = cache \ {n}
  /\ UNCHANGED <<chainVars, events, last, tip, history>>

\* getBlock, through BlockByNumber if it is not cached: nil above the tip.
GetBlock(n) == IF n \in cache \/ n <= LastAccepted THEN chain[n + 1] ELSE [time |-> -1]
IsNil(b) == b.time = -1

----------------------------------------------------------------------------
\* SuggestGasTipCap, alone or as the start of SuggestPriceOptions.

StartSuggest(c) ==
  /\ tip[c] = NoCall
  /\ tip' = [tip EXCEPT ![c].at = "read", ![c].accepted = LastAccepted]
  /\ UNCHANGED <<chainVars, cacheVars, last, history>>

\* SuggestGasTipCap returns.
Suggest(c, price) ==
  tip' = [tip EXCEPT ![c] = IF c \in PriceCallers THEN [@ EXCEPT !.at = "bounds", !.price = price]
                            ELSE NoCall]

\* Under the read lock.
ReadLast(c) ==
  /\ tip[c].at = "read"
  /\ IF tip[c].accepted <= last.number THEN Suggest(c, last.price)
     ELSE tip' = [tip EXCEPT ![c].at = "lock"]
  /\ UNCHANGED <<chainVars, cacheVars, last, history>>

\* The heights that the loop visits, from the newest down, as far as the first that
\* is too far back or too old; all but an old one give their tips.
Visited(newest, unix) ==
  LET tooOld == IF newest > SuggestedTipMaxBlocks THEN newest - SuggestedTipMaxBlocks ELSE 0
  IN {n \in tooOld + 1 .. newest : \A m \in n + 1 .. newest : GetBlock(m).time >= unix}
Recent(newest, unix) == {n \in Visited(newest, unix) : GetBlock(n).time >= unix}

TipsOf(b) == [i \in DOMAIN b.txs |-> b.txs[i].tip]
Tips(ns) == FoldSet(LAMBDA n, ts : ts \o TipsOf(GetBlock(n)), <<>>, ns)

Clamp(p) == IF p < MinSuggestedTip THEN MinSuggestedTip
            ELSE IF p > MaxSuggestedTip THEN MaxSuggestedTip ELSE p

SuggestedPrice(newest, unix) ==
  LET tips == SortSeq(Tips(Recent(newest, unix)), <)
      i == ((Len(tips) - 1) * SuggestedTipPercentile) \div 100
  IN IF tips = <<>> THEN last.price ELSE Clamp(tips[i + 1])

\* Under the write lock.  Another goroutine may have been faster, hence the second
\* comparison.  The time from which blocks are recent depends on the wall clock.
NeverBeaten(c) == FALSE
Beaten(c) == tip[c].accepted <= last.number
UpdateLast(c) ==
  /\ tip[c].at = "lock"
  /\ IF Beaten(c) THEN UNCHANGED <<last, cache>>
     ELSE \E unix \in {b.time : b \in Blocks} :
            /\ last' = [number |-> tip[c].accepted,
                        price |-> SuggestedPrice(tip[c].accepted, unix)]
            /\ cache' = cache \cup Visited(tip[c].accepted, unix)
  /\ Suggest(c, last'.price)
  /\ UNCHANGED <<chainVars, events, history>>

----------------------------------------------------------------------------
\* SuggestPriceOptions

\* NewPriceOptions: tips at 95, 100 and 105 per cent, none below the previous one
\* and the first not below minGasTip, with room for the base fee.
MinGasTip == 1
ScaleTip(v, percent) == (v * percent) \div 100
NewPriceOptions(t, baseFee) ==
  LET slow == Max({ScaleTip(t, 95), MinGasTip})
      normal == Max({t, slow})
      fast == Max({ScaleTip(t, 105), normal})
  IN [i \in 1 .. 3 |-> LET x == <<slow, normal, fast>>[i] IN [tip |-> x, fee |-> x + baseFee]]

OfferPrices(c, baseFee) ==
  tip' = [tip EXCEPT ![c] = [NoCall EXCEPT !.at = "priced",
                                           !.prices = NewPriceOptions(tip[c].price, 2 * baseFee)]]

\* estimateNextBaseFee loads the last accepted block for its bounds, and once more
\* if there are none.
LoadBounds(c) ==
  /\ tip[c].at = "bounds"
  /\ LET b == chain[Len(chain)]
     IN IF b.endFee = Unbounded THEN tip' = [tip EXCEPT ![c].at = "baseFee"]
        ELSE OfferPrices(c, b.endFee)
  /\ UNCHANGED <<chainVars, cacheVars, last, history>>

LoadBaseFee(c) ==
  /\ tip[c].at = "baseFee"
  /\ OfferPrices(c, chain[Len(chain)].fee)
  /\ UNCHANGED <<chainVars, cacheVars, last, history>>

ReturnPrices(c) ==
  /\ tip[c].at = "priced"
  /\ tip' = [tip EXCEPT ![c] = NoCall]
  /\ UNCHANGED <<chainVars, cacheVars, last, history>>

----------------------------------------------------------------------------
\* FeeHistory

\* block.tipPercentiles: one pass over the transactions, which newBlock has sorted
\* by tip, for all percentiles.
SortedTxs(b) == SortSeq(b.txs, LAMBDA s, t : s.tip < t.tip)
TipPercentiles(b) ==
  LET txs == SortedTxs(b)
      advance[s \in Nat \X Nat \X Nat] ==       \* index, gas so far, threshold
        IF s[2] < s[3] /\ s[1] < Len(txs)
          THEN advance[<<s[1] + 1, s[2] + txs[s[1] + 1].gas, s[3]>>]
          ELSE <<s[1], s[2]>>
      at[i \in 0 .. Len(Percentiles)] ==
        IF i = 0 THEN <<1, txs[1].gas>>
        ELSE advance[<<at[i - 1][1], at[i - 1][2], (b.gasUsed * Percentiles[i]) \div 100>>]
  IN [i \in DOMAIN Percentiles |-> IF txs = <<>> THEN 0 ELSE txs[at[i][1]].tip]

\* The order of the loads: the label first, and only then the accepted block that
\* the end of the range is compared with.
AcceptedFirst == [start |-> "accepted", accepted |-> "resolve", resolve |-> "range"]
LoadOrder == [start |-> "resolve", resolve |-> "accepted", accepted |-> "range"]

StartHistory ==
  /\ history = NoHistory
  /\ \E count \in Counts :
       history' = [at |-> LoadOrder["start"], count |-> count, end |-> 0, accepted |-> 0,
                   next |-> 0, rows |-> <<>>, fee |-> 0, failed |-> FALSE]
  /\ UNCHANGED <<chainVars, cacheVars, last, tip>>

\* A number, or a label of the accepted, executed or settled block.
ResolveBlockNumber ==
  /\ history.at = "resolve"
  /\ \E n \in 0 .. LastAccepted :
       history' = [history EXCEPT !.at = LoadOrder[@], !.end = n]
  /\ UNCHANGED <<chainVars, cacheVars, last, tip>>

LoadAccepted ==
  /\ history.at = "accepted"
  /\ history' = [history EXCEPT !.at = LoadOrder[@], !.accepted = LastAccepted]
  /\ UNCHANGED <<chainVars, cacheVars, last, tip>>

\* errHistoryDepthExhausted, nothing to return, or the first block of the range.
ChooseRange ==
  /\ history.at = "range"
  /\ LET count == Min({history.count, HistoryMaxBlocks, history.end + 1})
     IN history' = IF history.end < history.accepted - HistoryMaxBlocksFromHead \/ count = 0
                     THEN NoHistory
                     ELSE [history EXCEPT !.at = "block", !.next = history.end + 1 - count]
  /\ UNCHANGED <<chainVars, cacheVars, last, tip>>

Row(b) == [fee |-> b.fee, rewards |-> TipPercentiles(b)]

\* The context of the call has ended.
Cancel ==
  /\ history.at = "block"
  /\ history' = NoHistory
  /\ UNCHANGED <<chainVars, cacheVars, last, tip>>

\* One iteration of the loop; errMissingBlock if there is no block.
ReadBlock ==
  /\ history.at = "block"
  /\ LET n == history.next
         b == GetBlock(n)
     IN /\ history' = IF IsNil(b) THEN [history EXCEPT !.at = "done", !.failed = TRUE]
                      ELSE [history EXCEPT !.next = n + 1, !.rows = Append(@, Row(b)),
                              !.at = IF n < history.end THEN "block" ELSE "fee"]
        /\ cache' = IF IsNil(b) THEN cache ELSE cache \cup {n}
  /\ UNCHANGED <<chainVars, events, last, tip>>

\* Its own base fee takes the place of the bound that a block lacks.
UpperBound(b) == IF b.endFee = Unbounded THEN b.fee ELSE b.endFee

\* The base fee of the next block, or its bound when there is none.
NextBaseFee ==
  /\ history.at = "fee"
  /\ LET n == history.end + 1
         b == GetBlock(n)
     IN IF history.end = history.accepted
          THEN /\ history' = [history EXCEPT !.at = "done", !.fee = UpperBound(chain[n])]
               /\ UNCHANGED cache
        ELSE IF IsNil(b)
          THEN /\ history' = [history EXCEPT !.at = "done", !.failed = TRUE]
               /\ UNCHANGED cache
        ELSE /\ history' = [history EXCEPT !.at = "done", !.fee = b.fee]
             /\ cache' = cache \cup {n}
  /\ UNCHANGED <<chainVars, events, last, tip>>

ReturnHistory ==
  /\ history.at = "done"
  /\ history' = NoHistory
  /\ UNCHANGED <<chainVars, cacheVars, last, tip>>

FeeHistory ==
  \/ StartHistory \/ ResolveBlockNumber \/ LoadAccepted \/ ChooseRange \/ Cancel
  \/ ReadBlock \/ NextBaseFee \/ ReturnHistory

Next ==
  \/ Accept \/ Announce \/ CacheAccepted \/ EvictLeastRecent
  \/ \E c \in Callers : \/ StartSuggest(c) \/ ReadLast(c) \/ UpdateLast(c)
                        \/ LoadBounds(c) \/ LoadBaseFee(c) \/ ReturnPrices(c)
  \/ FeeHistory

Spec == Init /\ [][Next]_vars

----------------------------------------------------------------------------
\* The least tip t such that the transactions with tips up to t have the share p of
\* the gas of the block, or the greatest tip if no such share exists.
IsTipAt(b, p, t) ==
  LET upTo(x) == FoldLeft(LAMBDA g, tx : IF tx.tip <= x THEN g + tx.gas ELSE g, 0, b.txs)
      tips == {tx.tip : tx \in Range(b.txs)}
      enough == {x \in tips : upTo(x) >= (b.gasUsed * p) \div 100}
  IN t = IF tips = {} THEN 0 ELSE IF enough = {} THEN Max(tips) ELSE Min(enough)

\* FeeHistory never fails with errMissingBlock, although blocks are accepted and
\* evicted from the cache between its loads, and returns consecutive blocks with the
\* tips that their percentiles define, and the base fee or bound that follows them.
HistoryMatchesChain ==
  history.at = "done" =>
    /\ ~ history.failed
    /\ \A i \in DOMAIN history.rows :
         LET b == chain[history.end + 1 - Len(history.rows) + i] IN
         /\ history.rows[i].fee = b.fee
         /\ \A j \in DOMAIN Percentiles :
              IsTipAt(b, Percentiles[j], history.rows[i].rewards[j])
    /\ \/ history.fee = UpperBound(chain[history.end + 1])
       \/ history.end < LastAccepted /\ history.fee = chain[history.end + 2].fee

\* The suggestion never goes back to older blocks, is never older than what was
\* accepted when its caller came in, and stays between the configured limits: a slow
\* caller must not overwrite what a faster one has computed from later blocks.  The
\* three prices are in order, and leave room for twice the base fee, or its bound, of
\* one block that is not older either, although that is loaded separately.
SuggestionIsFresh ==
  [][/\ last'.number >= last.number
     /\ last'.price \in MinSuggestedTip .. MaxSuggestedTip
     /\ \A c \in Callers :
          /\ tip[c].at \in {"read", "lock"} /\ tip'[c].at \notin {"read", "lock"} =>
               last'.number >= tip[c].accepted
          /\ tip[c].at # "priced" /\ tip'[c].at = "priced" =>
               LET p == tip'[c].prices IN
               /\ 0 < p[1].tip /\ p[1].tip <= p[2].tip /\ p[2].tip <= p[3].tip
               /\ \E n \in tip[c].accepted .. LastAccepted : \A i \in 1 .. 3 :
                    p[i].fee - p[i].tip \in {2 * chain[n + 1].fee, 2 * UpperBound(chain[n + 1])}]_vars
=============================================================================
