------------------------------ MODULE WorstCase ------------------------------
(***************************************************************************)
(* Blocks are built from a worst-case prediction and executed later.  The  *)
(* block builder replays every unsettled block on top of the last settled  *)
(* state as if each transaction used all of its gas, and admits only what  *)
(* can be paid for in that state (packages worstcase and hook, and         *)
(* blockBuilderG.buildWithTxs).  The executor later runs the same blocks   *)
(* on the actual state, at the actual price (saexec.Execute), and compares *)
(* what it meets with the bounds that the builder recorded.                *)
(*                                                                         *)
(* The chain is linear: the choice between siblings does not change what   *)
(* is executed.  A block is accepted as soon as it is built.               *)
(***************************************************************************)
EXTENDS GasTime, Sequences

CONSTANTS
  Accounts,
  InitialBalance,
  Txs,          \* the transaction pool: [from, to, nonce, gas, cap, tip, value]
  Bars,         \* what executed code may leave: sets of the <<from, to>> that may not execute
  Ops,          \* potential end-of-block operations: [gas, cap, burn, mint]
  Times,        \* the times of blocks: [sec, sub]
  GasConfigs,   \* what GasConfigAfter may return: [target, cfg]
  GenesisGas,   \* what it returns for the genesis
  TauSeconds,
  Lambda,
  MaxFullBlocksInOpenQueue,
  TxGas,        \* the least gas of a transaction
  MaxHeight     \* blocks after the genesis

\* Every transaction that passes ValidateTransaction is possible, every amount, and every
\* configuration that GasPriceConfig.Validate accepts.
ASSUME WorstCaseAssumption ==
  /\ TauSeconds \in Nat \ {0} /\ Lambda \in Nat \ {0} /\ TxGas \in Nat \ {0}
  /\ MaxFullBlocksInOpenQueue \in Nat /\ MaxHeight \in Nat
  /\ InitialBalance \in [Accounts -> Nat]
  /\ \A tx \in Txs :
       /\ tx.from \in Accounts /\ tx.to \in Accounts
       /\ {tx.nonce, tx.gas, tx.cap, tx.tip, tx.value} \subseteq Nat
       /\ tx.gas >= TxGas /\ tx.tip <= tx.cap
  /\ Bars \subseteq SUBSET (Accounts \X Accounts)
  /\ \A o \in Ops :
       /\ {o.gas, o.cap} \subseteq Nat
       /\ DOMAIN o.burn \subseteq Accounts /\ DOMAIN o.mint \subseteq Accounts
       /\ \A a \in DOMAIN o.burn : {o.burn[a].nonce, o.burn[a].amount, o.burn[a].min} \subseteq Nat
       /\ \A a \in DOMAIN o.mint : o.mint[a] \in Nat
  /\ \A t \in Times : t.sec \in Nat /\ t.sub \in 0 .. Second - 1
  /\ GenesisGas \in GasConfigs
  /\ \A g \in GasConfigs :
       /\ g.target \in Nat
       /\ g.cfg \in [scaling : 1 .. MaxUint, min : 1 .. MaxUint, static : BOOLEAN]

VARIABLES
  chain,   \* accepted blocks; the genesis is chain[1]
  post,    \* the results of the executed prefix of chain
  build,   \* the worst-case state of the block being built
  exec     \* the block being executed

vars == <<chain, post, build, exec>>

None == [ok |-> FALSE]

----------------------------------------------------------------------------
\* hook.Op.ApplyTo on the state of the accounts

Debit(o, a) == IF a \in DOMAIN o.burn THEN o.burn[a].amount ELSE 0
Credit(o, a) == IF a \in DOMAIN o.mint THEN o.mint[a] ELSE 0

CoversAmount(o, s) == \A a \in DOMAIN o.burn : s.balance[a] >= o.burn[a].amount
CoversMinBalance(o, s) ==
  \A a \in DOMAIN o.burn : o.burn[a].min >= o.burn[a].amount /\ s.balance[a] >= o.burn[a].min

ApplyTo(o, s) ==
  [balance |-> [a \in Accounts |-> s.balance[a] - Debit(o, a) + Credit(o, a)],
   nonce |-> [a \in Accounts |-> s.nonce[a] + (IF a \in DOMAIN o.burn THEN 1 ELSE 0)],
   barred |-> s.barred]

----------------------------------------------------------------------------
\* worstcase.State

MaxGasSecondsPerBlock == TauSeconds * Lambda
MaxFullBlocksInClosedQueue == MaxFullBlocksInOpenQueue + 1

MaxBlockSizeUncapped(clock) == WrapMultiply(clock.hertz, MaxGasSecondsPerBlock)
SafeMaxBlockSize(clock) ==
  LET maxSafeRate == MaxUint \div (MaxFullBlocksInClosedQueue * MaxGasSecondsPerBlock)
  IN Smaller(clock.hertz, maxSafeRate) * MaxGasSecondsPerBlock

NewState(settled) ==
  [ok |-> TRUE, refused |-> FALSE, clock |-> post[settled].clock, state |-> post[settled].state,
   qSize |-> 0, blockSize |-> 0, maxBlockSize |-> 0, baseFee |-> 0, mins |-> <<>>]

QueueFull(w) == w.qSize > WrapMultiply(MaxFullBlocksInOpenQueue, w.maxBlockSize)

\* State.StartBlock up to the check of the queue and after it.
StartBlock(w, h) ==
  LET clock == BeforeBlock(w.clock, h) IN
  [w EXCEPT !.clock = clock, !.blockSize = 0, !.maxBlockSize = SafeMaxBlockSize(clock),
            !.baseFee = Price(clock), !.mins = <<>>]

\* What ApplyTx asks of the state before it converts the transaction: the sender has no
\* code, and the hook CanExecuteTransaction lets it send to the recipient.
Refused(tx, s) == <<tx.from, tx.to>> \in s.barred

\* txToOp: a transaction may revert, so it mints nothing.
TxToOpMint(tx, fee) ==
  LET price == Smaller(tx.cap, fee + tx.tip) IN
  [gas |-> tx.gas, cap |-> tx.cap,
   burn |-> [a \in {tx.from} |-> [nonce |-> tx.nonce, amount |-> tx.gas * price + tx.value,
                                  min |-> tx.gas * tx.cap + tx.value]],
   mint |-> [a \in {tx.to} |-> tx.value]]
TxToOpNoTip(tx, fee) == [TxToOpMint([tx EXCEPT !.tip = 0], fee) EXCEPT !.mint = [a \in {} |-> 0]]
TxToOp(tx, fee) == [TxToOpMint(tx, fee) EXCEPT !.mint = [a \in {} |-> 0]]

\* The checks and the effect of State.Apply.
Applicable(w, o) ==
  /\ o.gas <= w.maxBlockSize - w.blockSize
  /\ o.cap >= w.baseFee
  /\ \A a \in DOMAIN o.burn : o.burn[a].nonce = w.state.nonce[a]
  /\ CoversMinBalance(o, w.state)

Apply(w, o) ==
  [w EXCEPT !.state = ApplyTo(o, @), !.blockSize = @ + o.gas,
            !.mins = Append(@, [a \in DOMAIN o.burn |-> w.state.balance[a]])]

\* State.FinishBlock: the block is charged for all the gas it asked for.
ChargeMinimum(w, h) ==
  [w EXCEPT !.clock = AfterBlock(@, CeilDiv(w.blockSize, Lambda), h),
            !.qSize = WrapAdd(@, w.blockSize)]
FinishBlock(w, h) ==
  [w EXCEPT !.clock = AfterBlock(@, w.blockSize, h), !.qSize = WrapAdd(@, w.blockSize)]

Bounds(w) == [maxBaseFee |-> w.baseFee, latestEndTime |-> w.clock, minBalances |-> w.mins]

----------------------------------------------------------------------------
\* Replaying unsettled blocks; an error of any step sticks, and "refused" says that it is
\* the refusal of a sender.

\* The operations of a block: its transactions, then those of its end.
OpCount(b) == Len(b.txs) + Len(b.ops)
OpAt(b, i, fee) ==
  IF i <= Len(b.txs) THEN TxToOp(b.txs[i], fee) ELSE b.ops[i - Len(b.txs)]

ReplayOp(w, o) == IF w.ok /\ Applicable(w, o) THEN Apply(w, o) ELSE [w EXCEPT !.ok = FALSE]
ReplayTx(w, tx) ==
  IF w.ok /\ Refused(tx, w.state) THEN [w EXCEPT !.ok = FALSE, !.refused = TRUE]
  ELSE ReplayOp(w, TxToOp(tx, w.baseFee))
ReplayOps(w, b) ==
  LET after[i \in 0 .. OpCount(b)] ==
        IF i = 0 THEN w
        ELSE IF i <= Len(b.txs) THEN ReplayTx(after[i - 1], b.txs[i])
        ELSE ReplayOp(after[i - 1], b.ops[i - Len(b.txs)])
  IN after

ReplayBlock(w, b) ==
  LET started == StartBlock(w, b)
      opened == IF QueueFull(started) THEN [started EXCEPT !.ok = FALSE] ELSE started
      afterOps == ReplayOps(opened, b)[OpCount(b)]
  IN IF afterOps.ok THEN FinishBlock(afterOps, b) ELSE afterOps

\* The blocks of c after the settled one, from the state w.
Replay(c, settled, w) ==
  LET after[n \in settled .. Len(c)] ==
        IF n = settled THEN w ELSE ReplayBlock(after[n - 1], c[n])
  IN after

----------------------------------------------------------------------------
GenesisClock ==
  [sec |-> 0, frac |-> 0, hertz |-> RateOf(ClampTarget(GenesisGas.target)),
   target |-> ClampTarget(GenesisGas.target), excess |-> 0, cfg |-> GenesisGas.cfg]

GenesisState ==
  [balance |-> InitialBalance, nonce |-> [a \in Accounts |-> 0], barred |-> {}]

Init ==
  /\ chain = <<[sec |-> 0, sub |-> 0, target |-> GenesisClock.target, cfg |-> GenesisClock.cfg,
                txs |-> <<>>, ops |-> <<>>, settled |-> 1, bounds |-> None]>>
  /\ post = <<[clock |-> GenesisClock, state |-> GenesisState]>>
  /\ build = None
  /\ exec = None

Parent == chain[Len(chain)]

\* PreciseTime of a header, and that time less Tau.
PreciseTime(h) == At(h.sec, h.sub, Second)
SettleAt(h) == At(h.sec - TauSeconds, h.sub, Second)

\* LastToSettleAt: the last block executed in time whose child is known to be late,
\* from its header, from its interim time or from its result.
InTime(n, t) == n <= Len(post) /\ NotAfter(post[n].clock, t)
KnownLate(n, t) ==
  n <= Len(chain) =>
    LET known == {PreciseTime(chain[n])}
                   \cup {post[m].clock : m \in {n} \cap DOMAIN post}
                   \cup (IF n = Len(post) + 1 /\ exec # None THEN {exec.interim} ELSE {})
    IN \E start \in known : ~ NotAfter(start, t)
LastToSettleAt(n, t) ==
  \/ n = Parent.settled /\ KnownLate(n + 1, t)
  \/ n > Parent.settled /\ n <= Len(chain) /\ InTime(n, t) /\ KnownLate(n + 1, t)

----------------------------------------------------------------------------
\* buildWithTxs

\* A new header, the replay of unsettled blocks, and the start of the block.
StartBuild ==
  /\ build = None
  /\ Len(chain) <= MaxHeight
  /\ \E time \in Times, gas \in GasConfigs, settled \in 1 .. Len(post) :
       LET h == [sec |-> time.sec, sub |-> time.sub, target |-> gas.target,
                 cfg |-> gas.cfg, settled |-> settled]
           replayed == Replay(chain, settled, NewState(settled))[Len(chain)]
           w == IF replayed.ok THEN StartBlock(replayed, h) ELSE replayed
       IN /\ h.sec >= TauSeconds
          /\ NotAfter(PreciseTime(Parent), PreciseTime(h))
          /\ LastToSettleAt(settled, SettleAt(h))
          /\ w.ok => ~ QueueFull(w)
          /\ build' = [ok |-> TRUE, h |-> h, w |-> w, txs |-> <<>>, ops |-> <<>>]
  /\ UNCHANGED <<chain, post, exec>>

\* An error in the replay is returned: nothing is built on this settled block.
FailBuild ==
  /\ build # None /\ ~ build.w.ok
  /\ build' = None
  /\ UNCHANGED <<chain, post, exec>>

\* The loop over candidate transactions; those that do not apply are skipped.
IncludeTx(tx) ==
  /\ build # None /\ build.w.ok
  /\ build.ops = <<>>
  /\ build.w.maxBlockSize - build.w.blockSize >= TxGas
  /\ ~ Refused(tx, build.w.state)
  /\ LET o == TxToOp(tx, build.w.baseFee) IN
       /\ Applicable(build.w, o)
       /\ build' = [build EXCEPT !.w = Apply(@, o), !.txs = Append(@, tx)]
  /\ UNCHANGED <<chain, post, exec>>

\* The loop over potential end-of-block operations.
IncludeOp(o) ==
  /\ build # None /\ build.w.ok
  /\ Applicable(build.w, o)
  /\ build' = [build EXCEPT !.w = Apply(@, o), !.ops = Append(@, o)]
  /\ UNCHANGED <<chain, post, exec>>

FinishBuild ==
  /\ build # None /\ build.w.ok
  /\ LET h == build.h
         w == FinishBlock(build.w, h)
     IN chain' = Append(chain,
          [sec |-> h.sec, sub |-> h.sub, target |-> h.target, cfg |-> h.cfg, txs |-> build.txs,
           ops |-> build.ops, settled |-> h.settled, bounds |-> Bounds(w)])
  /\ build' = None
  /\ UNCHANGED <<post, exec>>

----------------------------------------------------------------------------
\* saexec.Execute; an error of a transaction or an operation is fatal, and the executor
\* stops.

Executing == chain[Len(post) + 1]

StartExecution ==
  /\ exec = None
  /\ Len(post) < Len(chain)
  /\ LET clock == BeforeBlock(post[Len(post)].clock, Executing) IN
     exec' = [ok |-> TRUE, clock |-> clock, interim |-> At(clock.sec, clock.frac, clock.hertz),
              baseFee |-> Price(clock), state |-> post[Len(post)].state, consumed |-> 0, done |-> 0]
  /\ UNCHANGED <<chain, post, build>>

\* core.ApplyTransaction of libevm: when it errors, what it does to balances, and that the
\* code it runs may change who may send.  MinimumGasConsumption makes it use at least a
\* fraction of the limit.
TxFails(tx) ==
  \/ Refused(tx, exec.state)
  \/ exec.state.nonce[tx.from] # tx.nonce
  \/ tx.cap < exec.baseFee
  \/ exec.state.balance[tx.from] < tx.gas * tx.cap + tx.value

MinimumGasConsumption(limit) == CeilDiv(limit, Lambda)

ApplyTransaction(tx, used, reverted, barred) ==
  LET price == Smaller(tx.cap, exec.baseFee + tx.tip)
      value == IF reverted THEN 0 ELSE tx.value
      o == [burn |-> [a \in {tx.from} |-> [amount |-> used * price + value]],
            mint |-> [a \in {tx.to} |-> value]]
  IN [ApplyTo(o, exec.state) EXCEPT !.barred = IF reverted THEN @ ELSE barred]

RunTx ==
  /\ exec # None
  /\ exec.done < Len(Executing.txs)
  /\ LET tx == Executing.txs[exec.done + 1] IN
       /\ ~ TxFails(tx)
       /\ \E used \in MinimumGasConsumption(tx.gas) .. tx.gas, reverted \in BOOLEAN,
             barred \in {exec.state.barred} \cup Bars :
            exec' = [exec EXCEPT !.state = ApplyTransaction(tx, used, reverted, barred),
                       !.interim = TickTime(@, used), !.consumed = @ + used, !.done = @ + 1]
  /\ UNCHANGED <<chain, post, build>>

RunOp ==
  /\ exec # None
  /\ exec.done >= Len(Executing.txs)
  /\ exec.done < OpCount(Executing)
  /\ LET o == Executing.ops[exec.done - Len(Executing.txs) + 1] IN
       /\ CoversMinBalance(o, exec.state)
       /\ exec' = [exec EXCEPT !.state = ApplyTo(o, @), !.interim = TickTime(@, o.gas),
                               !.consumed = @ + o.gas, !.done = @ + 1]
  /\ UNCHANGED <<chain, post, build>>

FinishExecution ==
  /\ exec # None
  /\ exec.done = OpCount(Executing)
  /\ post' = Append(post, [clock |-> AfterBlock(exec.clock, exec.consumed, Executing),
                           state |-> exec.state])
  /\ exec' = None
  /\ UNCHANGED <<chain, build>>

Next ==
  \/ StartBuild
  \/ FailBuild
  \/ \E tx \in Txs : IncludeTx(tx)
  \/ \E o \in Ops : IncludeOp(o)
  \/ FinishBuild
  \/ StartExecution
  \/ RunTx
  \/ RunOp
  \/ FinishExecution

Spec == Init /\ [][Next]_vars

\* customAPI.estimateNextBaseFee, and the last entry of Estimator.FeeHistory, for a block
\* that has bounds.
EstimateNextBaseFee(b) == Price(b.bounds.latestEndTime)

----------------------------------------------------------------------------
\* What the checks of a block's bounds log as an error or a warning, negated.

CheckBaseFeeBound(b, actual) == actual <= b.bounds.maxBaseFee

\* Before the i-th operation of the block, transactions included.
OpBurners(b, i) ==
  IF i <= Len(b.txs) THEN {b.txs[i].from} ELSE DOMAIN b.ops[i - Len(b.txs)].burn
CheckBalanceBounds(b, i, accounts, s) ==
  /\ i <= Len(b.bounds.minBalances)
  /\ DOMAIN b.bounds.minBalances[i] = accounts
  /\ \A a \in accounts : s.balance[a] >= b.bounds.minBalances[i][a]

----------------------------------------------------------------------------
(* The replay of history fails only for a sender: whatever was included under one
   prediction still applies, with the queue still open, when the prediction starts from a
   block settled later.  "Could not apply tx during historical worst-case calculation" is
   logged only when that later state refuses the sender of an included transaction, which
   has got code in between or which CanExecuteTransaction no longer lets send; never for a
   nonce, a fee, a balance, gas or the queue, and never for an end-of-block operation. *)
ReplayFailsOnlyForSender == build # None => build.w.ok \/ build.w.refused

(* What ApplyTx guarantees: "the sender of the transaction will have sufficient balance
   to cover its costs", at the price and in the state that actual execution meets, and
   every end-of-block operation is covered too.  Apart from failing hooks, the executor
   returns errFatal only for a sender that the actual state refuses, which ApplyTx says it
   cannot rule out ("We must still handle non-EOA issuance later during actual
   execution"). *)
ExecutionFailsOnlyForSender ==
  exec # None =>
    LET b == Executing
        n == Len(b.txs)
    IN /\ exec.done < n /\ TxFails(b.txs[exec.done + 1]) =>
            Refused(b.txs[exec.done + 1], exec.state)
       /\ exec.done >= n /\ exec.done < OpCount(b) =>
            CoversMinBalance(b.ops[exec.done - n + 1], exec.state)

(* The executor logs no violated bound: the actual base fee is at most the predicted one
   (CheckBaseFeeBound), the bounds have exactly the accounts that pay for the next
   transaction or operation, and each of these has at least the balance predicted for
   that point (checkBalanceBounds). *)
ChecksPass ==
  exec # None =>
    /\ CheckBaseFeeBound(Executing, exec.baseFee)
    /\ exec.done < OpCount(Executing) =>
         LET i == exec.done + 1 IN
         CheckBalanceBounds(Executing, i, OpBurners(Executing, i), exec.state)

(* "BaseFee returns an upper-bound estimate of the base fee for the next block": what the
   RPCs estimate from the bounds of a block covers the header of whatever is built on it,
   at any time, after any settlement, and the price at which the child is executed. *)
NextBaseFeeBounded ==
  /\ build # None /\ build.w.ok /\ Len(chain) > 1 => build.w.baseFee <= EstimateNextBaseFee(Parent)
  /\ exec # None /\ Len(post) > 1 => exec.baseFee <= EstimateNextBaseFee(chain[Len(post)])

(* LatestEndTime is an upper bound: no executed block ends after the predicted time,
   so what can be settled is never later than the builder assumed. *)
EndTimeBounded ==
  \A n \in 2 .. Len(post) : NotAfter(post[n].clock, chain[n].bounds.latestEndTime)

\* The sum of f[i] for i from m + 1 to n.
Total(f, m, n) ==
  LET sum[i \in m .. n] == IF i = m THEN 0 ELSE sum[i - 1] + f[i]
  IN sum[n]
GasLimit(b) == Total([i \in 1 .. OpCount(b) |-> OpAt(b, i, 0).gas], 0, OpCount(b))

(* The queue is counted exactly: the gas that the builder takes to be ahead of a block,
   and what it then adds, is the sum of the limits of all unsettled transactions and
   operations, and no sum overflows however high the rate. *)
QueueIsExact ==
  build # None /\ build.w.ok =>
    /\ build.w.qSize = Total([n \in DOMAIN chain |-> GasLimit(chain[n])],
                             build.h.settled, Len(chain))
    /\ build.w.qSize + build.w.blockSize <= MaxUint

(* What params says of MaxQueueWallTime, for an executor that drains the queue at the rate
   of the gas clock: "the maximum wall-clock duration a block should remain in the
   execution queue before execution finishes".  It does not hold when the gas target rises
   while the queue is long. *)
MaxQueueWallTime == MaxFullBlocksInClosedQueue * TauSeconds * Lambda
QueueTimeBounded ==
  \A n \in 2 .. Len(chain) :
    NotAfter(chain[n].bounds.latestEndTime,
             At(chain[n].sec + MaxQueueWallTime, chain[n].sub, Second))
=============================================================================
