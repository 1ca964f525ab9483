# A TLA+ model of strevm

`strevm` is a virtual machine for Avalanche chains with *Streaming Asynchronous
Execution* (SAE). Consensus orders blocks before they are executed: a block is
**accepted** once a worst-case prediction shows that all of its transactions can be
paid for, **executed** later by a stream that follows its own clock of consumed gas,
and **settled** when a later block, at least Tau after the end of its execution,
carries its results. These modules model the code under `src/`, TLC checks them on
small instances, and TLAPS proves the main results about the life cycle of blocks, the
lock-free readers, crashes and recovery, the gas clock and shutdown for all values of the
constants.

## 1. The system

| part | state | operations | module |
|---|---|---|---|
| block objects (`blocks`) | ancestry, interim time, execution results, two channels that close | `New`, `SetAncestors`, `MarkExecuted`, `MarkSettled`, `LastToSettleAt`, `Range`, `Settles` | `SAE` |
| consensus interface (`sae/blocks.go`, `consensus.go`) | three pointers, map of consensus-critical blocks, canonical and finalized hashes on disk | `VerifyBlock`, `AcceptBlock`, `RejectBlock`, `GetBlock`, `SetState` | `SAE`, `Readers` |
| executor (`saexec`) | queue, last executed, receipt buffers, gas clock | `Enqueue`, `processQueue`, `Execute`, `afterExecution`, `Close` | `SAE`, `WorstCase`, `Threads` |
| tracker and recovery (`saedb`, `sae/recovery.go`) | reference counts of tries in memory, committed tries, head, results | `Track`, `Untrack`, `MaybeCommit`, `NewVM` | `Tracker`, `Recovery` |
| gas clock (`gastime`, `proxytime`, `intmath`) | seconds, fraction, rate, target, excess, price configuration | `BeforeBlock`, `Tick`, `FastForwardTo`, `SetRate`, `AfterBlock` | `IntMath`, `GasTime`, `GasClock` |
| builder and worst case (`sae/block_builder.go`, `worstcase`, `hook`) | predicted balances, nonces, clock and queue size | `buildWithTxs`, `StartBlock`, `ApplyTx`, `Apply`, `FinishBlock`, the checks of `blocks/invariants.go` | `WorstCase` |
| readers (`blocks/access.go`, `sae/rpc`) | none of their own, except receipt buffers | `ResolveRPCNumber`, `FromHash`, `FromNumberOrHash`, `getReceipts`, `RecentReceipt`, `StateAndHeaderByNumberOrHash`, `StateAtBlock`, `StateAtTransaction` | `Readers` |
| goroutines (`sae/vm.go`) | channels, contexts, closers, feed subscriptions | `signalNewTxsToEngine`, `WaitForEvent`, `Enqueue`, `NewAcceptedTransactions`, `Shutdown`, gossip | `Threads` |
| pool order (`txgossip/priority.go`) | pending transactions | `TransactionsByPriority` | `Mempool` |
| estimator (`gasprice`, `sae/rpc/custom.go`) | block cache, last suggestion | `SuggestGasTipCap`, `SuggestPriceOptions`, `FeeHistory`, the caching goroutine | `Estimator` |

How they interact: the engine calls verify, accept and reject under one lock, so these
never overlap each other; the executor, the RPC readers, the estimator, the gossip
goroutines and `WaitForEvent` run beside them without that lock. Consensus and the
executor communicate through the fields of block objects, the queue and the
database. The order of those writes, disk, then memory, then internal pointer, then
external event (D, M, I, X in `docs/invariants.md`), is what makes lock-free readers
and recovery possible.

What is hard here: nodes whose executors run at different speeds must choose the same
block to settle; settling clears pointers that other code walks along; a crash may
fall between any two writes; the readers see every intermediate state; and the
prediction must bound an execution which happens later, at another price and from
another settled state. `PROJECT.json` lists these hazards with the lines where they
bite and the properties that would catch them.

## 2. The modules

Every mapped definition is in `PROJECT.json` with the lines that it stands for.

**SAE** is the core. Two processes run concurrently: consensus (program counter `cpc`)
and the execution stream (`epc`). Each load of `LastToSettleAt` and each write of
`AcceptBlock`, `MarkSettled`, `Execute` and `MarkExecuted` is a step, in the order of the
code. A header carries two things that follow from it and its ancestors alone: the
set of ancestors and `due`, the gas time at which its execution ends. The code never
has `due`, it only has what the executor published so far; that the two lead to the
same settlement is the first property. Time and gas use one scale, a tick, as
`proxytime.Time.Compare` makes them comparable. Siblings, rejection of whole branches,
bootstrapping and normal operation are all included. Other reasons to refuse a block
(a full queue, an invalid transaction) are the nondeterministic `RefuseBlock`.

**Ledger** is the abstract specification: one chain, an executed height and a settled
height, moving one block at a time, where the settled height after each acceptance is a
function of the chain (**Headers**). **SAELedger** states that SAE implements it under the
mapping of the VM's three pointers; the safety part is proved, all of it is model-checked.

**Recovery** follows one accepted chain and adds what SAE leaves out: the trie database
with its reference counts (**Tracker**), the commit interval or archival mode, crashes at
any step, also during recovery, and all of `NewVM`'s reconstruction. Roots are shared by
blocks that do not change the state, which is where counting is delicate. Where the code
calls `Track` or `Untrack` in a loop over blocks, the model does it at once with the number
of calls per root (`TrackAll`, `UntrackAll`); the lemmas `OneCall` and `MoreCalls` of
`RecoverySteps` prove that this is what single calls in sequence do. Two kinds of
end are told apart. `Crash` is that of the process: every write that returned is there.
`PowerLoss` is that of the machine: the database is a log of which a prefix survives, while
the execution results are synced as they are put, so that results of a block may outlive
the block. Each restart may choose another configuration, as long as it looks for states
where the old one committed them (`CompatibleConfig`: anything after an archival node, or
a multiple of the interval). The chain context from which the EVM gets ancestors for
`BLOCKHASH` is here too, since what it can read depends on how far `NewVM` has come.

**IntMath** and **GasTime** are the arithmetic and the gas clock as operators, on words
of a chosen width, with wrapping, rounding and clamping; **GasClock** runs the clock
over arbitrary sequences of blocks. The price function of avalanchego is external and
modelled by an integer series that rounds and saturates as it does.

**WorstCase** composes builder and executor on the same chain: accounts, nonces, fees,
transactions that use less gas than their limit or revert, end-of-block operations with
minimum balances, changing targets and prices, the size of the queue, and the bounds
which the executor checks. `ApplyTx` also asks the state whether the sender has code and
whether the hook `CanExecuteTransaction` lets it send to the recipient, and so does
libevm when the block is executed. Both questions are one set `barred` of pairs of sender
and recipient in the state, which code that a transaction runs may replace (`Bars`). The
builder asks it of the last settled state, again each time it replays a block on top of a
later one (`Refused` in `IncludeTx` and `ReplayTx`), the executor of the actual state.

**Readers** extends SAE by a reader: block by hash, header and block sources, receipts
by hash, number or label, the receipt of a transaction, bloom filters, and the state that
a stateful RPC opens, by hash, by number or label, for tracing a block or a transaction.
Every load of the map, the pointers, the buffers and the database is a step between which
SAE moves on. The garbage collector, which removes receipt buffers, may act at any time
once a block is unreachable. The variable `promised` records whether the answer was owed
when the call began, `floor` the height that its label had then. The last step of a
stateful call opens the state at the root it has found (`OpenState`), which fails if the
trie was pruned: the Tracker keeps in memory the states of the blocks in the map and of
what these have settled, the variable `committed` has those that `MaybeCommit` wrote to
disk, and any other is gone (`Pruned`). Blocks that did not change the state share a root,
so opening a pruned one may also succeed.

**Threads** has the goroutines and channels: the pool's events, the buffered signal and
`WaitForEvent`, the feed of accepted blocks with the estimator and a client of
`newAcceptedTransactions` as subscribers, `AcceptBlock` as far as it can block (the feed,
`Enqueue`, `WaitUntilExecuted`, a cancelled context), an executor that may fail, gossip,
and the closers in the reverse order of `NewVM`.

**Mempool** has the order in which the builder takes transactions: libevm's pending lists,
the comparator, and the steps of Go's stable sort.

**Estimator** has concurrent callers of `SuggestGasTipCap`, some of them on behalf of
`SuggestPriceOptions`, one of `FeeHistory`, the cache, its goroutine and its evictions, while
blocks with and without worst-case bounds are accepted.

**SAEInductive** and **RecoveryInductive** have the inductive invariants of SAE and Recovery.
**HeadersProofs**, **SAEProofs**, **ReadersProofs**, **RecoverySteps**, **RecoveryProofs**,
**GasTimeProofs**, **GasClockProofs** and **ThreadsProofs** hold the proofs (section 4).
`MC*` modules and `.cfg` files are the instances for TLC.

## 3. The runs

`CHECK_DEADLOCK` is off everywhere because every instance is bounded: when all blocks
have been used, the system rightly stops.

| run | states | what it shows |
|---|---|---|
| `lifecycle` | 2.9 million | all safety properties of SAE with 4 blocks in any tree, times that lead to settlement of none, one or several blocks, empty and non-empty blocks, a queue of 2 |
| `lifecycle_live` | 17 thousand | every call returns, every accepted block is executed, and SAE implements Ledger |
| `recovery` | 925 thousand | 4 blocks, intervals 2 and 4 and archival, last synchronous block at height 2, two crashes or losses of power: recovery can always start, ends, rebuilds exactly what a node without a crash has, and keeps exact reference counts; every state that somebody may still open is there |
| `gas_clock` | 478 thousand | the clock never goes back, starts each block at its time with the excess that follows from it, and a change of configuration continues the price; words of 4 bits so that every limit is reached |
| `worst_case` | 1.4 million | two accounts that depend on each other's payments, one of which may be barred by what was executed: replay and execution fail only for a barred sender, the executor's checks pass, the next base fee is at most the estimate, end times stay within the recorded bounds, and the counted queue is the real one, at rates below and above the greatest safe one |
| `readers` | 1.4 million | blocks and receipts that exist are found, states too unless they were pruned (commit interval 2), numbers resolve to canonical blocks, nothing is restored too early |
| `threads` | 22 thousand | no lost wake-up, `AcceptBlock` returns in spite of slow, stalled or leaving subscribers and a failed executor, shutdown ends, nothing is used after it is closed |
| `estimator` | 1.6 million | a fee history misses no block of its range, a suggested tip never comes from blocks older than its caller knew of, and price options are ordered and cover twice the base fee of a block as recent |

Bounds. Three blocks reach each pattern of settlement (a block settles none, its parent, or
several ancestors at once) and four add a fork below the settling block and a second
settlement that evicts the first. `lifecycle` and `lifecycle_live` have Tau = 1 and block
times up to 4 and 3, so that a block may be due before, at and after the time of
settlement. A queue of one or two blocks is both full and empty. Two crashes include a
crash during recovery from the first one. One write of the database may be lost with the
power (`MaxUnsynced`), which suffices to lose a block and keep its results.
`readers` uses three blocks at times 1 and 5, so that settlement moves past genesis at most
once in a behaviour (`get_block` adds time 3). `estimator` has two callers, one of them
of `SuggestPriceOptions`, who already race for its lock and its cached suggestion. In
`threads`, a behaviour has either transactions or blocks (`Loads`): what they share is the
shutdown, and with both there are more than 2.7 million states, too many for the check of
liveness. `gas_clock` has words of 4 bits and seconds of 3 ticks, `worst_case` 6 bits, so
that sums, products and scaled values wrap or saturate: one of its gas targets gives rate
16, where the greatest safe rate is 15. All of these are small instances: only the
results of section 4 hold beyond them.

Fairness. `SAE!FairSpec` and `Recovery!FairSpec` assume weak fairness of each goroutine,
that is of Go's scheduler, and nothing of the engine: it need not call again. A node that
is down is started again. `Threads!Spec` also assumes strong fairness of the step in
which gossip sees its cancelled context, because Go's `select` chooses at random among
ready cases. Execution of a block always ends, as gas is finite. A client of the RPC server
may connect, stop reading or disconnect, or never do either; a `Notify` to it ends all the
same, with an error once the server's write times out.

Four runs end in a violation, each stating what a comment in the code says:

* `get_block`: `GetBlock` can return neither a block nor an error, if the block is verified
  and accepted between its two lookups (`sae/blocks.go:214`).
* `recovery_blockhash`: `NewVM` executes blocks again before it has the map in which
  `headerSource` looks first, so a `BLOCKHASH` that reaches further back than the replayed
  blocks dereferences a nil map, although `saexec/context.go:29` wants it supported.
* `priority`: `TransactionsByPriority` can return two transactions of one sender against
  the order of their nonces (`txgossip/priority.go:23` says otherwise), because the
  comparator is not a strict weak order and Go's sort merges once there are more than 20
  transactions. The model has the range of 20 as a constant, and 3 in the instance.

* `queue_time`: `params/params.go:35` calls `MaxQueueWallTime` the maximum duration that a
  block should remain in the queue, if the executor drains it at the rate R. `StartBlock`
  measures the queue in full blocks of the current rate. When the target rises while the
  queue holds three full blocks of a lower rate, which had closed it, it is open again: a
  fourth block is admitted at once and finishes after that duration, although the executor
  keeps to the rate. No rate of this run is capped by `safeMaxBlockSize`.

Other observations, which are not runs:

* `docs/invariants.md:131` says that the state of every block up to the last executed one
  can be opened. An uncommitted state goes with the eviction of its block. What the code
  itself opens is always there (`StateAvailable`).
* The package comment of `worstcase` (`worstcase/state.go:4`) says that transactions are
  guaranteed to be valid during execution; `ApplyTx` itself (`state.go:201`) says that
  this cannot be guaranteed for a sender that gets code. `ExecutionFailsOnlyForSender` and
  `ReplayFailsOnlyForSender` say that this, or a hook that changes its mind, is the only
  exception. Such a transaction stops the executor with `errFatal`, and it also makes
  the replay fail in every attempt to build or verify a block that settles the state in
  which the sender is barred but not yet the transaction (`sae/block_builder.go:192`).
* `estimateNextBaseFee` is documented as an upper bound (`sae/rpc/custom.go:38`). Without
  bounds, that is for a block restored from the database, it is the fee of the last
  accepted block, which the next one may exceed; and it loads that block twice.
* The root of a block that is not in the map is read by number (`sae/rpc/stateful.go:217`).
  For a rejected block which a tracer still holds, that is the root of the accepted block of
  that number, and `StateAtBlock` opens the wrong state: `ResultsAreFound` is about blocks
  of the accepted chain.
* The pool opens the state of the last executed block after it has loaded the pointer
  (`txgossip/blockchain.go:66`); a node that executes and settles past it in between may
  have dropped that state. What libevm's pool then does with the error is not under `src/`.
* While a node recovers, executing a block again moves the head label back below the
  finalized one, contrary to the order of labels in `docs/invariants.md:45`; nothing reads
  the label in that window, except another recovery, which `RecoveryCanStart` covers.

The comment on `scaleFraction` (`proxytime.go:189`) says the scaled fraction is less than
the new rate; rounded up, it can be equal, which is why `SetRate` carries it over. The
mutant of `gas_clock`'s `TypeOK` removes that carry.

## 4. The proofs

`SAEProofs` proves, for every number of blocks, every set of times and gas amounts, every
Tau and every queue capacity (`SAEAssumption` says only that these are naturals, and that
the queue has room for at least one block):

`TypeCorrect`, `Determinism`, `ExecutionOrder`, `SettlementFollowsExecution`,
`SettlementPrecedesAcceptance`, `ParentsFirst`, `EvictionIsSafe`, `MapIsExact`,
`ErrorFree`, `BootstrapCertain` and `LabelsOnlyMoveUp`. Each is a property that the run
`lifecycle` checks.

None of these properties is inductive. Determinism, for example, depends on results in
memory being those that the headers imply, on the walk never crossing a settled block, and
on the meaning of `certain` half-way through the walk. `SAEInductive!IInv` states how
all variables agree at every pair of program counters:

* `Tree`: headers form a tree, along which height, time and due time grow;
* `StreamInv`, `QueueInv`, `TimesInv`: each effect of execution has reached exactly the
  chain up to a block that depends on `epc`; the queue is the stretch of the chain
  between the block in execution and the last enqueued one; published times agree with
  `due`;
* `ChainInv`, `SettledByInv`, `SettlingInv`, `MapInv`: disk, pointers, the blocks still to
  settle and the map, depending on `cpc`; what every block settles is determined by
  headers and already executed;
* `WalkInv`: once the walk is certain, all blocks that it passed end too late;
* `BootstrapInv`: between calls of a bootstrapping engine, execution has caught up.

`Init => IInv` and one lemma for each action are combined into `Invariance`; before them come
the lemmas about the tree (adding a block preserves it, branches are ordered by height) and
about the invariant, after them the properties.

`RefinesLedger`, also there, is the safety part of the refinement: `Spec` implies
`L!LedgerSafety`, so whatever the interleaving, the VM's three pointers show one chain that
is accepted, executed and settled block by block, and a block is accepted only after exactly
those settlements that the headers of the chain demand. The step lemmas show that each action
maps to a step of Ledger or to none; the substance is that the set-valued ancestry of SAE,
with its published times, agrees with `DueAt` and `SettledHeight` of the sequence
`ChainTo(lastAccepted)`, which `HeadersProofs` provides (due times grow, the settled height is
the greatest that qualifies, and a prefix determines them).

`ReadersProofs` proves the four properties of the run `readers` from the same assumptions, for
every commit interval: `BlocksAreFound`, `OwedResultsAreFound`, `NumbersAreCanonical` and
`RestoreSucceeds`. It also proves `ArchiveFindsStates`, that an archival node opens every
state that it owes, which has no run of its own. A reader
loads something, time passes, and it relies on what it saw. The invariant `ReadersInv`
therefore has, beside `IInv`, a fact for each load of each call (`CallInv`) that survives
every step of consensus and executor. Most of them say that the block is in a set that
only grows: the chain on disk, the accepted, the executed, the settled chain. The two that
are not of this form are the heart of the proof: a block that has left the map while it
was looked up is settled or rejected (`EvictedSettled`), and a block keeps its
receipt buffers from before it is enqueued until its receipts are on disk (`BuffersInv`).
A state once pruned stays pruned (`GoneGrows`): no new block settles a canonical block that
has left the map (`ToSettleIsHeld`), and nothing commits its state afterwards.
`NoGaps`, heights of a branch are consecutive, is what makes a number resolve at all.

`RecoverySteps` and `RecoveryProofs` prove all four safety properties of the run `recovery`,
for every chain, number of crashes and losses of power, number of unsynced writes and set of
configurations: `RecoveryAlwaysCanStart`, `StatesStayAvailable`, `ReferencesStayExact` and
`RecoveryIsExact`. `RecoveryAssumption` asks for positive commit intervals and Tau > 0
(`params.Tau` is 5 seconds): with Tau = 0 the search for what a restored block settles, which
begins at the block itself, could stop there.
`RecoveryInductive!RInv` relates the database, every earlier state of it that a loss of
power may bring back, the map and the reference counts:

* `LogInv`: the database, and each prefix of its log, is `Recoverable`: it has a head with a
  chain, the state of every commit that the configuration demands up to that head, and the
  results of these blocks. The results are synced on their own, so they are those of the
  current chain, of which the older ones are prefixes;
* `ExecutorInv`: the executor works from the block that recovery started with, whose state is
  on disk; a commit for an older settled state is on disk already. This is what makes it
  safe that `MaybeCommit` during recovery finds only states that are younger than the start;
* `RunningInv`: the map, `dropping` and what each block settles are functions of the chain, and
  what has to be settled has been executed;
* `CountsInv`: a trie in memory is younger than the start and has as many references as there
  are holders; only a trie that was just inserted has none;
* `AvailableInv`: the states that consensus, the executor or a reader may open are there.

Two arguments carry the proof. The first is arithmetic: the height that recovery starts
from is the last multiple of the interval, a compatible configuration has commits at all of its
own multiples (`MultipleOfMultiple`, `ConfigChange`), and the settled state of that height
is not younger than what any later block settles (`StartOfRecovery`). The second is counting:
roots do not decrease along a chain and counts are exact, so a root that has lost its last
reference is none that a block of the map, the executor or a verified block still needs
(`Unreferenced`). `RInv` was itself checked by TLC on
the instance of `recovery` and on a larger one before it was proved.

`GasTimeProofs` and `GasClockProofs` prove all four properties of `gas_clock`, `ClockWellFormed`
(`TypeOK`), `ClockNeverGoesBack` (`ClockMonotone`), `BlocksStartExactly` (`StartIsExact`) and
`PriceIsContinuous` (`PriceContinues`), for words of any width, seconds of any number of ticks,
any targets and every price configuration that `GasPriceConfig.Validate` admits
(`GasClockAssumption`). Times at different rates are compared by products, as the code does; the
lemmas say that the scaled fraction is the least one not below its value (`MulDivCeil` through
`SetTimeRate`), that `FastForwardTo` and `Tick` add exactly what they say, and that the clamped
target keeps the rate positive and inside its word. The price is shown to grow with the
excess through every term of its series (`SumsOrdered`), with saturation, from which it
follows that the binary search of `findExcessForPrice` returns the least excess with at least
that price (`SearchFinds`). The invariant `ClockInv` adds to the types of the two clocks that
inside a block they have the same rate and that the one per transaction is ahead by exactly the
gas consumed so far, which is why the end of a block, when the main clock ticks by that gas,
does not fall behind it.

`ThreadsProofs` proves `NothingUsedAfterClose`, the invariant `UsesOnlyOpen` of `threads`,
for every capacity and load. `ShutdownOrder` ties what is closed, and which goroutine
has ended, to the step that Shutdown has reached.

The recursive definitions in these proofs are recursive functions. What they compute is proved
by induction in first-order form: the least member of a set of counterexamples, ordered by a
natural number, cannot exist (`LeastNatural`, `MeasureInduction`).

Only model-checked:

* liveness, and the fairness of the refinement (`AcceptedIsExecuted`, `CallsReturn`,
  `ImplementsLedger`, `Recovers`, `PendingIsReported`, `ShutdownCompletes`, `AcceptReturns`),
  which are out of reach of this prover;
* all of `WorstCase`, whose properties compare two folds over the transactions of a block on
  two different clocks and two states, and of `Estimator`, whose results are sorted
  sequences and folds over them; both are written with operators on sequences for which the
  library has no theorems;
* the order of the pool (`Mempool`), whose sort is a recursive operator.

## 5. What is not modelled

* The EVM and libevm's pool, trie and snapshot code, and avalanchego's engine and gossip:
  external, known by how the VM uses them.
* Errors of database writes inside `AcceptBlock`: the engine treats them as fatal. A retry
  would not be safe, as `MarkSettled` fails the second time. A cancelled context is in
  `Threads`.
* Execution errors (`errFatal`) in detail: `ExecutionFailsOnlyForSender` shows when a
  transaction or operation can fail at all, `NoInternalError` that blocks arrive in order.
  In `WorstCase` the executor then stops; `Threads` lets it fail, to check that acceptance
  and shutdown still end.
* In `WorstCase`: errors that hooks return, credits to the coinbase, 256-bit overflow, and
  the limit on future block times.
* Reads of a state after an RPC has opened it, during which its trie may be pruned.
* Restarting with a configuration that is not compatible with the old one: the state to
  recover from may never have been committed, and `NewVM` returns an error. The path-based
  trie scheme.
* `SetPreference`, a single store that only `BuildBlock` reads, and the parsing of blocks.
* What libevm computes once an RPC has its block and state; registration of handlers,
  HTTP, the block adaptor, generated encodings, test helpers: they hold no state of the VM.
