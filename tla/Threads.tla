------------------------------ MODULE Threads ------------------------------
(***************************************************************************)
(* The goroutines of a VM and the channels between them: the transaction   *)
(* pool that wakes up the engine (signalNewTxsToEngine, WaitForEvent), the *)
(* queue that feeds the executor (Enqueue, processQueue), the feed that    *)
(* tells subscribers of accepted blocks (the gas-price estimator and the   *)
(* clients of newAcceptedTransactions), P2P gossip, and Shutdown, which    *)
(* stops them in the reverse of the order in which NewVM started them.     *)
(*                                                                         *)
(* The engine calls WaitForEvent from a goroutine of its own, and accepts  *)
(* blocks or shuts down under its lock; it gives up a chain on which       *)
(* AcceptBlock returned an error.  The pool, the feed and the RPC server   *)
(* are those of libevm, known here by how the VM uses them.                *)
(***************************************************************************)
EXTENDS Integers

CONSTANTS
  MaxPending,   \* bound: pending transactions, and pool events not yet sent
  QueueCap,     \* capacity of the executor's channel
  ClientCap,    \* acceptedBlocksBuf
  Loads         \* bound: what happens in one behaviour, some of "txs" and "blocks"

ASSUME ThreadsAssumption ==
  /\ MaxPending \in Nat \ {0} /\ QueueCap \in Nat \ {0} /\ ClientCap \in Nat \ {0}
  /\ Loads \subseteq SUBSET {"txs", "blocks"}

VARIABLES
  load,         \* a member of Loads
  pending,      \* number of pending transactions in the pool
  events,       \* events that the pool has yet to send on `ch`
  subscribed, chOpen, feed,   \* the subscription, `ch`, and its goroutine
  newTxs, newTxsOpen,         \* the number of signals buffered in VM.newTxs
  waiter,       \* where WaitForEvent is
  queued, quit, executor,     \* Executor.queue, .quit, and its goroutine
  trackerOpen, xdbOpen,
  bootstrapping,              \* consensusState
  accept,       \* where AcceptBlock is
  last,         \* how far the last accepted block got
  subs, sendTo, buffered,     \* VM.acceptedBlocks, and the channels of subscribers
  estimator, client,          \* the goroutines of subscribers
  connOpen,     \* the connection of the client
  gossip, cancelled,          \* the goroutines of P2P gossip, and their context
  poolOpen,
  down          \* where Shutdown is

poolVars == <<load, pending, events, poolOpen, gossip, cancelled>>
signalVars == <<subscribed, chOpen, feed, newTxs, newTxsOpen>>
execVars == <<queued, quit, executor, trackerOpen, xdbOpen>>
feedVars == <<subs, sendTo, buffered, estimator, client, connOpen>>
acceptVars == <<bootstrapping, accept, last, feedVars>>
vars == <<poolVars, signalVars, waiter, execVars, acceptVars, down>>

Subscribers == {"estimator", "client"}
Capacity == [s \in Subscribers |-> IF s = "estimator" THEN 1 ELSE ClientCap]

Init ==
  /\ load \in Loads
  /\ pending = 0 /\ events = 0
  /\ subscribed = TRUE /\ chOpen = TRUE /\ feed = "range"
  /\ newTxs = 0 /\ newTxsOpen = TRUE
  /\ waiter = "idle"
  /\ queued = 0 /\ quit = FALSE /\ executor = "select"
  /\ trackerOpen = TRUE /\ xdbOpen = TRUE
  /\ bootstrapping = TRUE /\ accept = "idle" /\ last = "executed"
  /\ subs = {"estimator"} /\ sendTo = {} /\ buffered = [s \in Subscribers |-> 0]
  /\ estimator = "select" /\ client = "none" /\ connOpen = FALSE
  /\ gossip = "wait" /\ cancelled = FALSE /\ poolOpen = TRUE
  /\ down = "up"

----------------------------------------------------------------------------
\* The pool: transactions become pending, and an event follows; they are also
\* included in a block, or dropped.
AddTx ==
  /\ poolOpen /\ "txs" \in load
  /\ pending < MaxPending /\ events < MaxPending
  /\ pending' = pending + 1
  /\ events' = IF subscribed THEN events + 1 ELSE events
  /\ UNCHANGED <<load, poolOpen, gossip, cancelled, signalVars, waiter, execVars, acceptVars, down>>

RemoveTx ==
  /\ pending > 0
  /\ pending' = pending - 1
  /\ UNCHANGED <<load, events, poolOpen, gossip, cancelled, signalVars, waiter, execVars, acceptVars, down>>

----------------------------------------------------------------------------
\* signalNewTxsToEngine

\* `for range ch`: an event arrives, or the channel is closed ...
ReceiveEvent ==
  /\ feed = "range" /\ chOpen
  /\ events > 0
  /\ events' = events - 1
  /\ feed' = "signal"
  /\ UNCHANGED <<load, pending, poolOpen, gossip, cancelled, subscribed, chOpen, newTxs, newTxsOpen,
                 waiter, execVars, acceptVars, down>>

\* ... and one signal is buffered, or dropped if there is one already; without a
\* buffer it would need a receiver at that moment.
Unbuffered == IF waiter = "select" THEN 1 ELSE 0
Buffered == 1
Signal ==
  /\ feed = "signal"
  /\ newTxs' = Buffered
  /\ feed' = "range"
  /\ UNCHANGED <<poolVars, subscribed, chOpen, newTxsOpen, waiter, execVars, acceptVars, down>>

\* The goroutine closes newTxs on its way out.
NoDefer == FALSE
DeferredClose == TRUE
EndFeed ==
  /\ feed = "range" /\ ~ chOpen
  /\ feed' = "exited"
  /\ newTxsOpen' = ~ DeferredClose
  /\ UNCHANGED <<poolVars, subscribed, chOpen, newTxs, waiter, execVars, acceptVars, down>>

----------------------------------------------------------------------------
\* WaitForEvent

StartWait ==
  /\ waiter = "idle" /\ down = "up" /\ "txs" \in load
  /\ waiter' = "check"
  /\ UNCHANGED <<poolVars, signalVars, execVars, acceptVars, down>>

\* numPendingTxs, before the loop and again after each signal; transactions may
\* arrive between it and the select.
CheckPending ==
  /\ waiter \in {"check", "recheck"}
  /\ waiter' = IF pending = 0 THEN "loop"
               ELSE IF waiter = "check" THEN "drain" ELSE "idle"
  /\ UNCHANGED <<poolVars, signalVars, execVars, acceptVars, down>>

EnterSelect ==
  /\ waiter = "loop"
  /\ waiter' = "select"
  /\ UNCHANGED <<poolVars, signalVars, execVars, acceptVars, down>>

\* A signal that is buffered is for these transactions, probably.
Drain ==
  /\ waiter = "drain"
  /\ newTxs' = 0
  /\ waiter' = "idle"
  /\ UNCHANGED <<poolVars, subscribed, chOpen, feed, newTxsOpen, execVars, acceptVars, down>>

ReceiveSignal ==
  /\ waiter = "select"
  /\ newTxs > 0
  /\ newTxs' = newTxs - 1
  /\ waiter' = "recheck"
  /\ UNCHANGED <<poolVars, subscribed, chOpen, feed, newTxsOpen, execVars, acceptVars, down>>

\* The channel is closed and empty: "VM closed".
ReceiveClosed ==
  /\ waiter = "select"
  /\ newTxs = 0 /\ ~ newTxsOpen
  /\ waiter' = "idle"
  /\ UNCHANGED <<poolVars, signalVars, execVars, acceptVars, down>>

\* The caller's context is cancelled.
CancelWait ==
  /\ waiter = "select"
  /\ waiter' = "idle"
  /\ UNCHANGED <<poolVars, signalVars, execVars, acceptVars, down>>

----------------------------------------------------------------------------
\* AcceptBlock, from Send on

SetState ==
  /\ accept = "idle" /\ down = "up" /\ "blocks" \in load
  /\ bootstrapping
  /\ bootstrapping' = FALSE
  /\ UNCHANGED <<poolVars, signalVars, waiter, execVars, accept, last, feedVars, down>>

\* FeedOf.Send takes those who subscribed before it, ...
StartAccept ==
  /\ accept = "idle" /\ down = "up" /\ "blocks" \in load
  /\ accept' = "send"
  /\ sendTo' = subs
  /\ UNCHANGED <<poolVars, signalVars, waiter, execVars, bootstrapping, last, subs,
                 buffered, estimator, client, connOpen, down>>

\* ... and waits until each has room in its channel or unsubscribes.
Deliver ==
  /\ accept = "send"
  /\ \E s \in sendTo :
       /\ buffered[s] < Capacity[s]
       /\ buffered' = [buffered EXCEPT ![s] = @ + 1]
       /\ sendTo' = sendTo \ {s}
  /\ UNCHANGED <<poolVars, signalVars, waiter, execVars, bootstrapping, accept, last, subs,
                 estimator, client, connOpen, down>>

EndSend ==
  /\ accept = "send" /\ sendTo = {}
  /\ accept' = "enqueue"
  /\ UNCHANGED <<poolVars, signalVars, waiter, execVars, bootstrapping, last, feedVars, down>>

\* Executor.Enqueue selects between room in the queue and an executor that is
\* done, which it can be only because a block failed.
Enqueue ==
  /\ accept = "enqueue"
  /\ \/ /\ queued < QueueCap /\ queued' = queued + 1
        /\ last' = "queued"
        /\ accept' = IF bootstrapping THEN "await" ELSE "idle"
     \/ /\ executor = "exited"
        /\ accept' = "failed"
        /\ UNCHANGED <<queued, last>>
  /\ UNCHANGED <<poolVars, signalVars, waiter, quit, executor, trackerOpen, xdbOpen,
                 bootstrapping, feedVars, down>>

\* WaitUntilExecuted, while bootstrapping; the rest of AcceptBlock does not block.
AwaitExecuted ==
  /\ accept = "await" /\ last = "executed"
  /\ accept' = "idle"
  /\ UNCHANGED <<poolVars, signalVars, waiter, execVars, bootstrapping, last, feedVars, down>>

\* The caller's context is cancelled.
CancelAccept ==
  /\ accept \in {"enqueue", "await"}
  /\ accept' = "failed"
  /\ UNCHANGED <<poolVars, signalVars, waiter, execVars, bootstrapping, last, feedVars, down>>

----------------------------------------------------------------------------
\* The subscribers of accepted blocks

\* FeedOf.Unsubscribe, which a Send that waits for this subscriber does not hold up.
Unfeed(s) ==
  /\ subs' = subs \ {s}
  /\ sendTo' = sendTo \ {s}

\* The goroutine of NewEstimator puts blocks in its cache until Close.
CacheBlock ==
  /\ estimator = "select" /\ buffered["estimator"] > 0
  /\ buffered' = [buffered EXCEPT !["estimator"] = @ - 1]
  /\ UNCHANGED <<poolVars, signalVars, waiter, execVars, bootstrapping, accept, last, subs,
                 sendTo, estimator, client, connOpen, down>>

EndEstimator ==
  /\ estimator = "select" /\ "estimator" \notin subs
  /\ estimator' = "exited"
  /\ UNCHANGED <<poolVars, signalVars, waiter, execVars, bootstrapping, accept, last, subs,
                 sendTo, buffered, client, connOpen, down>>

\* NewAcceptedTransactions, called by a client that connects.
Subscribe ==
  /\ client = "none" /\ down = "up" /\ "blocks" \in load
  /\ client' = "select" /\ connOpen' = TRUE
  /\ subs' = subs \cup {"client"}
  /\ buffered' = [buffered EXCEPT !["client"] = 0]
  /\ UNCHANGED <<poolVars, signalVars, waiter, execVars, bootstrapping, accept, last, sendTo,
                 estimator, down>>

\* Its goroutine receives a block, ...
ReceiveBlock ==
  /\ client = "select" /\ buffered["client"] > 0
  /\ buffered' = [buffered EXCEPT !["client"] = @ - 1]
  /\ client' = "notify"
  /\ UNCHANGED <<poolVars, signalVars, waiter, execVars, bootstrapping, accept, last, subs,
                 sendTo, estimator, connOpen, down>>

\* ... and Notify returns when the client has read, or with an error.
Notify ==
  /\ client = "notify"
  /\ client' = IF connOpen THEN "select" ELSE "return"
  /\ UNCHANGED <<poolVars, signalVars, waiter, execVars, bootstrapping, accept, last, subs,
                 sendTo, buffered, estimator, connOpen, down>>

\* The client disconnects, or does not read until a write times out.
Disconnect ==
  /\ connOpen
  /\ connOpen' = FALSE
  /\ UNCHANGED <<poolVars, signalVars, waiter, execVars, bootstrapping, accept, last, subs,
                 sendTo, buffered, estimator, client, down>>

SeeClosed ==
  /\ client = "select" /\ ~ connOpen
  /\ client' = "return"
  /\ UNCHANGED <<poolVars, signalVars, waiter, execVars, bootstrapping, accept, last, subs,
                 sendTo, buffered, estimator, connOpen, down>>

\* The deferred Unsubscribe.
KeepSubscription == UNCHANGED <<subs, sendTo>>
DeferredUnsubscribe == Unfeed("client")
EndClient ==
  /\ client = "return"
  /\ DeferredUnsubscribe
  /\ client' = "none"
  /\ UNCHANGED <<poolVars, signalVars, waiter, execVars, bootstrapping, accept, last,
                 buffered, estimator, connOpen, down>>

----------------------------------------------------------------------------
\* Executor.processQueue; the last accepted block is the last in the queue.

Dequeue ==
  /\ executor = "select"
  /\ queued > 0
  /\ queued' = queued - 1
  /\ last' = IF queued = 1 THEN "executing" ELSE last
  /\ executor' = "execute"
  /\ UNCHANGED <<poolVars, signalVars, waiter, quit, trackerOpen, xdbOpen, bootstrapping,
                 accept, feedVars, down>>

Execute ==
  /\ executor = "execute"
  /\ \/ executor' = "exited" /\ UNCHANGED last
     \/ executor' = "select" /\ last' = IF last = "executing" THEN "executed" ELSE last
  /\ UNCHANGED <<poolVars, signalVars, waiter, queued, quit, trackerOpen, xdbOpen,
                 bootstrapping, accept, feedVars, down>>

Quit ==
  /\ executor = "select"
  /\ quit
  /\ executor' = "exited"
  /\ UNCHANGED <<poolVars, signalVars, waiter, queued, quit, trackerOpen, xdbOpen,
                 acceptVars, down>>

----------------------------------------------------------------------------
\* Gossip, which reads from the pool and adds to it at intervals, until its context
\* is cancelled.

Tick ==
  /\ gossip = "wait" /\ "txs" \in load
  /\ gossip' = "busy"
  /\ UNCHANGED <<load, pending, events, poolOpen, cancelled, signalVars, waiter, execVars, acceptVars, down>>

FinishGossip ==
  /\ gossip = "busy"
  /\ gossip' = "wait"
  /\ UNCHANGED <<load, pending, events, poolOpen, cancelled, signalVars, waiter, execVars, acceptVars, down>>

StopGossip ==
  /\ gossip = "wait" /\ cancelled
  /\ gossip' = "exited"
  /\ UNCHANGED <<load, pending, events, poolOpen, cancelled, signalVars, waiter, execVars, acceptVars, down>>

----------------------------------------------------------------------------
\* VM.Shutdown: close, over toClose in reverse

\* The RPC provider: the server closes connections, and the estimator unsubscribes.
StartShutdown ==
  /\ down = "up" /\ accept \in {"idle", "failed"}
  /\ connOpen' = FALSE
  /\ Unfeed("estimator")
  /\ down' = "cancel"
  /\ UNCHANGED <<poolVars, signalVars, waiter, execVars, bootstrapping, accept, last,
                 buffered, estimator, client>>

\* Gossip: cancel, then wait for the goroutines.
CancelGossip ==
  /\ down = "cancel"
  /\ cancelled' = TRUE
  /\ down' = "wait"
  /\ UNCHANGED <<load, pending, events, poolOpen, gossip, signalVars, waiter, execVars, acceptVars>>

WaitForGossip ==
  /\ down = "wait"
  /\ gossip = "exited"
  /\ down' = "unsubscribe"
  /\ UNCHANGED <<poolVars, signalVars, waiter, execVars, acceptVars>>

\* The subscription, which gives up the events that were not received, and `ch`.
Unsubscribe ==
  /\ down = "unsubscribe"
  /\ subscribed' = FALSE /\ events' = 0
  /\ down' = "closeCh"
  /\ UNCHANGED <<load, pending, poolOpen, gossip, cancelled, chOpen, feed, newTxs, newTxsOpen, waiter,
                 execVars, acceptVars>>

CloseCh ==
  /\ down = "closeCh"
  /\ chOpen' = FALSE
  /\ down' = "closePool"
  /\ UNCHANGED <<poolVars, subscribed, feed, newTxs, newTxsOpen, waiter, execVars, acceptVars>>

ClosePool ==
  /\ down = "closePool"
  /\ poolOpen' = FALSE
  /\ down' = "quit"
  /\ UNCHANGED <<load, pending, events, gossip, cancelled, signalVars, waiter, execVars, acceptVars>>

\* Executor.Close: close quit, wait for the goroutine, close the tracker.
CloseQuit ==
  /\ down = "quit"
  /\ quit' = TRUE
  /\ down' = "done"
  /\ UNCHANGED <<poolVars, signalVars, waiter, queued, executor, acceptVars, trackerOpen, xdbOpen>>

NoWait == TRUE
IsDone == executor = "exited"
CloseTracker ==
  /\ down = "done"
  /\ IsDone
  /\ trackerOpen' = FALSE
  /\ down' = "closeXDB"
  /\ UNCHANGED <<poolVars, signalVars, waiter, queued, quit, executor, acceptVars, xdbOpen>>

CloseXDB ==
  /\ down = "closeXDB"
  /\ xdbOpen' = FALSE
  /\ down' = "down"
  /\ UNCHANGED <<poolVars, signalVars, waiter, queued, quit, executor, trackerOpen, acceptVars>>

----------------------------------------------------------------------------
Feed == ReceiveEvent \/ Signal \/ EndFeed
Wait == CheckPending \/ EnterSelect \/ Drain \/ ReceiveSignal \/ ReceiveClosed
Accept == Deliver \/ EndSend \/ Enqueue \/ AwaitExecuted
Estimate == CacheBlock \/ EndEstimator
Client == ReceiveBlock \/ Notify \/ SeeClosed \/ EndClient
Executor == Dequeue \/ Execute \/ Quit
Shutdown ==
  \/ CancelGossip \/ WaitForGossip \/ Unsubscribe \/ CloseCh \/ ClosePool \/ CloseQuit
  \/ CloseTracker \/ CloseXDB

Next ==
  \/ AddTx \/ RemoveTx \/ StartWait \/ CancelWait \/ SetState \/ StartAccept \/ CancelAccept
  \/ Subscribe \/ Disconnect \/ StartShutdown
  \/ Feed \/ Wait \/ Accept \/ Estimate \/ Client \/ Executor
  \/ Tick \/ FinishGossip \/ StopGossip \/ Shutdown

\* Goroutines that can run are scheduled.  Go's select picks among the ready cases
\* at random, so that the executor, whose queue nobody fills during Shutdown, gets
\* to see the closed quit channel, and gossip its context between two ticks.
Spec ==
  /\ Init /\ [][Next]_vars
  /\ WF_vars(Feed) /\ WF_vars(Wait) /\ WF_vars(Accept) /\ WF_vars(Executor)
  /\ WF_vars(Estimate) /\ WF_vars(Client)
  /\ WF_vars(FinishGossip) /\ SF_vars(StopGossip) /\ WF_vars(Shutdown)

----------------------------------------------------------------------------
\* No wake-up is lost: while transactions are pending, WaitForEvent does not block
\* for ever, although signalNewTxsToEngine drops signals and WaitForEvent drains
\* one that may be for later transactions.
PendingIsReported == waiter # "idle" /\ pending > 0 ~> waiter = "idle" \/ pending = 0

\* Shutdown returns, with every goroutine stopped and every caller released, even
\* if blocks are queued, a block is executing or has failed.
ShutdownCompletes ==
  down # "up" ~> /\ down = "down"
                 /\ executor = "exited" /\ feed = "exited" /\ gossip = "exited"
                 /\ estimator = "exited" /\ client = "none"
                 /\ waiter = "idle"

\* AcceptBlock returns: neither a full queue nor a subscriber that is slow, stalled or
\* gone holds up consensus for ever.  The one exception is a block that was accepted
\* while bootstrapping and enqueued although the executor had failed, or that failed
\* itself: nobody closes what WaitUntilExecuted waits for.
AcceptReturns ==
  accept = "send" ~> accept \in {"idle", "failed"} \/ (accept = "await" /\ executor = "exited")

\* Nothing is used after close removes it: a block executes only while the state
\* tracker and the execution results are open, gossip touches the pool only while
\* it is open, and the pool never sends on a closed channel, which would panic.
UsesOnlyOpen ==
  /\ executor = "execute" => trackerOpen /\ xdbOpen
  /\ gossip = "busy" => poolOpen
  /\ events > 0 => chOpen
=============================================================================
