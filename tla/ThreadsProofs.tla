--------------------------- MODULE ThreadsProofs ----------------------------
(***************************************************************************)
(* Shutdown closes nothing that is in use: UsesOnlyOpen of Threads, for    *)
(* every bound on transactions, every capacity of the queue and of the     *)
(* subscribers' channels, and every load.                                  *)
(*                                                                         *)
(* What has been closed follows from how far Shutdown got, and so does     *)
(* which goroutine has ended before; ShutdownOrder says so, and is         *)
(* inductive.                                                              *)
(***************************************************************************)
EXTENDS Threads, TLAPS

USE Zenon

\* The steps of Shutdown after each wait.
AfterGossip == {"unsubscribe", "closeCh", "closePool", "quit", "done", "closeXDB", "down"}
AfterUnsubscribe == AfterGossip \ {"unsubscribe"}
AfterPool == {"quit", "done", "closeXDB", "down"}
AfterExecutor == {"closeXDB", "down"}

\* What each step of Shutdown may rely on.
ShutdownOrder ==
  /\ down \in AfterGossip => gossip = "exited"
  /\ down \in AfterUnsubscribe <=> ~ subscribed
  /\ ~ subscribed => events = 0
  /\ ~ chOpen => ~ subscribed
  /\ ~ poolOpen => down \in AfterPool
  /\ down \in AfterExecutor => executor = "exited"
  /\ ~ trackerOpen \/ ~ xdbOpen => down \in AfterExecutor

\* The variables that ShutdownOrder is about.
shutdownVars ==
  <<down, gossip, subscribed, events, chOpen, poolOpen, executor, trackerOpen, xdbOpen>>

LEMMA Frame ==
  ASSUME ShutdownOrder, UNCHANGED shutdownVars
  PROVE  ShutdownOrder'
BY DEF ShutdownOrder, shutdownVars

\* Steps that touch neither Shutdown nor anything that it stops.
LEMMA OtherSteps ==
  ASSUME ShutdownOrder,
         \/ RemoveTx \/ StartWait \/ CancelWait \/ SetState \/ StartAccept \/ CancelAccept
         \/ Subscribe \/ Disconnect \/ Signal \/ EndFeed \/ Wait \/ Accept \/ Estimate \/ Client
         \/ UNCHANGED vars
  PROVE  ShutdownOrder'
<1> USE Frame DEF shutdownVars, vars, poolVars, signalVars, execVars, acceptVars, feedVars
<1>1. CASE RemoveTx \/ StartWait \/ CancelWait
  BY <1>1 DEF RemoveTx, StartWait, CancelWait
<1>2. CASE SetState \/ StartAccept \/ CancelAccept
  BY <1>2 DEF SetState, StartAccept, CancelAccept
<1>3. CASE Subscribe \/ Disconnect \/ Signal \/ EndFeed
  BY <1>3 DEF Subscribe, Disconnect, Signal, EndFeed
<1>4. CASE Wait
  BY <1>4 DEF Wait, CheckPending, EnterSelect, Drain, ReceiveSignal, ReceiveClosed
<1>5. CASE Accept
  BY <1>5 DEF Accept, Deliver, EndSend, Enqueue, AwaitExecuted
<1>6. CASE Estimate
  BY <1>6 DEF Estimate, CacheBlock, EndEstimator
<1>7. CASE Client
  BY <1>7 DEF Client, ReceiveBlock, Notify, SeeClosed, EndClient
<1>8. CASE UNCHANGED vars
  BY <1>8
<1> QED
  BY <1>1, <1>2, <1>3, <1>4, <1>5, <1>6, <1>7, <1>8

\* The pool sends to its subscriber, and goroutines run and end.
LEMMA GoroutineSteps ==
  ASSUME ShutdownOrder,
         \/ AddTx \/ ReceiveEvent \/ Executor \/ Tick \/ FinishGossip \/ StopGossip
  PROVE  ShutdownOrder'
<1> USE DEF ShutdownOrder, poolVars, signalVars, execVars, acceptVars,
            AfterGossip, AfterUnsubscribe, AfterPool, AfterExecutor
<1>1. CASE AddTx
  BY <1>1 DEF AddTx
<1>2. CASE ReceiveEvent
  <2>1. subscribed
    BY SMT, <1>2 DEF ReceiveEvent
  <2> QED
    BY <1>2, <2>1 DEF ReceiveEvent
<1>3. CASE Executor
  <2>1. executor # "exited"
    BY <1>3 DEF Executor, Dequeue, Execute, Quit
  <2>2. down \notin AfterExecutor
    BY <2>1
  <2>3. UNCHANGED <<down, gossip, subscribed, events, chOpen, poolOpen, trackerOpen, xdbOpen>>
    BY <1>3 DEF Executor, Dequeue, Execute, Quit
  <2> QED
    BY <2>2, <2>3
<1>4. CASE Tick \/ FinishGossip \/ StopGossip
  <2>1. gossip # "exited"
    BY <1>4 DEF Tick, FinishGossip, StopGossip
  <2>2. down \notin AfterGossip
    BY <2>1
  <2> QED
    BY <1>4, <2>2 DEF Tick, FinishGossip, StopGossip
<1> QED
  BY <1>1, <1>2, <1>3, <1>4

\* Shutdown itself: each step closes what the steps before it have put out of use.
LEMMA ShutdownSteps ==
  ASSUME ShutdownOrder, StartShutdown \/ Shutdown
  PROVE  ShutdownOrder'
<1> USE DEF ShutdownOrder, poolVars, signalVars, execVars, acceptVars,
            AfterGossip, AfterUnsubscribe, AfterPool, AfterExecutor
<1>1. CASE StartShutdown \/ CancelGossip
  BY <1>1 DEF StartShutdown, CancelGossip
<1>2. CASE WaitForGossip
  BY <1>2 DEF WaitForGossip
<1>3. CASE Unsubscribe
  BY <1>3 DEF Unsubscribe
<1>4. CASE CloseCh
  BY <1>4 DEF CloseCh
<1>5. CASE ClosePool
  BY <1>5 DEF ClosePool
<1>6. CASE CloseQuit
  BY <1>6 DEF CloseQuit
<1>7. CASE CloseTracker
  BY <1>7 DEF CloseTracker, IsDone
<1>8. CASE CloseXDB
  BY <1>8 DEF CloseXDB
<1> QED
  BY <1>1, <1>2, <1>3, <1>4, <1>5, <1>6, <1>7, <1>8 DEF Shutdown

\* Nothing is used after VM.Shutdown has closed it, whatever the pool, the engine,
\* subscribers and the executor were doing when it was called.
THEOREM NothingUsedAfterClose == Spec => []UsesOnlyOpen
<1>1. Init => ShutdownOrder
  BY DEF Init, ShutdownOrder, AfterGossip, AfterUnsubscribe, AfterPool, AfterExecutor
<1>2. ShutdownOrder /\ [Next]_vars => ShutdownOrder'
  BY OtherSteps, GoroutineSteps, ShutdownSteps DEF Next, Feed
<1>3. ShutdownOrder => UsesOnlyOpen
  <2> SUFFICES ASSUME ShutdownOrder PROVE UsesOnlyOpen
    OBVIOUS
  <2>1. executor = "execute" => trackerOpen /\ xdbOpen
    BY DEF ShutdownOrder
  <2>2. gossip = "busy" => poolOpen
    BY DEF ShutdownOrder, AfterPool, AfterGossip
  <2>3. events > 0 => chOpen
    BY SMT DEF ShutdownOrder
  <2> QED
    BY <2>1, <2>2, <2>3 DEF UsesOnlyOpen
<1> QED
  BY <1>1, <1>2, <1>3, PTL DEF Spec
=============================================================================
