---------------------------- MODULE SAEInductive ----------------------------
(***************************************************************************)
(* The inductive invariant of SAE: how the variables are related in every  *)
(* reachable state, for every program counter of the two threads.  The     *)
(* safety properties of SAE follow from it (SAEProofs).                    *)
(***************************************************************************)
EXTENDS SAE

\* The calls of the engine that are in progress.
Verifying == cpc \in {"walk", "loadExecution", "awaitArtefact"}
Settling == cpc \in {"settle", "storeSettled", "closeSettled"}
Accepting == Settling \/ cpc \in {"sendAccepted", "enqueue", "awaitExecuted", "evict"}

----------------------------------------------------------------------------
\* Headers form a tree rooted at the last synchronous block; along a branch
\* height, time and gas time never decrease, and height orders the branch.
Rooted ==
  \A b \in DOMAIN hdr :
    /\ hdr[b].parent \in DOMAIN hdr
    /\ hdr[b].anc \subseteq DOMAIN hdr
    /\ b \in hdr[b].anc
    /\ Genesis \in hdr[b].anc
Linked ==
  \A b \in DOMAIN hdr \ {Genesis} :
    LET p == hdr[b].parent IN
    /\ b \notin hdr[p].anc
    /\ hdr[b].anc = hdr[p].anc \cup {b}
    /\ hdr[b].height = hdr[p].height + 1
    /\ hdr[b].time >= hdr[p].time
    /\ hdr[b].due = Larger(hdr[p].due, hdr[b].time) + hdr[b].gas
Branches ==
  \A b \in DOMAIN hdr : \A x \in hdr[b].anc :
    /\ hdr[x].anc \subseteq hdr[b].anc
    /\ hdr[x].height <= hdr[b].height
    /\ hdr[x].time <= hdr[b].time
    /\ hdr[x].due <= hdr[b].due
    /\ \A y \in hdr[b].anc : hdr[x].height <= hdr[y].height => x \in hdr[y].anc
Tree == hdr[Genesis] = GenesisHeader /\ Rooted /\ Linked /\ Branches

----------------------------------------------------------------------------
\* How far the stream has taken an effect that is visible once epc is in S.
Reached(S) ==
  IF epc \in S THEN eb ELSE IF epc = "idle" THEN lastExecuted ELSE hdr[eb].parent

\* The blocks last taken from the queue and last put into it.
Taken == IF epc = "idle" THEN lastExecuted ELSE eb
Enqueued ==
  IF cpc \in {"sendAccepted", "enqueue"} THEN hdr[lastAccepted].parent
  ELSE lastAccepted

\* The effects of execution, from first to last.
StreamInv ==
  /\ epc # "dead"
  /\ lastExecuted \in DOMAIN hdr
  /\ eb \in hdr[Taken].anc
  /\ epc # "idle" => eb # Genesis
  /\ xdb = hdr[Reached({"batch", "memory", "pointer", "close", "events"})].anc
  /\ head = Reached({"memory", "pointer", "close", "events"})
  /\ Executed = hdr[Reached({"pointer", "close", "events"})].anc
  /\ lastExecuted = Reached({"close", "events"})
  /\ executedClosed = hdr[Reached({"events"})].anc
  /\ headSent \cup {Genesis} = hdr[Reached({})].anc

\* The queue is the stretch of the accepted chain between these two.
QueueInv ==
  /\ Taken \in hdr[Enqueued].anc
  /\ \A i \in 1 .. Len(queue) :
       /\ queue[i] \in hdr[Enqueued].anc \ {Genesis}
       /\ hdr[queue[i]].parent = IF i = 1 THEN Taken ELSE queue[i - 1]
  /\ Enqueued = IF queue = <<>> THEN Taken ELSE queue[Len(queue)]

\* Gas times agree with the headers.
TimesInv ==
  /\ \A b \in Block : execution[b] # None => execution[b] = hdr[b].due
  /\ \A b \in Block : interim[b] # None =>
       b \in hdr[Taken].anc /\ interim[b] <= hdr[b].due
  /\ epc \in {"run", "batch", "memory"} => clock + left = hdr[eb].due
  /\ epc \in {"batch", "memory"} => left = 0

----------------------------------------------------------------------------
\* The accepted chain on disk and in memory.
ChainInv ==
  /\ lastAccepted \in DOMAIN hdr /\ canonical \in DOMAIN hdr
  /\ canonical = IF Settling THEN cb ELSE lastAccepted
  /\ Accepting => canonical = cb /\ cb # Genesis
  /\ Settling => hdr[cb].parent = lastAccepted
  /\ finalized = settledBy[canonical]
  /\ acceptedSent =
       hdr[lastAccepted].anc \ ({Genesis} \cup (IF cpc = "sendAccepted" THEN {cb} ELSE {}))

\* Every block under consideration settles what its ancestors' headers say, and
\* what it settles is executed.
SettledByInv ==
  /\ settledBy[Genesis] = Genesis
  /\ \A b \in (processing \cup hdr[canonical].anc) \ {Genesis} :
       /\ IsLastToSettle(settledBy[b], hdr[b].parent, SettleAt(b))
       /\ settledBy[b] \in executedClosed

\* The progress of AcceptBlock through the blocks to settle.
SettlingInv ==
  /\ lastSettled \in DOMAIN hdr
  /\ settled = hdr[IF cpc = "storeSettled" THEN cur ELSE lastSettled].anc
  /\ settledClosed =
       settled \ (IF cpc \in {"storeSettled", "closeSettled"} THEN {cur} ELSE {})
  /\ settled \cup todo = hdr[settledBy[canonical]].anc
  /\ settledClosed \cap todo = {}
  /\ \A b \in hdr[lastAccepted].anc : settledBy[b] \in settledClosed
  /\ ~ Settling => todo = {} /\ lastSettled = settledBy[lastAccepted]
  /\ cpc \in {"storeSettled", "closeSettled"} => cur \in todo
  /\ cpc = "storeSettled" => hdr[lastSettled].anc = settledClosed
  /\ cpc = "closeSettled" => cur = lastSettled

\* The undecided blocks, and the map.
Floor == settledBy[IF Accepting THEN hdr[cb].parent ELSE lastAccepted]
MapInv ==
  /\ \A b \in processing :
       /\ b \in DOMAIN hdr /\ b \notin hdr[canonical].anc
       /\ cpc = "idle" \/ Verifying => lastAccepted \in hdr[b].anc
  /\ critical = processing \cup
       {b \in hdr[canonical].anc : hdr[b].height >= hdr[Floor].height}
  /\ Accepting => hdr[Floor].height <= hdr[settledBy[cb]].height
  /\ dropped = IF Accepting
       THEN {b \in hdr[canonical].anc : /\ hdr[b].height >= hdr[Floor].height
                                        /\ hdr[b].height < hdr[settledBy[cb]].height}
       ELSE {}

\* The walk of LastToSettleAt: the block being verified is a leaf above the last
\* accepted one, and once the walk is certain all it has passed finishes too late.
WalkInv ==
  /\ cur \in DOMAIN hdr /\ cb \in DOMAIN hdr
  /\ Verifying =>
       LET p == hdr[cb].parent IN
       /\ cb # Genesis /\ cb \notin processing /\ hdr[cb].time >= Tau
       /\ \A x \in DOMAIN hdr \ {cb} : cb \notin hdr[x].anc
       /\ lastAccepted \in hdr[p].anc
       /\ cur \in hdr[p].anc
       /\ certain => \A x \in hdr[p].anc :
                       hdr[x].height > hdr[cur].height => hdr[x].due > SettleAt(cb)
  /\ cpc = "loadExecution" => cur \notin settled
  /\ cpc = "awaitArtefact" => IsLastToSettle(cur, hdr[cb].parent, SettleAt(cb))

\* While bootstrapping, execution has caught up between two calls.
BootstrapInv ==
  bootstrapping =>
    /\ certain
    /\ cpc = "idle" \/ Verifying \/ cpc \in {"evict", "reject"} =>
         lastAccepted \in executedClosed
    /\ Verifying => hdr[cb].parent = lastAccepted

----------------------------------------------------------------------------
\* How the blocks' fields, the VM's pointers, the map, the queue and the database
\* agree at every point of the two threads' code.
IInv ==
  /\ TypeOK /\ Tree
  /\ StreamInv /\ QueueInv /\ TimesInv
  /\ ChainInv /\ SettledByInv /\ SettlingInv /\ MapInv /\ WalkInv /\ BootstrapInv
=============================================================================
