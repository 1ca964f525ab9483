----------------------------- MODULE SAEProofs -----------------------------
(***************************************************************************)
(* The safety properties of SAE, for every number of blocks, every set of  *)
(* block times and of gas amounts, every Tau and every queue capacity, and *)
(* that the life cycle implements the safety part of the ledger.           *)
(*                                                                         *)
(* First facts about the tree of headers, what the inductive invariant     *)
(* says of the blocks in it, and which parts of the invariant a step       *)
(* leaves alone.  Then the invariant is preserved by every step of the two *)
(* threads: the execution stream; VM.VerifyBlock (the walk of              *)
(* LastToSettleAt, its result and its failures), VM.RejectBlock and        *)
(* VM.SetState; VM.AcceptBlock (acceptance, settlement, eviction).  Last,  *)
(* the theorems.                                                           *)
(***************************************************************************)
EXTENDS SAELedger, HeadersProofs

\* Most leaves need logic and sets only; those with arithmetic, records or sequences
\* cite SMT.
USE Zenon

----------------------------------------------------------------------------
\* The tree of headers

\* The fields of headers are numbers.
LEMMA HeaderFields ==
  ASSUME TypeOK
  PROVE  \A b \in DOMAIN hdr : /\ hdr[b].height \in Nat /\ hdr[b].time \in Nat
                               /\ hdr[b].gas \in Nat /\ hdr[b].due \in Nat
BY DEF TypeOK, Header

\* The tree depends on the headers only.
LEMMA TreeFrame ==
  ASSUME Tree, UNCHANGED hdr
  PROVE  Tree'
BY SMT DEF Tree, Rooted, Linked, Branches

\* An ancestor's ancestors are known, and are ancestors.
LEMMA AncestorsNested ==
  ASSUME TypeOK, Tree, NEW b \in DOMAIN hdr, NEW x \in hdr[b].anc
  PROVE  x \in DOMAIN hdr /\ hdr[x].anc \subseteq hdr[b].anc
BY DEF Tree, Rooted, Branches

\* A proper ancestor is an ancestor of the parent, and is lower.
LEMMA ProperAncestor ==
  ASSUME TypeOK, Tree, NEW b \in DOMAIN hdr, NEW x \in hdr[b].anc, x # b
  PROVE  /\ b # Genesis
         /\ x \in hdr[hdr[b].parent].anc
         /\ hdr[x].height < hdr[b].height
<1>1. b # Genesis
  BY SMT DEF Tree, GenesisHeader
<1>2. x \in hdr[hdr[b].parent].anc
  BY SMT, <1>1 DEF Tree, Linked
<1>3. /\ x \in DOMAIN hdr /\ hdr[b].parent \in DOMAIN hdr
      /\ hdr[x].height <= hdr[hdr[b].parent].height
  BY <1>2 DEF Tree, Rooted, Branches
<1>4. hdr[x].height \in Nat /\ hdr[hdr[b].parent].height \in Nat
  BY <1>3, HeaderFields
<1>5. hdr[b].height = hdr[hdr[b].parent].height + 1
  BY <1>1 DEF Tree, Linked
<1> QED
  BY SMT, <1>1, <1>2, <1>3, <1>4, <1>5

\* A block has one ancestor at each height.
LEMMA SameHeight ==
  ASSUME TypeOK, Tree, NEW b \in DOMAIN hdr,
         NEW x \in hdr[b].anc, NEW y \in hdr[b].anc, hdr[x].height = hdr[y].height
  PROVE  x = y
<1>1. x \in DOMAIN hdr /\ y \in DOMAIN hdr
  BY AncestorsNested
<1>2. hdr[x].height \in Nat /\ hdr[y].height \in Nat
  BY <1>1, HeaderFields
<1>3. x \in hdr[y].anc
  BY SMT, <1>2 DEF Tree, Branches
<1> QED
  BY SMT, <1>1, <1>2, <1>3, ProperAncestor

\* Ancestors of one block are ordered by height.
LEMMA HeightOrders ==
  ASSUME TypeOK, Tree, NEW b \in DOMAIN hdr,
         NEW x \in hdr[b].anc, NEW y \in hdr[b].anc
  PROVE  /\ hdr[x].height <= hdr[y].height <=> x \in hdr[y].anc
         /\ hdr[x].height < hdr[y].height <=> (x \in hdr[y].anc /\ x # y)
<1>1. x \in DOMAIN hdr /\ y \in DOMAIN hdr
  BY AncestorsNested
<1>2. hdr[x].height \in Nat /\ hdr[y].height \in Nat
  BY <1>1, HeaderFields
<1>3. hdr[x].height <= hdr[y].height => x \in hdr[y].anc
  BY DEF Tree, Branches
<1>4. x \in hdr[y].anc => hdr[x].height <= hdr[y].height
  BY <1>1 DEF Tree, Branches
<1>5. x \in hdr[y].anc /\ x # y => hdr[x].height < hdr[y].height
  BY <1>1, ProperAncestor
<1> QED
  BY SMT, <1>2, <1>3, <1>4, <1>5

\* A block is an ancestor of itself, and its parent is one.
LEMMA ParentIsAncestor ==
  ASSUME TypeOK, Tree, NEW b \in DOMAIN hdr
  PROVE  /\ b \in hdr[b].anc /\ Genesis \in hdr[b].anc
         /\ hdr[b].parent \in DOMAIN hdr /\ hdr[b].parent \in hdr[b].anc
<1>1. /\ b \in hdr[b].anc /\ Genesis \in hdr[b].anc
      /\ hdr[b].parent \in DOMAIN hdr
  BY DEF Tree, Rooted
<1>2. CASE b = Genesis
  BY SMT, <1>1, <1>2 DEF Tree, GenesisHeader
<1>3. CASE b # Genesis
  BY SMT, <1>1, <1>3 DEF Tree, Linked, Rooted
<1> QED
  BY <1>1, <1>2, <1>3

\* A new block built on a known one, at a time no earlier, extends the tree.
LEMMA TreeGrows ==
  ASSUME TypeOK, Tree,
         NEW b \in Block \ DOMAIN hdr, NEW p \in DOMAIN hdr,
         NEW t \in BlockTimes, NEW g \in GasUsed, t >= hdr[p].time,
         hdr' = [x \in DOMAIN hdr \cup {b} |->
                   IF x = b THEN Child(b, p, t, g) ELSE hdr[x]]
  PROVE  /\ DOMAIN hdr' = DOMAIN hdr \cup {b}
         /\ hdr' \in [DOMAIN hdr' -> Header]
         /\ \A x \in DOMAIN hdr : hdr'[x] = hdr[x]
         /\ hdr'[b] = Child(b, p, t, g)
         /\ Tree'
<1> DEFINE c == Child(b, p, t, g)
<1>1. /\ DOMAIN hdr' = DOMAIN hdr \cup {b}
      /\ \A x \in DOMAIN hdr : hdr'[x] = hdr[x]
      /\ hdr'[b] = c
  OBVIOUS
<1>2. /\ hdr[p] \in Header /\ t \in Nat /\ g \in Nat /\ p \in Block /\ b \in Block
      /\ hdr[p].anc \subseteq DOMAIN hdr
  BY SAEAssumption DEF TypeOK, Tree, Rooted
<1>3. /\ c.parent = p /\ c.height = hdr[p].height + 1 /\ c.time = t /\ c.gas = g
      /\ c.anc = hdr[p].anc \cup {b} /\ c.due = Larger(hdr[p].due, t) + g
  BY DEF Child
<1>4. /\ hdr[p].height \in Nat /\ hdr[p].due \in Nat /\ hdr[p].time \in Nat
      /\ hdr[p].anc \subseteq Block
  BY <1>2 DEF Header
<1>5. Larger(hdr[p].due, t) \in Nat /\ Larger(hdr[p].due, t) >= hdr[p].due
  BY SMT, <1>2, <1>4 DEF Larger
<1>6. c \in Header
  BY SMT, <1>2, <1>4, <1>5 DEF Child, Header
<1>7. hdr' \in [DOMAIN hdr' -> Header]
  BY <1>1, <1>6 DEF TypeOK
<1>8. hdr'[Genesis] = GenesisHeader /\ b # Genesis
  BY <1>1 DEF Tree, TypeOK
<1>9. Rooted'
  BY <1>1, <1>2, <1>3 DEF Rooted, Tree
<1>10. Linked'
  <2> SUFFICES ASSUME NEW x \in DOMAIN hdr' \ {Genesis}
               PROVE  /\ x \notin hdr'[hdr'[x].parent].anc
                      /\ hdr'[x].anc = hdr'[hdr'[x].parent].anc \cup {x}
                      /\ hdr'[x].height = hdr'[hdr'[x].parent].height + 1
                      /\ hdr'[x].time >= hdr'[hdr'[x].parent].time
                      /\ hdr'[x].due = Larger(hdr'[hdr'[x].parent].due, hdr'[x].time) + hdr'[x].gas
    BY DEF Linked
  <2>1. CASE x = b
    BY <1>1, <1>2, <1>3, <2>1
  <2>2. CASE x # b
    <3>1. x \in DOMAIN hdr /\ hdr[x].parent \in DOMAIN hdr
      BY <1>1, <2>2 DEF Tree, Rooted
    <3> QED
      BY <1>1, <3>1 DEF Tree, Linked
  <2> QED
    BY <2>1, <2>2
<1>11. Branches'
  <2> SUFFICES ASSUME NEW y \in DOMAIN hdr', NEW x \in hdr'[y].anc
               PROVE  /\ hdr'[x].anc \subseteq hdr'[y].anc
                      /\ hdr'[x].height <= hdr'[y].height
                      /\ hdr'[x].time <= hdr'[y].time
                      /\ hdr'[x].due <= hdr'[y].due
                      /\ \A z \in hdr'[y].anc :
                           hdr'[x].height <= hdr'[z].height => x \in hdr'[z].anc
    BY DEF Branches
  <2>1. CASE y # b
    <3>1. y \in DOMAIN hdr /\ hdr'[y] = hdr[y] /\ hdr[y].anc \subseteq DOMAIN hdr
      BY <1>1, <2>1 DEF Tree, Rooted
    <3> QED
      BY SMT, <1>1, <3>1 DEF Tree, Branches
  <2>2. CASE y = b /\ x = b
    <3>1. \A z \in hdr[p].anc : hdr'[z] = hdr[z] /\ hdr[z].height <= hdr[p].height
                                /\ hdr[z].height \in Nat
      BY <1>1, <1>2, HeaderFields DEF Tree, Branches
    <3>2. hdr'[b].height \in Nat /\ hdr'[b].time \in Nat /\ hdr'[b].due \in Nat
      BY <1>1, <1>6 DEF Header
    <3>3. \A z \in hdr'[b].anc : hdr'[b].height <= hdr'[z].height => b \in hdr'[z].anc
      <4>1. \A z \in hdr[p].anc : ~ (hdr'[b].height <= hdr'[z].height)
        <5>1. hdr'[b].height = hdr[p].height + 1
          BY <1>1, <1>3
        <5> QED
          BY SMT, <1>4, <3>1, <5>1
      <4>2. hdr'[b].anc = hdr[p].anc \cup {b}
        BY <1>1, <1>3
      <4> QED
        BY <4>1, <4>2
    <3> QED
      BY SMT, <2>2, <3>2, <3>3
  <2>3. CASE y = b /\ x # b
    <3>1. x \in hdr[p].anc /\ x \in DOMAIN hdr /\ hdr'[x] = hdr[x]
      BY <1>1, <1>2, <1>3, <2>3
    <3>2. /\ hdr[x].anc \subseteq hdr[p].anc /\ hdr[x].height <= hdr[p].height
          /\ hdr[x].time <= hdr[p].time /\ hdr[x].due <= hdr[p].due
          /\ \A z \in hdr[p].anc : hdr[x].height <= hdr[z].height => x \in hdr[z].anc
      BY <3>1 DEF Tree, Branches
    <3>3. hdr[x].height \in Nat /\ hdr[x].time \in Nat /\ hdr[x].due \in Nat
      BY <3>1, HeaderFields
    <3>4. \A z \in hdr'[b].anc : hdr'[x].height <= hdr'[z].height => x \in hdr'[z].anc
      BY <1>1, <1>2, <1>3, <3>1, <3>2
    <3> QED
      BY SMT, <1>1, <1>2, <1>3, <1>4, <1>5, <2>3, <3>1, <3>2, <3>3, <3>4
  <2> QED
    BY <2>1, <2>2, <2>3
<1> QED
  BY <1>1, <1>7, <1>8, <1>9, <1>10, <1>11 DEF Tree

\* A block that is nobody's ancestor can be forgotten.
LEMMA TreeShrinks ==
  ASSUME TypeOK, Tree, NEW b \in DOMAIN hdr \ {Genesis},
         \A x \in DOMAIN hdr \ {b} : b \notin hdr[x].anc,
         hdr' = [x \in DOMAIN hdr \ {b} |-> hdr[x]]
  PROVE  /\ DOMAIN hdr' = DOMAIN hdr \ {b}
         /\ hdr' \in [DOMAIN hdr' -> Header]
         /\ \A x \in DOMAIN hdr \ {b} : hdr'[x] = hdr[x]
         /\ Tree'
<1>1. /\ DOMAIN hdr' = DOMAIN hdr \ {b}
      /\ \A x \in DOMAIN hdr \ {b} : hdr'[x] = hdr[x]
  OBVIOUS
<1>2. hdr' \in [DOMAIN hdr' -> Header]
  BY <1>1 DEF TypeOK
<1>3. \A x \in DOMAIN hdr' :
        /\ hdr[x].anc \subseteq DOMAIN hdr'
        /\ hdr[x].parent \in DOMAIN hdr'
  <2> SUFFICES ASSUME NEW x \in DOMAIN hdr'
               PROVE  hdr[x].anc \subseteq DOMAIN hdr' /\ hdr[x].parent \in DOMAIN hdr'
    OBVIOUS
  <2>1. hdr[x].anc \subseteq DOMAIN hdr'
    BY <1>1 DEF Tree, Rooted
  <2> QED
    BY <1>1, <2>1, ParentIsAncestor
<1>4. hdr'[Genesis] = GenesisHeader
  BY <1>1 DEF Tree, TypeOK
<1>5. Rooted'
  BY <1>1, <1>3 DEF Tree, Rooted
<1>6. Linked'
  BY <1>1, <1>3 DEF Tree, Linked
<1>7. Branches'
  BY SMT, <1>1, <1>3 DEF Tree, Branches
<1> QED
  BY <1>1, <1>2, <1>4, <1>5, <1>6, <1>7 DEF Tree

----------------------------------------------------------------------------
\* Blocks that matter to the VM are known, and so is what they settle.
LEMMA KnownBlocks ==
  ASSUME IInv
  PROVE  /\ lastAccepted \in DOMAIN hdr /\ canonical \in DOMAIN hdr
         /\ Enqueued \in DOMAIN hdr
         /\ Enqueued \in hdr[lastAccepted].anc
         /\ hdr[Enqueued].anc \subseteq hdr[lastAccepted].anc
         /\ lastAccepted \in hdr[canonical].anc
         /\ Taken \in hdr[Enqueued].anc /\ Taken \in DOMAIN hdr
         /\ hdr[Taken].anc \subseteq hdr[Enqueued].anc
         /\ lastExecuted \in hdr[Taken].anc
         /\ \A S : Reached(S) \in hdr[Taken].anc
<1> USE DEF IInv
<1>1. lastAccepted \in DOMAIN hdr /\ canonical \in DOMAIN hdr
  BY DEF ChainInv
<1>2. Enqueued \in DOMAIN hdr /\ Enqueued \in hdr[lastAccepted].anc
  BY <1>1, ParentIsAncestor DEF Enqueued
<1>3. hdr[Enqueued].anc \subseteq hdr[lastAccepted].anc
  BY <1>1, <1>2, AncestorsNested
<1>4. lastAccepted \in hdr[canonical].anc
  BY <1>1, ParentIsAncestor DEF ChainInv
<1>5. Taken \in hdr[Enqueued].anc
  BY DEF QueueInv
<1>6. Taken \in DOMAIN hdr /\ hdr[Taken].anc \subseteq hdr[Enqueued].anc
  BY <1>2, <1>5, AncestorsNested
<1>7. Taken \in hdr[Taken].anc /\ hdr[Taken].parent \in hdr[Taken].anc
  BY <1>6, ParentIsAncestor
<1>8. lastExecuted = IF epc = "idle" THEN Taken
                     ELSE IF epc \in {"close", "events"} THEN Taken ELSE hdr[Taken].parent
  BY DEF StreamInv, Reached, Taken
<1>9. \A S : Reached(S) \in hdr[Taken].anc
  <2> SUFFICES ASSUME NEW S PROVE Reached(S) \in hdr[Taken].anc
    OBVIOUS
  <2>1. CASE epc = "idle"
    BY <1>7, <2>1 DEF Reached, Taken, StreamInv
  <2>2. CASE epc # "idle"
    BY <1>7, <2>2 DEF Reached, Taken
  <2> QED
    BY <2>1, <2>2
<1> QED
  BY <1>1, <1>2, <1>3, <1>4, <1>5, <1>6, <1>7, <1>8, <1>9

\* A block whose channel is closed has its results in memory.
LEMMA ClosedIsExecuted ==
  ASSUME IInv
  PROVE  executedClosed \subseteq Executed
<1> USE DEF IInv
<1>1. CASE epc \in {"pointer", "close"}
  <2>1. eb \in DOMAIN hdr
    BY <1>1, KnownBlocks DEF Taken
  <2>2. hdr[hdr[eb].parent].anc \subseteq hdr[eb].anc
    BY <2>1, ParentIsAncestor, AncestorsNested
  <2> QED
    BY <1>1, <2>2 DEF StreamInv, Reached
<1>2. CASE epc \notin {"pointer", "close"}
  BY <1>2 DEF StreamInv, Reached
<1> QED
  BY <1>1, <1>2

\* What a block settles is one of its proper ancestors, and due in time.
LEMMA SettledByAncestor ==
  ASSUME IInv, NEW b \in (processing \cup hdr[canonical].anc) \ {Genesis}
  PROVE  /\ b \in DOMAIN hdr
         /\ settledBy[b] \in hdr[hdr[b].parent].anc
         /\ settledBy[b] \in hdr[b].anc
         /\ settledBy[b] \in DOMAIN hdr
         /\ settledBy[b] \in executedClosed
         /\ settledBy[b] # b
         /\ hdr[settledBy[b]].due <= SettleAt(b) \/ settledBy[b] = Genesis
<1> USE DEF IInv
<1>1. b \in DOMAIN hdr
  BY AncestorsNested DEF MapInv, ChainInv
<1>2. /\ IsLastToSettle(settledBy[b], hdr[b].parent, SettleAt(b))
      /\ settledBy[b] \in executedClosed
  BY DEF SettledByInv
<1>3. settledBy[b] \in hdr[hdr[b].parent].anc
  BY <1>2 DEF IsLastToSettle
<1>4. hdr[b].parent \in DOMAIN hdr /\ hdr[b].parent \in hdr[b].anc
  BY <1>1, ParentIsAncestor
<1>5. settledBy[b] \in DOMAIN hdr /\ settledBy[b] \in hdr[b].anc
  BY <1>1, <1>3, <1>4, AncestorsNested
<1>6. settledBy[b] # b
  BY SMT, <1>1, <1>3 DEF Tree, Linked
<1> QED
  BY <1>1, <1>2, <1>3, <1>5, <1>6 DEF IsLastToSettle

\* The last block that the canonical chain settles is known, and executed.
LEMMA SettledByCanonical ==
  ASSUME IInv, NEW c \in hdr[canonical].anc
  PROVE  /\ settledBy[c] \in hdr[c].anc /\ settledBy[c] \in hdr[canonical].anc
         /\ c \in DOMAIN hdr /\ settledBy[c] \in DOMAIN hdr
         /\ settledBy[c] \in executedClosed
<1> USE DEF IInv
<1>1. canonical \in DOMAIN hdr
  BY DEF ChainInv
<1>2. c \in DOMAIN hdr /\ hdr[c].anc \subseteq hdr[canonical].anc
  BY <1>1, AncestorsNested
<1>3. CASE c = Genesis
  <2>1. settledBy[c] = Genesis
    BY <1>3 DEF SettledByInv
  <2>2. Genesis \in executedClosed
    BY KnownBlocks, AncestorsNested, ParentIsAncestor DEF StreamInv
  <2> QED
    BY <1>1, <1>2, <1>3, <2>1, <2>2, ParentIsAncestor
<1>4. CASE c # Genesis
  BY <1>2, <1>4, SettledByAncestor
<1> QED
  BY <1>3, <1>4

\* Adding or removing a header that nothing refers to leaves everything but the
\* walk as it was.
LEMMA HeadersFrame ==
  ASSUME IInv, NEW K,
         lastAccepted \in K, processing \subseteq K,
         \A x \in K : /\ x \in DOMAIN hdr /\ x \in DOMAIN hdr' /\ hdr'[x] = hdr[x]
                      /\ hdr[x].anc \subseteq K,
         cpc = "idle" \/ Verifying, cpc' = "idle" \/ Verifying',
         UNCHANGED <<settledBy, processing, acceptVars, settleVars, critical,
                     executorVars, queue>>
  PROVE  /\ StreamInv' /\ QueueInv' /\ TimesInv'
         /\ ChainInv' /\ SettledByInv' /\ SettlingInv' /\ MapInv'
<1> USE DEF IInv
<1>1. UNCHANGED <<settledBy, processing, canonical, finalized, lastAccepted,
                  acceptedSent, dropped, settled, lastSettled, settledClosed, todo,
                  critical, xdb, head, execution, lastExecuted, executedClosed,
                  headSent, interim, eb, clock, left, epc, queue>>
  BY DEF acceptVars, settleVars, executorVars, resultVars, runVars
<1>2. /\ ~ Settling /\ ~ Accepting /\ ~ Settling' /\ ~ Accepting'
      /\ cpc \notin {"sendAccepted", "enqueue", "storeSettled", "closeSettled"}
      /\ cpc' \notin {"sendAccepted", "enqueue", "storeSettled", "closeSettled"}
  BY DEF Settling, Accepting, Verifying
<1>3. canonical = lastAccepted /\ Enqueued = lastAccepted
  BY <1>2 DEF ChainInv, Enqueued
<1>4. hdr[lastAccepted].anc \subseteq K
  OBVIOUS
<1>5. /\ Taken \in hdr[lastAccepted].anc /\ hdr[Taken].anc \subseteq hdr[lastAccepted].anc
      /\ lastExecuted \in hdr[lastAccepted].anc
      /\ \A S : Reached(S) \in hdr[lastAccepted].anc
  BY <1>3, KnownBlocks
<1>6. Taken' = Taken /\ Executed' = Executed /\ Enqueued' = Enqueued
  BY <1>1, <1>2, <1>3 DEF Taken, Executed, Enqueued
<1>7. eb \in K
  BY <1>4, <1>5 DEF StreamInv
<1>8. \A S : Reached(S)' = Reached(S)
  BY <1>1, <1>7 DEF Reached
<1>9. StreamInv'
  BY <1>1, <1>4, <1>5, <1>6, <1>8 DEF StreamInv
<1>10. QueueInv'
  BY SMT, <1>1, <1>3, <1>4, <1>6 DEF QueueInv
<1>11. TimesInv'
  <2>1. \A b \in Block : execution[b] # None \/ interim[b] # None => b \in K
    <3>1. Executed \subseteq K
      BY <1>4, <1>5, AncestorsNested, KnownBlocks DEF StreamInv
    <3> QED
      BY <1>4, <1>5, <3>1 DEF Executed, TimesInv
  <2> QED
    BY <1>1, <1>4, <1>5, <1>6, <1>7, <2>1 DEF TimesInv
<1>12. ChainInv'
  BY <1>1, <1>2, <1>3 DEF ChainInv
<1>13. SettledByInv'
  <2>1. \A b \in (processing \cup hdr[canonical].anc) \ {Genesis} :
          /\ b \in K /\ hdr[b].parent \in K /\ hdr[hdr[b].parent].anc \subseteq K
          /\ settledBy[b] \in K
    BY <1>3, <1>4, SettledByAncestor, ParentIsAncestor
  <2> QED
    BY SMT, <1>1, <1>3, <2>1 DEF SettledByInv, IsLastToSettle, SettleAt
<1>14. settledBy[lastAccepted] \in K
  BY <1>3, <1>4, KnownBlocks, SettledByCanonical
<1>15. SettlingInv'
  BY <1>1, <1>2, <1>3, <1>14 DEF SettlingInv
<1>16. MapInv'
  <2>1. Floor = settledBy[lastAccepted] /\ Floor' = Floor
    BY <1>1, <1>2 DEF Floor
  <2> QED
    BY <1>1, <1>2, <1>3, <1>4, <1>14, <2>1 DEF MapInv
<1> QED
  BY <1>9, <1>10, <1>11, <1>12, <1>13, <1>15, <1>16

\* What consensus leaves to the stream stays as it is.
LEMMA ConsensusFrame ==
  ASSUME IInv, UNCHANGED <<hdr, executorVars>>
  PROVE  /\ Tree' /\ StreamInv' /\ TimesInv'
         /\ (Enqueued' = Enqueued /\ queue' = queue => QueueInv')
<1> USE DEF IInv
<1>1. UNCHANGED <<xdb, head, execution, lastExecuted, executedClosed, headSent,
                  interim, eb, clock, left, epc>>
  BY DEF executorVars, resultVars, runVars
<1>2. Tree'
  BY TreeFrame
<1>3. StreamInv' /\ TimesInv'
  BY <1>1 DEF StreamInv, TimesInv, Reached, Taken, Executed
<1>4. Enqueued' = Enqueued /\ queue' = queue => QueueInv'
  BY <1>1 DEF QueueInv, Taken
<1> QED
  BY <1>2, <1>3, <1>4

\* What the blocks settle stays right if the headers stay as they are.
LEMMA SettledByFrame ==
  ASSUME UNCHANGED <<hdr, canonical, executedClosed>>,
         settledBy'[Genesis] = Genesis,
         \A x \in (processing' \cup hdr[canonical].anc) \ {Genesis} :
           /\ IsLastToSettle(settledBy'[x], hdr[x].parent, SettleAt(x))
           /\ settledBy'[x] \in executedClosed
  PROVE  SettledByInv'
BY DEF SettledByInv, IsLastToSettle, SettleAt

\* Outside verification, the walk says nothing.
LEMMA NoWalk ==
  ASSUME IInv, ~ Verifying', cur' \in DOMAIN hdr', cb' \in DOMAIN hdr'
  PROVE  WalkInv'
BY DEF WalkInv, Verifying

----------------------------------------------------------------------------
\* The execution stream

\* What the stream leaves to consensus stays as it is, as long as no closed
\* channel is opened again.
LEMMA StreamFrame ==
  ASSUME IInv, UNCHANGED <<consensusVars, bootstrapping>>,
         executedClosed \subseteq executedClosed'
  PROVE  /\ Tree' /\ ChainInv' /\ SettledByInv' /\ SettlingInv' /\ MapInv'
         /\ WalkInv' /\ BootstrapInv'
<1> USE DEF IInv, consensusVars, verifyVars, acceptVars, settleVars
<1>1. Tree'
  BY SMT DEF Tree, Rooted, Linked, Branches
<1>2. ChainInv'
  BY DEF ChainInv, Accepting, Settling
<1>3. SettledByInv'
  BY DEF SettledByInv, IsLastToSettle, SettleAt
<1>4. SettlingInv'
  BY DEF SettlingInv, Settling
<1>5. MapInv'
  BY DEF MapInv, Floor, Accepting, Settling, Verifying
<1>6. WalkInv'
  BY DEF WalkInv, Verifying, IsLastToSettle, SettleAt
<1>7. BootstrapInv'
  BY DEF BootstrapInv, Verifying
<1> QED
  BY <1>1, <1>2, <1>3, <1>4, <1>5, <1>6, <1>7

\* The next block of the queue is new to the stream and its parent is executed.
LEMMA HeadIsNext ==
  ASSUME IInv, epc = "idle", queue # <<>>
  PROVE  /\ Head(queue) \in DOMAIN hdr \ {Genesis}
         /\ hdr[Head(queue)].parent = lastExecuted
         /\ Head(queue) \notin settled
         /\ Head(queue) \notin Executed
         /\ execution[lastExecuted] = hdr[lastExecuted].due
<1> USE DEF IInv
<1>1. Len(queue) \in Nat /\ Len(queue) >= 1 /\ Head(queue) = queue[1]
  BY SMT DEF TypeOK
<1>2. /\ Head(queue) \in hdr[Enqueued].anc \ {Genesis}
      /\ hdr[Head(queue)].parent = lastExecuted
  BY SMT, <1>1 DEF QueueInv, Taken
<1>3. Enqueued \in DOMAIN hdr /\ lastExecuted \in DOMAIN hdr
  BY ParentIsAncestor DEF Enqueued, ChainInv, StreamInv
<1>4. Head(queue) \in DOMAIN hdr
  BY <1>2, <1>3, AncestorsNested
<1>5. Head(queue) \notin hdr[lastExecuted].anc
  BY <1>2, <1>4 DEF Tree, Linked
<1>6. Executed = hdr[lastExecuted].anc /\ executedClosed = hdr[lastExecuted].anc
  BY DEF StreamInv, Reached
<1>7. settled \subseteq Executed
  <2>1. canonical \in DOMAIN hdr /\ canonical \in hdr[canonical].anc
    BY ParentIsAncestor DEF ChainInv
  <2>2. settledBy[canonical] \in executedClosed
    BY <1>3, <1>6, <2>1, ParentIsAncestor DEF SettledByInv
  <2> QED
    BY <1>3, <1>6, <2>2, AncestorsNested DEF SettlingInv
<1>8. lastExecuted \in Executed
  BY <1>3, <1>6, ParentIsAncestor
<1>9. execution[lastExecuted] = hdr[lastExecuted].due
  BY <1>8 DEF TimesInv, Executed
<1> QED
  BY <1>2, <1>4, <1>5, <1>6, <1>7, <1>9

\* The stream takes the next block, whose parent is the last executed one.
LEMMA DequeueStep ==
  ASSUME IInv, Dequeue
  PROVE  IInv'
<1> USE DEF IInv
<1>1. PICK b \in Block : b = Head(queue) /\ eb' = b
  BY SMT DEF Dequeue, TypeOK
<1>2. /\ epc = "idle" /\ queue # <<>> /\ queue' = Tail(queue)
      /\ UNCHANGED <<consensusVars, resultVars, interim, bootstrapping>>
  BY DEF Dequeue
<1>3. /\ b \in DOMAIN hdr \ {Genesis} /\ hdr[b].parent = lastExecuted
      /\ b \notin settled /\ b \notin Executed
      /\ execution[lastExecuted] = hdr[lastExecuted].due
  BY <1>1, <1>2, HeadIsNext
<1>4. /\ epc' = "run" /\ left' = hdr[b].gas
      /\ clock' = Larger(hdr[lastExecuted].due, hdr[b].time)
  BY <1>1, <1>3 DEF Dequeue, IsNextToExecute, ParentBlock
<1>5. UNCHANGED <<hdr, xdb, head, execution, lastExecuted, executedClosed,
                  headSent, interim, cpc, lastAccepted>>
  BY <1>2 DEF resultVars, consensusVars, verifyVars, acceptVars
<1>6. hdr[b] \in Header /\ hdr[lastExecuted] \in Header
  BY <1>3 DEF TypeOK, StreamInv
<1>7. /\ clock' \in Nat /\ left' \in Nat /\ clock' + left' = hdr[b].due
  BY <1>3, <1>4, <1>6 DEF Header, Larger, Tree, Linked
<1>8. /\ Len(queue) \in Nat \ {0} /\ queue' \in Seq(Block)
      /\ Len(queue') = Len(queue) - 1
      /\ \A i \in 1 .. Len(queue') : queue'[i] = queue[i + 1]
      /\ b = queue[1]
  BY SMTT(60), <1>1, <1>2 DEF TypeOK
<1>9. TypeOK'
  BY SMTT(60), <1>1, <1>2, <1>4, <1>5, <1>7, <1>8
     DEF TypeOK, consensusVars, verifyVars, acceptVars, settleVars
<1>10. StreamInv'
  <2>1. Taken = lastExecuted /\ Taken' = b
    BY <1>1, <1>2, <1>4 DEF Taken
  <2>2. \A S : Reached(S) = IF "idle" \in S THEN eb ELSE lastExecuted
    BY <1>2 DEF Reached
  <2>3. \A S : Reached(S)' = IF "run" \in S THEN b ELSE lastExecuted
    BY <1>1, <1>3, <1>4, <1>5 DEF Reached
  <2>4. b \in hdr[b].anc
    BY <1>3, ParentIsAncestor
  <2>5. Executed' = Executed
    BY <1>5 DEF Executed
  <2> QED
    BY <1>1, <1>3, <1>4, <1>5, <2>1, <2>2, <2>3, <2>4, <2>5 DEF StreamInv
<1>11. QueueInv'
  <2>1. Taken = lastExecuted /\ Taken' = b /\ Enqueued' = Enqueued
    BY <1>1, <1>2, <1>4, <1>5 DEF Taken, Enqueued
  <2>2. b \in hdr[Enqueued].anc
    BY SMT, <1>8 DEF QueueInv
  <2>3. \A i \in 1 .. Len(queue') :
          /\ queue'[i] \in hdr[Enqueued].anc \ {Genesis}
          /\ hdr[queue'[i]].parent = IF i = 1 THEN b ELSE queue'[i - 1]
    <3> SUFFICES ASSUME NEW i \in 1 .. Len(queue')
                 PROVE  /\ queue'[i] \in hdr[Enqueued].anc \ {Genesis}
                        /\ hdr[queue'[i]].parent = IF i = 1 THEN b ELSE queue'[i - 1]
      OBVIOUS
    <3>1. i + 1 \in 1 .. Len(queue) /\ i + 1 # 1 /\ (i + 1) - 1 = i
      BY SMT, <1>8
    <3>2. queue'[i] = queue[i + 1] /\ (i # 1 => queue'[i - 1] = queue[i])
      BY SMT, <1>8
    <3>3. /\ queue[i + 1] \in hdr[Enqueued].anc \ {Genesis}
          /\ hdr[queue[i + 1]].parent = queue[i]
      BY <3>1 DEF QueueInv
    <3> QED
      BY <1>8, <3>2, <3>3
  <2>4. Enqueued = IF queue' = <<>> THEN b ELSE queue'[Len(queue')]
    <3>1. Enqueued = queue[Len(queue)]
      BY <1>2 DEF QueueInv
    <3>2. CASE Len(queue) = 1
      BY SMT, <1>8, <3>1, <3>2
    <3>3. CASE Len(queue) # 1
      <4>1. Len(queue') \in 1 .. Len(queue') /\ Len(queue') + 1 = Len(queue)
        BY SMT, <1>8, <3>3
      <4>2. queue' # <<>>
        BY SMT, <4>1
      <4> QED
        BY <1>8, <3>1, <4>1, <4>2
    <3> QED
      BY <3>2, <3>3
  <2> QED
    BY <1>5, <2>1, <2>2, <2>3, <2>4 DEF QueueInv
<1>12. TimesInv'
  <2>1. Taken = lastExecuted /\ Taken' = b /\ hdr[lastExecuted].anc \subseteq hdr[b].anc
    BY SMT, <1>1, <1>2, <1>3, <1>4 DEF Taken, Tree, Linked
  <2> QED
    BY <1>1, <1>4, <1>5, <1>7, <2>1 DEF TimesInv
<1> QED
  BY <1>2, <1>5, <1>9, <1>10, <1>11, <1>12, StreamFrame

\* While a block runs, it is a new one on top of what was executed before.
LEMMA RunningBlock ==
  ASSUME IInv, epc # "idle"
  PROVE  /\ eb \in DOMAIN hdr \ {Genesis} /\ eb \in Block
         /\ hdr[eb].anc = hdr[hdr[eb].parent].anc \cup {eb}
         /\ eb \notin hdr[hdr[eb].parent].anc
         /\ Taken = eb
<1> USE DEF IInv
<1>1. Taken = eb /\ eb # Genesis
  BY DEF Taken, StreamInv
<1>2. Enqueued \in DOMAIN hdr
  BY ParentIsAncestor DEF Enqueued, ChainInv
<1>3. eb \in DOMAIN hdr
  BY <1>1, <1>2, AncestorsNested DEF QueueInv
<1> QED
  BY <1>1, <1>3 DEF Tree, Linked, TypeOK

\* The clock and the interim time stay within what the header calls for.
LEMMA RunTxStep ==
  ASSUME IInv, RunTx
  PROVE  IInv'
<1> USE DEF IInv
<1>1. PICK g \in 1 .. left :
        /\ clock' = clock + g /\ left' = left - g
        /\ interim' = [interim EXCEPT ![eb] = clock + g]
  BY DEF RunTx, TxGas
<1>2. /\ epc = "run" /\ epc' = epc
      /\ UNCHANGED <<hdr, xdb, head, execution, lastExecuted, executedClosed,
                     headSent, eb, queue, cpc, lastAccepted>>
      /\ UNCHANGED <<consensusVars, bootstrapping>>
  BY DEF RunTx, resultVars, consensusVars, verifyVars, acceptVars
<1>3. /\ clock' \in Nat /\ left' \in Nat /\ clock' + left' = hdr[eb].due
      /\ clock' <= hdr[eb].due
  BY SMT, <1>1, <1>2 DEF TypeOK, TimesInv
<1>4. TypeOK'
  <2>1. interim' \in [Block -> Nat \cup {None}]
    BY <1>1, <1>3 DEF TypeOK
  <2> QED
    BY SMT, <1>2, <1>3, <2>1 DEF TypeOK, consensusVars, verifyVars, acceptVars, settleVars
<1>5. StreamInv' /\ QueueInv'
  BY <1>2 DEF StreamInv, QueueInv, Reached, Taken, Enqueued, Executed
<1>6. TimesInv'
  <2>1. Taken = eb /\ Taken' = eb /\ eb \in Block /\ eb \in hdr[eb].anc
    BY <1>2, RunningBlock, ParentIsAncestor DEF Taken
  <2>2. \A b \in Block : interim'[b] = IF b = eb THEN clock' ELSE interim[b]
    BY <1>1 DEF TypeOK
  <2> QED
    BY <1>2, <1>3, <2>1, <2>2 DEF TimesInv
<1> QED
  BY <1>2, <1>4, <1>5, <1>6, StreamFrame

\* The steps from the end of a run to its announcement leave the queue alone.
LEMMA QueueFrame ==
  ASSUME IInv, UNCHANGED <<hdr, queue, cpc, lastAccepted>>, Taken' = Taken
  PROVE  QueueInv'
BY DEF IInv, QueueInv, Enqueued

\* Execution results reach the database.
LEMMA PutResultsStep ==
  ASSUME IInv, PutResults
  PROVE  IInv'
<1> USE DEF IInv
<1>1. /\ epc = "run" /\ epc' = "batch"
      /\ UNCHANGED <<hdr, head, execution, lastExecuted, executedClosed, headSent, interim, eb,
                     clock, left, queue, cpc, lastAccepted>>
      /\ UNCHANGED <<consensusVars, bootstrapping>>
  BY DEF PutResults, StreamOrder, runVars, consensusVars, verifyVars, acceptVars
<1>2. left = 0 /\ xdb' = xdb \cup {eb}
  BY DEF PutResults
<1>3. eb \in Block /\ hdr[eb].anc = hdr[hdr[eb].parent].anc \cup {eb}
  BY <1>1, RunningBlock
<1>4. TypeOK'
  BY SMT, <1>1, <1>2, <1>3 DEF TypeOK, consensusVars, verifyVars, acceptVars, settleVars
<1>5. StreamInv'
  BY <1>1, <1>2, <1>3 DEF StreamInv, Reached, Taken, Executed
<1>6. QueueInv' /\ TimesInv'
  BY <1>1, <1>2, QueueFrame DEF TimesInv, Taken
<1> QED
  BY <1>1, <1>4, <1>5, <1>6, StreamFrame

\* The head block follows.
LEMMA WriteBatchStep ==
  ASSUME IInv, WriteBatch
  PROVE  IInv'
<1> USE DEF IInv
<1>1. /\ epc = "batch" /\ epc' = "memory"
      /\ UNCHANGED <<hdr, xdb, execution, lastExecuted, executedClosed, headSent, interim, eb,
                     clock, left, queue, cpc, lastAccepted>>
      /\ UNCHANGED <<consensusVars, bootstrapping>>
  BY DEF WriteBatch, StreamOrder, runVars, consensusVars, verifyVars, acceptVars
<1>2. head' = eb /\ eb \in Block
  BY <1>1, RunningBlock DEF WriteBatch
<1>3. TypeOK'
  BY SMT, <1>1, <1>2 DEF TypeOK, consensusVars, verifyVars, acceptVars, settleVars
<1>4. StreamInv'
  BY <1>1, <1>2 DEF StreamInv, Reached, Taken, Executed
<1>5. QueueInv' /\ TimesInv'
  BY <1>1, QueueFrame DEF TimesInv, Taken
<1> QED
  BY <1>1, <1>3, <1>4, <1>5, StreamFrame

\* The results become visible in memory, with the gas time that was due.
LEMMA StoreExecutionStep ==
  ASSUME IInv, StoreExecution
  PROVE  IInv'
<1> USE DEF IInv
<1>1. /\ epc = "memory" /\ epc' = "pointer"
      /\ UNCHANGED <<hdr, xdb, head, lastExecuted, executedClosed, headSent, interim, eb,
                     clock, left, queue, cpc, lastAccepted>>
      /\ UNCHANGED <<consensusVars, bootstrapping>>
  BY DEF StoreExecution, StreamOrder, runVars, consensusVars, verifyVars, acceptVars
<1>2. execution' = [execution EXCEPT ![eb] = clock]
  BY DEF StoreExecution
<1>3. eb \in Block /\ hdr[eb].anc = hdr[hdr[eb].parent].anc \cup {eb}
  BY <1>1, RunningBlock
<1>4. clock \in Nat /\ clock # None /\ clock = hdr[eb].due
  BY SMT, <1>1 DEF TypeOK, TimesInv, None
<1>5. \A b \in Block : execution'[b] = IF b = eb THEN clock ELSE execution[b]
  BY <1>2 DEF TypeOK
<1>6. TypeOK'
  BY SMTT(60), <1>1, <1>2, <1>4 DEF TypeOK, consensusVars, verifyVars, acceptVars, settleVars
<1>7. Executed' = Executed \cup {eb}
  BY <1>3, <1>4, <1>5 DEF Executed
<1>8. StreamInv'
  BY <1>1, <1>3, <1>7 DEF StreamInv, Reached, Taken
<1>9. QueueInv' /\ TimesInv'
  BY <1>1, <1>4, <1>5, QueueFrame DEF TimesInv, Taken
<1> QED
  BY <1>1, <1>6, <1>8, <1>9, StreamFrame

\* The last-executed pointer follows.
LEMMA StoreLastExecutedStep ==
  ASSUME IInv, StoreLastExecuted
  PROVE  IInv'
<1> USE DEF IInv
<1>1. /\ epc = "pointer" /\ epc' = "close"
      /\ UNCHANGED <<hdr, xdb, head, execution, executedClosed, headSent, interim, eb,
                     clock, left, queue, cpc, lastAccepted>>
      /\ UNCHANGED <<consensusVars, bootstrapping>>
  BY DEF StoreLastExecuted, StreamOrder, runVars, consensusVars, verifyVars, acceptVars
<1>2. lastExecuted' = eb /\ eb \in Block /\ eb \in DOMAIN hdr
  BY <1>1, RunningBlock DEF StoreLastExecuted
<1>3. TypeOK'
  BY SMT, <1>1, <1>2 DEF TypeOK, consensusVars, verifyVars, acceptVars, settleVars
<1>4. StreamInv'
  BY <1>1, <1>2 DEF StreamInv, Reached, Taken, Executed
<1>5. QueueInv' /\ TimesInv'
  BY <1>1, QueueFrame DEF TimesInv, Taken
<1> QED
  BY <1>1, <1>3, <1>4, <1>5, StreamFrame

\* The executed channel is closed.
LEMMA CloseExecutedStep ==
  ASSUME IInv, CloseExecuted
  PROVE  IInv'
<1> USE DEF IInv
<1>1. /\ epc = "close" /\ epc' = "events"
      /\ UNCHANGED <<hdr, xdb, head, execution, lastExecuted, headSent, interim, eb,
                     clock, left, queue, cpc, lastAccepted>>
      /\ UNCHANGED <<consensusVars, bootstrapping>>
  BY DEF CloseExecuted, StreamOrder, runVars, consensusVars, verifyVars, acceptVars
<1>2. executedClosed' = executedClosed \cup {eb}
  BY DEF CloseExecuted
<1>3. eb \in Block /\ hdr[eb].anc = hdr[hdr[eb].parent].anc \cup {eb}
  BY <1>1, RunningBlock
<1>4. TypeOK'
  BY SMTT(60), <1>1, <1>2, <1>3 DEF TypeOK, consensusVars, verifyVars, acceptVars, settleVars
<1>5. StreamInv'
  BY <1>1, <1>2, <1>3 DEF StreamInv, Reached, Taken, Executed
<1>6. QueueInv' /\ TimesInv'
  BY <1>1, QueueFrame DEF TimesInv, Taken
<1> QED
  BY <1>1, <1>2, <1>4, <1>5, <1>6, StreamFrame

\* The block is announced, and the stream is idle again.
LEMMA SendEventsStep ==
  ASSUME IInv, SendEvents
  PROVE  IInv'
<1> USE DEF IInv
<1>1. /\ epc = "events" /\ epc' = "idle"
      /\ UNCHANGED <<hdr, xdb, head, execution, lastExecuted, executedClosed, interim, eb,
                     clock, left, queue, cpc, lastAccepted>>
      /\ UNCHANGED <<consensusVars, bootstrapping>>
  BY DEF SendEvents, StreamOrder, runVars, consensusVars, verifyVars, acceptVars
<1>2. headSent' = headSent \cup {eb}
  BY DEF SendEvents
<1>3. eb \in Block /\ hdr[eb].anc = hdr[hdr[eb].parent].anc \cup {eb}
  BY <1>1, RunningBlock
<1>4. TypeOK'
  BY SMT, <1>1, <1>2, <1>3 DEF TypeOK, consensusVars, verifyVars, acceptVars, settleVars
<1>5. lastExecuted = eb
  BY <1>1 DEF StreamInv, Reached
<1>6. StreamInv'
  BY <1>1, <1>2, <1>3, <1>5 DEF StreamInv, Reached, Taken, Executed
<1>7. QueueInv' /\ TimesInv'
  BY <1>1, <1>5, QueueFrame DEF TimesInv, Taken
<1> QED
  BY <1>1, <1>4, <1>6, <1>7, StreamFrame

\* The execution stream preserves the inductive invariant.
LEMMA StreamStep ==
  ASSUME IInv, Stream
  PROVE  IInv'
BY DequeueStep, RunTxStep, PutResultsStep, WriteBatchStep, StoreExecutionStep,
   StoreLastExecutedStep, CloseExecutedStep, SendEventsStep DEF Stream

----------------------------------------------------------------------------
\* Verification, rejection and the end of bootstrapping

\* A block is added to the tree and the walk starts at its parent.
LEMMA BeginVerifyStep ==
  ASSUME IInv, BeginVerify
  PROVE  IInv'
<1> USE DEF IInv
<1>1. PICK b \in Block \ DOMAIN hdr, p \in critical, t \in BlockTimes, g \in GasUsed :
        /\ hdr[p].height + 1 > hdr[lastAccepted].height
        /\ t >= Tau /\ t >= hdr[p].time
        /\ hdr' = [x \in DOMAIN hdr \cup {b} |->
                     IF x = b THEN Child(b, p, t, g) ELSE hdr[x]]
        /\ cb' = b /\ cur' = p
  BY DEF BeginVerify
<1>2. /\ cpc = "idle" /\ cpc' = "walk" /\ certain' = TRUE
      /\ bootstrapping => processing = {}
      /\ UNCHANGED <<settledBy, processing, acceptVars, settleVars, critical,
                     executorVars, queue, bootstrapping>>
  BY DEF BeginVerify
<1>3. /\ canonical = lastAccepted /\ lastAccepted \in DOMAIN hdr
      /\ ~ Accepting /\ ~ Verifying
  BY <1>2 DEF ChainInv, Settling, Accepting, Verifying
<1>4. /\ p \in DOMAIN hdr /\ lastAccepted \in hdr[p].anc
      /\ processing = {} => p = lastAccepted
  <2>1. CASE p \in processing
    BY <1>2, <2>1 DEF MapInv
  <2>2. CASE p \notin processing
    <3>1. p \in hdr[lastAccepted].anc
      BY <1>3, <2>2 DEF MapInv
    <3>2. p \in DOMAIN hdr
      BY <1>3, <3>1, AncestorsNested
    <3>3. hdr[p].height \in Nat /\ hdr[lastAccepted].height \in Nat
      BY <1>3, <3>2, HeaderFields
    <3>4. p = lastAccepted
      BY SMT, <1>1, <1>3, <3>1, <3>3, ProperAncestor
    <3> QED
      BY <1>3, <3>4, ParentIsAncestor
  <2> QED
    BY <2>1, <2>2
<1>5. /\ DOMAIN hdr' = DOMAIN hdr \cup {b}
      /\ hdr' \in [DOMAIN hdr' -> Header]
      /\ \A x \in DOMAIN hdr : hdr'[x] = hdr[x]
      /\ hdr'[b] = Child(b, p, t, g)
      /\ Tree'
  BY <1>1, <1>4, TreeGrows
<1>6. UNCHANGED <<settledBy, processing, canonical, finalized, lastAccepted,
                  acceptedSent, dropped, settled, lastSettled, settledClosed, todo,
                  critical, xdb, head, execution, lastExecuted, executedClosed,
                  headSent, interim, eb, clock, left, epc, queue, bootstrapping>>
  BY <1>2 DEF acceptVars, settleVars, executorVars, resultVars, runVars
<1>7. TypeOK'
  BY SMTT(60), <1>1, <1>2, <1>4, <1>5, <1>6 DEF TypeOK
<1>8. \A x \in DOMAIN hdr : hdr[x].anc \subseteq DOMAIN hdr
  BY DEF Tree, Rooted
<1>9. processing \subseteq DOMAIN hdr
  BY DEF MapInv
<1>10. /\ StreamInv' /\ QueueInv' /\ TimesInv'
       /\ ChainInv' /\ SettledByInv' /\ SettlingInv' /\ MapInv'
  <2>1. Verifying'
    BY <1>2 DEF Verifying
  <2> QED
    BY <1>2, <1>3, <1>5, <1>8, <1>9, <2>1, HeadersFrame
<1>11. WalkInv'
  <2>1. b # Genesis /\ b \notin processing
    BY <1>9 DEF TypeOK
  <2>2. hdr'[b].parent = p /\ hdr'[b].time = t /\ hdr'[p] = hdr[p]
    BY SMT, <1>4, <1>5 DEF Child
  <2>3. \A x \in DOMAIN hdr' \ {b} : b \notin hdr'[x].anc
    BY <1>5, <1>8
  <2>4. p \in hdr[p].anc
    BY <1>4, ParentIsAncestor
  <2>5. \A x \in hdr'[p].anc : ~ (hdr'[x].height > hdr'[p].height)
    <3> SUFFICES ASSUME NEW x \in hdr[p].anc
                 PROVE  ~ (hdr'[x].height > hdr'[p].height)
      BY <2>2
    <3>1. x \in DOMAIN hdr /\ hdr[x].height <= hdr[p].height
      BY <1>4, <1>8 DEF Tree, Branches
    <3>2. hdr[x].height \in Nat /\ hdr[p].height \in Nat
      BY <1>4, <3>1, HeaderFields
    <3> QED
      BY SMT, <1>4, <1>5, <3>1, <3>2
  <2> QED
    BY ZenonT(60), <1>1, <1>2, <1>4, <1>5, <1>6, <2>1, <2>2, <2>3, <2>4, <2>5 DEF WalkInv, Verifying
<1>12. BootstrapInv'
  <2>1. hdr'[b].parent = p
    BY SMT, <1>5 DEF Child
  <2> QED
    BY SMT, <1>1, <1>2, <1>4, <1>6, <2>1 DEF BootstrapInv, Verifying
<1> QED
  BY <1>5, <1>7, <1>10, <1>11, <1>12

\* The block being verified is forgotten.
LEMMA FailVerifyStep ==
  ASSUME IInv, Verifying, FailVerify,
         UNCHANGED <<settledBy, processing, acceptVars, settleVars, critical,
                     executorVars, queue, bootstrapping>>
  PROVE  IInv'
<1> USE DEF IInv
<1> DEFINE K == DOMAIN hdr \ {cb}
<1>1. /\ hdr' = [x \in K |-> hdr[x]]
      /\ cb' = lastAccepted /\ cur' = lastSettled /\ certain' = TRUE /\ cpc' = "idle"
  BY DEF FailVerify
<1>2. UNCHANGED <<settledBy, processing, canonical, finalized, lastAccepted,
                  acceptedSent, dropped, settled, lastSettled, settledClosed, todo,
                  critical, xdb, head, execution, lastExecuted, executedClosed,
                  headSent, interim, eb, clock, left, epc, queue, bootstrapping>>
  BY DEF acceptVars, settleVars, executorVars, resultVars, runVars
<1>3. /\ cb \in DOMAIN hdr \ {Genesis} /\ cb \notin processing
      /\ \A x \in K : cb \notin hdr[x].anc
      /\ lastAccepted \in hdr[hdr[cb].parent].anc
  BY DEF WalkInv
<1>4. lastAccepted \in K
  BY <1>3 DEF ChainInv, Tree, Linked
<1>5. /\ DOMAIN hdr' = K /\ hdr' \in [DOMAIN hdr' -> Header]
      /\ \A x \in K : hdr'[x] = hdr[x]
      /\ Tree'
  BY <1>1, <1>3, TreeShrinks
<1>6. \A x \in K : hdr[x].anc \subseteq K
  BY <1>3 DEF Tree, Rooted
<1>7. processing \subseteq K
  BY <1>3 DEF MapInv
<1>8. /\ StreamInv' /\ QueueInv' /\ TimesInv'
      /\ ChainInv' /\ SettledByInv' /\ SettlingInv' /\ MapInv'
  BY <1>1, <1>4, <1>5, <1>6, <1>7, HeadersFrame
<1>9. TypeOK'
  <2>1. lastSettled \in Block /\ DOMAIN hdr' \subseteq Block /\ Genesis \in DOMAIN hdr'
    BY <1>3, <1>5 DEF TypeOK
  <2> QED
    BY SMTT(60), <1>1, <1>2, <1>5, <2>1 DEF TypeOK
<1>10. WalkInv'
  <2>1. lastSettled \in DOMAIN hdr'
    BY <1>2, <1>8 DEF SettlingInv
  <2> QED
    BY <1>1, <1>2, <1>4, <1>5, <2>1 DEF WalkInv, Verifying
<1>11. BootstrapInv'
  BY SMT, <1>1, <1>2 DEF BootstrapInv, Verifying
<1> QED
  BY <1>5, <1>8, <1>9, <1>10, <1>11

\* A step of the walk disturbs nothing but the walk.
LEMMA WalkFrame ==
  ASSUME IInv, Verifying, Verifying', cur' \in Block, certain' \in BOOLEAN,
         UNCHANGED <<hdr, cb, settledBy, processing, acceptVars, settleVars, critical,
                     executorVars, queue, bootstrapping>>,
         WalkInv', BootstrapInv'
  PROVE  IInv'
<1> USE DEF IInv
<1>1. Tree'
  BY TreeFrame
<1>2. \A x \in DOMAIN hdr : hdr[x].anc \subseteq DOMAIN hdr
  BY DEF Tree, Rooted
<1>3. /\ StreamInv' /\ QueueInv' /\ TimesInv'
      /\ ChainInv' /\ SettledByInv' /\ SettlingInv' /\ MapInv'
  <2>1. lastAccepted \in DOMAIN hdr /\ processing \subseteq DOMAIN hdr
    BY DEF ChainInv, MapInv
  <2> QED
    BY <1>2, <2>1, HeadersFrame
<1>4. TypeOK'
  <2>1. cpc' \in {"walk", "loadExecution", "awaitArtefact"}
    BY DEF Verifying
  <2> QED
    BY <2>1 DEF TypeOK, acceptVars, settleVars, executorVars, resultVars, runVars
<1> QED
  BY <1>1, <1>3, <1>4

\* The walk moves to the parent of a block that is not settled.
LEMMA WalkOnStep ==
  ASSUME IInv, NEW sure \in BOOLEAN, cpc \in {"walk", "loadExecution"},
         cur \notin settled, WalkOn(sure),
         sure => hdr[cur].due > SettleAt(cb), bootstrapping => sure,
         UNCHANGED <<settledBy, processing, acceptVars, settleVars, critical,
                     executorVars, queue, bootstrapping>>
  PROVE  IInv'
<1> USE DEF IInv
<1> DEFINE p == hdr[cb].parent
           q == hdr[cur].parent
<1>1. /\ Verifying /\ Verifying' /\ cpc' = "walk"
      /\ certain' = sure /\ UNCHANGED <<hdr, cb>>
  BY DEF WalkOn, Verifying
<1>2. UNCHANGED <<processing, settled, lastAccepted, executedClosed>>
  BY DEF acceptVars, settleVars, executorVars, resultVars
<1>3. cur' = q
  BY DEF WalkOn, ParentBlock
<1>4. /\ cur \in DOMAIN hdr /\ cur \in hdr[p].anc /\ cb \in DOMAIN hdr
      /\ p \in DOMAIN hdr
  BY <1>1, ParentIsAncestor DEF WalkInv
<1>5. q \in DOMAIN hdr /\ q \in hdr[p].anc
  BY <1>4, ParentIsAncestor, AncestorsNested
<1>6. cur # Genesis
  BY ParentIsAncestor DEF SettlingInv, ChainInv, WalkInv
<1>7. hdr[cur].height = hdr[q].height + 1 /\ hdr[q].height \in Nat
  BY <1>4, <1>5, <1>6, HeaderFields DEF Tree, Linked
<1>8. ASSUME sure, NEW x \in hdr[p].anc, hdr[x].height > hdr[q].height
      PROVE  hdr[x].due > SettleAt(cb)
  <2>1. x \in DOMAIN hdr /\ hdr[x].height \in Nat
    BY <1>4, AncestorsNested, HeaderFields
  <2>2. hdr[cur].height <= hdr[x].height
    BY SMT, <1>7, <1>8, <2>1
  <2>3. cur \in hdr[x].anc
    BY <1>4, <2>2, HeightOrders
  <2>4. hdr[cur].due <= hdr[x].due
    BY <2>1, <2>3 DEF Tree, Branches
  <2>5. /\ hdr[cur].due \in Nat /\ hdr[x].due \in Nat /\ hdr[cb].time \in Nat
    BY <1>4, <2>1, HeaderFields
  <2>6. hdr[cur].due > SettleAt(cb)
    BY <1>8
  <2>7. SettleAt(cb) \in Int
    BY SMT, <2>5, HeadersAssumption DEF SettleAt
  <2> QED
    BY SMT, <2>4, <2>5, <2>6, <2>7
<1>9. WalkInv'
  BY <1>1, <1>2, <1>3, <1>5, <1>8 DEF WalkInv, Verifying, SettleAt
<1>10. BootstrapInv'
  BY <1>1, <1>2 DEF BootstrapInv, Verifying
<1>11. q \in Block
  BY <1>5 DEF TypeOK
<1> QED
  BY <1>1, <1>3, <1>9, <1>10, <1>11, WalkFrame

\* LastToSettleAt returns a block that is due in time.  If it is certain of the
\* later ones then this is the block that the headers call for.
LEMMA WalkReturnStep ==
  ASSUME IInv, cpc \in {"walk", "loadExecution"}, WalkReturn,
         hdr[cur].due <= SettleAt(cb) \/ cur = Genesis,
         UNCHANGED <<settledBy, processing, acceptVars, settleVars, critical,
                     executorVars, queue, bootstrapping>>
  PROVE  IInv'
<1> USE DEF IInv
<1>1. Verifying
  BY DEF Verifying
<1>2. CASE certain
  <2>1. cpc' = "awaitArtefact" /\ UNCHANGED <<hdr, cb, cur, certain>>
    BY <1>2 DEF WalkReturn
  <2>2. UNCHANGED <<processing, settled, lastAccepted, executedClosed>>
    BY DEF acceptVars, settleVars, executorVars, resultVars
  <2>3. Verifying'
    BY <2>1 DEF Verifying
  <2>4. IsLastToSettle(cur, hdr[cb].parent, SettleAt(cb))
    BY <1>1, <1>2 DEF WalkInv, IsLastToSettle
  <2>5. WalkInv'
    BY ZenonT(60), <1>1, <2>1, <2>2, <2>4 DEF WalkInv, Verifying, IsLastToSettle, SettleAt
  <2>6. BootstrapInv'
    BY <1>1, <2>1, <2>2 DEF BootstrapInv, Verifying
  <2>7. cur \in Block
    BY DEF WalkInv, TypeOK
  <2>8. certain \in BOOLEAN
    BY DEF TypeOK
  <2> QED
    BY <1>1, <2>1, <2>3, <2>5, <2>6, <2>7, <2>8, WalkFrame
<1>3. CASE ~ certain
  BY <1>1, <1>3, FailVerifyStep DEF WalkReturn
<1> QED
  BY <1>2, <1>3

\* Every settled block is due before any block to be verified settles.
LEMMA SettledIsDue ==
  ASSUME IInv, Verifying, cur \in settled
  PROVE  hdr[cur].due <= SettleAt(cb) \/ cur = Genesis
<1> USE DEF IInv
<1> DEFINE s == settledBy[lastAccepted]
           p == hdr[cb].parent
<1>1. /\ canonical = lastAccepted /\ lastAccepted \in DOMAIN hdr
      /\ settled = hdr[s].anc
  BY DEF ChainInv, SettlingInv, Verifying, Settling
<1>2. lastAccepted \in hdr[canonical].anc
  BY <1>1, ParentIsAncestor
<1>3. s \in DOMAIN hdr /\ cur \in DOMAIN hdr /\ cb \in DOMAIN hdr
  BY <1>2, SettledByCanonical DEF WalkInv
<1>4. CASE s = Genesis
  BY SMTT(60), <1>1, <1>4 DEF Tree, GenesisHeader
<1>5. CASE s # Genesis
  <2>1. lastAccepted # Genesis
    BY <1>5 DEF SettledByInv
  <2>2. hdr[s].due <= SettleAt(lastAccepted)
    BY <1>2, <1>5, <2>1, SettledByAncestor
  <2>3. hdr[cur].due <= hdr[s].due
    BY <1>1, <1>3 DEF Tree, Branches
  <2>4. p \in DOMAIN hdr /\ lastAccepted \in hdr[p].anc /\ cb # Genesis
    BY <1>3, ParentIsAncestor DEF WalkInv
  <2>5. hdr[lastAccepted].time <= hdr[p].time
    BY <2>4 DEF Tree, Branches
  <2>6. hdr[cb].time >= hdr[p].time
    BY <1>3, <2>4 DEF Tree, Linked
  <2>7. /\ hdr[lastAccepted].time \in Nat /\ hdr[p].time \in Nat /\ hdr[cb].time \in Nat
        /\ hdr[cur].due \in Nat /\ hdr[s].due \in Nat
    BY <1>1, <1>3, <2>4, HeaderFields
  <2> QED
    BY SMTT(60), <2>2, <2>3, <2>5, <2>6, <2>7, HeadersAssumption DEF SettleAt
<1> QED
  BY <1>4, <1>5

\* The first half of an iteration of LastToSettleAt.
LEMMA WalkTimesStep ==
  ASSUME IInv, WalkTimes
  PROVE  IInv'
<1> USE DEF IInv
<1>1. /\ cpc = "walk" /\ Verifying
      /\ UNCHANGED <<settledBy, processing, acceptVars, settleVars, critical,
                     executorVars, queue, bootstrapping>>
  BY DEF WalkTimes, Verifying
<1>2. CASE cur \in settled /\ WalkReturn
  BY <1>1, <1>2, SettledIsDue, WalkReturnStep
<1>3. CASE cur \notin settled /\ (StartsLate(cur) \/ RunsLate(cur)) /\ WalkOn(TRUE)
  <2>1. /\ cur \in DOMAIN hdr /\ cb \in DOMAIN hdr /\ hdr[cb].time >= Tau
        /\ cur \in Block
    BY <1>1 DEF WalkInv, TypeOK
  <2>2. cur # Genesis
    BY <1>3, ParentIsAncestor DEF SettlingInv, ChainInv, WalkInv
  <2>3. /\ hdr[cur].due \in Nat /\ hdr[cur].time \in Nat /\ hdr[cb].time \in Nat
        /\ Tau \in Nat /\ SettleAt(cb) \in Nat
    <3>1. hdr[cur].due \in Nat /\ hdr[cur].time \in Nat /\ hdr[cb].time \in Nat
      BY <2>1, HeaderFields
    <3> QED
      BY SMT, <2>1, <3>1, HeadersAssumption DEF SettleAt
  <2>4. hdr[cur].time <= hdr[cur].due
    <3>1. /\ hdr[cur].parent \in DOMAIN hdr
          /\ hdr[cur].due = Larger(hdr[hdr[cur].parent].due, hdr[cur].time) + hdr[cur].gas
      BY <2>1, <2>2, ParentIsAncestor DEF Tree, Linked
    <3>2. hdr[hdr[cur].parent].due \in Nat /\ hdr[cur].gas \in Nat
      BY <2>1, <3>1, HeaderFields
    <3> QED
      BY SMT, <2>3, <3>1, <3>2 DEF Larger
  <2>5. StartsLate(cur) => hdr[cur].due > SettleAt(cb)
    BY SMT, <2>3, <2>4 DEF StartsLate
  <2>6. RunsLate(cur) => hdr[cur].due > SettleAt(cb)
    <3>1. interim[cur] \in Nat \/ interim[cur] = -1
      BY <2>1 DEF TypeOK, None
    <3>2. interim[cur] # None => interim[cur] <= hdr[cur].due
      BY <2>1 DEF TimesInv
    <3> QED
      BY SMT, <2>3, <3>1, <3>2 DEF RunsLate, None
  <2> QED
    BY <1>1, <1>3, <2>5, <2>6, WalkOnStep
<1>4. CASE cur \notin settled /\ cpc' = "loadExecution" /\ UNCHANGED <<hdr, cb, cur, certain>>
  <2>1. UNCHANGED <<processing, settled, lastAccepted, executedClosed>>
    BY <1>1 DEF acceptVars, settleVars, executorVars, resultVars
  <2>2. WalkInv'
    BY <1>1, <1>4, <2>1 DEF WalkInv, Verifying, SettleAt
  <2>3. BootstrapInv'
    BY <1>1, <1>4, <2>1 DEF BootstrapInv, Verifying
  <2>4. cur \in Block
    BY DEF WalkInv, TypeOK
  <2>5. certain \in BOOLEAN /\ Verifying'
    BY <1>4 DEF TypeOK, Verifying
  <2> QED
    BY <1>1, <1>4, <2>2, <2>3, <2>4, <2>5, WalkFrame
<1> QED
  BY <1>2, <1>3, <1>4 DEF WalkTimes

\* The second half: execution may have finished since, or may not.
LEMMA WalkExecutionStep ==
  ASSUME IInv, WalkExecution
  PROVE  IInv'
<1> USE DEF IInv
<1>1. /\ cpc = "loadExecution" /\ Verifying /\ cur \notin settled
      /\ UNCHANGED <<settledBy, processing, acceptVars, settleVars, critical,
                     executorVars, queue, bootstrapping>>
  BY DEF WalkExecution, WalkInv, Verifying
<1>2. cur \in Block /\ cur \in DOMAIN hdr /\ cb \in DOMAIN hdr
  BY DEF WalkInv, TypeOK
<1>3. CASE execution[cur] = None /\ WalkOn(FALSE)
  <2>1. ~ bootstrapping
    <3>1. SUFFICES ASSUME bootstrapping PROVE FALSE
      OBVIOUS
    <3>2. lastAccepted \in executedClosed /\ cur \in hdr[lastAccepted].anc
      BY <1>1, <3>1 DEF BootstrapInv, WalkInv
    <3>3. executedClosed \subseteq Executed
      BY ClosedIsExecuted
    <3>4. lastAccepted \in DOMAIN hdr /\ lastAccepted \in Executed
      BY <3>2, <3>3 DEF ChainInv
    <3>5. cur \in Executed
      BY <3>2, <3>4, AncestorsNested, KnownBlocks DEF StreamInv
    <3> QED
      BY <1>3, <3>5 DEF Executed
  <2> QED
    BY <1>1, <1>3, <2>1, WalkOnStep
<1>4. CASE execution[cur] # None /\ EndsLate(cur) /\ WalkOn(TRUE)
  BY <1>1, <1>2, <1>4, WalkOnStep DEF TimesInv, EndsLate
<1>5. CASE execution[cur] # None /\ ~ EndsLate(cur) /\ WalkReturn
  <2>1. execution[cur] = hdr[cur].due
    BY <1>2, <1>5 DEF TimesInv
  <2>2. hdr[cur].due \in Nat /\ hdr[cb].time \in Nat
    BY <1>2, HeaderFields
  <2>3. SettleAt(cb) \in Int
    BY SMT, <2>2, HeadersAssumption DEF SettleAt
  <2> QED
    BY SMT, <1>1, <1>5, <2>1, <2>2, <2>3, WalkReturnStep DEF EndsLate
<1> QED
  BY <1>3, <1>4, <1>5 DEF WalkExecution

\* The verified block settles what its header calls for, which is executed.
LEMMA FinishVerifyStep ==
  ASSUME IInv, FinishVerify
  PROVE  IInv'
<1> USE DEF IInv
<1>1. /\ cpc = "awaitArtefact" /\ cpc' = "idle" /\ cur \in executedClosed
      /\ settledBy' = [settledBy EXCEPT ![cb] = cur]
      /\ critical' = critical \cup {cb} /\ processing' = processing \cup {cb}
      /\ UNCHANGED <<hdr, certain, acceptVars, settleVars, cb, cur, executorVars,
                     queue, bootstrapping>>
  BY DEF FinishVerify, AwaitArtefact
<1>2. UNCHANGED <<hdr, certain, canonical, finalized, lastAccepted, acceptedSent,
                  dropped, settled, lastSettled, settledClosed, todo, cb, cur,
                  executedClosed, queue, bootstrapping>>
  BY <1>1 DEF acceptVars, settleVars, executorVars, resultVars
<1>3. /\ cb \in DOMAIN hdr \ {Genesis} /\ cb \notin processing
      /\ lastAccepted \in hdr[hdr[cb].parent].anc
      /\ \A x \in DOMAIN hdr \ {cb} : cb \notin hdr[x].anc
      /\ IsLastToSettle(cur, hdr[cb].parent, SettleAt(cb))
      /\ cur \in DOMAIN hdr
  BY <1>1 DEF WalkInv, Verifying
<1>4. canonical = lastAccepted /\ lastAccepted \in DOMAIN hdr
  BY <1>1 DEF ChainInv, Settling
<1>5. lastAccepted # cb /\ cb \notin hdr[lastAccepted].anc /\ lastAccepted \in hdr[cb].anc
  BY SMTT(60), <1>3, <1>4 DEF Tree, Linked
<1>6. /\ cb \in Block /\ cur \in Block
      /\ settledBy'[cb] = cur /\ \A x \in Block \ {cb} : settledBy'[x] = settledBy[x]
  BY <1>1, <1>3 DEF TypeOK
<1>7. hdr[lastAccepted].anc \subseteq Block \ {cb} /\ processing \subseteq Block \ {cb}
  BY ZenonT(60), <1>3, <1>4, <1>5 DEF Tree, Rooted, TypeOK
<1>8. TypeOK'
  <2>1. settledBy' \in [Block -> Block]
    BY <1>1, <1>6 DEF TypeOK
  <2> QED
    BY SMTT(60), <1>1, <1>2, <1>6, <2>1 DEF TypeOK, executorVars, resultVars, runVars
<1>9. Tree' /\ StreamInv' /\ TimesInv' /\ QueueInv'
  BY <1>1, <1>2, ConsensusFrame DEF Enqueued
<1>10. settledBy'[lastAccepted] = settledBy[lastAccepted] /\ settledBy'[Genesis] = settledBy[Genesis]
  BY ZenonT(60), <1>3, <1>4, <1>5, <1>6 DEF TypeOK
<1>11. ChainInv'
  BY <1>1, <1>2, <1>4, <1>10 DEF ChainInv, Settling, Accepting
<1>12. SettledByInv'
  <2>1. settledBy'[Genesis] = Genesis
    BY <1>10 DEF SettledByInv
  <2>2. ASSUME NEW x \in (processing' \cup hdr[canonical].anc) \ {Genesis}
        PROVE  /\ IsLastToSettle(settledBy'[x], hdr[x].parent, SettleAt(x))
               /\ settledBy'[x] \in executedClosed
    <3>1. CASE x = cb
      BY <1>1, <1>3, <1>6, <3>1
    <3>2. CASE x # cb
      <4>1. x \in (processing \cup hdr[canonical].anc) \ {Genesis}
        BY <1>1, <3>2
      <4>2. settledBy'[x] = settledBy[x]
        BY <1>4, <1>6, <1>7, <3>2, <4>1
      <4> QED
        BY <4>1, <4>2 DEF SettledByInv
    <3> QED
      BY <3>1, <3>2
  <2> QED
    BY <1>2, <2>1, <2>2, SettledByFrame
<1>13. SettlingInv'
  BY ZenonT(60), <1>1, <1>2, <1>4, <1>6, <1>7, <1>10 DEF SettlingInv, Settling
<1>14. MapInv'
  <2>1. Floor' = Floor
    BY <1>1, <1>2, <1>10 DEF Floor, Accepting, Settling
  <2> QED
    BY ZenonT(60), <1>1, <1>2, <1>3, <1>4, <1>5, <2>1 DEF MapInv, Accepting, Settling, Verifying
<1>15. WalkInv'
  <2>1. ~ Verifying'
    BY <1>1 DEF Verifying
  <2> QED
    BY <1>2, <1>3, <2>1, NoWalk
<1>16. BootstrapInv'
  BY SMT, <1>1, <1>2 DEF BootstrapInv, Verifying
<1> QED
  BY <1>8, <1>9, <1>11, <1>12, <1>13, <1>14, <1>15, <1>16

\* A block that fails for another reason is forgotten.
LEMMA RefuseBlockStep ==
  ASSUME IInv, RefuseBlock
  PROVE  IInv'
<1>1. Verifying
  BY DEF RefuseBlock, Verifying
<1> QED
  BY <1>1, FailVerifyStep DEF RefuseBlock

\* Verification preserves the inductive invariant.
LEMMA VerifyStep ==
  ASSUME IInv, BeginVerify \/ WalkTimes \/ WalkExecution \/ FinishVerify \/ RefuseBlock
  PROVE  IInv'
BY BeginVerifyStep, WalkTimesStep, WalkExecutionStep, FinishVerifyStep, RefuseBlockStep

\* Conflicting blocks leave the map one by one.
LEMMA RejectBlockStep ==
  ASSUME IInv, RejectBlock
  PROVE  IInv'
<1> USE DEF IInv
<1>1. PICK b \in Conflicting :
        /\ critical' = critical \ {b} /\ processing' = processing \ {b}
        /\ cpc' = IF Conflicting = {b} THEN "idle" ELSE "reject"
  BY DEF RejectBlock
<1>2. /\ cpc = "reject"
      /\ UNCHANGED <<hdr, settledBy, certain, acceptVars, settleVars, cb, cur,
                     executorVars, queue, bootstrapping>>
  BY DEF RejectBlock
<1>3. UNCHANGED <<hdr, settledBy, certain, canonical, finalized, lastAccepted,
                  acceptedSent, dropped, settled, lastSettled, settledClosed, todo,
                  cb, cur, executedClosed>>
  BY <1>2 DEF acceptVars, settleVars, executorVars, resultVars
<1>4. /\ cpc' \in {"idle", "reject"} /\ ~ Accepting' /\ ~ Verifying' /\ ~ Settling'
      /\ ~ Accepting /\ ~ Verifying /\ ~ Settling
  BY <1>1, <1>2 DEF Accepting, Verifying, Settling
<1>5. canonical = lastAccepted
  BY <1>4 DEF ChainInv
<1>6. b \in processing /\ b \notin hdr[canonical].anc
  BY DEF Conflicting, MapInv
<1>7. TypeOK'
  BY SMTT(60), <1>1, <1>2, <1>3, <1>4 DEF TypeOK, executorVars, resultVars, runVars
<1>8. Tree' /\ StreamInv' /\ TimesInv' /\ QueueInv'
  <2>1. Enqueued' = Enqueued
    BY <1>2, <1>3, <1>4 DEF Enqueued
  <2> QED
    BY <1>2, <2>1, ConsensusFrame
<1>9. ChainInv'
  BY <1>2, <1>3, <1>4 DEF ChainInv
<1>10. SettledByInv'
  BY <1>1, <1>3 DEF SettledByInv, IsLastToSettle, SettleAt
<1>11. SettlingInv'
  BY <1>2, <1>3, <1>4 DEF SettlingInv
<1>12. MapInv'
  <2>1. Floor' = Floor
    BY <1>3, <1>4 DEF Floor
  <2>2. cpc' = "idle" => \A x \in processing' : lastAccepted \in hdr[x].anc
    BY <1>1 DEF Conflicting
  <2> QED
    BY ZenonT(60), <1>1, <1>3, <1>4, <1>6, <2>1, <2>2 DEF MapInv
<1>13. WalkInv'
  <2>1. cur \in DOMAIN hdr /\ cb \in DOMAIN hdr
    BY DEF WalkInv
  <2> QED
    BY <1>3, <1>4, <2>1, NoWalk
<1>14. BootstrapInv'
  BY SMT, <1>2, <1>3, <1>4 DEF BootstrapInv
<1> QED
  BY <1>7, <1>8, <1>9, <1>10, <1>11, <1>12, <1>13, <1>14

\* Bootstrapping ends between two calls.
LEMMA SetStateStep ==
  ASSUME IInv, SetState
  PROVE  IInv'
<1> USE DEF IInv
<1>1. /\ bootstrapping' = FALSE
      /\ UNCHANGED <<consensusVars, executorVars, queue>>
  BY DEF SetState
<1>2. UNCHANGED <<hdr, settledBy, certain, processing, canonical, finalized,
                  lastAccepted, acceptedSent, dropped, settled, lastSettled,
                  settledClosed, todo, critical, cb, cur, cpc, executedClosed>>
  BY <1>1 DEF consensusVars, verifyVars, acceptVars, settleVars, executorVars, resultVars
<1>3. TypeOK'
  BY ZenonT(60), <1>1, <1>2 DEF TypeOK, executorVars, resultVars, runVars
<1>4. Tree' /\ StreamInv' /\ TimesInv' /\ QueueInv'
  BY <1>1, <1>2, ConsensusFrame DEF Enqueued
<1>5. ChainInv' /\ SettlingInv'
  BY <1>2 DEF ChainInv, SettlingInv, Settling, Accepting
<1>6. SettledByInv'
  BY <1>2 DEF SettledByInv, IsLastToSettle, SettleAt
<1>7. MapInv'
  BY <1>2 DEF MapInv, Floor, Accepting, Settling, Verifying
<1>8. WalkInv' /\ BootstrapInv'
  BY <1>1, <1>2 DEF WalkInv, Verifying, IsLastToSettle, SettleAt, BootstrapInv
<1> QED
  BY <1>3, <1>4, <1>5, <1>6, <1>7, <1>8

----------------------------------------------------------------------------
\* Acceptance, settlement and eviction

\* Between calls, the last settled block is what the last accepted one settles,
\* and it is what Block.LastSettled answers for it.
LEMMA LastSettledOfAccepted ==
  ASSUME IInv, cpc = "idle"
  PROVE  /\ canonical = lastAccepted /\ lastAccepted \in DOMAIN hdr
         /\ lastSettled = settledBy[lastAccepted]
         /\ LastSettled(lastAccepted) = lastSettled
         /\ lastSettled \in DOMAIN hdr /\ lastSettled \in hdr[lastAccepted].anc
         /\ settled = hdr[lastSettled].anc /\ settledClosed = settled
         /\ finalized = lastSettled
<1> USE DEF IInv
<1>1. /\ canonical = lastAccepted /\ lastAccepted \in DOMAIN hdr
      /\ lastSettled = settledBy[lastAccepted]
      /\ settled = hdr[lastSettled].anc /\ settledClosed = settled
      /\ finalized = lastSettled
  BY DEF ChainInv, SettlingInv, Settling
<1>2. lastAccepted \in hdr[canonical].anc
  BY <1>1, ParentIsAncestor
<1>3. lastSettled \in DOMAIN hdr /\ lastSettled \in hdr[lastAccepted].anc
  BY <1>1, <1>2, SettledByCanonical
<1>4. LastSettled(lastAccepted) = lastSettled
  <2>1. CASE lastAccepted = Genesis
    BY <1>1, <2>1 DEF LastSettled, SettledByInv
  <2>2. CASE lastAccepted # Genesis
    <3>1. lastSettled \in hdr[hdr[lastAccepted].parent].anc
      BY <1>1, <1>2, <2>2, SettledByAncestor
    <3>2. lastAccepted \notin hdr[lastSettled].anc
      BY ZenonT(60), <1>1, <2>2, <3>1, ParentIsAncestor, AncestorsNested DEF Tree, Linked
    <3> QED
      BY <1>1, <2>2, <3>2 DEF LastSettled
  <2> QED
    BY <2>1, <2>2
<1> QED
  BY <1>1, <1>3, <1>4

\* What the next block settles lies on top of what is settled.
LEMMA NextSettlesMore ==
  ASSUME IInv, cpc = "idle", NEW b \in processing, hdr[b].parent = lastAccepted
  PROVE  /\ b \in DOMAIN hdr \ {Genesis}
         /\ settledBy[b] \in DOMAIN hdr
         /\ settledBy[b] \in hdr[lastAccepted].anc
         /\ lastSettled \in hdr[settledBy[b]].anc
<1> USE DEF IInv
<1> DEFINE s == settledBy[b]
           a == lastAccepted
<1>1. /\ canonical = a /\ a \in DOMAIN hdr /\ lastSettled = settledBy[a]
      /\ lastSettled \in DOMAIN hdr /\ lastSettled \in hdr[a].anc
  BY LastSettledOfAccepted
<1>2. b \in DOMAIN hdr /\ b # Genesis
  BY ParentIsAncestor DEF MapInv, ChainInv
<1>3. /\ s \in hdr[a].anc /\ s \in DOMAIN hdr
      /\ \A x \in hdr[a].anc : hdr[x].height > hdr[s].height => hdr[x].due > SettleAt(b)
  BY <1>2, SettledByAncestor DEF SettledByInv, IsLastToSettle
<1>4. /\ hdr[a].time \in Nat /\ hdr[b].time \in Nat /\ hdr[lastSettled].due \in Nat
      /\ hdr[s].height \in Nat /\ hdr[lastSettled].height \in Nat
  BY <1>1, <1>2, <1>3, HeaderFields
<1>5. ~ (hdr[lastSettled].height > hdr[s].height)
  <2>1. CASE lastSettled = Genesis
    BY SMT, <1>4, <2>1 DEF Tree, GenesisHeader
  <2>2. CASE lastSettled # Genesis
    <3>1. a # Genesis /\ a \in hdr[canonical].anc
      BY <1>1, <2>2, ParentIsAncestor DEF SettledByInv
    <3>2. hdr[lastSettled].due <= SettleAt(a)
      BY <1>1, <2>2, <3>1, SettledByAncestor
    <3>3. hdr[b].time >= hdr[a].time
      BY <1>2 DEF Tree, Linked
    <3>4. SettleAt(a) \in Int /\ SettleAt(b) \in Int /\ SettleAt(a) <= SettleAt(b)
      BY SMT, <1>4, <3>3, HeadersAssumption DEF SettleAt
    <3>5. ~ (hdr[lastSettled].due > SettleAt(b))
      BY SMT, <1>4, <3>2, <3>4
    <3> QED
      BY <1>1, <1>3, <3>5
  <2> QED
    BY <2>1, <2>2
<1>6. hdr[lastSettled].height <= hdr[s].height
  BY SMT, <1>4, <1>5
<1> QED
  BY <1>1, <1>2, <1>3, <1>6, HeightOrders

\* The blocks that the next one settles, and those that leave the map.
LEMMA NextSettles ==
  ASSUME IInv, cpc = "idle", NEW b \in processing, hdr[b].parent = lastAccepted
  PROVE  /\ settled \cup Settles(b) = hdr[settledBy[b]].anc
         /\ settled \cap Settles(b) = {}
         /\ Settles(b) = {} => settledBy[b] = lastSettled
         /\ Obsolete(b) = {x \in hdr[b].anc :
                             /\ hdr[x].height >= hdr[lastSettled].height
                             /\ hdr[x].height < hdr[settledBy[b]].height}
<1> USE DEF IInv
<1> DEFINE s == settledBy[b]
           l == lastSettled
           a == lastAccepted
<1>1. /\ a \in DOMAIN hdr /\ LastSettled(a) = l /\ l \in DOMAIN hdr
      /\ settled = hdr[l].anc
  BY LastSettledOfAccepted
<1>2. b \in DOMAIN hdr \ {Genesis} /\ s \in DOMAIN hdr /\ s \in hdr[a].anc /\ l \in hdr[s].anc
  BY NextSettlesMore
<1>3. Settles(b) = {x \in hdr[s].anc : hdr[x].height > hdr[l].height}
  BY <1>1 DEF Settles, Range
<1>4. hdr[a].anc \subseteq hdr[b].anc /\ s \in hdr[b].anc /\ l \in hdr[b].anc
      /\ hdr[s].anc \subseteq hdr[b].anc
  BY <1>1, <1>2, ParentIsAncestor, AncestorsNested
<1>5. \A x \in hdr[b].anc : x \in DOMAIN hdr /\ hdr[x].height \in Nat
  BY <1>2, AncestorsNested, HeaderFields
<1>6. \A x \in hdr[b].anc : x \in hdr[l].anc <=> hdr[x].height <= hdr[l].height
  BY <1>2, <1>4, HeightOrders
<1>7. \A x \in hdr[b].anc : x \in hdr[s].anc <=> hdr[x].height <= hdr[s].height
  BY <1>2, <1>4, HeightOrders
<1>8. \A x \in hdr[b].anc : /\ x = s <=> hdr[x].height = hdr[s].height
                            /\ x = l <=> hdr[x].height = hdr[l].height
  BY <1>2, <1>4, SameHeight
<1>9. hdr[l].anc \subseteq hdr[s].anc /\ s \in hdr[s].anc
  BY <1>2, AncestorsNested, ParentIsAncestor
<1>10. hdr[l].height <= hdr[s].height
  BY <1>2, <1>4, <1>7
<1>11. settled \cup Settles(b) = hdr[s].anc /\ settled \cap Settles(b) = {}
  BY SMTT(60), <1>1, <1>3, <1>4, <1>5, <1>6, <1>9
<1>12. Settles(b) = {} => s = l
  BY SMTT(60), <1>3, <1>4, <1>5, <1>8, <1>9, <1>10
<1>13. Obsolete(b) = {x \in hdr[b].anc : /\ hdr[x].height >= hdr[l].height
                                         /\ hdr[x].height < hdr[s].height}
  <2>1. Obsolete(b) = (Settles(b) \cup {l}) \ {s}
    BY <1>1 DEF Obsolete
  <2> QED
    BY SMTT(60), <1>3, <1>4, <1>5, <1>7, <1>8, <1>10, <2>1
<1> QED
  BY <1>11, <1>12, <1>13

\* The block becomes canonical; what it settles is still to be settled.
LEMMA AcceptOnDiskStep ==
  ASSUME IInv, AcceptOnDisk
  PROVE  IInv'
<1> USE DEF IInv
<1>1. PICK b \in processing :
        /\ hdr[b].parent = lastAccepted /\ canonical' = b
        /\ finalized' = IF Settles(b) = {} THEN finalized ELSE settledBy[b]
        /\ todo' = Settles(b) /\ dropped' = Obsolete(b)
        /\ processing' = processing \ {b} /\ cb' = b
  BY DEF AcceptOnDisk
<1>2. /\ cpc = "idle" /\ cpc' = "settle"
      /\ UNCHANGED <<hdr, settledBy, certain, lastAccepted, acceptedSent, settled,
                     lastSettled, settledClosed, critical, cur, executorVars, queue,
                     bootstrapping>>
  BY DEF AcceptOnDisk
<1>3. /\ canonical = lastAccepted /\ lastAccepted \in DOMAIN hdr
      /\ lastSettled = settledBy[lastAccepted]
      /\ lastSettled \in DOMAIN hdr /\ lastSettled \in hdr[lastAccepted].anc
      /\ settled = hdr[lastSettled].anc /\ settledClosed = settled
      /\ finalized = lastSettled
  BY <1>2, LastSettledOfAccepted
<1>4. /\ b \in DOMAIN hdr \ {Genesis} /\ settledBy[b] \in DOMAIN hdr
      /\ lastSettled \in hdr[settledBy[b]].anc
  BY <1>1, <1>2, NextSettlesMore
<1>5. /\ settled \cup Settles(b) = hdr[settledBy[b]].anc
      /\ settled \cap Settles(b) = {}
      /\ Settles(b) = {} => settledBy[b] = lastSettled
      /\ Obsolete(b) = {x \in hdr[b].anc :
                          /\ hdr[x].height >= hdr[lastSettled].height
                          /\ hdr[x].height < hdr[settledBy[b]].height}
  BY <1>1, <1>2, NextSettles
<1>6. hdr[b].anc = hdr[lastAccepted].anc \cup {b} /\ b \notin hdr[lastAccepted].anc
  BY <1>1, <1>4 DEF Tree, Linked
<1>7. UNCHANGED <<executedClosed>>
  BY <1>2 DEF executorVars, resultVars
<1>8. TypeOK'
  <2>1. b \in Block /\ settledBy[b] \in Block /\ lastSettled \in Block
        /\ Settles(b) \subseteq Block /\ Obsolete(b) \subseteq Block
    BY <1>4, <1>5 DEF TypeOK, Tree, Rooted
  <2> QED
    BY SMTT(60), <1>1, <1>2, <1>3, <2>1 DEF TypeOK, executorVars, resultVars, runVars
<1>9. Tree' /\ StreamInv' /\ TimesInv' /\ QueueInv'
  BY <1>2, ConsensusFrame DEF Enqueued
<1>10. ChainInv'
  BY ZenonT(60), <1>1, <1>2, <1>3, <1>4, <1>5 DEF ChainInv, Settling, Accepting
<1>11. SettledByInv'
  <2>1. processing' \cup hdr[b].anc \subseteq processing \cup hdr[canonical].anc
    BY <1>1, <1>3, <1>6
  <2> QED
    BY ZenonT(60), <1>1, <1>2, <1>7, <2>1 DEF SettledByInv, IsLastToSettle, SettleAt
<1>12. SettlingInv'
  BY ZenonT(60), <1>1, <1>2, <1>3, <1>5 DEF SettlingInv, Settling
<1>13. MapInv'
  <2>1. Floor = lastSettled /\ Floor' = lastSettled
    BY <1>1, <1>2, <1>3 DEF Floor, Accepting, Settling
  <2>2. hdr[b].height >= hdr[lastSettled].height
    <3>1. lastSettled \in hdr[b].anc
      BY <1>3, <1>6
    <3>2. /\ hdr[lastSettled].height <= hdr[b].height
          /\ hdr[b].height \in Nat /\ hdr[lastSettled].height \in Nat
      BY ZenonT(60), <1>3, <1>4, <3>1, HeaderFields DEF Tree, Branches
    <3> QED
      BY <3>2
  <2>3. critical' = processing' \cup {x \in hdr[b].anc : hdr[x].height >= hdr[lastSettled].height}
    BY ZenonT(60), <1>1, <1>2, <1>3, <1>6, <2>1, <2>2 DEF MapInv
  <2>4. \A x \in processing' : x \in DOMAIN hdr /\ x \notin hdr[b].anc
    BY <1>1, <1>3, <1>6 DEF MapInv
  <2>5. hdr[lastSettled].height <= hdr[settledBy[b]].height
    BY <1>4 DEF Tree, Branches
  <2> QED
    BY ZenonT(60), <1>1, <1>2, <1>5, <2>1, <2>3, <2>4, <2>5 DEF MapInv, Accepting, Settling, Verifying
<1>14. WalkInv' /\ BootstrapInv'
  BY ZenonT(60), <1>1, <1>2, <1>4 DEF WalkInv, BootstrapInv, Verifying
<1> QED
  BY <1>8, <1>9, <1>10, <1>11, <1>12, <1>13, <1>14

\* The lowest block that is still to be settled comes next.
LEMMA SettleInMemoryStep ==
  ASSUME IInv, SettleInMemory
  PROVE  IInv'
<1> USE DEF IInv
<1>1. PICK s \in todo :
        /\ \A x \in todo : hdr[s].height <= hdr[x].height
        /\ s \notin settled /\ settled' = settled \cup {s} /\ cur' = s
  BY DEF SettleInMemory, SettleNext
<1>2. /\ cpc = "settle" /\ cpc' = "storeSettled"
      /\ UNCHANGED <<verifyVars, acceptVars, lastSettled, settledClosed, todo,
                     critical, cb, executorVars, queue, bootstrapping>>
  BY DEF SettleInMemory
<1>3. UNCHANGED <<hdr, settledBy, certain, processing, canonical, finalized,
                  lastAccepted, acceptedSent, dropped, executedClosed>>
  BY <1>2 DEF verifyVars, acceptVars, executorVars, resultVars
<1> DEFINE top == settledBy[canonical]
<1>4. /\ canonical = cb /\ settled = hdr[lastSettled].anc /\ settledClosed = settled
      /\ settled \cup todo = hdr[top].anc /\ settled \cap todo = {}
      /\ lastSettled \in DOMAIN hdr
  BY <1>2 DEF ChainInv, SettlingInv, Settling
<1>5. top \in DOMAIN hdr
  BY KnownBlocks, ParentIsAncestor, SettledByCanonical
<1>6. s \in hdr[top].anc /\ s \in DOMAIN hdr /\ hdr[s].anc \subseteq hdr[top].anc
  BY <1>4, <1>5, AncestorsNested
<1>7. hdr[s].anc = settled \cup {s}
  <2>1. ASSUME NEW x \in hdr[s].anc, x # s
        PROVE  x \in settled
    <3>1. hdr[x].height < hdr[s].height /\ x \in hdr[top].anc
      BY <1>6, <2>1, ProperAncestor
    <3>2. x \in DOMAIN hdr
      BY <1>6, <2>1, AncestorsNested
    <3>3. hdr[x].height \in Nat /\ hdr[s].height \in Nat
      BY <1>6, <3>2, HeaderFields
    <3>4. x \notin todo
      BY SMT, <1>1, <3>1, <3>3
    <3> QED
      BY <1>4, <3>1, <3>4
  <2>2. ASSUME NEW x \in settled
        PROVE  x \in hdr[s].anc
    <3>1. x \in hdr[top].anc /\ x \in DOMAIN hdr
      BY <1>4, <1>5, AncestorsNested
    <3>2. s \notin hdr[x].anc
      BY <1>1, <1>4, <2>2, AncestorsNested
    <3>3. ~ (hdr[s].height <= hdr[x].height)
      BY <1>5, <1>6, <3>1, <3>2, HeightOrders
    <3>4. hdr[x].height <= hdr[s].height
      BY SMT, <1>6, <3>1, <3>3, HeaderFields
    <3> QED
      BY <1>5, <1>6, <3>1, <3>4, HeightOrders
  <2>3. s \in hdr[s].anc
    BY <1>6, ParentIsAncestor
  <2> QED
    BY <2>1, <2>2, <2>3
<1>8. TypeOK'
  <2>1. s \in Block
    BY DEF TypeOK
  <2> QED
    BY ZenonT(60), <1>1, <1>2, <1>3, <2>1 DEF TypeOK, executorVars, resultVars, runVars
<1>9. Tree' /\ StreamInv' /\ TimesInv' /\ QueueInv'
  BY <1>2, <1>3, ConsensusFrame DEF Enqueued
<1>10. ChainInv'
  BY <1>2, <1>3 DEF ChainInv, Settling, Accepting
<1>11. SettledByInv'
  BY ZenonT(60), <1>2, <1>3 DEF SettledByInv, IsLastToSettle, SettleAt
<1>12. SettlingInv'
  BY SMTT(60), <1>1, <1>2, <1>3, <1>4, <1>7 DEF SettlingInv, Settling
<1>13. MapInv'
  BY ZenonT(60), <1>2, <1>3 DEF MapInv, Floor, Accepting, Settling, Verifying
<1>14. WalkInv' /\ BootstrapInv'
  BY ZenonT(60), <1>1, <1>2, <1>3, <1>6 DEF WalkInv, BootstrapInv, Verifying
<1> QED
  BY <1>8, <1>9, <1>10, <1>11, <1>12, <1>13, <1>14

\* The last-settled pointer follows.
LEMMA StoreLastSettledStep ==
  ASSUME IInv, StoreLastSettled
  PROVE  IInv'
<1> USE DEF IInv
<1>1. /\ cpc = "storeSettled" /\ cpc' = "closeSettled" /\ lastSettled' = cur
      /\ UNCHANGED <<verifyVars, acceptVars, settled, settledClosed, todo, critical,
                     cb, cur, executorVars, queue, bootstrapping>>
  BY DEF StoreLastSettled
<1>2. UNCHANGED <<hdr, settledBy, certain, processing, canonical, finalized,
                  lastAccepted, acceptedSent, dropped, executedClosed>>
  BY <1>1 DEF verifyVars, acceptVars, executorVars, resultVars
<1>3. cur \in todo /\ cur \in DOMAIN hdr
  BY ZenonT(60), <1>1 DEF SettlingInv, WalkInv
<1>4. TypeOK'
  <2>1. cur \in Block
    BY <1>3 DEF TypeOK
  <2> QED
    BY SMTT(60), <1>1, <1>2, <2>1 DEF TypeOK, executorVars, resultVars, runVars
<1>5. Tree' /\ StreamInv' /\ TimesInv' /\ QueueInv'
  BY <1>1, <1>2, ConsensusFrame DEF Enqueued
<1>6. ChainInv' /\ SettledByInv'
  BY ZenonT(60), <1>1, <1>2 DEF ChainInv, Settling, Accepting, SettledByInv, IsLastToSettle, SettleAt
<1>7. SettlingInv'
  BY ZenonT(60), <1>1, <1>2, <1>3 DEF SettlingInv, Settling
<1>8. MapInv'
  BY ZenonT(60), <1>1, <1>2 DEF MapInv, Floor, Accepting, Settling, Verifying
<1>9. WalkInv' /\ BootstrapInv'
  BY ZenonT(60), <1>1, <1>2 DEF WalkInv, BootstrapInv, Verifying
<1> QED
  BY <1>4, <1>5, <1>6, <1>7, <1>8, <1>9

\* The settled channel is closed, which completes one block of AcceptBlock's loop.
LEMMA CloseSettledStep ==
  ASSUME IInv, CloseSettled
  PROVE  IInv'
<1> USE DEF IInv
<1>1. /\ cpc = "closeSettled" /\ cpc' = "settle"
      /\ settledClosed' = settledClosed \cup {cur} /\ todo' = todo \ {cur}
      /\ UNCHANGED <<verifyVars, acceptVars, settled, lastSettled, critical, cb, cur,
                     executorVars, queue, bootstrapping>>
  BY DEF CloseSettled
<1>2. UNCHANGED <<hdr, settledBy, certain, processing, canonical, finalized,
                  lastAccepted, acceptedSent, dropped, executedClosed>>
  BY <1>1 DEF verifyVars, acceptVars, executorVars, resultVars
<1>3. cur \in settled /\ cur \in DOMAIN hdr /\ cur \in todo
  BY ZenonT(60), <1>1, ParentIsAncestor DEF SettlingInv, WalkInv
<1>4. TypeOK'
  <2>1. cur \in Block
    BY <1>3 DEF TypeOK
  <2> QED
    BY ZenonT(60), <1>1, <1>2, <2>1 DEF TypeOK, executorVars, resultVars, runVars
<1>5. Tree' /\ StreamInv' /\ TimesInv' /\ QueueInv'
  BY <1>1, <1>2, ConsensusFrame DEF Enqueued
<1>6. ChainInv' /\ SettledByInv'
  BY ZenonT(60), <1>1, <1>2 DEF ChainInv, Settling, Accepting, SettledByInv, IsLastToSettle, SettleAt
<1>7. SettlingInv'
  BY ZenonT(60), <1>1, <1>2, <1>3 DEF SettlingInv, Settling
<1>8. MapInv'
  BY <1>1, <1>2 DEF MapInv, Floor, Accepting, Settling, Verifying
<1>9. WalkInv' /\ BootstrapInv'
  BY <1>1, <1>2 DEF WalkInv, BootstrapInv, Verifying
<1> QED
  BY <1>4, <1>5, <1>6, <1>7, <1>8, <1>9

\* The last-accepted pointer moves once everything is settled.
LEMMA StoreLastAcceptedStep ==
  ASSUME IInv, StoreLastAccepted
  PROVE  IInv'
<1> USE DEF IInv
<1>1. /\ cpc = "settle" /\ cpc' = "sendAccepted" /\ lastAccepted' = cb /\ todo = {}
      /\ UNCHANGED <<verifyVars, canonical, finalized, acceptedSent, dropped,
                     settleVars, critical, cb, cur, executorVars, queue, bootstrapping>>
  BY DEF StoreLastAccepted, AllSettled
<1>2. UNCHANGED <<hdr, settledBy, certain, processing, settled, lastSettled,
                  settledClosed, todo, executedClosed>>
  BY <1>1 DEF verifyVars, settleVars, executorVars, resultVars
<1>3. /\ canonical = cb /\ cb \in DOMAIN hdr \ {Genesis} /\ hdr[cb].parent = lastAccepted
      /\ lastSettled \in DOMAIN hdr /\ lastAccepted \in DOMAIN hdr
  BY <1>1 DEF ChainInv, SettlingInv, Settling, Accepting
<1>4. lastSettled = settledBy[cb]
  <2>1. hdr[lastSettled].anc = hdr[settledBy[cb]].anc
    BY <1>1, <1>3 DEF SettlingInv
  <2>2. settledBy[cb] \in DOMAIN hdr
    BY <1>3, ParentIsAncestor, SettledByCanonical
  <2>3. lastSettled \in hdr[settledBy[cb]].anc /\ settledBy[cb] \in hdr[lastSettled].anc
    BY <1>3, <2>1, <2>2, ParentIsAncestor
  <2>4. /\ hdr[lastSettled].height \in Nat /\ hdr[settledBy[cb]].height \in Nat
    BY <1>3, <2>2, HeaderFields
  <2> QED
    BY SMTT(60), <1>3, <2>2, <2>3, <2>4, ProperAncestor
<1>5. hdr[cb].anc = hdr[lastAccepted].anc \cup {cb} /\ cb \notin hdr[lastAccepted].anc
  BY <1>3 DEF Tree, Linked
<1>6. TypeOK'
  BY SMTT(60), <1>1, <1>2 DEF TypeOK, executorVars, resultVars, runVars
<1>7. Tree' /\ StreamInv' /\ TimesInv' /\ QueueInv'
  BY <1>1, <1>2, <1>3, ConsensusFrame DEF Enqueued
<1>8. ChainInv'
  BY ZenonT(60), <1>1, <1>2, <1>3, <1>5 DEF ChainInv, Settling, Accepting
<1>9. SettledByInv'
  BY <1>1, <1>2 DEF SettledByInv, IsLastToSettle, SettleAt
<1>10. SettlingInv'
  <2>1. lastSettled \in hdr[lastSettled].anc
    BY <1>3, ParentIsAncestor
  <2> QED
    BY ZenonT(60), <1>1, <1>2, <1>3, <1>4, <1>5, <2>1 DEF SettlingInv, Settling
<1>11. MapInv'
  BY ZenonT(60), <1>1, <1>2 DEF MapInv, Floor, Accepting, Settling, Verifying
<1>12. WalkInv' /\ BootstrapInv'
  BY <1>1, <1>2 DEF WalkInv, BootstrapInv, Verifying
<1> QED
  BY <1>6, <1>7, <1>8, <1>9, <1>10, <1>11, <1>12

\* The block is announced.
LEMMA SendAcceptedStep ==
  ASSUME IInv, SendAccepted
  PROVE  IInv'
<1> USE DEF IInv
<1>1. /\ cpc = "sendAccepted" /\ cpc' = "enqueue" /\ acceptedSent' = acceptedSent \cup {cb}
      /\ UNCHANGED <<verifyVars, canonical, finalized, lastAccepted, dropped,
                     settleVars, critical, cb, cur, executorVars, queue, bootstrapping>>
  BY DEF SendAccepted
<1>2. UNCHANGED <<hdr, settledBy, certain, processing, settled, lastSettled,
                  settledClosed, todo, executedClosed>>
  BY <1>1 DEF verifyVars, settleVars, executorVars, resultVars
<1>3. lastAccepted = cb /\ cb # Genesis /\ cb \in hdr[cb].anc
  BY <1>1, ParentIsAncestor DEF ChainInv, Settling, Accepting
<1>4. TypeOK'
  BY <1>1, <1>2 DEF TypeOK, executorVars, resultVars, runVars
<1>5. Tree' /\ StreamInv' /\ TimesInv' /\ QueueInv'
  BY <1>1, <1>2, ConsensusFrame DEF Enqueued
<1>6. ChainInv'
  BY <1>1, <1>2, <1>3 DEF ChainInv, Settling, Accepting
<1>7. SettledByInv' /\ SettlingInv'
  BY ZenonT(60), <1>1, <1>2 DEF SettledByInv, IsLastToSettle, SettleAt, SettlingInv, Settling
<1>8. MapInv'
  BY ZenonT(60), <1>1, <1>2 DEF MapInv, Floor, Accepting, Settling, Verifying
<1>9. WalkInv' /\ BootstrapInv'
  BY <1>1, <1>2 DEF WalkInv, BootstrapInv, Verifying
<1> QED
  BY <1>4, <1>5, <1>6, <1>7, <1>8, <1>9

\* The queue grows by the child of its last block.
LEMMA EnqueueStep ==
  ASSUME IInv, Enqueue
  PROVE  IInv'
<1> USE DEF IInv
<1>1. /\ cpc = "enqueue" /\ queue' = Append(queue, cb)
      /\ cpc' = IF bootstrapping THEN "awaitExecuted" ELSE "evict"
      /\ UNCHANGED <<verifyVars, acceptVars, settleVars, critical, cb, cur,
                     executorVars, bootstrapping>>
  BY DEF Enqueue, AfterEnqueue
<1>2. UNCHANGED <<hdr, settledBy, certain, processing, canonical, finalized,
                  lastAccepted, acceptedSent, dropped, settled, lastSettled,
                  settledClosed, todo, executedClosed>>
  BY <1>1 DEF verifyVars, acceptVars, settleVars, executorVars, resultVars
<1>3. /\ lastAccepted = cb /\ cb \in DOMAIN hdr \ {Genesis} /\ cb \in Block
  BY <1>1 DEF ChainInv, Settling, Accepting, TypeOK
<1>4. TypeOK'
  <2>1. queue' \in Seq(Block)
    BY SMTT(60), <1>1, <1>3 DEF TypeOK
  <2>2. cpc' \in {"awaitExecuted", "evict"}
    BY <1>1
  <2> QED
    BY ZenonT(60), <1>1, <1>2, <2>1, <2>2 DEF TypeOK, executorVars, resultVars, runVars
<1>5. Tree' /\ StreamInv' /\ TimesInv'
  BY <1>1, <1>2, ConsensusFrame
<1>6. QueueInv'
  <2>1. Enqueued = hdr[cb].parent /\ Enqueued' = cb /\ Taken' = Taken
    BY <1>1, <1>2, <1>3 DEF Enqueued, Taken, executorVars, resultVars, runVars
  <2>2. hdr[cb].anc = hdr[Enqueued].anc \cup {cb}
    BY <1>3, <2>1 DEF Tree, Linked
  <2>3. /\ Len(queue) \in Nat /\ Len(queue') = Len(queue) + 1
        /\ queue'[Len(queue')] = cb /\ queue' # <<>>
        /\ \A i \in 1 .. Len(queue) : queue'[i] = queue[i]
    BY SMTT(60), <1>1, <1>3 DEF TypeOK
  <2>4. ASSUME NEW i \in 1 .. Len(queue')
        PROVE  /\ queue'[i] \in hdr[cb].anc \ {Genesis}
               /\ hdr[queue'[i]].parent = IF i = 1 THEN Taken ELSE queue'[i - 1]
    <3>1. CASE i \in 1 .. Len(queue)
      <4>1. i # 1 => i - 1 \in 1 .. Len(queue)
        BY SMT, <2>3, <3>1
      <4> QED
        BY <2>2, <2>3, <3>1, <4>1 DEF QueueInv
    <3>2. CASE i \notin 1 .. Len(queue)
      <4>1. i = Len(queue')
        BY SMTT(60), <2>3, <3>2
      <4>2. CASE queue = <<>>
        BY SMTT(60), <1>3, <2>1, <2>2, <2>3, <4>1, <4>2 DEF QueueInv
      <4>3. CASE queue # <<>>
        <5>1. Len(queue) \in 1 .. Len(queue) /\ i - 1 = Len(queue) /\ i # 1
          BY SMTT(60), <2>3, <4>1, <4>3 DEF TypeOK
        <5>2. hdr[cb].parent = queue[Len(queue)]
          BY <2>1, <4>3 DEF QueueInv
        <5> QED
          BY <1>3, <2>2, <2>3, <4>1, <5>1, <5>2
      <4> QED
        BY <4>2, <4>3
    <3> QED
      BY <3>1, <3>2
  <2>5. Taken \in hdr[cb].anc
    BY <2>2 DEF QueueInv
  <2> QED
    BY <1>2, <2>1, <2>3, <2>4, <2>5 DEF QueueInv
<1>7. ChainInv'
  BY <1>1, <1>2 DEF ChainInv, Settling, Accepting
<1>8. SettledByInv' /\ SettlingInv'
  BY ZenonT(60), <1>1, <1>2 DEF SettledByInv, IsLastToSettle, SettleAt, SettlingInv, Settling
<1>9. MapInv'
  BY ZenonT(60), <1>1, <1>2 DEF MapInv, Floor, Accepting, Settling, Verifying
<1>10. WalkInv' /\ BootstrapInv'
  BY ZenonT(60), <1>1, <1>2 DEF WalkInv, BootstrapInv, Verifying
<1> QED
  BY <1>4, <1>5, <1>6, <1>7, <1>8, <1>9, <1>10

\* While bootstrapping, AcceptBlock goes on once the block is executed.
LEMMA AwaitExecutedStep ==
  ASSUME IInv, AwaitExecuted
  PROVE  IInv'
<1> USE DEF IInv
<1>1. /\ cpc = "awaitExecuted" /\ cpc' = "evict" /\ cb \in executedClosed
      /\ UNCHANGED <<verifyVars, acceptVars, settleVars, critical, cb, cur,
                     executorVars, queue, bootstrapping>>
  BY DEF AwaitExecuted
<1>2. UNCHANGED <<hdr, settledBy, certain, processing, canonical, finalized,
                  lastAccepted, acceptedSent, dropped, settled, lastSettled,
                  settledClosed, todo, executedClosed>>
  BY <1>1 DEF verifyVars, acceptVars, settleVars, executorVars, resultVars
<1>3. lastAccepted = cb
  BY <1>1 DEF ChainInv, Settling, Accepting
<1>4. TypeOK'
  BY <1>1, <1>2 DEF TypeOK, executorVars, resultVars, runVars
<1>5. Tree' /\ StreamInv' /\ TimesInv' /\ QueueInv'
  BY <1>1, <1>2, ConsensusFrame DEF Enqueued
<1>6. ChainInv'
  BY <1>1, <1>2 DEF ChainInv, Settling, Accepting
<1>7. SettledByInv' /\ SettlingInv'
  BY ZenonT(60), <1>1, <1>2 DEF SettledByInv, IsLastToSettle, SettleAt, SettlingInv, Settling
<1>8. MapInv'
  BY <1>1, <1>2 DEF MapInv, Floor, Accepting, Settling, Verifying
<1>9. WalkInv' /\ BootstrapInv'
  BY ZenonT(60), <1>1, <1>2, <1>3 DEF WalkInv, BootstrapInv, Verifying
<1> QED
  BY <1>4, <1>5, <1>6, <1>7, <1>8, <1>9

\* The map is left with the blocks from the last settled one up.
LEMMA EvictStep ==
  ASSUME IInv, Evict
  PROVE  IInv'
<1> USE DEF IInv
<1>1. /\ cpc = "evict" /\ critical' = critical \ dropped /\ dropped' = {}
      /\ cpc' = IF Conflicting = {} THEN "idle" ELSE "reject"
      /\ UNCHANGED <<verifyVars, canonical, finalized, lastAccepted, acceptedSent,
                     settleVars, cb, cur, executorVars, queue, bootstrapping>>
  BY DEF Evict
<1>2. UNCHANGED <<hdr, settledBy, certain, processing, settled, lastSettled,
                  settledClosed, todo, executedClosed>>
  BY <1>1 DEF verifyVars, settleVars, executorVars, resultVars
<1>3. canonical = lastAccepted /\ lastAccepted = cb /\ cb \in DOMAIN hdr /\ Accepting
  BY <1>1 DEF ChainInv, Settling, Accepting
<1>4. cpc' \in {"idle", "reject"} /\ ~ Accepting' /\ ~ Verifying' /\ ~ Settling'
  BY <1>1 DEF Accepting, Verifying, Settling
<1>5. TypeOK'
  BY ZenonT(60), <1>1, <1>2, <1>4 DEF TypeOK, executorVars, resultVars, runVars
<1>6. Tree' /\ StreamInv' /\ TimesInv' /\ QueueInv'
  <2>1. Enqueued' = Enqueued
    BY <1>1, <1>2, <1>4 DEF Enqueued
  <2> QED
    BY <1>1, <1>2, <2>1, ConsensusFrame
<1>7. ChainInv'
  BY ZenonT(60), <1>1, <1>2, <1>3, <1>4 DEF ChainInv, Settling, Accepting
<1>8. SettledByInv'
  BY <1>1, <1>2 DEF SettledByInv, IsLastToSettle, SettleAt
<1>9. SettlingInv'
  BY ZenonT(60), <1>1, <1>2, <1>4 DEF SettlingInv, Settling
<1>10. MapInv'
  <2> DEFINE f == hdr[Floor].height
             h == hdr[settledBy[cb]].height
  <2>1. settledBy[cb] \in DOMAIN hdr /\ Floor \in DOMAIN hdr
    <3>1. hdr[cb].parent \in hdr[canonical].anc /\ cb \in hdr[canonical].anc
      BY <1>3, ParentIsAncestor
    <3>2. Floor = settledBy[hdr[cb].parent]
      BY <1>3 DEF Floor
    <3> QED
      BY <3>1, <3>2, SettledByCanonical
  <2>2. f \in Nat /\ h \in Nat /\ f <= h
    BY <1>3, <2>1, HeaderFields DEF MapInv
  <2>3. \A x \in hdr[canonical].anc : hdr[x].height \in Nat
    BY <1>3, AncestorsNested, HeaderFields
  <2>4. Floor' = settledBy[cb]
    BY <1>1, <1>2, <1>3, <1>4 DEF Floor
  <2>5. /\ critical = processing \cup {x \in hdr[canonical].anc : hdr[x].height >= f}
        /\ dropped = {x \in hdr[canonical].anc : hdr[x].height >= f /\ hdr[x].height < h}
        /\ \A x \in processing : x \in DOMAIN hdr /\ x \notin hdr[canonical].anc
    BY <1>3 DEF MapInv
  <2>6. critical' = processing \cup {x \in hdr[canonical].anc : hdr[x].height >= h}
    <3>1. \A x \in hdr[canonical].anc :
            hdr[x].height >= h <=> hdr[x].height >= f /\ ~ (hdr[x].height < h)
      BY SMT, <2>2, <2>3
    <3> HIDE DEF f, h
    <3> QED
      BY <1>1, <2>5, <3>1
  <2>7. cpc' = "idle" => \A x \in processing : lastAccepted \in hdr[x].anc
    BY <1>1 DEF Conflicting
  <2> QED
    BY ZenonT(60), <1>1, <1>2, <1>3, <1>4, <2>4, <2>5, <2>6, <2>7 DEF MapInv
<1>11. WalkInv' /\ BootstrapInv'
  BY ZenonT(60), <1>1, <1>2, <1>4 DEF WalkInv, BootstrapInv, Verifying
<1> QED
  BY <1>5, <1>6, <1>7, <1>8, <1>9, <1>10, <1>11

----------------------------------------------------------------------------
\* The invariant and the properties

\* The life cycle starts with the last synchronous block accepted, executed and
\* settled.
LEMMA InitIInv ==
  ASSUME Init
  PROVE  IInv
<1> USE SAEAssumption, HeadersAssumption DEF Init
<1>1. TypeOK
  <2>1. GenesisHeader \in Header
    BY SMT DEF GenesisHeader, Header, Genesis, Block
  <2>2. <<>> \in Seq(Block)
    BY SMT
  <2> QED
    BY SMT, <2>1, <2>2 DEF TypeOK, Block, Genesis, None
<1>2. /\ DOMAIN hdr = {Genesis} /\ hdr[Genesis] = GenesisHeader
      /\ hdr[Genesis].anc = {Genesis} /\ hdr[Genesis].parent = Genesis
      /\ hdr[Genesis].due = GenesisTime /\ hdr[Genesis].height = 0
      /\ hdr[Genesis].time = GenesisTime
  BY DEF GenesisHeader
<1>3. Tree
  BY SMT, <1>2 DEF Tree, Rooted, Linked, Branches
<1>4. Executed = {Genesis} /\ Genesis \in Block
  BY SMTT(60) DEF Executed, Genesis, Block, None
<1>5. StreamInv /\ QueueInv
  <2>1. Len(queue) = 0
    OBVIOUS
  <2> QED
    BY SMT, <1>2, <1>4, <2>1 DEF StreamInv, QueueInv, Reached, Taken, Enqueued
<1>6. TimesInv
  BY <1>2, <1>4 DEF TimesInv, Taken
<1>7. ChainInv /\ SettlingInv
  BY <1>2, <1>4 DEF ChainInv, SettlingInv, Settling, Accepting
<1>8. SettledByInv
  BY <1>2, <1>4 DEF SettledByInv
<1>9. MapInv
  BY SMT, <1>2, <1>4 DEF MapInv, Floor, Accepting, Settling, Verifying
<1>10. WalkInv /\ BootstrapInv
  BY <1>2 DEF WalkInv, BootstrapInv, Verifying
<1> QED
  BY ZenonT(60), <1>1, <1>3, <1>5, <1>6, <1>7, <1>8, <1>9, <1>10 DEF IInv

\* Nothing happens to the invariant when nothing happens.
LEMMA StutterStep ==
  ASSUME IInv, UNCHANGED vars
  PROVE  IInv'
<1>1. UNCHANGED <<consensusVars, executorVars, queue, bootstrapping>>
  BY DEF vars
<1>2. UNCHANGED <<hdr, queue, cpc, lastAccepted, bootstrapping>>
  BY <1>1 DEF consensusVars, verifyVars, acceptVars
<1>3. executedClosed' = executedClosed
  BY <1>1 DEF executorVars, resultVars
<1>4. TypeOK'
  BY SMTT(60), <1>1 DEF IInv, TypeOK, consensusVars, verifyVars, acceptVars, settleVars,
              executorVars, resultVars, runVars
<1>5. StreamInv' /\ TimesInv' /\ QueueInv'
  BY <1>1, <1>2, ConsensusFrame DEF Enqueued
<1> QED
  BY <1>1, <1>2, <1>3, <1>4, <1>5, StreamFrame DEF IInv

\* Every step of consensus, of the stream or of neither preserves the invariant.
LEMMA NextIInv ==
  ASSUME IInv, [Next]_vars
  PROVE  IInv'
BY VerifyStep, AcceptOnDiskStep, SettleInMemoryStep, StoreLastSettledStep,
   CloseSettledStep, StoreLastAcceptedStep, SendAcceptedStep, EnqueueStep,
   AwaitExecutedStep, EvictStep, RejectBlockStep, SetStateStep, StreamStep,
   StutterStep DEF Next, Proceed

\* The blocks, pointers, map, queue and database of a VM agree, as IInv says, at
\* every point of VerifyBlock, AcceptBlock, RejectBlock and the execution stream.
THEOREM Invariance == Spec => []IInv
<1>1. Init => IInv
  BY InitIInv
<1>2. IInv /\ [Next]_vars => IInv'
  BY NextIInv
<1> QED
  BY <1>1, <1>2, PTL DEF Spec

\* Every variable keeps its type.
THEOREM TypeCorrect == Spec => []TypeOK
<1>1. IInv => TypeOK
  BY DEF IInv
<1> QED
  BY <1>1, Invariance, PTL

\* The block that VerifyBlock decides to settle is a function of the headers,
\* whatever the execution stream did meanwhile.
THEOREM Determinism == Spec => []SettlementIsDeterministic
<1>1. IInv => SettlementIsDeterministic
  <2> SUFFICES ASSUME IInv, NEW b \in processing \cup Accepted
               PROVE  IsLastToSettle(settledBy[b], hdr[b].parent, SettleAt(b))
    BY DEF SettlementIsDeterministic
  <2>1. b # Genesis
    BY ParentIsAncestor DEF IInv, MapInv, ChainInv, Accepted
  <2> QED
    BY <2>1 DEF IInv, SettledByInv, Accepted
<1> QED
  BY <1>1, Invariance, PTL

\* Each effect of execution follows the ones before it, along the chain.
LEMMA ExecutionOrdered ==
  ASSUME IInv
  PROVE  ExecutionIsOrdered
<1> USE DEF IInv
<1> DEFINE R1 == Reached({})
           R2 == Reached({"events"})
           R3 == Reached({"close", "events"})
           R4 == Reached({"pointer", "close", "events"})
           R5 == Reached({"memory", "pointer", "close", "events"})
           R6 == Reached({"batch", "memory", "pointer", "close", "events"})
<1>1. /\ Taken \in DOMAIN hdr /\ R1 \in DOMAIN hdr /\ R2 \in DOMAIN hdr
      /\ R3 \in DOMAIN hdr /\ R4 \in DOMAIN hdr /\ R5 \in DOMAIN hdr /\ R6 \in DOMAIN hdr
      /\ hdr[R6].anc \subseteq hdr[Taken].anc
  BY KnownBlocks, AncestorsNested
<1>2. /\ hdr[R1].anc \subseteq hdr[R2].anc /\ hdr[R2].anc \subseteq hdr[R3].anc
      /\ hdr[R3].anc \subseteq hdr[R4].anc /\ hdr[R4].anc \subseteq hdr[R5].anc
      /\ hdr[R5].anc \subseteq hdr[R6].anc
  <2>1. CASE epc = "idle"
    BY <2>1 DEF Reached
  <2>2. CASE epc # "idle"
    <3>1. eb \in DOMAIN hdr /\ hdr[hdr[eb].parent].anc \subseteq hdr[eb].anc
      BY <1>1, <2>2, ParentIsAncestor, AncestorsNested DEF Taken
    <3> QED
      BY <2>2, <3>1 DEF Reached
  <2> QED
    BY <2>1, <2>2
<1>3. hdr[R6].anc \ {Genesis} \subseteq acceptedSent
  <2>1. Enqueued \in DOMAIN hdr /\ hdr[R6].anc \subseteq hdr[Enqueued].anc
    BY <1>1, KnownBlocks
  <2>2. hdr[Enqueued].anc \ {Genesis} \subseteq acceptedSent
    <3>1. CASE cpc = "sendAccepted"
      BY SMTT(60), <3>1, KnownBlocks DEF ChainInv, Enqueued, Tree, Linked, Accepting, Settling
    <3>2. CASE cpc # "sendAccepted"
      BY <3>2, KnownBlocks DEF ChainInv
    <3> QED
      BY ZenonT(60), <3>1, <3>2
  <2> QED
    BY <2>1, <2>2
<1>4. acceptedSent \subseteq hdr[lastAccepted].anc
  BY DEF ChainInv
<1>5. hdr[lastAccepted].anc \subseteq hdr[canonical].anc
  BY KnownBlocks, AncestorsNested
<1>6. /\ headSent \subseteq hdr[R1].anc /\ executedClosed = hdr[R2].anc
      /\ lastExecuted = R3 /\ Executed = hdr[R4].anc /\ head = R5 /\ xdb = hdr[R6].anc
  BY DEF StreamInv
<1> QED
  BY <1>2, <1>3, <1>4, <1>5, <1>6 DEF ExecutionIsOrdered

\* Execution is visible on disk, in memory, at the pointer, on the channel and on
\* the feed in this order, and never before acceptance.
THEOREM ExecutionOrder == Spec => []ExecutionIsOrdered
<1>1. IInv => ExecutionIsOrdered
  BY ExecutionOrdered
<1> QED
  BY <1>1, Invariance, PTL

\* What is settled is a chain below the last block that the canonical one
\* settles, and all of it has closed channels.
LEMMA SettledChain ==
  ASSUME IInv
  PROVE  /\ finalized = settledBy[canonical] /\ finalized \in DOMAIN hdr
         /\ settledClosed \subseteq hdr[lastSettled].anc
         /\ hdr[lastSettled].anc \subseteq settled
         /\ settled \subseteq hdr[finalized].anc
         /\ hdr[finalized].anc \subseteq executedClosed
         /\ hdr[finalized].anc \subseteq hdr[canonical].anc
         /\ Genesis \in settledClosed
<1> USE DEF IInv
<1>1. canonical \in DOMAIN hdr /\ canonical \in hdr[canonical].anc
  BY ParentIsAncestor DEF ChainInv
<1>2. finalized = settledBy[canonical]
  BY DEF ChainInv
<1>3. finalized \in DOMAIN hdr /\ finalized \in hdr[canonical].anc /\ finalized \in executedClosed
  BY <1>1, <1>2, SettledByCanonical
<1>4. hdr[finalized].anc \subseteq hdr[canonical].anc
  BY <1>1, <1>3, AncestorsNested
<1>5. hdr[finalized].anc \subseteq executedClosed
  BY <1>3, KnownBlocks, AncestorsNested DEF StreamInv
<1>6. /\ settledClosed \subseteq hdr[lastSettled].anc
      /\ hdr[lastSettled].anc \subseteq settled
      /\ settled \subseteq hdr[finalized].anc
  BY <1>2 DEF SettlingInv
<1>7. Genesis \in settledClosed
  BY ParentIsAncestor DEF SettlingInv, ChainInv, SettledByInv
<1> QED
  BY <1>2, <1>3, <1>4, <1>5, <1>6, <1>7

\* Settling a block is visible only after executing it, on disk, in memory, at the
\* pointers and on the channels, although MarkSettled never checks.
THEOREM SettlementFollowsExecution == Spec => []SettledAfterExecuted
<1>1. IInv => SettledAfterExecuted
  <2> SUFFICES ASSUME IInv PROVE SettledAfterExecuted
    OBVIOUS
  <2>1. /\ executedClosed \subseteq hdr[lastExecuted].anc
        /\ hdr[lastExecuted].anc \subseteq Executed
        /\ Executed \subseteq hdr[head].anc
    BY ExecutionOrdered DEF ExecutionIsOrdered
  <2> QED
    BY <2>1, SettledChain DEF SettledAfterExecuted
<1> QED
  BY <1>1, Invariance, PTL

\* Accepting a block is visible only after settling what it settles, at each of
\* the four levels, and settlement goes from disk to channel.
THEOREM SettlementPrecedesAcceptance == Spec => []SettledBeforeAccepted
<1>1. IInv => SettledBeforeAccepted
  <2> SUFFICES ASSUME IInv PROVE SettledBeforeAccepted
    OBVIOUS
  <2>1. \A b \in hdr[lastAccepted].anc : settledBy[b] \in settledClosed
    BY DEF IInv, SettlingInv
  <2>2. lastAccepted \in hdr[lastAccepted].anc
    BY ParentIsAncestor DEF IInv, ChainInv
  <2>3. acceptedSent \subseteq hdr[lastAccepted].anc
    BY DEF IInv, ChainInv
  <2> QED
    BY <2>1, <2>2, <2>3, SettledChain DEF SettledBeforeAccepted
<1> QED
  BY <1>1, Invariance, PTL

\* A branch of the tree holds the parent of each of its blocks.
LEMMA BranchHoldsParents ==
  ASSUME TypeOK, Tree, NEW r \in DOMAIN hdr, NEW b \in hdr[r].anc
  PROVE  hdr[b].parent \in hdr[r].anc
BY ParentIsAncestor, AncestorsNested

\* Each effect reaches a block's parent before the block.
THEOREM ParentsFirst == Spec => []ParentFirst
<1>1. IInv => ParentFirst
  <2> SUFFICES ASSUME IInv PROVE ParentFirst
    OBVIOUS
  <2> USE DEF IInv
  <2> DEFINE Closed(S) == \A b \in S : hdr[b].parent \in S
  <2>1. \A S : Reached(S) \in DOMAIN hdr
    BY KnownBlocks, AncestorsNested
  <2>2. /\ Closed(xdb) /\ Closed(Executed) /\ Closed(executedClosed)
        /\ Closed(headSent \cup {Genesis})
    BY <2>1, BranchHoldsParents DEF StreamInv
  <2>3. cur \in DOMAIN hdr /\ lastSettled \in DOMAIN hdr
    BY DEF WalkInv, SettlingInv
  <2>4. Closed(settled)
    BY <2>3, BranchHoldsParents DEF SettlingInv
  <2>5. Closed(settledClosed)
    <3>1. CASE cpc \in {"storeSettled", "closeSettled"}
      <4>1. settled = hdr[cur].anc /\ settledClosed = settled \ {cur} /\ cur # Genesis
        BY ZenonT(60), <3>1, SettledChain DEF SettlingInv
      <4>2. settledClosed = hdr[hdr[cur].parent].anc
        BY SMTT(60), <2>3, <4>1 DEF Tree, Linked
      <4> QED
        BY <2>3, <4>2, ParentIsAncestor, BranchHoldsParents
    <3>2. CASE cpc \notin {"storeSettled", "closeSettled"}
      BY <2>4, <3>2 DEF SettlingInv
    <3> QED
      BY <3>1, <3>2
  <2>6. Closed(acceptedSent \cup {Genesis})
    <3>1. lastAccepted \in DOMAIN hdr /\ Genesis \in hdr[lastAccepted].anc
          /\ hdr[lastAccepted].parent \in DOMAIN hdr
      BY ParentIsAncestor DEF ChainInv
    <3>2. CASE cpc = "sendAccepted"
      <4>1. /\ lastAccepted = cb /\ cb # Genesis
            /\ acceptedSent = hdr[lastAccepted].anc \ {Genesis, cb}
        BY ZenonT(60), <3>2 DEF ChainInv, Accepting, Settling
      <4>2. acceptedSent \cup {Genesis} = hdr[hdr[lastAccepted].parent].anc
        BY SMTT(60), <3>1, <4>1, ParentIsAncestor DEF Tree, Linked
      <4> QED
        BY <3>1, <4>2, BranchHoldsParents
    <3>3. CASE cpc # "sendAccepted"
      <4>1. acceptedSent \cup {Genesis} = hdr[lastAccepted].anc
        BY <3>1, <3>3 DEF ChainInv
      <4> QED
        BY <3>1, <4>1, BranchHoldsParents
    <3> QED
      BY <3>2, <3>3
  <2> QED
    BY SMT, <2>2, <2>4, <2>5, <2>6 DEF ParentFirst
<1> QED
  BY <1>1, Invariance, PTL

\* A block that has left the map is settled.
LEMMA EvictedSettled ==
  ASSUME IInv
  PROVE  EvictedIsSettled
<1> USE DEF IInv
<1>1. canonical \in DOMAIN hdr /\ lastSettled \in DOMAIN hdr
  BY DEF ChainInv, SettlingInv
<1>2. Floor \in settledClosed
  <2>1. (IF Accepting THEN hdr[cb].parent ELSE lastAccepted) \in hdr[lastAccepted].anc
    BY KnownBlocks, ParentIsAncestor DEF ChainInv, Settling
  <2> QED
    BY <2>1 DEF Floor, SettlingInv
<1>3. /\ Floor \in hdr[lastSettled].anc /\ Floor \in hdr[canonical].anc
      /\ lastSettled \in hdr[canonical].anc
  BY <1>1, <1>2, SettledChain, ParentIsAncestor
<1>4. Floor \in DOMAIN hdr /\ hdr[Floor].height \in Nat /\ hdr[lastSettled].height \in Nat
  BY <1>1, <1>3, AncestorsNested, HeaderFields
<1>5. lastSettled \in critical
  <2>1. hdr[lastSettled].height >= hdr[Floor].height
    BY <1>1, <1>3, <1>4 DEF Tree, Branches
  <2> QED
    BY <1>3, <2>1 DEF MapInv
<1>6. ASSUME NEW b \in hdr[canonical].anc, b \notin critical
      PROVE  b \in hdr[lastSettled].anc
  <2>1. b \in DOMAIN hdr /\ hdr[b].height \in Nat
    BY <1>1, AncestorsNested, HeaderFields
  <2>2. ~ (hdr[b].height >= hdr[Floor].height)
    BY <1>6 DEF MapInv
  <2>3. hdr[b].height <= hdr[Floor].height
    BY SMTT(60), <1>4, <2>1, <2>2
  <2>4. b \in hdr[Floor].anc
    BY ZenonT(60), <1>1, <1>3, <2>3, HeightOrders
  <2> QED
    BY <1>1, <1>3, <2>4, AncestorsNested
<1> QED
  BY <1>5, <1>6 DEF EvictedIsSettled

\* What the map has lost lies below the last settled block, which it still has.
THEOREM EvictionIsSafe == Spec => []EvictedIsSettled
<1>1. IInv => EvictedIsSettled
  BY EvictedSettled
<1> QED
  BY <1>1, Invariance, PTL

\* Between calls the map holds what consensus needs and no more.
THEOREM MapIsExact == Spec => []CriticalIsExact
<1>1. IInv => CriticalIsExact
  <2> SUFFICES ASSUME IInv, cpc \in {"idle", "walk", "loadExecution", "awaitArtefact"}
               PROVE  critical = processing \cup
                        {b \in hdr[lastAccepted].anc : hdr[b].height >= hdr[lastSettled].height}
    BY DEF CriticalIsExact
  <2>1. canonical = lastAccepted /\ Floor = lastSettled
    BY DEF IInv, ChainInv, SettlingInv, Floor, Settling, Accepting
  <2> QED
    BY <2>1 DEF IInv, MapInv
<1> QED
  BY <1>1, Invariance, PTL

\* The errors that the code calls impossible are.
THEOREM ErrorFree == Spec => []NoInternalError
<1>1. IInv => NoInternalError
  <2> SUFFICES ASSUME IInv PROVE NoInternalError
    OBVIOUS
  <2> USE DEF IInv
  <2>1. None \notin Block
    BY SMT DEF Block, None
  <2>2. DOMAIN hdr \subseteq Block /\ settledBy \in [Block -> Block]
    BY DEF TypeOK
  <2>3. cur # None /\ (cpc = "loadExecution" => cur \notin settled)
    BY <2>1, <2>2 DEF WalkInv
  <2>4. ASSUME cpc = "idle", NEW b \in processing, hdr[b].parent = lastAccepted
        PROVE  LastSettled(hdr[b].parent) # None /\ Settles(b) \cap settled = {}
    BY <2>1, <2>2, <2>4, LastSettledOfAccepted, NextSettles
  <2>5. cpc = "settle" => todo \cap settled = {}
    BY DEF SettlingInv
  <2>6. queue # <<>> => ParentBlock(Head(queue)) # None
    <3> SUFFICES ASSUME queue # <<>> PROVE ParentBlock(Head(queue)) # None
      OBVIOUS
    <3>1. Len(queue) \in Nat /\ Len(queue) >= 1 /\ Head(queue) = queue[1]
      BY SMTT(60) DEF TypeOK
    <3>2. Head(queue) \in hdr[Enqueued].anc \ {Genesis} /\ hdr[Head(queue)].parent = Taken
      BY SMTT(60), <3>1 DEF QueueInv
    <3>3. Head(queue) \in DOMAIN hdr
      BY <3>2, KnownBlocks, AncestorsNested
    <3>4. Head(queue) \notin hdr[Taken].anc
      BY ZenonT(60), <3>2, <3>3 DEF Tree, Linked
    <3>5. settled \subseteq hdr[Taken].anc
      <4>1. settled \subseteq executedClosed
        BY SettledChain
      <4> QED
        BY <4>1, KnownBlocks, AncestorsNested DEF StreamInv
    <3>6. Taken \in Block
      BY <2>2, KnownBlocks
    <3> QED
      BY <2>1, <3>2, <3>4, <3>5, <3>6 DEF ParentBlock
  <2>7. epc = "memory" => execution[eb] = None
    BY RunningBlock DEF StreamInv, Reached, Executed
  <2>8. epc # "dead"
    BY DEF StreamInv
  <2> QED
    BY <2>3, <2>4, <2>5, <2>6, <2>7, <2>8 DEF NoInternalError
<1> QED
  BY <1>1, Invariance, PTL

\* A bootstrapping VM never finds its execution lagging.
THEOREM BootstrapCertain == Spec => []BootstrapNeverLags
<1>1. IInv => BootstrapNeverLags
  BY DEF IInv, BootstrapInv, BootstrapNeverLags
<1> QED
  BY <1>1, Invariance, PTL

\* Headers of blocks on the canonical chain never change.
LEMMA CanonicalHeadersFixed ==
  ASSUME IInv, [Next]_vars, NEW b \in hdr[canonical].anc
  PROVE  hdr'[b] = hdr[b] /\ b \in DOMAIN hdr
<1> USE DEF IInv
<1>1. b \in DOMAIN hdr
  BY AncestorsNested DEF ChainInv
<1>2. ASSUME FailVerify, Verifying
      PROVE  hdr'[b] = hdr[b]
  <2>1. /\ lastAccepted \in hdr[hdr[cb].parent].anc /\ cb \in DOMAIN hdr \ {Genesis}
        /\ \A x \in DOMAIN hdr \ {cb} : cb \notin hdr[x].anc
    BY <1>2 DEF WalkInv
  <2>2. canonical = lastAccepted /\ lastAccepted \in DOMAIN hdr
    BY <1>2 DEF ChainInv, Verifying, Settling
  <2>3. b # cb
    BY SMTT(60), <2>1, <2>2 DEF Tree, Linked
  <2> QED
    BY <1>1, <1>2, <2>3 DEF FailVerify
<1>3. CASE WalkTimes \/ WalkExecution \/ RefuseBlock
  <2>1. Verifying
    BY <1>3 DEF WalkTimes, WalkExecution, RefuseBlock, Verifying
  <2>2. hdr' = hdr \/ FailVerify
    <3>1. WalkReturn => hdr' = hdr \/ FailVerify
      BY DEF WalkReturn
    <3>2. \A sure \in BOOLEAN : WalkOn(sure) => hdr' = hdr
      BY DEF WalkOn
    <3> QED
      BY <1>3, <3>1, <3>2 DEF WalkTimes, WalkExecution, RefuseBlock
  <2>3. CASE hdr' = hdr
    BY <1>1, <2>3
  <2>4. CASE FailVerify
    BY <1>1, <1>2, <2>1, <2>4
  <2> QED
    BY <2>2, <2>3, <2>4
<1>4. CASE BeginVerify
  BY <1>1, <1>4 DEF BeginVerify
<1>5. CASE ~ (BeginVerify \/ WalkTimes \/ WalkExecution \/ RefuseBlock)
  <2>1. hdr' = hdr
    BY <1>5 DEF Next, Proceed, Stream, FinishVerify, AcceptOnDisk, SetState,
         SettleInMemory, StoreLastSettled, CloseSettled, StoreLastAccepted,
         SendAccepted, Enqueue, AwaitExecuted, Evict, RejectBlock, Dequeue, RunTx,
         PutResults, WriteBatch, StoreExecution, StoreLastExecuted, CloseExecuted,
         SendEvents, vars, consensusVars, verifyVars
  <2> QED
    BY <1>1, <2>1
<1> QED
  BY <1>1, <1>3, <1>4, <1>5

\* A step moves at most one of the labels, and moves it up its own chain.
LEMMA LabelsMove ==
  ASSUME IInv, IInv', [Next]_vars
  PROVE  /\ canonical \in hdr'[canonical'].anc
         /\ finalized \in hdr'[finalized'].anc
         /\ head \in hdr'[head'].anc
         /\ lastAccepted \in hdr'[lastAccepted'].anc
         /\ lastSettled \in hdr'[lastSettled'].anc
         /\ lastExecuted \in hdr'[lastExecuted'].anc
<1> USE DEF IInv
<1>1. \A b \in hdr[canonical].anc : hdr'[b] = hdr[b] /\ b \in DOMAIN hdr /\ b \in hdr[b].anc
  BY CanonicalHeadersFixed, ParentIsAncestor
<1>2. /\ canonical \in hdr[canonical].anc /\ lastAccepted \in hdr[canonical].anc
      /\ finalized \in hdr[canonical].anc /\ lastSettled \in hdr[canonical].anc
      /\ lastExecuted \in hdr[canonical].anc /\ head \in hdr[canonical].anc
  <2>1. canonical \in hdr[canonical].anc /\ lastAccepted \in hdr[canonical].anc
    BY KnownBlocks, ParentIsAncestor
  <2>2. finalized \in hdr[canonical].anc /\ lastSettled \in hdr[canonical].anc
    BY SettledChain, ParentIsAncestor DEF SettlingInv
  <2>3. hdr[Taken].anc \subseteq hdr[canonical].anc
    BY KnownBlocks, AncestorsNested
  <2> QED
    BY ZenonT(60), <2>1, <2>2, <2>3, KnownBlocks DEF StreamInv
<1>3. CASE AcceptOnDisk
  <2>1. PICK b \in processing :
          /\ hdr[b].parent = lastAccepted /\ canonical' = b
          /\ finalized' = IF Settles(b) = {} THEN finalized ELSE settledBy[b]
    BY <1>3 DEF AcceptOnDisk
  <2>2. /\ cpc = "idle"
        /\ UNCHANGED <<hdr, lastAccepted, lastSettled, lastExecuted, head>>
    BY <1>3 DEF AcceptOnDisk, executorVars, resultVars
  <2>3. canonical = lastAccepted /\ finalized = lastSettled
    BY <2>2, LastSettledOfAccepted
  <2>4. b \in DOMAIN hdr /\ lastSettled \in hdr[settledBy[b]].anc
    BY <2>1, <2>2, NextSettlesMore
  <2> QED
    BY <1>1, <1>2, <2>1, <2>2, <2>3, <2>4, ParentIsAncestor
<1>4. CASE StoreLastAccepted
  <2>1. /\ cpc = "settle" /\ lastAccepted' = cb
        /\ UNCHANGED <<hdr, canonical, finalized, lastSettled, lastExecuted, head>>
    BY <1>4 DEF StoreLastAccepted, verifyVars, settleVars, executorVars, resultVars
  <2>2. canonical = cb
    BY <2>1 DEF ChainInv, Settling
  <2> QED
    BY <1>1, <1>2, <2>1, <2>2
<1>5. CASE StoreLastSettled
  <2>1. /\ cpc = "storeSettled" /\ lastSettled' = cur
        /\ UNCHANGED <<hdr, canonical, finalized, lastAccepted, lastExecuted, head>>
    BY <1>5 DEF StoreLastSettled, verifyVars, acceptVars, executorVars, resultVars
  <2>2. settled = hdr[cur].anc /\ lastSettled \in hdr[lastSettled].anc
    BY <1>1, <1>2, <2>1 DEF SettlingInv
  <2>3. lastSettled \in hdr[cur].anc
    BY <2>2, SettledChain
  <2> QED
    BY <1>1, <1>2, <2>1, <2>3
<1>6. CASE WriteBatch \/ StoreLastExecuted
  <2>1. /\ epc \in {"batch", "pointer"} /\ (head' = eb \/ head' = head)
        /\ (lastExecuted' = eb \/ lastExecuted' = lastExecuted)
        /\ UNCHANGED <<hdr, canonical, finalized, lastAccepted, lastSettled>>
    BY <1>6 DEF WriteBatch, StoreLastExecuted, consensusVars, verifyVars, acceptVars,
                settleVars
  <2>2. head \in {eb, hdr[eb].parent} /\ lastExecuted \in {eb, hdr[eb].parent}
    BY <2>1 DEF StreamInv, Reached
  <2>3. eb \in hdr[eb].anc /\ hdr[eb].parent \in hdr[eb].anc
    BY <2>1, RunningBlock, ParentIsAncestor
  <2> QED
    BY <1>1, <1>2, <2>1, <2>2, <2>3
<1>7. CASE ~ (AcceptOnDisk \/ StoreLastAccepted \/ StoreLastSettled \/ WriteBatch
              \/ StoreLastExecuted)
  <2>1. UNCHANGED <<canonical, finalized, head, lastAccepted, lastSettled, lastExecuted>>
    BY <1>7 DEF Next, Proceed, Stream, BeginVerify, WalkTimes, WalkExecution,
         RefuseBlock, FinishVerify, SetState, SettleInMemory, CloseSettled,
         SendAccepted, Enqueue, AwaitExecuted, Evict, RejectBlock, Dequeue, RunTx,
         PutResults, StoreExecution, CloseExecuted, SendEvents, vars,
         consensusVars, acceptVars, settleVars, executorVars, resultVars
  <2> QED
    BY <1>1, <1>2, <2>1
<1> QED
  BY <1>3, <1>4, <1>5, <1>6, <1>7

\* No label, on disk or in memory, ever moves back or to another branch.
THEOREM LabelsOnlyMoveUp == Spec => LabelsMonotone
<1>1. IInv /\ IInv' /\ [Next]_vars =>
        [/\ canonical \in hdr'[canonical'].anc
         /\ finalized \in hdr'[finalized'].anc
         /\ head \in hdr'[head'].anc
         /\ lastAccepted \in hdr'[lastAccepted'].anc
         /\ lastSettled \in hdr'[lastSettled'].anc
         /\ lastExecuted \in hdr'[lastExecuted'].anc]_vars
  BY LabelsMove
<1> QED
  BY <1>1, Invariance, PTL DEF Spec, LabelsMonotone

----------------------------------------------------------------------------
\* The ledger

\* A branch has a block at every height: by induction on the height.
LEMMA HeightsFilled ==
  ASSUME TypeOK, Tree, NEW b \in DOMAIN hdr, NEW n \in 0 .. hdr[b].height
  PROVE  \E x \in hdr[b].anc : hdr[x].height = n
<1> DEFINE Filled(y) == \A m \in 0 .. hdr[y].height : \E x \in hdr[y].anc : hdr[x].height = m
           S == {k \in Nat : \A y \in DOMAIN hdr : hdr[y].height = k => Filled(y)}
<1>1. 0 \in S
  <2> SUFFICES ASSUME NEW y \in DOMAIN hdr, hdr[y].height = 0, NEW m \in 0 .. hdr[y].height
               PROVE  \E x \in hdr[y].anc : hdr[x].height = m
    BY SMT
  <2>1. m = 0
    BY SMT
  <2> QED
    BY <2>1, ParentIsAncestor
<1>2. ASSUME NEW k \in Nat, k \in S
      PROVE  k + 1 \in S
  <2> SUFFICES ASSUME NEW y \in DOMAIN hdr, hdr[y].height = k + 1, NEW m \in 0 .. hdr[y].height
               PROVE  \E x \in hdr[y].anc : hdr[x].height = m
    BY SMT
  <2>1. CASE m = k + 1
    BY <2>1, ParentIsAncestor
  <2>2. CASE m # k + 1
    <3>1. y # Genesis
      BY SMT DEF Tree, GenesisHeader
    <3>2. /\ hdr[y].parent \in DOMAIN hdr /\ hdr[y].parent \in hdr[y].anc
          /\ hdr[hdr[y].parent].anc \subseteq hdr[y].anc
      BY ParentIsAncestor, AncestorsNested
    <3>3. hdr[hdr[y].parent].height = k
      BY SMT, <3>1, <3>2, HeaderFields DEF Tree, Linked
    <3>4. m \in 0 .. hdr[hdr[y].parent].height
      BY SMT, <2>2, <3>3
    <3>5. \A i \in 0 .. hdr[hdr[y].parent].height :
            \E x \in hdr[hdr[y].parent].anc : hdr[x].height = i
      BY ZenonT(60), <1>2, <3>2, <3>3
    <3>6. PICK x \in hdr[hdr[y].parent].anc : hdr[x].height = m
      BY ZenonT(60), <3>4, <3>5
    <3> QED
      BY ZenonT(60), <3>2, <3>6
  <2> QED
    BY <2>1, <2>2
<1>3. hdr[b].height \in S
  <2>1. hdr[b].height \in Nat
    BY HeaderFields
  <2> HIDE DEF S
  <2> QED
    BY <1>1, <1>2, <2>1, SetInduction
<1> QED
  BY <1>3

\* AncestorAt is the one block of the branch at that height.
LEMMA AncestorAtHeight ==
  ASSUME TypeOK, Tree, NEW b \in DOMAIN hdr, NEW n \in 0 .. hdr[b].height
  PROVE  /\ AncestorAt(b, n) \in hdr[b].anc /\ AncestorAt(b, n) \in DOMAIN hdr
         /\ hdr[AncestorAt(b, n)].height = n
         /\ \A x \in hdr[b].anc : hdr[x].height = n => x = AncestorAt(b, n)
<1>1. \E x \in hdr[b].anc : hdr[x].height = n
  BY HeightsFilled
<1>2. AncestorAt(b, n) \in hdr[b].anc /\ hdr[AncestorAt(b, n)].height = n
  BY <1>1 DEF AncestorAt
<1> QED
  BY <1>2, AncestorsNested, SameHeight

\* Block by block, a branch is linked by its parents.
LEMMA AncestorAtParent ==
  ASSUME TypeOK, Tree, NEW b \in DOMAIN hdr, NEW n \in 1 .. hdr[b].height
  PROVE  /\ AncestorAt(b, n) # Genesis
         /\ hdr[AncestorAt(b, n)].parent = AncestorAt(b, n - 1)
<1> DEFINE a == AncestorAt(b, n)
<1>0. hdr[b].height \in Nat
  BY HeaderFields
<1>1. n \in Nat /\ n # 0 /\ n \in 0 .. hdr[b].height /\ n - 1 \in 0 .. hdr[b].height
  BY SMT, <1>0
<1>2. a \in hdr[b].anc /\ a \in DOMAIN hdr /\ hdr[a].height = n
  BY <1>1, AncestorAtHeight
<1>3. a # Genesis
  BY SMT, <1>1, <1>2 DEF Tree, GenesisHeader
<1>4. hdr[a].parent \in DOMAIN hdr /\ hdr[a].parent \in hdr[b].anc
  BY <1>2, ParentIsAncestor, AncestorsNested
<1>5. hdr[hdr[a].parent].height = n - 1
  BY SMT, <1>1, <1>2, <1>3, <1>4, HeaderFields DEF Tree, Linked
<1>6. \A x \in hdr[b].anc : hdr[x].height = n - 1 => x = AncestorAt(b, n - 1)
  BY <1>1, AncestorAtHeight
<1> QED
  BY <1>3, <1>4, <1>5, <1>6

\* The times that headers carry are those that the chain determines.
LEMMA ChainDue ==
  ASSUME TypeOK, Tree, NEW b \in DOMAIN hdr
  PROVE  /\ Len(ChainTo(b)) = hdr[b].height
         /\ \A h \in 0 .. hdr[b].height : DueAt(ChainTo(b))[h] = hdr[AncestorAt(b, h)].due
<1> DEFINE n == hdr[b].height
           c == ChainTo(b)
           g == [h \in 0 .. n |-> hdr[AncestorAt(b, h)].due]
<1>0. n \in Nat
  BY HeaderFields
<1>1. \A h \in 0 .. n : /\ AncestorAt(b, h) \in DOMAIN hdr
                        /\ hdr[AncestorAt(b, h)].height = h
  BY AncestorAtHeight
<1>2. Len(c) = n
  BY SMT, <1>0 DEF ChainTo
<1>3. \A h \in 1 .. n : /\ c[h].time = hdr[AncestorAt(b, h)].time
                        /\ c[h].gas = hdr[AncestorAt(b, h)].gas
  BY SMT DEF ChainTo
<1>4. \A h \in 1 .. n : h \in 0 .. n /\ h - 1 \in 0 .. n /\ h # 0
  BY SMT, <1>0
<1>6. AncestorAt(b, 0) = Genesis
  <2>1. Genesis \in hdr[b].anc /\ hdr[Genesis].height = 0
    BY SMT, ParentIsAncestor DEF Tree, GenesisHeader
  <2>2. 0 \in 0 .. n
    BY SMTT(60), <1>0
  <2> QED
    BY <2>1, <2>2, AncestorAtHeight
<1>7. g[0] = GenesisTime
  BY SMTT(60), <1>0, <1>6 DEF Tree, GenesisHeader
<1>8. ASSUME NEW h \in 1 .. n
      PROVE  g[h] = DueStep(c, g, h)
  <2> DEFINE a == AncestorAt(b, h)
  <2>1. /\ h \in 0 .. n /\ h - 1 \in 0 .. n /\ h # 0
        /\ a \in DOMAIN hdr \ {Genesis} /\ hdr[a].parent = AncestorAt(b, h - 1)
    BY <1>1, <1>4, AncestorAtParent
  <2>2. hdr[a].due = Larger(hdr[hdr[a].parent].due, hdr[a].time) + hdr[a].gas
    BY <2>1 DEF Tree, Linked
  <2>3. g[h] = hdr[a].due /\ g[h - 1] = hdr[hdr[a].parent].due
    BY <2>1
  <2> HIDE DEF g, a, c
  <2>4. c[h].time = hdr[a].time /\ c[h].gas = hdr[a].gas
    BY <1>3 DEF a
  <2> QED
    BY SMT, <2>1, <2>2, <2>3, <2>4 DEF DueStep, Larger
<1>9. \A h \in 0 .. n : DueAt(c)[h] = g[h]
  <2> HIDE DEF g, c
  <2>1. n <= Len(c)
    BY SMT, <1>0, <1>2
  <2> QED
    BY <1>0, <1>2, <1>7, <1>8, <2>1, DueAtUnique
<1> QED
  BY <1>2, <1>9

\* What LastToSettleAt looks for is what the chain determines.
LEMMA ChainSettles ==
  ASSUME TypeOK, Tree, NEW b \in DOMAIN hdr \ {Genesis}, NEW s,
         IsLastToSettle(s, hdr[b].parent, SettleAt(b))
  PROVE  SettledBy(ChainTo(b), hdr[b].height, hdr[s].height)
<1> DEFINE p == hdr[b].parent
           n == hdr[b].height
           c == ChainTo(b)
<1>1. /\ p \in DOMAIN hdr /\ hdr[p].anc \subseteq hdr[b].anc
      /\ b \in hdr[b].anc /\ s \in hdr[p].anc
  BY ParentIsAncestor, AncestorsNested DEF IsLastToSettle
<1>2. s \in DOMAIN hdr /\ s \in hdr[b].anc /\ hdr[s].height <= hdr[p].height
  BY <1>1, AncestorsNested DEF Tree, Branches
<1>3. n \in Nat /\ hdr[s].height \in 0 .. n - 1 /\ hdr[p].height = n - 1 /\ n \in 1 .. n
      /\ hdr[p].height \in Nat
  BY SMT, <1>1, <1>2, HeaderFields DEF Tree, Linked
<1>4. \A h \in 0 .. n : /\ AncestorAt(b, h) \in hdr[b].anc /\ hdr[AncestorAt(b, h)].height = h
                        /\ \A x \in hdr[b].anc : hdr[x].height = h => x = AncestorAt(b, h)
  BY AncestorAtHeight
<1>5. \A h \in 0 .. n : DueAt(c)[h] = hdr[AncestorAt(b, h)].due
  BY ChainDue
<1>6. c[n].time = hdr[b].time
  <2>1. c[n].time = hdr[AncestorAt(b, n)].time
    BY SMT, <1>3 DEF ChainTo
  <2>2. n \in 0 .. n
    BY SMT, <1>3
  <2> QED
    BY <1>1, <1>4, <2>1, <2>2
<1>7. hdr[s].height = 0 \/ DueAt(c)[hdr[s].height] <= c[n].time - Tau
  <2>1. hdr[s].height \in 0 .. n
    BY SMT, <1>3
  <2>2. DueAt(c)[hdr[s].height] = hdr[s].due
    BY <1>2, <1>4, <1>5, <2>1
  <2>3. s = Genesis => hdr[s].height = 0
    BY SMT DEF Tree, GenesisHeader
  <2> QED
    BY <1>6, <2>2, <2>3 DEF IsLastToSettle, SettleAt
<1>8. ASSUME NEW x \in hdr[s].height + 1 .. n - 1
      PROVE  DueAt(c)[x] > c[n].time - Tau
  <2> DEFINE a == AncestorAt(b, x)
  <2>1. x \in 0 .. n /\ x \in 0 .. hdr[p].height /\ x # n /\ x > hdr[s].height
    BY SMT, <1>3
  <2>2. a \in hdr[b].anc /\ hdr[a].height = x
    BY <1>4, <2>1
  <2>3. a # b
    BY <2>1, <2>2
  <2>4. a \in hdr[p].anc
    BY <2>2, <2>3, ProperAncestor
  <2>5. hdr[a].due > SettleAt(b)
    BY <2>1, <2>2, <2>4 DEF IsLastToSettle
  <2> QED
    BY <1>5, <1>6, <2>1, <2>5 DEF SettleAt
<1> QED
  BY <1>3, <1>7, <1>8 DEF SettledBy

\* The ledger of a branch does not change as long as its headers do not, and a
\* block adds one entry to the ledger of its parent.
LEMMA ChainFrame ==
  ASSUME TypeOK, Tree, lastAccepted \in DOMAIN hdr, UNCHANGED lastAccepted,
         \A x \in hdr[lastAccepted].anc : hdr'[x] = hdr[x]
  PROVE  ChainTo(lastAccepted)' = ChainTo(lastAccepted)
<1> DEFINE n == hdr[lastAccepted].height
<1>1. hdr'[lastAccepted] = hdr[lastAccepted]
  BY ParentIsAncestor
<1>2. \A h : AncestorAt(lastAccepted, h)' = AncestorAt(lastAccepted, h)
  BY <1>1 DEF AncestorAt
<1>3. \A h \in 1 .. n : hdr'[AncestorAt(lastAccepted, h)] = hdr[AncestorAt(lastAccepted, h)]
  <2> TAKE h \in 1 .. n
  <2>1. h \in 0 .. n
    BY SMT, HeaderFields
  <2> QED
    BY <2>1, AncestorAtHeight
<1> QED
  BY <1>1, <1>2, <1>3 DEF ChainTo

\* The chain that ends with a block is its parent's and the block.
LEMMA ChainOfParent ==
  ASSUME TypeOK, Tree, NEW b \in DOMAIN hdr \ {Genesis}
  PROVE  /\ Len(ChainTo(b)) = Len(ChainTo(hdr[b].parent)) + 1
         /\ SubSeq(ChainTo(b), 1, Len(ChainTo(hdr[b].parent))) = ChainTo(hdr[b].parent)
<1> DEFINE p == hdr[b].parent
<1>1. /\ p \in DOMAIN hdr /\ hdr[p].anc \subseteq hdr[b].anc
      /\ hdr[p].height \in Nat /\ hdr[b].height = hdr[p].height + 1
  BY ParentIsAncestor, AncestorsNested, HeaderFields DEF Tree, Linked
<1>2. Len(ChainTo(p)) = hdr[p].height /\ Len(ChainTo(b)) = hdr[b].height
  BY <1>1, ChainDue
<1>3. \A h \in 1 .. hdr[p].height : AncestorAt(b, h) = AncestorAt(p, h)
  <2> TAKE h \in 1 .. hdr[p].height
  <2>1. h \in 0 .. hdr[p].height /\ h \in 0 .. hdr[b].height
    BY SMT, <1>1
  <2>2. AncestorAt(p, h) \in hdr[b].anc /\ hdr[AncestorAt(p, h)].height = h
    BY <1>1, <2>1, AncestorAtHeight
  <2>3. \A x \in hdr[b].anc : hdr[x].height = h => x = AncestorAt(b, h)
    BY <2>1, AncestorAtHeight
  <2> QED
    BY <2>2, <2>3
<1>4. SubSeq(ChainTo(b), 1, hdr[p].height) = [h \in 1 .. hdr[p].height |-> ChainTo(b)[h]]
  <2>1. ChainTo(b) \in Seq({[time |-> hdr[AncestorAt(b, h)].time, gas |-> hdr[AncestorAt(b, h)].gas]
                              : h \in 1 .. hdr[b].height})
    BY SMTT(60), <1>1 DEF ChainTo
  <2> QED
    BY SMTT(60), <1>1, <1>2, <2>1
<1>5. [h \in 1 .. hdr[p].height |-> ChainTo(b)[h]] = ChainTo(p)
  BY SMT, <1>1, <1>3 DEF ChainTo
<1> QED
  BY <1>1, <1>2, <1>4, <1>5

\* A block is determined by its ancestors.
LEMMA SameAncestors ==
  ASSUME TypeOK, Tree, NEW x \in DOMAIN hdr, NEW y \in DOMAIN hdr, hdr[x].anc = hdr[y].anc
  PROVE  x = y
<1>1. x \in hdr[y].anc /\ y \in hdr[x].anc
  BY ParentIsAncestor
<1> QED
  BY SMT, <1>1, ProperAncestor, HeaderFields

\* Three steps of the life cycle are steps of the ledger; the others leave it as it
\* is.
LEMMA LedgerStep ==
  ASSUME IInv, IInv', [Next]_vars
  PROVE  [L!LedgerNext]_(L!ledgerVars)
<1> USE DEF IInv
<1> DEFINE c == ChainTo(lastAccepted)
<1>1. \A x \in hdr[canonical].anc : hdr'[x] = hdr[x] /\ x \in DOMAIN hdr
  BY CanonicalHeadersFixed
<1>2. /\ lastAccepted \in DOMAIN hdr /\ hdr[lastAccepted].anc \subseteq hdr[canonical].anc
      /\ lastSettled \in hdr[canonical].anc /\ lastExecuted \in hdr[lastAccepted].anc
      /\ lastSettled \in hdr[lastSettled].anc /\ lastExecuted \in hdr[lastExecuted].anc
  <2>1. lastAccepted \in DOMAIN hdr /\ hdr[lastAccepted].anc \subseteq hdr[canonical].anc
    BY KnownBlocks, AncestorsNested
  <2>2. lastSettled \in hdr[canonical].anc /\ lastSettled \in hdr[lastSettled].anc
    BY ZenonT(60), SettledChain, ParentIsAncestor DEF SettlingInv
  <2>3. hdr[Taken].anc \subseteq hdr[lastAccepted].anc
    BY KnownBlocks, AncestorsNested
  <2> QED
    BY ZenonT(60), <2>1, <2>2, <2>3, KnownBlocks, ParentIsAncestor DEF StreamInv
<1>3. ChainTo(lastAccepted)' = ChainTo(lastAccepted) \/ lastAccepted' # lastAccepted
  <2>1. ASSUME lastAccepted' = lastAccepted
        PROVE  ChainTo(lastAccepted)' = ChainTo(lastAccepted)
    BY <1>1, <1>2, <2>1, ChainFrame
  <2> QED
    BY <2>1
<1>4. /\ lastSettled' = lastSettled => hdr'[lastSettled'].height = hdr[lastSettled].height
      /\ lastExecuted' = lastExecuted => hdr'[lastExecuted'].height = hdr[lastExecuted].height
  BY <1>1, <1>2
<1>5. CASE StoreLastAccepted
  <2>1. /\ cpc = "settle" /\ lastAccepted' = cb /\ todo = {}
        /\ UNCHANGED <<hdr, settledBy, canonical, lastSettled, lastExecuted>>
    BY <1>5 DEF StoreLastAccepted, AllSettled, verifyVars, settleVars, executorVars, resultVars
  <2>2. canonical = cb /\ hdr[cb].parent = lastAccepted /\ cb # Genesis /\ cb \in DOMAIN hdr
    BY <2>1 DEF ChainInv, Settling, Accepting
  <2>3. cb \in hdr[canonical].anc
    BY <2>2, ParentIsAncestor
  <2>4. IsLastToSettle(settledBy[cb], hdr[cb].parent, SettleAt(cb))
    BY <2>2, <2>3 DEF SettledByInv
  <2>5. lastSettled = settledBy[cb]
    <3>1. hdr[lastSettled].anc = hdr[settledBy[cb]].anc
      BY ZenonT(60), <2>1, <2>2 DEF SettlingInv
    <3>2. settledBy[cb] \in DOMAIN hdr /\ settledBy[cb] \in hdr[settledBy[cb]].anc
      BY <2>3, SettledByCanonical, ParentIsAncestor
    <3> QED
      BY ZenonT(60), <1>1, <1>2, <3>1, <3>2, SameAncestors
  <2>6. ChainTo(lastAccepted)' = ChainTo(cb)
    BY <2>1 DEF ChainTo, AncestorAt
  <2>7. /\ Len(ChainTo(cb)) = Len(c) + 1 /\ SubSeq(ChainTo(cb), 1, Len(c)) = c
    BY <2>2, ChainOfParent
  <2>8. SettledBy(ChainTo(cb), Len(ChainTo(cb)), hdr[lastSettled].height)
    BY <2>2, <2>4, <2>5, ChainSettles, ChainDue
  <2>9. L!SettledBy(ChainTo(cb), Len(ChainTo(cb)), hdr[lastSettled].height)
    BY <2>8 DEF SettledBy, L!SettledBy, DueAt, L!DueAt
  <2>10. L!Accept
    BY <1>4, <2>1, <2>6, <2>7, <2>9 DEF L!Accept
  <2> QED
    BY <2>10 DEF L!LedgerNext
<1>6. CASE StoreLastSettled
  <2>1. /\ cpc = "storeSettled" /\ lastSettled' = cur
        /\ UNCHANGED <<hdr, lastAccepted, lastExecuted>>
    BY <1>6 DEF StoreLastSettled, verifyVars, acceptVars, executorVars, resultVars
  <2>2. /\ cur \in DOMAIN hdr /\ settled = hdr[cur].anc /\ lastSettled \in DOMAIN hdr
        /\ hdr[lastSettled].anc = hdr[cur].anc \ {cur}
    BY <2>1 DEF SettlingInv, WalkInv
  <2>3. cur # Genesis
    BY <1>2, <2>2, ParentIsAncestor
  <2>4. /\ hdr[cur].parent \in DOMAIN hdr /\ hdr[lastSettled].anc = hdr[hdr[cur].parent].anc
        /\ hdr[cur].height = hdr[hdr[cur].parent].height + 1
    <3>1. /\ cur \notin hdr[hdr[cur].parent].anc
          /\ hdr[cur].anc = hdr[hdr[cur].parent].anc \cup {cur}
          /\ hdr[cur].height = hdr[hdr[cur].parent].height + 1
      BY <2>2, <2>3 DEF Tree, Linked
    <3> QED
      BY <2>2, <3>1, ParentIsAncestor
  <2>5. lastSettled = hdr[cur].parent
    BY <2>2, <2>4, SameAncestors
  <2>6. cur \in hdr[lastExecuted].anc /\ lastExecuted \in DOMAIN hdr
    BY ZenonT(60), <2>2, SettledChain, ExecutionOrdered, ParentIsAncestor DEF ExecutionIsOrdered, StreamInv
  <2>7. hdr[cur].height <= hdr[lastExecuted].height
    BY <2>6 DEF Tree, Branches
  <2>8. hdr[lastSettled].height < hdr[lastExecuted].height
    BY SMTT(60), <2>2, <2>4, <2>5, <2>6, <2>7, HeaderFields
  <2>9. L!Settle
    BY <1>3, <1>4, <2>1, <2>4, <2>5, <2>8 DEF L!Settle
  <2> QED
    BY <2>9 DEF L!LedgerNext
<1>7. CASE StoreLastExecuted
  <2>1. /\ epc = "pointer" /\ lastExecuted' = eb
        /\ UNCHANGED <<hdr, lastAccepted, lastSettled>>
    BY <1>7 DEF StoreLastExecuted, consensusVars, verifyVars, acceptVars, settleVars
  <2>2. lastExecuted = hdr[eb].parent /\ eb # Genesis
    BY <2>1 DEF StreamInv, Reached
  <2>3. eb \in DOMAIN hdr /\ eb \in hdr[lastAccepted].anc
    BY ZenonT(60), <2>1, KnownBlocks, AncestorsNested DEF StreamInv
  <2>4. hdr[eb].height = hdr[lastExecuted].height + 1 /\ lastExecuted \in DOMAIN hdr
    BY ZenonT(60), <2>2, <2>3, ParentIsAncestor DEF Tree, Linked
  <2>5. hdr[eb].height <= hdr[lastAccepted].height
    BY ZenonT(60), <1>2, <2>3 DEF Tree, Branches
  <2>6. hdr[lastExecuted].height < Len(c)
    <3>1. Len(c) = hdr[lastAccepted].height
      BY <1>2, ChainDue
    <3> QED
      BY SMTT(60), <1>2, <2>3, <2>4, <2>5, <3>1, HeaderFields
  <2>7. L!Execute
    BY <1>3, <1>4, <2>1, <2>4, <2>6 DEF L!Execute
  <2> QED
    BY <2>7 DEF L!LedgerNext
<1>8. CASE ~ (StoreLastAccepted \/ StoreLastSettled \/ StoreLastExecuted)
  <2>1. UNCHANGED <<lastAccepted, lastSettled, lastExecuted>>
    BY <1>8 DEF Next, Proceed, Stream, BeginVerify, WalkTimes, WalkExecution,
         RefuseBlock, FinishVerify, AcceptOnDisk, SetState, SettleInMemory, CloseSettled,
         SendAccepted, Enqueue, AwaitExecuted, Evict, RejectBlock, Dequeue, RunTx,
         PutResults, WriteBatch, StoreExecution, CloseExecuted, SendEvents, vars,
         consensusVars, acceptVars, settleVars, executorVars, resultVars
  <2> QED
    BY <1>3, <1>4, <2>1 DEF L!ledgerVars
<1> QED
  BY <1>5, <1>6, <1>7, <1>8

\* The life cycle, whatever the interleaving of its two threads, implements the
\* safety part of the ledger: the three pointers show one chain, which only grows,
\* is executed and settled one block at a time and in order, and of which exactly
\* the blocks are settled that the chain's headers demand when a block is accepted.
THEOREM RefinesLedger == Spec => L!LedgerSafety
<1>1. Init => L!LedgerInit
  <2> SUFFICES ASSUME Init PROVE L!LedgerInit
    OBVIOUS
  <2>1. hdr[Genesis].height = 0
    BY DEF Init, GenesisHeader
  <2>2. ChainTo(Genesis) = <<>>
    BY SMT, <2>1 DEF ChainTo
  <2> QED
    BY <2>1, <2>2 DEF Init, L!LedgerInit
<1>2. IInv /\ IInv' /\ [Next]_vars => [L!LedgerNext]_(L!ledgerVars)
  BY LedgerStep
<1> QED
  BY <1>1, <1>2, Invariance, PTL DEF Spec, L!LedgerSafety
=============================================================================
