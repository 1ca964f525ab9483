----------------------------- MODULE SAELedger -----------------------------
(***************************************************************************)
(* The ledger that the VM's pointers show to everybody else, and that the  *)
(* life cycle of blocks implements it.                                     *)
(***************************************************************************)
EXTENDS SAEInductive

\* The chain that ends with b, in order of height.
AncestorAt(b, h) == CHOOSE x \in hdr[b].anc : hdr[x].height = h
ChainTo(b) ==
  [h \in 1 .. hdr[b].height |->
     [time |-> hdr[AncestorAt(b, h)].time, gas |-> hdr[AncestorAt(b, h)].gas]]

L == INSTANCE Ledger WITH
       chain <- ChainTo(lastAccepted),
       executed <- hdr[lastExecuted].height,
       settled <- hdr[lastSettled].height

\* The pointers that the VM answers from (last.accepted, the executor's
\* lastExecuted, last.settled) behave as the three labels of one ledger: whatever
\* the interleaving of AcceptBlock and the execution stream, they show only
\* accepting, executing or settling one block at a time, each acceptance comes
\* after exactly the settlements that the chain demands, and execution goes on.
ImplementsLedger == L!LedgerSpec
=============================================================================
