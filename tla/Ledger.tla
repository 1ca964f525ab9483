------------------------------- MODULE Ledger -------------------------------
(***************************************************************************)
(* What the life cycle of blocks promises to everybody outside the VM: one *)
(* chain of accepted blocks, executed in order, and settled in order so    *)
(* that the last settled block is a function of the chain alone.           *)
(* docs/invariants.md describes this view as the three labels of the chain *)
(* (latest, safe, finalized); no thread, pointer or disk appears here.     *)
(***************************************************************************)
EXTENDS Headers

VARIABLES
  chain,      \* headers of the accepted blocks
  executed,   \* height of the last executed block
  settled     \* height of the last settled block

ledgerVars == <<chain, executed, settled>>

LedgerInit == chain = <<>> /\ executed = 0 /\ settled = 0

\* A block joins the chain once exactly the blocks it settles are settled.
Accept ==
  /\ Len(chain') = Len(chain) + 1
  /\ SubSeq(chain', 1, Len(chain)) = chain
  /\ SettledBy(chain', Len(chain'), settled)
  /\ UNCHANGED <<executed, settled>>

Execute ==
  /\ executed < Len(chain)
  /\ executed' = executed + 1
  /\ UNCHANGED <<chain, settled>>

Settle ==
  /\ settled < executed
  /\ settled' = settled + 1
  /\ UNCHANGED <<chain, executed>>

LedgerNext == Accept \/ Execute \/ Settle

LedgerSafety == LedgerInit /\ [][LedgerNext]_ledgerVars

LedgerSpec == LedgerSafety /\ WF_ledgerVars(Execute)
=============================================================================
