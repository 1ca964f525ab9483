---------------------------- MODULE MCEstimator ----------------------------
(***************************************************************************)
(* An instance of Estimator for TLC: blocks without transactions, with one *)
(* and with three, whose tips lie below, between and above the limits.     *)
(***************************************************************************)
EXTENDS Estimator

MCGenesis == [time |-> 0, fee |-> 1, endFee |-> Unbounded, gasUsed |-> 0, txs |-> <<>>]
MCBlocks ==
  {[time |-> 0, fee |-> 2, endFee |-> 3, gasUsed |-> 4,
    txs |-> <<[gas |-> 2, tip |-> 40], [gas |-> 1, tip |-> 0], [gas |-> 1, tip |-> 3]>>],
   [time |-> 1, fee |-> 4, endFee |-> 5, gasUsed |-> 3, txs |-> <<[gas |-> 2, tip |-> 4]>>],
   [time |-> 1, fee |-> 6, endFee |-> Unbounded, gasUsed |-> 0, txs |-> <<>>]}
MCPercentiles == <<0, 50, 75, 100>>
=============================================================================
