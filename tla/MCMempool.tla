------------------------------ MODULE MCMempool ------------------------------
(* Mempool with two senders, and blocks of the sort so small that there is one merge. *)
EXTENDS Mempool

MCPrices == {[cap |-> 9, tip |-> t] : t \in 1 .. 3} \cup {[cap |-> 3, tip |-> 3]}
=============================================================================
