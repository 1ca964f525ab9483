----------------------------- MODULE MCWorstCase -----------------------------
(* WorstCase with two accounts that pay each other. *)
EXTENDS WorstCase

CONSTANTS alice, bob

Tx(from, to, nonce, gas, cap, tip, value) ==
  [from |-> from, to |-> to, nonce |-> nonce, gas |-> gas, cap |-> cap, tip |-> tip,
   value |-> value]

MCBalance == [a \in Accounts |-> IF a = alice THEN 20 ELSE 16]

\* Two payments of alice that their balance only just covers in the worst case, and one of
\* bob that needs what alice sends.
MCTxs ==
  {Tx(alice, bob, 0, 4, 3, 1, 3), Tx(alice, bob, 1, 2, 4, 0, 0), Tx(bob, alice, 0, 4, 4, 0, 2)}

\* What the code that a transaction runs may do: alice can no longer send to bob.
MCBars == {{<<alice, bob>>}}

\* Operations that only consume gas, at any price: what fills the queue.
Filler(gas) == [gas |-> gas, cap |-> 9, burn |-> [a \in {} |-> 0], mint |-> [a \in {} |-> 0]]

MCOps ==
  {[gas |-> 1, cap |-> 9,
    burn |-> [a \in {bob} |-> [nonce |-> 0, amount |-> 2, min |-> 3]],
    mint |-> [a \in {alice} |-> 4]],
   Filler(16)}
MCTimes ==
  {[sec |-> 1, sub |-> 1], [sec |-> 3, sub |-> 1], [sec |-> 4, sub |-> 0]}

Dynamic(scaling, min) == [scaling |-> scaling, min |-> min, static |-> FALSE]
MCGenesisGas == [target |-> 1, cfg |-> Dynamic(2, 1)]
MCGasConfigs ==
  {MCGenesisGas, [target |-> 8, cfg |-> Dynamic(2, 1)], [target |-> 1, cfg |-> Dynamic(3, 1)]}

\* Full blocks at a static price, while the gas target rises.
QueueOps == {Filler(4), Filler(8)}
QueueTimes == {[sec |-> s, sub |-> 0] : s \in {1, 2}}
Static(target) == [target |-> target, cfg |-> [scaling |-> 1, min |-> 1, static |-> TRUE]]
QueueGenesis == Static(1)
RisingTargets == {Static(1), Static(2)}
=============================================================================
