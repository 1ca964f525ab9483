------------------------------- MODULE Headers -------------------------------
(***************************************************************************)
(* What a chain of headers determines by itself.  A chain is the sequence  *)
(* of headers on top of the last synchronous block, which is block 0; a    *)
(* header has a block time and the gas that its execution consumes.        *)
(* Times are in ticks, one for each unit of gas.                           *)
(***************************************************************************)
EXTENDS Integers, Sequences

CONSTANTS
  Tau,          \* params.Tau, in ticks
  GenesisTime   \* time of the last synchronous block

ASSUME HeadersAssumption == Tau \in Nat /\ GenesisTime \in Nat

\* The gas time at which execution of the block at each height finishes: it starts
\* at the later of the block's own time and its parent's end.
DueAt(c) ==
  LET due[h \in 0 .. Len(c)] ==
        IF h = 0 THEN GenesisTime
        ELSE (IF due[h - 1] >= c[h].time THEN due[h - 1] ELSE c[h].time)
               + c[h].gas
  IN due

\* s is the last block below block h of c that is due by the time of h, less Tau.
SettledBy(c, h, s) ==
  LET t == c[h].time - Tau
      due == DueAt(c)
  IN /\ s \in 0 .. h - 1
     /\ s = 0 \/ due[s] <= t
     /\ \A x \in s + 1 .. h - 1 : due[x] > t
SettledHeight(c, h) ==
  IF h = 0 THEN 0 ELSE CHOOSE s \in 0 .. h - 1 : SettledBy(c, h, s)
=============================================================================
