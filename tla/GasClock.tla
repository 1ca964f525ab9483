------------------------------- MODULE GasClock -------------------------------
(***************************************************************************)
(* The gas clock of the executor over any sequence of blocks: BeforeBlock, *)
(* a Tick of the per-transaction clock for each transaction, AfterBlock.   *)
(* Words are narrow, so that sums, scaled values and prices reach their    *)
(* limits.                                                                 *)
(***************************************************************************)
EXTENDS GasTime

CONSTANTS
  Targets,     \* what GasConfigAfter may return, out of range values included
  Configs,
  InitialExcess,
  MaxSeconds   \* bounds the times of blocks and of the clock

\* Every target may be returned, and every configuration that Validate accepts.
ASSUME GasClockAssumption ==
  /\ Targets \subseteq Nat /\ MaxSeconds \in Nat /\ InitialExcess \subseteq Word
  /\ Configs \subseteq [scaling : 1 .. MaxUint, min : 1 .. MaxUint, static : BOOLEAN]

VARIABLES
  clock,     \* gasClock in Execute
  perTx,     \* perTxClock
  header,    \* of the block in execution, or of the last one
  consumed,  \* blockGasConsumed
  inBlock

vars == <<clock, perTx, header, consumed, inBlock>>

Header == [sec : 0 .. MaxSeconds, sub : 0 .. Second - 1]

TimeOf(c) == At(c.sec, c.frac, c.hertz)

\* gastime.New: from nanoseconds to the rate of the target.
New(sec, sub, target, excess, cfg) ==
  LET t == ClampTarget(target)
      tm == SetTimeRate(At(sec, sub, Second), RateOf(t))
  IN [sec |-> tm.sec, frac |-> tm.frac, hertz |-> tm.hertz, target |-> t, excess |-> excess,
      cfg |-> cfg]

Init ==
  \E h \in Header, target \in Targets, cfg \in Configs, x \in InitialExcess :
    /\ h.sec = 0
    /\ header = h
    /\ clock = New(h.sec, h.sub, target, x, cfg)
    /\ perTx = TimeOf(clock)
    /\ consumed = 0
    /\ inBlock = FALSE

StartBlock ==
  /\ ~ inBlock
  /\ \E h \in Header :
       /\ h.sec * Second + h.sub >= header.sec * Second + header.sub
       /\ header' = h
       /\ clock' = BeforeBlock(clock, h)
  /\ perTx' = TimeOf(clock')
  /\ consumed' = 0
  /\ inBlock' = TRUE

RunTx ==
  /\ inBlock
  /\ \E g \in 1 .. MaxUint :
       /\ consumed + g <= MaxUint
       /\ perTx' = TickTime(perTx, g)
       /\ perTx'.sec <= MaxSeconds
       /\ consumed' = consumed + g
  /\ UNCHANGED <<clock, header, inBlock>>

FinishBlock ==
  /\ inBlock
  /\ \E target \in Targets, cfg \in Configs :
       clock' = AfterBlock(clock, consumed, [target |-> target, cfg |-> cfg])
  /\ inBlock' = FALSE
  /\ UNCHANGED <<perTx, header, consumed>>

Next == StartBlock \/ RunTx \/ FinishBlock

Spec == Init /\ [][Next]_vars

----------------------------------------------------------------------------
(* Rates stay twice a clamped target, fractions below the rate (the documented
   invariant of proxytime.Time), and the excess a word. *)
TypeOK ==
  /\ clock.target \in 1 .. MaxTarget
  /\ clock.hertz = RateOf(clock.target)
  /\ clock.sec \in Nat /\ clock.frac \in 0 .. clock.hertz - 1
  /\ clock.excess \in Word
  /\ perTx.frac \in 0 .. perTx.hertz - 1
  /\ consumed \in Word

(* The clock never goes back ("Rounding up instead of down achieves monotonicity"),
   and the time that a block ends with is not before the last interim time. *)
ClockMonotone ==
  [][/\ NotAfter(clock, clock')
     /\ inBlock /\ ~ inBlock' => NotAfter(perTx, clock')]_vars

ExactStart ==
  LET now == clock'.sec * clock'.hertz + clock'.frac
      start == (header'.sec * Second + header'.sub) * clock'.hertz
      skipped == (clock'.sec - clock.sec) * clock.hertz + clock'.frac - clock.frac
      rest == clock.excess - (skipped * clock.target) \div clock.hertz
  IN /\ now * Second >= start
     /\ TimeOf(clock') # TimeOf(clock) => (now - 1) * Second < start
     /\ clock'.excess = IF rest < 0 THEN 0 ELSE rest

(* FastForwardTo is exact.  A block starts no earlier than its header says, which is
   what LastToSettleAt relies on to skip it, and when the clock had to be moved it is
   less than one unit later; meanwhile the excess falls by the target for each second
   skipped, by the exact rounded amount, and stops at zero (ACP-176), computed here
   from the two instants and without the precautions against overflow. *)
StartIsExact == [][~ inBlock /\ inBlock' => ExactStart]_vars

PriceKept ==
  LET before == Price(Tick(clock, consumed))
      PriceAt(x) == Price([clock' EXCEPT !.excess = x])
  IN \/ clock'.cfg.static /\ clock'.excess = 0
     \/ clock'.excess = MaxUint /\ \A x \in Word : PriceAt(x) < before
     \/ /\ ~ clock'.cfg.static
        /\ PriceAt(clock'.excess) >= before
        /\ \A x \in 0 .. clock'.excess - 1 : PriceAt(x) < before

(* A change of the price configuration keeps the price: the new excess is the least one
   that gives at least the price before the change, unless the new minimum is higher,
   pricing is static, or no excess reaches that price. *)
PriceContinues == [][inBlock /\ ~ inBlock' /\ clock'.cfg # clock.cfg => PriceKept]_vars
=============================================================================
