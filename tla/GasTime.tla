------------------------------- MODULE GasTime -------------------------------
(***************************************************************************)
(* The proxytime and gastime packages: the clock whose passage is measured *)
(* in gas and which also carries the price of gas.                         *)
(*                                                                         *)
(* A time is a record [sec, frac, hertz], that is sec + frac/hertz         *)
(* seconds.  A gas clock has in addition the gas target, the excess, and   *)
(* the price configuration [scaling, min, static].                         *)
(***************************************************************************)
EXTENDS IntMath

CONSTANT Second    \* time.Second, in units of a block's sub-second time

\* A word holds the rate of the least target.
ASSUME GasTimeAssumption == Second \in Nat \ {0} /\ MaxUint > 1

----------------------------------------------------------------------------
\* proxytime.Time

At(s, f, h) == [sec |-> s, frac |-> f, hertz |-> h]

\* Time.Compare, as before-or-at; the two rates may differ.
NotAfter(s, t) ==
  \/ s.sec < t.sec
  \/ s.sec = t.sec /\ s.frac * t.hertz <= t.frac * s.hertz

\* Time.Tick
TickTime(t, d) ==
  [t EXCEPT !.sec = @ + (t.frac + d) \div t.hertz, !.frac = (t.frac + d) % t.hertz]

\* Time.isFuture
IsFuture(t, s, f) == IF s # t.sec THEN s > t.sec ELSE f > t.frac

\* Time.FastForwardTo; what it returns is the amount skipped, in whole seconds and
\* in units of the rate.
SkippedNoBorrow(t, s, f) ==
  IF ~ IsFuture(t, s, f) THEN [sec |-> 0, frac |-> 0]
  ELSE [sec |-> s - t.sec, frac |-> IF t.frac > f THEN t.hertz - (t.frac - f) ELSE f - t.frac]
Skipped(t, s, f) ==
  IF ~ IsFuture(t, s, f) THEN [sec |-> 0, frac |-> 0]
  ELSE IF t.frac > f THEN [sec |-> s - t.sec - 1, frac |-> t.hertz - (t.frac - f)]
  ELSE [sec |-> s - t.sec, frac |-> f - t.frac]
ForwardTime(t, s, f) ==
  IF IsFuture(t, s, f) THEN [t EXCEPT !.sec = s, !.frac = f] ELSE t

\* Time.Scale
ScaleDown(t, val, rate) == MulDiv(val, rate, t.hertz)
Scale(t, val, rate) == MulDivCeil(val, rate, t.hertz)

\* Time.SetRate; rounding up may complete the second.
SetTimeRateNoCarry(t, rate) ==
  [t EXCEPT !.frac = Scale(t, t.frac, rate), !.hertz = rate]
SetTimeRate(t, rate) ==
  LET f == Scale(t, t.frac, rate) IN
  [t EXCEPT !.sec = IF f >= rate THEN @ + 1 ELSE @,
            !.frac = IF f >= rate THEN f - rate ELSE f,
            !.hertz = rate]

----------------------------------------------------------------------------
\* gastime.Time

TargetToRate == 2
MaxTarget == MaxUint \div TargetToRate
ClampTarget(t) == IF t < 1 THEN 1 ELSE Smaller(t, MaxTarget)
RateOf(t) == t * TargetToRate

\* gas.CalculatePrice of avalanchego: the sum of the integer terms of the series of
\* min * e^(excess/k), capped.
CalculatePrice(min, excess, k) ==
  LET sum[t \in Nat \X Nat \X (Nat \ {0})] ==
        LET out == t[1]
            acc == t[2]
            i == t[3]
        IN IF acc = 0 \/ out >= k * MaxUint THEN out
           ELSE sum[<<out + acc, ((acc * excess) \div k) \div i, i + 1>>]
  IN Smaller(sum[<<0, min * k, 1>>] \div k, MaxUint)

\* Time.excessScalingFactor
ExcessScalingFactor(c) == BoundedMultiply(c.cfg.scaling, c.target, MaxUint)

\* Time.Price and Time.BaseFee
Price(c) ==
  IF c.cfg.static THEN c.cfg.min
  ELSE CalculatePrice(c.cfg.min, c.excess, ExcessScalingFactor(c))

\* Time.SetTarget
SetTarget(c, target) ==
  LET t == ClampTarget(target)
      x == Scale(c, c.excess, RateOf(t))
  IN [SetTimeRate(c, RateOf(t)) EXCEPT
        !.excess = IF x = Overflow THEN MaxUint ELSE x, !.target = t]

\* Time.Tick: time passes and the excess grows by the part above the target.
TickExcess(c, g) ==
  BoundedAdd(c.excess, MulDiv(g, c.hertz - c.target, c.hertz), MaxUint)
Tick(c, g) == [TickTime(c, g) EXCEPT !.excess = TickExcess(c, g)]

\* Time.FastForwardTo: the excess shrinks by the target for every second skipped,
\* in two bounded subtractions.
ForwardExcess(c, skip) ==
  LET whole == IF c.excess \div c.target >= skip.sec
               THEN c.excess - skip.sec * c.target ELSE 0
  IN BoundedSubtract(whole, MulDiv(skip.frac, c.target, c.hertz), 0)
FastForwardTo(c, s, f) ==
  LET s1 == s + f \div c.hertz
      f1 == f % c.hertz
  IN [ForwardTime(c, s1, f1) EXCEPT !.excess = ForwardExcess(c, Skipped(c, s1, f1))]

\* SubSecond: a block's sub-second time in units of the rate, rounded up.
SubSecond(sub, rate) == MulDivCeil(sub, rate, Second)

\* Time.BeforeBlock
BeforeBlock(c, h) == FastForwardTo(c, h.sec, SubSecond(h.sub, c.hertz))

\* Time.findExcessForPrice: binary search for the least excess with the price.
FindExcessForPrice(c, price) ==
  LET k == ExcessScalingFactor(c)
      search[r \in Word \X Word] ==
        LET lo == r[1]
            hi == r[2]
            mid == lo + (hi - lo) \div 2
        IN IF lo >= hi THEN lo
           ELSE IF CalculatePrice(c.cfg.min, mid, k) >= price
                THEN search[<<lo, mid>>] ELSE search[<<mid + 1, hi>>]
  IN IF price <= c.cfg.min \/ c.cfg.static THEN 0 ELSE search[<<0, MaxUint>>]

\* Time.AfterBlock: consume, change the target, and keep the price of the moment
\* when the price configuration changes.
AfterBlockLatePrice(c, used, h) ==
  LET retargeted == SetTarget(Tick(c, used), h.target)
      reconfigured == [retargeted EXCEPT !.cfg = h.cfg]
  IN IF h.cfg = c.cfg THEN retargeted
     ELSE [reconfigured EXCEPT !.excess =
             FindExcessForPrice(reconfigured, Price(retargeted))]
AfterBlock(c, used, h) ==
  LET ticked == Tick(c, used)
      retargeted == SetTarget(ticked, h.target)
      reconfigured == [retargeted EXCEPT !.cfg = h.cfg]
  IN IF h.cfg = c.cfg THEN retargeted
     ELSE [reconfigured EXCEPT !.excess =
             FindExcessForPrice(reconfigured, Price(ticked))]
=============================================================================
