--------------------------- MODULE GasClockProofs ---------------------------
(***************************************************************************)
(* The gas clock over any sequence of blocks, at every width of words, for *)
(* all the targets and price configurations that hooks may return.         *)
(***************************************************************************)
EXTENDS GasClock, GasTimeProofs

----------------------------------------------------------------------------
\* The inductive invariant

\* The clock and the clock of the transactions are times; within a block the second
\* is ahead of the first by the gas consumed.
ClockInv ==
  /\ IsClock(clock) /\ IsTime(perTx)
  /\ header \in Header /\ consumed \in Word /\ inBlock \in BOOLEAN
  /\ inBlock => /\ perTx.hertz = clock.hertz
                /\ Instant(perTx) = Instant(clock) + consumed

\* The time of a header.
LEMMA HeaderIsBlockTime ==
  ASSUME NEW h \in Header
  PROVE  IsBlockTime(h) /\ h.sec \in Nat /\ h.sub \in 0 .. Second - 1
BY GasClockAssumption, GasTimeAssumption DEF Header, IsBlockTime

\* gastime.New makes a clock.
LEMMA NewIsClock ==
  ASSUME NEW h \in Header, NEW target \in Targets, NEW x \in InitialExcess, NEW cfg \in Configs
  PROVE  IsClock(New(h.sec, h.sub, target, x, cfg))
<1> DEFINE t == At(h.sec, h.sub, Second)
           rate == RateOf(ClampTarget(target))
           u == SetTimeRate(t, rate)
           c == New(h.sec, h.sub, target, x, cfg)
<1>1. /\ ClampTarget(target) \in 1 .. MaxTarget /\ rate \in 1 .. MaxUint
  BY GasClockAssumption, ClampedRate
<1>2. h.sec \in Nat /\ h.sub \in 0 .. Second - 1 /\ Second \in Nat \ {0}
  BY HeaderIsBlockTime, GasTimeAssumption
<1>3. u.sec \in Nat /\ u.frac \in 0 .. rate - 1 /\ u.hertz = rate
  <2>1. Scale(t, t.frac, rate) \in 0 .. rate
    BY <1>1, <1>2, ScaledFraction DEF Scale, At
  <2> QED
    BY <1>1, <1>2, <2>1, IntMathAssumption DEF SetTimeRate, At
<1>4. c = [sec |-> u.sec, frac |-> u.frac, hertz |-> u.hertz, target |-> ClampTarget(target),
           excess |-> x, cfg |-> cfg]
  BY DEF New
<1> HIDE DEF u, c
<1>5. /\ DOMAIN c = Fields /\ c.sec = u.sec /\ c.frac = u.frac /\ c.hertz = u.hertz
      /\ c.target = ClampTarget(target) /\ c.excess = x /\ c.cfg = cfg
  BY <1>4 DEF Fields
<1>6. c.excess \in Word /\ c.cfg \in PriceConfig
  BY <1>5, GasClockAssumption DEF PriceConfig
<1>7. IsTime(c)
  BY <1>1, <1>3, <1>5 DEF IsTime, Fields
<1>8. IsClock(c)
  BY <1>1, <1>3, <1>5, <1>6, <1>7 DEF IsClock
<1> QED
  BY <1>8 DEF c

\* The clock starts with the invariant.
LEMMA InitClockInv ==
  ASSUME Init
  PROVE  ClockInv
<1>1. PICK h \in Header, target \in Targets, cfg \in Configs, x \in InitialExcess :
        /\ header = h
        /\ clock = New(h.sec, h.sub, target, x, cfg)
        /\ perTx = TimeOf(clock)
        /\ consumed = 0
        /\ inBlock = FALSE
  BY Zenon DEF Init
<1>2. IsClock(clock)
  BY Zenon, <1>1, NewIsClock
<1>3. IsTime(perTx)
  BY <1>1, <1>2 DEF IsClock, IsTime, TimeOf, At
<1>4. header \in Header /\ consumed \in Word /\ inBlock = FALSE
  BY <1>1, IntMathAssumption DEF Word
<1> QED
  BY Zenon, <1>2, <1>3, <1>4 DEF ClockInv

----------------------------------------------------------------------------
\* Steps

\* SubSecond rounds up by less than a unit.
LEMMA StartRounds ==
  ASSUME NEW h, IsBlockTime(h), NEW hertz \in 1 .. MaxUint
  PROVE  LET n == (h.sec * Second + h.sub) * hertz
             s == StartInstant(h, hertz)
         IN s \in Int /\ n <= s * Second /\ (s - 1) * Second < n
<1> DEFINE a == h.sub * hertz
           q == (a + Second - 1) \div Second
           f == SubSecond(h.sub, hertz)
           n == (h.sec * Second + h.sub) * hertz
           s == StartInstant(h, hertz)
<1>1. /\ h.sec \in Nat /\ h.sub \in 0 .. Second - 1 /\ Second \in Nat \ {0}
      /\ hertz \in Nat \ {0} /\ h.sub \in Nat /\ a \in Nat
  BY GasTimeAssumption, IntMathAssumption DEF IsBlockTime
<1>2. f \in 0 .. hertz /\ a <= f * Second
  BY <1>1, ScaledFraction DEF SubSecond
<1> HIDE DEF a
<1>3. a + Second - 1 \in Nat
  BY <1>1
<1>4. q \in Nat /\ q * Second <= a + Second - 1
  BY Zenon, <1>1, <1>3, QuotientBounds
<1>5. f = q
  <2>1. f # Overflow
    BY <1>2 DEF Overflow
  <2>2. f = Quotient(a + Second - 1, Second)
    BY Zenon DEF SubSecond, MulDivCeil, a
  <2> QED
    BY Zenon, <2>1, <2>2 DEF Quotient
<1> HIDE DEF q
<1>6. s = h.sec * hertz + f
  BY DEF StartInstant
<1> HIDE DEF f, s
<1>7. n = h.sec * Second * hertz + a
  BY <1>1 DEF a
<1>8. s * Second = h.sec * Second * hertz + f * Second
  BY <1>1, <1>2, <1>6
<1>9. (s - 1) * Second = s * Second - Second /\ s \in Int
  BY <1>1, <1>2, <1>6
<1> HIDE DEF n
<1>10. n \in Int /\ s * Second \in Int /\ f * Second \in Int /\ h.sec * Second * hertz \in Int
  BY <1>1, <1>2, <1>7, <1>9
<1> DEFINE m == h.sec * Second * hertz
           z == f * Second
           y == s * Second
<1> HIDE DEF m, z, y
<1>11. n = m + a /\ y = m + z /\ a <= z /\ z <= a + Second - 1
  BY <1>2, <1>4, <1>5, <1>7, <1>8 DEF m, z, y
<1>12. n \in Int /\ y \in Int /\ z \in Int /\ m \in Int
  BY <1>10 DEF m, z, y
<1>13. n <= y /\ y - Second < n
  BY <1>1, <1>11, <1>12
<1>14. n <= s * Second /\ (s - 1) * Second < n
  BY <1>9, <1>13 DEF y
<1> QED
  BY <1>9, <1>14 DEF n, s

\* Execute starts a block: BeforeBlock, and a copy of the clock for the transactions.
LEMMA StartBlockStep ==
  ASSUME ClockInv, StartBlock
  PROVE  ClockInv' /\ NotAfter(clock, clock') /\ ExactStart
<1>1. PICK h \in Header : header' = h /\ clock' = BeforeBlock(clock, h)
  BY Zenon DEF StartBlock
<1> DEFINE v == clock'
           start == StartInstant(h, clock.hertz)
           n == (h.sec * Second + h.sub) * clock.hertz
<1>2. IsClock(clock) /\ IsBlockTime(h)
  BY Zenon, HeaderIsBlockTime DEF ClockInv
<1>3. /\ IsClock(v) /\ v.target = clock.target /\ v.hertz = clock.hertz
      /\ start \in Nat /\ Instant(v) = Larger(start, Instant(clock))
      /\ start <= Instant(clock) => v.sec = clock.sec /\ v.frac = clock.frac
      /\ v.excess = ExcessAfter(clock, Instant(v) - Instant(clock))
  BY Zenon, <1>1, <1>2, BeforeBlockIsExact
<1>4. /\ clock.hertz \in 1 .. MaxUint /\ clock.hertz \in Nat /\ Instant(clock) \in Nat
      /\ Instant(v) \in Nat /\ clock.target \in Nat /\ clock.excess \in Nat
  BY <1>2, <1>3, ClockNumbers
<1>5. start \in Int /\ n <= start * Second /\ (start - 1) * Second < n
  BY Zenon, <1>2, <1>4, StartRounds
<1>6. h.sec \in Nat /\ h.sub \in Nat /\ Second \in Nat \ {0} /\ n \in Nat
  BY <1>4, HeaderIsBlockTime, GasTimeAssumption
<1>7. /\ clock.sec \in Nat /\ clock.frac \in Nat /\ v.sec \in Nat /\ v.frac \in Nat
      /\ Instant(clock) = clock.sec * clock.hertz + clock.frac
      /\ Instant(v) = v.sec * v.hertz + v.frac
  BY <1>2, <1>3, IntMathAssumption DEF IsClock, IsTime, Instant
<1> HIDE DEF start, n
<1>8. start <= Instant(v) /\ Instant(clock) <= Instant(v)
  BY <1>3, <1>4 DEF Larger
<1>9. Instant(v) * Second >= n
  <2>1. start * Second <= Instant(v) * Second
    BY <1>3, <1>4, <1>6, <1>8, ProductsOrdered
  <2>2. start * Second \in Int /\ Instant(v) * Second \in Int
    BY <1>3, <1>4, <1>6
  <2> QED
    BY <1>5, <1>6, <2>1, <2>2
<1>10. ASSUME TimeOf(v) # TimeOf(clock)
       PROVE  (Instant(v) - 1) * Second < n
  <2>1. ~ (v.sec = clock.sec /\ v.frac = clock.frac)
    BY <1>3, <1>10 DEF TimeOf
  <2>2. Instant(v) = start
    BY <1>3, <1>4, <2>1 DEF Larger
  <2> QED
    BY <1>5, <2>2
<1>11. /\ Instant(v) - Instant(clock)
            = (v.sec - clock.sec) * clock.hertz + v.frac - clock.frac
       /\ Instant(v) - Instant(clock) \in Nat
  BY <1>3, <1>4, <1>7, <1>8
<1>12. ExactStart
  <2> DEFINE skipped == (v.sec - clock.sec) * clock.hertz + v.frac - clock.frac
             rest == clock.excess - (skipped * clock.target) \div clock.hertz
  <2>1. v.excess = Larger(rest, 0)
    BY Zenon, <1>3, <1>11 DEF ExcessAfter
  <2>2. skipped * clock.target \in Nat /\ clock.hertz \in Nat \ {0}
    BY <1>4, <1>11
  <2>3. (skipped * clock.target) \div clock.hertz \in Nat
    BY Zenon, <2>2, QuotientBounds
  <2>4. rest \in Int
    BY <1>4, <2>3
  <2> HIDE DEF rest
  <2>5. v.excess = IF rest < 0 THEN 0 ELSE rest
    BY <2>1, <2>4 DEF Larger
  <2>6. Instant(v) * Second >= (header'.sec * Second + header'.sub) * v.hertz
    BY Zenon, <1>1, <1>3, <1>9 DEF n
  <2>7. TimeOf(v) # TimeOf(clock) =>
          (Instant(v) - 1) * Second < (header'.sec * Second + header'.sub) * v.hertz
    BY Zenon, <1>1, <1>3, <1>10 DEF n
  <2> QED
    BY Zenon, <2>5, <2>6, <2>7 DEF ExactStart, rest, Instant
<1>13. perTx' = TimeOf(clock') /\ consumed' = 0 /\ inBlock' = TRUE
  BY DEF StartBlock
<1>14. IsTime(perTx') /\ perTx'.hertz = clock'.hertz /\ Instant(perTx') = Instant(clock') + 0
  BY <1>3, <1>4, <1>13 DEF IsClock, IsTime, TimeOf, At, Instant
<1>15. NotAfter(clock, clock')
  BY <1>2, <1>3, <1>8, InstantOrder DEF IsClock
<1>16. consumed' \in Word
  BY <1>13, IntMathAssumption DEF Word
<1> QED
  BY Zenon, <1>1, <1>3, <1>12, <1>13, <1>14, <1>15, <1>16 DEF ClockInv

\* A transaction ticks the clock of the transactions.
LEMMA RunTxStep ==
  ASSUME ClockInv, RunTx
  PROVE  ClockInv' /\ clock' = clock
<1>1. PICK g \in 1 .. MaxUint :
        perTx' = TickTime(perTx, g) /\ consumed' = consumed + g /\ consumed + g <= MaxUint
  BY Zenon DEF RunTx
<1>2. inBlock /\ UNCHANGED <<clock, header, inBlock>>
  BY DEF RunTx
<1>3. g \in Nat /\ consumed \in Nat /\ consumed' \in Word
  BY <1>1, IntMathAssumption DEF ClockInv, Word
<1>4. IsTime(perTx') /\ perTx'.hertz = perTx.hertz /\ Instant(perTx') = Instant(perTx) + g
  BY Zenon, <1>1, <1>3, TickIsExact DEF ClockInv
<1>5. Instant(clock) \in Nat /\ Instant(clock') = Instant(clock) /\ IsClock(clock)
  BY <1>2, ClockNumbers DEF ClockInv, Instant
<1>6. Instant(perTx') = Instant(clock') + consumed' /\ perTx'.hertz = clock'.hertz
  BY <1>1, <1>2, <1>3, <1>4, <1>5 DEF ClockInv
<1>7. IsClock(clock') /\ header' \in Header /\ inBlock' \in BOOLEAN
  BY Zenon, <1>2, <1>5 DEF ClockInv
<1> QED
  BY Zenon, <1>2, <1>3, <1>4, <1>6, <1>7 DEF ClockInv

\* The new excess is the least that keeps the price.
LEMMA ExcessKeepsPrice ==
  ASSUME ClockInv, clock'.cfg # clock.cfg, NEW h, h.target \in Nat, h.cfg \in PriceConfig,
         clock' = AfterBlock(clock, consumed, h)
  PROVE  PriceKept
<1> DEFINE v == clock'
           w == SetTarget(Tick(clock, consumed), h.target)
           z == [w EXCEPT !.cfg = h.cfg]
           p == Price(Tick(clock, consumed))
           k == ExcessScalingFactor(z)
           PriceAt(x) == Price([v EXCEPT !.excess = x])
           At2(x) == CalculatePrice(v.cfg.min, x, k)
           e == v.excess
<1>1. IsClock(clock) /\ consumed \in Word
  BY Zenon DEF ClockInv
<1>2. IsClock(Tick(clock, consumed))
  BY <1>1, TickIsClock
<1>3. p \in Nat
  BY Zenon, <1>2, PriceIsWord
<1>4. IsClock(w) /\ w.target = ClampTarget(h.target)
  BY <1>2, SetTargetIsClock
<1>5. /\ IsClock(v) /\ v.target = ClampTarget(h.target) /\ v.cfg = h.cfg
      /\ h.cfg # clock.cfg => e = FindExcessForPrice(z, p)
  BY <1>1, AfterBlockIsClock
<1> HIDE DEF w
<1>6. z.target = v.target /\ z.cfg = v.cfg
  BY <1>4, <1>5 DEF IsClock, Fields
<1>7. z.target \in 1 .. MaxTarget /\ z.cfg \in PriceConfig
  BY Zenon, <1>5, <1>6 DEF IsClock
<1>8. e = FindExcessForPrice(z, p)
  BY Zenon, <1>5
<1> HIDE DEF z, p
<1>9. IsLeastExcess(v.cfg, k, p, e)
  BY Zenon, <1>3, <1>6, <1>7, <1>8, ExcessForPrice
<1>10. ExcessScalingFactor(v) = k
  BY Zenon, <1>6 DEF ExcessScalingFactor
<1>11. e \in Nat /\ e <= MaxUint /\ MaxUint \in Nat
  BY <1>5, ClockNumbers
<1>12. ASSUME ~ v.cfg.static, NEW x
       PROVE  PriceAt(x) = At2(x)
  <2> DEFINE y == [v EXCEPT !.excess = x]
  <2>1. y.cfg = v.cfg /\ y.target = v.target /\ y.excess = x
    BY <1>5 DEF IsClock, Fields
  <2> HIDE DEF y
  <2>2. ExcessScalingFactor(y) = k
    BY Zenon, <1>10, <2>1 DEF ExcessScalingFactor
  <2>3. Price(y) = At2(x)
    BY Zenon, <1>12, <2>1, <2>2 DEF Price
  <2> QED
    BY <2>3 DEF y
<1> HIDE DEF PriceAt, k
<1>13. CASE v.cfg.static
  BY Zenon, <1>9, <1>13 DEF IsLeastExcess, PriceKept
<1>14. CASE ~ v.cfg.static
  <2>1. \A x \in 0 .. e - 1 : PriceAt(x) < p
    BY Zenon, <1>9, <1>12, <1>14 DEF IsLeastExcess
  <2>2. PriceAt(e) \in Nat
    <3>1. Price(v) = At2(e)
      BY Zenon, <1>10, <1>14 DEF Price
    <3>2. PriceAt(e) = Price(v)
      BY Zenon, <1>12, <1>14, <3>1
    <3> QED
      BY Zenon, <1>5, <3>2, PriceIsWord
  <2>3. e = MaxUint \/ PriceAt(e) >= p
    BY Zenon, <1>9, <1>12, <1>14 DEF IsLeastExcess
  <2> HIDE DEF e
  <2>4. CASE PriceAt(e) >= p
    BY Zenon, <1>14, <2>1, <2>4 DEF PriceKept, PriceAt, e, p
  <2>5. CASE ~ (PriceAt(e) >= p)
    <3>1. e = MaxUint /\ PriceAt(e) < p
      BY <1>3, <2>2, <2>3, <2>5
    <3>2. \A x \in Word : x = e \/ x \in 0 .. e - 1
      BY <1>11, <3>1 DEF Word
    <3>3. \A x \in Word : PriceAt(x) < p
      BY Zenon, <2>1, <3>1, <3>2
    <3> QED
      BY Zenon, <3>1, <3>3 DEF PriceKept, PriceAt, e, p
  <2> QED
    BY <2>4, <2>5
<1> QED
  BY <1>13, <1>14

\* Execute ends a block: the clock catches up with the transactions, and may change
\* its rate.
LEMMA FinishBlockStep ==
  ASSUME ClockInv, FinishBlock
  PROVE  /\ ClockInv' /\ NotAfter(clock, clock') /\ NotAfter(perTx, clock')
         /\ clock'.cfg # clock.cfg => PriceKept
<1>1. PICK target \in Targets, cfg \in Configs :
        clock' = AfterBlock(clock, consumed, [target |-> target, cfg |-> cfg])
  BY Zenon DEF FinishBlock
<1>2. inBlock /\ inBlock' = FALSE /\ UNCHANGED <<perTx, header, consumed>>
  BY DEF FinishBlock
<1> DEFINE k == Tick(clock, consumed)
           h == [target |-> target, cfg |-> cfg]
<1>3. IsClock(clock) /\ consumed \in Word /\ consumed \in Nat /\ IsTime(perTx)
  BY IntMathAssumption DEF ClockInv, Word
<1>4. IsClock(k) /\ k.hertz = clock.hertz /\ Instant(k) = Instant(clock) + consumed
  BY <1>3, TickIsClock
<1>5. h.target \in Nat /\ h.cfg \in PriceConfig
  BY GasClockAssumption DEF PriceConfig
<1> HIDE DEF h, k
<1>6. IsClock(clock') /\ NotAfter(k, clock')
  BY Zenon, <1>1, <1>3, <1>5, AfterBlockIsClock DEF h, k
<1>7. Instant(clock) \in Nat /\ IsTime(k) /\ IsTime(clock) /\ IsTime(clock')
  BY Zenon, <1>3, <1>4, <1>6, ClockNumbers DEF IsClock
<1>8. NotAfter(clock, k) /\ NotAfter(perTx, k)
  <2>1. Instant(clock) <= Instant(k) /\ Instant(perTx) <= Instant(k) /\ perTx.hertz = k.hertz
    BY <1>2, <1>3, <1>4, <1>7 DEF ClockInv
  <2> QED
    BY Zenon, <1>3, <1>4, <1>7, <2>1, InstantOrder
<1>9. NotAfter(clock, clock') /\ NotAfter(perTx, clock')
  <2>1. perTx.hertz = k.hertz
    BY <1>2, <1>4 DEF ClockInv
  <2> QED
    BY Zenon, <1>3, <1>4, <1>6, <1>7, <1>8, <2>1, OrderComposes
<1>10. clock'.cfg # clock.cfg => PriceKept
  BY Zenon, <1>1, <1>5, ExcessKeepsPrice DEF h
<1>11. IsTime(perTx') /\ header' \in Header /\ consumed' \in Word
  BY <1>2 DEF ClockInv
<1> QED
  BY Zenon, <1>2, <1>6, <1>9, <1>10, <1>11 DEF ClockInv

\* What every step preserves and does.
LEMMA ClockStep ==
  ASSUME ClockInv, [Next]_vars
  PROVE  /\ ClockInv'
         /\ [/\ NotAfter(clock, clock')
             /\ inBlock /\ ~ inBlock' => NotAfter(perTx, clock')]_vars
         /\ [~ inBlock /\ inBlock' => ExactStart]_vars
         /\ [inBlock /\ ~ inBlock' /\ clock'.cfg # clock.cfg => PriceKept]_vars
<1>1. CASE StartBlock
  <2>1. ~ inBlock
    BY <1>1 DEF StartBlock
  <2> QED
    BY Zenon, <1>1, <2>1, StartBlockStep
<1>2. CASE RunTx
  <2>1. inBlock' = inBlock
    BY <1>2 DEF RunTx
  <2>2. NotAfter(clock, clock)
    BY DEF ClockInv, IsClock, IsTime, NotAfter
  <2> QED
    BY Zenon, <1>2, <2>1, <2>2, RunTxStep
<1>3. CASE FinishBlock
  <2>1. inBlock /\ inBlock' = FALSE
    BY <1>3 DEF FinishBlock
  <2> QED
    BY Zenon, <1>3, <2>1, FinishBlockStep
<1>4. CASE UNCHANGED vars
  BY <1>4 DEF vars, ClockInv, IsClock, IsTime, Instant
<1> QED
  BY Zenon, <1>1, <1>2, <1>3, <1>4 DEF Next

----------------------------------------------------------------------------
\* The invariant of the clock.
THEOREM ClockInvariant == Spec => []ClockInv
<1>1. Init => ClockInv
  BY Zenon, InitClockInv
<1>2. ClockInv /\ [Next]_vars => ClockInv'
  BY Zenon, ClockStep
<1> QED
  BY <1>1, <1>2, PTL DEF Spec

\* Rates stay twice a target that clampTarget bounds, fractions stay below their rates,
\* and the excess never leaves the range of a word, whatever hooks return.
THEOREM ClockWellFormed == Spec => []TypeOK
<1>1. ClockInv => TypeOK
  <2> SUFFICES ASSUME ClockInv PROVE TypeOK
    OBVIOUS
  <2>1. /\ clock.target \in 1 .. MaxTarget /\ clock.hertz = RateOf(clock.target)
        /\ clock.excess \in Word /\ consumed \in Word
    BY Zenon DEF ClockInv, IsClock
  <2>2. /\ clock.sec \in Nat /\ clock.frac \in 0 .. clock.hertz - 1
        /\ perTx.frac \in 0 .. perTx.hertz - 1
    BY Zenon DEF ClockInv, IsClock, IsTime
  <2> QED
    BY Zenon, <2>1, <2>2 DEF TypeOK
<1> QED
  BY <1>1, ClockInvariant, PTL

\* Instants never go back, whatever blocks consume and whatever their hooks make of
\* the gas target and the price ("Rounding up instead of down achieves monotonicity",
\* proxytime.Time.SetRate), and no transaction ends after its block.
THEOREM ClockNeverGoesBack == Spec => ClockMonotone
<1>1. ClockInv /\ [Next]_vars =>
        [/\ NotAfter(clock, clock')
         /\ inBlock /\ ~ inBlock' => NotAfter(perTx, clock')]_vars
  BY Zenon, ClockStep
<1> QED
  BY <1>1, ClockInvariant, PTL DEF Spec, ClockMonotone

\* A block starts at the first unit of the clock's rate that is not before the instant
\* of its header, or where the last one ended, and the excess falls by exactly what
\* ACP-176 asks for, at every rate and every header (BeforeBlock, FastForwardTo): the
\* execution of a block that is too recent for LastToSettleAt can only end later still.
THEOREM BlocksStartExactly == Spec => StartIsExact
<1>1. ClockInv /\ [Next]_vars => [~ inBlock /\ inBlock' => ExactStart]_vars
  BY Zenon, ClockStep
<1> QED
  BY <1>1, ClockInvariant, PTL DEF Spec, StartIsExact

\* Whatever the hooks change of the target and of the price configuration, the block that
\* follows starts from the price that the last one ended with, or from the nearest that
\* the configuration has (AfterBlock, findExcessForPrice).
THEOREM PriceIsContinuous == Spec => PriceContinues
<1>1. ClockInv /\ [Next]_vars =>
        [inBlock /\ ~ inBlock' /\ clock'.cfg # clock.cfg => PriceKept]_vars
  BY Zenon, ClockStep
<1> QED
  BY <1>1, ClockInvariant, PTL DEF Spec, PriceContinues
=============================================================================
