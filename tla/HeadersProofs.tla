--------------------------- MODULE HeadersProofs ---------------------------
(***************************************************************************)
(* What holds of every chain of headers, however long: by induction on the *)
(* height, the gas times at which its blocks are due and which block each  *)
(* of them settles.                                                        *)
(***************************************************************************)
EXTENDS Headers, WellFoundedInduction, TLAPS

----------------------------------------------------------------------------
\* Induction, for a predicate given as a set

\* A set of naturals that is not empty has a least element.
LEMMA LeastNatural ==
  ASSUME NEW T \in SUBSET Nat, NEW k \in T
  PROVE  \E x \in T : \A y \in T : x <= y
<1> DEFINE R == OpToRel(<, Nat)
<1>1. IsWellFoundedOn(R, Nat)
  BY Zenon, NatLessThanWellFounded
<1> HIDE DEF R
<1>2. PICK x \in T : \A y \in T : ~ (<<y, x>> \in R)
  BY Zenon, <1>1, WFMin
<1>3. \A y \in T : ~ (y < x)
  BY Zenon, <1>2 DEF R, OpToRel
<1> QED
  BY <1>3

\* A set that holds 0, and n + 1 with every n, holds all naturals.
LEMMA SetInduction ==
  ASSUME NEW S, 0 \in S, \A n \in Nat : n \in S => n + 1 \in S
  PROVE  \A n \in Nat : n \in S
<1> DEFINE T == Nat \ S
<1> SUFFICES ASSUME T # {} PROVE FALSE
  OBVIOUS
<1>1. PICK x \in T : \A y \in T : x <= y
  BY Zenon, LeastNatural
<1>2. x # 0 /\ x - 1 \in Nat
  BY <1>1
<1>3. x - 1 \in S
  BY <1>1, <1>2
<1> QED
  BY <1>1, <1>2, <1>3

\* A set of naturals below a bound that is not empty has a greatest element.
LEMMA GreatestNatural ==
  ASSUME NEW n \in Nat, NEW T \in SUBSET (0 .. n), NEW k \in T
  PROVE  \E x \in T : \A y \in T : y <= x
<1> DEFINE D == {n - x : x \in T}
<1>1. D \in SUBSET Nat /\ n - k \in D
  OBVIOUS
<1> HIDE DEF D
<1>2. PICK d \in D : \A y \in D : d <= y
  BY <1>1, LeastNatural
<1>3. PICK x \in T : d = n - x
  BY <1>2 DEF D
<1>4. \A y \in T : n - y \in D
  BY DEF D
<1>5. \A y \in T : d <= n - y
  BY <1>2, <1>4
<1> QED
  BY <1>3, <1>5

----------------------------------------------------------------------------
\* Gas times

DueStep(c, g, h) ==
  IF h = 0 THEN GenesisTime
  ELSE (IF g[h - 1] >= c[h].time THEN g[h - 1] ELSE c[h].time) + c[h].gas
IsDue(c, g, n) == g = [h \in 0 .. n |-> DueStep(c, g, h)]

\* The recursion of DueAt defines a function.
LEMMA DueExists ==
  ASSUME NEW c, NEW n \in Nat
  PROVE  \E g : IsDue(c, g, n)
<1> DEFINE S == {k \in Nat : \E g : IsDue(c, g, k)}
<1>1. 0 \in S
  <2> DEFINE g == [h \in 0 .. 0 |-> GenesisTime]
  <2>1. g = [h \in 0 .. 0 |-> DueStep(c, g, h)]
    BY DEF DueStep
  <2>2. IsDue(c, g, 0)
    BY Zenon, <2>1 DEF IsDue
  <2> HIDE DEF g
  <2> QED
    BY <2>2
<1>2. ASSUME NEW k \in Nat, k \in S
      PROVE  k + 1 \in S
  <2>1. PICK g : IsDue(c, g, k)
    BY <1>2
  <2> DEFINE f == [h \in 0 .. k + 1 |-> IF h = k + 1 THEN DueStep(c, g, k + 1) ELSE g[h]]
  <2>2. \A h \in 0 .. k : g[h] = DueStep(c, g, h)
    BY <2>1 DEF IsDue
  <2>3. \A h \in 0 .. k + 1 : DueStep(c, f, h) = DueStep(c, g, h)
    BY DEF DueStep
  <2>4. f = [h \in 0 .. k + 1 |-> DueStep(c, f, h)]
    BY <2>2, <2>3
  <2>5. IsDue(c, f, k + 1)
    BY <2>4 DEF IsDue
  <2> HIDE DEF f
  <2> QED
    BY <2>5
<1>3. n \in S
  <2> HIDE DEF S
  <2> QED
    BY <1>1, <1>2, SetInduction
<1> QED
  BY <1>3

\* DueAt is what its recursion says: execution of a block ends its gas after the
\* later of its own time and the end of its parent.
LEMMA DueAtDef ==
  ASSUME NEW c, Len(c) \in Nat
  PROVE  /\ DueAt(c)[0] = GenesisTime
         /\ \A h \in 1 .. Len(c) : DueAt(c)[h] = DueStep(c, DueAt(c), h)
<1>1. \E g : IsDue(c, g, Len(c))
  BY DueExists
<1>2. DueAt(c) = CHOOSE g : IsDue(c, g, Len(c))
  BY DEF DueAt, IsDue, DueStep
<1>3. IsDue(c, DueAt(c), Len(c))
  BY Zenon, <1>1, <1>2
<1> QED
  BY <1>3 DEF IsDue, DueStep

\* Any other times that follow the recursion up to some height are the same.
LEMMA DueAtUnique ==
  ASSUME NEW c, Len(c) \in Nat, NEW g, NEW n \in Nat, n <= Len(c),
         g[0] = GenesisTime,
         \A h \in 1 .. n : g[h] = DueStep(c, g, h)
  PROVE  \A h \in 0 .. n : DueAt(c)[h] = g[h]
<1> DEFINE S == {h \in Nat : h <= n => DueAt(c)[h] = g[h]}
<1>1. 0 \in S
  BY DueAtDef
<1>2. ASSUME NEW h \in Nat, h \in S
      PROVE  h + 1 \in S
  <2> SUFFICES ASSUME h + 1 <= n PROVE DueAt(c)[h + 1] = g[h + 1]
    OBVIOUS
  <2>1. DueAt(c)[h] = g[h]
    BY <1>2
  <2>2. h + 1 \in 1 .. n /\ h + 1 \in 1 .. Len(c) /\ h + 1 # 0 /\ (h + 1) - 1 = h
    OBVIOUS
  <2>3. DueStep(c, DueAt(c), h + 1) = DueStep(c, g, h + 1)
    BY <2>1, <2>2 DEF DueStep
  <2> QED
    BY <2>2, <2>3, DueAtDef
<1>3. \A h \in Nat : h \in S
  <2> HIDE DEF S
  <2> QED
    BY <1>1, <1>2, SetInduction
<1> QED
  BY <1>3

\* The times in a chain, and its gas, are numbers.
Numeric(c) ==
  Len(c) \in Nat /\ \A h \in 1 .. Len(c) : c[h].time \in Nat /\ c[h].gas \in Nat

\* Gas times are numbers; they do not precede the block's own time, and do not
\* decrease from one block to the next.
LEMMA DueAtNat ==
  ASSUME NEW c, Numeric(c)
  PROVE  /\ \A h \in 0 .. Len(c) : DueAt(c)[h] \in Nat
         /\ \A h \in 1 .. Len(c) : /\ DueAt(c)[h - 1] <= DueAt(c)[h]
                                   /\ c[h].time <= DueAt(c)[h]
<1> DEFINE S == {h \in Nat : h <= Len(c) => DueAt(c)[h] \in Nat}
<1>0. Len(c) \in Nat
  BY DEF Numeric
<1>1. 0 \in S
  BY <1>0, DueAtDef, HeadersAssumption
<1>2. ASSUME NEW h \in Nat, h \in S
      PROVE  h + 1 \in S
  <2> SUFFICES ASSUME h + 1 <= Len(c) PROVE DueAt(c)[h + 1] \in Nat
    OBVIOUS
  <2>1. DueAt(c)[h] \in Nat
    BY <1>0, <1>2
  <2>2. h + 1 \in 1 .. Len(c) /\ h + 1 # 0 /\ (h + 1) - 1 = h
    BY <1>0
  <2>3. DueAt(c)[h + 1] = DueStep(c, DueAt(c), h + 1)
    BY <1>0, <2>2, DueAtDef
  <2> QED
    BY <2>1, <2>2, <2>3 DEF DueStep, Numeric
<1>3. \A h \in Nat : h \in S
  <2> HIDE DEF S
  <2> QED
    BY <1>1, <1>2, SetInduction
<1>4. \A h \in 0 .. Len(c) : DueAt(c)[h] \in Nat
  BY <1>0, <1>3
<1>5. ASSUME NEW h \in 1 .. Len(c)
      PROVE  DueAt(c)[h - 1] <= DueAt(c)[h] /\ c[h].time <= DueAt(c)[h]
  <2>1. DueAt(c)[h] = DueStep(c, DueAt(c), h)
    BY <1>0, DueAtDef
  <2>2. DueAt(c)[h - 1] \in Nat
    BY <1>0, <1>4
  <2> QED
    BY <1>0, <2>1, <2>2 DEF DueStep, Numeric
<1> QED
  BY <1>4, <1>5

\* Gas times do not decrease along a chain.
LEMMA DueAtMonotone ==
  ASSUME NEW c, Numeric(c), NEW i \in 0 .. Len(c)
  PROVE  \A j \in i .. Len(c) : DueAt(c)[i] <= DueAt(c)[j]
<1> DEFINE S == {k \in Nat : i + k <= Len(c) => DueAt(c)[i] <= DueAt(c)[i + k]}
<1>0. Len(c) \in Nat
  BY DEF Numeric
<1>1. 0 \in S
  BY <1>0, DueAtNat
<1>2. ASSUME NEW k \in Nat, k \in S
      PROVE  k + 1 \in S
  <2> SUFFICES ASSUME i + (k + 1) <= Len(c) PROVE DueAt(c)[i] <= DueAt(c)[i + (k + 1)]
    OBVIOUS
  <2>1. DueAt(c)[i] <= DueAt(c)[i + k]
    BY <1>0, <1>2
  <2>2. i + (k + 1) \in 1 .. Len(c) /\ (i + (k + 1)) - 1 = i + k /\ i + k \in 0 .. Len(c)
    BY <1>0
  <2>3. DueAt(c)[i + k] <= DueAt(c)[i + (k + 1)]
    BY <2>2, DueAtNat
  <2> QED
    BY <2>1, <2>2, <2>3, DueAtNat
<1>3. \A k \in Nat : k \in S
  <2> HIDE DEF S
  <2> QED
    BY <1>1, <1>2, SetInduction
<1>4. ASSUME NEW j \in i .. Len(c)
      PROVE  DueAt(c)[i] <= DueAt(c)[j]
  <2>1. j - i \in Nat /\ i + (j - i) = j /\ j <= Len(c)
    BY <1>0
  <2> QED
    BY <1>3, <2>1
<1> QED
  BY <1>4

\* Two chains with the same blocks up to some height.
SameUpTo(c, e, n) ==
  /\ Len(c) \in Nat /\ Len(e) \in Nat /\ n \in Nat /\ n <= Len(c) /\ n <= Len(e)
  /\ \A h \in 1 .. n : c[h] = e[h]

\* Their gas times agree that far: a gas time is a function of the ancestry.
LEMMA DueAtPrefix ==
  ASSUME NEW c, NEW e, NEW n, SameUpTo(c, e, n)
  PROVE  \A h \in 0 .. n : DueAt(c)[h] = DueAt(e)[h]
<1> USE DEF SameUpTo
<1>1. DueAt(e)[0] = GenesisTime /\ \A h \in 1 .. n : DueAt(e)[h] = DueStep(e, DueAt(e), h)
  BY DueAtDef
<1>2. \A h \in 1 .. n : DueStep(e, DueAt(e), h) = DueStep(c, DueAt(e), h)
  BY DEF DueStep
<1>3. \A h \in 1 .. n : DueAt(e)[h] = DueStep(c, DueAt(e), h)
  BY <1>1, <1>2
<1> QED
  BY <1>1, <1>3, DueAtUnique

----------------------------------------------------------------------------
\* Settlement

\* At most one block is the last that is due.
LEMMA SettledByUnique ==
  ASSUME NEW c, Numeric(c), NEW h \in 1 .. Len(c),
         NEW s, SettledBy(c, h, s), NEW t, SettledBy(c, h, t)
  PROVE  s = t
<1>0. Len(c) \in Nat /\ c[h].time - Tau \in Int
  BY HeadersAssumption DEF Numeric
<1>1. s \in 0 .. h - 1 /\ t \in 0 .. h - 1
  BY DEF SettledBy
<1>2. DueAt(c)[s] \in Nat /\ DueAt(c)[t] \in Nat
  BY <1>0, <1>1, DueAtNat
<1> QED
  BY <1>0, <1>1, <1>2 DEF SettledBy

\* Every block settles one below it: SettledHeight is defined.
LEMMA SettledHeightDef ==
  ASSUME NEW c, Numeric(c), NEW h \in 1 .. Len(c)
  PROVE  SettledHeight(c, h) \in 0 .. h - 1 /\ SettledBy(c, h, SettledHeight(c, h))
<1> DEFINE t == c[h].time - Tau
           T == {s \in 0 .. h - 1 : s = 0 \/ DueAt(c)[s] <= t}
<1>0. Len(c) \in Nat /\ t \in Int /\ h \in Nat /\ h # 0 /\ h - 1 \in Nat
  BY HeadersAssumption DEF Numeric
<1>1. T \in SUBSET (0 .. h - 1) /\ 0 \in T
  BY <1>0
<1>2. PICK s \in T : \A y \in T : y <= s
  BY Zenon, <1>0, <1>1, GreatestNatural
<1>3. \A x \in s + 1 .. h - 1 : DueAt(c)[x] > t
  <2> TAKE x \in s + 1 .. h - 1
  <2>1. x \in 0 .. h - 1 /\ x # 0 /\ ~ (x <= s) /\ x \in 0 .. Len(c)
    BY <1>0, <1>1, <1>2
  <2>2. ~ (DueAt(c)[x] <= t) /\ DueAt(c)[x] \in Nat
    BY <1>2, <2>1, DueAtNat
  <2> QED
    BY <1>0, <2>2
<1>4. s \in 0 .. h - 1 /\ SettledBy(c, h, s)
  BY <1>2, <1>3 DEF SettledBy
<1>5. SettledHeight(c, h) = CHOOSE x \in 0 .. h - 1 : SettledBy(c, h, x)
  BY <1>0 DEF SettledHeight
<1> QED
  BY Zenon, <1>4, <1>5

\* What a block settles is determined by its ancestry.
LEMMA SettledHeightIs ==
  ASSUME NEW c, Numeric(c), NEW h \in 1 .. Len(c), NEW s, SettledBy(c, h, s)
  PROVE  SettledHeight(c, h) = s
BY SettledHeightDef, SettledByUnique

LEMMA SettledHeightPrefix ==
  ASSUME NEW c, NEW e, NEW n, Numeric(c), Numeric(e), SameUpTo(c, e, n)
  PROVE  \A h \in 0 .. n : SettledHeight(c, h) = SettledHeight(e, h)
<1> TAKE h \in 0 .. n
<1>0. n \in Nat /\ n <= Len(c) /\ n <= Len(e) /\ Len(c) \in Nat /\ Len(e) \in Nat
  BY DEF SameUpTo
<1>1. CASE h = 0
  BY <1>1 DEF SettledHeight
<1>2. CASE h # 0
  <2>1. h \in 1 .. n /\ h \in 1 .. Len(c) /\ h \in 1 .. Len(e)
    BY <1>0, <1>2
  <2>2. c[h] = e[h] /\ \A x \in 0 .. h - 1 : DueAt(c)[x] = DueAt(e)[x]
    BY <1>0, <2>1, DueAtPrefix DEF SameUpTo
  <2>3. SettledHeight(c, h) \in 0 .. h - 1 /\ SettledBy(c, h, SettledHeight(c, h))
    BY <2>1, SettledHeightDef
  <2>4. SettledBy(e, h, SettledHeight(c, h))
    BY <2>1, <2>2, <2>3 DEF SettledBy
  <2> QED
    BY <2>1, <2>4, SettledHeightIs
<1> QED
  BY <1>1, <1>2

\* A block settles at least what an earlier block settles, if block times do not
\* decrease.
LEMMA SettledHeightMonotone ==
  ASSUME NEW c, Numeric(c), NEW i \in 0 .. Len(c), NEW j \in i .. Len(c),
         i = 0 \/ c[i].time <= c[j].time
  PROVE  SettledHeight(c, i) <= SettledHeight(c, j)
<1>0. Len(c) \in Nat /\ i \in Nat /\ j \in Nat
  BY DEF Numeric
<1>1. CASE i = 0
  <2>1. SettledHeight(c, i) = 0
    BY <1>1 DEF SettledHeight
  <2>2. CASE j = 0
    BY <1>1, <2>1, <2>2
  <2>3. CASE j # 0
    BY <1>0, <2>1, <2>3, SettledHeightDef
  <2> QED
    BY <2>2, <2>3
<1>2. CASE i # 0
  <2> DEFINE s == SettledHeight(c, i)
             t == SettledHeight(c, j)
  <2>1. i \in 1 .. Len(c) /\ j \in 1 .. Len(c) /\ c[i].time <= c[j].time
    BY <1>0, <1>2
  <2>2. s \in 0 .. i - 1 /\ SettledBy(c, i, s) /\ t \in 0 .. j - 1 /\ SettledBy(c, j, t)
    BY <2>1, SettledHeightDef
  <2>3. DueAt(c)[s] \in Nat /\ c[i].time \in Nat /\ c[j].time \in Nat
    BY <1>0, <2>1, <2>2, DueAtNat DEF Numeric
  <2> HIDE DEF s, t
  <2>4. /\ s = 0 \/ DueAt(c)[s] <= c[i].time - Tau
        /\ s \in t + 1 .. j - 1 => DueAt(c)[s] > c[j].time - Tau
    BY <2>2 DEF SettledBy
  <2>5. s <= t
    BY <1>0, <2>1, <2>2, <2>3, <2>4, HeadersAssumption
  <2> QED
    BY <2>5 DEF s, t
<1> QED
  BY <1>1, <1>2
=============================================================================
