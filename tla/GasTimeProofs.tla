--------------------------- MODULE GasTimeProofs ---------------------------
(***************************************************************************)
(* What the operators of GasTime compute, for every width of words and     *)
(* every length of a second: prices grow with the excess, the search for   *)
(* the excess of a price finds the least one, and BeforeBlock and          *)
(* AfterBlock move the clock and its excess by the exact amounts.          *)
(*                                                                         *)
(* The series of CalculatePrice and the binary search are recursive        *)
(* functions.  That they exist, and what they return, is proved by         *)
(* induction over a measure that every step of the recursion lowers.       *)
(***************************************************************************)
EXTENDS GasTime, WellFoundedInduction, TLAPS

----------------------------------------------------------------------------
\* Arithmetic

\* Division gives the quotient and the remainder.
LEMMA Division ==
  ASSUME NEW n \in Nat, NEW d \in Nat \ {0}
  PROVE  /\ n \div d \in Nat
         /\ n % d \in 0 .. d - 1
         /\ n % d = n - (n \div d) * d
<1>1. n % d = n - (n \div d) * d
  OBVIOUS
<1> QED
  BY <1>1

\* Products are ordered like their first factors.
LEMMA ProductsOrdered ==
  ASSUME NEW a \in Nat, NEW b \in Nat, NEW c \in Nat, a <= b
  PROVE  a * c \in Nat /\ b * c \in Nat /\ a * c <= b * c
OBVIOUS

\* Positive factors can be left out.
LEMMA FactorsOrdered ==
  ASSUME NEW a \in Nat, NEW b \in Nat, NEW c \in Nat \ {0}, a * c <= b * c
  PROVE  a <= b
OBVIOUS

\* The quotient is the greatest number whose product does not exceed the dividend.
LEMMA QuotientIsGreatest ==
  ASSUME NEW n \in Nat, NEW d \in Nat \ {0}, NEW q \in Nat, q * d <= n
  PROVE  q <= n \div d
<1> DEFINE p == n \div d
<1>1. p \in Nat /\ n < (p + 1) * d
  BY Division
<1> HIDE DEF p
<1>2. q * d < (p + 1) * d
  BY <1>1
<1>3. q < p + 1
  BY <1>1, <1>2
<1> QED
  BY <1>1, <1>3 DEF p

\* Quotients are ordered like their dividends.
LEMMA QuotientsOrdered ==
  ASSUME NEW m \in Nat, NEW n \in Nat, NEW d \in Nat \ {0}, m <= n
  PROVE  m \div d \in Nat /\ n \div d \in Nat /\ m \div d <= n \div d
<1>1. m \div d \in Nat /\ (m \div d) * d <= m /\ n \div d \in Nat
  BY Division
<1>2. (m \div d) * d <= n
  BY <1>1
<1> QED
  BY <1>1, <1>2, QuotientIsGreatest

----------------------------------------------------------------------------
\* Induction, for a predicate given as a set

\* A set of naturals that is not empty has a least element.
LEMMA LeastNatural ==
  ASSUME NEW T \in SUBSET Nat, NEW k \in T
  PROVE  \E x \in T : \A y \in T : x <= y
<1> DEFINE R == OpToRel(<, Nat)
<1>1. IsWellFoundedOn(R, Nat)
  BY Zenon, NatLessThanWellFounded
<1> HIDE DEF R
<1>2. PICK x \in T : \A y \in T : ~ (<<y, x>> \in R)
  BY Zenon, <1>1, WFMin
<1>3. \A y \in T : ~ (y < x)
  BY Zenon, <1>2 DEF R, OpToRel
<1> QED
  BY <1>3

\* The function nx takes every element of D outside T to one with a smaller measure m.
Descends(D, T, nx, m, bound) ==
  /\ bound \in Nat
  /\ \A t \in D : m[t] \in 0 .. bound
  /\ \A t \in D : t \notin T => nx[t] \in D /\ m[nx[t]] < m[t]

\* P holds of the elements of T and, along nx, of the others.
Inductive(D, T, nx, P) == \A t \in D : t \in T \/ nx[t] \in P => t \in P

\* Induction along such a function.
LEMMA MeasureInduction ==
  ASSUME NEW D, NEW T, NEW nx, NEW m, NEW bound, NEW P,
         Descends(D, T, nx, m, bound), Inductive(D, T, nx, P)
  PROVE  \A t \in D : t \in P
<1> USE DEF Descends, Inductive
<1> SUFFICES ASSUME NEW z \in D, z \notin P PROVE FALSE
  OBVIOUS
<1> DEFINE B == {t \in D : t \notin P}
           M == {m[t] : t \in B}
<1>1. M \in SUBSET Nat /\ m[z] \in M
  OBVIOUS
<1> HIDE DEF M
<1>2. PICK k \in M : \A y \in M : k <= y
  BY <1>1, LeastNatural
<1>3. PICK t \in B : m[t] = k
  BY <1>2 DEF M
<1>4. t \notin T /\ nx[t] \in D /\ m[nx[t]] < m[t] /\ nx[t] \notin P
  BY <1>3
<1>5. m[nx[t]] \in M /\ m[nx[t]] \in Nat /\ m[t] \in Nat
  BY <1>4 DEF M
<1> QED
  BY <1>2, <1>3, <1>4, <1>5

\* A recursion that stops in T, and otherwise continues with an argument of smaller
\* measure, defines a function.
LEMMA TailRecursion ==
  ASSUME NEW D, NEW T, NEW v, NEW nx, NEW m, NEW bound, Descends(D, T, nx, m, bound)
  PROVE  \E g : g = [t \in D |-> IF t \in T THEN v[t] ELSE g[nx[t]]]
<1> USE DEF Descends
<1> DEFINE Solves(g, n) ==
             \A t \in D : m[t] <= n => g[t] = IF t \in T THEN v[t] ELSE g[nx[t]]
<1>1. ASSUME NEW n \in Nat, n = 0 \/ \E g : Solves(g, n - 1)
      PROVE  \E g : Solves(g, n)
  <2>1. PICK g : n = 0 \/ Solves(g, n - 1)
    BY <1>1
  <2> DEFINE f == [t \in D |-> IF m[t] = n THEN IF t \in T THEN v[t] ELSE g[nx[t]] ELSE g[t]]
  <2>2. ASSUME NEW t \in D, m[t] <= n
        PROVE  f[t] = IF t \in T THEN v[t] ELSE f[nx[t]]
    <3>1. m[t] \in Nat
      OBVIOUS
    <3>2. CASE t \in T /\ m[t] = n
      BY <3>2
    <3>3. CASE t \in T /\ m[t] # n
      <4>1. n # 0 /\ m[t] <= n - 1
        BY <2>2, <3>1, <3>3
      <4> QED
        BY <2>1, <3>3, <4>1
    <3>4. CASE t \notin T
      <4>1. nx[t] \in D /\ m[nx[t]] < m[t] /\ m[nx[t]] \in Nat
        BY <3>4
      <4>2. f[nx[t]] = g[nx[t]]
        BY <2>2, <3>1, <4>1
      <4>3. CASE m[t] = n
        BY <3>4, <4>2, <4>3
      <4>4. CASE m[t] # n
        <5>1. n # 0 /\ m[t] <= n - 1
          BY <2>2, <3>1, <4>4
        <5> QED
          BY <2>1, <3>4, <4>2, <4>4, <5>1
      <4> QED
        BY <4>3, <4>4
    <3> QED
      BY <3>2, <3>3, <3>4
  <2>3. Solves(f, n)
    BY <2>2
  <2> HIDE DEF f, Solves
  <2> QED
    BY <2>3
<1> DEFINE U == {n \in Nat : ~ \E g : Solves(g, n)}
<1>2. bound \notin U
  <2> SUFFICES ASSUME bound \in U PROVE FALSE
    OBVIOUS
  <2>1. PICK n \in U : \A y \in U : n <= y
    <3> HIDE DEF Solves
    <3>1. U \in SUBSET Nat
      OBVIOUS
    <3> HIDE DEF U
    <3> QED
      BY <3>1, LeastNatural
  <2>2. n = 0 \/ (n - 1 \in Nat /\ n - 1 \notin U)
    <3> HIDE DEF Solves
    <3>1. n \in Nat /\ (n - 1 \in U => n <= n - 1)
      BY <2>1
    <3> QED
      BY <3>1
  <2> HIDE DEF Solves
  <2>3. n = 0 \/ \E g : Solves(g, n - 1)
    BY <2>2
  <2> QED
    BY <1>1, <2>1, <2>3
<1>3. PICK g : Solves(g, bound)
  <2> HIDE DEF Solves
  <2> QED
    BY <1>2
<1> DEFINE h == [t \in D |-> g[t]]
<1>4. \A t \in D : h[t] = IF t \in T THEN v[t] ELSE h[nx[t]]
  BY <1>3
<1>5. h = [t \in D |-> IF t \in T THEN v[t] ELSE h[nx[t]]]
  BY <1>4
<1> HIDE DEF h
<1> QED
  BY <1>5

----------------------------------------------------------------------------
\* gas.CalculatePrice

\* Its loop: the sum so far, the next term and the index of that term.
Sums == Nat \X Nat \X (Nat \ {0})
SumEnds(k, t) == t[2] = 0 \/ t[1] >= k * MaxUint
NextSum(x, k, t) == <<t[1] + t[2], ((t[2] * x) \div k) \div t[3], t[3] + 1>>
IsSum(x, k, g) ==
  g = [t \in Sums |-> IF SumEnds(k, t) THEN t[1] ELSE g[NextSum(x, k, t)]]
SumFrom(x, k) == CHOOSE g : IsSum(x, k, g)

\* The components of a state of the loop are numbers.
LEMMA SumTypes ==
  ASSUME NEW t \in Sums
  PROVE  t[1] \in Nat /\ t[2] \in Nat /\ t[3] \in Nat \ {0}
BY DEF Sums

\* So are those of the next one.
LEMMA SumParts ==
  ASSUME NEW x \in Nat, NEW k \in Nat \ {0}, NEW t \in Sums
  PROVE  /\ t[1] \in Nat /\ t[2] \in Nat /\ t[3] \in Nat \ {0}
         /\ (t[2] * x) \div k \in Nat
         /\ NextSum(x, k, t) \in Sums
         /\ NextSum(x, k, t)[1] = t[1] + t[2]
         /\ NextSum(x, k, t)[2] = ((t[2] * x) \div k) \div t[3]
         /\ NextSum(x, k, t)[3] = t[3] + 1
<1>1. t[1] \in Nat /\ t[2] \in Nat /\ t[3] \in Nat \ {0}
  BY DEF Sums
<1>2. t[2] * x \in Nat
  BY <1>1
<1>3. (t[2] * x) \div k \in Nat
  BY <1>2, Division
<1>4. ((t[2] * x) \div k) \div t[3] \in Nat
  BY Zenon, <1>1, <1>3, Division
<1> QED
  BY <1>1, <1>3, <1>4 DEF Sums, NextSum

EndSums(k) == {t \in Sums : SumEnds(k, t)}
SumSteps(x, k) == [t \in Sums |-> NextSum(x, k, t)]
SumMeasure(k) == [t \in Sums |-> IF t[1] >= k * MaxUint THEN 0 ELSE k * MaxUint - t[1]]

\* Every term adds at least one to a sum that is below k * MaxUint, so the loop ends.
LEMMA SumDescends ==
  ASSUME NEW x \in Nat, NEW k \in Nat \ {0}
  PROVE  Descends(Sums, EndSums(k), SumSteps(x, k), SumMeasure(k), k * MaxUint)
<1> DEFINE m == SumMeasure(k)
<1>1. k * MaxUint \in Nat
  BY IntMathAssumption
<1>2. \A t \in Sums : m[t] = IF t[1] >= k * MaxUint THEN 0 ELSE k * MaxUint - t[1]
  BY Zenon DEF SumMeasure
<1> HIDE DEF m
<1>3. ASSUME NEW t \in Sums
      PROVE  m[t] \in 0 .. k * MaxUint
  <2>1. t[1] \in Nat
    BY SumParts
  <2> QED
    BY <1>1, <1>2, <2>1
<1>4. ASSUME NEW t \in Sums, t \notin EndSums(k)
      PROVE  SumSteps(x, k)[t] \in Sums /\ m[SumSteps(x, k)[t]] < m[t]
  <2> DEFINE u == NextSum(x, k, t)
  <2>1. u \in Sums /\ u[1] = t[1] + t[2] /\ t[1] \in Nat /\ t[2] \in Nat
    BY SumParts
  <2>2. SumSteps(x, k)[t] = u
    BY Zenon DEF SumSteps
  <2> HIDE DEF u
  <2>3. t[2] # 0 /\ ~ (t[1] >= k * MaxUint)
    BY <1>4 DEF SumEnds, EndSums
  <2>4. m[u] < m[t]
    BY <1>1, <1>2, <2>1, <2>3
  <2> QED
    BY <2>1, <2>2, <2>4
<1> QED
  BY <1>1, <1>3, <1>4 DEF Descends, m

\* The recursion of the loop defines a function.
LEMMA SumFromDef ==
  ASSUME NEW x \in Nat, NEW k \in Nat \ {0}
  PROVE  \A t \in Sums : SumFrom(x, k)[t] =
           IF SumEnds(k, t) THEN t[1] ELSE SumFrom(x, k)[NextSum(x, k, t)]
<1> DEFINE T == EndSums(k)
           nx == SumSteps(x, k)
           v == [t \in Sums |-> t[1]]
<1>1. \A t \in Sums : (t \in T <=> SumEnds(k, t)) /\ nx[t] = NextSum(x, k, t) /\ v[t] = t[1]
  BY Zenon DEF EndSums, SumSteps
<1>2. Descends(Sums, T, nx, SumMeasure(k), k * MaxUint)
  BY SumDescends
<1> HIDE DEF T, nx, v
<1>3. \E g : g = [t \in Sums |-> IF t \in T THEN v[t] ELSE g[nx[t]]]
  BY <1>2, TailRecursion
<1>4. PICK g : g = [t \in Sums |-> IF t \in T THEN v[t] ELSE g[nx[t]]]
  BY Zenon, <1>3
<1>5. g = [t \in Sums |-> IF SumEnds(k, t) THEN t[1] ELSE g[NextSum(x, k, t)]]
  BY Zenon, <1>1, <1>4
<1>6. IsSum(x, k, g)
  BY Zenon, <1>5 DEF IsSum
<1>7. IsSum(x, k, SumFrom(x, k))
  BY Zenon, <1>6 DEF SumFrom
<1> QED
  BY Zenon, <1>7 DEF IsSum

\* The loop computes the price.
LEMMA PriceIsSum ==
  ASSUME NEW min, NEW x, NEW k
  PROVE  CalculatePrice(min, x, k) = Smaller(SumFrom(x, k)[<<0, min * k, 1>>] \div k, MaxUint)
BY Zenon DEF CalculatePrice, SumFrom, IsSum, Sums, SumEnds, NextSum

\* The sum is a number, at least what it starts with.
LEMMA SumGrows ==
  ASSUME NEW x \in Nat, NEW k \in Nat \ {0}
  PROVE  \A t \in Sums : SumFrom(x, k)[t] \in Nat /\ t[1] <= SumFrom(x, k)[t]
<1> DEFINE s == SumFrom(x, k)
           T == EndSums(k)
           nx == SumSteps(x, k)
           P == {t \in Sums : s[t] \in Nat /\ t[1] <= s[t]}
<1>1. \A t \in Sums : (t \in T <=> SumEnds(k, t)) /\ nx[t] = NextSum(x, k, t)
  BY Zenon DEF EndSums, SumSteps
<1>2. \A t \in Sums : s[t] = IF SumEnds(k, t) THEN t[1] ELSE s[NextSum(x, k, t)]
  BY SumFromDef
<1> HIDE DEF s, T, nx
<1>3. ASSUME NEW t \in Sums, t \in T
      PROVE  t \in P
  <2>1. s[t] = t[1] /\ t[1] \in Nat
    BY <1>1, <1>2, <1>3, SumParts
  <2> QED
    BY <2>1
<1>4. ASSUME NEW t \in Sums, t \notin T, nx[t] \in P
      PROVE  t \in P
  <2> DEFINE u == NextSum(x, k, t)
  <2>1. nx[t] = u /\ s[t] = s[u]
    BY Zenon, <1>1, <1>2, <1>4
  <2>2. u[1] = t[1] + t[2] /\ t[1] \in Nat /\ t[2] \in Nat
    BY SumParts
  <2>3. u[1] <= s[u] /\ s[u] \in Nat
    BY Zenon, <1>4, <2>1
  <2> HIDE DEF u
  <2> QED
    BY <2>1, <2>2, <2>3
<1>5. Inductive(Sums, T, nx, P)
  BY Zenon, <1>3, <1>4 DEF Inductive
<1>6. \A t \in Sums : t \in P
  <2> HIDE DEF P
  <2> QED
    BY Zenon, <1>5, SumDescends, MeasureInduction DEF T, nx
<1> QED
  BY Zenon, <1>6 DEF s

\* The price from a state of the loop.
PriceFrom(x, k, t) == Smaller(SumFrom(x, k)[t] \div k, MaxUint)

\* From a state that is ahead, and with a higher excess, the loop ends with a price
\* that is as high.
LEMMA SumsOrdered ==
  ASSUME NEW x \in Nat, NEW y \in Nat, x <= y, NEW k \in Nat \ {0},
         NEW t \in Sums, NEW u \in Sums, t[1] <= u[1], t[2] <= u[2], t[3] = u[3]
  PROVE  PriceFrom(x, k, t) <= PriceFrom(y, k, u)
<1> DEFINE Ahead(a, b) == a[1] <= b[1] /\ a[2] <= b[2] /\ a[3] = b[3]
           T == EndSums(k)
           nx == SumSteps(x, k)
           P == {a \in Sums : \A b \in Sums : Ahead(a, b) => PriceFrom(x, k, a) <= PriceFrom(y, k, b)}
<1>1. \A a \in Sums : (a \in T <=> SumEnds(k, a)) /\ nx[a] = NextSum(x, k, a)
  BY Zenon DEF EndSums, SumSteps
<1> HIDE DEF T, nx, P
<1>2. k * MaxUint \in Nat /\ MaxUint \in Nat
  BY IntMathAssumption
<1>3. ASSUME NEW z \in Nat, NEW a \in Sums
      PROVE  /\ SumFrom(z, k)[a] \in Nat /\ a[1] <= SumFrom(z, k)[a]
             /\ SumFrom(z, k)[a] \div k \in Nat
             /\ PriceFrom(z, k, a) \in Nat /\ PriceFrom(z, k, a) <= MaxUint
             /\ a[1] >= k * MaxUint => PriceFrom(z, k, a) = MaxUint
  <2>1. SumFrom(z, k)[a] \in Nat /\ a[1] <= SumFrom(z, k)[a] /\ a[1] \in Nat
    BY SumGrows, SumTypes
  <2>2. SumFrom(z, k)[a] \div k \in Nat
    BY Zenon, <2>1, Division
  <2>3. ASSUME a[1] >= k * MaxUint PROVE MaxUint <= SumFrom(z, k)[a] \div k
    <3>1. MaxUint * k <= SumFrom(z, k)[a]
      BY <1>2, <2>1, <2>3
    <3> QED
      BY <1>2, <2>1, <3>1, QuotientIsGreatest
  <2> QED
    BY <1>2, <2>1, <2>2, <2>3 DEF PriceFrom, Smaller
<1>4. ASSUME NEW a \in Sums, NEW b \in Sums, Ahead(a, b), a \in T
      PROVE  PriceFrom(x, k, a) <= PriceFrom(y, k, b)
  <2> DEFINE f == SumFrom(x, k)[a]
             g == SumFrom(y, k)[b]
  <2>1. /\ a[1] \in Nat /\ b[1] \in Nat /\ a[1] <= b[1]
        /\ PriceFrom(x, k, a) \in Nat /\ PriceFrom(x, k, a) <= MaxUint
        /\ b[1] >= k * MaxUint => PriceFrom(y, k, b) = MaxUint
        /\ f \in Nat /\ f \div k \in Nat /\ g \in Nat /\ g \div k \in Nat /\ b[1] <= g
    BY Zenon, <1>3, <1>4, SumTypes
  <2>2. SumEnds(k, a)
    BY <1>1, <1>4
  <2>3. f = a[1]
    BY <2>2, SumFromDef
  <2>4. PriceFrom(x, k, a) = Smaller(f \div k, MaxUint)
        /\ PriceFrom(y, k, b) = Smaller(g \div k, MaxUint)
    BY DEF PriceFrom
  <2> HIDE DEF f, g
  <2>5. f \div k <= g \div k
    BY <2>1, <2>3, QuotientsOrdered
  <2> QED
    BY <1>2, <2>1, <2>4, <2>5 DEF Smaller
<1>5. ASSUME NEW a \in Sums, NEW b \in Sums, Ahead(a, b), a \notin T, nx[a] \in P
      PROVE  PriceFrom(x, k, a) <= PriceFrom(y, k, b)
  <2>1. CASE b[1] >= k * MaxUint
    <3>1. PriceFrom(y, k, b) = MaxUint /\ PriceFrom(x, k, a) <= MaxUint
      BY Zenon, <1>3, <2>1
    <3> QED
      BY <3>1
  <2>2. CASE ~ (b[1] >= k * MaxUint)
    <3> DEFINE c == NextSum(x, k, a)
               d == NextSum(y, k, b)
    <3>1. /\ a[1] \in Nat /\ a[2] \in Nat /\ a[3] \in Nat \ {0}
          /\ b[1] \in Nat /\ b[2] \in Nat /\ b[3] \in Nat \ {0}
      BY SumTypes
    <3>2. c \in Sums /\ d \in Sums
      BY Zenon, SumParts
    <3>3. /\ c[1] = a[1] + a[2] /\ c[2] = ((a[2] * x) \div k) \div a[3] /\ c[3] = a[3] + 1
           /\ d[1] = b[1] + b[2] /\ d[2] = ((b[2] * y) \div k) \div b[3] /\ d[3] = b[3] + 1
      BY DEF NextSum
    <3>4. a[1] <= b[1] /\ a[2] <= b[2] /\ a[3] = b[3]
      BY <1>5
    <3>5. ~ SumEnds(k, a) /\ ~ SumEnds(k, b)
      <4>1. ~ SumEnds(k, a)
        BY <1>1, <1>5
      <4>2. b[2] # 0
        BY <3>1, <3>4, <4>1 DEF SumEnds
      <4> QED
        BY <2>2, <4>1, <4>2 DEF SumEnds
    <3>6. SumFrom(x, k)[a] = SumFrom(x, k)[c] /\ SumFrom(y, k)[b] = SumFrom(y, k)[d]
      BY <3>5, SumFromDef
    <3>7. c[2] <= d[2]
      <4>1. a[2] * x \in Nat /\ b[2] * y \in Nat /\ a[2] * x <= b[2] * y
        <5>1. a[2] * x <= b[2] * x
          BY <3>1, <3>4, ProductsOrdered
        <5>2. x * b[2] <= y * b[2]
          BY <3>1, ProductsOrdered
        <5> QED
          BY <3>1, <5>1, <5>2
      <4>2. /\ (a[2] * x) \div k \in Nat /\ (b[2] * y) \div k \in Nat
            /\ (a[2] * x) \div k <= (b[2] * y) \div k
        BY <4>1, QuotientsOrdered
      <4>3. ((a[2] * x) \div k) \div a[3] <= ((b[2] * y) \div k) \div a[3]
        BY <3>1, <4>2, QuotientsOrdered
      <4> QED
        BY <3>2, <3>3, <3>4, <4>3
    <3> HIDE DEF c, d
    <3>8. Ahead(c, d)
      BY <3>1, <3>2, <3>3, <3>4, <3>7
    <3>9. nx[a] = c
      BY <1>1 DEF c
    <3>10. PriceFrom(x, k, c) <= PriceFrom(y, k, d)
      BY Zenon, <1>5, <3>2, <3>3, <3>8, <3>9 DEF P
    <3> QED
      BY <3>6, <3>10 DEF PriceFrom
  <2> QED
    BY <2>1, <2>2
<1> HIDE DEF Ahead
<1>6. Inductive(Sums, T, nx, P)
  BY Zenon, <1>4, <1>5 DEF Inductive, P
<1>7. \A a \in Sums : a \in P
  BY Zenon, <1>6, SumDescends, MeasureInduction DEF T, nx
<1>8. Ahead(t, u)
  BY DEF Ahead
<1> QED
  BY Zenon, <1>7, <1>8 DEF P

\* The price is a word, and rises with the excess.
LEMMA PricesOrdered ==
  ASSUME NEW min \in Nat, NEW k \in Nat \ {0}, NEW x \in Nat, NEW y \in Nat, x <= y
  PROVE  /\ CalculatePrice(min, x, k) \in Word
         /\ CalculatePrice(min, x, k) <= CalculatePrice(min, y, k)
<1> DEFINE t == <<0, min * k, 1>>
<1>1. min * k \in Nat
  OBVIOUS
<1>2. t \in Sums /\ t[1] = 0 /\ t[2] = min * k /\ t[3] = 1
  BY <1>1 DEF Sums
<1>3. /\ CalculatePrice(min, x, k) = PriceFrom(x, k, t)
      /\ CalculatePrice(min, y, k) = PriceFrom(y, k, t)
  BY Zenon, PriceIsSum DEF PriceFrom
<1> HIDE DEF t
<1>4. PriceFrom(x, k, t) <= PriceFrom(y, k, t)
  <2>1. t[1] <= t[1] /\ t[2] <= t[2] /\ t[3] = t[3]
    BY <1>1, <1>2
  <2> QED
    BY <1>2, <2>1, SumsOrdered
<1>5. PriceFrom(x, k, t) \in Word
  <2>1. SumFrom(x, k)[t] \in Nat
    BY Zenon, <1>2, SumGrows
  <2>2. SumFrom(x, k)[t] \div k \in Nat
    BY Zenon, <2>1, Division
  <2> QED
    BY <2>2, IntMathAssumption DEF PriceFrom, Smaller, Word
<1> QED
  BY <1>3, <1>4, <1>5

\* Without excess the price is the minimum.
LEMMA PriceWithoutExcess ==
  ASSUME NEW min \in Word, NEW k \in Nat \ {0}
  PROVE  CalculatePrice(min, 0, k) = min
<1> DEFINE t == <<0, min * k, 1>>
           u == NextSum(0, k, t)
<1>1. min \in Nat /\ min <= MaxUint /\ min * k \in Nat /\ MaxUint \in Nat
  BY IntMathAssumption DEF Word
<1>2. t \in Sums /\ t[1] = 0 /\ t[2] = min * k /\ t[3] = 1
  BY <1>1 DEF Sums
<1>3. CalculatePrice(min, 0, k) = Smaller(SumFrom(0, k)[t] \div k, MaxUint)
  BY Zenon, PriceIsSum
<1> HIDE DEF t
<1>4. u \in Sums /\ u[1] = min * k /\ u[2] = 0
  <2>1. /\ u \in Sums /\ u[1] = t[1] + t[2] /\ u[2] = ((t[2] * 0) \div k) \div t[3]
        /\ t[2] \in Nat
    <3>1. 0 \in Nat
      OBVIOUS
    <3> QED
      BY Zenon, <1>2, <3>1, SumParts
  <2>2. (t[2] * 0) = 0 /\ 0 \div k = 0 /\ 0 \div 1 = 0
    BY <2>1
  <2> QED
    BY <1>1, <1>2, <2>1, <2>2
<1> HIDE DEF u
<1>5. SumFrom(0, k)[t] = min * k
  <2>1. SumFrom(0, k)[u] = u[1]
    BY <1>4, SumFromDef DEF SumEnds
  <2>2. CASE SumEnds(k, t)
    <3>1. SumFrom(0, k)[t] = 0
      BY <1>2, <2>2, SumFromDef
    <3>2. t[2] = 0
      <4>1. k * MaxUint # 0 /\ k * MaxUint \in Nat
        BY <1>1, IntMathAssumption
      <4> QED
        BY <1>2, <2>2, <4>1 DEF SumEnds
    <3> QED
      BY <1>2, <3>1, <3>2
  <2>3. CASE ~ SumEnds(k, t)
    BY <1>2, <1>4, <2>1, <2>3, SumFromDef DEF u
  <2> QED
    BY <2>2, <2>3
<1>6. (min * k) \div k = min
  <2>1. min <= (min * k) \div k /\ (min * k) \div k \in Nat
    BY <1>1, Division, QuotientIsGreatest
  <2>2. ((min * k) \div k) * k <= min * k
    <3> DEFINE n == min * k
    <3>1. n \in Nat
      BY <1>1
    <3> HIDE DEF n
    <3>2. n % k \in 0 .. k - 1 /\ n % k = n - (n \div k) * k /\ n \div k \in Nat
      BY Zenon, <1>1, <3>1, Division
    <3>3. (n \div k) * k <= n
      BY <1>1, <3>1, <3>2
    <3> QED
      BY <3>3 DEF n
  <2>3. (min * k) \div k <= min
    BY <1>1, <2>1, <2>2, FactorsOrdered
  <2> QED
    BY <1>1, <2>1, <2>3
<1> QED
  BY <1>1, <1>3, <1>5, <1>6 DEF Smaller

----------------------------------------------------------------------------
\* Time.findExcessForPrice

\* Its binary search, between a lower and an upper end.
Ranges == Word \X Word
Middle(r) == r[1] + (r[2] - r[1]) \div 2
RangeEnds(r) == r[1] >= r[2]
NextRange(min, k, price, r) ==
  IF CalculatePrice(min, Middle(r), k) >= price THEN <<r[1], Middle(r)>>
  ELSE <<Middle(r) + 1, r[2]>>
IsSearch(min, k, price, g) ==
  g = [r \in Ranges |->
         IF RangeEnds(r) THEN r[1]
         ELSE IF CalculatePrice(min, Middle(r), k) >= price THEN g[<<r[1], Middle(r)>>]
         ELSE g[<<Middle(r) + 1, r[2]>>]]
SearchFrom(min, k, price) == CHOOSE g : IsSearch(min, k, price, g)

\* The middle of a range that is not empty is below its upper end.
LEMMA MiddleOfRange ==
  ASSUME NEW r \in Ranges
  PROVE  /\ r[1] \in Nat /\ r[2] \in Nat /\ r[2] <= MaxUint /\ r[1] <= MaxUint
         /\ ~ RangeEnds(r) => /\ r[1] <= Middle(r) /\ Middle(r) < r[2]
                              /\ Middle(r) \in Nat
<1>1. r[1] \in Nat /\ r[2] \in Nat /\ r[2] <= MaxUint /\ r[1] <= MaxUint
  BY IntMathAssumption DEF Ranges, Word
<1>2. ASSUME ~ RangeEnds(r)
      PROVE  r[1] <= Middle(r) /\ Middle(r) < r[2] /\ Middle(r) \in Nat
  <2> DEFINE d == r[2] - r[1]
  <2>1. d \in Nat /\ d > 0
    BY <1>1, <1>2 DEF RangeEnds
  <2> HIDE DEF d
  <2>2. d \div 2 \in Nat /\ d \div 2 < d
    BY <2>1
  <2> QED
    BY <1>1, <2>1, <2>2 DEF Middle, d
<1> QED
  BY <1>1, <1>2

EndRanges == {r \in Ranges : RangeEnds(r)}
RangeSteps(min, k, price) == [r \in Ranges |-> NextRange(min, k, price, r)]
RangeMeasure == [r \in Ranges |-> IF r[1] >= r[2] THEN 0 ELSE r[2] - r[1]]

\* Each step of the search makes the range smaller.
LEMMA SearchDescends ==
  ASSUME NEW min, NEW k, NEW price
  PROVE  Descends(Ranges, EndRanges, RangeSteps(min, k, price), RangeMeasure, MaxUint)
<1> DEFINE m == RangeMeasure
<1>1. MaxUint \in Nat
  BY IntMathAssumption
<1>2. \A r \in Ranges : m[r] = IF r[1] >= r[2] THEN 0 ELSE r[2] - r[1]
  BY Zenon DEF RangeMeasure
<1> HIDE DEF m
<1>3. ASSUME NEW r \in Ranges
      PROVE  m[r] \in 0 .. MaxUint
  BY <1>1, <1>2, MiddleOfRange
<1>4. ASSUME NEW r \in Ranges, r \notin EndRanges
      PROVE  LET s == RangeSteps(min, k, price)[r] IN s \in Ranges /\ m[s] < m[r]
  <2> DEFINE s == RangeSteps(min, k, price)[r]
  <2>1. s = NextRange(min, k, price, r)
    BY Zenon DEF RangeSteps
  <2>2. /\ r[1] \in Nat /\ r[2] \in Nat /\ r[2] <= MaxUint /\ r[1] <= MaxUint
        /\ r[1] <= Middle(r) /\ Middle(r) < r[2] /\ Middle(r) \in Nat
    BY <1>4, MiddleOfRange DEF EndRanges
  <2> HIDE DEF s
  <2>3. s = <<r[1], Middle(r)>> \/ s = <<Middle(r) + 1, r[2]>>
    BY <2>1 DEF NextRange
  <2>4. s \in Ranges
    BY <1>1, <2>2, <2>3 DEF Ranges, Word
  <2>5. \/ s[1] = r[1] /\ s[2] = Middle(r)
        \/ s[1] = Middle(r) + 1 /\ s[2] = r[2]
    BY <2>3
  <2>6. m[s] < m[r]
    BY <1>2, <2>2, <2>4, <2>5
  <2> QED
    BY <2>4, <2>6 DEF s
<1> QED
  BY <1>1, <1>3, <1>4 DEF Descends, m

\* The recursion of the search defines a function.
LEMMA SearchFromDef ==
  ASSUME NEW min, NEW k, NEW price
  PROVE  \A r \in Ranges : SearchFrom(min, k, price)[r] =
           IF RangeEnds(r) THEN r[1]
           ELSE SearchFrom(min, k, price)[NextRange(min, k, price, r)]
<1> DEFINE T == EndRanges
           nx == RangeSteps(min, k, price)
           v == [r \in Ranges |-> r[1]]
<1>1. \A r \in Ranges :
        (r \in T <=> RangeEnds(r)) /\ nx[r] = NextRange(min, k, price, r) /\ v[r] = r[1]
  BY Zenon DEF EndRanges, RangeSteps
<1>2. Descends(Ranges, T, nx, RangeMeasure, MaxUint)
  BY SearchDescends
<1> HIDE DEF T, nx, v
<1>3. \E g : g = [r \in Ranges |-> IF r \in T THEN v[r] ELSE g[nx[r]]]
  BY <1>2, TailRecursion
<1>4. PICK g : g = [r \in Ranges |-> IF r \in T THEN v[r] ELSE g[nx[r]]]
  BY Zenon, <1>3
<1>5. \A f : \A r \in Ranges :
        f[NextRange(min, k, price, r)] =
          IF CalculatePrice(min, Middle(r), k) >= price THEN f[<<r[1], Middle(r)>>]
          ELSE f[<<Middle(r) + 1, r[2]>>]
  BY Zenon DEF NextRange
<1>6. g = [r \in Ranges |-> IF RangeEnds(r) THEN r[1] ELSE g[NextRange(min, k, price, r)]]
  BY Zenon, <1>1, <1>4
<1>7. g = [r \in Ranges |->
             IF RangeEnds(r) THEN r[1]
             ELSE IF CalculatePrice(min, Middle(r), k) >= price THEN g[<<r[1], Middle(r)>>]
             ELSE g[<<Middle(r) + 1, r[2]>>]]
  BY <1>5, <1>6
<1>8. IsSearch(min, k, price, g)
  BY Zenon, <1>7 DEF IsSearch
<1>9. IsSearch(min, k, price, SearchFrom(min, k, price))
  BY Zenon, <1>8 DEF SearchFrom
<1> QED
  BY Zenon, <1>5, <1>9 DEF IsSearch

\* The search finds the least excess of the range with the price, or its upper end.
LEMMA SearchFinds ==
  ASSUME NEW min \in Nat, NEW k \in Nat \ {0}, NEW price \in Nat,
         NEW r \in Ranges, r[1] <= r[2]
  PROVE  LET z == SearchFrom(min, k, price)[r] IN
         /\ z \in r[1] .. r[2]
         /\ \A x \in r[1] .. z - 1 : CalculatePrice(min, x, k) < price
         /\ z = r[2] \/ CalculatePrice(min, z, k) >= price
<1> DEFINE s == SearchFrom(min, k, price)
           T == EndRanges
           nx == RangeSteps(min, k, price)
           Found(a, z) == /\ z \in a[1] .. a[2]
                          /\ \A x \in a[1] .. z - 1 : CalculatePrice(min, x, k) < price
                          /\ z = a[2] \/ CalculatePrice(min, z, k) >= price
           P == {a \in Ranges : a[1] <= a[2] => Found(a, s[a])}
<1>1. \A a \in Ranges : (a \in T <=> RangeEnds(a)) /\ nx[a] = NextRange(min, k, price, a)
  BY Zenon DEF EndRanges, RangeSteps
<1>2. \A a \in Ranges :
        s[a] = IF RangeEnds(a) THEN a[1] ELSE s[NextRange(min, k, price, a)]
  BY Zenon, SearchFromDef
<1> HIDE DEF T, nx, s, P
<1>3. ASSUME NEW a \in Ranges, a[1] <= a[2], a \in T
      PROVE  Found(a, s[a])
  <2>1. a[1] \in Nat /\ a[2] \in Nat /\ a[1] = a[2]
    BY <1>1, <1>3, MiddleOfRange DEF RangeEnds
  <2>2. s[a] = a[1]
    BY <1>1, <1>2, <1>3
  <2> QED
    BY <2>1, <2>2
<1>4. ASSUME NEW a \in Ranges, a[1] <= a[2], a \notin T, nx[a] \in P
      PROVE  Found(a, s[a])
  <2> DEFINE b == NextRange(min, k, price, a)
             mid == Middle(a)
             z == s[b]
  <2>1. s[a] = z /\ b \in P
    BY Zenon, <1>1, <1>2, <1>4
  <2>2. a[1] \in Nat /\ a[2] \in Nat /\ mid \in Nat /\ a[1] <= mid /\ mid < a[2]
    BY <1>1, <1>4, MiddleOfRange
  <2>3. b = IF CalculatePrice(min, mid, k) >= price THEN <<a[1], mid>> ELSE <<mid + 1, a[2]>>
    BY DEF NextRange
  <2> HIDE DEF b, mid, z
  <2>4. CASE CalculatePrice(min, mid, k) >= price
    <3>1. b[1] = a[1] /\ b[2] = mid
      BY <2>3, <2>4
    <3>2. b[1] <= b[2]
      BY <2>2, <3>1
    <3>3. /\ z \in a[1] .. mid
          /\ \A x \in a[1] .. z - 1 : CalculatePrice(min, x, k) < price
          /\ z = mid \/ CalculatePrice(min, z, k) >= price
      BY <2>1, <3>1, <3>2 DEF P, z
    <3>4. z \in a[1] .. a[2] /\ CalculatePrice(min, z, k) >= price
      BY <2>2, <2>4, <3>3
    <3> QED
      BY <2>1, <3>3, <3>4
  <2>5. CASE ~ (CalculatePrice(min, mid, k) >= price)
    <3>1. b[1] = mid + 1 /\ b[2] = a[2]
      BY <2>3, <2>5
    <3>2. b[1] <= b[2]
      BY <2>2, <3>1
    <3>3. /\ z \in mid + 1 .. a[2]
          /\ \A x \in mid + 1 .. z - 1 : CalculatePrice(min, x, k) < price
          /\ z = a[2] \/ CalculatePrice(min, z, k) >= price
      BY <2>1, <3>1, <3>2 DEF P, z
    <3>4. ASSUME NEW x \in a[1] .. z - 1 PROVE CalculatePrice(min, x, k) < price
      <4>1. CASE x <= mid
        <5>1. x \in Nat
          BY <2>2
        <5>2. CalculatePrice(min, x, k) <= CalculatePrice(min, mid, k)
          BY <2>2, <4>1, <5>1, PricesOrdered
        <5>3. CalculatePrice(min, x, k) \in Nat /\ CalculatePrice(min, mid, k) \in Nat
          <6>1. x <= x /\ mid <= mid
            BY <2>2, <5>1
          <6>2. CalculatePrice(min, x, k) \in Word /\ CalculatePrice(min, mid, k) \in Word
            BY <2>2, <5>1, <6>1, PricesOrdered
          <6> QED
            BY <6>2, IntMathAssumption DEF Word
        <5> QED
          BY <2>5, <5>2, <5>3
      <4>2. CASE ~ (x <= mid)
        <5>1. x \in mid + 1 .. z - 1
          BY <2>2, <3>3, <4>2
        <5> QED
          BY <3>3, <5>1
      <4> QED
        BY <4>1, <4>2
    <3>5. z \in a[1] .. a[2]
      BY <2>2, <3>3
    <3> QED
      BY Zenon, <2>1, <3>3, <3>4, <3>5
  <2> QED
    BY <2>4, <2>5
<1> HIDE DEF Found
<1>5. Inductive(Ranges, T, nx, P)
  BY Zenon, <1>3, <1>4 DEF Inductive, P
<1>6. \A a \in Ranges : a \in P
  BY Zenon, <1>5, SearchDescends, MeasureInduction DEF T, nx
<1>7. Found(r, s[r])
  BY Zenon, <1>6 DEF P
<1> QED
  BY Zenon, <1>7 DEF Found, s

----------------------------------------------------------------------------
\* Rounding up

\* Division that rounds up.
LEMMA CeilingDivision ==
  ASSUME NEW n \in Nat, NEW d \in Nat \ {0}
  PROVE  /\ (n + d - 1) \div d \in Nat
         /\ n <= ((n + d - 1) \div d) * d
<1>1. n + d - 1 \in Nat
  OBVIOUS
<1> QED
  BY <1>1, Division

\* It gives the least number whose product is not below the dividend.
LEMMA CeilingIsLeast ==
  ASSUME NEW n \in Nat, NEW d \in Nat \ {0}, NEW q \in Nat, n <= q * d
  PROVE  (n + d - 1) \div d <= q
<1>1. n + d - 1 \in Nat
  OBVIOUS
<1>2. ((n + d - 1) \div d) * d <= n + d - 1 /\ (n + d - 1) \div d \in Nat
  BY <1>1, Division
<1> QED
  BY <1>2

\* MulDivCeil of a fraction, at another rate: it does not overflow, and rounds up.
LEMMA ScaledFraction ==
  ASSUME NEW den \in Nat \ {0}, NEW f \in 0 .. den - 1, NEW rate \in 1 .. MaxUint
  PROVE  /\ MulDivCeil(f, rate, den) \in 0 .. rate
         /\ f * rate <= MulDivCeil(f, rate, den) * den
<1> USE IntMathAssumption
<1>1. f * rate \in Nat /\ f * rate <= rate * den
  <2>1. f * rate <= den * rate
    BY ProductsOrdered
  <2> QED
    BY <2>1
<1> DEFINE q == (f * rate + den - 1) \div den
<1>2. q \in Nat /\ f * rate <= q * den
  BY <1>1, CeilingDivision
<1>3. q <= rate
  BY <1>1, CeilingIsLeast
<1>4. MulDivCeil(f, rate, den) = q
  BY <1>2, <1>3 DEF MulDivCeil, Quotient
<1> QED
  BY <1>2, <1>3, <1>4

----------------------------------------------------------------------------
\* Times

\* A time, alone or as part of a gas clock.
IsTime(t) ==
  /\ {"sec", "frac", "hertz"} \subseteq DOMAIN t
  /\ t.sec \in Nat
  /\ t.hertz \in 1 .. MaxUint
  /\ t.frac \in 0 .. t.hertz - 1

\* The instant, in units of the rate.
Instant(t) == t.sec * t.hertz + t.frac

\* Times of the same rate are ordered like their instants.
LEMMA InstantOrder ==
  ASSUME NEW t, NEW u, IsTime(t), IsTime(u), t.hertz = u.hertz, Instant(t) <= Instant(u)
  PROVE  NotAfter(t, u)
<1> USE IntMathAssumption DEF IsTime, Instant
<1>1. t.sec <= u.sec
  <2>1. t.sec * t.hertz < (u.sec + 1) * t.hertz
    OBVIOUS
  <2> QED
    BY <2>1
<1>2. t.sec = u.sec => t.frac * u.hertz <= u.frac * t.hertz
  <2> SUFFICES ASSUME t.sec = u.sec PROVE t.frac * u.hertz <= u.frac * u.hertz
    OBVIOUS
  <2>1. t.frac <= u.frac
    OBVIOUS
  <2> QED
    BY <2>1, ProductsOrdered
<1>3. t.sec < u.sec \/ t.sec = u.sec
  BY <1>1
<1> QED
  BY Zenon, <1>2, <1>3 DEF NotAfter

\* NotAfter is transitive when the first two rates are the same.
LEMMA OrderComposes ==
  ASSUME NEW t, NEW u, NEW v, IsTime(t), IsTime(u), IsTime(v), t.hertz = u.hertz,
         NotAfter(t, u), NotAfter(u, v)
  PROVE  NotAfter(t, v)
<1> USE IntMathAssumption DEF IsTime
<1>1. CASE t.sec < u.sec \/ u.sec < v.sec
  BY <1>1 DEF NotAfter
<1>2. CASE t.sec = u.sec /\ u.sec = v.sec
  <2>1. t.frac <= u.frac
    BY <1>2, FactorsOrdered DEF NotAfter
  <2>2. t.frac * v.hertz <= u.frac * v.hertz
    BY <2>1, ProductsOrdered
  <2>3. u.frac * v.hertz <= v.frac * u.hertz
    BY <1>2 DEF NotAfter
  <2> QED
    BY <1>2, <2>2, <2>3 DEF NotAfter
<1> QED
  BY <1>1, <1>2 DEF NotAfter

\* Time.Tick adds what it is given to the instant, and nothing else changes.
LEMMA TickIsExact ==
  ASSUME NEW t, IsTime(t), NEW d \in Nat
  PROVE  /\ IsTime(TickTime(t, d))
         /\ DOMAIN TickTime(t, d) = DOMAIN t
         /\ TickTime(t, d).hertz = t.hertz
         /\ Instant(TickTime(t, d)) = Instant(t) + d
<1> USE IntMathAssumption DEF IsTime
<1> DEFINE n == t.frac + d
           q == n \div t.hertz
           r == n % t.hertz
<1>1. TickTime(t, d) = [t EXCEPT !.sec = t.sec + q, !.frac = r]
  BY DEF TickTime
<1>2. n \in Nat /\ n = t.frac + d /\ t.hertz \in Nat \ {0}
  OBVIOUS
<1> HIDE DEF n
<1>3. q \in Nat /\ r \in 0 .. t.hertz - 1 /\ r = n - q * t.hertz
  BY Zenon, <1>2, Division
<1> HIDE DEF q, r
<1>4. /\ DOMAIN TickTime(t, d) = DOMAIN t
      /\ TickTime(t, d).sec = t.sec + q
      /\ TickTime(t, d).frac = r
      /\ TickTime(t, d).hertz = t.hertz
  BY <1>1
<1>5. (t.sec + q) * t.hertz = t.sec * t.hertz + q * t.hertz
  BY <1>3
<1> QED
  BY <1>2, <1>3, <1>4, <1>5 DEF Instant

\* Time.SetRate rounds up, and carries a fraction that has become a whole second.
LEMMA SetRateMovesForward ==
  ASSUME NEW t, IsTime(t), NEW rate \in 1 .. MaxUint
  PROVE  /\ IsTime(SetTimeRate(t, rate))
         /\ DOMAIN SetTimeRate(t, rate) = DOMAIN t
         /\ SetTimeRate(t, rate).hertz = rate
         /\ NotAfter(t, SetTimeRate(t, rate))
<1> USE IntMathAssumption DEF IsTime
<1> DEFINE f == Scale(t, t.frac, rate)
           u == SetTimeRate(t, rate)
<1>1. f \in 0 .. rate /\ t.frac * rate <= f * t.hertz
  BY ScaledFraction DEF Scale
<1>2. u = [t EXCEPT !.sec = IF f >= rate THEN t.sec + 1 ELSE t.sec,
                    !.frac = IF f >= rate THEN f - rate ELSE f,
                    !.hertz = rate]
  BY DEF SetTimeRate
<1> HIDE DEF f, u
<1>3. /\ DOMAIN u = DOMAIN t
      /\ u.sec = IF f >= rate THEN t.sec + 1 ELSE t.sec
      /\ u.frac = IF f >= rate THEN f - rate ELSE f
      /\ u.hertz = rate
  BY <1>2
<1>4. IsTime(u)
  BY <1>1, <1>3
<1>5. NotAfter(t, u)
  BY <1>1, <1>3 DEF NotAfter
<1> QED
  BY <1>3, <1>4, <1>5 DEF u

\* Time.FastForwardTo goes to a later instant or nowhere.
LEMMA ForwardMovesForward ==
  ASSUME NEW t, IsTime(t), NEW s \in Nat, NEW f \in 0 .. t.hertz - 1
  PROVE  /\ IsTime(ForwardTime(t, s, f))
         /\ DOMAIN ForwardTime(t, s, f) = DOMAIN t
         /\ ForwardTime(t, s, f).hertz = t.hertz
         /\ NotAfter(t, ForwardTime(t, s, f))
         /\ s * t.hertz + f <= Instant(ForwardTime(t, s, f))
<1> USE IntMathAssumption DEF IsTime
<1>1. CASE ~ IsFuture(t, s, f)
  <2>1. s * t.hertz + f <= Instant(t)
    <3>1. CASE s < t.sec
      <4>1. (s + 1) * t.hertz <= t.sec * t.hertz
        BY <3>1, ProductsOrdered
      <4> QED
        BY <4>1 DEF Instant
    <3>2. CASE s = t.sec /\ f <= t.frac
      BY <3>2 DEF Instant
    <3> QED
      BY <1>1, <3>1, <3>2 DEF IsFuture
  <2> QED
    BY <1>1, <2>1 DEF ForwardTime, NotAfter
<1>2. CASE IsFuture(t, s, f)
  <2> DEFINE u == ForwardTime(t, s, f)
  <2>1. u = [t EXCEPT !.sec = s, !.frac = f]
    BY <1>2 DEF ForwardTime
  <2> HIDE DEF u
  <2>2. DOMAIN u = DOMAIN t /\ u.sec = s /\ u.frac = f /\ u.hertz = t.hertz
    BY <2>1
  <2>3. NotAfter(t, u)
    <3>1. CASE s # t.sec
      BY <1>2, <2>2, <3>1 DEF IsFuture, NotAfter
    <3>2. CASE s = t.sec
      <4>1. t.frac <= f
        BY <1>2, <3>2 DEF IsFuture
      <4> QED
        BY <2>2, <3>2, <4>1, ProductsOrdered DEF NotAfter
    <3> QED
      BY <3>1, <3>2
  <2>4. s * t.hertz + f <= Instant(u)
    BY <2>2 DEF Instant
  <2> QED
    BY <2>2, <2>3, <2>4 DEF u
<1> QED
  BY <1>1, <1>2

\* The quotient is where the dividend lies among the multiples of the divisor.
LEMMA QuotientBounds ==
  ASSUME NEW n \in Nat, NEW d \in Nat \ {0}
  PROVE  n \div d \in Nat /\ (n \div d) * d <= n /\ n < (n \div d + 1) * d
BY Division

\* The quotient is the only number with its remainder in range.
LEMMA QuotientIs ==
  ASSUME NEW n \in Nat, NEW d \in Nat \ {0}, NEW q \in Nat, q * d <= n, n < (q + 1) * d
  PROVE  n \div d = q
<1> DEFINE p == n \div d
<1>1. p \in Nat /\ p * d <= n
  BY Division
<1>2. q <= p
  BY QuotientIsGreatest
<1> HIDE DEF p
<1>3. p * d < (q + 1) * d
  BY <1>1
<1>4. p < q + 1
  BY <1>1, <1>3
<1> QED
  BY <1>1, <1>2, <1>4 DEF p

\* SetRate gives the first instant of the new rate that is not before the old one.
LEMMA SetRateIsLeast ==
  ASSUME NEW t, IsTime(t), NEW rate \in 1 .. MaxUint
  PROVE  LET u == SetTimeRate(t, rate) IN
         /\ Instant(t) \in Nat /\ Instant(u) \in Nat
         /\ Instant(t) * rate <= Instant(u) * t.hertz
         /\ \A q \in Nat : Instant(t) * rate <= q * t.hertz => Instant(u) <= q
<1> USE IntMathAssumption
<1> DEFINE u == SetTimeRate(t, rate)
           f == MulDivCeil(t.frac, rate, t.hertz)
           e == (t.frac * rate + t.hertz - 1) \div t.hertz
           a == t.sec
           b == t.frac
           h == t.hertz
<1>1. a \in Nat /\ h \in Nat \ {0} /\ b \in Nat /\ b < h /\ h <= MaxUint
      /\ rate \in Nat \ {0} /\ rate <= MaxUint
      /\ {"sec", "frac", "hertz"} \subseteq DOMAIN t
  BY DEF IsTime
<1>2. f \in 0 .. rate /\ b * rate <= f * h
  BY <1>1, ScaledFraction
<1>3. f = e
  <2>1. e \in Nat \/ e \in Int
    BY <1>1, CeilingDivision
  <2> QED
    BY <1>2, <2>1 DEF MulDivCeil, Quotient, Overflow
<1>4. u = [t EXCEPT !.sec = IF f >= rate THEN a + 1 ELSE a,
                    !.frac = IF f >= rate THEN f - rate ELSE f,
                    !.hertz = rate]
  BY DEF SetTimeRate, Scale
<1> HIDE DEF f, u
<1>5. /\ u.sec = IF f >= rate THEN a + 1 ELSE a
      /\ u.frac = IF f >= rate THEN f - rate ELSE f
      /\ u.hertz = rate
  BY <1>1, <1>4
<1>6. Instant(t) = a * h + b
  BY DEF Instant
<1> HIDE DEF a, b, h
<1>7. Instant(u) = a * rate + f
  <2>1. (a + 1) * rate = a * rate + rate /\ a * rate \in Nat
    BY <1>1
  <2>2. Instant(u) = u.sec * rate + u.frac
    BY <1>5 DEF Instant
  <2> QED
    BY <1>1, <1>2, <1>5, <2>1, <2>2
<1>8. a * h \in Nat /\ a * rate \in Nat /\ b * rate \in Nat /\ f * h \in Nat /\ f \in Nat
  BY <1>1, <1>2
<1>9. (a * h + b) * rate = (a * rate) * h + b * rate
  BY <1>1
<1>10. (a * rate + f) * h = (a * rate) * h + f * h
  BY <1>1, <1>2
<1>11. (a * rate) * h \in Nat
  BY <1>1, <1>8
<1>12. (a * h + b) * rate <= (a * rate + f) * h
  BY <1>2, <1>8, <1>9, <1>10, <1>11
<1>13. ASSUME NEW q \in Nat, (a * h + b) * rate <= q * h
       PROVE  a * rate + f <= q
  <2>1. q * h \in Nat /\ (a * rate) * h + b * rate <= q * h
    BY <1>1, <1>9, <1>13
  <2>2. (a * rate) * h <= q * h
    BY <1>8, <1>11, <2>1
  <2>3. a * rate <= q
    BY <1>1, <1>8, <2>2, FactorsOrdered
  <2> DEFINE d == q - a * rate
  <2>4. d \in Nat /\ q = a * rate + d
    BY <1>8, <2>3
  <2> HIDE DEF d
  <2>5. q * h = (a * rate) * h + d * h
    BY <1>1, <1>8, <2>4
  <2>6. b * rate <= d * h
    BY <1>1, <1>8, <1>11, <2>1, <2>4, <2>5
  <2>7. e <= d
    BY <1>1, <1>8, <2>4, <2>6, CeilingIsLeast DEF b, h
  <2> QED
    BY <1>3, <1>8, <2>4, <2>7
<1>14. Instant(t) \in Nat /\ Instant(u) \in Nat
  BY <1>1, <1>6, <1>7, <1>8
<1> QED
  BY <1>6, <1>7, <1>12, <1>13, <1>14 DEF u, h

\* What SetRate makes of two times is ordered like these.
LEMMA RatesOrdered ==
  ASSUME NEW t, NEW u, IsTime(t), IsTime(u), t.hertz = u.hertz, Instant(t) <= Instant(u),
         NEW rate \in 1 .. MaxUint
  PROVE  Instant(SetTimeRate(t, rate)) <= Instant(SetTimeRate(u, rate))
<1> DEFINE a == Instant(t)
           b == Instant(u)
           p == Instant(SetTimeRate(t, rate))
           q == Instant(SetTimeRate(u, rate))
<1>1. a \in Nat /\ p \in Nat /\ \A z \in Nat : a * rate <= z * t.hertz => p <= z
  BY Zenon, SetRateIsLeast
<1>2. b \in Nat /\ q \in Nat /\ b * rate <= q * u.hertz
  BY Zenon, SetRateIsLeast
<1>3. a <= b
  OBVIOUS
<1>4. t.hertz \in Nat /\ u.hertz = t.hertz /\ rate \in Nat
  BY IntMathAssumption DEF IsTime
<1> HIDE DEF a, b, p, q
<1>5. a * rate <= b * rate /\ a * rate \in Nat /\ b * rate \in Nat
  BY <1>1, <1>2, <1>3, <1>4, ProductsOrdered
<1>6. q * t.hertz \in Nat
  BY <1>2, <1>4
<1>7. a * rate <= q * t.hertz
  BY <1>2, <1>4, <1>5, <1>6
<1> QED
  BY <1>1, <1>2, <1>7 DEF p, q

\* FastForwardTo moves to the instant it is given unless that is past, and returns
\* the difference.
LEMMA ForwardIsExact ==
  ASSUME NEW t, IsTime(t), NEW s \in Nat, NEW f \in 0 .. t.hertz - 1
  PROVE  LET to == s * t.hertz + f
             sk == Skipped(t, s, f)
             u == ForwardTime(t, s, f)
         IN /\ Instant(u) = IF to > Instant(t) THEN to ELSE Instant(t)
            /\ to <= Instant(t) => u = t
            /\ sk.sec \in Nat /\ sk.frac \in 0 .. t.hertz - 1
            /\ sk.sec * t.hertz + sk.frac = Instant(u) - Instant(t)
<1> USE IntMathAssumption
<1> DEFINE to == s * t.hertz + f
           sk == Skipped(t, s, f)
           u == ForwardTime(t, s, f)
           a == t.sec
           b == t.frac
           h == t.hertz
<1>1. /\ a \in Nat /\ h \in Nat \ {0} /\ b \in Nat /\ b < h /\ f \in Nat /\ f < h
      /\ {"sec", "frac", "hertz"} \subseteq DOMAIN t
  BY DEF IsTime
<1>2. Instant(t) = a * h + b
  BY DEF Instant
<1>3. IsFuture(t, s, f) <=> IF s # a THEN s > a ELSE f > b
  BY DEF IsFuture
<1>4. sk = IF ~ IsFuture(t, s, f) THEN [sec |-> 0, frac |-> 0]
           ELSE IF b > f THEN [sec |-> s - a - 1, frac |-> h - (b - f)]
           ELSE [sec |-> s - a, frac |-> f - b]
  BY DEF Skipped
<1>5. u = IF IsFuture(t, s, f) THEN [t EXCEPT !.sec = s, !.frac = f] ELSE t
  BY DEF ForwardTime
<1>6. a * h \in Nat /\ s * h \in Nat
  BY <1>1
<1>7. ASSUME IsFuture(t, s, f)
      PROVE  /\ Instant(u) = s * h + f
             /\ s * h + f > a * h + b
             /\ sk.sec \in Nat /\ sk.frac \in 0 .. h - 1
             /\ sk.sec * h + sk.frac = (s * h + f) - (a * h + b)
  <2>1. u.sec = s /\ u.frac = f /\ u.hertz = h
    BY <1>1, <1>5, <1>7
  <2>2. Instant(u) = s * h + f
    BY <2>1 DEF Instant
  <2> HIDE DEF a, b, h, u, sk
  <2>3. CASE s = a
    <3>1. f > b
      BY <1>3, <1>7, <2>3
    <3>2. sk.sec = 0 /\ sk.frac = f - b
      BY <1>1, <1>4, <1>7, <2>3, <3>1
    <3> QED
      BY <1>1, <1>6, <2>2, <2>3, <3>1, <3>2
  <2>4. CASE s # a
    <3> DEFINE d == s - a - 1
    <3>1. d \in Nat /\ s = a + 1 + d
      BY <1>1, <1>3, <1>7, <2>4
    <3> HIDE DEF d
    <3>2. s * h = a * h + h + d * h /\ d * h \in Nat
      BY <1>1, <3>1
    <3>3. CASE b > f
      <4>1. sk.sec = d /\ sk.frac = h - (b - f)
        BY <1>4, <1>7, <3>3 DEF d
      <4> QED
        BY <1>1, <1>6, <2>2, <3>1, <3>2, <3>3, <4>1
    <3>4. CASE ~ (b > f)
      <4>1. sk.sec = d + 1 /\ sk.frac = f - b
        BY <1>1, <1>4, <1>7, <3>1, <3>4
      <4>2. (d + 1) * h = d * h + h
        BY <1>1, <3>1
      <4> QED
        BY <1>1, <1>6, <2>2, <3>1, <3>2, <3>4, <4>1, <4>2
    <3> QED
      BY <3>3, <3>4
  <2> QED
    BY <2>3, <2>4
<1>8. ASSUME ~ IsFuture(t, s, f)
      PROVE  /\ u = t /\ s * h + f <= a * h + b
             /\ sk.sec = 0 /\ sk.frac = 0
  <2>1. u = t /\ sk.sec = 0 /\ sk.frac = 0
    BY <1>4, <1>5, <1>8
  <2> HIDE DEF a, b, h, u, sk
  <2>2. CASE s = a
    <3>1. f <= b
      BY <1>1, <1>3, <1>8, <2>2
    <3> QED
      BY <1>1, <1>6, <2>1, <2>2, <3>1
  <2>3. CASE s # a
    <3>1. s + 1 <= a
      BY <1>1, <1>3, <1>8, <2>3
    <3>2. (s + 1) * h <= a * h
      BY <1>1, <3>1, ProductsOrdered
    <3>3. (s + 1) * h = s * h + h
      BY <1>1
    <3> QED
      BY <1>1, <1>6, <2>1, <3>2, <3>3
  <2> QED
    BY <2>2, <2>3
<1> HIDE DEF a, b, h, u, sk
<1>9. /\ Instant(u) = IF s * h + f > a * h + b THEN s * h + f ELSE a * h + b
      /\ s * h + f <= a * h + b => u = t
      /\ sk.sec \in Nat /\ sk.frac \in 0 .. h - 1
      /\ sk.sec * h + sk.frac = Instant(u) - (a * h + b)
  <2>1. CASE IsFuture(t, s, f)
    BY <1>1, <1>6, <1>7, <2>1
  <2>2. CASE ~ IsFuture(t, s, f)
    <3>1. Instant(u) = a * h + b /\ sk.sec * h = 0
      BY <1>1, <1>2, <1>8, <2>2
    <3> QED
      BY <1>1, <1>6, <1>8, <2>2, <3>1
  <2> QED
    BY <2>1, <2>2
<1> QED
  BY <1>2, <1>9 DEF h, u, sk

----------------------------------------------------------------------------
\* Gas clocks

Fields == {"sec", "frac", "hertz", "target", "excess", "cfg"}

\* A price configuration that GasPriceConfig.Validate accepts.
PriceConfig == [scaling : 1 .. MaxUint, min : 1 .. MaxUint, static : BOOLEAN]

IsClock(c) ==
  /\ DOMAIN c = Fields /\ IsTime(c)
  /\ c.target \in 1 .. MaxTarget /\ c.hertz = RateOf(c.target)
  /\ c.excess \in Word
  /\ c.cfg \in PriceConfig

\* clampTarget and rateOf give a target and a rate that fit a word.
LEMMA ClampedRate ==
  ASSUME NEW target \in Nat
  PROVE  /\ ClampTarget(target) \in 1 .. MaxTarget
         /\ RateOf(ClampTarget(target)) \in 1 .. MaxUint
BY IntMathAssumption, GasTimeAssumption
   DEF RateOf, ClampTarget, Smaller, MaxTarget, TargetToRate

\* The numbers of a clock: its rate is twice its target.
LEMMA ClockNumbers ==
  ASSUME NEW c, IsClock(c)
  PROVE  /\ c.target \in Nat \ {0} /\ c.hertz \in Nat \ {0} /\ c.hertz = 2 * c.target
         /\ c.hertz \in 1 .. MaxUint /\ c.target <= MaxUint
         /\ c.excess \in Nat /\ c.excess <= MaxUint /\ MaxUint \in Nat \ {0}
         /\ Instant(c) \in Nat
         /\ c.cfg.scaling \in 1 .. MaxUint /\ c.cfg.min \in 1 .. MaxUint
         /\ c.cfg.min \in Word
<1>1. c.hertz \in 1 .. MaxUint /\ c.sec \in Nat /\ c.frac \in Nat
  BY IntMathAssumption DEF IsClock, IsTime
<1>2. c.target \in Nat \ {0} /\ c.hertz = 2 * c.target
  BY IntMathAssumption DEF IsClock, RateOf, TargetToRate, MaxTarget
<1>3. c.cfg.scaling \in 1 .. MaxUint /\ c.cfg.min \in 1 .. MaxUint
  BY Zenon DEF IsClock, PriceConfig
<1>4. c.excess \in Nat /\ c.excess <= MaxUint
  BY IntMathAssumption DEF IsClock, Word
<1>5. Instant(c) \in Nat
  BY <1>1, IntMathAssumption DEF Instant
<1> QED
  BY <1>1, <1>2, <1>3, <1>4, <1>5, IntMathAssumption DEF Word

\* excessScalingFactor is positive, and a word.
LEMMA ScalingFactor ==
  ASSUME NEW a \in 1 .. MaxUint, NEW b \in 1 .. MaxUint
  PROVE  BoundedMultiply(a, b, MaxUint) \in 1 .. MaxUint
<1>1. a \in Nat \ {0} /\ b \in Nat \ {0} /\ MaxUint \in Nat \ {0}
  BY IntMathAssumption
<1>2. CASE a > MaxUint \div b
  BY <1>1, <1>2 DEF BoundedMultiply
<1>3. CASE ~ (a > MaxUint \div b)
  <2> DEFINE q == MaxUint \div b
  <2>1. q \in Nat /\ q * b <= MaxUint
    BY <1>1, Division
  <2> HIDE DEF q
  <2>2. a <= q
    BY <1>1, <1>3, <2>1 DEF q
  <2>3. a * b <= q * b /\ a * b \in Nat
    BY <1>1, <2>1, <2>2, ProductsOrdered
  <2>4. a * b \in 1 .. MaxUint
    BY <1>1, <2>1, <2>3
  <2>5. (a * b) % (MaxUint + 1) = a * b
    <3> DEFINE n == a * b
    <3>1. n \in 1 .. MaxUint
      BY <2>4
    <3> HIDE DEF n
    <3>2. n % (MaxUint + 1) = n
      BY <1>1, <3>1
    <3> QED
      BY <3>2 DEF n
  <2> QED
    BY <1>1, <1>3, <2>4, <2>5 DEF BoundedMultiply, WrapMultiply
<1> QED
  BY <1>2, <1>3

\* e is the least excess with the price, or the greatest word.
IsLeastExcess(cfg, k, price, e) ==
  /\ e \in Word
  /\ cfg.static => e = 0
  /\ ~ cfg.static =>
       /\ \A x \in 0 .. e - 1 : CalculatePrice(cfg.min, x, k) < price
       /\ e = MaxUint \/ CalculatePrice(cfg.min, e, k) >= price

\* findExcessForPrice searches the whole range of words.
LEMMA FindIsSearch ==
  ASSUME NEW c, NEW price
  PROVE  FindExcessForPrice(c, price) =
           IF price <= c.cfg.min \/ c.cfg.static THEN 0
           ELSE SearchFrom(c.cfg.min, ExcessScalingFactor(c), price)[<<0, MaxUint>>]
BY Zenon DEF FindExcessForPrice, SearchFrom, IsSearch, Ranges, Middle, RangeEnds, NextRange

\* The scaling factor of a clock is positive.
LEMMA ClockScalingFactor ==
  ASSUME NEW c, c.target \in 1 .. MaxTarget, c.cfg \in PriceConfig
  PROVE  /\ ExcessScalingFactor(c) \in Nat \ {0}
         /\ c.cfg.min \in Nat /\ c.cfg.min \in Word /\ MaxUint \in Nat
<1>1. c.cfg.scaling \in 1 .. MaxUint /\ c.cfg.min \in 1 .. MaxUint
  BY Zenon DEF PriceConfig
<1>2. c.target \in 1 .. MaxUint
  BY IntMathAssumption DEF MaxTarget, TargetToRate
<1>3. ExcessScalingFactor(c) \in 1 .. MaxUint
  BY <1>1, <1>2, ScalingFactor DEF ExcessScalingFactor
<1> QED
  BY <1>1, <1>3, IntMathAssumption DEF Word

\* findExcessForPrice is exact.
LEMMA ExcessForPrice ==
  ASSUME NEW c, c.target \in 1 .. MaxTarget, c.cfg \in PriceConfig, NEW price \in Nat
  PROVE  IsLeastExcess(c.cfg, ExcessScalingFactor(c), price, FindExcessForPrice(c, price))
<1> DEFINE min == c.cfg.min
           k == ExcessScalingFactor(c)
           e == FindExcessForPrice(c, price)
           r == <<0, MaxUint>>
<1>1. k \in Nat \ {0} /\ min \in Nat /\ min \in Word /\ MaxUint \in Nat
  BY ClockScalingFactor
<1>2. e = IF price <= min \/ c.cfg.static THEN 0 ELSE SearchFrom(min, k, price)[r]
  BY Zenon, FindIsSearch
<1> HIDE DEF k, e
<1>3. r \in Ranges /\ r[1] = 0 /\ r[2] = MaxUint
  BY <1>1 DEF Ranges, Word
<1> HIDE DEF r
<1>4. CASE c.cfg.static
  <2>1. e = 0 /\ e \in Word
    BY <1>1, <1>2, <1>4 DEF Word
  <2> QED
    BY Zenon, <1>4, <2>1 DEF IsLeastExcess, k, e
<1>5. CASE ~ c.cfg.static /\ price <= min
  <2>1. e = 0
    BY <1>2, <1>5
  <2>2. CalculatePrice(min, 0, k) = min
    BY <1>1, PriceWithoutExcess
  <2>3. \A x \in 0 .. e - 1 : FALSE
    BY <2>1
  <2>4. CalculatePrice(min, e, k) >= price /\ e \in Word
    BY <1>1, <1>5, <2>1, <2>2 DEF Word
  <2> QED
    BY Zenon, <1>5, <2>3, <2>4 DEF IsLeastExcess, k, e
<1>6. CASE ~ c.cfg.static /\ ~ (price <= min)
  <2>1. e = SearchFrom(min, k, price)[r]
    BY <1>2, <1>6
  <2>2. r[1] <= r[2]
    BY <1>1, <1>3
  <2>3. /\ e \in 0 .. MaxUint
        /\ \A x \in 0 .. e - 1 : CalculatePrice(min, x, k) < price
        /\ e = MaxUint \/ CalculatePrice(min, e, k) >= price
    BY Zenon, <1>1, <1>3, <2>1, <2>2, SearchFinds
  <2> QED
    BY Zenon, <1>6, <2>3 DEF IsLeastExcess, k, e, Word
<1> QED
  BY Zenon, <1>4, <1>5, <1>6

\* A higher price needs no lower excess.
LEMMA ExcessesOrdered ==
  ASSUME NEW c, NEW d, c.target = d.target, c.cfg = d.cfg,
         c.target \in 1 .. MaxTarget, c.cfg \in PriceConfig,
         NEW p \in Nat, NEW q \in Nat, p <= q
  PROVE  FindExcessForPrice(c, p) <= FindExcessForPrice(d, q)
<1> DEFINE k == ExcessScalingFactor(c)
           min == c.cfg.min
           e == FindExcessForPrice(c, p)
           g == FindExcessForPrice(d, q)
<1>1. IsLeastExcess(c.cfg, k, p, e)
  BY Zenon, ExcessForPrice
<1>2. ExcessScalingFactor(d) = k
  BY Zenon DEF ExcessScalingFactor
<1>3. IsLeastExcess(c.cfg, k, q, g)
  BY Zenon, <1>2, ExcessForPrice
<1>4. k \in Nat \ {0} /\ min \in Nat /\ MaxUint \in Nat
  BY ClockScalingFactor
<1> HIDE DEF k, e, g
<1>5. e \in Word /\ g \in Word
  BY Zenon, <1>1, <1>3 DEF IsLeastExcess
<1>6. e \in Nat /\ e <= MaxUint /\ g \in Nat /\ g <= MaxUint
  BY <1>4, <1>5 DEF Word
<1>7. CASE c.cfg.static
  <2>1. e = 0
    BY Zenon, <1>1, <1>7 DEF IsLeastExcess
  <2>2. e <= g
    BY <1>6, <2>1
  <2> QED
    BY <2>2 DEF e, g
<1>8. CASE ~ c.cfg.static
  <2>1. /\ \A x \in 0 .. e - 1 : CalculatePrice(min, x, k) < p
        /\ g = MaxUint \/ CalculatePrice(min, g, k) >= q
    BY Zenon, <1>1, <1>3, <1>8 DEF IsLeastExcess
  <2>2. CalculatePrice(min, g, k) \in Nat
    <3>1. g <= g
      BY <1>6
    <3>2. CalculatePrice(min, g, k) \in Word
      BY <1>4, <1>6, <3>1, PricesOrdered
    <3> QED
      BY <1>4, <3>2 DEF Word
  <2> HIDE DEF min
  <2>3. g < e => g \in 0 .. e - 1 /\ g # MaxUint
    BY <1>6
  <2>4. ~ (g < e)
    BY <2>1, <2>2, <2>3
  <2>5. e <= g
    BY <1>6, <2>4
  <2> QED
    BY <2>5 DEF e, g
<1> QED
  BY Zenon, <1>7, <1>8

----------------------------------------------------------------------------
\* Time.BeforeBlock

Larger(a, b) == IF a > b THEN a ELSE b
IsBlockTime(h) == h.sec \in Nat /\ h.sub \in 0 .. Second - 1

\* The instant at which a block may start, at some rate.
StartInstant(h, hertz) == h.sec * hertz + SubSecond(h.sub, hertz)

\* What is left of the excess when some units of the rate are skipped.
ExcessAfter(c, units) == Larger(c.excess - (units * c.target) \div c.hertz, 0)

\* The two bounded subtractions are one.
LEMMA ForwardExcessIsExact ==
  ASSUME NEW c, IsClock(c), NEW sk, sk.sec \in Nat, sk.frac \in 0 .. c.hertz - 1
  PROVE  ForwardExcess(c, sk) = ExcessAfter(c, sk.sec * c.hertz + sk.frac)
<1> DEFINE T == c.target
           h == c.hertz
           x == c.excess
           s == sk.sec
           f == sk.frac
           q == (f * T) \div h
           w == IF x \div T >= s THEN x - s * T ELSE 0
<1>1. /\ T \in Nat \ {0} /\ h \in Nat \ {0} /\ h = 2 * T /\ T <= MaxUint
      /\ x \in Nat /\ x <= MaxUint /\ MaxUint \in Nat \ {0}
  BY ClockNumbers
<1>2. s \in Nat /\ f \in Nat /\ f < h
  BY <1>1
<1> HIDE DEF s, f, T, h, x
<1>3. f * T \in Nat /\ q \in Nat /\ q * h <= f * T /\ f * T < (q + 1) * h
  <2>1. f * T \in Nat
    BY <1>1, <1>2
  <2> QED
    BY Zenon, <1>1, <2>1, QuotientBounds
<1>4. q <= T
  <2>1. f * T <= h * T
    BY <1>1, <1>2, ProductsOrdered
  <2>2. q * h <= T * h
    BY <1>1, <1>3, <2>1
  <2> QED
    BY <1>1, <1>3, <2>2, FactorsOrdered
<1> HIDE DEF q
<1>5. s * T \in Nat /\ s * h \in Nat
  BY <1>1, <1>2
<1>6. ((s * h + f) * T) \div h = s * T + q
  <2>1. (s * h + f) * T = (s * T) * h + f * T
    BY <1>1, <1>2
  <2>2. (s * T + q) * h = (s * T) * h + q * h
    BY <1>1, <1>2, <1>3
  <2>3. (s * T + q + 1) * h = (s * T) * h + (q + 1) * h
    BY <1>1, <1>2, <1>3
  <2>4. (s * T) * h \in Nat /\ q * h \in Nat /\ (q + 1) * h \in Nat
    BY <1>1, <1>3, <1>5
  <2> DEFINE n == (s * h + f) * T
             p == s * T + q
  <2>5. n \in Nat /\ p \in Nat /\ p * h <= n /\ n < (p + 1) * h
    BY <1>3, <1>5, <2>1, <2>2, <2>3, <2>4
  <2> HIDE DEF n, p
  <2>6. n \div h = p
    BY <1>1, <2>5, QuotientIs
  <2> QED
    BY <2>6 DEF n, p
<1>7. MulDiv(f, T, h) = q
  BY <1>1, <1>3, <1>4 DEF MulDiv, Quotient, q
<1>8. \A a \in Nat : BoundedSubtract(a, q, 0) = IF a <= q THEN 0 ELSE a - q
  BY <1>1, <1>3, <1>4 DEF BoundedSubtract, WrapAdd
<1>9. x \div T >= s <=> x >= s * T
  <2> DEFINE e == x \div T
  <2>1. e \in Nat /\ e * T <= x
    BY Zenon, <1>1, QuotientBounds
  <2>2. s * T <= x => s <= e
    BY <1>1, <1>2, QuotientIsGreatest
  <2> HIDE DEF e
  <2>3. s <= e => s * T <= e * T
    BY <1>1, <1>2, <2>1, ProductsOrdered
  <2>4. e * T \in Nat
    BY <1>1, <2>1
  <2>5. e >= s <=> x >= s * T
    BY <1>1, <1>2, <1>5, <2>1, <2>2, <2>3, <2>4
  <2> QED
    BY <2>5 DEF e
<1>10. w \in Nat /\ w = IF x >= s * T THEN x - s * T ELSE 0
  BY <1>1, <1>5, <1>9
<1>11. ForwardExcess(c, sk) = BoundedSubtract(w, q, 0)
  BY <1>7 DEF ForwardExcess, s, f, T, h, x
<1> HIDE DEF w
<1>12. ForwardExcess(c, sk) = IF w <= q THEN 0 ELSE w - q
  BY <1>8, <1>10, <1>11
<1>13. ExcessAfter(c, s * h + f) = Larger(x - (s * T + q), 0)
  BY <1>6 DEF ExcessAfter, T, h, x
<1>14. ForwardExcess(c, sk) = ExcessAfter(c, s * h + f)
  BY <1>1, <1>3, <1>5, <1>10, <1>12, <1>13 DEF Larger
<1> QED
  BY <1>14 DEF s, h, f

\* BeforeBlock moves the clock up to the start of the block, if that is not past, and
\* takes the excess for what it has skipped.
LEMMA BeforeBlockIsExact ==
  ASSUME NEW c, IsClock(c), NEW h, IsBlockTime(h)
  PROVE  LET v == BeforeBlock(c, h)
             start == StartInstant(h, c.hertz)
         IN /\ IsClock(v)
            /\ v.target = c.target /\ v.hertz = c.hertz /\ v.cfg = c.cfg
            /\ start \in Nat
            /\ Instant(v) = Larger(start, Instant(c))
            /\ start <= Instant(c) => v.sec = c.sec /\ v.frac = c.frac
            /\ v.excess = ExcessAfter(c, Instant(v) - Instant(c))
<1> DEFINE f == SubSecond(h.sub, c.hertz)
           s1 == h.sec + f \div c.hertz
           f1 == f % c.hertz
           u == ForwardTime(c, s1, f1)
           sk == Skipped(c, s1, f1)
           v == BeforeBlock(c, h)
           start == StartInstant(h, c.hertz)
<1>0. /\ c.hertz \in 1 .. MaxUint /\ c.hertz \in Nat \ {0} /\ h.sec \in Nat
      /\ h.sub \in 0 .. Second - 1 /\ c.excess \in Nat /\ c.excess <= MaxUint
      /\ Instant(c) \in Nat /\ c.target \in Nat \ {0}
  BY ClockNumbers DEF IsBlockTime
<1>1. IsTime(c) /\ DOMAIN c = Fields
  BY DEF IsClock
<1>2. f \in Nat
  <2>1. MulDivCeil(h.sub, c.hertz, Second) \in 0 .. c.hertz
    BY <1>0, ScaledFraction, GasTimeAssumption
  <2> QED
    BY <1>0, <2>1 DEF SubSecond
<1> HIDE DEF f
<1>3. s1 \in Nat /\ f1 \in 0 .. c.hertz - 1 /\ s1 * c.hertz + f1 = h.sec * c.hertz + f
  <2> DEFINE q == f \div c.hertz
  <2>1. q \in Nat /\ f1 \in 0 .. c.hertz - 1 /\ f1 = f - q * c.hertz
    BY Zenon, <1>0, <1>2, Division
  <2>2. s1 = h.sec + q
    OBVIOUS
  <2> HIDE DEF q, s1, f1
  <2> QED
    BY <1>0, <1>2, <2>1, <2>2
<1>4. v = [u EXCEPT !.excess = ForwardExcess(c, sk)]
  BY DEF BeforeBlock, FastForwardTo, f
<1>5. start = s1 * c.hertz + f1
  BY <1>3 DEF StartInstant, f
<1> HIDE DEF s1, f1, start
<1>6. start \in Nat
  BY <1>0, <1>3, <1>5
<1>7. IsTime(u) /\ DOMAIN u = Fields /\ u.hertz = c.hertz
  BY <1>1, <1>3, ForwardMovesForward
<1>8. /\ Instant(u) = IF start > Instant(c) THEN start ELSE Instant(c)
      /\ start <= Instant(c) => u = c
      /\ sk.sec \in Nat /\ sk.frac \in 0 .. c.hertz - 1
      /\ sk.sec * c.hertz + sk.frac = Instant(u) - Instant(c)
  BY <1>1, <1>3, <1>5, ForwardIsExact
<1>9. u.target = c.target /\ u.cfg = c.cfg
  BY <1>1 DEF ForwardTime, Fields
<1> HIDE DEF u, v, sk
<1>10. /\ DOMAIN v = Fields /\ v.sec = u.sec /\ v.frac = u.frac /\ v.hertz = c.hertz
       /\ v.target = c.target /\ v.cfg = c.cfg /\ v.excess = ForwardExcess(c, sk)
  BY <1>4, <1>7, <1>9 DEF Fields
<1>11. Instant(v) = Instant(u) /\ IsTime(v)
  BY <1>7, <1>10 DEF Instant, IsTime, Fields
<1>12. v.excess = ExcessAfter(c, Instant(v) - Instant(c))
  BY <1>8, <1>10, <1>11, ForwardExcessIsExact
<1>13. v.excess \in Word
  <2> DEFINE d == Instant(v) - Instant(c)
             e == (d * c.target) \div c.hertz
  <2>1. d \in Nat
    BY <1>0, <1>6, <1>8, <1>11
  <2> HIDE DEF d
  <2>2. d * c.target \in Nat
    BY <1>0, <2>1
  <2>3. e \in Nat
    BY Zenon, <1>0, <2>2, Division
  <2> HIDE DEF e
  <2>4. v.excess = Larger(c.excess - e, 0)
    BY <1>12 DEF ExcessAfter, d, e
  <2> QED
    BY <1>0, <2>3, <2>4, IntMathAssumption DEF Larger, Word
<1>14. IsClock(v)
  BY <1>10, <1>11, <1>13 DEF IsClock
<1>15. Instant(v) = Larger(start, Instant(c))
  BY <1>8, <1>11 DEF Larger
<1>16. start <= Instant(c) => v.sec = c.sec /\ v.frac = c.frac
  BY <1>8, <1>10
<1> QED
  BY <1>6, <1>10, <1>12, <1>14, <1>15, <1>16 DEF v, start

----------------------------------------------------------------------------
\* Time.AfterBlock

\* Tick adds the gas to the instant, and to the excess the part above the target.
LEMMA TickIsClock ==
  ASSUME NEW c, IsClock(c), NEW used \in Word
  PROVE  LET k == Tick(c, used) IN
         /\ IsClock(k) /\ k.target = c.target /\ k.hertz = c.hertz /\ k.cfg = c.cfg
         /\ k.sec = TickTime(c, used).sec /\ k.frac = TickTime(c, used).frac
         /\ Instant(k) = Instant(c) + used
         /\ (used * c.target) \div c.hertz \in Nat
         /\ k.excess = Smaller(c.excess + (used * c.target) \div c.hertz, MaxUint)
<1> DEFINE t == TickTime(c, used)
           k == Tick(c, used)
           T == c.target
           h == c.hertz
           q == (used * T) \div h
<1>1. /\ T \in Nat \ {0} /\ h \in Nat \ {0} /\ h = 2 * T
      /\ c.excess \in Nat /\ c.excess <= MaxUint /\ MaxUint \in Nat \ {0}
  BY ClockNumbers
<1>2. used \in Nat /\ used <= MaxUint
  BY <1>1 DEF Word
<1>3. IsTime(t) /\ DOMAIN t = Fields /\ t.hertz = h /\ Instant(t) = Instant(c) + used
  BY <1>2, TickIsExact DEF IsClock
<1>4. t.target = T /\ t.cfg = c.cfg
  BY DEF TickTime, IsClock, Fields
<1>5. q \in Nat /\ q <= MaxUint
  <2> HIDE DEF T, h
  <2>1. used * T \in Nat
    BY <1>1, <1>2
  <2>2. q \in Nat /\ q * h <= used * T
    BY Zenon, <1>1, <2>1, QuotientBounds
  <2>3. T * used <= h * used /\ h * used \in Nat
    BY <1>1, <1>2, ProductsOrdered
  <2>4. q * h <= used * h
    BY <1>1, <1>2, <2>1, <2>2, <2>3
  <2>5. q <= used
    BY <1>1, <1>2, <2>2, <2>4, FactorsOrdered
  <2> QED
    BY <1>1, <1>2, <2>2, <2>5
<1>6. TickExcess(c, used) = Smaller(c.excess + q, MaxUint)
  <2>1. h - T = T
    BY <1>1
  <2>2. MulDiv(used, h - T, h) = q
    BY <1>1, <1>5, <2>1 DEF MulDiv, Quotient
  <2> HIDE DEF q, h, T
  <2>3. BoundedAdd(c.excess, q, MaxUint) = Smaller(c.excess + q, MaxUint)
    BY <1>1, <1>5 DEF BoundedAdd, Smaller
  <2> QED
    BY <2>2, <2>3 DEF TickExcess, h, T
<1>7. k = [t EXCEPT !.excess = TickExcess(c, used)]
  BY DEF Tick
<1> HIDE DEF t, k, q
<1>8. /\ DOMAIN k = Fields /\ k.sec = t.sec /\ k.frac = t.frac /\ k.hertz = h
      /\ k.target = T /\ k.cfg = c.cfg /\ k.excess = TickExcess(c, used)
  BY <1>3, <1>4, <1>7 DEF Fields
<1>9. k.excess \in Word
  BY <1>1, <1>5, <1>6, <1>8 DEF Smaller, Word
<1>10. IsTime(k) /\ Instant(k) = Instant(t)
  BY <1>3, <1>8 DEF IsTime, Fields, Instant
<1>11. IsClock(k)
  BY <1>8, <1>9, <1>10 DEF IsClock
<1> QED
  BY <1>3, <1>5, <1>6, <1>8, <1>10, <1>11 DEF t, k, q

\* An excess at another rate, rounded up and within a word.
ScaledExcess(x, rate, hertz) == Smaller((x * rate + hertz - 1) \div hertz, MaxUint)

\* SetTarget changes the rate, and scales the excess.
LEMMA SetTargetIsClock ==
  ASSUME NEW c, IsClock(c), NEW target \in Nat
  PROVE  LET w == SetTarget(c, target)
             rate == RateOf(ClampTarget(target))
             u == SetTimeRate(c, rate)
         IN /\ IsClock(w) /\ w.target = ClampTarget(target) /\ w.cfg = c.cfg
            /\ w.sec = u.sec /\ w.frac = u.frac /\ w.hertz = u.hertz
            /\ Instant(w) = Instant(u) /\ NotAfter(c, w)
            /\ w.excess = ScaledExcess(c.excess, rate, c.hertz)
<1> DEFINE rate == RateOf(ClampTarget(target))
           u == SetTimeRate(c, rate)
           w == SetTarget(c, target)
           x == Scale(c, c.excess, rate)
           q == (c.excess * rate + c.hertz - 1) \div c.hertz
<1>1. /\ rate \in 1 .. MaxUint /\ ClampTarget(target) \in 1 .. MaxTarget
      /\ c.hertz \in Nat \ {0} /\ c.excess \in Nat /\ MaxUint \in Nat \ {0} /\ rate \in Nat
  BY ClampedRate, ClockNumbers
<1>2. /\ IsTime(u) /\ DOMAIN u = Fields /\ NotAfter(c, u) /\ u.hertz = rate
  BY <1>1, SetRateMovesForward DEF IsClock
<1>3. u.cfg = c.cfg
  BY DEF SetTimeRate, IsClock, Fields
<1>4. w = [u EXCEPT !.excess = IF x = Overflow THEN MaxUint ELSE x,
                    !.target = ClampTarget(target)]
  BY Zenon DEF SetTarget
<1>5. q \in Nat
  <2>1. c.excess * rate \in Nat
    BY <1>1
  <2> QED
    BY <1>1, <2>1, CeilingDivision
<1>6. (IF x = Overflow THEN MaxUint ELSE x) = Smaller(q, MaxUint)
  BY <1>1, <1>5 DEF Scale, MulDivCeil, Quotient, Overflow, Smaller
<1>7. RateOf(ClampTarget(target)) = rate
  OBVIOUS
<1> HIDE DEF u, w, x, q, rate
<1>8. /\ DOMAIN w = Fields /\ w.sec = u.sec /\ w.frac = u.frac /\ w.hertz = u.hertz
      /\ w.target = ClampTarget(target) /\ w.cfg = c.cfg /\ w.excess = Smaller(q, MaxUint)
  BY <1>2, <1>3, <1>4, <1>6 DEF Fields
<1>9. w.excess \in Word
  BY <1>1, <1>5, <1>8 DEF Smaller, Word
<1>10. IsTime(w) /\ Instant(w) = Instant(u) /\ NotAfter(c, w)
  BY <1>2, <1>8 DEF IsTime, Fields, Instant, NotAfter
<1>11. IsClock(w)
  BY <1>1, <1>2, <1>7, <1>8, <1>9, <1>10 DEF IsClock
<1> QED
  BY <1>8, <1>10, <1>11 DEF w, u, rate, ScaledExcess, q

\* The price of a clock is a word.
LEMMA PriceIsWord ==
  ASSUME NEW c, IsClock(c)
  PROVE  Price(c) \in Nat /\ Price(c) <= MaxUint
<1>1. /\ c.cfg.min \in 1 .. MaxUint /\ MaxUint \in Nat \ {0} /\ c.excess \in Nat
      /\ c.excess <= c.excess
  BY ClockNumbers
<1>2. ExcessScalingFactor(c) \in Nat \ {0} /\ c.cfg.min \in Nat
  BY ClockScalingFactor DEF IsClock
<1>3. CalculatePrice(c.cfg.min, c.excess, ExcessScalingFactor(c)) \in Word
  BY <1>1, <1>2, PricesOrdered
<1> QED
  BY <1>1, <1>3 DEF Price, Word

\* AfterBlock: a tick, the new target, and an excess that keeps the price of the moment
\* when the price configuration changes.
LEMMA AfterBlockIsClock ==
  ASSUME NEW c, IsClock(c), NEW used \in Word, NEW h, h.target \in Nat, h.cfg \in PriceConfig
  PROVE  LET k == Tick(c, used)
             w == SetTarget(k, h.target)
             v == AfterBlock(c, used, h)
         IN /\ IsClock(v)
            /\ v.target = ClampTarget(h.target) /\ v.cfg = h.cfg
            /\ v.sec = w.sec /\ v.frac = w.frac /\ v.hertz = w.hertz /\ Instant(v) = Instant(w)
            /\ NotAfter(k, v)
            /\ h.cfg = c.cfg => v.excess = w.excess
            /\ h.cfg # c.cfg =>
                 v.excess = FindExcessForPrice([w EXCEPT !.cfg = h.cfg], Price(k))
<1> DEFINE k == Tick(c, used)
           w == SetTarget(k, h.target)
           z == [w EXCEPT !.cfg = h.cfg]
           y == FindExcessForPrice(z, Price(k))
           v == AfterBlock(c, used, h)
<1>1. IsClock(k) /\ k.cfg = c.cfg
  BY TickIsClock
<1>2. IsClock(w) /\ w.target = ClampTarget(h.target) /\ w.cfg = c.cfg /\ NotAfter(k, w)
  BY <1>1, SetTargetIsClock
<1>3. v = IF h.cfg = c.cfg THEN w ELSE [z EXCEPT !.excess = y]
  BY Zenon DEF AfterBlock
<1>4. Price(k) \in Nat
  BY <1>1, PriceIsWord
<1> HIDE DEF k, w, v
<1>5. /\ DOMAIN z = Fields /\ z.sec = w.sec /\ z.frac = w.frac /\ z.hertz = w.hertz
      /\ z.target = w.target /\ z.cfg = h.cfg
  BY <1>2 DEF IsClock, Fields
<1>6. z.target \in 1 .. MaxTarget /\ z.cfg \in PriceConfig
  BY <1>2, <1>5 DEF IsClock
<1> HIDE DEF z
<1>7. y \in Word
  BY <1>4, <1>6, ExcessForPrice DEF IsLeastExcess
<1> HIDE DEF y
<1>8. CASE h.cfg = c.cfg
  <2>1. v = w
    BY <1>3, <1>8
  <2> QED
    BY <1>2, <1>8, <2>1 DEF k, w, v
<1>9. CASE h.cfg # c.cfg
  <2>1. v = [z EXCEPT !.excess = y]
    BY <1>3, <1>9
  <2>2. /\ DOMAIN v = Fields /\ v.sec = w.sec /\ v.frac = w.frac /\ v.hertz = w.hertz
        /\ v.target = w.target /\ v.cfg = h.cfg /\ v.excess = y
    BY <1>5, <2>1 DEF Fields
  <2>3. IsClock(v)
    BY <1>2, <1>7, <2>2 DEF IsClock, IsTime
  <2>4. Instant(v) = Instant(w) /\ NotAfter(k, v)
    BY <1>2, <2>2 DEF Instant, NotAfter
  <2> QED
    BY <1>2, <1>9, <2>2, <2>3, <2>4 DEF k, w, v, y, z
<1> QED
  BY <1>8, <1>9
=============================================================================
