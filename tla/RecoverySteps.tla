--------------------------- MODULE RecoverySteps ---------------------------
(***************************************************************************)
(* Facts about the chains, commits, reference counts and databases of      *)
(* Recovery, and that every step of the executor preserves the invariant   *)
(* of RecoveryInductive.                                                   *)
(***************************************************************************)
EXTENDS RecoveryInductive, HeadersProofs, FiniteSetTheorems

----------------------------------------------------------------------------
\* Chains

\* A header's time and gas are numbers.
LEMMA HeaderFields ==
  ASSUME NEW b \in Header
  PROVE  b.time \in Nat /\ b.gas \in Nat
<1>1. b.time \in BlockTimes /\ b.gas \in GasUsed
  BY Zenon DEF Header
<1> QED
  BY Zenon, <1>1, RecoveryAssumption

\* The lemmas about headers apply to the chains of this module.
LEMMA OrderedChain ==
  ASSUME NEW c, Ordered(c)
  PROVE  /\ Numeric(c) /\ Len(c) \in Nat
         /\ \A h \in 1 .. Len(c) : c[h] \in Header
<1>1. c \in Seq(Header)
  BY DEF Ordered
<1>2. Len(c) \in Nat /\ \A h \in 1 .. Len(c) : c[h] \in Header
  BY <1>1
<1> QED
  BY <1>2, HeaderFields DEF Numeric

\* A block settles one below it, and at least what those below it settle.
LEMMA SettledHeights ==
  ASSUME NEW c, Ordered(c)
  PROVE  /\ \A h \in 0 .. Len(c) : SettledHeight(c, h) \in 0 .. h
         /\ \A h \in 1 .. Len(c) : SettledHeight(c, h) < h
         /\ \A i \in 0 .. Len(c) : \A j \in i .. Len(c) :
              SettledHeight(c, i) <= SettledHeight(c, j)
<1>1. Numeric(c) /\ Len(c) \in Nat
  BY OrderedChain
<1>2. \A h \in 1 .. Len(c) : SettledHeight(c, h) \in 0 .. h - 1
  BY <1>1, SettledHeightDef
<1>3. SettledHeight(c, 0) = 0
  BY DEF SettledHeight
<1>4. ASSUME NEW i \in 0 .. Len(c), NEW j \in i .. Len(c)
      PROVE  SettledHeight(c, i) <= SettledHeight(c, j)
  <2>1. i = 0 \/ c[i].time <= c[j].time
    BY <1>1 DEF Ordered
  <2> QED
    BY <1>1, <2>1, SettledHeightMonotone
<1> QED
  BY <1>1, <1>2, <1>3, <1>4

\* A root is a number; it goes up by one with every block that changes the state.
LEMMA Roots ==
  ASSUME NEW c
  PROVE  /\ \A h \in Nat : Root(c, h) \in Nat
         /\ Root(c, 0) = 0
         /\ \A h \in Nat : Root(c, h + 1) = IF c[h + 1].change THEN Root(c, h) + 1 ELSE Root(c, h)
         /\ \A i, j \in Nat : i <= j => Root(c, i) <= Root(c, j)
<1> DEFINE Changed(h) == {x \in 1 .. h : c[x].change}
<1>1. \A h \in Nat : IsFiniteSet(Changed(h)) /\ Cardinality(Changed(h)) \in Nat
  <2> TAKE h \in Nat
  <2>1. IsFiniteSet(1 .. h)
    BY FS_Interval
  <2>2. Changed(h) \in SUBSET (1 .. h)
    OBVIOUS
  <2>3. IsFiniteSet(Changed(h))
    BY <2>1, <2>2, FS_Subset
  <2> QED
    BY <2>3, FS_CardinalityType
<1>2. Cardinality(Changed(0)) = 0
  <2>1. Changed(0) = {}
    OBVIOUS
  <2> QED
    BY <2>1, FS_EmptySet
<1>3. ASSUME NEW h \in Nat
      PROVE  Cardinality(Changed(h + 1)) =
               IF c[h + 1].change THEN Cardinality(Changed(h)) + 1 ELSE Cardinality(Changed(h))
  <2>1. CASE c[h + 1].change
    <3>1. Changed(h + 1) = Changed(h) \cup {h + 1} /\ h + 1 \notin Changed(h)
      BY <2>1
    <3> HIDE DEF Changed
    <3> QED
      BY <1>1, <2>1, <3>1, FS_AddElement
  <2>2. CASE ~ c[h + 1].change
    <3>1. Changed(h + 1) = Changed(h)
      BY <2>2
    <3> HIDE DEF Changed
    <3> QED
      BY <2>2, <3>1
  <2> QED
    BY <2>1, <2>2
<1>4. ASSUME NEW i \in Nat, NEW j \in Nat, i <= j
      PROVE  Cardinality(Changed(i)) <= Cardinality(Changed(j))
  <2>1. Changed(i) \in SUBSET Changed(j)
    BY <1>4
  <2> HIDE DEF Changed
  <2> QED
    BY <1>1, <2>1, FS_Subset
<1>5. \A h : Root(c, h) = Cardinality(Changed(h))
  BY DEF Root
<1> HIDE DEF Changed
<1> QED
  BY <1>1, <1>2, <1>3, <1>4, <1>5

\* What a chain determines about a block is the same in every longer chain.
LEMMA Prefixes ==
  ASSUME NEW c, NEW e, Ordered(c), Ordered(e), Prefix(c, e)
  PROVE  \A h \in 0 .. Len(c) :
           /\ Root(c, h) = Root(e, h)
           /\ SettledHeight(c, h) = SettledHeight(e, h)
           /\ SettledStateRoot(c, h) = SettledStateRoot(e, h)
           /\ BlockAt(c, h) = BlockAt(e, h)
<1>0. Numeric(c) /\ Numeric(e) /\ Len(c) \in Nat /\ Len(e) \in Nat /\ Len(c) <= Len(e)
  BY OrderedChain DEF Prefix
<1>1. \A h \in 0 .. Len(c) : Root(c, h) = Root(e, h)
  <2> TAKE h \in 0 .. Len(c)
  <2>1. {x \in 1 .. h : c[x].change} = {x \in 1 .. h : e[x].change}
    BY <1>0 DEF Prefix
  <2> QED
    BY Zenon, <2>1 DEF Root
<1>2. \A h \in 0 .. Len(c) : SettledHeight(c, h) = SettledHeight(e, h)
  <2>1. SameUpTo(c, e, Len(c))
    BY <1>0 DEF SameUpTo, Prefix
  <2> QED
    BY <1>0, <2>1, SettledHeightPrefix
<1>3. \A h \in 0 .. Len(c) : SettledHeight(c, h) \in 0 .. Len(c)
  BY <1>0, SettledHeights
<1>4. \A h \in 0 .. Len(c) : SettledStateRoot(c, h) = SettledStateRoot(e, h)
  BY <1>1, <1>2, <1>3 DEF SettledStateRoot
<1>5. ASSUME NEW h \in 0 .. Len(c)
      PROVE  BlockAt(c, h) = BlockAt(e, h)
  <2>1. c \in Seq(Header) /\ e \in Seq(Header)
    BY DEF Ordered
  <2>2. SubSeq(c, 1, h) = [i \in 1 .. h |-> c[i]]
    BY <1>0, <2>1
  <2>3. SubSeq(e, 1, h) = [i \in 1 .. h |-> e[i]]
    BY <1>0, <2>1
  <2>4. \A i \in 1 .. h : c[i] = e[i]
    BY <1>0 DEF Prefix
  <2> QED
    BY <2>2, <2>3, <2>4 DEF BlockAt
<1> QED
  BY <1>1, <1>2, <1>4, <1>5

\* A chain with one more block.
LEMMA AppendOrdered ==
  ASSUME NEW c, Ordered(c), NEW b \in Header,
         c = <<>> \/ b.time >= c[Len(c)].time
  PROVE  /\ Ordered(Append(c, b)) /\ Prefix(c, Append(c, b))
         /\ Len(Append(c, b)) = Len(c) + 1
<1>0. c \in Seq(Header) /\ Len(c) \in Nat
  BY DEF Ordered
<1>1. /\ Append(c, b) \in Seq(Header) /\ Len(Append(c, b)) = Len(c) + 1
      /\ \A i \in 1 .. Len(c) : Append(c, b)[i] = c[i]
      /\ Append(c, b)[Len(c) + 1] = b
  BY <1>0
<1>2. \A i \in 1 .. Len(c) : c[i].time \in Nat /\ b.time \in Nat
  BY <1>0, HeaderFields
<1>3. \A i \in 1 .. Len(c) : c[i].time <= b.time
  <2> TAKE i \in 1 .. Len(c)
  <2>1. Len(c) \in 1 .. Len(c) /\ c # <<>>
    BY <1>0
  <2>2. c[i].time <= c[Len(c)].time /\ b.time >= c[Len(c)].time
    BY <2>1 DEF Ordered
  <2> QED
    BY <1>2, <2>1, <2>2
<1>4. ASSUME NEW i \in 1 .. Len(c) + 1, NEW j \in 1 .. Len(c) + 1, i <= j
      PROVE  Append(c, b)[i].time <= Append(c, b)[j].time
  <2>1. CASE j = Len(c) + 1 /\ i = Len(c) + 1
    BY <1>0, <1>1, <2>1, HeaderFields
  <2>2. CASE j = Len(c) + 1 /\ i # Len(c) + 1
    BY <1>0, <1>1, <1>3, <2>2
  <2>3. CASE j # Len(c) + 1
    <3>1. i \in 1 .. Len(c) /\ j \in 1 .. Len(c)
      BY <1>0, <1>4, <2>3
    <3> QED
      BY <1>1, <1>4, <3>1 DEF Ordered
  <2> QED
    BY <2>1, <2>2, <2>3
<1>5. Ordered(Append(c, b))
  BY <1>1, <1>4 DEF Ordered
<1> QED
  BY <1>0, <1>1, <1>5 DEF Prefix

----------------------------------------------------------------------------
\* Commit intervals

\* What div and mod are: the quotient and remainder of the division by the interval.
LEMMA Division ==
  ASSUME NEW n \in Nat, NEW d \in Nat \ {0}
  PROVE  /\ n \div d \in Nat /\ n % d \in 0 .. d - 1
         /\ n = (n \div d) * d + (n % d)
<1>1. n % d = n - (n \div d) * d
  OBVIOUS
<1> QED
  BY <1>1

\* A multiple of the interval leaves no remainder.
LEMMA MultipleRemainder ==
  ASSUME NEW q \in Nat, NEW d \in Nat \ {0}
  PROVE  q * d \in Nat /\ (q * d) % d = 0
<1> DEFINE k == (q * d) \div d
           r == (q * d) % d
<1>1. q * d \in Nat
  OBVIOUS
<1>2. k \in Nat /\ r \in 0 .. d - 1 /\ q * d = k * d + r
  BY Zenon, <1>1, Division
<1> HIDE DEF k, r
<1>3. (q - k) * d = r
  BY <1>2
<1>4. ~ (q - k >= 1)
  <2> SUFFICES ASSUME q - k >= 1 PROVE FALSE
    OBVIOUS
  <2>1. (q - k) * d >= d
    BY <1>2
  <2> QED
    BY <1>2, <1>3, <2>1
<1>5. ~ (q - k <= -1)
  <2> SUFFICES ASSUME q - k <= -1 PROVE FALSE
    OBVIOUS
  <2>1. (q - k) * d <= -d
    BY <1>2
  <2> QED
    BY <1>2, <1>3, <2>1
<1>6. q = k
  BY <1>2, <1>4, <1>5
<1>7. r = 0
  BY <1>2, <1>6
<1> QED
  BY <1>1, <1>7 DEF r

\* A multiple of a multiple of the interval is a multiple of the interval.
LEMMA MultipleOfMultiple ==
  ASSUME NEW x \in Nat, NEW a \in Nat \ {0}, NEW b \in Nat \ {0}, b % a = 0, x % b = 0
  PROVE  x % a = 0
<1> DEFINE p == b \div a
           q == x \div b
<1>1. p \in Nat /\ q \in Nat /\ b = p * a /\ x = q * b
  BY Division
<1> HIDE DEF p, q
<1>2. q * p \in Nat /\ x = (q * p) * a
  BY <1>1
<1> QED
  BY <1>2, MultipleRemainder

\* The greatest multiple of the interval up to a height is one.
LEMMA LastMultiples ==
  ASSUME NEW x \in Nat, NEW d \in Nat \ {0}
  PROVE  /\ LastCommittedTrieDBHeight(x, d) \in 0 .. x
         /\ ShouldCommitTrieDB(LastCommittedTrieDBHeight(x, d), d)
<1> DEFINE q == x \div d
<1>1. q \in Nat /\ x % d \in 0 .. d - 1 /\ x = q * d + (x % d)
  BY Zenon, Division
<1>2. x - (x % d) = q * d
  BY <1>1
<1>3. q * d \in Nat /\ (q * d) % d = 0
  BY Zenon, <1>1, MultipleRemainder
<1> HIDE DEF q
<1> QED
  BY <1>1, <1>2, <1>3 DEF LastCommittedTrieDBHeight, ShouldCommitTrieDB

\* The fields of a database config.
LEMMA ConfigFields ==
  ASSUME NEW cfg \in Configs
  PROVE  cfg.archival \in BOOLEAN /\ cfg.interval \in Nat \ {0}
<1>1. cfg \in [archival : BOOLEAN, interval : Nat \ {0}]
  BY RecoveryAssumption
<1> QED
  BY Zenon, <1>1

\* A compatible config finds on disk whatever the old one did.
LEMMA ConfigChange ==
  ASSUME NEW old \in Configs, NEW new \in Configs, CompatibleConfig(old, new),
         NEW c, Ordered(c), NEW D, 0 \in D, NEW n \in Int, n <= Len(c),
         CommittedUpTo(old, c, D, n)
  PROVE  CommittedUpTo(new, c, D, n)
<1> SUFFICES ASSUME NEW h \in 1 .. n, CommitsUnder(new, h)
             PROVE  CommittedRoot(new, c, h) \in D
  BY DEF CommittedUpTo
<1>0. Len(c) \in Nat /\ h \in 1 .. Len(c) /\ h \in Nat /\ LastSynchronous + h \in Nat
  BY OrderedChain, RecoveryAssumption
<1>1. /\ old.interval \in Nat \ {0} /\ new.interval \in Nat \ {0}
  BY ConfigFields
<1>2. CASE old.archival
  <2>1. \A x \in 1 .. n : Root(c, x) \in D
    BY <1>2 DEF CommittedUpTo, CommitsUnder, CommittedRoot
  <2>2. CASE new.archival
    BY <2>1, <2>2 DEF CommittedRoot
  <2>3. CASE ~ new.archival
    <3>1. SettledHeight(c, h) \in 0 .. h
      BY <1>0, SettledHeights
    <3>2. Root(c, SettledHeight(c, h)) \in D
      <4>1. CASE SettledHeight(c, h) = 0
        BY <4>1, Roots
      <4>2. CASE SettledHeight(c, h) # 0
        <5>1. SettledHeight(c, h) \in 1 .. n
          BY <1>0, <3>1, <4>2
        <5> QED
          BY <2>1, <5>1
      <4> QED
        BY <4>1, <4>2
    <3> QED
      BY <2>3, <3>2 DEF CommittedRoot, SettledStateRoot
  <2> QED
    BY <2>2, <2>3
<1>3. CASE ~ old.archival
  <2>1. ~ new.archival /\ new.interval % old.interval = 0
    BY <1>3 DEF CompatibleConfig
  <2>2. (LastSynchronous + h) % new.interval = 0
    BY <2>1 DEF CommitsUnder, ShouldCommitTrieDB
  <2>3. (LastSynchronous + h) % old.interval = 0
    BY <1>0, <1>1, <2>1, <2>2, MultipleOfMultiple
  <2>4. CommittedRoot(old, c, h) \in D
    BY <2>3 DEF CommittedUpTo, CommitsUnder, ShouldCommitTrieDB
  <2> QED
    BY <1>3, <2>1, <2>4 DEF CommittedRoot
<1> QED
  BY <1>2, <1>3

----------------------------------------------------------------------------
\* Where recovery starts

\* The block from which NewVM recovers has its state on disk; whatever would commit
\* an older settled state has it there already.
LEMMA StartOfRecovery ==
  ASSUME config \in Configs, Recoverable(Db, config, xdb), head # None
  PROVE  LET s == LastHeightWithExecutionRootCommitted IN
         /\ s \in 0 .. head /\ head \in Nat
         /\ Root(chain, s) \in disk
         /\ ~ config.archival =>
              /\ s <= SettledHeight(chain, Len(chain))
              /\ \A h \in 1 .. Len(chain) :
                   CommitsUnder(config, h) /\ SettledHeight(chain, h) <= s =>
                     SettledStateRoot(chain, h) \in disk
<1> DEFINE s == LastHeightWithExecutionRootCommitted
           S(h) == SettledHeight(chain, h)
<1>1. /\ Ordered(chain) /\ head \in Nat /\ head <= Len(chain) /\ 0 \in disk
      /\ CommittedUpTo(config, chain, disk, head)
  BY DEF Recoverable, Db
<1>2. Len(chain) \in Nat /\ config.interval \in Nat \ {0} /\ LastSynchronous \in Nat
  BY <1>1, OrderedChain, ConfigFields, RecoveryAssumption
<1>3. /\ \A h \in 0 .. Len(chain) : S(h) \in 0 .. h
      /\ \A i \in 0 .. Len(chain) : \A j \in i .. Len(chain) : S(i) <= S(j)
  BY <1>1, SettledHeights
<1>4. Root(chain, 0) = 0
  BY Roots
<1>5. CASE s = 0
  <2>1. S(Len(chain)) \in Nat
    BY <1>2, <1>3
  <2>2. ASSUME NEW h \in 1 .. Len(chain), S(h) <= 0
        PROVE  SettledStateRoot(chain, h) \in disk
    <3>1. S(h) = 0
      BY <1>2, <1>3, <2>2
    <3> QED
      BY <1>1, <1>4, <3>1 DEF SettledStateRoot
  <2> HIDE DEF s
  <2>3. s <= S(Len(chain))
    BY <1>5, <2>1
  <2> QED
    BY <1>1, <1>2, <1>4, <1>5, <2>2, <2>3 DEF s
<1>6. CASE s # 0 /\ config.archival
  <2>1. s = head /\ head \in 1 .. head
    BY <1>1, <1>6 DEF LastHeightWithExecutionRootCommitted
  <2>2. Root(chain, head) \in disk
    BY <1>6, <2>1, <1>1 DEF CommittedUpTo, CommitsUnder, CommittedRoot
  <2> HIDE DEF s
  <2> QED
    BY <1>1, <1>6, <2>1, <2>2 DEF s
<1>7. CASE s # 0 /\ ~ config.archival
  <2> DEFINE m == LastMultiple
  <2>1. s = S(m) /\ m > 0 /\ m \in Int /\ m <= head /\ CommitsUnder(config, m)
    <3> DEFINE l == LastCommittedTrieDBHeight(LastSynchronous + head, config.interval)
    <3>1. l \in 0 .. LastSynchronous + head /\ ShouldCommitTrieDB(l, config.interval)
      <4>1. LastSynchronous + head \in Nat
        BY <1>1, <1>2
      <4> QED
        BY Zenon, <1>2, <4>1, LastMultiples
    <3> HIDE DEF l
    <3>2. m = l - LastSynchronous
      BY DEF LastMultiple, l
    <3>3. ~ (m <= 0) /\ s = S(m)
      BY <1>7 DEF LastHeightWithExecutionRootCommitted
    <3> HIDE DEF s, m
    <3>4. m \in Int /\ m > 0 /\ m <= head /\ LastSynchronous + m = l
      BY <1>1, <1>2, <3>1, <3>2, <3>3
    <3> QED
      BY <3>1, <3>3, <3>4 DEF CommitsUnder
  <2> HIDE DEF s, m
  <2>2. m \in 1 .. head /\ m \in 1 .. Len(chain) /\ m \in 0 .. Len(chain)
    BY <1>1, <1>2, <2>1
  <2>3. Root(chain, s) \in disk
    BY <1>1, <1>7, <2>1, <2>2 DEF CommittedUpTo, CommittedRoot, SettledStateRoot
  <2>4. s \in 0 .. head
    BY <1>1, <1>3, <2>1, <2>2
  <2>5. s <= S(Len(chain))
    BY <1>2, <1>3, <2>1, <2>2
  <2>6. ASSUME NEW h \in 1 .. Len(chain), CommitsUnder(config, h), S(h) <= s
        PROVE  SettledStateRoot(chain, h) \in disk
    <3>1. CASE h <= head
      <4>1. h \in 1 .. head
        BY <3>1, <1>1
      <4> QED
        BY <1>1, <1>7, <2>6, <4>1 DEF CommittedUpTo, CommittedRoot
    <3>2. CASE ~ (h <= head)
      <4>1. h \in m .. Len(chain) /\ h \in 0 .. Len(chain)
        BY <1>1, <1>2, <2>2, <3>2
      <4>2. S(m) <= S(h) /\ S(h) \in Nat /\ S(m) \in Nat
        BY <1>2, <1>3, <2>2, <4>1
      <4>3. S(h) = s
        BY <2>1, <2>6, <4>2
      <4> QED
        BY <2>3, <4>3 DEF SettledStateRoot
    <3> QED
      BY <3>1, <3>2
  <2> QED
    BY <1>1, <1>7, <2>3, <2>4, <2>5, <2>6 DEF s
<1> QED
  BY <1>5, <1>6, <1>7

----------------------------------------------------------------------------
\* Counts

\* A count of blocks is a number, and zero only when none of them has the root.
LEMMA CountsAreNumbers ==
  ASSUME NEW c, NEW S, IsFiniteSet(S), NEW r
  PROVE  /\ Executions(c, S, r) \in Nat /\ Settlements(c, S, r) \in Nat
         /\ Executions(c, S, r) = 0 <=> \A h \in S : Root(c, h) # r
         /\ Settlements(c, S, r) = 0 <=> \A h \in S : SettledStateRoot(c, h) # r
<1> DEFINE E == {h \in S : Root(c, h) = r}
           T == {h \in S : SettledStateRoot(c, h) = r}
<1>1. E \in SUBSET S /\ T \in SUBSET S
  OBVIOUS
<1>2. /\ E = {} <=> \A h \in S : Root(c, h) # r
      /\ T = {} <=> \A h \in S : SettledStateRoot(c, h) # r
  OBVIOUS
<1>3. Executions(c, S, r) = Cardinality(E) /\ Settlements(c, S, r) = Cardinality(T)
  BY DEF Executions, Settlements
<1> HIDE DEF E, T
<1>4. IsFiniteSet(E) /\ IsFiniteSet(T)
  BY <1>1, FS_Subset
<1>5. /\ Cardinality(E) \in Nat /\ Cardinality(T) \in Nat
      /\ Cardinality(E) = 0 <=> E = {}
      /\ Cardinality(T) = 0 <=> T = {}
  BY <1>4, FS_CardinalityType, FS_EmptySet
<1> QED
  BY <1>2, <1>3, <1>5

\* Counts over two sets that have no height in common add up.
LEMMA CountsAdd ==
  ASSUME NEW c, NEW S, NEW T, IsFiniteSet(S), IsFiniteSet(T), S \cap T = {}, NEW r
  PROVE  /\ Executions(c, S \cup T, r) = Executions(c, S, r) + Executions(c, T, r)
         /\ Settlements(c, S \cup T, r) = Settlements(c, S, r) + Settlements(c, T, r)
<1>1. ASSUME NEW A \in SUBSET S, NEW B \in SUBSET T
      PROVE  Cardinality(A \cup B) = Cardinality(A) + Cardinality(B)
  <2>1. IsFiniteSet(A) /\ IsFiniteSet(B) /\ A \cap B = {}
    BY FS_Subset
  <2>2. Cardinality(A \cap B) = 0 /\ Cardinality(A) \in Nat /\ Cardinality(B) \in Nat
    BY Zenon, <2>1, FS_EmptySet, FS_CardinalityType
  <2>3. Cardinality(A \cup B) = Cardinality(A) + Cardinality(B) - Cardinality(A \cap B)
    BY <2>1, FS_Union
  <2> QED
    BY <2>2, <2>3
<1>2. Executions(c, S \cup T, r) = Executions(c, S, r) + Executions(c, T, r)
  <2> DEFINE A == {h \in S : Root(c, h) = r}
             B == {h \in T : Root(c, h) = r}
  <2>1. {h \in S \cup T : Root(c, h) = r} = A \cup B /\ A \in SUBSET S /\ B \in SUBSET T
    OBVIOUS
  <2> HIDE DEF A, B
  <2>2. Cardinality(A \cup B) = Cardinality(A) + Cardinality(B)
    BY <1>1, <2>1
  <2> QED
    BY <2>1, <2>2 DEF Executions, A, B
<1>3. Settlements(c, S \cup T, r) = Settlements(c, S, r) + Settlements(c, T, r)
  <2> DEFINE A == {h \in S : SettledStateRoot(c, h) = r}
             B == {h \in T : SettledStateRoot(c, h) = r}
  <2>1. /\ {h \in S \cup T : SettledStateRoot(c, h) = r} = A \cup B
        /\ A \in SUBSET S /\ B \in SUBSET T
    OBVIOUS
  <2> HIDE DEF A, B
  <2>2. Cardinality(A \cup B) = Cardinality(A) + Cardinality(B)
    BY <1>1, <2>1
  <2> QED
    BY <2>1, <2>2 DEF Settlements, A, B
<1> QED
  BY <1>2, <1>3

\* The counts of a single block.
LEMMA CountsOfOne ==
  ASSUME NEW c, NEW h, NEW r
  PROVE  /\ Executions(c, {h}, r) = IF Root(c, h) = r THEN 1 ELSE 0
         /\ Settlements(c, {h}, r) = IF SettledStateRoot(c, h) = r THEN 1 ELSE 0
<1>1. /\ {x \in {h} : Root(c, x) = r} = IF Root(c, h) = r THEN {h} ELSE {}
      /\ {x \in {h} : SettledStateRoot(c, x) = r} = IF SettledStateRoot(c, h) = r THEN {h} ELSE {}
  OBVIOUS
<1>2. Cardinality({}) = 0 /\ Cardinality({h}) = 1
  BY Zenon, FS_EmptySet, FS_Singleton
<1> QED
  BY <1>1, <1>2 DEF Executions, Settlements

\* The counts of the blocks of a chain are the same in every longer one.
LEMMA CountsOfPrefix ==
  ASSUME NEW c, NEW e, Ordered(c), Ordered(e), Prefix(c, e),
         NEW S \in SUBSET (0 .. Len(c)), NEW r
  PROVE  /\ Executions(c, S, r) = Executions(e, S, r)
         /\ Settlements(c, S, r) = Settlements(e, S, r)
<1>1. /\ {h \in S : Root(c, h) = r} = {h \in S : Root(e, h) = r}
      /\ {h \in S : SettledStateRoot(c, h) = r} = {h \in S : SettledStateRoot(e, h) = r}
  BY Zenon, Prefixes
<1> QED
  BY Zenon, <1>1 DEF Executions, Settlements

----------------------------------------------------------------------------
\* Several calls of the tracker

IsDirty(d) == DOMAIN d \subseteq Nat /\ d \in [DOMAIN d -> Nat]

\* TrackAll and UntrackAll have the effect of their calls one by one.  A single call:
LEMMA OneCall ==
  ASSUME NEW d, IsDirty(d), NEW root
  PROVE  LET once == [r \in DOMAIN d |-> IF r = root THEN 1 ELSE 0] IN
         /\ Track(d, root) = TrackAll(d, once)
         /\ Untrack(d, root) = UntrackAll(d, once)
<1> DEFINE once == [r \in DOMAIN d |-> IF r = root THEN 1 ELSE 0]
           K == {x \in DOMAIN d : once[x] = 0 \/ once[x] < d[x]}
<1>1. Track(d, root) = TrackAll(d, once)
  BY DEF Track, TrackAll, IsDirty
<1>2. CASE root \in DOMAIN d /\ d[root] > 1
  <2>1. K = DOMAIN d
    BY Zenon, <1>2
  <2>2. [r \in K |-> d[r] - once[r]] = [d EXCEPT ![root] = @ - 1]
    BY <1>2, <2>1 DEF IsDirty
  <2>3. UntrackAll(d, once) = [r \in K |-> d[r] - once[r]]
    BY DEF UntrackAll
  <2>4. Untrack(d, root) = [d EXCEPT ![root] = @ - 1]
    BY <1>2 DEF Untrack
  <2> QED
    BY <1>1, <2>2, <2>3, <2>4
<1>3. CASE ~ (root \in DOMAIN d /\ d[root] > 1)
  <2>1. K = DOMAIN d \ {root}
    BY <1>3 DEF IsDirty
  <2>2. [r \in K |-> d[r] - once[r]] = [r \in DOMAIN d \ {root} |-> d[r]]
    <3>1. ASSUME NEW r \in K PROVE d[r] - once[r] = d[r]
      <4>1. r \in DOMAIN d /\ once[r] = 0
        BY Zenon, <2>1
      <4>2. d[r] \in Nat
        BY <4>1 DEF IsDirty
      <4> HIDE DEF once, K
      <4> QED
        BY <4>1, <4>2
    <3> HIDE DEF once, K
    <3> QED
      BY <2>1, <3>1
  <2>3. UntrackAll(d, once) = [r \in K |-> d[r] - once[r]]
    BY DEF UntrackAll
  <2>4. Untrack(d, root) = [r \in DOMAIN d \ {root} |-> d[r]]
    BY <1>3 DEF Untrack, Drop, Restrict
  <2> QED
    BY <1>1, <2>2, <2>3, <2>4
<1> QED
  BY <1>2, <1>3

\* Some calls of Track, or of Untrack, and then some more are all of them at once.
LEMMA MoreCalls ==
  ASSUME NEW d, IsDirty(d), NEW a \in [DOMAIN d -> Nat], NEW b \in [DOMAIN d -> Nat]
  PROVE  LET both == [r \in DOMAIN d |-> a[r] + b[r]] IN
         /\ TrackAll(TrackAll(d, a), b) = TrackAll(d, both)
         /\ UntrackAll(UntrackAll(d, a), b) = UntrackAll(d, both)
<1> DEFINE both == [r \in DOMAIN d |-> a[r] + b[r]]
           K == {x \in DOMAIN d : both[x] = 0 \/ both[x] < d[x]}
           A == {x \in DOMAIN d : a[x] = 0 \/ a[x] < d[x]}
           u == [r \in A |-> d[r] - a[r]]
           B == {x \in A : b[x] = 0 \/ b[x] < u[x]}
<1>1. TrackAll(TrackAll(d, a), b) = TrackAll(d, both)
  BY DEF TrackAll, IsDirty
<1>2. B = K
  BY DEF IsDirty
<1>3. \A r \in K : u[r] - b[r] = d[r] - both[r]
  BY <1>2 DEF IsDirty
<1>4. /\ UntrackAll(d, a) = u /\ DOMAIN u = A
      /\ UntrackAll(d, both) = [r \in K |-> d[r] - both[r]]
  BY DEF UntrackAll
<1> HIDE DEF u
<1>5. UntrackAll(u, b) = [r \in B |-> u[r] - b[r]]
  BY <1>4 DEF UntrackAll
<1> HIDE DEF B, K
<1>6. UntrackAll(UntrackAll(d, a), b) = UntrackAll(d, both)
  <2>1. [r \in B |-> u[r] - b[r]] = [r \in K |-> d[r] - both[r]]
    BY Zenon, <1>2, <1>3
  <2> HIDE DEF both, A
  <2> QED
    BY Zenon, <1>4, <1>5, <2>1
<1> QED
  BY <1>1, <1>6

----------------------------------------------------------------------------
\* The log of writes

\* A chain is a prefix of itself, and of what its extensions are prefixes of.
LEMMA PrefixOrder ==
  ASSUME NEW a \in Seq(Header), NEW b \in Seq(Header), NEW c \in Seq(Header)
  PROVE  /\ Prefix(a, a)
         /\ Prefix(a, b) /\ Prefix(b, c) => Prefix(a, c)
<1>1. Len(a) \in Nat /\ Len(b) \in Nat /\ Len(c) \in Nat
  OBVIOUS
<1> QED
  BY <1>1 DEF Prefix

\* A step that leaves the disk alone.
LEMMA LogFrame ==
  ASSUME LogInv, UNCHANGED <<config, diskVars>>
  PROVE  LogInv'
<1>1. /\ config' = config /\ chain' = chain /\ finalized' = finalized /\ head' = head
      /\ disk' = disk /\ unsynced' = unsynced /\ xdb' = xdb
  BY DEF diskVars, dbVars
<1> QED
  BY Zenon, <1>1 DEF LogInv, Db

\* A sequence of databases, each from its chain on an extension of the one before.
Entries(log, cfg, R, c) ==
  /\ log \in Seq(Database)
  /\ \A i \in 1 .. Len(log) :
       /\ Recoverable(log[i], cfg, R)
       /\ Prefix(log[i].chain, c)
       /\ \A j \in i .. Len(log) : Prefix(log[i].chain, log[j].chain)

\* A write adds what the database was before it, and one that can no longer be lost
\* leaves at the other end.
LEMMA MoreEntries ==
  ASSUME NEW log, NEW cfg, NEW R, NEW c \in Seq(Header), Entries(log, cfg, R, c),
         NEW db, Recoverable(db, cfg, R), db.chain = c
  PROVE  /\ Entries(Append(log, db), cfg, R, c)
         /\ Entries(Tail(Append(log, db)), cfg, R, c)
         /\ \A n \in 1 .. Len(log) : Entries(SubSeq(log, 1, n - 1), cfg, R, log[n].chain)
<1> DEFINE n == Len(log)
           more == Append(log, db)
           rest == Tail(more)
<1>1. log \in Seq(Database) /\ n \in Nat /\ db \in Database
  BY DEF Entries, Recoverable
<1>2. /\ more \in Seq(Database) /\ more # <<>> /\ Len(more) = n + 1
      /\ \A i \in 1 .. n : more[i] = log[i]
      /\ more[n + 1] = db
  BY <1>1
<1>3. /\ rest \in Seq(Database) /\ Len(rest) = n
      /\ \A i \in 1 .. n : rest[i] = more[i + 1]
  <2> HIDE DEF more
  <2>1. rest \in Seq(Database) /\ Len(rest) = Len(more) - 1
        /\ \A i \in 1 .. Len(rest) : rest[i] = more[i + 1]
    BY <1>1, <1>2
  <2> HIDE DEF rest
  <2> QED
    BY <1>1, <1>2, <2>1
<1> HIDE DEF more, rest
<1>4. ASSUME NEW i \in 1 .. n + 1
      PROVE  /\ Recoverable(more[i], cfg, R)
             /\ Prefix(more[i].chain, c)
             /\ \A j \in i .. n + 1 : Prefix(more[i].chain, more[j].chain)
  <2>1. CASE i = n + 1
    <3>1. Prefix(c, c)
      BY PrefixOrder
    <3>2. \A j \in i .. n + 1 : j = n + 1
      BY <1>1, <2>1
    <3> QED
      BY <1>2, <2>1, <3>1, <3>2
  <2>2. CASE i \in 1 .. n
    <3>1. /\ Recoverable(log[i], cfg, R) /\ Prefix(log[i].chain, c)
          /\ \A j \in i .. n : Prefix(log[i].chain, log[j].chain)
      BY <2>2 DEF Entries
    <3>2. \A j \in i .. n + 1 : (j \in i .. n /\ j \in 1 .. n) \/ j = n + 1
      BY <1>1, <2>2
    <3> QED
      BY <1>2, <2>2, <3>1, <3>2
  <2> QED
    BY <1>1, <2>1, <2>2
<1>5. Entries(more, cfg, R, c)
  BY <1>2, <1>4 DEF Entries
<1>6. Entries(rest, cfg, R, c)
  <2> SUFFICES ASSUME NEW i \in 1 .. n
               PROVE  /\ Recoverable(rest[i], cfg, R)
                      /\ Prefix(rest[i].chain, c)
                      /\ \A j \in i .. n : Prefix(rest[i].chain, rest[j].chain)
    BY Zenon, <1>3 DEF Entries
  <2>1. i + 1 \in 1 .. n + 1 /\ \A j \in i .. n : j + 1 \in i + 1 .. n + 1 /\ j \in 1 .. n
    BY <1>1
  <2> QED
    BY Zenon, <1>3, <1>4, <2>1
<1>7. ASSUME NEW m \in 1 .. n
      PROVE  Entries(SubSeq(log, 1, m - 1), cfg, R, log[m].chain)
  <2> DEFINE old == SubSeq(log, 1, m - 1)
  <2>1. /\ old \in Seq(Database) /\ Len(old) = m - 1
        /\ \A i \in 1 .. m - 1 : old[i] = log[i]
    BY <1>1
  <2> HIDE DEF old
  <2>2. \A i \in 1 .. m - 1 :
          /\ i \in 1 .. n /\ m \in i .. n
          /\ \A j \in i .. m - 1 : j \in i .. n /\ j \in 1 .. m - 1
    BY <1>1
  <2> SUFFICES ASSUME NEW i \in 1 .. m - 1
               PROVE  /\ Recoverable(old[i], cfg, R)
                      /\ Prefix(old[i].chain, log[m].chain)
                      /\ \A j \in i .. m - 1 : Prefix(old[i].chain, old[j].chain)
    BY <2>1 DEF Entries, old
  <2>3. /\ Recoverable(log[i], cfg, R)
        /\ \A j \in i .. n : Prefix(log[i].chain, log[j].chain)
    BY <2>2 DEF Entries
  <2> QED
    BY <2>1, <2>2, <2>3
<1> QED
  BY <1>5, <1>6, <1>7 DEF more, rest

\* The entries stay good when the chain gets longer, and when the config and the
\* results change to others that are as good for each of them.
LEMMA SameEntries ==
  ASSUME NEW log, NEW cfg, NEW R, NEW c \in Seq(Header), Entries(log, cfg, R, c),
         NEW cfg2, NEW R2, NEW c2 \in Seq(Header), Prefix(c, c2),
         \A db : Recoverable(db, cfg, R) /\ Prefix(db.chain, c) => Recoverable(db, cfg2, R2)
  PROVE  Entries(log, cfg2, R2, c2)
<1> SUFFICES ASSUME NEW i \in 1 .. Len(log)
             PROVE  Recoverable(log[i], cfg2, R2) /\ Prefix(log[i].chain, c2)
  BY Zenon DEF Entries
<1>1. Recoverable(log[i], cfg, R) /\ Prefix(log[i].chain, c)
  BY ZenonT(60) DEF Entries
<1>2. log[i].chain \in Seq(Header)
  BY <1>1 DEF Recoverable, Ordered
<1> QED
  BY <1>1, <1>2, PrefixOrder

\* A step that writes to the database.
LEMMA LogWrites ==
  ASSUME LogInv, Write, Prefix(chain, chain'), Recoverable(Db, config, xdb)',
         \A db : Recoverable(db, config, xdb) => Recoverable(db, config', xdb')
  PROVE  LogInv'
<1>1. chain \in Seq(Header) /\ chain' \in Seq(Header) /\ Db.chain = chain
  BY DEF LogInv, Recoverable, Ordered, Db
<1>2. Entries(unsynced, config, xdb, chain) /\ Recoverable(Db, config, xdb)
  BY ZenonT(60) DEF LogInv, Entries
<1>3. /\ Entries(Append(unsynced, Db), config, xdb, chain)
      /\ Entries(Tail(Append(unsynced, Db)), config, xdb, chain)
  BY <1>1, <1>2, MoreEntries
<1>4. Entries(<<>>, config, xdb, chain)
  BY DEF Entries
<1>5. Entries(unsynced', config, xdb, chain)
  BY <1>3, <1>4 DEF Write, Db
<1>6. Entries(unsynced', config', xdb', chain')
  BY <1>1, <1>5, SameEntries
<1> QED
  BY ZenonT(60), <1>6 DEF LogInv, Entries

----------------------------------------------------------------------------
\* What the invariant says in each mode

\* What the invariant says of the database.
LEMMA DatabaseFacts ==
  ASSUME RInv
  PROVE  /\ Ordered(chain) /\ Len(chain) \in Nat /\ chain \in Seq(Header)
         /\ finalized \in Int /\ head \in Nat \cup {None} /\ disk \in SUBSET Nat
         /\ head <= Len(chain) /\ 0 \in disk
         /\ CommittedUpTo(config, chain, disk, head) /\ ResultsUpTo(xdb, chain, head)
         /\ config \in Configs /\ config.archival \in BOOLEAN /\ config.interval \in Nat \ {0}
<1>1. Recoverable(Db, config, xdb) /\ config \in Configs
  BY DEF RInv, LogInv, Types
<1>2. /\ Db \in Database /\ Db.chain = chain /\ Db.head = head /\ Db.disk = disk
      /\ Db.finalized = finalized
  BY <1>1 DEF Recoverable, Db
<1>3. finalized \in Int /\ disk \in SUBSET Nat
  BY <1>2 DEF Database
<1>4. /\ Ordered(chain) /\ head \in Nat \cup {None} /\ head <= Len(chain) /\ 0 \in disk
      /\ CommittedUpTo(config, chain, disk, head) /\ ResultsUpTo(xdb, chain, head)
  BY <1>1, <1>2 DEF Recoverable
<1> QED
  BY <1>1, <1>3, <1>4, OrderedChain, ConfigFields DEF Ordered

\* What the invariant says once the executor runs: recovery's first block, the last
\* executed one and the last of the chain are in this order.
LEMMA LiveFacts ==
  ASSUME RInv, Live
  PROVE  /\ enqueued = Len(chain) /\ Len(chain) \in Nat
         /\ executed \in 0 .. Len(chain) /\ start \in 0 .. executed
         /\ block \in Nat /\ block = executed + 1
         /\ epc # "idle" => block \in 1 .. Len(chain)
         /\ \A h \in Nat : Root(chain, h) \in Nat
         /\ \A i, j \in Nat : i <= j => Root(chain, i) <= Root(chain, j)
<1>1. /\ enqueued = Len(chain) /\ start <= executed /\ executed <= enqueued
      /\ epc # "idle" => executed < enqueued
  BY Zenon DEF RInv, ExecutorInv
<1>2. start \in Nat /\ executed \in Nat /\ enqueued \in Nat
  BY DEF RInv, Types
<1>3. /\ \A h \in Nat : Root(chain, h) \in Nat
      /\ \A i, j \in Nat : i <= j => Root(chain, i) <= Root(chain, j)
  BY Zenon, Roots
<1>4. /\ Len(chain) \in Nat
      /\ executed \in 0 .. Len(chain) /\ start \in 0 .. executed
      /\ block \in Nat /\ block = executed + 1
  BY <1>1, <1>2 DEF block
<1>5. epc # "idle" => block \in 1 .. Len(chain)
  BY <1>1, <1>2 DEF block
<1> QED
  BY Zenon, <1>1, <1>3, <1>4, <1>5

\* What the invariant says of a VM that runs: the map holds every block not executed
\* yet, and whatever a block of the chain settles has been executed.
LEMMA RunningFacts ==
  ASSUME RInv, mode = "running"
  PROVE  /\ Live
         /\ lastSettled = SettledHeight(chain, Len(chain)) /\ lastSettled \in 0 .. executed
         /\ critical \in SUBSET (0 .. Len(chain)) /\ IsFiniteSet(critical)
         /\ executed \in critical /\ executed + 1 .. Len(chain) \subseteq critical
         /\ \A h \in 0 .. Len(chain) :
              /\ SettledHeight(chain, h) \in 0 .. executed
              /\ SettledStateRoot(chain, h) \in Nat
              /\ SettledStateRoot(chain, h) <= Root(chain, executed)
<1>1. Live
  BY DEF Live
<1>2. Ordered(chain)
  BY DatabaseFacts
<1>3. /\ Len(chain) \in Nat /\ executed \in 0 .. Len(chain)
      /\ \A h \in Nat : Root(chain, h) \in Nat
      /\ \A i, j \in Nat : i <= j => Root(chain, i) <= Root(chain, j)
  BY <1>1, LiveFacts
<1>4. /\ lastSettled = SettledHeight(chain, Len(chain)) /\ lastSettled <= executed
      /\ critical = dropping \cup lastSettled .. Len(chain)
      /\ \A h \in dropping : h < lastSettled
  BY Zenon DEF RInv, RunningInv
<1>5. lastSettled \in Nat /\ dropping \subseteq Nat
  BY DEF RInv, Types
<1>6. critical \in SUBSET (0 .. Len(chain)) /\ lastSettled \in 0 .. executed
  <2>1. \A h \in critical : h \in dropping \/ h \in lastSettled .. Len(chain)
    BY <1>4
  <2>2. \A h \in lastSettled .. Len(chain) : h \in 0 .. Len(chain)
    BY <1>3, <1>5
  <2>3. \A h \in dropping : h \in 0 .. Len(chain)
    BY <1>3, <1>4, <1>5
  <2>4. lastSettled \in 0 .. executed
    BY <1>3, <1>4, <1>5
  <2> QED
    BY Zenon, <2>1, <2>2, <2>3, <2>4
<1>7. IsFiniteSet(critical)
  <2>1. IsFiniteSet(0 .. Len(chain))
    BY <1>3, FS_Interval
  <2> QED
    BY Zenon, <1>6, <2>1, FS_Subset
<1>8. executed \in critical /\ executed + 1 .. Len(chain) \subseteq critical
  BY <1>3, <1>4, <1>5
<1>9. ASSUME NEW h \in 0 .. Len(chain)
      PROVE  /\ SettledHeight(chain, h) \in 0 .. executed
             /\ SettledStateRoot(chain, h) \in Nat
             /\ SettledStateRoot(chain, h) <= Root(chain, executed)
  <2>1. SettledHeight(chain, h) \in 0 .. h
    BY <1>2, SettledHeights
  <2>2. SettledHeight(chain, h) <= SettledHeight(chain, Len(chain))
    <3>1. Len(chain) \in h .. Len(chain)
      BY <1>3
    <3> QED
      BY <1>2, <3>1, SettledHeights
  <2>3. SettledHeight(chain, h) \in 0 .. executed
    BY <1>3, <1>4, <1>5, <2>1, <2>2
  <2> QED
    BY <1>3, <2>3 DEF SettledStateRoot
<1> QED
  BY Zenon, <1>1, <1>4, <1>6, <1>7, <1>8, <1>9

\* The pending block's settled state.
LEMMA PendingFacts ==
  ASSUME RInv, pending # NoBlock
  PROVE  /\ mode = "running" /\ dropping = {} /\ pending \in Header
         /\ Ordered(Tip) /\ Len(Tip) = Len(chain) + 1 /\ Prefix(chain, Tip)
         /\ SettledHeight(Tip, Len(Tip)) \in 0 .. executed
         /\ SettledStateRoot(Tip, Len(Tip)) = Root(chain, SettledHeight(Tip, Len(Tip)))
         /\ SettledStateRoot(Tip, Len(Tip)) \in Nat
         /\ SettledStateRoot(Tip, Len(Tip)) <= Root(chain, executed)
<1>1. mode = "running" /\ pending \in Header
  BY DEF RInv, DownInv, Types
<1>2. dropping = {} /\ Ordered(Tip) /\ SettledHeight(Tip, Len(Tip)) <= executed
  BY Zenon, <1>1 DEF RInv, RunningInv
<1>3. Ordered(chain) /\ chain \in Seq(Header) /\ Len(chain) \in Nat
  BY DatabaseFacts
<1>4. Len(Tip) = Len(chain) + 1 /\ Prefix(chain, Tip)
  BY <1>1, <1>3 DEF Tip, Prefix
<1>5. SettledHeight(Tip, Len(Tip)) \in 0 .. Len(Tip)
  BY <1>2, <1>3, <1>4, SettledHeights
<1>6. executed \in 0 .. Len(chain)
  BY <1>1, LiveFacts DEF Live
<1>7. SettledHeight(Tip, Len(Tip)) \in 0 .. executed
      /\ SettledHeight(Tip, Len(Tip)) \in 0 .. Len(chain)
  BY <1>2, <1>3, <1>4, <1>5, <1>6
<1>8. SettledStateRoot(Tip, Len(Tip)) = Root(chain, SettledHeight(Tip, Len(Tip)))
  <2>1. Root(chain, SettledHeight(Tip, Len(Tip))) = Root(Tip, SettledHeight(Tip, Len(Tip)))
    BY <1>2, <1>3, <1>4, <1>7, Prefixes
  <2> QED
    BY <2>1 DEF SettledStateRoot
<1>9. /\ \A h \in Nat : Root(chain, h) \in Nat
      /\ \A i, j \in Nat : i <= j => Root(chain, i) <= Root(chain, j)
  BY Zenon, Roots
<1> QED
  BY <1>1, <1>2, <1>4, <1>6, <1>7, <1>8, <1>9

----------------------------------------------------------------------------
\* The references of a chain c, with K in the map, the post-execution states
\* tracked up to t, and a pending block or none.
PendingOn(c, p, r) ==
  IF p # NoBlock /\ SettledStateRoot(Append(c, p), Len(Append(c, p))) = r THEN 1 ELSE 0
Holders(c, K, t, p, r) ==
  Settlements(c, K, r) + Executions(c, {h \in K : h <= t}, r) + PendingOn(c, p, r)

\* That is what References counts, before and after a step.
LEMMA ReferencesAre ==
  /\ critical \subseteq Nat /\ executed \in Nat =>
       \A r : References(r) = Holders(chain, critical, Tracked, pending, r)
  /\ critical' \subseteq Nat /\ executed' \in Nat =>
       \A r : References(r)' = Holders(chain', critical', Tracked', pending', r)
<1>1. ASSUME critical \subseteq Nat, executed \in Nat, NEW r
      PROVE  References(r) = Holders(chain, critical, Tracked, pending, r)
  <2>1. ASSUME NEW h \in critical
        PROVE  h <= executed \/ (h = block /\ epc \in {"results", "batch", "mark"})
               <=> h <= Tracked
    <3>1. h \in Nat
      BY <1>1
    <3> QED
      BY <1>1, <3>1 DEF block, Tracked, Upto
  <2>2. {h \in critical :
           h <= executed \/ (h = block /\ epc \in {"results", "batch", "mark"})}
        = {h \in critical : h <= Tracked}
    BY Zenon, <2>1
  <2> QED
    BY Zenon, <2>2 DEF References, Holders, PendingOn, Tip
<1>2. ASSUME critical' \subseteq Nat, executed' \in Nat, NEW CONSTANT r
      PROVE  References(r)' = Holders(chain', critical', Tracked', pending', r)
  <2>1. ASSUME NEW h \in critical'
        PROVE  h <= executed' \/ (h = block' /\ epc' \in {"results", "batch", "mark"})
               <=> h <= Tracked'
    <3>1. h \in Nat
      BY <1>2
    <3>2. /\ Tracked' = IF epc' \in {"results", "batch", "mark"} THEN block' ELSE executed'
          /\ block' = executed' + 1
      BY DEF block, Tracked, Upto
    <3>3. h <= executed' + 1 <=> (h <= executed' \/ h = executed' + 1)
      <4>1. \A e \in Nat : h <= e + 1 <=> (h <= e \/ h = e + 1)
        BY <3>1
      <4> QED
        BY Zenon, <1>2, <4>1
    <3> QED
      BY Zenon, <3>2, <3>3
  <2>2. {h \in critical' :
           h <= executed' \/ (h = block' /\ epc' \in {"results", "batch", "mark"})}
        = {h \in critical' : h <= Tracked'}
    BY Zenon, <2>1
  <2> QED
    BY Zenon, <2>2 DEF References, Holders, PendingOn, Tip
<1> QED
  BY <1>1, <1>2

----------------------------------------------------------------------------
\* The executor

IsEpc(x) == x \in {"idle", "run", "commit", "track", "results", "batch", "mark"}

\* A step of the executor leaves the chain, the map and the mode alone.
LEMMA ExecutorFrame ==
  ASSUME RInv, Live, UNCHANGED <<config, chain, mode, mapVars, start, enqueued>>,
         executed' \in Nat, executed <= executed', IsEpc(epc'),
         DOMAIN dirty' \subseteq Nat, dirty' \in [DOMAIN dirty' -> Nat]
  PROVE  Types' /\ DownInv' /\ RunningInv' /\ Live'
<1>1. /\ config' = config /\ chain' = chain /\ mode' = mode /\ critical' = critical
      /\ settledBy' = settledBy /\ pending' = pending /\ lastSettled' = lastSettled
      /\ dropping' = dropping /\ start' = start /\ enqueued' = enqueued
  BY DEF mapVars
<1>2. Types'
  BY <1>1 DEF Types, RInv, IsEpc
<1>3. Live' /\ mode' # "booting"
  BY <1>1 DEF Live
<1>4. DownInv'
  BY <1>1, <1>3 DEF DownInv, RInv
<1>5. RunningInv'
  <2> SUFFICES ASSUME mode = "running" PROVE RunningInv'
    BY <1>1 DEF RunningInv
  <2>1. Tip' = Tip
    BY <1>1 DEF Tip
  <2>2. lastSettled <= executed'
    <3>1. lastSettled \in 0 .. executed
      BY RunningFacts
    <3>2. executed \in Nat
      BY DEF RInv, Types
    <3> QED
      BY <3>1, <3>2
  <2>3. pending # NoBlock => SettledHeight(Tip, Len(Tip)) <= executed'
    <3>1. pending # NoBlock => SettledHeight(Tip, Len(Tip)) \in 0 .. executed
      BY PendingFacts
    <3>2. executed \in Nat
      BY DEF RInv, Types
    <3> QED
      BY <3>1, <3>2
  <2> QED
    BY Zenon, <1>1, <2>1, <2>2, <2>3 DEF RInv, RunningInv
<1> QED
  BY <1>2, <1>3, <1>4, <1>5

\* What the program counter says about how far the effects have got.
LEMMA Progress ==
  /\ epc \in {"idle", "run"} => Inserted = executed
  /\ epc \in {"idle", "run", "commit"} => Committed = executed
  /\ epc \in {"idle", "run", "commit", "track"} => Tracked = executed
  /\ epc \in {"idle", "run", "commit", "track", "results"} => Stored = executed
  /\ epc \in {"commit", "track", "results", "batch", "mark"} => Inserted = block
  /\ epc \in {"track", "results", "batch", "mark"} => Committed = block
  /\ epc \in {"results", "batch", "mark"} => Tracked = block
  /\ epc \in {"batch", "mark"} => Stored = block
BY DEF Inserted, Committed, Tracked, Stored, Upto

\* The same of the state after a step.
LEMMA ProgressNext ==
  /\ block' = executed' + 1
  /\ epc' \in {"idle", "run"} => Inserted' = executed'
  /\ epc' \in {"idle", "run", "commit"} => Committed' = executed'
  /\ epc' \in {"idle", "run", "commit", "track"} => Tracked' = executed'
  /\ epc' \in {"idle", "run", "commit", "track", "results"} => Stored' = executed'
  /\ epc' \in {"commit", "track", "results", "batch", "mark"} => Inserted' = block'
  /\ epc' \in {"track", "results", "batch", "mark"} => Committed' = block'
  /\ epc' \in {"results", "batch", "mark"} => Tracked' = block'
  /\ epc' \in {"batch", "mark"} => Stored' = block'
BY DEF Inserted, Committed, Tracked, Stored, Upto, block

\* The executor takes a block from the queue, and nothing else changes.
LEMMA DequeueStep ==
  ASSUME RInv, Dequeue
  PROVE  RInv'
<1>1. /\ config' = config /\ chain' = chain /\ mode' = mode /\ critical' = critical
      /\ start' = start /\ enqueued' = enqueued /\ executed' = executed
      /\ epc = "idle" /\ epc' = "run" /\ executed < enqueued
      /\ dirty' = dirty /\ disk' = disk /\ head' = head /\ pending' = pending
      /\ UNCHANGED <<config, diskVars>> /\ UNCHANGED mapVars /\ Live /\ xdb' = xdb
  BY DEF Dequeue, Order, mapVars, diskVars, dbVars, Live
<1>2. executed \in Nat /\ DOMAIN dirty \subseteq Nat /\ dirty \in [DOMAIN dirty -> Nat]
      /\ critical \subseteq Nat
  BY DEF RInv, Types
<1>3. Types' /\ DownInv' /\ RunningInv' /\ Live'
  BY <1>1, <1>2, ExecutorFrame DEF IsEpc
<1>4. LogInv'
  BY <1>1, LogFrame DEF RInv
<1>5. /\ Inserted' = Inserted /\ Committed' = Committed /\ Tracked' = Tracked
      /\ Stored' = Stored
  BY <1>1, Progress, ProgressNext
<1>6. ExecutorInv'
  BY Zenon, <1>1, <1>5 DEF ExecutorInv, RInv
<1>7. \A r : References(r)' = References(r)
  BY <1>1, <1>2, <1>5, ReferencesAre
<1>8. CountsInv'
  BY Zenon, <1>1, <1>3, <1>5, <1>7 DEF CountsInv, RInv
<1>9. AvailableInv'
  <2>1. Tip' = Tip /\ \A r : Available(r)' <=> Available(r)
    BY <1>1 DEF Tip, Available
  <2> QED
    BY Zenon, <1>1, <1>3, <1>5, <2>1 DEF AvailableInv, RInv
<1> QED
  BY SMTT(60), <1>3, <1>4, <1>6, <1>8, <1>9 DEF RInv

----------------------------------------------------------------------------
\* An executor that has taken a block belongs to a node that is up.
LEMMA ExecutorIsLive ==
  ASSUME RInv, epc # "idle"
  PROVE  Live
BY DEF RInv, DownInv

\* States that were available and still are serve the same readers.
LEMMA AvailableFrame ==
  ASSUME RInv, Live, UNCHANGED <<chain, mode, mapVars, start, executed>>,
         \A r : Available(r) => Available(r)',
         Root(chain', Inserted') \in disk' \cup DOMAIN dirty'
  PROVE  AvailableInv'
<1>1. /\ chain' = chain /\ mode' = mode /\ critical' = critical /\ pending' = pending
      /\ start' = start /\ executed' = executed
  BY DEF mapVars
<1>2. Tip' = Tip
  BY <1>1 DEF Tip
<1>3. Available(Root(chain, Inserted))'
  BY DEF Available
<1> QED
  BY Zenon, <1>1, <1>2, <1>3 DEF AvailableInv, RInv

\* A new root is above all that the executed blocks have, and nobody refers to it.
LEMMA NewRoot ==
  ASSUME RInv, Live, Tracked = executed, NEW r \in Nat, r > Root(chain, executed)
  PROVE  /\ mode = "running" => References(r) = 0
         /\ mode = "recovering" => Executions(chain, start + 1 .. Tracked, r) = 0
<1>1. /\ executed \in 0 .. Len(chain) /\ start \in 0 .. executed /\ Len(chain) \in Nat
      /\ \A h \in Nat : Root(chain, h) \in Nat
      /\ \A i, j \in Nat : i <= j => Root(chain, i) <= Root(chain, j)
  BY LiveFacts
<1>2. \A h \in 0 .. executed : Root(chain, h) # r
  BY <1>1
<1>3. ASSUME mode = "running" PROVE References(r) = 0
  <2> DEFINE E == {h \in critical : h <= executed}
  <2>1. /\ critical \in SUBSET (0 .. Len(chain)) /\ IsFiniteSet(critical)
        /\ \A h \in 0 .. Len(chain) :
             /\ SettledStateRoot(chain, h) \in Nat
             /\ SettledStateRoot(chain, h) <= Root(chain, executed)
    BY <1>3, RunningFacts
  <2>2. \A h \in critical : SettledStateRoot(chain, h) # r
    BY <1>1, <2>1
  <2>3. Settlements(chain, critical, r) = 0
    BY Zenon, <2>1, <2>2, CountsAreNumbers
  <2>4. IsFiniteSet(E) /\ \A h \in E : Root(chain, h) # r
    <3>1. E \in SUBSET critical
      OBVIOUS
    <3>2. \A h \in E : h \in 0 .. executed
      BY <1>1, <2>1
    <3> QED
      BY <1>2, <2>1, <3>1, <3>2, FS_Subset
  <2>5. Executions(chain, E, r) = 0
    BY <2>4, CountsAreNumbers
  <2>6. PendingOn(chain, pending, r) = 0
    <3>1. pending # NoBlock =>
            SettledStateRoot(Tip, Len(Tip)) \in Nat
            /\ SettledStateRoot(Tip, Len(Tip)) <= Root(chain, executed)
      BY PendingFacts
    <3>2. pending # NoBlock => SettledStateRoot(Tip, Len(Tip)) # r
      BY <1>1, <3>1
    <3> QED
      BY <3>2 DEF PendingOn, Tip
  <2>7. References(r) = Holders(chain, critical, Tracked, pending, r)
    BY ReferencesAre DEF RInv, Types
  <2> QED
    BY <2>3, <2>5, <2>6, <2>7 DEF Holders
<1>4. ASSUME mode = "recovering" PROVE Executions(chain, start + 1 .. Tracked, r) = 0
  <2>1. IsFiniteSet(start + 1 .. executed)
    BY <1>1, FS_Interval
  <2>2. \A h \in start + 1 .. executed : h \in 0 .. executed
    BY <1>1
  <2>3. \A h \in start + 1 .. executed : Root(chain, h) # r
    BY <1>2, <2>2
  <2> DEFINE S == start + 1 .. executed
  <2> HIDE DEF S
  <2>4. Executions(chain, S, r) = 0
    BY ZenonT(60), <2>1, <2>3, CountsAreNumbers DEF S
  <2> QED
    BY <2>4 DEF S
<1> QED
  BY <1>3, <1>4

\* StateDB.Commit inserts the post-execution state, which is new or the parent's; in
\* neither case does it disturb a count.
LEMMA CommitStateStep ==
  ASSUME RInv, CommitState
  PROVE  RInv'
<1> DEFINE r0 == Root(chain, block)
<1>1. /\ config' = config /\ chain' = chain /\ mode' = mode /\ critical' = critical
      /\ start' = start /\ enqueued' = enqueued /\ executed' = executed
      /\ epc = "run" /\ epc' = "commit" /\ block' = block
      /\ disk' = disk /\ head' = head /\ pending' = pending
      /\ UNCHANGED <<config, diskVars>> /\ UNCHANGED mapVars /\ xdb' = xdb
      /\ dirty' = IF chain[block].change THEN Insert(dirty, r0) ELSE dirty
  BY DEF CommitState, Order, mapVars, diskVars, dbVars, block
<1>2. Live
  BY <1>1, ExecutorIsLive
<1>3. executed \in Nat /\ DOMAIN dirty \subseteq Nat /\ dirty \in [DOMAIN dirty -> Nat]
      /\ critical \subseteq Nat
  BY DEF RInv, Types
<1>4. /\ executed \in 0 .. Len(chain) /\ start \in 0 .. executed /\ block = executed + 1
      /\ \A h \in Nat : Root(chain, h) \in Nat
      /\ \A i, j \in Nat : i <= j => Root(chain, i) <= Root(chain, j)
  BY <1>2, LiveFacts
<1>5. r0 = IF chain[block].change THEN Root(chain, executed) + 1 ELSE Root(chain, executed)
  BY Zenon, <1>3, <1>4, Roots
<1>6. /\ Inserted = executed /\ Committed = executed /\ Tracked = executed /\ Stored = executed
      /\ Inserted' = block /\ Committed' = Committed /\ Tracked' = Tracked /\ Stored' = Stored
  BY <1>1, Progress, ProgressNext
<1>7. /\ r0 \in Nat /\ Root(chain, start) \in Nat /\ Root(chain, executed) \in Nat
      /\ Root(chain, start) <= Root(chain, executed) /\ Root(chain, executed) <= r0
  BY SMTT(60), <1>3, <1>4, <1>5
<1>8. \A r \in DOMAIN dirty :
        /\ Root(chain, start) < r /\ r <= Root(chain, executed)
        /\ dirty[r] # 0
        /\ mode = "running" => dirty[r] = References(r)
        /\ mode = "recovering" => dirty[r] = Executions(chain, start + 1 .. Tracked, r)
  BY <1>1, <1>2, <1>6 DEF RInv, CountsInv
<1>9. \A r \in DOMAIN dirty' :
        IF r \in DOMAIN dirty THEN dirty'[r] = dirty[r]
        ELSE r = r0 /\ chain[block].change /\ dirty'[r] = 0
  BY <1>1 DEF Insert
<1>10. DOMAIN dirty \subseteq DOMAIN dirty' /\ (chain[block].change => r0 \in DOMAIN dirty')
  BY <1>1 DEF Insert
<1>11. DOMAIN dirty' \subseteq Nat /\ dirty' \in [DOMAIN dirty' -> Nat]
  BY SMTT(60), <1>1, <1>3, <1>7 DEF Insert
<1>12. Types' /\ DownInv' /\ RunningInv' /\ Live'
  BY SMTT(60), <1>1, <1>2, <1>3, <1>11, ExecutorFrame DEF IsEpc
<1>13. LogInv'
  BY <1>1, LogFrame DEF RInv
<1>14. ExecutorInv'
  BY Zenon, <1>1, <1>2, <1>6 DEF ExecutorInv, RInv
<1>15. \A r : References(r)' = References(r)
  BY <1>1, <1>3, <1>6, ReferencesAre
<1>16. CountsInv'
  <2>1. ASSUME NEW r \in DOMAIN dirty'
        PROVE  /\ Root(chain, start) < r /\ r <= r0
               /\ mode = "recovering" => dirty'[r] = Executions(chain, start + 1 .. Tracked, r)
               /\ mode = "running" => dirty'[r] = References(r)
               /\ dirty'[r] = 0 => r = r0
    <3>1. CASE r \in DOMAIN dirty
      <4>1. dirty'[r] = dirty[r] /\ r \in Nat
        BY <1>3, <1>9, <3>1
      <4>2. /\ Root(chain, start) < r /\ r <= Root(chain, executed)
            /\ dirty[r] # 0
            /\ mode = "running" => dirty[r] = References(r)
            /\ mode = "recovering" => dirty[r] = Executions(chain, start + 1 .. Tracked, r)
        BY Zenon, <1>8, <3>1
      <4>3. r <= r0
        BY <1>7, <4>1, <4>2
      <4> QED
        BY Zenon, <4>1, <4>2, <4>3
    <3>2. CASE r \notin DOMAIN dirty
      <4>1. r = r0 /\ chain[block].change /\ dirty'[r] = 0
        BY <1>9, <3>2
      <4>2. r > Root(chain, executed) /\ r \in Nat
        BY <1>5, <1>7, <4>1
      <4>3. /\ mode = "running" => References(r) = 0
            /\ mode = "recovering" => Executions(chain, start + 1 .. Tracked, r) = 0
        BY <1>2, <1>6, <4>2, NewRoot
      <4>4. Root(chain, start) < r /\ r <= r0
        BY <1>7, <4>1, <4>2
      <4> QED
        BY Zenon, <4>1, <4>3, <4>4
    <3> QED
      BY <3>1, <3>2
  <2>2. epc' \in {"commit", "track"} /\ Root(chain', block') = r0 /\ Root(chain', Inserted') = r0
        /\ Root(chain', start') = Root(chain, start)
    BY <1>1, <1>6
  <2> HIDE DEF r0
  <2> QED
    BY Zenon, <1>1, <1>6, <1>15, <2>1, <2>2 DEF CountsInv
<1>17. AvailableInv'
  <2>1. \A r : Available(r) => Available(r)'
    BY <1>1, <1>10 DEF Available
  <2>2. r0 \in disk' \cup DOMAIN dirty'
    <3>1. Available(Root(chain, executed))
      BY <1>2, <1>6 DEF RInv, AvailableInv
    <3>2. CASE chain[block].change
      BY <1>10, <3>2
    <3>3. CASE ~ chain[block].change
      BY <1>5, <2>1, <3>1, <3>3 DEF Available
    <3> QED
      BY <3>2, <3>3
  <2> QED
    BY SMTT(60), <1>1, <1>2, <1>6, <2>1, <2>2, AvailableFrame
<1> QED
  BY <1>12, <1>13, <1>14, <1>16, <1>17 DEF RInv

----------------------------------------------------------------------------
\* The state that MaybeCommit commits is there to be committed.
LEMMA CommitAvailable ==
  ASSUME RInv, epc = "commit", CommitsAt(block)
  PROVE  Available(Commits(block)) /\ Commits(block) \in Nat
<1>1. Live
  BY ExecutorIsLive
<1>2. /\ Len(chain) \in Nat /\ executed \in 0 .. Len(chain) /\ start \in 0 .. executed
      /\ block = executed + 1 /\ block \in 1 .. Len(chain)
      /\ \A h \in Nat : Root(chain, h) \in Nat
  BY <1>1, LiveFacts
<1>3. Ordered(chain) /\ config.archival \in BOOLEAN
  BY DatabaseFacts
<1>4. CASE config.archival
  <2>1. Commits(block) = Root(chain, block) /\ Inserted = block
    BY <1>4, Progress DEF Commits
  <2>2. Available(Root(chain, Inserted))
    BY <1>1 DEF RInv, AvailableInv
  <2> QED
    BY <1>2, <2>1, <2>2
<1>5. CASE ~ config.archival
  <2> DEFINE s == SettledHeight(chain, block)
  <2>1. Commits(block) = SettledStateRoot(chain, block) /\ Commits(block) = Root(chain, s)
    BY <1>5 DEF Commits, SettledStateRoot
  <2>2. s \in 0 .. block /\ s < block
    BY <1>2, <1>3, SettledHeights
  <2> HIDE DEF s
  <2>3. Commits(block) \in Nat
    BY <1>2, <2>1, <2>2
  <2>4. CASE mode = "running"
    <3>1. block \in critical /\ block > executed
      <4>1. executed + 1 .. Len(chain) \subseteq critical
        BY <2>4, RunningFacts
      <4>2. block \in executed + 1 .. Len(chain) /\ block > executed
        BY <1>2
      <4> QED
        BY <4>1, <4>2
    <3>2. Available(SettledStateRoot(chain, block))
      BY <3>1 DEF RInv, AvailableInv
    <3> QED
      BY <2>1, <2>3, <3>2
  <2>5. CASE mode = "recovering"
    <3>1. CASE s <= start
      <4>1. CommitsUnder(config, block)
        BY DEF CommitsAt, CommitsUnder
      <4>2. CommitsUnder(config, block) /\ SettledHeight(chain, block) <= start =>
                SettledStateRoot(chain, block) \in disk
        BY <1>1, <1>2, <1>5 DEF RInv, ExecutorInv
      <4>3. SettledStateRoot(chain, block) \in disk
        BY <3>1, <4>1, <4>2 DEF s
      <4> QED
        BY <2>1, <2>3, <4>3 DEF Available
    <3>2. CASE s > start
      <4>1. s \in start .. executed
        BY <1>2, <2>2, <3>2
      <4>2. Available(Root(chain, s))
        BY <2>5, <4>1 DEF RInv, AvailableInv
      <4> QED
        BY <2>1, <2>3, <4>2
    <3> QED
      BY SMTT(60), <1>2, <2>2, <3>1, <3>2
  <2> QED
    BY <1>1, <2>4, <2>5 DEF Live
<1> QED
  BY <1>3, <1>4, <1>5

\* More states on disk only help.
LEMMA MoreOnDisk ==
  ASSUME RInv, UNCHANGED <<config, chain, finalized, head, xdb>>,
         disk \subseteq disk', disk' \subseteq Nat
  PROVE  Recoverable(Db, config, xdb)'
<1>1. /\ Recoverable(Db, config, xdb)
      /\ Db.chain = chain /\ Db.head = head /\ Db.disk = disk /\ Db.finalized = finalized
  BY DEF RInv, LogInv, Db
<1>2. /\ Db' = [chain |-> chain, finalized |-> finalized, head |-> head, disk |-> disk']
      /\ Db'.chain = chain /\ Db'.head = head /\ Db'.disk = disk'
      /\ config' = config /\ xdb' = xdb
  BY DEF Db
<1>3. Db' \in Database
  <2>1. chain \in Seq(Header) /\ finalized \in Int /\ head \in Int /\ disk' \in SUBSET Nat
    BY DatabaseFacts DEF None
  <2> QED
    BY <1>2, <2>1 DEF Database
<1>4. CommittedUpTo(config, chain, disk', head)
  BY Zenon, <1>1 DEF Recoverable, CommittedUpTo
<1> HIDE DEF None
<1>5. Recoverable(Db', config, xdb)
  BY ZenonT(60), <1>1, <1>2, <1>3, <1>4 DEF Recoverable
<1> QED
  BY ZenonT(60), <1>2, <1>5

\* MaybeCommit writes a state that is available and so drops none that another holder
\* needs.
LEMMA MaybeCommitStep ==
  ASSUME RInv, MaybeCommit
  PROVE  RInv'
<1> DEFINE q == Commits(block)
<1>1. /\ config' = config /\ chain' = chain /\ mode' = mode /\ critical' = critical
      /\ start' = start /\ enqueued' = enqueued /\ executed' = executed
      /\ epc = "commit" /\ epc' = "track" /\ block' = block
      /\ head' = head /\ pending' = pending /\ finalized' = finalized
      /\ UNCHANGED mapVars /\ xdb' = xdb
  BY ZenonT(60) DEF MaybeCommit, Order, mapVars, block
<1>2. Live
  BY <1>1, ExecutorIsLive
<1>3. /\ executed \in Nat /\ DOMAIN dirty \subseteq Nat /\ dirty \in [DOMAIN dirty -> Nat]
      /\ critical \subseteq Nat /\ disk \in SUBSET Nat /\ chain \in Seq(Header)
      /\ block = executed + 1
  BY SMTT(60), DatabaseFacts DEF RInv, Types, block
<1>4. CommitsAt(block) => q \in disk \cup DOMAIN dirty /\ q \in Nat
  BY <1>1, CommitAvailable DEF Available
<1>5. /\ disk' = IF CommitsAt(block) THEN disk \cup {q} ELSE disk
      /\ DOMAIN dirty' = IF CommitsAt(block) THEN DOMAIN dirty \ {q} ELSE DOMAIN dirty
      /\ \A r \in DOMAIN dirty' : dirty'[r] = dirty[r]
      /\ dirty' \in [DOMAIN dirty' -> Nat]
  <2>1. CASE CommitsAt(block)
    <3>1. disk' = Flush(disk, dirty, q) /\ dirty' = Drop(dirty, q)
      BY <2>1 DEF MaybeCommit
    <3>2. dirty' = [r \in DOMAIN dirty \ {q} |-> dirty[r]]
      BY <3>1 DEF Drop, Restrict
    <3>3. disk' = disk \cup {q}
      BY SMTT(60), <1>4, <2>1, <3>1 DEF Flush
    <3> QED
      BY <1>3, <2>1, <3>2, <3>3
  <2>2. CASE ~ CommitsAt(block)
    BY SMTT(60), <1>3, <2>2 DEF MaybeCommit
  <2> QED
    BY <2>1, <2>2
<1>6. DOMAIN dirty' \subseteq DOMAIN dirty /\ disk \subseteq disk' /\ disk' \subseteq Nat
      /\ disk' \cup DOMAIN dirty' = disk \cup DOMAIN dirty
  BY <1>3, <1>4, <1>5
<1>7. DOMAIN dirty' \subseteq Nat
  BY SMTT(60), <1>3, <1>6
<1>8. Types' /\ DownInv' /\ RunningInv' /\ Live'
  BY SMTT(60), <1>1, <1>2, <1>3, <1>5, <1>7, ExecutorFrame DEF IsEpc
<1>9. /\ Inserted' = Inserted /\ Committed = executed /\ Committed' = block
      /\ Tracked' = Tracked /\ Stored' = Stored
  BY <1>1, Progress, ProgressNext
<1>10. LogInv'
  <2>1. Recoverable(Db, config, xdb)'
    BY SMTT(60), <1>1, <1>6, MoreOnDisk
  <2>2. CASE CommitsAt(block)
    <3>1. Write
      BY <2>2 DEF MaybeCommit
    <3>2. Prefix(chain, chain')
      BY <1>1, <1>3, PrefixOrder
    <3> QED
      BY SMTT(60), <1>1, <2>1, <3>1, <3>2, LogWrites DEF RInv
  <2>3. CASE ~ CommitsAt(block)
    <3>1. UNCHANGED <<config, diskVars>>
      BY <1>1, <2>3 DEF MaybeCommit, diskVars, dbVars
    <3> QED
      BY SMTT(60), <3>1, LogFrame DEF RInv
  <2> QED
    BY SMTT(60), <2>2, <2>3
<1>11. CommittedUpTo(config, chain, disk', block)
  <2>1. CommittedUpTo(config, chain, disk, executed)
    BY <1>2, <1>9 DEF RInv, ExecutorInv
  <2>2. \A h \in 1 .. block : h \in 1 .. executed \/ h = block
    BY <1>3
  <2>3. CommitsUnder(config, block) => CommittedRoot(config, chain, block) \in disk'
    <3>1. CommittedRoot(config, chain, block) = q /\ (CommitsUnder(config, block) <=> CommitsAt(block))
      BY DEF CommittedRoot, Commits, CommitsUnder, CommitsAt
    <3> QED
      BY <1>5, <3>1
  <2> QED
    BY Zenon, <1>6, <2>1, <2>2, <2>3 DEF CommittedUpTo
<1>12. ExecutorInv'
  BY ZenonT(60), <1>1, <1>2, <1>6, <1>9, <1>11 DEF ExecutorInv, RInv
<1>13. \A r : References(r)' = References(r)
  BY <1>1, <1>3, <1>9, ReferencesAre
<1>14. CountsInv'
  BY ZenonT(60), <1>1, <1>2, <1>5, <1>6, <1>9, <1>13 DEF CountsInv, RInv
<1>15. AvailableInv'
  <2>1. \A r : Available(r) <=> Available(r)'
    BY Zenon, <1>6 DEF Available
  <2>2. Root(chain', Inserted') \in disk' \cup DOMAIN dirty'
    BY ZenonT(60), <1>1, <1>2, <1>6, <1>9 DEF RInv, AvailableInv, Available
  <2> QED
    BY SMTT(60), <1>1, <1>2, <2>1, <2>2, AvailableFrame
<1> QED
  BY <1>8, <1>10, <1>12, <1>14, <1>15 DEF RInv

----------------------------------------------------------------------------
\* Tracking the post-execution state gives its trie the reference of the block just
\* executed.
LEMMA TrackRootStep ==
  ASSUME RInv, TrackRoot
  PROVE  RInv'
<1> DEFINE q == Root(chain, block)
<1>1. /\ config' = config /\ chain' = chain /\ mode' = mode /\ critical' = critical
      /\ start' = start /\ enqueued' = enqueued /\ executed' = executed
      /\ epc = "track" /\ epc' = "results" /\ block' = block
      /\ head' = head /\ pending' = pending /\ disk' = disk /\ xdb' = xdb
      /\ UNCHANGED mapVars /\ UNCHANGED <<config, diskVars>>
      /\ dirty' = Track(dirty, q)
  BY DEF TrackRoot, Order, mapVars, diskVars, dbVars, block
<1>2. Live
  BY <1>1, ExecutorIsLive
<1>3. /\ executed \in Nat /\ DOMAIN dirty \subseteq Nat /\ dirty \in [DOMAIN dirty -> Nat]
      /\ critical \subseteq Nat /\ block = executed + 1
  BY DEF RInv, Types, block
<1>4. Len(chain) \in Nat /\ block \in 1 .. Len(chain) /\ start \in 0 .. executed
  BY SMTT(60), <1>1, <1>2, LiveFacts
<1>5. /\ DOMAIN dirty' = DOMAIN dirty
      /\ \A r \in DOMAIN dirty : dirty'[r] = IF r = q THEN dirty[r] + 1 ELSE dirty[r]
      /\ dirty' \in [DOMAIN dirty' -> Nat]
  BY <1>1, <1>3 DEF Track
<1>6. Types' /\ DownInv' /\ RunningInv' /\ Live'
  BY SMTT(60), <1>1, <1>2, <1>3, <1>5, ExecutorFrame DEF IsEpc
<1>7. LogInv'
  BY SMTT(60), <1>1, LogFrame DEF RInv
<1>8. /\ Inserted' = Inserted /\ Committed' = Committed /\ Stored' = Stored
      /\ Inserted = block /\ Tracked = executed /\ Tracked' = block
  BY <1>1, Progress, ProgressNext
<1>9. ExecutorInv'
  BY ZenonT(60), <1>1, <1>2, <1>8 DEF ExecutorInv, RInv
<1>10. ASSUME NEW S, IsFiniteSet(S), block \notin S, NEW r
       PROVE  Executions(chain, S \cup {block}, r) = Executions(chain, S, r) + (IF r = q THEN 1 ELSE 0)
  <2>1. IsFiniteSet({block}) /\ S \cap {block} = {}
    BY SMTT(60), <1>10, FS_Singleton
  <2> QED
    BY SMTT(60), <1>10, <2>1, CountsAdd, CountsOfOne
<1>11. ASSUME mode = "running", NEW r
       PROVE  References(r)' = References(r) + (IF r = q THEN 1 ELSE 0)
  <2> DEFINE S == {h \in critical : h <= executed}
  <2>1. /\ critical \in SUBSET (0 .. Len(chain)) /\ IsFiniteSet(critical)
        /\ executed + 1 .. Len(chain) \subseteq critical
    BY <1>11, RunningFacts
  <2>2. block \in executed + 1 .. Len(chain)
    BY <1>3, <1>4
  <2>3. {h \in critical : h <= block} = S \cup {block}
    BY <1>3, <2>1, <2>2
  <2>4. S \in SUBSET critical /\ block \notin S
    BY <1>3
  <2> HIDE DEF S
  <2>5. IsFiniteSet(S)
    BY Zenon, <2>1, <2>4, FS_Subset
  <2>6. Executions(chain, S \cup {block}, r) = Executions(chain, S, r) + (IF r = q THEN 1 ELSE 0)
    BY <1>10, <2>4, <2>5
  <2>7. /\ References(r) = Holders(chain, critical, executed, pending, r)
        /\ References(r)' = Holders(chain, critical, block, pending, r)
    BY SMTT(60), <1>1, <1>3, <1>8, ReferencesAre
  <2>8. /\ Executions(chain, S, r) \in Nat /\ Settlements(chain, critical, r) \in Nat
        /\ PendingOn(chain, pending, r) \in Nat
    BY ZenonT(60), <2>1, <2>5, CountsAreNumbers DEF PendingOn
  <2>9. /\ Holders(chain, critical, executed, pending, r)
             = Settlements(chain, critical, r) + Executions(chain, S, r) + PendingOn(chain, pending, r)
        /\ Holders(chain, critical, block, pending, r)
             = Settlements(chain, critical, r) + Executions(chain, S \cup {block}, r)
                 + PendingOn(chain, pending, r)
    BY Zenon, <2>3 DEF Holders, S
  <2> QED
    BY <2>6, <2>7, <2>8, <2>9
<1>12. ASSUME NEW r
       PROVE  Executions(chain, start + 1 .. block, r)
                = Executions(chain, start + 1 .. executed, r) + (IF r = q THEN 1 ELSE 0)
  <2> DEFINE S == start + 1 .. executed
  <2>1. start + 1 .. block = S \cup {block} /\ block \notin S
    <3>1. \A h : h \in start + 1 .. block <=> h \in start + 1 .. executed \/ h = block
      BY <1>3, <1>4
    <3>2. block \notin start + 1 .. executed
      BY <1>3, <1>4
    <3> QED
      BY Zenon, <3>1, <3>2
  <2>2. IsFiniteSet(S)
    <3>1. start + 1 \in Int /\ executed \in Int
      BY <1>3, <1>4
    <3> QED
      BY <3>1, FS_Interval
  <2> HIDE DEF S
  <2> QED
    BY Zenon, <1>10, <2>1, <2>2 DEF S
<1>13. CountsInv'
  <2>1. ASSUME NEW r \in DOMAIN dirty
        PROVE  /\ Root(chain, start) < r /\ r <= Root(chain, Inserted)
               /\ mode = "recovering" => dirty'[r] = Executions(chain, start + 1 .. block, r)
               /\ mode = "running" => dirty'[r] = References(r)'
               /\ dirty'[r] # 0
    <3>1. /\ Root(chain, start) < r /\ r <= Root(chain, Inserted)
          /\ mode = "recovering" => dirty[r] = Executions(chain, start + 1 .. executed, r)
          /\ mode = "running" => dirty[r] = References(r)
          /\ dirty[r] = 0 => r = q
      BY Zenon, <1>2, <1>8 DEF RInv, CountsInv
    <3>2. dirty'[r] = dirty[r] + (IF r = q THEN 1 ELSE 0) /\ dirty[r] \in Nat
      BY <1>3, <1>5
    <3>3. dirty'[r] # 0
      BY <3>1, <3>2
    <3>4. mode = "recovering" => dirty'[r] = Executions(chain, start + 1 .. block, r)
      BY Zenon, <1>12, <3>1, <3>2
    <3>5. mode = "running" => dirty'[r] = References(r)'
      BY Zenon, <1>11, <3>1, <3>2
    <3> QED
      BY Zenon, <3>1, <3>3, <3>4, <3>5
  <2> HIDE DEF q
  <2> QED
    BY Zenon, <1>1, <1>5, <1>8, <2>1 DEF CountsInv
<1>14. AvailableInv'
  <2>1. \A r : Available(r) <=> Available(r)'
    BY Zenon, <1>1, <1>5 DEF Available
  <2>2. Root(chain', Inserted') \in disk' \cup DOMAIN dirty'
    BY ZenonT(60), <1>1, <1>2, <1>5, <1>8 DEF RInv, AvailableInv, Available
  <2> QED
    BY <1>1, <1>2, <2>1, <2>2, AvailableFrame
<1> QED
  BY <1>6, <1>7, <1>9, <1>13, <1>14 DEF RInv

\* Once a block is marked as executed its state is one that readers may open.
LEMMA MarkExecutedStep ==
  ASSUME RInv, MarkExecuted
  PROVE  RInv'
<1>1. /\ config' = config /\ chain' = chain /\ mode' = mode /\ critical' = critical
      /\ start' = start /\ enqueued' = enqueued /\ executed' = block
      /\ epc = "mark" /\ epc' = "idle"
      /\ head' = head /\ pending' = pending /\ disk' = disk /\ xdb' = xdb
      /\ UNCHANGED mapVars /\ UNCHANGED <<config, diskVars>>
      /\ dirty' = dirty
  BY DEF MarkExecuted, Order, mapVars, diskVars, dbVars
<1>2. Live
  BY <1>1, ExecutorIsLive
<1>3. /\ executed \in Nat /\ DOMAIN dirty \subseteq Nat /\ dirty \in [DOMAIN dirty -> Nat]
      /\ critical \subseteq Nat /\ block = executed + 1 /\ start \in Nat
  BY DEF RInv, Types, block
<1>4. Len(chain) \in Nat /\ block \in 1 .. Len(chain) /\ start \in 0 .. executed
      /\ enqueued = Len(chain)
  BY <1>1, <1>2, LiveFacts
<1>5. executed' \in Nat /\ executed <= executed' /\ critical' \subseteq Nat
  BY SMTT(60), <1>1, <1>3
<1>6. Types' /\ DownInv' /\ RunningInv' /\ Live'
  BY SMTT(60), <1>1, <1>2, <1>3, <1>5, ExecutorFrame DEF IsEpc
<1>7. LogInv'
  BY <1>1, LogFrame DEF RInv
<1>8. /\ Inserted' = Inserted /\ Committed' = Committed /\ Stored' = Stored /\ Tracked' = Tracked
      /\ Inserted = block
  BY <1>1, Progress, ProgressNext
<1>9. ExecutorInv'
  <2>1. start <= block /\ block <= enqueued
    BY <1>3, <1>4
  <2> QED
    BY Zenon, <1>1, <1>2, <1>8, <2>1 DEF ExecutorInv, RInv
<1>10. \A r : References(r)' = References(r)
  BY SMTT(60), <1>1, <1>3, <1>5, <1>8, ReferencesAre
<1>11. CountsInv'
  <2>1. \A r \in DOMAIN dirty : dirty[r] # 0
    BY <1>1 DEF RInv, CountsInv
  <2> QED
    BY ZenonT(60), <1>1, <1>2, <1>8, <1>10, <2>1 DEF CountsInv, RInv
<1>12. AvailableInv'
  <2>1. Tip' = Tip /\ \A r : Available(r)' <=> Available(r)
    BY <1>1 DEF Tip, Available
  <2>2. \A h \in Nat : h <= block => h <= executed \/ h = block
    BY <1>3
  <2>3. \A h \in Nat : h > block => h > executed
    BY <1>3
  <2>4. \A h \in start .. block : h \in start .. executed \/ h = block
    BY <1>3
  <2>5. Available(Root(chain, block))
    BY <1>2, <1>8 DEF RInv, AvailableInv
  <2>6. \A h \in critical : h <= block => Available(Root(chain, h))
    BY Zenon, <1>3, <2>2, <2>5 DEF RInv, AvailableInv
  <2>7. \A h \in critical : h > block => Available(SettledStateRoot(chain, h))
    BY Zenon, <1>3, <2>3 DEF RInv, AvailableInv
  <2>8. mode = "recovering" => \A h \in start .. block : Available(Root(chain, h))
    BY ZenonT(60), <2>4, <2>5 DEF RInv, AvailableInv
  <2> QED
    BY ZenonT(60), <1>1, <1>2, <1>8, <2>1, <2>6, <2>7, <2>8 DEF AvailableInv, RInv
<1> QED
  BY <1>6, <1>7, <1>9, <1>11, <1>12 DEF RInv

----------------------------------------------------------------------------
\* The results that are written are those of the chain, in the first execution and in a
\* repeated one.
LEMMA PutResultsStep ==
  ASSUME RInv, PutResults
  PROVE  RInv'
<1>1. /\ config' = config /\ chain' = chain /\ mode' = mode /\ critical' = critical
      /\ start' = start /\ enqueued' = enqueued /\ executed' = executed
      /\ epc = "results" /\ epc' = "batch" /\ block' = block
      /\ head' = head /\ pending' = pending /\ disk' = disk /\ finalized' = finalized
      /\ UNCHANGED mapVars /\ unsynced' = unsynced /\ dirty' = dirty
      /\ xdb' = Put(xdb, block, BlockAt(chain, block))
  BY DEF PutResults, Order, mapVars, dbVars, block
<1>2. Live
  BY <1>1, ExecutorIsLive
<1>3. /\ executed \in Nat /\ DOMAIN dirty \subseteq Nat /\ dirty \in [DOMAIN dirty -> Nat]
      /\ critical \subseteq Nat /\ block = executed + 1
      /\ Ordered(chain) /\ chain \in Seq(Header)
  BY SMTT(60), DatabaseFacts DEF RInv, Types, block
<1>4. Types' /\ DownInv' /\ RunningInv' /\ Live'
  BY SMTT(60), <1>1, <1>2, <1>3, ExecutorFrame DEF IsEpc
<1>5. /\ Inserted' = Inserted /\ Committed' = Committed /\ Tracked' = Tracked
      /\ Stored = executed /\ Stored' = block
  BY <1>1, Progress, ProgressNext
<1>6. /\ DOMAIN xdb' = DOMAIN xdb \cup {block}
      /\ xdb'[block] = BlockAt(chain, block)
      /\ \A h \in DOMAIN xdb : h # block => xdb'[h] = xdb[h]
  BY <1>1 DEF Put
<1>7. ASSUME NEW db, Recoverable(db, config, xdb), Prefix(db.chain, chain)
      PROVE  Recoverable(db, config, xdb')
  <2>1. ResultsUpTo(xdb', db.chain, db.head)
    <3> SUFFICES ASSUME NEW h \in 1 .. db.head
                 PROVE  h \in DOMAIN xdb' /\ xdb'[h] = BlockAt(db.chain, h)
      BY SMTT(60) DEF ResultsUpTo
    <3>1. h \in DOMAIN xdb /\ xdb[h] = BlockAt(db.chain, h)
      BY <1>7 DEF Recoverable, ResultsUpTo
    <3>2. h \in 0 .. Len(db.chain)
      <4>1. db.head \in Int /\ db.head <= Len(db.chain) /\ Len(db.chain) \in Nat
        BY SMTT(60), <1>7, OrderedChain DEF Recoverable, None
      <4> QED
        BY SMTT(60), <4>1
    <3>3. BlockAt(db.chain, h) = BlockAt(chain, h)
      BY <1>3, <1>7, <3>2, Prefixes DEF Recoverable
    <3> QED
      BY <1>6, <3>1, <3>3
  <2> QED
    BY Zenon, <1>7, <2>1 DEF Recoverable
<1>8. LogInv'
  <2>1. Entries(unsynced, config, xdb, chain) /\ Recoverable(Db, config, xdb) /\ Db' = Db
        /\ Db.chain = chain
    BY Zenon, <1>1 DEF RInv, LogInv, Entries, Db
  <2>2. Prefix(chain, chain)
    BY <1>3, PrefixOrder
  <2>3. Recoverable(Db, config, xdb')
    BY <1>7, <2>1, <2>2
  <2>4. Entries(unsynced, config, xdb', chain)
    BY SMTT(60), <1>3, <1>7, <2>1, <2>2, SameEntries
  <2> QED
    BY Zenon, <1>1, <2>1, <2>3, <2>4 DEF LogInv, Entries
<1>9. ExecutorInv'
  <2>1. ResultsUpTo(xdb', chain, block)
    <3>1. ResultsUpTo(xdb, chain, executed)
      BY <1>2, <1>5 DEF RInv, ExecutorInv
    <3>2. \A h \in 1 .. block : h \in 1 .. executed \/ h = block
      BY <1>3
    <3> QED
      BY Zenon, <1>6, <3>1, <3>2 DEF ResultsUpTo
  <2> QED
    BY Zenon, <1>1, <1>2, <1>5, <2>1 DEF ExecutorInv, RInv
<1>10. \A r : References(r)' = References(r)
  BY <1>1, <1>3, <1>5, ReferencesAre
<1>11. CountsInv'
  <2>1. \A r \in DOMAIN dirty : dirty[r] # 0
    BY <1>1 DEF RInv, CountsInv
  <2> QED
    BY ZenonT(60), <1>1, <1>2, <1>5, <1>10, <2>1 DEF CountsInv, RInv
<1>12. AvailableInv'
  <2>1. \A r : Available(r) <=> Available(r)'
    BY Zenon, <1>1 DEF Available
  <2>2. Root(chain', Inserted') \in disk' \cup DOMAIN dirty'
    BY ZenonT(60), <1>1, <1>2, <1>5 DEF RInv, AvailableInv, Available
  <2> QED
    BY <1>1, <1>2, <2>1, <2>2, AvailableFrame
<1> QED
  BY <1>4, <1>8, <1>9, <1>11, <1>12 DEF RInv

\* The head that a batch writes never runs ahead of results and committed states.
LEMMA WriteBatchStep ==
  ASSUME RInv, WriteBatch
  PROVE  RInv'
<1>1. /\ config' = config /\ chain' = chain /\ mode' = mode /\ critical' = critical
      /\ start' = start /\ enqueued' = enqueued /\ executed' = executed
      /\ epc = "batch" /\ epc' = "mark" /\ block' = block
      /\ head' = block /\ pending' = pending /\ disk' = disk /\ finalized' = finalized
      /\ UNCHANGED mapVars /\ dirty' = dirty /\ xdb' = xdb /\ Write
  BY DEF WriteBatch, Order, mapVars, block
<1>2. Live
  BY SMTT(60), <1>1, ExecutorIsLive
<1>3. /\ executed \in Nat /\ DOMAIN dirty \subseteq Nat /\ dirty \in [DOMAIN dirty -> Nat]
      /\ critical \subseteq Nat /\ Ordered(chain) /\ chain \in Seq(Header) /\ finalized \in Int
      /\ disk \in SUBSET Nat /\ 0 \in disk
  BY SMTT(60), DatabaseFacts DEF RInv, Types
<1>4. block \in Nat /\ block \in 1 .. Len(chain) /\ Len(chain) \in Nat
  BY SMTT(60), <1>1, <1>2, LiveFacts
<1>5. Types' /\ DownInv' /\ RunningInv' /\ Live'
  BY SMTT(60), <1>1, <1>2, <1>3, ExecutorFrame DEF IsEpc
<1>6. /\ Inserted' = Inserted /\ Committed' = Committed /\ Tracked' = Tracked
      /\ Stored' = Stored /\ Committed = block /\ Stored = block
  BY SMTT(60), <1>1, Progress, ProgressNext
<1>7. LogInv'
  <2>1. /\ CommittedUpTo(config, chain, disk, block) /\ ResultsUpTo(xdb, chain, block)
    BY ZenonT(60), <1>2, <1>6 DEF RInv, ExecutorInv
  <2>2. /\ Db' = [chain |-> chain, finalized |-> finalized, head |-> block, disk |-> disk]
        /\ Db'.chain = chain /\ Db'.head = block /\ Db'.disk = disk
    BY <1>1 DEF Db
  <2>3. Db' \in Database
    BY <1>3, <1>4, <2>2 DEF Database
  <2>4. block <= Len(chain) /\ block # None
    BY <1>4 DEF None
  <2>5. Recoverable(Db', config, xdb)
    BY Zenon, <1>3, <1>4, <2>1, <2>2, <2>3, <2>4 DEF Recoverable
  <2>6. Recoverable(Db, config, xdb)'
    BY Zenon, <1>1, <2>5
  <2>7. Prefix(chain, chain')
    BY <1>1, <1>3, PrefixOrder
  <2> QED
    BY SMTT(60), <1>1, <2>6, <2>7, LogWrites DEF RInv
<1>8. ExecutorInv'
  <2>1. head' # None
    BY <1>1, <1>4 DEF None
  <2> QED
    BY ZenonT(60), <1>1, <1>2, <1>6, <2>1 DEF ExecutorInv, RInv
<1>9. \A r : References(r)' = References(r)
  BY <1>1, <1>3, <1>6, ReferencesAre
<1>10. CountsInv'
  <2>1. \A r \in DOMAIN dirty : dirty[r] # 0
    BY SMTT(60), <1>1 DEF RInv, CountsInv
  <2> QED
    BY ZenonT(60), <1>1, <1>2, <1>6, <1>9, <2>1 DEF CountsInv, RInv
<1>11. AvailableInv'
  <2>1. \A r : Available(r) <=> Available(r)'
    BY Zenon, <1>1 DEF Available
  <2>2. Root(chain', Inserted') \in disk' \cup DOMAIN dirty'
    BY Zenon, <1>1, <1>2, <1>6 DEF RInv, AvailableInv, Available
  <2> QED
    BY <1>1, <1>2, <2>1, <2>2, AvailableFrame
<1> QED
  BY <1>5, <1>7, <1>8, <1>10, <1>11 DEF RInv
=============================================================================
