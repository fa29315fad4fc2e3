-------------------------- MODULE DnbAllModesProofs --------------------------
(***************************************************************************)
(* The text parsers, the .dnb file, and the one-pass drivers, which read   *)
(* one in chunks.                                                          *)
(*   The parsers, for every text and any number of threads: the parallel   *)
(* one never disagrees with the serial one.                                *)
(*   The cache, for every set of texts and a clock of any length: a single *)
(* process that loads and saves again and again, and dies at any step,     *)
(* never takes a torn cache for a tensor, never leaves one behind, and     *)
(* misses no edit but those made while a cache was written.  With two      *)
(* processes none of the first two holds (see the README).                 *)
(*   The drivers, for every tensor, thread count, chunk size and content   *)
(* of the uninitialised ofibs block.                                       *)
(***************************************************************************)
EXTENDS DnbCache, AllModesInv, FiniteSetTheorems, WellFoundedInduction, TLAPS

-----------------------------------------------------------------------------
(* Induction over the naturals, stated for a set of numbers.               *)

LEMMA LessRel == \A x, y \in Nat : <<y, x>> \in OpToRel(<, Nat) <=> y < x
BY DEF OpToRel

LEMMA LeastElement ==
  ASSUME NEW S \in SUBSET Nat, S # {}
  PROVE  \E x \in S : \A y \in S : x =< y
<1>1. PICK R : IsWellFoundedOn(R, Nat) /\ \A x, y \in Nat : <<y, x>> \in R <=> y < x
  BY NatLessThanWellFounded, LessRel
<1>2. PICK x \in S : \A y \in S : ~ (<<y, x>> \in R)
  BY <1>1, WFMin
<1>3. ASSUME NEW y \in S PROVE ~ (y < x)
  BY <1>1, <1>2
<1>4. \A y \in S : x =< y
  BY <1>3
<1> QED BY <1>4

LEMMA SetInduction ==
  ASSUME NEW S, 0 \in S, \A n \in Nat : n \in S => n + 1 \in S
  PROVE  Nat \subseteq S
<1> SUFFICES ASSUME Nat \ S # {} PROVE FALSE
  OBVIOUS
<1>1. PICK x \in Nat \ S : \A y \in Nat \ S : x =< y
  BY LeastElement
<1>2. x # 0 /\ x - 1 \in Nat /\ x - 1 \in S
  BY <1>1
<1> QED BY <1>1, <1>2

-----------------------------------------------------------------------------
(* The parsers. *)

LEMMA MinIs ==
  ASSUME NEW S \in SUBSET Nat, S # {}
  PROVE  Min(S) \in S /\ \A y \in S : Min(S) =< y
BY LeastElement DEF Min

\* Of two heads the second has a newline before it that the first has not.
LEMMA NewlineBetween ==
  ASSUME NEW f, NEW n \in Nat, NEW p \in Heads(f, 0, n), NEW q \in Heads(f, 0, n), p < q
  PROVE  \E j \in p + 1 .. q - 1 : f[j] = "nl"
<1>1. /\ p \in 1 .. n /\ f[p] \notin {"sp", "nl"}
      /\ q \in 1 .. n
  BY DEF Heads
<1>2. PICK j \in 0 .. q - 1 : (j = 0 \/ f[j] = "nl") /\ \A k \in j + 1 .. q - 1 : f[k] = "sp"
  BY DEF Heads
<1>3. ~ (j < p)
  <2> SUFFICES ASSUME j < p PROVE FALSE
    OBVIOUS
  <2>1. p \in j + 1 .. q - 1
    BY <1>1, <1>2
  <2> QED BY <1>1, <1>2, <2>1
<1>4. f[j] = "nl" /\ j # p
  BY <1>1, <1>2, <1>3
<1> QED BY <1>1, <1>2, <1>3, <1>4

\* A place in a file between two lines, or where the first nonzero begins.
Cut(f, lo) == lo = 0 \/ lo = Len(f) \/ f[lo] = "nl" \/ lo + 1 \in Heads(f, 0, Len(f))

\* Between two such places are the heads of the whole file that are there.
LEMMA HeadsWithin ==
  ASSUME NEW f, Len(f) \in Nat, NEW lo \in 0 .. Len(f), NEW hi \in 0 .. Len(f), Cut(f, lo)
  PROVE  Heads(f, lo, hi) = {p \in Heads(f, 0, Len(f)) : lo < p /\ p =< hi}
<1> DEFINE n == Len(f)
<1>1. ASSUME NEW p \in Heads(f, lo, hi) PROVE p \in Heads(f, 0, n) /\ lo < p /\ p =< hi
  <2>1. p \in lo + 1 .. hi /\ f[p] \notin {"sp", "nl"}
    BY DEF Heads
  <2>2. PICK j \in lo .. p - 1 : (j = lo \/ f[j] = "nl") /\ \A k \in j + 1 .. p - 1 : f[k] = "sp"
    BY DEF Heads
  <2>3. p \in 1 .. n /\ j \in 0 .. p - 1
    BY <2>1, <2>2
  <2>4. CASE j = 0 \/ f[j] = "nl"
    BY <2>1, <2>2, <2>3, <2>4 DEF Heads
  <2>5. CASE j = lo /\ lo + 1 \in Heads(f, 0, n)
    <3>1. f[lo + 1] # "sp"
      BY <2>5 DEF Heads
    <3>2. p = lo + 1
      <4>1. lo + 1 \notin j + 1 .. p - 1
        BY <2>2, <3>1
      <4> QED BY <2>1, <2>5, <4>1
    <3> QED BY <2>1, <2>5, <3>2
  <2>6. lo # n
    BY <2>1
  <2> QED BY <2>1, <2>2, <2>4, <2>5, <2>6 DEF Cut
<1>2. ASSUME NEW p \in Heads(f, 0, n), lo < p, p =< hi PROVE p \in Heads(f, lo, hi)
  <2>1. p \in 1 .. n /\ f[p] \notin {"sp", "nl"}
    BY DEF Heads
  <2>2. PICK j \in 0 .. p - 1 : (j = 0 \/ f[j] = "nl") /\ \A k \in j + 1 .. p - 1 : f[k] = "sp"
    BY DEF Heads
  <2>3. p \in lo + 1 .. hi
    BY <1>2, <2>1
  <2>4. CASE lo =< j
    <3>1. j \in lo .. p - 1 /\ (j = lo \/ f[j] = "nl")
      BY <2>2, <2>4
    <3> QED BY <2>1, <2>2, <2>3, <3>1 DEF Heads
  <2>5. CASE j < lo
    <3>1. f[lo] = "sp"
      <4>1. lo \in j + 1 .. p - 1
        BY <2>1, <2>2, <2>5, <1>2
      <4> QED BY <2>2, <4>1
    <3>2. lo + 1 \in Heads(f, 0, n)
      BY <2>2, <2>5, <3>1, <1>2, <2>1 DEF Cut
    <3>3. f[lo + 1] # "sp"
      BY <3>2 DEF Heads
    <3>4. p = lo + 1
      <4>1. lo + 1 \notin j + 1 .. p - 1
        BY <2>2, <3>3
      <4> QED BY <1>2, <2>1, <2>2, <2>5, <4>1
    <3>5. lo \in lo .. p - 1 /\ \A k \in lo + 1 .. p - 1 : f[k] = "sp"
      BY <3>4
    <3> QED BY <2>1, <2>3, <3>5 DEF Heads
  <2> QED BY <2>2, <2>4, <2>5
<1> QED BY <1>1, <1>2 DEF Heads

\* A later multiple is rounded down to a later quotient.
LEMMA QuotientGrows ==
  ASSUME NEW c \in Nat, NEW d \in Nat, c =< d, NEW m \in Nat \ {0}
  PROVE  c \div m \in Nat /\ d \div m \in Nat /\ c \div m =< d \div m /\ c \div m =< c
<1> DEFINE x == c \div m
           y == d \div m
<1>1. /\ x \in Nat /\ m * x =< c /\ c < m * x + m
      /\ y \in Nat /\ m * y =< d /\ d < m * y + m
  OBVIOUS
<1> HIDE DEF x, y
<1>2. x =< y
  <2> SUFFICES ASSUME y + 1 =< x PROVE FALSE
    BY <1>1
  <2>1. m * (y + 1) =< m * x
    <3>1. PICK i \in Nat : x = (y + 1) + i
      BY <1>1
    <3>2. m * x = m * (y + 1) + m * i /\ m * i \in Nat
      BY <1>1, <3>1
    <3> QED BY <1>1, <3>2
  <2>2. m * (y + 1) = m * y + m
    BY <1>1
  <2> QED BY <1>1, <2>1, <2>2
<1>3. x =< m * x
  <2>1. PICK i \in Nat : m = 1 + i
    OBVIOUS
  <2>2. m * x = x + i * x /\ i * x \in Nat
    BY <1>1, <2>1
  <2> QED BY <1>1, <2>2
<1> QED BY <1>1, <1>2, <1>3 DEF x, y

\* align_to_next_line moves ahead, keeps the order, and ends between lines.
LEMMA AlignFacts ==
  ASSUME NEW f, Len(f) \in Nat, NEW c \in 0 .. Len(f), NEW d \in 0 .. Len(f), c =< d
  PROVE  /\ Align(f, c) \in c .. Len(f) /\ Align(f, d) \in d .. Len(f)
         /\ Align(f, c) =< Align(f, d)
         /\ Align(f, c) = Len(f) \/ f[Align(f, c)] = "nl"
<1> DEFINE nl(x) == {p \in x + 1 .. Len(f) : f[p] = "nl"}
<1>1. ASSUME NEW x \in 0 .. Len(f)
      PROVE  /\ nl(x) = {} => Align(f, x) = Len(f)
             /\ nl(x) # {} => /\ Align(f, x) \in nl(x) /\ \A y \in nl(x) : Align(f, x) =< y
             /\ Align(f, x) \in x .. Len(f)
  <2>1. nl(x) \in SUBSET Nat
    OBVIOUS
  <2>2. Align(f, x) = IF nl(x) = {} THEN Len(f) ELSE Min(nl(x))
    BY DEF Align
  <2>3. nl(x) # {} => Min(nl(x)) \in nl(x) /\ \A y \in nl(x) : Min(nl(x)) =< y
    <3> HIDE DEF nl
    <3> QED BY <2>1, MinIs
  <2>4. \A y \in nl(x) : y \in x .. Len(f)
    OBVIOUS
  <2> HIDE DEF nl
  <2> QED BY <2>2, <2>3, <2>4
<1>2. nl(d) \subseteq nl(c)
  OBVIOUS
<1>3. \A y \in nl(c) : f[y] = "nl"
  OBVIOUS
<1>4. Align(f, c) =< Align(f, d)
  <2> HIDE DEF nl
  <2>1. CASE nl(d) = {}
    BY <1>1, <2>1
  <2>2. CASE nl(d) # {}
    BY <1>1, <1>2, <2>2
  <2> QED BY <2>1, <2>2
<1> HIDE DEF nl
<1> QED BY <1>1, <1>3, <1>4

\* The ranges start at the first nonzero, end with the file, follow each
\* other, and are cut between lines.
LEMMA ChunkStarts ==
  ASSUME NEW f, Len(f) \in Nat, DataLines(f) # {}
  PROVE  /\ DataLines(f) \in SUBSET (1 .. Len(f)) /\ DataStart(f) + 1 \in DataLines(f)
         /\ \A p \in DataLines(f) : DataStart(f) + 1 =< p
         /\ ChunkStart(f, 0) = DataStart(f) /\ ChunkStart(f, IoThreads) = Len(f)
         /\ \A t \in 0 .. IoThreads :
              /\ ChunkStart(f, t) \in 0 .. Len(f) /\ Cut(f, ChunkStart(f, t))
              /\ t > 0 => ChunkStart(f, t) = Len(f) \/ f[ChunkStart(f, t)] = "nl"
         /\ \A t \in 0 .. IoThreads - 1 : ChunkStart(f, t) =< ChunkStart(f, t + 1)
<1> DEFINE n == Len(f)
           s == DataStart(f)
           at0(t) == s + ((n - s) * t) \div IoThreads
<1>1. IoThreads \in Nat \ {0}
  BY IoAssumption
<1>2. DataLines(f) \in SUBSET (1 .. n) /\ DataLines(f) \subseteq Heads(f, 0, n)
  BY DEF DataLines, Heads
<1>3. s + 1 \in DataLines(f) /\ s \in 0 .. n - 1 /\ \A p \in DataLines(f) : s + 1 =< p
  <2>1. Min(DataLines(f)) \in DataLines(f) /\ \A p \in DataLines(f) : Min(DataLines(f)) =< p
    BY <1>2, MinIs
  <2>2. PICK m \in 1 .. n : m = Min(DataLines(f))
    BY <1>2, <2>1
  <2>3. s = m - 1
    BY <2>2 DEF DataStart
  <2> QED BY <1>2, <2>1, <2>2, <2>3
<1>4. ChunkStart(f, 0) = s /\ ChunkStart(f, IoThreads) = n
  BY <1>1 DEF ChunkStart
<1> HIDE DEF s
<1>5. ASSUME NEW t \in 0 .. IoThreads, NEW u \in 0 .. IoThreads, t =< u
      PROVE  at0(t) \in s .. n /\ at0(u) \in s .. n /\ at0(t) =< at0(u)
  <2> DEFINE c == n - s
  <2>1. c \in Nat /\ IoThreads \in Nat \ {0} /\ t \in Nat /\ u \in Nat /\ u =< IoThreads
    BY <1>1, <1>3
  <2> HIDE DEF c
  <2>2. c * t \in Nat /\ c * u \in Nat /\ c * t =< c * u /\ c * u =< c * IoThreads
    <3>1. PICK i \in Nat, j \in Nat : u = t + i /\ IoThreads = u + j
      BY <1>5, <2>1
    <3>2. c * u = c * t + c * i /\ c * IoThreads = c * u + c * j /\ c * i \in Nat /\ c * j \in Nat
      BY <2>1, <3>1
    <3> QED BY <2>1, <3>2
  <2>3. (c * IoThreads) \div IoThreads = c
    <3>1. PICK q \in Nat : q = (c * IoThreads) \div IoThreads
      BY <2>1
    <3>2. IoThreads * q =< c * IoThreads /\ c * IoThreads < IoThreads * q + IoThreads
      BY <2>1, <3>1
    <3>3. ~ (q + 1 =< c) /\ ~ (c + 1 =< q)
      <4>1. ASSUME q + 1 =< c PROVE FALSE
        <5>1. PICK i \in Nat : c = (q + 1) + i
          BY <2>1, <3>1, <4>1
        <5>2. c * IoThreads = IoThreads * q + IoThreads + i * IoThreads /\ i * IoThreads \in Nat
          BY <2>1, <3>1, <5>1
        <5> QED BY <2>1, <3>2, <5>2
      <4>2. ASSUME c + 1 =< q PROVE FALSE
        <5>1. PICK i \in Nat : q = (c + 1) + i
          BY <2>1, <3>1, <4>2
        <5>2. IoThreads * q = c * IoThreads + IoThreads + i * IoThreads /\ i * IoThreads \in Nat
          BY <2>1, <3>1, <5>1
        <5> QED BY <2>1, <3>2, <5>2
      <4> QED BY <4>1, <4>2
    <3> QED BY <2>1, <3>1, <3>3
  <2>4. /\ (c * t) \div IoThreads \in Nat /\ (c * u) \div IoThreads \in Nat
        /\ (c * t) \div IoThreads =< (c * u) \div IoThreads
        /\ (c * u) \div IoThreads =< c
    <3>1. c * IoThreads \in Nat
      BY <2>1
    <3> QED BY <2>1, <2>2, <2>3, <3>1, QuotientGrows
  <2>5. s + c = n
    BY <1>3 DEF c
  <2>6. at0(t) = s + (c * t) \div IoThreads /\ at0(u) = s + (c * u) \div IoThreads
    BY DEF c
  <2> QED BY <1>3, <2>1, <2>4, <2>5, <2>6
<1> HIDE DEF at0
<1>6. \A t \in 1 .. IoThreads - 1 : ChunkStart(f, t) = Align(f, at0(t))
  BY <1>1 DEF ChunkStart, at0, s
<1>7. \A t \in 0 .. IoThreads : at0(t) \in 0 .. n /\ s =< at0(t)
  BY <1>3, <1>5
<1>8. ASSUME NEW t \in 0 .. IoThreads
      PROVE  /\ ChunkStart(f, t) \in s .. n /\ Cut(f, ChunkStart(f, t))
             /\ t > 0 => ChunkStart(f, t) = n \/ f[ChunkStart(f, t)] = "nl"
  <2>1. CASE t = 0
    BY <1>2, <1>3, <1>4, <2>1 DEF Cut
  <2>2. CASE t = IoThreads
    BY <1>1, <1>3, <1>4, <2>2 DEF Cut
  <2>3. CASE t \in 1 .. IoThreads - 1
    <3>1. /\ Align(f, at0(t)) \in at0(t) .. n
          /\ Align(f, at0(t)) = n \/ f[Align(f, at0(t))] = "nl"
      BY <1>7, AlignFacts
    <3> QED BY <1>3, <1>6, <1>7, <2>3, <3>1 DEF Cut
  <2> QED BY <1>1, <2>1, <2>2, <2>3
<1>9. ASSUME NEW t \in 0 .. IoThreads - 1 PROVE ChunkStart(f, t) =< ChunkStart(f, t + 1)
  <2>1. t \in 0 .. IoThreads /\ t + 1 \in 0 .. IoThreads
    BY <1>1
  <2>2. CASE t = 0 \/ t + 1 = IoThreads
    BY <1>4, <1>8, <2>1, <2>2, <1>3
  <2>3. CASE t # 0 /\ t + 1 # IoThreads
    <3>1. t \in 1 .. IoThreads - 1 /\ t + 1 \in 1 .. IoThreads - 1
      BY <1>1, <2>3
    <3>2. at0(t) \in 0 .. n /\ at0(t + 1) \in 0 .. n /\ at0(t) =< at0(t + 1)
      BY <1>5, <1>7, <2>1
    <3> QED BY <1>6, <3>1, <3>2, AlignFacts
  <2> QED BY <2>2, <2>3
<1> QED BY <1>2, <1>3, <1>4, <1>8, <1>9 DEF s

\* The k-th of a set of places has k of them up to it.
UpTo(S, p) == {q \in S : q =< p}

LEMMA RanksApart ==
  ASSUME NEW S \in SUBSET Nat, IsFiniteSet(S), NEW p \in S, NEW q \in S,
         Cardinality(UpTo(S, p)) = Cardinality(UpTo(S, q))
  PROVE  p = q
<1>1. ASSUME NEW x \in S, NEW y \in S, x < y, Cardinality(UpTo(S, x)) = Cardinality(UpTo(S, y)) PROVE FALSE
  <2>1. UpTo(S, x) \in SUBSET UpTo(S, y) /\ y \in UpTo(S, y) /\ y \notin UpTo(S, x)
    <3>1. \A z \in S : z \in Nat
      OBVIOUS
    <3>2. y =< y /\ ~ (y =< x) /\ \A z \in S : z =< x => z =< y
      BY <1>1, <3>1
    <3> QED BY <3>2, Zenon DEF UpTo
  <2>2. UpTo(S, y) \in SUBSET S
    BY DEF UpTo
  <2>3. IsFiniteSet(UpTo(S, y))
    BY <2>2, FS_Subset
  <2>4. UpTo(S, y) = UpTo(S, x)
    BY <1>1, <2>1, <2>3, FS_Subset
  <2> QED BY <2>1, <2>4
<1> QED BY <1>1

LEMMA NthIs ==
  ASSUME NEW S \in SUBSET Nat, IsFiniteSet(S), NEW p \in S
  PROVE  Nth(S, Cardinality(UpTo(S, p))) = p
<1>1. \A q \in S : Cardinality(UpTo(S, q)) = Cardinality(UpTo(S, p)) => q = p
  BY RanksApart
<1>2. Nth(S, Cardinality(UpTo(S, p))) = CHOOSE q \in S : Cardinality(UpTo(S, q)) = Cardinality(UpTo(S, p))
  BY DEF Nth, UpTo
<1> QED BY <1>1, <1>2

LEMMA NthExists ==
  ASSUME NEW S \in SUBSET Nat, IsFiniteSet(S), NEW k \in 1 .. Cardinality(S)
  PROVE  Nth(S, k) \in S /\ Cardinality(UpTo(S, Nth(S, k))) = k
<1> DEFINE c == Cardinality(S)
           g == [p \in S |-> Cardinality(UpTo(S, p))]
<1>1. c \in Nat
  BY FS_CardinalityType
<1>2. \A p \in S : Cardinality(UpTo(S, p)) \in 1 .. c
  <2> SUFFICES ASSUME NEW p \in S PROVE Cardinality(UpTo(S, p)) \in 1 .. c
    OBVIOUS
  <2>1. UpTo(S, p) \in SUBSET S /\ p \in UpTo(S, p)
    BY DEF UpTo
  <2>2. IsFiniteSet(UpTo(S, p)) /\ Cardinality(UpTo(S, p)) =< c
    BY <2>1, FS_Subset
  <2>3. Cardinality(UpTo(S, p)) \in Nat /\ Cardinality(UpTo(S, p)) # 0
    BY <2>1, <2>2, FS_CardinalityType, FS_EmptySet
  <2> QED BY <1>1, <2>2, <2>3
<1>3. g \in [S -> 1 .. c]
  BY <1>2
<1>4. \A p, q \in S : g[p] = g[q] => p = q
  BY RanksApart
<1> HIDE DEF g
<1>5. g \in Injection(S, 1 .. c)
  BY <1>3, <1>4 DEF Injection, IsInjective
<1>6. IsFiniteSet(1 .. c) /\ Cardinality(1 .. c) = c
  BY <1>1, FS_Interval
<1>7. g \in Surjection(S, 1 .. c)
  BY <1>5, <1>6, FS_Injection
<1>8. PICK p \in S : g[p] = k
  BY <1>7 DEF Surjection
<1>9. Cardinality(UpTo(S, p)) = k
  BY <1>8 DEF g
<1>10. Nth(S, k) = p
  BY <1>9, NthIs
<1> QED BY <1>9, <1>10

\* The offset of a thread is what a table of running totals says.
LEMMA TofIs ==
  ASSUME NEW f, NEW k \in Nat, NEW B, B[0] = 0,
         \A i \in 0 .. k : B[i] \in Nat,
         \A i \in 0 .. k - 1 : B[i + 1] = B[i] + LineCount(f, i)
  PROVE  Tof(f, k) = B[k]
<1> DEFINE body(g) == [i \in 0 .. k |-> IF i = 0 THEN 0 ELSE g[i - 1] + LineCount(f, i - 1)]
           F == [i \in 0 .. k |-> B[i]]
           tof == CHOOSE g : g = body(g)
<1>1. F = body(F)
  <2>1. ASSUME NEW i \in 0 .. k, i # 0 PROVE F[i] = F[i - 1] + LineCount(f, i - 1)
    <3>1. i - 1 \in 0 .. k - 1 /\ i - 1 \in 0 .. k /\ (i - 1) + 1 = i
      BY <2>1
    <3> QED BY <3>1
  <2>2. F[0] = 0
    OBVIOUS
  <2> QED BY <2>1, <2>2
<1>2. tof = body(tof)
  <2> HIDE DEF F, body
  <2> QED BY <1>1
<1>3. Tof(f, k) = tof[k]
  BY DEF Tof
<1> HIDE DEF tof, F
<1>4. \A i \in 0 .. k : tof[i] = IF i = 0 THEN 0 ELSE tof[i - 1] + LineCount(f, i - 1)
  BY <1>2
<1> HIDE DEF body
<1> DEFINE S == {i \in Nat : i =< k => tof[i] = B[i]}
<1>5. 0 \in S
  BY <1>4
<1>6. ASSUME NEW i \in Nat, i \in S PROVE i + 1 \in S
  <2> SUFFICES ASSUME i + 1 =< k PROVE tof[i + 1] = B[i + 1]
    OBVIOUS
  <2>1. i \in 0 .. k - 1 /\ i + 1 \in 0 .. k /\ i + 1 # 0 /\ (i + 1) - 1 = i
    OBVIOUS
  <2>2. tof[i + 1] = tof[i] + LineCount(f, i)
    BY <1>4, <2>1
  <2>3. tof[i] = B[i]
    BY <1>6, <2>1
  <2> QED BY <2>1, <2>2, <2>3
<1>7. Nat \subseteq S
  <2> HIDE DEF S
  <2> QED BY <1>5, <1>6, SetInduction
<1> QED BY <1>3, <1>7

\* A set and what comes after it.
LEMMA DisjointUnion ==
  ASSUME NEW A, NEW C, IsFiniteSet(A), IsFiniteSet(C), A \cap C = {}
  PROVE  /\ Cardinality(A \cup C) = Cardinality(A) + Cardinality(C)
         /\ Cardinality(A) \in Nat /\ Cardinality(C) \in Nat
<1>1. Cardinality(A \cup C) = Cardinality(A) + Cardinality(C) - Cardinality(A \cap C)
  BY FS_Union, Zenon
<1>2. Cardinality(A \cap C) = 0
  BY FS_EmptySet
<1>3. Cardinality(A) \in Nat /\ Cardinality(C) \in Nat
  BY FS_CardinalityType
<1> QED BY <1>1, <1>2, <1>3

\* A thread that finds no comment has found the data lines of its range, and
\* its offset is the number of those before.
LEMMA OffsetsAre ==
  ASSUME NEW f, Len(f) \in Nat, DataLines(f) # {}, \A t \in 0 .. IoThreads - 1 : ChunkOk(f, t)
  PROVE  /\ \A t \in 0 .. IoThreads : /\ Tof(f, t) = Cardinality(UpTo(DataLines(f), ChunkStart(f, t)))
                                      /\ Tof(f, t) \in Nat
         /\ Tof(f, 0) = 0 /\ Tof(f, IoThreads) = Cardinality(DataLines(f))
         /\ \A t \in 0 .. IoThreads - 1 :
              /\ Parsed(f, t) = {p \in DataLines(f) : ChunkStart(f, t) < p /\ p =< ChunkStart(f, t + 1)}
              /\ Tof(f, t + 1) = Tof(f, t) + Cardinality(Parsed(f, t))
<1> DEFINE D == DataLines(f)
           cs(t) == ChunkStart(f, t)
           B == [t \in 0 .. IoThreads |-> Cardinality(UpTo(D, cs(t)))]
<1>1. IoThreads \in Nat \ {0}
  BY IoAssumption
<1>2. /\ D \in SUBSET (1 .. Len(f)) /\ cs(0) = DataStart(f) /\ cs(IoThreads) = Len(f)
      /\ \A p \in D : DataStart(f) + 1 =< p
      /\ \A t \in 0 .. IoThreads : cs(t) \in 0 .. Len(f) /\ Cut(f, cs(t))
      /\ \A t \in 0 .. IoThreads - 1 : cs(t) =< cs(t + 1)
  BY ChunkStarts
<1>3. \A A \in SUBSET D : IsFiniteSet(A) /\ Cardinality(A) \in Nat
  <2>1. IsFiniteSet(1 .. Len(f))
    BY FS_Interval
  <2>2. \A A \in SUBSET D : A \in SUBSET (1 .. Len(f))
    BY <1>2
  <2> QED BY <2>1, <2>2, FS_Subset, FS_CardinalityType
<1>4. ASSUME NEW t \in 0 .. IoThreads - 1
      PROVE  Parsed(f, t) = {p \in D : cs(t) < p /\ p =< cs(t + 1)}
  <2>1. t \in 0 .. IoThreads /\ t + 1 \in 0 .. IoThreads
    BY <1>1
  <2>2. Parsed(f, t) = {p \in Heads(f, 0, Len(f)) : cs(t) < p /\ p =< cs(t + 1)}
    BY <1>2, <2>1, HeadsWithin DEF Parsed
  <2>3. \A p \in Parsed(f, t) : f[p] # "#"
    BY DEF ChunkOk
  <2> HIDE DEF cs
  <2> QED BY <2>2, <2>3 DEF DataLines
<1>5. ASSUME NEW t \in 0 .. IoThreads - 1
      PROVE  /\ Cardinality(UpTo(D, cs(t + 1))) = Cardinality(UpTo(D, cs(t))) + Cardinality(Parsed(f, t))
             /\ Cardinality(Parsed(f, t)) = LineCount(f, t)
  <2>1. t \in 0 .. IoThreads /\ t + 1 \in 0 .. IoThreads
    BY <1>1
  <2>2. PICK lo \in 0 .. Len(f), hi \in 0 .. Len(f) : lo = cs(t) /\ hi = cs(t + 1) /\ lo =< hi
    BY <1>2, <2>1
  <2> DEFINE A == UpTo(D, lo)
             C == {p \in D : lo < p /\ p =< hi}
  <2>3. \A p \in D : p \in Nat
    BY <1>2
  <2> HIDE DEF D, cs
  <2>4. UpTo(D, hi) = A \cup C /\ A \cap C = {}
    BY <2>2, <2>3 DEF UpTo
  <2>5. A \in SUBSET D /\ C \in SUBSET D
    BY DEF UpTo
  <2> HIDE DEF A, C
  <2>6. Cardinality(A \cup C) = Cardinality(A) + Cardinality(C)
    BY <1>3, <2>4, <2>5, DisjointUnion
  <2>7. Parsed(f, t) = C
    BY <1>4, <2>2 DEF C
  <2>8. Cardinality(Parsed(f, t)) = LineCount(f, t)
    BY DEF ChunkOk
  <2>9. Cardinality(UpTo(D, hi)) = Cardinality(UpTo(D, lo)) + Cardinality(Parsed(f, t))
    BY <2>4, <2>6, <2>7 DEF A
  <2> QED BY <2>2, <2>8, <2>9
<1>6. \A t \in 0 .. IoThreads : B[t] = Cardinality(UpTo(D, cs(t))) /\ B[t] \in Nat
  <2>1. \A t : UpTo(D, cs(t)) \in SUBSET D
    BY DEF UpTo
  <2> QED BY <1>3, <2>1
<1>7. B[0] = 0
  <2>1. UpTo(D, cs(0)) = {}
    <3>1. DataStart(f) \in 0 .. Len(f) /\ \A p \in D : p \in Nat
      BY <1>1, <1>2
    <3> QED BY <1>2, <3>1 DEF UpTo
  <2>2. B[0] = Cardinality(UpTo(D, cs(0)))
    BY <1>1, <1>6
  <2> HIDE DEF B, D, cs
  <2> QED BY <2>1, <2>2, FS_EmptySet
<1>8. \A i \in 0 .. IoThreads - 1 : B[i + 1] = B[i] + LineCount(f, i)
  <2> SUFFICES ASSUME NEW i \in 0 .. IoThreads - 1 PROVE B[i + 1] = B[i] + LineCount(f, i)
    OBVIOUS
  <2>1. i \in 0 .. IoThreads /\ i + 1 \in 0 .. IoThreads
    BY <1>1
  <2> HIDE DEF B
  <2> QED BY <1>5, <1>6, <2>1
<1> HIDE DEF B
<1>9. ASSUME NEW t \in 0 .. IoThreads PROVE Tof(f, t) = B[t]
  <2>1. t \in Nat /\ \A i \in 0 .. t : B[i] \in Nat
    BY <1>1, <1>6
  <2>2. \A i \in 0 .. t - 1 : B[i + 1] = B[i] + LineCount(f, i)
    BY <1>1, <1>8
  <2> QED BY <1>7, <2>1, <2>2, TofIs
<1>10. UpTo(D, cs(IoThreads)) = D
  <2>1. \A q \in D : q =< cs(IoThreads)
    BY <1>2
  <2> HIDE DEF D, cs
  <2> QED BY <2>1, Zenon DEF UpTo
<1>11. Tof(f, 0) = 0 /\ Tof(f, IoThreads) = Cardinality(D)
  BY <1>1, <1>6, <1>7, <1>9, <1>10
<1>12. ASSUME NEW t \in 0 .. IoThreads - 1
       PROVE  Tof(f, t + 1) = Tof(f, t) + Cardinality(Parsed(f, t))
  <2>1. t \in 0 .. IoThreads /\ t + 1 \in 0 .. IoThreads
    BY <1>1
  <2> QED BY <1>5, <1>6, <1>9, <2>1
<1> QED BY <1>4, <1>6, <1>9, <1>11, <1>12

LEMMA ParsersAgree ==
  ASSUME NEW f, Len(f) \in Nat, ~ Mmap(f).failed, ~ Serial(f).failed
  PROVE  Mmap(f) = Serial(f)
<1> DEFINE D == DataLines(f)
           ranges(i) == {t \in 0 .. IoThreads - 1 : Tof(f, t) < i /\ i =< Tof(f, t + 1)}
           from(i) == CHOOSE t \in 0 .. IoThreads - 1 : Tof(f, t) < i /\ i =< Tof(f, t + 1)
           m == [i \in 1 .. Tof(f, IoThreads) |-> f[Nth(Parsed(f, from(i)), i - Tof(f, from(i)))]]
           s == [i \in 1 .. Cardinality(D) |-> f[Nth(D, i)]]
<1>1. Fail.failed = TRUE
  BY DEF Fail
<1>2. D # {} /\ (\A t \in 0 .. IoThreads - 1 : ChunkOk(f, t)) /\ Mmap(f) = Read(m)
  BY <1>1, Zenon DEF Mmap
<1>3. Serial(f) = Read(s)
  BY <1>1, Zenon DEF Serial
<1>4. IoThreads \in Nat \ {0}
  BY IoAssumption
<1>5. /\ \A t \in 0 .. IoThreads : Tof(f, t) = Cardinality(UpTo(D, ChunkStart(f, t))) /\ Tof(f, t) \in Nat
      /\ Tof(f, 0) = 0 /\ Tof(f, IoThreads) = Cardinality(D)
      /\ \A t \in 0 .. IoThreads - 1 :
           /\ Parsed(f, t) = {p \in D : ChunkStart(f, t) < p /\ p =< ChunkStart(f, t + 1)}
           /\ Tof(f, t + 1) = Tof(f, t) + Cardinality(Parsed(f, t))
  BY <1>2, OffsetsAre
<1>6. D \in SUBSET (1 .. Len(f)) /\ \A t \in 0 .. IoThreads : ChunkStart(f, t) \in Nat
  BY <1>2, ChunkStarts
<1>7. IsFiniteSet(D) /\ Cardinality(D) \in Nat /\ \A A \in SUBSET D : IsFiniteSet(A)
  <2>1. IsFiniteSet(1 .. Len(f))
    BY FS_Interval
  <2> QED BY <1>6, <2>1, FS_Subset, FS_CardinalityType
<1> HIDE DEF D
<1>8. ASSUME NEW i \in 1 .. Cardinality(D)
      PROVE  f[Nth(Parsed(f, from(i)), i - Tof(f, from(i)))] = f[Nth(D, i)]
  <2>1. \E t \in 0 .. IoThreads - 1 : Tof(f, t) < i /\ i =< Tof(f, t + 1)
    <3> DEFINE U == {u \in 0 .. IoThreads : i =< Tof(f, u)}
    <3>1. U \in SUBSET Nat /\ IoThreads \in U
      BY <1>4, <1>5
    <3>2. PICK u \in U : \A v \in U : u =< v
      <4> HIDE DEF U
      <4> QED BY <3>1, LeastElement
    <3>3. u # 0 /\ u - 1 \in 0 .. IoThreads - 1 /\ u - 1 \notin U /\ (u - 1) + 1 = u
      BY <1>4, <1>5, <3>2
    <3>4. ~ (i =< Tof(f, u - 1)) /\ Tof(f, u - 1) \in Nat
      BY <1>4, <1>5, <3>3
    <3> QED BY <3>2, <3>3, <3>4
  <2>2. PICK t \in 0 .. IoThreads - 1 : t = from(i) /\ Tof(f, t) < i /\ i =< Tof(f, t + 1)
    BY <2>1
  <2> HIDE DEF from
  <2>3. t \in 0 .. IoThreads /\ t + 1 \in 0 .. IoThreads
    BY <1>4
  <2> DEFINE X == Parsed(f, t)
             k == i - Tof(f, t)
             c == ChunkStart(f, t)
             p == Nth(X, k)
  <2>4. X = {q \in D : c < q /\ q =< ChunkStart(f, t + 1)} /\ c \in Nat
    BY <1>5, <1>6, <2>3
  <2>5. X \in SUBSET D /\ X \in SUBSET Nat /\ IsFiniteSet(X) /\ Cardinality(X) \in Nat
    <3>1. X \in SUBSET D
      BY <2>4
    <3> HIDE DEF X
    <3> QED BY <1>6, <1>7, <3>1, FS_CardinalityType
  <2>6. k \in 1 .. Cardinality(X) /\ Tof(f, t) + k = i
    BY <1>5, <2>2, <2>3, <2>5
  <2>7. p \in X /\ Cardinality(UpTo(X, p)) = k
    <3> HIDE DEF X, k
    <3> QED BY <2>5, <2>6, NthExists
  <2>8. Cardinality(UpTo(D, p)) = i
    <3> HIDE DEF X, k, p, c
    <3>1. p \in D /\ c < p
      BY <2>4, <2>7
    <3>2. UpTo(D, p) = UpTo(D, c) \cup UpTo(X, p) /\ UpTo(D, c) \cap UpTo(X, p) = {}
      <4>1. \A q \in D : q \in Nat
        BY <1>6
      <4>2. p =< ChunkStart(f, t + 1) /\ ChunkStart(f, t + 1) \in Nat
        BY <1>6, <2>3, <2>4, <2>7
      <4> QED BY <2>4, <3>1, <4>1, <4>2 DEF UpTo
    <3>3. IsFiniteSet(UpTo(D, c)) /\ IsFiniteSet(UpTo(X, p))
      <4>1. UpTo(D, c) \in SUBSET D /\ UpTo(X, p) \in SUBSET D
        BY <2>5 DEF UpTo
      <4> QED BY <1>7, <4>1
    <3>4. Cardinality(UpTo(D, p)) = Cardinality(UpTo(D, c)) + Cardinality(UpTo(X, p))
      BY <3>2, <3>3, DisjointUnion, Zenon
    <3>5. Cardinality(UpTo(D, c)) = Tof(f, t)
      BY <1>5, <2>3 DEF c
    <3> QED BY <2>6, <2>7, <3>4, <3>5
  <2>9. Nth(D, i) = p
    <3>1. p \in D /\ D \in SUBSET Nat
      BY <1>6, <2>5, <2>7
    <3> HIDE DEF p
    <3> QED BY <1>7, <2>8, <3>1, NthIs
  <2> QED BY <2>2, <2>9
<1>9. m = s
  BY <1>5, <1>8
<1> QED BY <1>2, <1>3, <1>9

\* Where every line has a head, a range that ends with a newline has as many
\* of the one as of the other.
LEMMA LinesHaveHeads ==
  ASSUME NEW f, Len(f) \in Nat, NEW lo \in 0 .. Len(f), NEW hi \in 0 .. Len(f), lo < hi, f[hi] = "nl",
         NEW H, H = {p \in Heads(f, 0, Len(f)) : lo < p /\ p =< hi},
         \A j \in Newlines(f, lo, hi) :
           \E p \in Heads(f, 0, j) : lo < p /\ Newlines(f, p, j) = {j}
  PROVE  Cardinality(H) = Cardinality(Newlines(f, lo, hi))
<1> DEFINE L == Newlines(f, lo, hi)
           of(j) == CHOOSE p \in Heads(f, 0, j) : lo < p /\ Newlines(f, p, j) = {j}
           g == [j \in L |-> of(j)]
<1>1. \A j \in L : j \in lo + 1 .. hi /\ f[j] = "nl"
  BY DEF Newlines
<1>2. \A p \in H : p \in 1 .. Len(f) /\ f[p] # "nl" /\ p \in Heads(f, 0, Len(f)) /\ lo < p /\ p =< hi
  BY DEF Heads
<1>3. ASSUME NEW j \in L
      PROVE  of(j) \in H /\ of(j) \in 1 .. j - 1 /\ Newlines(f, of(j), j) = {j}
  <2>1. of(j) \in Heads(f, 0, j) /\ lo < of(j) /\ Newlines(f, of(j), j) = {j}
    OBVIOUS
  <2>2. PICK p \in Heads(f, 0, j) : p = of(j) /\ lo < p
    BY <2>1
  <2> HIDE DEF of
  <2>3. p \in 1 .. j /\ f[p] # "nl" /\ p \in Heads(f, 0, Len(f))
    <3>1. j =< Len(f) /\ j \in Nat
      BY <1>1
    <3> QED BY <3>1 DEF Heads
  <2>4. p # j
    BY <1>1, <2>3
  <2> QED BY <1>1, <2>1, <2>2, <2>3, <2>4
<1> HIDE DEF of
<1>4. g \in [L -> H]
  BY <1>3
<1>5. ASSUME NEW i \in L, NEW j \in L, g[i] = g[j] PROVE i = j
  <2>1. ASSUME NEW x \in L, NEW y \in L, of(x) = of(y), x < y PROVE FALSE
    <3>1. of(x) \in 1 .. x - 1 /\ Newlines(f, of(x), y) = {y}
      BY <1>3, <2>1
    <3>2. x \in of(x) + 1 .. y /\ f[x] = "nl"
      BY <1>1, <2>1, <3>1
    <3>3. x \in Newlines(f, of(x), y)
      BY <3>2 DEF Newlines
    <3> QED BY <1>1, <2>1, <3>1, <3>3
  <2>2. of(i) = of(j) /\ i \in Nat /\ j \in Nat
    BY <1>1, <1>5
  <2> QED BY <2>1, <2>2
<1>6. ASSUME NEW p \in H PROVE \E j \in L : g[j] = p
  <2> DEFINE M == {j \in p + 1 .. hi : f[j] = "nl"}
  <2>1. M \in SUBSET Nat /\ hi \in M
    BY <1>2
  <2>2. PICK j \in M : \A k \in M : j =< k
    <3> HIDE DEF M
    <3> QED BY <2>1, LeastElement
  <2>3. j \in p + 1 .. hi /\ f[j] = "nl" /\ j \in L
    BY <1>2 DEF Newlines
  <2>4. PICK q \in H : q = of(j) /\ q \in 1 .. j - 1 /\ Newlines(f, q, j) = {j}
    BY <1>3, <2>3
  <2>5. ~ (q < p)
    <3> SUFFICES ASSUME q < p PROVE FALSE
      OBVIOUS
    <3>1. PICK k \in q + 1 .. p - 1 : f[k] = "nl"
      BY <1>2, NewlineBetween
    <3>2. k \in q + 1 .. j /\ k # j
      BY <1>2, <2>3, <3>1
    <3>3. k \in Newlines(f, q, j)
      BY <3>1, <3>2 DEF Newlines
    <3> QED BY <2>4, <3>2, <3>3
  <2>6. ~ (p < q)
    <3> SUFFICES ASSUME p < q PROVE FALSE
      OBVIOUS
    <3>1. PICK k \in p + 1 .. q - 1 : f[k] = "nl"
      BY <1>2, NewlineBetween
    <3>2. k \in M /\ k < j
      BY <1>2, <2>3, <2>4, <3>1
    <3> QED BY <2>1, <2>2, <3>2
  <2>7. q = p
    BY <1>2, <2>5, <2>6
  <2> QED BY <2>3, <2>4, <2>7
<1> HIDE DEF g
<1>7. g \in Bijection(L, H)
  BY <1>4, <1>5, <1>6 DEF Bijection, Injection, Surjection, IsInjective
<1>8. IsFiniteSet(L)
  <2>1. IsFiniteSet(lo + 1 .. hi) /\ L \in SUBSET (lo + 1 .. hi)
    BY FS_Interval DEF Newlines
  <2> HIDE DEF L
  <2> QED BY <2>1, FS_Subset
<1>9. ExistsBijection(L, H)
  BY <1>7 DEF ExistsBijection
<1> HIDE DEF L
<1>10. Cardinality(H) = Cardinality(L)
  BY <1>8, <1>9, FS_Bijection
<1> QED BY <1>10 DEF L

\* The parallel parser reads a text of nonzero lines.
LEMMA OnlyDataRead == ASSUME NEW f \in OnlyData PROVE ~ Mmap(f).failed
<1> DEFINE n == Len(f)
           H == Heads(f, 0, n)
<1>1. /\ f \in Seq(STRING) /\ f # <<>> /\ f[n] = "nl"
      /\ \A p \in H : f[p] \notin {"#", "bad"}
      /\ \A j \in Newlines(f, 0, n) : \E p \in Heads(f, 0, j) : Newlines(f, p, j) = {j}
  BY CacheAssumption DEF OnlyData
<1>2. n \in Nat \ {0} /\ IoThreads \in Nat \ {0}
  BY <1>1, IoAssumption
<1>3. DataLines(f) = H
  BY <1>1 DEF DataLines
<1>4. H # {}
  <2>1. n \in Newlines(f, 0, n)
    BY <1>1, <1>2 DEF Newlines
  <2>2. PICK p : p \in Heads(f, 0, n)
    BY <1>1, <2>1
  <2> QED BY <2>2
<1> HIDE DEF n, H
<1>5. /\ \A p \in H : DataStart(f) + 1 =< p
      /\ ChunkStart(f, 0) = DataStart(f) /\ ChunkStart(f, IoThreads) = n
      /\ \A t \in 0 .. IoThreads :
           /\ ChunkStart(f, t) \in 0 .. n /\ Cut(f, ChunkStart(f, t))
           /\ t > 0 => ChunkStart(f, t) = n \/ f[ChunkStart(f, t)] = "nl"
      /\ \A t \in 0 .. IoThreads - 1 : ChunkStart(f, t) =< ChunkStart(f, t + 1)
  BY <1>2, <1>3, <1>4, ChunkStarts DEF n
<1>6. ASSUME NEW t \in 0 .. IoThreads - 1 PROVE ChunkOk(f, t)
  <2>1. t \in 0 .. IoThreads /\ t + 1 \in 0 .. IoThreads /\ t + 1 > 0
    BY <1>2
  <2>2. PICK lo \in 0 .. n, hi \in 0 .. n :
          /\ lo = ChunkStart(f, t) /\ hi = ChunkStart(f, t + 1) /\ lo =< hi /\ Cut(f, lo)
          /\ f[hi] = "nl" /\ (t > 0 => f[lo] = "nl") /\ (t = 0 => lo = DataStart(f))
          /\ t = IoThreads - 1 => hi = n
    <3>1. /\ ChunkStart(f, t) \in 0 .. n /\ Cut(f, ChunkStart(f, t))
          /\ t > 0 => f[ChunkStart(f, t)] = "nl"
      BY <1>1, <1>5, <2>1 DEF n
    <3>2. ChunkStart(f, t + 1) \in 0 .. n /\ f[ChunkStart(f, t + 1)] = "nl"
      BY <1>1, <1>5, <2>1 DEF n
    <3> QED BY <1>2, <1>5, <3>1, <3>2
  <2>3. Parsed(f, t) = {p \in H : lo < p /\ p =< hi}
    BY <1>2, <2>2, HeadsWithin DEF Parsed, H, n
  <2>4. LineCount(f, t) = Cardinality(Newlines(f, lo, hi))
    <3>1. Cardinality(Newlines(f, lo, hi)) \in Nat
      <4>1. IsFiniteSet(lo + 1 .. hi) /\ Newlines(f, lo, hi) \in SUBSET (lo + 1 .. hi)
        BY FS_Interval DEF Newlines
      <4> QED BY <4>1, FS_Subset, FS_CardinalityType
    <3>2. LineCount(f, t) = Cardinality(Newlines(f, lo, hi)) + 0
      BY <2>2, Zenon DEF LineCount
    <3> QED BY <3>1, <3>2
  <2>5. Cardinality(Parsed(f, t)) = Cardinality(Newlines(f, lo, hi))
    <3>1. CASE lo = hi
      <4>1. Parsed(f, t) = {} /\ Newlines(f, lo, hi) = {}
        <5>1. \A p \in H : p \in Nat
          BY DEF H, Heads
        <5> QED BY <2>3, <3>1, <5>1 DEF Newlines
      <4> QED BY <4>1
    <3>2. CASE lo < hi
      <4>1. ASSUME NEW j \in Newlines(f, lo, hi)
            PROVE  \E p \in Heads(f, 0, j) : lo < p /\ Newlines(f, p, j) = {j}
        <5>1. j \in lo + 1 .. hi /\ f[j] = "nl" /\ j \in Newlines(f, 0, n)
          BY <1>2 DEF Newlines
        <5>2. PICK p \in Heads(f, 0, j) : Newlines(f, p, j) = {j}
          BY <1>1, <5>1 DEF n
        <5>3. p \in 1 .. j /\ f[p] # "nl" /\ p \in H
          BY <1>2, <5>1 DEF Heads, H
        <5>4. lo < p
          <6>1. CASE t = 0
            BY <1>5, <2>2, <5>3, <6>1
          <6>2. CASE t > 0
            <7> SUFFICES ASSUME p =< lo PROVE FALSE
              BY <5>3
            <7>1. p # lo /\ f[lo] = "nl"
              BY <2>2, <5>3, <6>2
            <7>2. lo \in p + 1 .. j /\ lo # j
              BY <5>1, <5>3, <7>1
            <7>3. lo \in Newlines(f, p, j)
              BY <7>1, <7>2 DEF Newlines
            <7> QED BY <5>2, <7>2, <7>3
          <6> QED BY <2>1, <6>1, <6>2
        <5> QED BY <5>2, <5>4
      <4>2. Len(f) \in Nat /\ lo \in 0 .. Len(f) /\ hi \in 0 .. Len(f)
        BY <1>2 DEF n
      <4>3. Parsed(f, t) = {p \in Heads(f, 0, Len(f)) : lo < p /\ p =< hi}
        BY <2>3 DEF H, n
      <4>4. f[hi] = "nl" /\ \A j \in Newlines(f, lo, hi) :
              \E p \in Heads(f, 0, j) : lo < p /\ Newlines(f, p, j) = {j}
        BY <2>2, <4>1
      <4>5. PICK X : X = {p \in Heads(f, 0, Len(f)) : lo < p /\ p =< hi}
        OBVIOUS
      <4>6. Cardinality(X) = Cardinality(Newlines(f, lo, hi))
        BY <3>2, <4>2, <4>4, <4>5, LinesHaveHeads
      <4> QED BY <4>3, <4>5, <4>6
    <3> QED BY <2>2, <3>1, <3>2
  <2>6. \A p \in Parsed(f, t) : f[p] \notin {"bad", "#"}
    BY <1>1, <2>3 DEF H, n
  <2> QED BY <2>4, <2>5, <2>6 DEF ChunkOk
<1>7. \E x : Mmap(f) = Read(x)
  <2>1. ~ (Len(f) = 0 \/ DataLines(f) = {}) /\ ~ (\E t \in 0 .. IoThreads - 1 : ~ ChunkOk(f, t))
    BY <1>2, <1>3, <1>4, <1>6 DEF n
  <2> QED BY <2>1, Zenon DEF Mmap
<1> QED BY <1>7 DEF Read

\* The text is one of the texts.
TextInv == clock \in Nat /\ tns \in [exists : BOOLEAN, text : Texts, mtime : Nat]

LEMMA TextInvHolds == DnbSpec => []TextInv
<1>1. DnbInit => TextInv
  BY DEF DnbInit, TextInv
<1>2. ASSUME TextInv, [DnbNext]_dnbVars PROVE TextInv'
  <2>1. CASE Tick
    BY <1>2, <2>1 DEF Tick, TextInv
  <2>2. CASE Delete
    BY <1>2, <2>2 DEF Delete, TextInv
  <2>3. CASE \E f \in Texts : Edit(f)
    BY <1>2, <2>3 DEF Edit, TextInv
  <2>4. CASE ~ Environment
    <3>1. UNCHANGED <<clock, tns>>
      BY <1>2, <2>4 DEF DnbNext, dnbVars, Load, Save, Start, Stat, LoadDnb, ParseText, OpenFails, OpenTmp,
         Write, WriteFails, Close, RemoveDnb, Rename, RenameFails, Crash
    <3> QED BY <1>2, <3>1 DEF TextInv
  <2> QED BY <2>1, <2>2, <2>3, <2>4 DEF Environment
<1> QED BY <1>1, <1>2, PTL DEF DnbSpec

(* For every text, however the byte ranges of any number of threads fall   *)
(* on its lines: load_tns_mmap reads what load_tns_serial reads when both  *)
(* accept the file, and it accepts a file of nonzero lines.                *)
THEOREM ParsersAlwaysAgree == DnbSpec => []MmapMatchesSerial
<1>1. TextInv => MmapMatchesSerial
  <2> SUFFICES ASSUME TextInv PROVE MmapMatchesSerial
    OBVIOUS
  <2>1. /\ tns.text \in Texts /\ Len(tns.text) \in Nat
        /\ MmapOf[tns.text] = Mmap(tns.text) /\ SerialOf[tns.text] = Serial(tns.text)
    BY CacheAssumption DEF TextInv, MmapOf, SerialOf
  <2>2. ~ Mmap(tns.text).failed /\ ~ Serial(tns.text).failed => Mmap(tns.text) = Serial(tns.text)
    BY <2>1, ParsersAgree
  <2>3. tns.text \in OnlyData => ~ Mmap(tns.text).failed
    BY OnlyDataRead
  <2> QED BY <2>1, <2>2, <2>3, Zenon DEF MmapMatchesSerial
<1> QED BY <1>1, TextInvHolds, PTL

-----------------------------------------------------------------------------
(* The cache. *)

OneProcess == \E q : Proc = {q}

Held == Tensors \cup {Hole, <<>>}

TypeInv ==
  /\ clock \in Nat
  /\ tns \in [exists : BOOLEAN, text : Texts, mtime : Nat]
  /\ at \in [Path -> Inode \cup {NoFile}]
  /\ file \in [Inode -> [pieces : Seq(Tensors), mtime : Nat, readAt : Nat, short : BOOLEAN]]
  /\ pc \in [Proc -> {"idle", "stat", "load", "parse", "open", "write", "remove", "rename"}]
  /\ T \in [Proc -> [vals : Held, idx : Held]]
  /\ outcome \in [Proc -> {"none", "cache", "text", "failed"}]
  /\ readAt \in [Proc -> Nat]
  /\ fp \in [Proc -> Inode \cup {NoFile}]
  /\ offset \in [Proc -> Nat]

\* The two names never name one file.
TwoFiles == at["dnb"] = at["tmp"] => at["dnb"] = NoFile

\* Nothing has been edited, read or opened in the future.
Pasts ==
  /\ tns.mtime =< clock
  /\ \A i \in Inode : file[i].readAt =< clock
  /\ \A p \in Proc : readAt[p] =< clock

\* The pieces of a file are of one tensor.
OneVersion == \A i \in Inode : \A j, k \in DOMAIN file[i].pieces :
                file[i].pieces[j] = file[i].pieces[k]

Closed(i) == file[i].short \/ Len(file[i].pieces) = Pieces

CacheClosed == at["dnb"] # NoFile => Closed(at["dnb"])

\* A load in progress has no result yet.  The process that saves has a whole
\* tensor, and the temporary name is that of the file it writes.
Saving == \A p \in Proc :
  /\ pc[p] \in {"stat", "load", "parse"} => outcome[p] = "none"
  /\ pc[p] \in {"open", "write", "remove", "rename"} => outcome[p] = "text"
  /\ pc[p] # "write" => fp[p] = NoFile
  /\ pc[p] = "write" =>
       /\ fp[p] = at["tmp"] /\ fp[p] \in Inode
       /\ offset[p] = Len(file[fp[p]].pieces) /\ offset[p] =< Pieces
       /\ \A j \in DOMAIN file[fp[p]].pieces : file[fp[p]].pieces[j] = T[p].vals
       /\ file[fp[p]].readAt = readAt[p]
  /\ pc[p] \in {"remove", "rename"} => at["tmp"] # NoFile /\ Closed(at["tmp"])

\* A tensor read at r is that of the text, unless edited since.
Current(r, x) == tns.mtime < r => ParseOf[tns.text] = Read(x)

Contents ==
  /\ \A i \in Inode : \A j \in DOMAIN file[i].pieces :
       Current(file[i].readAt, file[i].pieces[j])
  /\ \A p \in Proc : pc[p] \in {"open", "write"} => Current(readAt[p], T[p].vals)

DnbInv == /\ TypeInv /\ TwoFiles /\ Pasts /\ OneVersion /\ CacheClosed
        /\ Saving /\ Contents /\ LoadedWhole

-----------------------------------------------------------------------------
(* The parsers return a tensor or give up. *)
LEMMA ParseFacts ==
  ASSUME NEW f \in Texts
  PROVE  /\ ParseOf[f] = Fail \/ \E x : ParseOf[f] = Read(x)
         /\ ~ ParseOf[f].failed =>
              ParseOf[f] = Read(ParseOf[f].tensor) /\ ParseOf[f].tensor \in Tensors
<1>1. Mmap(f) = Fail \/ \E x : Mmap(f) = Read(x)
  BY Zenon DEF Mmap
<1>2. Serial(f) = Fail \/ \E x : Serial(f) = Read(x)
  BY Zenon DEF Serial
<1>3. ParseOf[f] = Fail \/ \E x : ParseOf[f] = Read(x)
  BY <1>1, <1>2, Zenon DEF ParseOf, Parse
<1>4. ASSUME ~ ParseOf[f].failed
      PROVE  ParseOf[f] = Read(ParseOf[f].tensor) /\ ParseOf[f].tensor \in Tensors
  <2>1. Fail.failed = TRUE
    BY DEF Fail
  <2>2. PICK x : ParseOf[f] = Read(x)
    BY <1>3, <1>4, <2>1
  <2>3. Read(x).tensor = x
    BY DEF Read
  <2>4. ParseOf[f].tensor \in Tensors
    BY <1>4, Zenon DEF Tensors
  <2> QED
    BY <2>2, <2>3, <2>4
<1> QED
  BY <1>3, <1>4

LEMMA Inodes ==
  ASSUME OneProcess
  PROVE  Inode = 0 .. 2 /\ NoFile = 3 /\ \A p \in Proc : Proc = {p}
<1>1. PICK q : Proc = {q}
  BY DEF OneProcess
<1>2. Cardinality(Proc) = 1
  BY <1>1, FS_Singleton
<1> QED
  BY <1>1, <1>2 DEF Inode, NoFile

LEMMA FreeInode ==
  ASSUME NEW d \in 0 .. 3, NEW e \in 0 .. 3
  PROVE  Min((0 .. 2) \ {d, e, 3}) \in (0 .. 2) \ {d, e, 3}
<1> DEFINE S == (0 .. 2) \ {d, e, 3}
<1>1. \E x \in S : \A y \in S : x =< y
  <2>1. CASE 0 \in S
    BY <2>1
  <2>2. CASE 0 \notin S /\ 1 \in S
    BY <2>2
  <2>3. CASE 0 \notin S /\ 1 \notin S
    <3>1. 2 \in S
      BY <2>3
    <3> QED
      BY <2>3, <3>1
  <2> QED
    BY <2>1, <2>2, <2>3
<1> QED
  BY <1>1, Zenon DEF Min

LEMMA MaxNext == ASSUME NEW k \in Nat PROVE Max({k + 1, k}) = k + 1
<1>1. \A x \in {k + 1, k} : (\A y \in {k + 1, k} : x >= y) <=> x = k + 1
  OBVIOUS
<1> QED
  BY <1>1 DEF Max

(* A piece written behind the last one. *)
LEMMA PutAppends ==
  ASSUME NEW S, NEW f \in [pieces : Seq(S), mtime : Nat, readAt : Nat, short : BOOLEAN],
         clock \in Nat, NEW x \in S, NEW k \in Nat, k = Len(f.pieces) + 1
  PROVE  /\ Put(f, k, x) \in [pieces : Seq(S), mtime : Nat, readAt : Nat, short : BOOLEAN]
         /\ Len(Put(f, k, x).pieces) = k
         /\ DOMAIN Put(f, k, x).pieces = 1 .. k
         /\ \A j \in 1 .. k : Put(f, k, x).pieces[j] = IF j = k THEN x ELSE f.pieces[j]
         /\ Put(f, k, x).readAt = f.readAt /\ Put(f, k, x).short = f.short
<1> DEFINE q == [j \in 1 .. k |-> IF j = k THEN x ELSE f.pieces[j]]
<1>1. f.pieces \in Seq(S) /\ Len(f.pieces) \in Nat /\ DOMAIN f.pieces = 1 .. Len(f.pieces)
  OBVIOUS
<1>2. Max({k, Len(f.pieces)}) = k
  BY <1>1, MaxNext
<1>3. [j \in 1 .. Max({k, Len(f.pieces)}) |->
         IF j = k THEN x ELSE IF j =< Len(f.pieces) THEN f.pieces[j] ELSE Hole] = q
  <2>1. \A j \in 1 .. k : (IF j = k THEN x ELSE IF j =< Len(f.pieces) THEN f.pieces[j] ELSE Hole)
                             = IF j = k THEN x ELSE f.pieces[j]
    BY <1>1
  <2> QED
    BY <1>2, <2>1
<1>4. q \in Seq(S) /\ Len(q) = k /\ DOMAIN q = 1 .. k
  <2>1. \A j \in 1 .. k : q[j] \in S
    BY <1>1
  <2> QED
    BY <2>1
<1> HIDE DEF q
<1>5. Put(f, k, x) = [f EXCEPT !.mtime = clock, !.pieces = q]
  BY <1>3 DEF Put
<1>6. /\ Put(f, k, x).pieces = q /\ Put(f, k, x).readAt = f.readAt
      /\ Put(f, k, x).short = f.short
      /\ Put(f, k, x) \in [pieces : Seq(S), mtime : Nat, readAt : Nat, short : BOOLEAN]
  BY <1>4, <1>5
<1> QED
  BY <1>4, <1>6 DEF q

-----------------------------------------------------------------------------
LEMMA EmptyFile ==
  ASSUME NEW m \in Nat
  PROVE  /\ Empty(m) \in [pieces : Seq(Tensors), mtime : Nat, readAt : Nat, short : BOOLEAN]
         /\ Empty(m).pieces = <<>> /\ DOMAIN Empty(m).pieces = {} /\ Empty(m).readAt = 0
<1>1. <<>> \in Seq(Tensors) /\ DOMAIN <<>> = {}
  OBVIOUS
<1>2. Empty(m).pieces = <<>> /\ Empty(m).readAt = 0
  BY DEF Empty
<1>3. Empty(m) \in [pieces : Seq(Tensors), mtime : Nat, readAt : Nat, short : BOOLEAN]
  BY <1>1, Zenon DEF Empty
<1> QED
  BY <1>1, <1>2, <1>3

(* When names change, files without a name and a writer go, and the others *)
(* are as they were.                                                       *)
LEMMA Freed ==
  ASSUME DnbInv, FreeUnlinked, UNCHANGED <<clock, tns>>
  PROVE  /\ file' \in [Inode -> [pieces : Seq(Tensors), mtime : Nat, readAt : Nat, short : BOOLEAN]]
         /\ \A i \in Inode : i \in {at'[x] : x \in Path} \cup {fp'[q] : q \in Proc} => file'[i] = file[i]
         /\ OneVersion'
         /\ \A i \in Inode : file'[i].readAt =< clock
         /\ \A i \in Inode : \A j \in DOMAIN file'[i].pieces :
              Current(file'[i].readAt, file'[i].pieces[j])
<1>1. \A i \in Inode : file'[i] = file[i] \/ file'[i] = Empty(0)
  BY DEF FreeUnlinked
<1>2. /\ file' \in [Inode -> [pieces : Seq(Tensors), mtime : Nat, readAt : Nat, short : BOOLEAN]]
      /\ \A i \in Inode : i \in {at'[x] : x \in Path} \cup {fp'[q] : q \in Proc} => file'[i] = file[i]
  BY EmptyFile DEF DnbInv, TypeInv, FreeUnlinked
<1>3. OneVersion'
  BY <1>1, EmptyFile DEF DnbInv, OneVersion
<1>4. \A i \in Inode : file'[i].readAt =< clock
  <2>1. 0 =< clock /\ Empty(0).readAt = 0
    BY EmptyFile DEF DnbInv, TypeInv
  <2>2. \A i \in Inode : file[i].readAt =< clock
    BY DEF DnbInv, Pasts
  <2> QED
    BY <1>1, <2>1, <2>2
<1>5. \A i \in Inode : \A j \in DOMAIN file'[i].pieces :
        Current(file'[i].readAt, file'[i].pieces[j])
  BY <1>1, EmptyFile DEF DnbInv, Contents
<1> QED
  BY <1>2, <1>3, <1>4, <1>5

LEMMA InitInv == ASSUME OneProcess, DnbInit PROVE DnbInv
<1> USE Inodes
<1>1. PICK f \in Texts : tns = [exists |-> TRUE, text |-> f, mtime |-> 0]
  BY DEF DnbInit
<1>2. tns \in [exists : BOOLEAN, text : Texts, mtime : Nat] /\ tns.mtime = 0
  <2>1. 0 \in Nat
    OBVIOUS
  <2> QED
    BY <1>1, <2>1, Zenon
<1>3. file \in [Inode -> [pieces : Seq(Tensors), mtime : Nat, readAt : Nat, short : BOOLEAN]]
      /\ \A i \in Inode : file[i] = Empty(0)
  BY EmptyFile DEF DnbInit
<1>4. TypeInv
  BY <1>2, <1>3 DEF DnbInit, TypeInv, NoTensor, Held
<1>5. TwoFiles /\ Pasts /\ OneVersion /\ CacheClosed
  BY <1>2, <1>3, EmptyFile DEF DnbInit, TwoFiles, Pasts, OneVersion, CacheClosed, Path
<1>6. Saving /\ Contents /\ LoadedWhole
  BY <1>3, EmptyFile DEF DnbInit, Saving, Contents, LoadedWhole
<1> QED
  BY <1>4, <1>5, <1>6 DEF DnbInv

LEMMA EnvironmentKeeps == ASSUME OneProcess, DnbInv, Environment PROVE DnbInv'
<1> USE Inodes
<1>1. CASE Tick
  <2>1. UNCHANGED <<tns, at, file, procVars>> /\ clock' = clock + 1 /\ clock \in Nat
    BY <1>1 DEF Tick, DnbInv, TypeInv
  <2>2. Pasts'
    <3>1. \A k \in Nat : k =< clock => k =< clock'
      BY <2>1
    <3>2. tns.mtime \in Nat /\ (\A i \in Inode : file[i].readAt \in Nat) /\ \A p \in Proc : readAt[p] \in Nat
      BY DEF DnbInv, TypeInv
    <3> QED
      BY <2>1, <3>1, <3>2 DEF DnbInv, Pasts, procVars
  <2>3. TypeInv'
    BY <2>1 DEF DnbInv, TypeInv, procVars
  <2> QED
    BY <2>1, <2>2, <2>3 DEF DnbInv, TwoFiles, OneVersion, CacheClosed, Closed, Saving, Contents,
                            Current, LoadedWhole, procVars
<1>2. CASE Delete
  <2>1. UNCHANGED <<clock, at, file, procVars>> /\ tns' = [tns EXCEPT !.exists = FALSE]
    BY <1>2 DEF Delete
  <2>2. tns' \in [exists : BOOLEAN, text : Texts, mtime : Nat]
        /\ tns'.text = tns.text /\ tns'.mtime = tns.mtime
    BY <2>1 DEF DnbInv, TypeInv
  <2> QED
    BY <2>1, <2>2 DEF DnbInv, TypeInv, TwoFiles, Pasts, OneVersion, CacheClosed, Closed, Saving,
                      Contents, Current, LoadedWhole, procVars
<1>3. ASSUME NEW f \in Texts, Edit(f) PROVE DnbInv'
  <2>1. UNCHANGED <<clock, at, file, procVars>>
        /\ tns' = [exists |-> TRUE, text |-> f, mtime |-> clock]
    BY <1>3 DEF Edit
  <2>2. tns' \in [exists : BOOLEAN, text : Texts, mtime : Nat] /\ tns'.mtime = clock
    <3>1. clock \in Nat
      BY DEF DnbInv, TypeInv
    <3> QED
      BY <2>1, <3>1, Zenon
  <2>3. TypeInv' /\ Pasts'
    BY <2>1, <2>2 DEF DnbInv, TypeInv, Pasts, procVars
  <2>4. Contents'
    <3>1. (\A i \in Inode : ~(clock < file[i].readAt)) /\ \A p \in Proc : ~(clock < readAt[p])
      BY DEF DnbInv, Pasts, TypeInv
    <3> QED
      BY <2>1, <2>2, <3>1 DEF Contents, Current, procVars
  <2> QED
    BY <2>1, <2>3, <2>4 DEF DnbInv, TwoFiles, OneVersion, CacheClosed, Closed, Saving,
                            LoadedWhole, procVars
<1> QED
  BY <1>1, <1>2, <1>3 DEF Environment

LEMMA CrashKeeps == ASSUME OneProcess, DnbInv, NEW p \in Proc, Crash(p) PROVE DnbInv'
<1>1. Proc = {p} /\ Inode = 0 .. 2 /\ NoFile = 3
  BY Inodes
<1>2. /\ UNCHANGED <<clock, tns, at, readAt, offset>>
      /\ pc' = [pc EXCEPT ![p] = "idle"] /\ T' = [T EXCEPT ![p] = NoTensor]
      /\ fp' = [fp EXCEPT ![p] = NoFile] /\ outcome' = [outcome EXCEPT ![p] = "none"]
      /\ FreeUnlinked
  BY DEF Crash
<1>3. TypeInv'
  BY <1>1, <1>2, Freed DEF DnbInv, TypeInv, NoTensor, Held
<1>4. at["dnb"] # NoFile => file'[at["dnb"]] = file[at["dnb"]]
  BY <1>1, <1>2, Freed DEF DnbInv, TypeInv, Path
<1>5. TwoFiles' /\ Pasts' /\ OneVersion' /\ CacheClosed'
  BY <1>2, <1>4, Freed DEF DnbInv, TwoFiles, Pasts, CacheClosed, Closed
<1>6. pc'[p] = "idle" /\ fp'[p] = NoFile /\ outcome'[p] = "none"
  BY <1>2 DEF DnbInv, TypeInv
<1>7. Saving' /\ LoadedWhole'
  BY <1>1, <1>6 DEF Saving, LoadedWhole
<1>8. Contents'
  BY <1>1, <1>2, <1>6, Freed DEF Contents, Current
<1> QED
  BY <1>3, <1>5, <1>7, <1>8 DEF DnbInv

(* The steps of a load, which touch no file. *)
LEMMA LoadSteps ==
  ASSUME OneProcess, DnbInv, NEW p \in Proc,
         UNCHANGED <<clock, tns, at, file, fp, offset>>, pc[p] # "write",
         pc' \in [Proc -> {"idle", "stat", "load", "parse", "open"}],
         T' \in [Proc -> [vals : Held, idx : Held]],
         outcome' \in [Proc -> {"none", "cache", "text", "failed"}],
         readAt' \in [Proc -> Nat], readAt'[p] =< clock,
         outcome'[p] \in {"cache", "text"} => T'[p].vals \in Tensors /\ T'[p].idx = T'[p].vals,
         pc'[p] \in {"stat", "load", "parse"} => outcome'[p] = "none",
         pc'[p] = "open" => outcome'[p] = "text" /\ Current(readAt'[p], T'[p].vals)
  PROVE  DnbInv'
<1>1. Proc = {p}
  BY Inodes
<1>2. TypeInv'
  BY DEF DnbInv, TypeInv
<1>3. TwoFiles' /\ Pasts' /\ OneVersion' /\ CacheClosed'
  BY <1>1 DEF DnbInv, TwoFiles, Pasts, OneVersion, CacheClosed, Closed
<1>4. pc'[p] \notin {"write", "remove", "rename"} /\ fp'[p] = NoFile
  BY <1>1 DEF DnbInv, Saving
<1>5. Saving' /\ LoadedWhole'
  BY <1>1, <1>4 DEF Saving, LoadedWhole
<1>6. Contents'
  BY <1>1, <1>4 DEF DnbInv, Contents, Current
<1> QED
  BY <1>2, <1>3, <1>5, <1>6 DEF DnbInv

LEMMA StartKeeps ==
  ASSUME OneProcess, DnbInv, NEW p \in Proc, NEW c \in BOOLEAN, Start(p, c) PROVE DnbInv'
<1>1. Proc = {p}
  BY Inodes
<1>2. /\ UNCHANGED <<clock, tns, at, file, fp, offset>> /\ pc[p] = "idle"
      /\ T' = [T EXCEPT ![p] = NoTensor] /\ outcome' = [outcome EXCEPT ![p] = "none"]
      /\ readAt' = [readAt EXCEPT ![p] = 0]
      /\ pc' = [pc EXCEPT ![p] = IF c THEN "stat" ELSE "parse"]
  BY DEF Start
<1>3. pc' \in [Proc -> {"idle", "stat", "load", "parse", "open"}] /\ pc'[p] # "open"
  BY <1>1, <1>2 DEF DnbInv, TypeInv
<1>4. T' \in [Proc -> [vals : Held, idx : Held]]
  BY <1>2 DEF DnbInv, TypeInv, NoTensor, Held
<1>5. outcome' \in [Proc -> {"none", "cache", "text", "failed"}] /\ outcome'[p] = "none"
      /\ readAt' \in [Proc -> Nat] /\ readAt'[p] =< clock
  BY <1>2 DEF DnbInv, TypeInv
<1> QED
  BY <1>2, <1>3, <1>4, <1>5, LoadSteps

LEMMA StatKeeps == ASSUME OneProcess, DnbInv, NEW p \in Proc, Stat(p) PROVE DnbInv'
<1>1. Proc = {p}
  BY Inodes
<1>2. /\ UNCHANGED <<clock, tns, at, file, T, outcome, readAt, fp, offset>> /\ pc[p] = "stat"
      /\ pc' = [pc EXCEPT ![p] = IF Fresh THEN "load" ELSE "parse"]
  BY DEF Stat
<1>3. pc' \in [Proc -> {"idle", "stat", "load", "parse", "open"}] /\ pc'[p] # "open"
  BY <1>1, <1>2 DEF DnbInv, TypeInv
<1>4. /\ T' \in [Proc -> [vals : Held, idx : Held]] /\ readAt' \in [Proc -> Nat]
      /\ outcome' \in [Proc -> {"none", "cache", "text", "failed"}]
  BY <1>2 DEF DnbInv, TypeInv
<1>5. /\ readAt'[p] =< clock
      /\ outcome'[p] = "none"
  BY <1>2 DEF DnbInv, Pasts, Saving
<1> QED
  BY <1>2, <1>3, <1>4, <1>5, LoadSteps

LEMMA LoadDnbKeeps == ASSUME OneProcess, DnbInv, NEW p \in Proc, LoadDnb(p) PROVE DnbInv'
<1>1. Proc = {p} /\ Inode = 0 .. 2 /\ NoFile = 3
  BY Inodes
<1>2. UNCHANGED <<clock, tns, at, file, fp, offset>> /\ pc[p] = "load"
  BY DEF LoadDnb
<1>3. at["dnb"] # NoFile => at["dnb"] \in Inode /\ Dnb.pieces \in Seq(Tensors)
                            /\ Dnb.readAt \in Nat /\ Dnb.readAt =< clock
  BY DEF DnbInv, TypeInv, Pasts, Path, Dnb
<1>4. CASE at["dnb"] # NoFile /\ Whole(Dnb)
  <2>1. Len(Dnb.pieces) = 3 /\ DOMAIN Dnb.pieces = 1 .. 3
    BY <1>3, <1>4 DEF Whole, Pieces
  <2>2. /\ Piece(Dnb, 2) = Dnb.pieces[2] /\ Piece(Dnb, 3) = Dnb.pieces[3]
        /\ Dnb.pieces[2] \in Tensors /\ Dnb.pieces[3] = Dnb.pieces[2]
    BY <1>3, <1>4, <2>1 DEF Piece, DnbInv, OneVersion, Dnb
  <2>3. /\ T' = [T EXCEPT ![p] = [vals |-> Piece(Dnb, 2), idx |-> Piece(Dnb, 3)]]
        /\ outcome' = [outcome EXCEPT ![p] = "cache"]
        /\ readAt' = [readAt EXCEPT ![p] = Dnb.readAt]
        /\ pc' = [pc EXCEPT ![p] = "idle"]
    BY <1>4 DEF LoadDnb
  <2>4. pc' \in [Proc -> {"idle", "stat", "load", "parse", "open"}] /\ pc'[p] = "idle"
    BY <1>1, <2>3 DEF DnbInv, TypeInv
  <2>5. T' \in [Proc -> [vals : Held, idx : Held]]
        /\ T'[p].vals \in Tensors /\ T'[p].idx = T'[p].vals
    BY <2>2, <2>3 DEF DnbInv, TypeInv, Held
  <2>6. outcome' \in [Proc -> {"none", "cache", "text", "failed"}]
        /\ readAt' \in [Proc -> Nat] /\ readAt'[p] =< clock
    BY <1>3, <1>4, <2>3 DEF DnbInv, TypeInv
  <2> QED
    BY <1>2, <2>4, <2>5, <2>6, LoadSteps
<1>5. CASE ~ (at["dnb"] # NoFile /\ Whole(Dnb))
  <2>1. /\ T' = [T EXCEPT ![p] = IF at["dnb"] = NoFile THEN @
                     ELSE [vals |-> Piece(Dnb, 2), idx |-> Piece(Dnb, 3)]]
        /\ pc' = [pc EXCEPT ![p] = "parse"] /\ UNCHANGED <<outcome, readAt>>
    BY <1>5 DEF LoadDnb
  <2>2. at["dnb"] # NoFile => Piece(Dnb, 2) \in Held /\ Piece(Dnb, 3) \in Held
    BY <1>3 DEF Piece, Held
  <2>3. T' \in [Proc -> [vals : Held, idx : Held]]
    BY <2>1, <2>2 DEF DnbInv, TypeInv
  <2>4. pc' \in [Proc -> {"idle", "stat", "load", "parse", "open"}] /\ pc'[p] # "open"
    BY <1>1, <2>1 DEF DnbInv, TypeInv
  <2>5. /\ outcome' \in [Proc -> {"none", "cache", "text", "failed"}]
        /\ readAt' \in [Proc -> Nat] /\ readAt'[p] =< clock
    BY <2>1 DEF DnbInv, TypeInv, Pasts
  <2>6. outcome'[p] = "none"
    BY <1>2, <2>1 DEF DnbInv, Saving
  <2> QED
    BY <1>2, <2>3, <2>4, <2>5, <2>6, LoadSteps
<1> QED
  BY <1>4, <1>5

LEMMA ParseKeeps == ASSUME OneProcess, DnbInv, NEW p \in Proc, ParseText(p) PROVE DnbInv'
<1>1. Proc = {p}
  BY Inodes
<1>2. UNCHANGED <<clock, tns, at, file, fp, offset>> /\ pc[p] = "parse" /\ tns.text \in Texts
  BY DEF ParseText, DnbInv, TypeInv
<1>3. CASE ~ tns.exists \/ ParseOf[tns.text].failed
  <2>1. /\ outcome' = [outcome EXCEPT ![p] = "failed"]
        /\ pc' = [pc EXCEPT ![p] = "idle"] /\ UNCHANGED <<T, readAt>>
    BY <1>3 DEF ParseText
  <2>2. pc' \in [Proc -> {"idle", "stat", "load", "parse", "open"}] /\ pc'[p] = "idle"
    BY <1>1, <2>1 DEF DnbInv, TypeInv
  <2>3. /\ outcome' \in [Proc -> {"none", "cache", "text", "failed"}] /\ outcome'[p] = "failed"
        /\ T' \in [Proc -> [vals : Held, idx : Held]]
        /\ readAt' \in [Proc -> Nat] /\ readAt'[p] =< clock
    BY <2>1 DEF DnbInv, TypeInv, Pasts
  <2> QED
    BY <1>2, <2>2, <2>3, LoadSteps
<1>4. CASE ~ (~ tns.exists \/ ParseOf[tns.text].failed)
  <2>1. /\ T' = [T EXCEPT ![p] = [vals |-> ParseOf[tns.text].tensor,
                                  idx |-> ParseOf[tns.text].tensor]]
        /\ outcome' = [outcome EXCEPT ![p] = "text"]
        /\ readAt' = [readAt EXCEPT ![p] = clock]
        /\ pc' = [pc EXCEPT ![p] = IF cached[p] THEN "open" ELSE "idle"]
    BY <1>4 DEF ParseText
  <2>2. /\ ParseOf[tns.text] = Read(ParseOf[tns.text].tensor)
        /\ ParseOf[tns.text].tensor \in Tensors
    BY <1>2, <1>4, ParseFacts
  <2>3. pc' \in [Proc -> {"idle", "stat", "load", "parse", "open"}] /\ pc'[p] \in {"idle", "open"}
    BY <1>1, <2>1 DEF DnbInv, TypeInv
  <2>4. /\ T' \in [Proc -> [vals : Held, idx : Held]]
        /\ T'[p].vals = ParseOf[tns.text].tensor /\ T'[p].idx = T'[p].vals
    BY <2>1, <2>2 DEF DnbInv, TypeInv, Held
  <2>5. /\ outcome' \in [Proc -> {"none", "cache", "text", "failed"}] /\ outcome'[p] = "text"
        /\ readAt' \in [Proc -> Nat] /\ readAt'[p] =< clock
    BY <2>1 DEF DnbInv, TypeInv
  <2>6. Current(readAt'[p], T'[p].vals)
    BY <2>2, <2>4 DEF Current
  <2> QED
    BY <1>2, <2>2, <2>3, <2>4, <2>5, <2>6, LoadSteps
<1> QED
  BY <1>3, <1>4

LEMMA OpenFailsKeeps == ASSUME OneProcess, DnbInv, NEW p \in Proc, OpenFails(p) PROVE DnbInv'
<1>1. Proc = {p}
  BY Inodes
<1>2. /\ UNCHANGED <<clock, tns, at, file, T, outcome, readAt, fp, offset>> /\ pc[p] = "open"
      /\ pc' = [pc EXCEPT ![p] = "idle"]
  BY DEF OpenFails
<1>3. pc' \in [Proc -> {"idle", "stat", "load", "parse", "open"}] /\ pc'[p] = "idle"
  BY <1>1, <1>2 DEF DnbInv, TypeInv
<1>4. /\ T' \in [Proc -> [vals : Held, idx : Held]] /\ readAt' \in [Proc -> Nat]
      /\ outcome' \in [Proc -> {"none", "cache", "text", "failed"}]
  BY <1>2 DEF DnbInv, TypeInv
<1>5. /\ readAt'[p] =< clock
      /\ outcome'[p] \in {"cache", "text"} => T'[p].vals \in Tensors /\ T'[p].idx = T'[p].vals
  BY <1>2 DEF DnbInv, Pasts, LoadedWhole
<1> QED
  BY <1>2, <1>3, <1>4, <1>5, LoadSteps

(* The temporary file is not the cache: it has the temporary name already, *)
(* or is an inode nobody uses.                                             *)
LEMMA OpenTmpKeeps == ASSUME OneProcess, DnbInv, NEW p \in Proc, OpenTmp(p) PROVE DnbInv'
<1>1. Proc = {p} /\ Inode = 0 .. 2 /\ NoFile = 3
  BY Inodes
<1>2. PICK i \in Inode :
        /\ IF at["tmp"] # NoFile THEN i = at["tmp"] ELSE i = Min(Inode \ Linked)
        /\ at' = [at EXCEPT !["tmp"] = i]
        /\ file' = [file EXCEPT ![i] = [Empty(clock) EXCEPT !.readAt = readAt[p]]]
        /\ fp' = [fp EXCEPT ![p] = i]
  BY DEF OpenTmp
<1>3. /\ UNCHANGED <<clock, tns, T, outcome, readAt>> /\ pc[p] = "open"
      /\ offset' = [offset EXCEPT ![p] = 0] /\ pc' = [pc EXCEPT ![p] = "write"]
  BY DEF OpenTmp
<1>4. at["dnb"] \in 0 .. 3 /\ at["tmp"] \in 0 .. 3
  BY <1>1 DEF DnbInv, TypeInv, Path
<1>5. i # at["dnb"]
  <2>1. CASE at["tmp"] # NoFile
    BY <1>2, <2>1 DEF DnbInv, TwoFiles
  <2>2. CASE at["tmp"] = NoFile
    <3>1. fp[p] = 3
      BY <1>1, <1>3 DEF DnbInv, Saving
    <3>2. Linked = {at["dnb"], at["tmp"], 3}
      BY <1>1, <3>1 DEF Linked, Path
    <3>3. i \in (0 .. 2) \ {at["dnb"], at["tmp"], 3}
      BY <1>1, <1>2, <1>4, <2>2, <3>2, FreeInode
    <3> QED
      BY <3>3
  <2> QED
    BY <2>1, <2>2
<1>6. /\ [Empty(clock) EXCEPT !.readAt = readAt[p]]
           \in [pieces : Seq(Tensors), mtime : Nat, readAt : Nat, short : BOOLEAN]
      /\ [Empty(clock) EXCEPT !.readAt = readAt[p]].pieces = <<>>
      /\ [Empty(clock) EXCEPT !.readAt = readAt[p]].readAt = readAt[p]
  <2>1. clock \in Nat /\ readAt[p] \in Nat
    BY DEF DnbInv, TypeInv
  <2>2. Empty(clock) \in [pieces : Seq(Tensors), mtime : Nat, readAt : Nat, short : BOOLEAN]
        /\ Empty(clock).pieces = <<>>
    BY <2>1, EmptyFile
  <2> QED
    BY <2>1, <2>2
<1>7. /\ file' \in [Inode -> [pieces : Seq(Tensors), mtime : Nat, readAt : Nat, short : BOOLEAN]]
      /\ file'[i].pieces = <<>> /\ file'[i].readAt = readAt[p]
      /\ \A j \in Inode : j # i => file'[j] = file[j]
  BY <1>2, <1>6 DEF DnbInv, TypeInv
<1>8. TypeInv'
  BY <1>1, <1>2, <1>3, <1>7 DEF DnbInv, TypeInv
<1>9. at'["tmp"] = i /\ at'["dnb"] = at["dnb"] /\ fp'[p] = i
      /\ pc'[p] = "write" /\ offset'[p] = 0
  BY <1>2, <1>3 DEF DnbInv, TypeInv, Path
<1>10. TwoFiles' /\ Pasts' /\ OneVersion'
  <2>1. TwoFiles'
    BY <1>5, <1>9 DEF TwoFiles
  <2>2. \A j \in Inode : file'[j].readAt =< clock
    BY <1>7 DEF DnbInv, Pasts
  <2>3. Pasts'
    BY <1>3, <2>2 DEF DnbInv, Pasts
  <2>4. DOMAIN file'[i].pieces = {}
    BY <1>7
  <2>5. ASSUME NEW h \in Inode PROVE \A j, k \in DOMAIN file'[h].pieces :
                                      file'[h].pieces[j] = file'[h].pieces[k]
    <3>1. CASE h = i
      BY <2>4, <3>1
    <3>2. CASE h # i
      <4>1. file'[h] = file[h]
        BY <1>7, <3>2
      <4> QED
        BY <4>1 DEF DnbInv, OneVersion
    <3> QED
      BY <3>1, <3>2
  <2>6. OneVersion'
    BY <2>5 DEF OneVersion
  <2> QED
    BY <2>1, <2>3, <2>6
<1>11. CacheClosed'
  BY <1>1, <1>4, <1>5, <1>7, <1>9 DEF DnbInv, CacheClosed, Closed
<1>12. Saving'
  <2>1. outcome'[p] = "text"
    BY <1>3 DEF DnbInv, Saving
  <2>2. Len(file'[i].pieces) = 0 /\ DOMAIN file'[i].pieces = {} /\ 0 =< Pieces
    BY <1>7 DEF Pieces
  <2> QED
    BY <1>1, <1>3, <1>7, <1>9, <2>1, <2>2 DEF Saving
<1>13. Contents'
  <2>1. DOMAIN file'[i].pieces = {}
    BY <1>7
  <2>2. \A j \in Inode : \A k \in DOMAIN file'[j].pieces :
          Current(file'[j].readAt, file'[j].pieces[k])
    BY <1>7, <2>1 DEF DnbInv, Contents
  <2>3. Current(readAt[p], T[p].vals)
    BY <1>3 DEF DnbInv, Contents
  <2> QED
    BY <1>1, <1>3, <2>2, <2>3 DEF Contents, Current
<1>14. LoadedWhole'
  BY <1>3 DEF DnbInv, LoadedWhole
<1> QED
  BY <1>8, <1>10, <1>11, <1>12, <1>13, <1>14 DEF DnbInv

(* The steps after which a name is gone or moved: the file that keeps a    *)
(* name keeps its contents.                                                *)
LEMMA FreeSteps ==
  ASSUME OneProcess, DnbInv, NEW p \in Proc, FreeUnlinked,
         UNCHANGED <<clock, tns, T, outcome, readAt, offset>>,
         pc' \in [Proc -> {"idle", "rename"}],
         at' \in [Path -> Inode \cup {NoFile}],
         fp' \in [Proc -> Inode \cup {NoFile}], fp'[p] = NoFile,
         TwoFiles',
         at'["dnb"] # NoFile => Closed(at'["dnb"]),
         pc'[p] = "rename" => outcome[p] = "text" /\ at'["tmp"] # NoFile /\ Closed(at'["tmp"])
  PROVE  DnbInv'
<1>1. Proc = {p} /\ Inode = 0 .. 2 /\ NoFile = 3
  BY Inodes
<1>2. TypeInv'
  BY Freed DEF DnbInv, TypeInv
<1>3. \A x \in Path : at'[x] # NoFile => file'[at'[x]] = file[at'[x]]
  <2>1. \A x \in Path : at'[x] # NoFile => at'[x] \in Inode
    OBVIOUS
  <2> QED
    BY <2>1, Freed
<1>4. Pasts'
  BY Freed DEF DnbInv, Pasts
<1>5. OneVersion'
  BY Freed
<1>6. CacheClosed'
  BY <1>3 DEF CacheClosed, Closed, Path
<1>7. Saving'
  BY <1>1, <1>3 DEF Saving, Closed, Path
<1>8. Contents'
  BY <1>1, Freed DEF Contents, Current
<1>9. LoadedWhole'
  BY DEF DnbInv, LoadedWhole
<1> QED
  BY <1>2, <1>4, <1>5, <1>6, <1>7, <1>8, <1>9 DEF DnbInv

LEMMA WriteFailsKeeps == ASSUME OneProcess, DnbInv, NEW p \in Proc, WriteFails(p) PROVE DnbInv'
<1>1. Proc = {p} /\ Inode = 0 .. 2 /\ NoFile = 3
  BY Inodes
<1>2. /\ UNCHANGED <<clock, tns, T, outcome, readAt, offset>> /\ FreeUnlinked
      /\ at' = [at EXCEPT !["tmp"] = NoFile] /\ fp' = [fp EXCEPT ![p] = NoFile]
      /\ pc' = [pc EXCEPT ![p] = "idle"]
  BY DEF WriteFails
<1>3. /\ pc' \in [Proc -> {"idle", "rename"}] /\ pc'[p] = "idle"
      /\ fp' \in [Proc -> Inode \cup {NoFile}] /\ fp'[p] = NoFile
  BY <1>1, <1>2 DEF DnbInv, TypeInv
<1>4. at' \in [Path -> Inode \cup {NoFile}] /\ at'["dnb"] = at["dnb"] /\ at'["tmp"] = NoFile
  BY <1>2 DEF DnbInv, TypeInv, Path
<1>5. TwoFiles'
  BY <1>1, <1>4 DEF TwoFiles
<1>6. at'["dnb"] # NoFile => Closed(at'["dnb"])
  BY <1>4 DEF DnbInv, CacheClosed
<1> QED
  BY <1>2, <1>3, <1>4, <1>5, <1>6, FreeSteps

LEMMA RemoveDnbKeeps == ASSUME OneProcess, DnbInv, NEW p \in Proc, RemoveDnb(p) PROVE DnbInv'
<1>1. Proc = {p} /\ Inode = 0 .. 2 /\ NoFile = 3
  BY Inodes
<1>2. /\ UNCHANGED <<clock, tns, T, outcome, readAt, fp, offset>> /\ FreeUnlinked
      /\ at' = [at EXCEPT !["dnb"] = NoFile]
      /\ pc' = [pc EXCEPT ![p] = "rename"] /\ pc[p] = "remove"
  BY DEF RemoveDnb
<1>3. /\ pc' \in [Proc -> {"idle", "rename"}]
      /\ fp' \in [Proc -> Inode \cup {NoFile}] /\ fp'[p] = NoFile
  BY <1>1, <1>2 DEF DnbInv, TypeInv, Saving
<1>4. at' \in [Path -> Inode \cup {NoFile}] /\ at'["dnb"] = NoFile /\ at'["tmp"] = at["tmp"]
  BY <1>2 DEF DnbInv, TypeInv, Path
<1>5. TwoFiles'
  BY <1>4 DEF TwoFiles
<1>6. outcome[p] = "text" /\ at'["tmp"] # NoFile /\ Closed(at'["tmp"])
  BY <1>2, <1>4 DEF DnbInv, Saving
<1> QED
  BY <1>2, <1>3, <1>4, <1>5, <1>6, FreeSteps

LEMMA RenameKeeps == ASSUME OneProcess, DnbInv, NEW p \in Proc, Rename(p) PROVE DnbInv'
<1>1. Proc = {p} /\ Inode = 0 .. 2 /\ NoFile = 3
  BY Inodes
<1>2. /\ UNCHANGED <<clock, tns, T, outcome, readAt, fp, offset>> /\ FreeUnlinked
      /\ at' = [at EXCEPT !["dnb"] = at["tmp"], !["tmp"] = NoFile]
      /\ pc' = [pc EXCEPT ![p] = "idle"] /\ pc[p] = "rename"
  BY DEF Rename
<1>3. /\ pc' \in [Proc -> {"idle", "rename"}] /\ pc'[p] = "idle"
      /\ fp' \in [Proc -> Inode \cup {NoFile}] /\ fp'[p] = NoFile
  BY <1>1, <1>2 DEF DnbInv, TypeInv, Saving
<1>4. at' \in [Path -> Inode \cup {NoFile}] /\ at'["dnb"] = at["tmp"] /\ at'["tmp"] = NoFile
  BY <1>2 DEF DnbInv, TypeInv, Path
<1>5. TwoFiles'
  BY <1>4 DEF TwoFiles
<1>6. Closed(at'["dnb"])
  BY <1>2, <1>4 DEF DnbInv, Saving
<1> QED
  BY <1>2, <1>3, <1>4, <1>5, <1>6, FreeSteps

LEMMA RenameFailsKeeps == ASSUME OneProcess, DnbInv, NEW p \in Proc, RenameFails(p) PROVE DnbInv'
<1>1. Proc = {p} /\ Inode = 0 .. 2 /\ NoFile = 3
  BY Inodes
<1>2. /\ UNCHANGED <<clock, tns, T, outcome, readAt, fp, offset>> /\ FreeUnlinked
      /\ at' = [at EXCEPT !["tmp"] = NoFile]
      /\ pc' = [pc EXCEPT ![p] = "idle"] /\ pc[p] = "rename"
  BY DEF RenameFails
<1>3. /\ pc' \in [Proc -> {"idle", "rename"}] /\ pc'[p] = "idle"
      /\ fp' \in [Proc -> Inode \cup {NoFile}] /\ fp'[p] = NoFile
  BY <1>1, <1>2 DEF DnbInv, TypeInv, Saving
<1>4. at' \in [Path -> Inode \cup {NoFile}] /\ at'["dnb"] = at["dnb"] /\ at'["tmp"] = NoFile
  BY <1>2 DEF DnbInv, TypeInv, Path
<1>5. TwoFiles'
  BY <1>4 DEF TwoFiles
<1>6. at'["dnb"] # NoFile => Closed(at'["dnb"])
  BY <1>4 DEF DnbInv, CacheClosed
<1> QED
  BY <1>2, <1>3, <1>4, <1>5, <1>6, FreeSteps

(* A piece of T behind the pieces of T already written. *)
LEMMA WriteKeeps == ASSUME OneProcess, DnbInv, NEW p \in Proc, Write(p) PROVE DnbInv'
<1>1. Proc = {p} /\ Inode = 0 .. 2 /\ NoFile = 3
  BY Inodes
<1>2. PICK i \in Inode : i = fp[p] /\ i = at["tmp"] /\ i # at["dnb"]
  BY <1>1 DEF Write, DnbInv, Saving, TwoFiles
<1> DEFINE x == IF offset[p] = 2 THEN T[p].idx ELSE T[p].vals
<1>3. /\ UNCHANGED <<clock, tns, at, pc, T, outcome, readAt, fp>>
      /\ pc[p] = "write" /\ offset[p] < Pieces
      /\ file' = [file EXCEPT ![i] = Put(@, offset[p] + 1, x)]
      /\ offset' = [offset EXCEPT ![p] = @ + 1]
  BY <1>2 DEF Write
<1>4. x = T[p].vals /\ T[p].vals \in Tensors
  BY <1>3 DEF DnbInv, Saving, LoadedWhole
<1>5. /\ offset[p] = Len(file[i].pieces)
      /\ \A j \in DOMAIN file[i].pieces : file[i].pieces[j] = T[p].vals
      /\ file[i].readAt = readAt[p]
  BY <1>2, <1>3 DEF DnbInv, Saving
<1>6. /\ file[i] \in [pieces : Seq(Tensors), mtime : Nat, readAt : Nat, short : BOOLEAN]
      /\ clock \in Nat /\ offset[p] \in Nat
  BY DEF DnbInv, TypeInv
<1> HIDE DEF x
<1>7. /\ file'[i] = Put(file[i], offset[p] + 1, x)
      /\ \A h \in Inode : h # i => file'[h] = file[h]
  BY <1>3 DEF DnbInv, TypeInv
<1>8. /\ file'[i] \in [pieces : Seq(Tensors), mtime : Nat, readAt : Nat, short : BOOLEAN]
      /\ Len(file'[i].pieces) = offset[p] + 1
      /\ DOMAIN file'[i].pieces = 1 .. offset[p] + 1
      /\ \A j \in 1 .. offset[p] + 1 : file'[i].pieces[j] =
            IF j = offset[p] + 1 THEN x ELSE file[i].pieces[j]
      /\ file'[i].readAt = file[i].readAt
  <2> DEFINE f == file[i]
             k == offset[p] + 1
  <2>1. x \in Tensors /\ k \in Nat /\ k = Len(f.pieces) + 1
    BY <1>4, <1>5, <1>6
  <2>2. f \in [pieces : Seq(Tensors), mtime : Nat, readAt : Nat, short : BOOLEAN]
    BY <1>6
  <2>3. file'[i] = Put(f, k, x)
    BY <1>7
  <2> HIDE DEF f, k
  <2>4. /\ Put(f, k, x) \in [pieces : Seq(Tensors), mtime : Nat, readAt : Nat, short : BOOLEAN]
        /\ Len(Put(f, k, x).pieces) = k
        /\ DOMAIN Put(f, k, x).pieces = 1 .. k
        /\ \A j \in 1 .. k : Put(f, k, x).pieces[j] = IF j = k THEN x ELSE f.pieces[j]
        /\ Put(f, k, x).readAt = f.readAt
    BY <1>6, <2>1, <2>2, PutAppends
  <2> QED
    BY <2>3, <2>4, Zenon DEF f, k
<1>9. \A j \in DOMAIN file'[i].pieces : file'[i].pieces[j] = T[p].vals
  <2>1. DOMAIN file[i].pieces = 1 .. offset[p]
    BY <1>5, <1>6
  <2>2. \A j \in 1 .. offset[p] + 1 : j # offset[p] + 1 => j \in 1 .. offset[p]
    BY <1>6
  <2> QED
    BY <1>4, <1>5, <1>8, <2>1, <2>2
<1>10. TypeInv'
  <2>1. file' \in [Inode -> [pieces : Seq(Tensors), mtime : Nat, readAt : Nat, short : BOOLEAN]]
    <3>1. file' = [file EXCEPT ![i] = file'[i]]
      BY <1>3 DEF DnbInv, TypeInv
    <3> QED
      BY <1>8, <3>1 DEF DnbInv, TypeInv
  <2>2. offset' \in [Proc -> Nat]
    BY <1>3 DEF DnbInv, TypeInv
  <2> QED
    BY <1>3, <2>1, <2>2 DEF DnbInv, TypeInv
<1>11. TwoFiles' /\ LoadedWhole'
  BY <1>3 DEF DnbInv, TwoFiles, LoadedWhole
<1>12. Pasts'
  <2>1. \A h \in Inode : file'[h].readAt =< clock
    BY <1>7, <1>8 DEF DnbInv, Pasts
  <2> QED
    BY <1>3, <2>1 DEF DnbInv, Pasts
<1>13. OneVersion'
  <2>1. ASSUME NEW h \in Inode PROVE \A j, k \in DOMAIN file'[h].pieces :
                                      file'[h].pieces[j] = file'[h].pieces[k]
    <3>1. CASE h = i
      BY <1>9, <3>1
    <3>2. CASE h # i
      <4>1. file'[h] = file[h]
        BY <1>7, <3>2
      <4> QED
        BY <4>1 DEF DnbInv, OneVersion
    <3> QED
      BY <3>1, <3>2
  <2> QED
    BY <2>1 DEF OneVersion
<1>14. CacheClosed'
  <2>1. at["dnb"] # NoFile => file'[at["dnb"]] = file[at["dnb"]]
    BY <1>1, <1>2, <1>7 DEF DnbInv, TypeInv, Path
  <2> QED
    BY <1>3, <2>1 DEF DnbInv, CacheClosed, Closed
<1>15. Saving'
  <2>1. offset'[p] = offset[p] + 1 /\ offset[p] + 1 =< Pieces
    BY <1>3, <1>6 DEF DnbInv, TypeInv, Pieces
  <2>2. outcome[p] = "text"
    BY <1>3 DEF DnbInv, Saving
  <2>3. pc'[p] = "write" /\ outcome'[p] = "text" /\ fp'[p] = at'["tmp"] /\ fp'[p] \in Inode
    BY <1>2, <1>3, <2>2
  <2>4. /\ offset'[p] = Len(file'[fp'[p]].pieces) /\ offset'[p] =< Pieces
        /\ \A j \in DOMAIN file'[fp'[p]].pieces : file'[fp'[p]].pieces[j] = T'[p].vals
        /\ file'[fp'[p]].readAt = readAt'[p]
    BY <1>2, <1>3, <1>5, <1>8, <1>9, <2>1
  <2> QED
    BY <1>1, <2>3, <2>4 DEF Saving
<1>16. Contents'
  <2>1. Current(readAt[p], T[p].vals)
    BY <1>3 DEF DnbInv, Contents
  <2>2. ASSUME NEW h \in Inode, NEW j \in DOMAIN file'[h].pieces
        PROVE  Current(file'[h].readAt, file'[h].pieces[j])
    <3>1. CASE h = i
      BY <1>5, <1>8, <1>9, <2>1, <3>1
    <3>2. CASE h # i
      <4>1. file'[h] = file[h]
        BY <1>7, <3>2
      <4> QED
        BY <4>1 DEF DnbInv, Contents
    <3> QED
      BY <3>1, <3>2
  <2> QED
    BY <1>1, <1>3, <2>1, <2>2 DEF Contents, Current
<1> QED
  BY <1>10, <1>11, <1>12, <1>13, <1>14, <1>15, <1>16 DEF DnbInv

(* What a failed flush leaves of a file. *)
LEMMA ShortFile ==
  ASSUME NEW S, NEW f \in [pieces : Seq(S), mtime : Nat, readAt : Nat, short : BOOLEAN],
         NEW cut \in BOOLEAN, NEW q \in Seq(S)
  PROVE  LET g == [[f EXCEPT !.pieces = q] EXCEPT !.short = cut]
         IN /\ g \in [pieces : Seq(S), mtime : Nat, readAt : Nat, short : BOOLEAN]
            /\ g.pieces = q /\ g.readAt = f.readAt /\ g.short = cut
OBVIOUS

LEMMA CloseKeeps ==
  ASSUME OneProcess, DnbInv, NEW p \in Proc, NEW short \in BOOLEAN, Close(p, short) PROVE DnbInv'
<1>1. Proc = {p} /\ Inode = 0 .. 2 /\ NoFile = 3
  BY Inodes
<1>2. PICK i \in Inode : i = fp[p] /\ i = at["tmp"] /\ i # at["dnb"]
  BY <1>1 DEF Close, DnbInv, Saving, TwoFiles
<1>3. /\ UNCHANGED <<clock, tns, at, T, outcome, readAt, offset>>
      /\ pc[p] = "write" /\ offset[p] = Pieces
      /\ fp' = [fp EXCEPT ![p] = NoFile] /\ pc' = [pc EXCEPT ![p] = "remove"]
  BY DEF Close
<1>4. /\ file[i] \in [pieces : Seq(Tensors), mtime : Nat, readAt : Nat, short : BOOLEAN]
      /\ Len(file[i].pieces) = Pieces
      /\ \A j \in DOMAIN file[i].pieces : file[i].pieces[j] = T[p].vals
  BY <1>2, <1>3 DEF DnbInv, TypeInv, Saving
<1>5. /\ file' \in [Inode -> [pieces : Seq(Tensors), mtime : Nat, readAt : Nat, short : BOOLEAN]]
      /\ \A h \in Inode : h # i => file'[h] = file[h]
      /\ file'[i].readAt = file[i].readAt
      /\ Closed(i)'
      /\ \A j \in DOMAIN file'[i].pieces :
            j \in DOMAIN file[i].pieces /\ file'[i].pieces[j] = file[i].pieces[j]
  <2>1. CASE short
    <3> DEFINE q == Front(file[i].pieces)
    <3>1. /\ q \in Seq(Tensors)
          /\ \A j \in DOMAIN q : j \in DOMAIN file[i].pieces /\ q[j] = file[i].pieces[j]
      <4>1. Len(file[i].pieces) = 3 /\ file[i].pieces \in Seq(Tensors)
        BY <1>4 DEF Pieces
      <4>2. q = SubSeq(file[i].pieces, 1, 2)
        BY <4>1 DEF Front
      <4> QED
        BY <4>1, <4>2
    <3> HIDE DEF q
    <3>2. file' = [[file EXCEPT ![i].pieces = q] EXCEPT ![i].short = TRUE]
      BY <1>2, <2>1, Zenon DEF Close, q
    <3> DEFINE g == [[file[i] EXCEPT !.pieces = q] EXCEPT !.short = TRUE]
    <3>3. /\ g \in [pieces : Seq(Tensors), mtime : Nat, readAt : Nat, short : BOOLEAN]
          /\ g.pieces = q /\ g.readAt = file[i].readAt /\ g.short = TRUE
      BY <1>4, <3>1, ShortFile, Zenon
    <3>4. file'[i] = g
      BY <3>2 DEF DnbInv, TypeInv
    <3>5. \A h \in Inode : h # i => file'[h] = file[h]
      BY <3>2 DEF DnbInv, TypeInv
    <3> HIDE DEF g
    <3>6. file' = [file EXCEPT ![i] = g]
      BY <3>2, <3>4, <3>5 DEF DnbInv, TypeInv
    <3>7. file' \in [Inode -> [pieces : Seq(Tensors), mtime : Nat, readAt : Nat, short : BOOLEAN]]
      BY <3>3, <3>6 DEF DnbInv, TypeInv
    <3>8. file'[i].short
      BY <3>3, <3>4
    <3> QED
      BY <3>1, <3>3, <3>4, <3>5, <3>7, <3>8 DEF Closed
  <2>2. CASE ~ short
    <3>1. file' = file
      BY <2>2 DEF Close
    <3> QED
      BY <1>4, <3>1 DEF Closed, DnbInv, TypeInv
  <2> QED
    BY <2>1, <2>2
<1>6. TypeInv'
  <2>1. /\ fp' \in [Proc -> Inode \cup {NoFile}]
        /\ pc' \in [Proc -> {"idle", "stat", "load", "parse", "open", "write", "remove", "rename"}]
    BY <1>3 DEF DnbInv, TypeInv
  <2> QED
    BY <1>3, <1>5, <2>1 DEF DnbInv, TypeInv
<1>7. TwoFiles' /\ LoadedWhole'
  BY <1>3 DEF DnbInv, TwoFiles, LoadedWhole
<1>8. Pasts'
  <2>1. \A h \in Inode : file'[h].readAt =< clock
    BY <1>5 DEF DnbInv, Pasts
  <2> QED
    BY <1>3, <2>1 DEF DnbInv, Pasts
<1>9. OneVersion'
  <2>1. ASSUME NEW h \in Inode PROVE \A j, k \in DOMAIN file'[h].pieces :
                                      file'[h].pieces[j] = file'[h].pieces[k]
    <3>1. CASE h = i
      BY <1>4, <1>5, <3>1
    <3>2. CASE h # i
      <4>1. file'[h] = file[h]
        BY <1>5, <3>2
      <4> QED
        BY <4>1 DEF DnbInv, OneVersion
    <3> QED
      BY <3>1, <3>2
  <2> QED
    BY <2>1 DEF OneVersion
<1>10. CacheClosed'
  <2>1. at["dnb"] # NoFile => file'[at["dnb"]] = file[at["dnb"]]
    BY <1>1, <1>2, <1>5 DEF DnbInv, TypeInv, Path
  <2> QED
    BY <1>3, <2>1 DEF DnbInv, CacheClosed, Closed
<1>11. pc'[p] = "remove" /\ fp'[p] = NoFile
  BY <1>3 DEF DnbInv, TypeInv
<1>12. Saving'
  <2>1. outcome[p] = "text"
    BY <1>3 DEF DnbInv, Saving
  <2>2. at'["tmp"] # NoFile /\ Closed(at["tmp"])'
    BY <1>1, <1>2, <1>3, <1>5 DEF Closed
  <2> QED
    BY <1>1, <1>3, <1>11, <2>1, <2>2 DEF Saving, Closed
<1>13. Contents'
  <2>1. ASSUME NEW h \in Inode, NEW j \in DOMAIN file'[h].pieces
        PROVE  Current(file'[h].readAt, file'[h].pieces[j])
    <3>1. CASE h = i
      BY <1>5, <3>1 DEF DnbInv, Contents
    <3>2. CASE h # i
      <4>1. file'[h] = file[h]
        BY <1>5, <3>2
      <4> QED
        BY <4>1 DEF DnbInv, Contents
    <3> QED
      BY <3>1, <3>2
  <2> QED
    BY <1>1, <1>3, <1>11, <2>1 DEF Contents, Current
<1> QED
  BY <1>6, <1>7, <1>8, <1>9, <1>10, <1>12, <1>13 DEF DnbInv

-----------------------------------------------------------------------------
LEMMA NextKeeps == ASSUME OneProcess, DnbInv, [DnbNext]_dnbVars PROVE DnbInv'
<1>1. CASE UNCHANGED dnbVars
  BY <1>1 DEF dnbVars, procVars, DnbInv, TypeInv, TwoFiles, Pasts, OneVersion, CacheClosed, Closed,
              Saving, Contents, Current, LoadedWhole
<1>2. CASE Environment
  BY <1>2, EnvironmentKeeps
<1>3. ASSUME NEW p \in Proc, NEW c \in BOOLEAN, Start(p, c) PROVE DnbInv'
  BY <1>3, StartKeeps
<1>4. ASSUME NEW p \in Proc, Load(p) PROVE DnbInv'
  BY <1>4, StatKeeps, LoadDnbKeeps, ParseKeeps DEF Load
<1>5. ASSUME NEW p \in Proc, Save(p) PROVE DnbInv'
  <2>1. CASE OpenFails(p) \/ OpenTmp(p) \/ Write(p) \/ WriteFails(p)
    BY <2>1, OpenFailsKeeps, OpenTmpKeeps, WriteKeeps, WriteFailsKeeps
  <2>2. CASE Close(p, FALSE) \/ Close(p, TRUE)
    <3>1. FALSE \in BOOLEAN /\ TRUE \in BOOLEAN
      OBVIOUS
    <3> QED
      BY <2>2, <3>1, CloseKeeps, Zenon
  <2>3. CASE RemoveDnb(p) \/ Rename(p) \/ RenameFails(p)
    BY <2>3, RemoveDnbKeeps, RenameKeeps, RenameFailsKeeps
  <2> QED
    BY <1>5, <2>1, <2>2, <2>3, Zenon DEF Save
<1>6. ASSUME NEW p \in Proc, Crash(p) PROVE DnbInv'
  BY <1>6, CrashKeeps
<1> QED
  BY <1>1, <1>2, <1>3, <1>4, <1>5, <1>6, Zenon DEF DnbNext

LEMMA DnbInvHolds == ASSUME OneProcess PROVE DnbSpec => []DnbInv
<1>1. DnbInit => DnbInv
  BY InitInv
<1>2. DnbInv /\ [DnbNext]_dnbVars => DnbInv'
  BY NextKeeps
<1> QED
  BY <1>1, <1>2, PTL DEF DnbSpec

(* What a load returns is one whole tensor of some text, whatever edits,   *)
(* failed writes and deaths came before it (load_coo_tensor).              *)
THEOREM LoadsAreWhole == ASSUME OneProcess PROVE DnbSpec => []LoadedWhole
<1>1. DnbInv => LoadedWhole
  BY DEF DnbInv
<1> QED
  BY <1>1, DnbInvHolds, PTL

(* A process that dies while it saves leaves under the cache's name a      *)
(* complete file or none, unless the unchecked fclose fell short           *)
(* (save_dnb_tensor).                                                      *)
THEOREM CacheNeverTorn == ASSUME OneProcess PROVE DnbSpec => []CrashLeavesNoTornCache
<1>1. ASSUME DnbInv PROVE CrashLeavesNoTornCache
  <2>1. ASSUME at["dnb"] # NoFile, ~ Dnb.short PROVE Whole(Dnb)
    <3>1. Len(Dnb.pieces) = Pieces
      BY <1>1, <2>1 DEF DnbInv, CacheClosed, Closed, Dnb
    <3>2. Dnb.pieces \in Seq(Tensors)
      BY <1>1, <2>1 DEF DnbInv, TypeInv, Path, Dnb
    <3>3. Dnb.pieces[1] \in Tensors
      BY <3>1, <3>2 DEF Pieces
    <3> QED
      BY <3>1, <3>3, HoleAssumption DEF Whole
  <2> QED
    BY <2>1 DEF CrashLeavesNoTornCache
<1> QED
  BY <1>1, DnbInvHolds, PTL

(* The freshness test lets through no stale cache but one whose text was   *)
(* edited between the read and the end of the write (dnb_cache_is_fresh).  *)
THEOREM OnlyEditsDuringSaveMissed == ASSUME OneProcess PROVE DnbSpec => MissesOnlyEditsDuringSave
<1> DEFINE Missed(p) ==
      /\ pc[p] = "stat" /\ pc'[p] = "load"
      /\ tns.exists /\ Whole(Dnb)
      /\ ParseOf[tns.text] # Read(Dnb.pieces[2])
<1>1. ASSUME DnbInv, [DnbNext]_dnbVars, NEW p \in Proc, Missed(p)
      PROVE  Dnb.readAt =< tns.mtime /\ tns.mtime =< Dnb.mtime
  <2>1. Stat(p)
    <3>1. Proc = {p} /\ Inode = 0 .. 2 /\ NoFile = 3
      BY Inodes
    <3>2. pc # pc'
      BY <1>1
    <3>3. ~ Environment
      BY <3>2 DEF Environment, Tick, Delete, Edit, procVars
    <3>4. ~ Crash(p)
      BY <1>1 DEF Crash, DnbInv, TypeInv
    <3>5. ~ Save(p) /\ \A c \in BOOLEAN : ~ Start(p, c)
      BY <1>1 DEF Save, Start, OpenFails, OpenTmp, Write, WriteFails, Close, RemoveDnb, Rename,
                  RenameFails
    <3>6. ~ LoadDnb(p) /\ ~ ParseText(p)
      BY <1>1 DEF LoadDnb, ParseText
    <3>7. DnbNext
      BY <1>1, <3>2 DEF dnbVars, procVars
    <3> QED
      BY <3>1, <3>3, <3>4, <3>5, <3>6, <3>7, Zenon DEF DnbNext, Load
  <2>2. Fresh
    BY <1>1, <2>1 DEF Stat, DnbInv, TypeInv
  <2>3. tns.mtime =< Dnb.mtime /\ at["dnb"] \in Inode
    BY <1>1, <2>2 DEF Fresh, DnbInv, TypeInv, Path, Dnb
  <2>4. 2 \in DOMAIN Dnb.pieces
    BY <1>1, <2>3 DEF Whole, Pieces, DnbInv, TypeInv, Dnb
  <2>5. Current(Dnb.readAt, Dnb.pieces[2])
    BY <1>1, <2>3, <2>4 DEF DnbInv, Contents, Dnb
  <2>6. ~ (tns.mtime < Dnb.readAt)
    BY <1>1, <2>5 DEF Current
  <2> QED
    BY <1>1, <2>3, <2>6 DEF DnbInv, TypeInv, Dnb
<1>2. DnbInv /\ [DnbNext]_dnbVars =>
        [\A p \in Proc : Missed(p) => Dnb.readAt =< tns.mtime /\ tns.mtime =< Dnb.mtime]_dnbVars
  BY <1>1
<1> QED
  BY <1>2, DnbInvHolds, PTL DEF DnbSpec, MissesOnlyEditsDuringSave

-----------------------------------------------------------------------------
(* The one-pass drivers. *)

(* The ofib_off table.                                                     *)

LEMMA RoundUpBounds ==
  ASSUME NEW x \in Nat
  PROVE  RoundUp(x) \in Nat /\ x =< RoundUp(x)
<1> DEFINE a == x + LineVec - 1
           q == a \div LineVec
<1>1. LineVec \in Nat \ {0}
  BY SizeAssumption
<1>2. a \in Nat
  BY <1>1
<1>3. q \in Nat /\ a = LineVec * q + (a % LineVec) /\ a % LineVec \in 0 .. LineVec - 1
  <2> HIDE DEF a
  <2> QED BY <1>1, <1>2
<1>4. q * LineVec = LineVec * q /\ q * LineVec \in Nat
  BY <1>1, <1>3
<1>5. RoundUp(x) = q * LineVec
  BY DEF RoundUp
<1> HIDE DEF q
<1>6. x + LineVec - 1 = LineVec * q + (a % LineVec)
  BY <1>3
<1> HIDE DEF a
<1> QED BY <1>1, <1>3, <1>4, <1>5, <1>6

LEMMA Extent ==
  ASSUME NEW n \in Mode
  PROVE  /\ ModeSize[n] * VC \in Nat
         /\ RoundUp(ModeSize[n] * VC) \in Nat
         /\ ModeSize[n] * VC =< RoundUp(ModeSize[n] * VC)
BY RoundUpBounds, SizeAssumption, TensorAssumption

\* The loop that fills ofib_off defines it on all of 0 .. N.
LEMMA OfibOffDef ==
  /\ OfibOff \in [0 .. N -> Nat]
  /\ OfibOff[0] = 0
  /\ \A n \in Mode : OfibOff[n + 1] = OfibOff[n] + RoundUp(ModeSize[n] * VC)
<1> DEFINE Sz(n) == RoundUp(ModeSize[n] * VC)
           IsTable(f, k) == /\ f \in [0 .. k -> Nat]
                            /\ f[0] = 0
                            /\ \A n \in 0 .. k - 1 : f[n + 1] = f[n] + Sz(n)
           S == {k \in Nat : k =< N => \E f \in [0 .. k -> Nat] : IsTable(f, k)}
<1>0. N \in Nat \ {0} /\ \A n \in Mode : Sz(n) \in Nat
  BY SizeAssumption, Extent
<1> HIDE DEF Sz
<1>1. 0 \in S
  <2>1. IsTable([i \in 0 .. 0 |-> 0], 0)
    OBVIOUS
  <2> QED BY <2>1
<1>2. ASSUME NEW k \in Nat, k \in S PROVE k + 1 \in S
  <2> SUFFICES ASSUME k + 1 =< N
               PROVE \E f \in [0 .. k + 1 -> Nat] : IsTable(f, k + 1)
    OBVIOUS
  <2>1. PICK f \in [0 .. k -> Nat] : IsTable(f, k)
    BY <1>0, <1>2
  <2> DEFINE g == [i \in 0 .. k + 1 |-> IF i = k + 1 THEN f[k] + Sz(k) ELSE f[i]]
  <2>2. k \in Mode
    BY <1>0 DEF Mode
  <2>3. f[k] + Sz(k) \in Nat
    BY <1>0, <2>1, <2>2
  <2>4. g \in [0 .. k + 1 -> Nat] /\ g[0] = 0
    BY <2>1, <2>3
  <2>5. ASSUME NEW n \in 0 .. (k + 1) - 1 PROVE g[n + 1] = g[n] + Sz(n)
    <3>1. CASE n = k
      BY <3>1
    <3>2. CASE n # k
      BY <2>1, <3>2
    <3> QED BY <3>1, <3>2
  <2> HIDE DEF g
  <2>6. IsTable(g, k + 1)
    BY <2>4, <2>5
  <2> HIDE DEF IsTable
  <2> QED BY <2>4, <2>6
<1>3. N \in S
  BY <1>0, <1>1, <1>2, SetInduction
<1>4. PICK f \in [0 .. N -> Nat] : IsTable(f, N)
  BY <1>0, <1>3
<1> DEFINE body(g) == [n \in 0 .. N |-> IF n = 0 THEN 0 ELSE g[n - 1] + Sz(n - 1)]
<1>5. f = body(f)
  <2>1. ASSUME NEW n \in 0 .. N, n # 0 PROVE f[n] = f[n - 1] + Sz(n - 1)
    <3>1. n - 1 \in 0 .. N - 1 /\ (n - 1) + 1 = n
      BY <1>0, <2>1
    <3> QED BY <1>4, <3>1
  <2>2. f[0] = 0 /\ 0 \in 0 .. N
    BY <1>0, <1>4
  <2> HIDE DEF IsTable
  <2> QED BY <2>1, <2>2, <1>4
<1>6. OfibOff = CHOOSE g : g = body(g)
  BY DEF OfibOff, Sz
<1>7. OfibOff = body(OfibOff)
  BY <1>5, <1>6
<1> HIDE DEF body
<1>8. \A n \in 0 .. N : OfibOff[n] = IF n = 0 THEN 0 ELSE OfibOff[n - 1] + Sz(n - 1)
  BY <1>7 DEF body
<1>9. OfibOff[0] = 0
  BY <1>0, <1>8
<1>10. ASSUME NEW n \in Mode PROVE OfibOff[n + 1] = OfibOff[n] + Sz(n)
  <2>1. n + 1 \in 0 .. N /\ n + 1 # 0 /\ (n + 1) - 1 = n
    BY <1>0 DEF Mode
  <2> QED BY <1>8, <2>1
<1> DEFINE Q == {k \in Nat : k =< N => OfibOff[k] \in Nat}
<1>11. 0 \in Q /\ \A k \in Nat : k \in Q => k + 1 \in Q
  <2>1. ASSUME NEW k \in Nat, k \in Q, k + 1 =< N PROVE OfibOff[k + 1] \in Nat
    <3>1. k \in Mode
      BY <1>0, <2>1 DEF Mode
    <3> QED BY <1>0, <1>10, <2>1, <3>1
  <2> QED BY <1>9, <2>1
<1>12. \A k \in 0 .. N : OfibOff[k] \in Nat
  <2> HIDE DEF Q
  <2>1. Nat \subseteq Q
    BY <1>11, SetInduction
  <2> QED BY <1>0, <2>1 DEF Q
<1>13. OfibOff = [n \in 0 .. N |-> OfibOff[n]]
  BY <1>7 DEF body
<1> QED BY <1>9, <1>10, <1>12, <1>13 DEF Sz

\* A later output starts behind the end of an earlier one.
LEMMA OfibOffApart ==
  ASSUME NEW n \in Mode, NEW m \in 0 .. N, n < m
  PROVE  OfibOff[n] + ModeSize[n] * VC =< OfibOff[m]
<1> DEFINE S == {k \in Nat : n + 1 + k =< N => OfibOff[n] + ModeSize[n] * VC =< OfibOff[n + 1 + k]}
<1>0. N \in Nat /\ n \in Nat /\ n + 1 =< N
  BY SizeAssumption DEF Mode
<1>1. 0 \in S
  <2>1. OfibOff[n + 1] = OfibOff[n] + RoundUp(ModeSize[n] * VC)
    BY OfibOffDef
  <2>2. OfibOff[n] \in Nat
    BY OfibOffDef, <1>0
  <2>3. OfibOff[n] + ModeSize[n] * VC =< OfibOff[n + 1]
    BY <2>1, <2>2, Extent
  <2>4. n + 1 + 0 = n + 1
    BY <1>0
  <2> QED BY <2>3, <2>4
<1>2. ASSUME NEW k \in Nat, k \in S PROVE k + 1 \in S
  <2> SUFFICES ASSUME n + 1 + (k + 1) =< N
               PROVE OfibOff[n] + ModeSize[n] * VC =< OfibOff[n + 1 + (k + 1)]
    OBVIOUS
  <2> DEFINE i == n + 1 + k
  <2>1. i \in Mode /\ n + 1 + (k + 1) = i + 1 /\ i \in 0 .. N
    BY <1>0 DEF Mode
  <2>2. OfibOff[n] + ModeSize[n] * VC =< OfibOff[i]
    BY <1>0, <1>2
  <2>3. OfibOff[i + 1] = OfibOff[i] + RoundUp(ModeSize[i] * VC)
    BY <2>1, OfibOffDef
  <2>4. OfibOff[n] \in Nat /\ OfibOff[i] \in Nat /\ OfibOff[i + 1] \in Nat
    BY <1>0, <2>1, OfibOffDef
  <2> HIDE DEF i
  <2> QED BY <2>1, <2>2, <2>3, <2>4, Extent
<1>3. Nat \subseteq S
  <2> HIDE DEF S
  <2> QED BY <1>1, <1>2, SetInduction
<1>4. m - (n + 1) \in Nat /\ n + 1 + (m - (n + 1)) = m /\ m =< N
  BY <1>0
<1> QED BY <1>3, <1>4

LEMMA StrideType == Stride \in Nat
BY OfibOffDef, SizeAssumption DEF Stride

\* Every vector of every copy lies in the block of its thread.
LEMMA AtInBlock ==
  ASSUME NEW t \in Thread, NEW n \in Mode, NEW k \in Cells(n)
  PROVE  At(t, n, k) \in Block(t) /\ At(t, n, k) \in Address
<1>1. N \in Nat \ {0} /\ P \in Nat \ {0} /\ n < N /\ N \in 0 .. N /\ n \in 0 .. N /\ t \in Nat /\ t < P
  BY SizeAssumption DEF Mode, Thread
<1>2. OfibOff[n] + ModeSize[n] * VC =< Stride
  BY <1>1, OfibOffApart DEF Stride
<1>3. OfibOff[n] \in Nat /\ Stride \in Nat /\ ModeSize[n] * VC \in Nat
  BY <1>1, OfibOffDef, StrideType, Extent
<1>4. k \in Nat /\ k < ModeSize[n] * VC
  BY <1>3 DEF Cells
<1> DEFINE o == OfibOff[n]
           s == Stride
           x == t * s
           y == P * s
<1>5. x \in Nat /\ y \in Nat /\ x + s =< y
  <2> HIDE DEF s
  <2> QED BY <1>1, <1>3 DEF s
<1>6. At(t, n, k) = x + o + k /\ Block(t) = x .. x + s - 1 /\ Address = 0 .. y - 1
  BY DEF At, Block, Address
<1> HIDE DEF o, s, x, y
<1> QED BY <1>2, <1>3, <1>4, <1>5, <1>6 DEF o, s

LEMMA BlockInAddress ==
  ASSUME NEW t \in Thread
  PROVE  Block(t) \subseteq Address
<1> DEFINE s == Stride
<1>1. s \in Nat /\ P \in Nat /\ t \in Nat /\ t < P
  BY StrideType, SizeAssumption DEF Thread
<1> HIDE DEF s
<1>2. t * s + s =< P * s /\ t * s \in Nat /\ P * s \in Nat
  BY <1>1
<1> QED BY <1>1, <1>2 DEF Block, Address, s

LEMMA BlocksApart ==
  ASSUME NEW t \in Thread, NEW u \in Thread, NEW a \in Block(t), a \in Block(u)
  PROVE  t = u
<1>1. t \in Nat /\ u \in Nat /\ Stride \in Nat
  BY StrideType, SizeAssumption DEF Thread
<1>2. \A i, j \in Nat : i < j => i * Stride + Stride =< j * Stride
  BY <1>1
<1>3. t * Stride \in Nat /\ u * Stride \in Nat
  BY <1>1
<1> QED BY <1>1, <1>2, <1>3 DEF Block

(* The copies of the outputs do not overlap: no two threads, and no two    *)
(* outputs of one thread, ever write to one vector, so the kernel needs no *)
(* atomics and the reduction adds what it means to.                        *)
THEOREM CopiesDisjoint == OfibsDisjoint
<1> SUFFICES ASSUME NEW t \in Thread, NEW u \in Thread, NEW n \in Mode, NEW m \in Mode,
                    NEW k \in Cells(n), NEW l \in Cells(m), At(t, n, k) = At(u, m, l)
             PROVE  t = u /\ n = m /\ k = l
  BY DEF OfibsDisjoint
<1>1. t = u
  BY AtInBlock, BlocksApart
<1>2. n \in Nat /\ m \in Nat /\ n \in 0 .. N /\ m \in 0 .. N
  BY SizeAssumption DEF Mode
<1>3. OfibOff[n] \in Nat /\ OfibOff[m] \in Nat /\ t * Stride \in Nat
  BY <1>2, OfibOffDef, StrideType, SizeAssumption DEF Thread
<1>4. k \in Nat /\ k < ModeSize[n] * VC /\ l \in Nat /\ l < ModeSize[m] * VC
  BY Extent DEF Cells
<1>5. OfibOff[n] + k = OfibOff[m] + l
  <2> DEFINE x == t * Stride
  <2>1. x \in Nat /\ x + OfibOff[n] + k = x + OfibOff[m] + l
    BY <1>1, <1>3 DEF At
  <2> HIDE DEF x
  <2> QED BY <1>3, <1>4, <2>1
<1>6. ~ (n < m)
  BY <1>2, <1>3, <1>4, <1>5, OfibOffApart, Extent
<1>7. ~ (m < n)
  BY <1>2, <1>3, <1>4, <1>5, OfibOffApart, Extent
<1>8. n = m
  BY <1>2, <1>6, <1>7
<1> QED BY <1>1, <1>3, <1>4, <1>5, <1>8

-----------------------------------------------------------------------------
(* The slices.                                                             *)

LEMMA PerBounds ==
  ASSUME NEW g \in Nat
  PROVE  /\ Per(g) \in Nat
         /\ g =< P * Per(g)
         /\ g > 0 => Per(g) > 0
<1> DEFINE a == g + P - 1
           q == a \div P
<1>1. P \in Nat \ {0} /\ a \in Nat
  BY SizeAssumption
<1>2. q \in Nat /\ a = P * q + (a % P) /\ a % P \in 0 .. P - 1 /\ P * q \in Nat
  <2> HIDE DEF a
  <2> QED BY <1>1
<1>3. g =< P * q
  <2> DEFINE x == P * q
             y == a % P
  <2>1. x \in Nat /\ y \in 0 .. P - 1 /\ g + P - 1 = x + y
    BY <1>2
  <2> HIDE DEF x, y
  <2>2. g =< x
    BY <1>1, <2>1
  <2> QED BY <2>2 DEF x
<1>4. g > 0 => q > 0
  <2> SUFFICES ASSUME g > 0, q = 0 PROVE FALSE
    BY <1>2
  <2> HIDE DEF q
  <2>1. P * q = 0
    BY <1>1
  <2> QED BY <1>3, <2>1
<1>5. Per(g) = q
  BY DEF Per
<1> HIDE DEF q
<1> QED BY <1>2, <1>3, <1>4, <1>5

\* Every position of the chunk is in the slice of a thread ...
LEMMA SliceExists ==
  ASSUME got \in Nat, NEW j \in 0 .. got - 1
  PROVE  \E t \in Thread : Begin(t) =< j /\ j < End(t)
<1> DEFINE w == Per(got)
           t == j \div w
<1>1. got \in Nat /\ j \in Nat /\ j < got /\ got > 0 /\ P \in Nat \ {0}
  BY SizeAssumption
<1>2. w \in Nat \ {0} /\ got =< P * w
  BY <1>1, PerBounds
<1>3. t \in Nat /\ t * w =< j /\ j < t * w + w
  <2>1. t \in Nat /\ j = w * t + (j % w) /\ j % w \in 0 .. w - 1 /\ w * t \in Nat
    <3> HIDE DEF w
    <3> QED BY <1>1, <1>2
  <2> DEFINE y == j % w
  <2>2. y \in 0 .. w - 1 /\ j = w * t + y
    BY <2>1
  <2> HIDE DEF w, t, y
  <2>3. t * w = w * t
    BY <1>2, <2>1
  <2> QED BY <1>1, <1>2, <2>1, <2>2, <2>3
<1>4. t < P
  <2> SUFFICES ASSUME P =< t PROVE FALSE
    BY <1>1, <1>3
  <2> HIDE DEF w, t
  <2>1. P * w =< t * w
    BY <1>1, <1>2, <1>3
  <2>2. P * w \in Nat /\ t * w \in Nat
    BY <1>1, <1>2, <1>3
  <2> QED BY <1>1, <1>2, <1>3, <2>1, <2>2
<1>5. t \in Thread
  BY <1>1, <1>3, <1>4 DEF Thread
<1>6. Begin(t) =< j /\ j < End(t)
  <2>1. Begin(t) = t * w /\ End(t) = Lesser(got, t * w + w)
    BY DEF Begin, End
  <2> HIDE DEF w, t
  <2>2. t * w \in Nat
    BY <1>2, <1>3
  <2> QED BY <1>1, <1>2, <1>3, <2>1, <2>2 DEF Lesser
<1> HIDE DEF t
<1> QED BY <1>5, <1>6

\* ... and of one only, even when it is compared to the uncut end.
LEMMA SliceUnique ==
  ASSUME got \in Nat, NEW t \in Thread, NEW u \in Thread, NEW j \in Nat,
         Begin(t) =< j, j < Begin(t) + Per(got),
         Begin(u) =< j, j < Begin(u) + Per(got)
  PROVE  t = u
<1> DEFINE w == Per(got)
<1>1. w \in Nat /\ t \in Nat /\ u \in Nat
  BY PerBounds, SizeAssumption DEF Thread
<1>2. t * w =< j /\ j < t * w + w /\ u * w =< j /\ j < u * w + w
  BY DEF Begin
<1> HIDE DEF w
<1>3. \A x, y \in Nat : x < y => x * w + w =< y * w
  BY <1>1
<1>4. t * w \in Nat /\ u * w \in Nat
  BY <1>1
<1> QED BY <1>1, <1>2, <1>3, <1>4

LEMMA SliceType ==
  ASSUME NEW t \in Thread, got \in Nat
  PROVE  /\ Per(got) \in Nat /\ Begin(t) \in Nat /\ End(t) \in Nat
         /\ End(t) =< got /\ End(t) =< Begin(t) + Per(got)
<1>1. Per(got) \in Nat /\ t \in Nat
  BY PerBounds, SizeAssumption DEF Thread
<1>2. t * Per(got) \in Nat
  BY <1>1
<1> QED BY <1>1, <1>2 DEF Begin, End, Lesser

-----------------------------------------------------------------------------
(* Rows and the counts in them.                                            *)

LEMMA RowFacts ==
  ASSUME NEW n \in Mode, NEW e \in Slot
  PROVE  /\ Row[n][e] \in Nat /\ Row[n][e] \in RowsOf(n)
         /\ RowCells(Row[n][e]) \subseteq Cells(n)
         /\ Row[n][e] * VC \in RowCells(Row[n][e])
<1> DEFINE r == Row[n][e]
           s == ModeSize[n]
<1>1. r \in Nat /\ s \in Nat /\ r < s /\ VC \in Nat \ {0}
  BY TensorAssumption, SizeAssumption
<1>2. r * VC + VC =< s * VC /\ r * VC \in Nat /\ s * VC \in Nat
  <2> HIDE DEF r, s
  <2> QED BY <1>1
<1> HIDE DEF r, s
<1>3. RowCells(r) \subseteq 0 .. s * VC - 1 /\ r * VC \in RowCells(r)
  BY <1>1, <1>2 DEF RowCells
<1>4. r \in 0 .. s - 1
  BY <1>1
<1> QED BY <1>1, <1>3, <1>4 DEF r, s, RowsOf, Cells

LEMMA RowCellsIn ==
  ASSUME NEW n \in Mode, NEW r \in RowsOf(n)
  PROVE  RowCells(r) \subseteq Cells(n)
<1> DEFINE s == ModeSize[n]
<1>1. r \in Nat /\ s \in Nat /\ r < s /\ VC \in Nat \ {0}
  BY TensorAssumption, SizeAssumption DEF RowsOf
<1> HIDE DEF s
<1>2. r * VC + VC =< s * VC /\ r * VC \in Nat /\ s * VC \in Nat
  BY <1>1
<1> QED BY <1>1, <1>2 DEF RowCells, Cells, s

LEMMA RowCellsApart ==
  ASSUME NEW q \in Nat, NEW r \in Nat, NEW k \in RowCells(q), k \in RowCells(r)
  PROVE  q = r
<1>1. VC \in Nat \ {0} /\ q * VC \in Nat /\ r * VC \in Nat
  BY SizeAssumption
<1>2. \A x, y \in Nat : x < y => x * VC + VC =< y * VC
  BY <1>1
<1> QED BY <1>1, <1>2 DEF RowCells

LEMMA CellHasRow ==
  ASSUME NEW n \in Mode, NEW k \in Cells(n)
  PROVE  \E r \in RowsOf(n) : k \in RowCells(r)
<1> DEFINE s == ModeSize[n]
           r == k \div VC
           y == k % VC
<1>1. s \in Nat /\ VC \in Nat \ {0} /\ s * VC \in Nat /\ k \in Nat /\ k < s * VC
  BY TensorAssumption, SizeAssumption, Extent DEF Cells
<1>2. r \in Nat /\ k = VC * r + y /\ y \in 0 .. VC - 1 /\ VC * r \in Nat /\ VC * r = r * VC
  BY <1>1
<1> HIDE DEF r, y, s
<1>3. k \in RowCells(r)
  BY <1>1, <1>2 DEF RowCells
<1>4. r < s
  <2> SUFFICES ASSUME s =< r PROVE FALSE
    BY <1>1, <1>2
  <2>1. s * VC =< r * VC
    BY <1>1, <1>2
  <2> QED BY <1>1, <1>2, <2>1
<1>5. r \in RowsOf(n)
  BY <1>1, <1>2, <1>4 DEF RowsOf, s
<1> QED BY <1>3, <1>5

LEMMA ModeZero == 0 \in Mode /\ N \in Nat /\ P \in Nat /\ nnz \in Nat /\ 0 < nnz
BY SizeAssumption DEF Mode

LEMMA ChunkSize == Chunk \in Nat /\ 0 < Chunk /\ Chunk =< nnz
BY SizeAssumption DEF Chunk

\* Where Did looks: the first vector of e's row of output 0.
LEMMA DidCell ==
  ASSUME NEW e \in Slot
  PROVE  Row[0][e] * VC \in Cells(0)
BY ModeZero, RowFacts

\* What one kernel step adds, seen from any thread's copy.
LEMMA ScatteredAt ==
  ASSUME ofibs \in [Address -> [Slot -> Nat]], NEW t \in Thread, NEW e \in Slot,
         NEW u \in Thread, NEW n \in Mode, NEW k \in Cells(n)
  PROVE  Scattered(t, e)[At(u, n, k)] =
           IF u = t /\ k \in RowCells(Row[n][e])
           THEN [ofibs[At(u, n, k)] EXCEPT ![e] = @ + 1]
           ELSE ofibs[At(u, n, k)]
<1> DEFINE a == At(u, n, k)
           hit == \E m \in Mode : \E l \in RowCells(Row[m][e]) : a = At(t, m, l)
<1>1. a \in Address
  BY AtInBlock
<1>2. Scattered(t, e)[a] = IF hit THEN [ofibs[a] EXCEPT ![e] = @ + 1] ELSE ofibs[a]
  <2> HIDE DEF a
  <2> QED BY <1>1 DEF Scattered
<1>3. hit <=> u = t /\ k \in RowCells(Row[n][e])
  <2>1. ASSUME hit PROVE u = t /\ k \in RowCells(Row[n][e])
    <3>1. PICK m \in Mode : \E l \in RowCells(Row[m][e]) : a = At(t, m, l)
      BY <2>1
    <3>2. PICK l \in RowCells(Row[m][e]) : a = At(t, m, l)
      BY <3>1
    <3>3. l \in Cells(m)
      BY RowFacts
    <3> QED BY <3>2, <3>3, CopiesDisjoint DEF OfibsDisjoint
  <2> QED BY <2>1
<1> HIDE DEF hit
<1> QED BY <1>2, <1>3

-----------------------------------------------------------------------------
(* The inductive invariant holds initially and under every action.         *)

LEMMA InitIInv == Init => IInv
<1> SUFFICES ASSUME Init PROVE IInv
  OBVIOUS
<1>1. TypeOK
  <2>1. 0 \in Slot /\ 0 \in Mode /\ 0 \in 0 .. P /\ 0 \in 0 .. nnz
    BY ModeZero DEF Slot
  <2>2. \A n \in Mode : yhat[n] \in [Cells(n) -> [Slot -> Nat]]
    BY DEF Init
  <2> QED BY <2>1, <2>2 DEF Init, TypeOK, Phase
<1>2. ChunkLoaded /\ Positions /\ ClearedBlocks
  BY DEF Init, ChunkLoaded, Positions, ClearedBlocks
<1>3. WholeNonzeros /\ CountedOnce /\ PartialSums
  BY DEF Init, WholeNonzeros, CountedOnce, PartialSums, Counting
<1>4. Outputs
  BY DEF Init, Outputs
<1> QED BY <1>1, <1>2, <1>3, <1>4 DEF IInv

LEMMA CallIInv == IInv /\ Call => IInv'
<1> SUFFICES ASSUME IInv, Call PROVE IInv'
  OBVIOUS
<1>1. TypeOK'
  BY DEF IInv, TypeOK, Call, Phase
<1>2. ChunkLoaded' /\ Positions' /\ ClearedBlocks'
  BY DEF Call, ChunkLoaded, Positions, ClearedBlocks
<1>3. WholeNonzeros' /\ CountedOnce' /\ PartialSums'
  BY DEF Call, WholeNonzeros, CountedOnce, PartialSums, Counting
<1>4. Outputs'
  BY DEF IInv, Outputs, Call
<1> QED BY <1>1, <1>2, <1>3, <1>4 DEF IInv

LEMMA AllocIInv == IInv /\ Alloc => IInv'
<1> SUFFICES ASSUME IInv, Alloc PROVE IInv'
  OBVIOUS
<1>1. TypeOK'
  <2>1. ofibs' \in [Address -> [Slot -> Nat]]
    BY SizeAssumption DEF Alloc
  <2> QED BY <2>1 DEF IInv, TypeOK, Alloc, Phase
<1>2. ChunkLoaded' /\ Positions' /\ ClearedBlocks'
  BY DEF Alloc, ChunkLoaded, Positions, ClearedBlocks
<1>3. WholeNonzeros' /\ CountedOnce' /\ PartialSums'
  BY DEF Alloc, WholeNonzeros, CountedOnce, PartialSums, Counting
<1>4. Outputs'
  BY DEF IInv, Outputs, Alloc
<1> QED BY <1>1, <1>2, <1>3, <1>4 DEF IInv

LEMMA GiveUpIInv == IInv /\ (Refuse \/ FallBack \/ ReadFails) => IInv'
<1> SUFFICES ASSUME IInv, Refuse \/ FallBack \/ ReadFails PROVE IInv'
  OBVIOUS
<1> USE DEF Refuse, FallBack, ReadFails
<1>1. TypeOK'
  BY DEF IInv, TypeOK, Phase
<1>2. ChunkLoaded' /\ Positions' /\ ClearedBlocks'
  BY DEF ChunkLoaded, Positions, ClearedBlocks
<1>3. WholeNonzeros' /\ CountedOnce' /\ PartialSums'
  BY DEF WholeNonzeros, CountedOnce, PartialSums, Counting
<1>4. Outputs'
  BY DEF IInv, Outputs
<1> QED BY <1>1, <1>2, <1>3, <1>4 DEF IInv

LEMMA ExactOutType ==
  ASSUME NEW n \in Mode
  PROVE  ExactOut(n) \in [Cells(n) -> [Slot -> Nat]]
BY DEF ExactOut

LEMMA ExactOutAt ==
  ASSUME NEW n \in Mode, NEW k \in Cells(n), NEW e \in Slot
  PROVE  ExactOut(n)[k][e] = IF k \in RowCells(Row[n][e]) THEN 1 ELSE 0
BY DEF ExactOut

LEMMA PerModeIInv == IInv /\ PerMode => IInv'
<1> SUFFICES ASSUME IInv, PerMode PROVE IInv'
  OBVIOUS
<1>1. TypeOK'
  <2>1. \A n \in Mode : yhat'[n] \in [Cells(n) -> [Slot -> Nat]]
    BY ExactOutType DEF PerMode
  <2> QED BY <2>1 DEF IInv, TypeOK, PerMode, Phase
<1>2. ChunkLoaded' /\ Positions' /\ ClearedBlocks'
  BY DEF PerMode, ChunkLoaded, Positions, ClearedBlocks
<1>3. WholeNonzeros' /\ CountedOnce' /\ PartialSums'
  BY DEF PerMode, WholeNonzeros, CountedOnce, PartialSums, Counting
<1>4. Outputs'
  BY DEF PerMode, Outputs, ExactOut
<1> QED BY <1>1, <1>2, <1>3, <1>4 DEF IInv

LEMMA ZeroIInv == ASSUME IInv, NEW t \in Thread, Zero(t) PROVE IInv'
<1>1. TypeOK'
  <2>1. ofibs' \in [Address -> [Slot -> Nat]]
    BY DEF IInv, TypeOK, Zero
  <2> QED BY <2>1 DEF IInv, TypeOK, Zero
<1>2. ChunkLoaded' /\ Positions'
  BY DEF IInv, Zero, ChunkLoaded, Positions
<1>3. ClearedBlocks'
  <2> SUFFICES ASSUME NEW u \in Thread \ zeroing', NEW a \in Block(u)
               PROVE  ofibs'[a] = [e \in Slot |-> 0]
    BY DEF ClearedBlocks, Zero
  <2>1. a \in Address
    BY BlockInAddress
  <2>2. CASE u = t
    BY <2>1, <2>2 DEF Zero
  <2>3. CASE u # t
    <3>1. u \in Thread \ zeroing /\ phase = "zero"
      BY <2>3 DEF Zero
    <3>2. ofibs[a] = [e \in Slot |-> 0]
      BY <3>1 DEF IInv, ClearedBlocks
    <3> QED BY <2>1, <3>2 DEF Zero
  <2> QED BY <2>2, <2>3
<1>4. WholeNonzeros' /\ CountedOnce' /\ PartialSums'
  BY DEF Zero, WholeNonzeros, CountedOnce, PartialSums, Counting
<1>5. Outputs'
  BY DEF IInv, Zero, Outputs
<1> QED BY <1>1, <1>2, <1>3, <1>4, <1>5 DEF IInv

LEMMA ZeroedIInv == IInv /\ Zeroed => IInv'
<1> SUFFICES ASSUME IInv, Zeroed PROVE IInv'
  OBVIOUS
<1>0. /\ phase = "zero" /\ zeroing = {} /\ b = 0 /\ b' = 0
      /\ ofibs' = ofibs /\ yhat' = yhat /\ result' = result /\ zeroing' = zeroing
      /\ streaming' = streaming /\ Chunk' = Chunk
      /\ mode' = mode /\ added' = added
  BY DEF Zeroed, IInv, ChunkLoaded, Chunk
<1>1. \/ /\ phase' = "read" /\ got' = got /\ buf' = buf /\ pos' = pos
      \/ /\ phase' = "kernel" /\ got' = nnz /\ Chunk = nnz
         /\ buf' = [j \in Slot |-> j]
         /\ pos' = [t \in Thread |-> t * Per(nnz)]
  BY SizeAssumption DEF Zeroed, Chunk
<1>2. TypeOK'
  <2>1. CASE phase' = "read"
    BY <1>0, <1>1, <2>1 DEF IInv, TypeOK, Phase
  <2>2. CASE phase' = "kernel"
    <3>1. pos' \in [Thread -> Nat]
      <4>1. Per(nnz) \in Nat
        BY ModeZero, ChunkSize, PerBounds
      <4>2. \A t \in Thread : t * Per(nnz) \in Nat
        BY <4>1, ModeZero, ChunkSize DEF Thread
      <4> QED BY <1>1, <2>2, <4>2
    <3>2. buf' \in [Slot -> Slot] /\ got' \in 0 .. nnz
      BY <1>1, <2>2, ModeZero, ChunkSize DEF Slot
    <3> QED BY <1>0, <2>2, <3>1, <3>2 DEF IInv, TypeOK, Phase
  <2> QED BY <1>1, <2>1, <2>2
<1>3. ChunkLoaded'
  BY <1>0, <1>1, ModeZero, ChunkSize DEF ChunkLoaded, Lesser, Slot
<1>4. Positions'
  <2> SUFFICES ASSUME phase' = "kernel", NEW t \in Thread
               PROVE  pos'[t] = Begin(t)' /\ Begin(t)' \in Nat
    BY DEF Positions
  <2>1. got' = nnz /\ pos'[t] = t * Per(nnz)
    BY <1>1
  <2>2. t * Per(nnz) \in Nat
    BY PerBounds, ModeZero, ChunkSize DEF Thread
  <2> QED BY <2>1, <2>2 DEF Begin
<1>5. ClearedBlocks'
  BY <1>1 DEF ClearedBlocks
<1>6. ASSUME NEW t \in Thread, NEW n \in Mode, NEW k \in Cells(n), NEW e \in Slot
      PROVE  ofibs[At(t, n, k)][e] = 0
  <2>1. At(t, n, k) \in Block(t)
    BY AtInBlock
  <2>2. ofibs[At(t, n, k)] = [f \in Slot |-> 0]
    BY <1>0, <2>1 DEF IInv, ClearedBlocks
  <2> QED BY <2>2
<1>7. ASSUME NEW t \in Thread, NEW e \in Slot PROVE ~ Did(t, e)'
  BY <1>0, <1>6, DidCell, ModeZero, ChunkSize DEF Did
<1>8. WholeNonzeros'
  <2> SUFFICES ASSUME NEW t \in Thread, NEW n \in Mode, NEW e \in Slot, NEW k \in Cells(n)
               PROVE  ofibs'[At(t, n, k)][e] =
                        IF k \in RowCells(Row[n][e]) /\ Did(t, e)' THEN 1 ELSE 0
    BY DEF WholeNonzeros
  <2> QED BY <1>0, <1>6, <1>7
<1>9. CountedOnce'
  <2> SUFFICES ASSUME NEW e \in Slot PROVE ~ Passed(e)'
    BY <1>7 DEF CountedOnce
  <2>1. ~ (e < b') /\ phase' # "reduce"
    BY <1>0, <1>1 DEF Slot
  <2>2. ASSUME phase' = "kernel", NEW t \in Thread PROVE ~ (e - b' < pos'[t] /\ Begin(t)' =< e - b')
    <3>1. pos'[t] = Begin(t)'
      BY <1>1, <2>2 DEF Begin
    <3>2. Begin(t)' \in Nat
      <4>1. t * Per(nnz) \in Nat
        BY PerBounds, ModeZero, ChunkSize DEF Thread
      <4> QED BY <1>1, <2>2, <4>1 DEF Begin
    <3>3. e - b' \in Nat
      BY <1>0 DEF Slot
    <3> QED BY <3>1, <3>2, <3>3
  <2> QED BY <2>1, <2>2 DEF Passed
<1>10. PartialSums'
  BY <1>1 DEF PartialSums
<1>11. Outputs'
  BY <1>0, <1>1 DEF IInv, Outputs
<1> QED BY <1>2, <1>3, <1>4, <1>5, <1>8, <1>9, <1>10, <1>11 DEF IInv

LEMMA ReadChunkIInv == IInv /\ ReadChunk => IInv'
<1> SUFFICES ASSUME IInv, ReadChunk PROVE IInv'
  OBVIOUS
<1> DEFINE len == Lesser(nnz, b + Chunk) - b
<1>0. /\ phase = "read" /\ phase' = "kernel" /\ b' = b
      /\ ofibs' = ofibs /\ yhat' = yhat /\ result' = result /\ zeroing' = zeroing
      /\ streaming' = streaming /\ Chunk' = Chunk
      /\ mode' = mode /\ added' = added
      /\ got' = len
      /\ buf' = [j \in Slot |-> IF j < len THEN b + j ELSE buf[j]]
      /\ pos' = [t \in Thread |-> t * Per(len)]
  BY DEF ReadChunk, Chunk
<1>1. b \in Nat /\ b < nnz /\ len \in Nat /\ len =< Chunk /\ b + len =< nnz
  BY <1>0, ModeZero, ChunkSize DEF IInv, TypeOK, ChunkLoaded, Lesser
<1> HIDE DEF len
<1>2. ASSUME NEW t \in Thread PROVE t * Per(len) \in Nat
  BY <1>1, PerBounds, ModeZero, ChunkSize DEF Thread
<1>3. ASSUME NEW t \in Thread PROVE pos'[t] = Begin(t)' /\ Begin(t)' \in Nat
  BY <1>0, <1>2 DEF Begin
<1>4. TypeOK'
  <2>1. pos' \in [Thread -> Nat]
    BY <1>0, <1>2
  <2>2. buf' \in [Slot -> Slot]
    BY <1>0, <1>1, ModeZero, ChunkSize DEF Slot, IInv, TypeOK
  <2>3. got' \in 0 .. nnz
    BY <1>0, <1>1, ModeZero, ChunkSize
  <2> QED BY <1>0, <2>1, <2>2, <2>3 DEF IInv, TypeOK, Phase
<1>5. ChunkLoaded'
  BY <1>0, <1>1, ModeZero, ChunkSize DEF ChunkLoaded, len, Slot
<1>6. Positions'
  BY <1>3 DEF Positions
<1>7. ClearedBlocks' /\ PartialSums'
  BY <1>0 DEF ClearedBlocks, PartialSums
<1>8. WholeNonzeros'
  BY <1>0 DEF IInv, WholeNonzeros, Counting, Did
<1>9. CountedOnce'
  <2>1. ASSUME NEW e \in Slot PROVE Passed(e)' <=> Passed(e)
    <3>1. ASSUME NEW t \in Thread PROVE ~ (Begin(t)' =< e - b' /\ e - b' < pos'[t])
      BY <1>0, <1>1, <1>3 DEF Slot
    <3> QED BY <1>0, <3>1 DEF Passed
  <2> QED BY <1>0, <2>1 DEF IInv, CountedOnce, Counting, Did
<1>10. Outputs'
  BY <1>0 DEF IInv, Outputs
<1> QED BY <1>4, <1>5, <1>6, <1>7, <1>8, <1>9, <1>10 DEF IInv

LEMMA KernelIInv == ASSUME IInv, NEW t \in Thread, Kernel(t) PROVE IInv'
<1> DEFINE j == pos[t]
           f == buf[j]
<1>0. /\ phase = "kernel" /\ phase' = "kernel" /\ j < End(t)
      /\ ofibs' = Scattered(t, f)
      /\ pos' = [pos EXCEPT ![t] = @ + 1]
      /\ b' = b /\ got' = got /\ buf' = buf /\ yhat' = yhat /\ result' = result
      /\ zeroing' = zeroing /\ mode' = mode /\ added' = added
      /\ streaming' = streaming /\ Chunk' = Chunk
  BY DEF Kernel, Chunk
<1>1. /\ b \in Nat /\ b < nnz /\ got \in Nat /\ got =< Chunk /\ b + got =< nnz
      /\ pos \in [Thread -> Nat] /\ ofibs \in [Address -> [Slot -> Nat]]
      /\ buf \in [Slot -> Slot]
  BY <1>0, ModeZero, ChunkSize DEF IInv, TypeOK, ChunkLoaded, Lesser
<1>2. ASSUME NEW u \in Thread
      PROVE  /\ Begin(u) \in Nat /\ End(u) \in Nat /\ End(u) =< got
             /\ End(u) =< Begin(u) + Per(got) /\ pos[u] \in Nat
             /\ Begin(u) =< pos[u] /\ (pos[u] > Begin(u) => pos[u] =< End(u))
  BY <1>0, <1>1, SliceType DEF IInv, Positions
<1>3. j \in 0 .. got - 1 /\ j \in Nat /\ Begin(t) =< j /\ j < Begin(t) + Per(got)
  <2>1. Per(got) \in Nat
    BY <1>1, PerBounds
  <2> QED BY <1>0, <1>1, <1>2, <2>1
<1>4. f = b + j /\ f \in Slot /\ f - b = j /\ ~ (f < b)
  <2>1. f = b + j
    BY <1>0, <1>3 DEF IInv, ChunkLoaded
  <2> HIDE DEF f, j
  <2> QED BY <1>1, <1>3, <2>1, ModeZero, ChunkSize DEF Slot
<1>5. pos'[t] = j + 1 /\ \A u \in Thread : u # t => pos'[u] = pos[u]
  BY <1>0, <1>1
<1> HIDE DEF j, f
\* f has not been counted yet: no other slice holds its position.
<1>6. ~ Passed(f)
  <2> SUFFICES ASSUME NEW u \in Thread, Begin(u) =< j, j < pos[u] PROVE FALSE
    BY <1>0, <1>4 DEF Passed
  <2>1. j < End(u) /\ j < Begin(u) + Per(got)
    <3>1. pos[u] =< End(u)
      BY <1>2, <1>3
    <3>2. Per(got) \in Nat
      BY <1>1, PerBounds
    <3> QED BY <1>2, <1>3, <3>1, <3>2
  <2>2. u = t
    BY <1>1, <1>3, <2>1, SliceUnique
  <2> QED BY <1>3, <2>2 DEF j
<1>7. \A u \in Thread : ~ Did(u, f)
  BY <1>0, <1>4, <1>6 DEF IInv, CountedOnce, Counting
<1>8. ASSUME NEW u \in Thread, NEW n \in Mode, NEW k \in Cells(n)
      PROVE  ofibs'[At(u, n, k)] = IF u = t /\ k \in RowCells(Row[n][f])
                                   THEN [ofibs[At(u, n, k)] EXCEPT ![f] = @ + 1]
                                   ELSE ofibs[At(u, n, k)]
  BY <1>0, <1>1, <1>4, ScatteredAt
<1>9. ASSUME NEW u \in Thread, NEW n \in Mode, NEW k \in Cells(n), NEW e \in Slot
      PROVE  ofibs'[At(u, n, k)][e] = IF u = t /\ e = f /\ k \in RowCells(Row[n][f])
                                      THEN 1 ELSE ofibs[At(u, n, k)][e]
  <2>1. ofibs[At(u, n, k)] \in [Slot -> Nat]
    BY <1>1, AtInBlock
  <2>2. ofibs[At(u, n, k)][f] = 0
    BY <1>0, <1>4, <1>7 DEF IInv, WholeNonzeros, Counting
  <2> DEFINE c == ofibs[At(u, n, k)]
  <2>3. CASE u = t /\ k \in RowCells(Row[n][f])
    <3>1. ofibs'[At(u, n, k)] = [c EXCEPT ![f] = @ + 1]
      BY <1>8, <2>3
    <3>2. c \in [Slot -> Nat] /\ c[f] = 0
      BY <2>1, <2>2
    <3> HIDE DEF c
    <3>3. [c EXCEPT ![f] = @ + 1][e] = IF e = f THEN 1 ELSE c[e]
      BY <1>4, <3>2
    <3> QED BY <2>3, <3>1, <3>3 DEF c
  <2>4. CASE ~ (u = t /\ k \in RowCells(Row[n][f]))
    BY <1>8, <2>4
  <2> QED BY <2>3, <2>4
<1>10. ASSUME NEW u \in Thread, NEW e \in Slot
       PROVE  Did(u, e)' <=> Did(u, e) \/ (u = t /\ e = f)
  <2>1. Row[0][e] * VC \in Cells(0) /\ Row[0][e] * VC \in RowCells(Row[0][e]) /\ 0 \in Mode
    BY ModeZero, ChunkSize, RowFacts, DidCell
  <2> QED BY <1>9, <2>1 DEF Did
<1>11. TypeOK'
  <2>1. ofibs' \in [Address -> [Slot -> Nat]]
    <3>1. \A a \in Address : [ofibs[a] EXCEPT ![f] = @ + 1] \in [Slot -> Nat]
      BY <1>1, <1>4
    <3> QED BY <1>0, <1>1, <3>1 DEF Scattered
  <2>2. pos' \in [Thread -> Nat]
    BY <1>0, <1>1
  <2> QED BY <1>0, <2>1, <2>2 DEF IInv, TypeOK
<1>12. ChunkLoaded'
  BY <1>0 DEF IInv, ChunkLoaded
<1>13. Positions'
  <2> SUFFICES ASSUME NEW u \in Thread
               PROVE  Begin(u) =< pos'[u] /\ (pos'[u] > Begin(u) => pos'[u] =< End(u))
    BY <1>0 DEF Positions, Begin, End
  <2>1. CASE u = t
    BY <1>0, <1>2, <1>3, <1>5, <2>1 DEF j
  <2>2. CASE u # t
    BY <1>2, <1>5, <2>2
  <2> QED BY <2>1, <2>2
<1>14. ClearedBlocks' /\ PartialSums'
  BY <1>0 DEF ClearedBlocks, PartialSums
<1>15. WholeNonzeros'
  <2> SUFFICES ASSUME NEW u \in Thread, NEW n \in Mode, NEW e \in Slot, NEW k \in Cells(n)
               PROVE  ofibs'[At(u, n, k)][e] =
                        IF k \in RowCells(Row[n][e]) /\ Did(u, e)' THEN 1 ELSE 0
    BY DEF WholeNonzeros
  <2>1. ofibs[At(u, n, k)][e] = IF k \in RowCells(Row[n][e]) /\ Did(u, e) THEN 1 ELSE 0
    BY <1>0 DEF IInv, WholeNonzeros, Counting
  <2> QED BY <1>9, <1>10, <2>1
<1>16. CountedOnce'
  <2>1. ASSUME NEW e \in Slot PROVE Passed(e)' <=> Passed(e) \/ e = f
    <3>1. Passed(e)' <=> \/ e < b
                         \/ \E u \in Thread : Begin(u) =< e - b /\ e - b < pos'[u]
      BY <1>0 DEF Passed, Begin
    <3>2. Passed(e) <=> \/ e < b
                        \/ \E u \in Thread : Begin(u) =< e - b /\ e - b < pos[u]
      BY <1>0 DEF Passed
    <3>3. ASSUME NEW u \in Thread, Begin(u) =< e - b, e - b < pos'[u], ~ (e < b)
          PROVE  (Begin(u) =< e - b /\ e - b < pos[u]) \/ e = f
      <4>1. CASE u # t
        BY <1>5, <3>3, <4>1
      <4>2. CASE u = t
        BY <1>1, <1>3, <1>4, <1>5, <3>3, <4>2 DEF Slot, j
      <4> QED BY <4>1, <4>2
    <3>4. ASSUME NEW u \in Thread, Begin(u) =< e - b, e - b < pos[u]
          PROVE  e - b < pos'[u]
      <4>1. CASE u # t
        BY <1>5, <3>4, <4>1
      <4>2. CASE u = t
        BY <1>1, <1>3, <1>5, <3>4, <4>2 DEF Slot, j
      <4> QED BY <4>1, <4>2
    <3>5. e = f => Begin(t) =< e - b /\ e - b < pos'[t]
      BY <1>3, <1>4, <1>5
    <3> QED BY <3>1, <3>2, <3>3, <3>4, <3>5
  <2>2. ASSUME NEW e \in Slot
        PROVE  /\ Passed(e)' <=> \E u \in Thread : Did(u, e)'
               /\ \A u, v \in Thread : Did(u, e)' /\ Did(v, e)' => u = v
    <3>1. /\ Passed(e) <=> \E u \in Thread : Did(u, e)
          /\ \A u, v \in Thread : Did(u, e) /\ Did(v, e) => u = v
      BY <1>0 DEF IInv, CountedOnce, Counting
    <3> QED BY <1>7, <1>10, <2>1, <3>1
  <2> QED BY <2>2 DEF CountedOnce
<1>17. Outputs'
  BY <1>0 DEF IInv, Outputs
<1> QED BY <1>11, <1>12, <1>13, <1>14, <1>15, <1>16, <1>17 DEF IInv

LEMMA ChunkDoneIInv == IInv /\ ChunkDone => IInv'
<1> SUFFICES ASSUME IInv, ChunkDone PROVE IInv'
  OBVIOUS
<1>0. /\ phase = "kernel" /\ \A t \in Thread : ~ (pos[t] < End(t))
      /\ b' = b + Chunk
      /\ \/ b' < nnz /\ phase' = "read"
         \/ ~ (b' < nnz) /\ phase' = "reduce"
      /\ mode' = 0 /\ added' = [r \in Rows |-> 0]
      /\ ofibs' = ofibs /\ yhat' = yhat /\ result' = result /\ zeroing' = zeroing
      /\ streaming' = streaming /\ Chunk' = Chunk
      /\ got' = got /\ buf' = buf /\ pos' = pos
  BY DEF ChunkDone, Chunk
<1>1. /\ b \in Nat /\ b < nnz /\ got \in Nat /\ pos \in [Thread -> Nat]
      /\ got = Lesser(nnz, b + Chunk) - b
  BY <1>0 DEF IInv, TypeOK, ChunkLoaded
<1>2. TypeOK'
  <2>1. b' \in Nat /\ 0 \in 0 .. P /\ mode' \in Mode
    BY <1>0, <1>1, ModeZero, ChunkSize
  <2> QED BY <1>0, <2>1 DEF IInv, TypeOK, Phase
<1>3. ChunkLoaded' /\ Positions' /\ ClearedBlocks'
  BY <1>0 DEF ChunkLoaded, Positions, ClearedBlocks
<1>4. WholeNonzeros'
  BY <1>0 DEF IInv, WholeNonzeros, Counting, Did
<1>5. ASSUME NEW e \in Slot
      PROVE  Passed(e) <=> e < b + Chunk
  <2>1. e \in Nat /\ e < nnz
    BY ModeZero, ChunkSize DEF Slot
  <2>2. CASE e < b
    BY <1>1, <2>1, <2>2, ModeZero, ChunkSize DEF Passed
  <2>3. CASE ~ (e < b) /\ e < b + Chunk
    <3>1. e - b \in 0 .. got - 1
      BY <1>1, <2>1, <2>3, ModeZero, ChunkSize DEF Lesser
    <3>2. PICK t \in Thread : Begin(t) =< e - b /\ e - b < End(t)
      BY <1>1, <3>1, SliceExists
    <3>3. pos[t] \in Nat /\ End(t) \in Nat /\ ~ (pos[t] < End(t))
      BY <1>0, <1>1, SliceType
    <3>4. e - b < pos[t]
      BY <1>1, <2>1, <3>2, <3>3
    <3> QED BY <1>0, <2>3, <3>2, <3>4 DEF Passed
  <2>4. CASE ~ (e < b + Chunk)
    <3>1. ASSUME NEW t \in Thread, Begin(t) =< e - b, e - b < pos[t] PROVE FALSE
      <4>1. Begin(t) \in Nat /\ End(t) \in Nat /\ End(t) =< got /\ pos[t] \in Nat
        BY <1>1, SliceType
      <4>2. pos[t] > Begin(t) => pos[t] =< End(t)
        BY <1>0 DEF IInv, Positions
      <4>3. got =< Chunk /\ e - b \in Nat /\ ~ (e - b < Chunk)
        BY <1>1, <2>1, <2>4, ModeZero, ChunkSize DEF Lesser
      <4> QED BY <1>1, <3>1, <4>1, <4>2, <4>3, ModeZero, ChunkSize
    <3>2. ~ (e < b)
      BY <1>1, <2>1, <2>4, ModeZero, ChunkSize
    <3> QED BY <1>0, <2>4, <3>1, <3>2 DEF Passed
  <2> QED BY <2>2, <2>3, <2>4
<1>6. CountedOnce'
  <2>1. ASSUME NEW e \in Slot PROVE Passed(e)' <=> e < b + Chunk
    <3>1. e \in Nat /\ e < nnz
      BY ModeZero, ChunkSize DEF Slot
    <3>2. CASE phase' = "read"
      BY <1>0, <3>2 DEF Passed
    <3>3. CASE phase' = "reduce"
      <4>1. b + Chunk \in Nat /\ ~ (b + Chunk < nnz)
        BY <1>0, <1>1, <3>3, ModeZero, ChunkSize
      <4> QED BY <3>1, <3>3, <4>1, ModeZero, ChunkSize DEF Passed
    <3> QED BY <1>0, <3>2, <3>3
  <2> QED BY <1>0, <1>5, <2>1 DEF IInv, CountedOnce, Counting, Did
<1>7. PartialSums'
  <2> SUFFICES ASSUME phase' = "reduce" PROVE \A r \in RowsOf(mode') : added'[r] = 0
    BY DEF PartialSums
  <2>1. \A r \in RowsOf(0) : r \in Rows
    BY ModeZero, ChunkSize DEF Rows
  <2> QED BY <1>0, <2>1
<1>8. Outputs'
  <2>1. phase' = "reduce" => \A n \in Mode : ~ (n < mode')
    BY <1>0, ModeZero, ChunkSize DEF Mode
  <2> QED BY <1>0, <2>1 DEF IInv, Outputs
<1> QED BY <1>2, <1>3, <1>4, <1>6, <1>7, <1>8 DEF IInv

LEMMA ReduceRowIInv == ASSUME IInv, NEW r \in Rows, ReduceRow(r) PROVE IInv'
<1> DEFINE src(k) == ofibs[At(added[r], mode, k)]
           Sum(k) == IF k \notin RowCells(r) THEN yhat[mode][k]
                     ELSE IF added[r] = 0 THEN src(k)
                     ELSE [e \in Slot |-> yhat[mode][k][e] + src(k)[e]]
<1>0. /\ phase = "reduce" /\ r \in RowsOf(mode) /\ added[r] < P
      /\ yhat' = [yhat EXCEPT ![mode] = [k \in Cells(mode) |-> Sum(k)]]
      /\ added' = [added EXCEPT ![r] = @ + 1]
      /\ phase' = phase /\ result' = result /\ ofibs' = ofibs /\ zeroing' = zeroing
      /\ b' = b /\ got' = got /\ buf' = buf /\ pos' = pos /\ mode' = mode
      /\ streaming' = streaming
  BY DEF ReduceRow
<1>1. /\ mode \in Mode /\ added \in [Rows -> 0 .. P] /\ added[r] \in Thread
      /\ DOMAIN yhat = Mode /\ ofibs \in [Address -> [Slot -> Nat]]
      /\ \A n \in Mode : yhat[n] \in [Cells(n) -> [Slot -> Nat]]
  BY <1>0, ModeZero DEF IInv, TypeOK, Thread
<1>2. \A k \in Cells(mode) : src(k) \in [Slot -> Nat]
  BY <1>1, AtInBlock
<1> HIDE DEF src
<1>3. \A k \in Cells(mode) : Sum(k) \in [Slot -> Nat]
  BY <1>1, <1>2
<1>4. /\ DOMAIN yhat' = Mode /\ yhat'[mode] = [k \in Cells(mode) |-> Sum(k)]
      /\ \A n \in Mode : n # mode => yhat'[n] = yhat[n]
  <2> HIDE DEF Sum
  <2> QED BY <1>0, <1>1
<1>5. added' \in [Rows -> 0 .. P] /\ added'[r] = added[r] + 1
      /\ \A q \in Rows : q # r => added'[q] = added[q]
  BY <1>0, <1>1, ModeZero
<1>6. TypeOK'
  <2>1. \A n \in Mode : yhat'[n] \in [Cells(n) -> [Slot -> Nat]]
    <3> HIDE DEF Sum
    <3> QED BY <1>1, <1>3, <1>4
  <2> QED BY <1>0, <1>4, <1>5, <2>1 DEF IInv, TypeOK
<1>7. ChunkLoaded' /\ Positions' /\ ClearedBlocks'
  BY <1>0 DEF ChunkLoaded, Positions, ClearedBlocks
<1>8. WholeNonzeros' /\ CountedOnce'
  BY <1>0 DEF IInv, WholeNonzeros, CountedOnce, Counting, Did, Passed
<1>9. PartialSums'
  <2> SUFFICES ASSUME NEW q \in RowsOf(mode), NEW e \in Slot, added'[q] > 0,
                      NEW k \in RowCells(q)
               PROVE  yhat'[mode][k][e] =
                        IF q = Row[mode][e] /\ \E t \in Thread : t < added'[q] /\ Did(t, e)
                        THEN 1 ELSE 0
    BY <1>0 DEF PartialSums, Did
  <2>1. k \in Cells(mode) /\ q \in Rows
    BY <1>1, RowCellsIn DEF Rows
  <2>2. added[q] > 0 =>
          yhat[mode][k][e] =
            IF q = Row[mode][e] /\ \E t \in Thread : t < added[q] /\ Did(t, e)
            THEN 1 ELSE 0
    BY <1>0 DEF IInv, PartialSums
  <2>3. CASE q # r
    <3>1. k \notin RowCells(r)
      BY <1>0, <2>3, RowCellsApart DEF RowsOf
    <3>2. yhat'[mode][k] = yhat[mode][k]
      BY <1>4, <2>1, <3>1
    <3> QED BY <1>5, <2>1, <2>2, <2>3, <3>2
  <2>4. CASE q = r
    <3>1. src(k)[e] = IF k \in RowCells(Row[mode][e]) /\ Did(added[r], e) THEN 1 ELSE 0
      BY <1>0, <1>1, <2>1 DEF IInv, WholeNonzeros, Counting, src
    <3>2. k \in RowCells(Row[mode][e]) <=> q = Row[mode][e]
      BY <1>1, RowCellsApart, RowFacts DEF RowsOf
    <3>3. \A t, u \in Thread : Did(t, e) /\ Did(u, e) => t = u
      BY <1>0 DEF IInv, CountedOnce, Counting
    <3>4. \A t \in Thread : t < added'[q] <=> t < added[r] \/ t = added[r]
      <4> DEFINE a == added[r]
      <4>1. a \in Nat /\ added'[q] = a + 1
        BY <1>1, <1>5, <2>4, ModeZero DEF Thread
      <4> HIDE DEF a
      <4>2. \A t \in Nat : t < a + 1 <=> t < a \/ t = a
        BY <4>1
      <4>3. Thread \subseteq Nat
        BY ModeZero DEF Thread
      <4> QED BY <4>1, <4>2, <4>3 DEF a
    <3>5. CASE added[r] = 0
      <4>1. yhat'[mode][k] = src(k)
        BY <1>4, <2>1, <2>4, <3>5
      <4>2. \A t \in Thread : t < added'[q] <=> t = added[r]
        BY <3>4, <3>5, ModeZero DEF Thread
      <4> QED BY <1>1, <3>1, <3>2, <4>1, <4>2
    <3>6. CASE added[r] # 0
      <4>1. yhat'[mode][k][e] = yhat[mode][k][e] + src(k)[e]
        BY <1>4, <2>1, <2>4, <3>6
      <4>2. added[q] > 0 /\ added[q] = added[r]
        BY <1>1, <2>4, <3>6, ModeZero DEF Thread
      <4>3. ~ (added[r] < added[r])
        BY <1>1, ModeZero DEF Thread
      <4>4. CASE Did(added[r], e)
        <5>1. ~ \E t \in Thread : t < added[r] /\ Did(t, e)
          BY <1>1, <3>3, <4>3, <4>4
        <5> QED BY <1>1, <2>2, <3>1, <3>2, <3>4, <4>1, <4>2, <4>4, <5>1
      <4>5. CASE ~ Did(added[r], e)
        <5>1. (\E t \in Thread : t < added'[q] /\ Did(t, e))
                <=> (\E t \in Thread : t < added[r] /\ Did(t, e))
          BY <3>4, <4>5
        <5> QED BY <2>2, <3>1, <3>2, <4>1, <4>2, <4>5, <5>1
      <4> QED BY <4>4, <4>5
    <3> QED BY <3>5, <3>6
  <2> QED BY <2>3, <2>4
<1>10. Outputs'
  <2>1. ASSUME NEW n \in Mode, n < mode PROVE yhat'[n] = ExactOut(n)
    <3>1. n # mode
      BY <1>1, <2>1 DEF Mode
    <3> QED BY <1>0, <1>4, <2>1, <3>1 DEF IInv, Outputs
  <2> QED BY <1>0, <2>1 DEF Outputs
<1> QED BY <1>6, <1>7, <1>8, <1>9, <1>10 DEF IInv

\* A mode whose rows have all their copies added is complete.
LEMMA OutputComplete ==
  ASSUME IInv, phase = "reduce", \A r \in RowsOf(mode) : added[r] = P
  PROVE  yhat[mode] = ExactOut(mode)
<1>1. mode \in Mode /\ yhat[mode] \in [Cells(mode) -> [Slot -> Nat]]
  BY DEF IInv, TypeOK
<1>2. ASSUME NEW k \in Cells(mode), NEW e \in Slot
      PROVE  yhat[mode][k][e] = IF k \in RowCells(Row[mode][e]) THEN 1 ELSE 0
  <2>1. PICK r \in RowsOf(mode) : k \in RowCells(r)
    BY <1>1, CellHasRow
  <2>2. P > 0 /\ P \in Nat
    BY SizeAssumption
  <2>3. \E t \in Thread : Did(t, e)
    BY DEF IInv, CountedOnce, Counting, Passed
  <2>4. \E t \in Thread : t < added[r] /\ Did(t, e)
    BY <2>2, <2>3 DEF Thread
  <2>5. yhat[mode][k][e] = IF r = Row[mode][e] THEN 1 ELSE 0
    BY <2>1, <2>2, <2>4 DEF IInv, PartialSums
  <2>6. k \in RowCells(Row[mode][e]) <=> r = Row[mode][e]
    BY <1>1, <2>1, RowCellsApart, RowFacts DEF RowsOf
  <2> QED BY <2>5, <2>6
<1>3. \A k \in Cells(mode) : yhat[mode][k] = [e \in Slot |-> IF k \in RowCells(Row[mode][e]) THEN 1 ELSE 0]
  BY <1>1, <1>2
<1> QED BY <1>1, <1>3 DEF ExactOut

LEMMA ModeDoneIInv == IInv /\ ModeDone => IInv'
<1> SUFFICES ASSUME IInv, ModeDone PROVE IInv'
  OBVIOUS
<1>0. /\ phase = "reduce"
      /\ streaming' = streaming
      /\ ofibs' = ofibs /\ yhat' = yhat /\ zeroing' = zeroing
      /\ b' = b /\ got' = got /\ buf' = buf /\ pos' = pos
      /\ \/ /\ mode + 1 < N /\ mode' = mode + 1 /\ added' = [r \in Rows |-> 0]
            /\ phase' = phase /\ result' = result
         \/ /\ ~ (mode + 1 < N) /\ phase' = "idle" /\ result' = "ok"
            /\ mode' = mode /\ added' = added
  BY DEF ModeDone
<1>1. mode \in Mode /\ mode \in Nat
  BY SizeAssumption DEF IInv, TypeOK, Mode
<1>2. \A n \in Mode : n < mode + 1 => yhat[n] = ExactOut(n)
  <2>1. yhat[mode] = ExactOut(mode)
    BY OutputComplete DEF ModeDone
  <2>2. \A n \in Mode : n < mode + 1 => n < mode \/ n = mode
    BY <1>1, ModeZero DEF Mode
  <2> QED BY <1>0, <2>1, <2>2 DEF IInv, Outputs
<1>3. CASE phase' = "reduce"
  <2>1. mode' \in Mode /\ 0 \in 0 .. P /\ mode' = mode + 1 /\ added' = [r \in Rows |-> 0]
        /\ result' = result /\ phase' = phase
    BY <1>0, <1>1, <1>3, ModeZero DEF Mode
  <2>2. TypeOK'
    BY <1>0, <2>1 DEF IInv, TypeOK
  <2>3. ChunkLoaded' /\ Positions' /\ ClearedBlocks'
    BY <1>3 DEF ChunkLoaded, Positions, ClearedBlocks
  <2>4. WholeNonzeros' /\ CountedOnce'
    BY <1>0, <1>3 DEF IInv, WholeNonzeros, CountedOnce, Counting, Did, Passed
  <2>5. PartialSums'
    <3>1. \A r \in RowsOf(mode') : added'[r] = 0
      BY <2>1 DEF Rows
    <3> QED BY <3>1 DEF PartialSums
  <2>6. Outputs'
    BY <1>0, <1>2, <1>3, <2>1 DEF Outputs
  <2> QED BY <2>2, <2>3, <2>4, <2>5, <2>6 DEF IInv
<1>4. CASE phase' = "idle"
  <2>1. \A n \in Mode : yhat'[n] = ExactOut(n)
    <3>1. ~ (mode + 1 < N)
      BY <1>0, <1>4
    <3>2. \A n \in Mode : n < mode + 1
      BY <1>1, <3>1, ModeZero DEF Mode
    <3> QED BY <1>0, <1>2, <3>2
  <2>2. TypeOK'
    BY <1>0, <1>4 DEF IInv, TypeOK, Phase
  <2>3. ChunkLoaded' /\ Positions' /\ ClearedBlocks'
    BY <1>4 DEF ChunkLoaded, Positions, ClearedBlocks
  <2>4. WholeNonzeros' /\ CountedOnce' /\ PartialSums'
    BY <1>4 DEF WholeNonzeros, CountedOnce, Counting, PartialSums
  <2>5. Outputs'
    BY <1>4, <2>1 DEF Outputs
  <2> QED BY <2>2, <2>3, <2>4, <2>5 DEF IInv
<1> QED BY <1>0, <1>3, <1>4

-----------------------------------------------------------------------------
(* The theorems.                                                           *)

LEMMA StepIInv == IInv /\ Step => IInv'
BY AllocIInv, GiveUpIInv, PerModeIInv, ZeroedIInv, ReadChunkIInv, ChunkDoneIInv,
   ModeDoneIInv, ZeroIInv, KernelIInv, ReduceRowIInv DEF Step

(* Every reachable state of a one-pass driver satisfies the inductive      *)
(* invariant: each nonzero is counted by exactly one thread in every chunk *)
(* passed, stale buffer and uninitialised memory are never counted, and    *)
(* the outputs of a call that succeeds are exact.                          *)
THEOREM AllModesCorrect == Spec => []IInv
<1>1. IInv /\ [Next]_vars => IInv'
  <2>1. IInv /\ UNCHANGED vars => IInv'
    BY DEF vars, IInv, TypeOK, ChunkLoaded, Positions, ClearedBlocks, WholeNonzeros,
           CountedOnce, PartialSums, Outputs, Counting, Did, Passed, Begin, End, Chunk
  <2> QED BY <2>1, CallIInv, StepIInv DEF Next
<1> QED BY InitIInv, <1>1, PTL DEF Spec

(* The variables keep their types.                                         *)
THEOREM AllModesType == Spec => []TypeOK
<1>1. IInv => TypeOK
  BY DEF IInv
<1> QED BY AllModesCorrect, <1>1, PTL

(* Every position of a chunk is in the slice of exactly one thread, and no *)
(* slice reaches the stale tail of the chunk buffer.                       *)
THEOREM SlicesAlwaysPartition == Spec => []SlicesPartition
<1>1. ASSUME IInv PROVE SlicesPartition
  <2> SUFFICES ASSUME phase = "kernel"
               PROVE  /\ \A j \in 0 .. got - 1 :
                           \E t \in Thread :
                             /\ Begin(t) =< j /\ j < End(t)
                             /\ \A u \in Thread : Begin(u) =< j /\ j < End(u) => u = t
                      /\ \A t \in Thread : \A j \in Slot :
                           Begin(t) =< j /\ j < End(t) => j < got
    BY DEF SlicesPartition
  <2>1. got \in Nat
    BY <1>1, ModeZero DEF IInv, TypeOK
  <2>2. \A t \in Thread : /\ Begin(t) \in Nat /\ End(t) \in Nat /\ Per(got) \in Nat
                          /\ End(t) =< got /\ End(t) =< Begin(t) + Per(got)
    BY <2>1, SliceType
  <2>3. ASSUME NEW j \in Nat, NEW t \in Thread, NEW u \in Thread,
               Begin(t) =< j, j < End(t), Begin(u) =< j, j < End(u)
        PROVE  u = t
    <3>1. j < Begin(t) + Per(got) /\ j < Begin(u) + Per(got)
      BY <2>2, <2>3
    <3> QED BY <2>1, <2>3, <3>1, SliceUnique
  <2>4. ASSUME NEW j \in 0 .. got - 1
        PROVE  \E t \in Thread :
                 /\ Begin(t) =< j /\ j < End(t)
                 /\ \A u \in Thread : Begin(u) =< j /\ j < End(u) => u = t
    <3>1. PICK t \in Thread : Begin(t) =< j /\ j < End(t)
      BY <2>1, SliceExists
    <3>2. j \in Nat
      BY <2>1
    <3> QED BY <2>3, <3>1, <3>2
  <2>5. ASSUME NEW t \in Thread, NEW j \in Slot, j < End(t)
        PROVE  j < got
    BY <2>1, <2>2, <2>5, ModeZero DEF Slot
  <2> QED BY <2>4, <2>5
<1> QED BY AllModesCorrect, <1>1, PTL

-----------------------------------------------------------------------------
(* The refinement.                                                         *)

LEMMA InitPromised == Init => Promise!Init
<1> SUFFICES ASSUME Init PROVE Promise!Init
  OBVIOUS
<1>1. stage = "idle" /\ result = "none"
  BY DEF Init, stage
<1>2. ASSUME NEW n \in Mode, NEW e \in Slot PROVE Counted(n, e) = 0
  <2>1. \A k \in Cells(n) : yhat[n][k][e] = 0
    BY DEF Init
  <2>2. Row[n][e] * VC \in Cells(n)
    BY RowFacts
  <2> QED BY <2>1, <2>2 DEF Counted
<1>3. out = [n \in Promise!Mode |-> [e \in Slot |-> 0]]
  BY <1>1, <1>2 DEF out, Promise!Mode, Mode
<1> QED BY <1>1, <1>3 DEF Promise!Init

LEMMA SameOut ==
  ASSUME yhat' = yhat, stage # "writing", stage' # "writing"
  PROVE  out' = out
BY DEF out, Counted

LEMMA StepPromised == IInv /\ IInv' /\ [Next]_vars => [Promise!Next]_(Promise!vars)
<1> SUFFICES ASSUME IInv, IInv', [Next]_vars PROVE [Promise!Next]_(Promise!vars)
  OBVIOUS
<1> USE DEF Promise!vars
<1>1. CASE Call
  <2>1. stage = "idle" /\ stage' = "running" /\ result' = result /\ yhat' = yhat
    BY <1>1 DEF Call, stage
  <2>2. out' = out
    BY <2>1, SameOut
  <2> QED BY <2>1, <2>2 DEF Promise!Next, Promise!Call
<1>2. CASE Alloc \/ Zeroed \/ ReadChunk \/ \E t \in Thread : Zero(t) \/ Kernel(t)
  <2>1. stage = "running" /\ stage' = "running" /\ result' = result /\ yhat' = yhat
    BY <1>2 DEF Alloc, Zeroed, ReadChunk, Zero, Kernel, stage
  <2>2. out' = out
    BY <2>1, SameOut
  <2> QED BY <2>1, <2>2
<1>3. CASE Refuse \/ ReadFails
  <2>1. stage = "running" /\ stage' = "idle" /\ result' = "failed" /\ yhat' = yhat
    BY <1>3 DEF Refuse, ReadFails, stage
  <2>2. out' = out
    BY <2>1, SameOut
  <2> QED BY <2>1, <2>2 DEF Promise!Next, Promise!Fail
<1>4. CASE FallBack
  <2>1. stage = "running" /\ stage' = "writing" /\ result' = result
    BY <1>4 DEF FallBack, stage
  <2>2. out' = [n \in Promise!Mode |-> Promise!Undefined]
    BY <2>1 DEF out, Promise!Mode, Promise!Undefined, Mode
  <2> QED BY <2>1, <2>2 DEF Promise!Next, Promise!Commit
<1>5. CASE ChunkDone
  <2>1. CASE phase' = "read"
    <3>1. stage = "running" /\ stage' = "running" /\ result' = result /\ yhat' = yhat
      BY <1>5, <2>1 DEF ChunkDone, stage
    <3>2. out' = out
      BY <3>1, SameOut
    <3> QED BY <3>1, <3>2
  <2>2. CASE phase' = "reduce"
    <3>1. stage = "running" /\ stage' = "writing" /\ result' = result
      BY <1>5, <2>2 DEF ChunkDone, stage
    <3>2. out' = [n \in Promise!Mode |-> Promise!Undefined]
      BY <3>1 DEF out, Promise!Mode, Promise!Undefined, Mode
    <3> QED BY <3>1, <3>2 DEF Promise!Next, Promise!Commit
  <2> QED BY <1>5, <2>1, <2>2 DEF ChunkDone
<1>6. CASE \E r \in Rows : ReduceRow(r)
  <2>1. stage = "writing" /\ stage' = "writing" /\ result' = result
    BY <1>6 DEF ReduceRow, stage
  <2>2. out' = out
    BY <2>1 DEF out
  <2> QED BY <2>1, <2>2
<1>7. CASE PerMode \/ (ModeDone /\ phase' = "idle")
  <2>1. stage = "writing" /\ stage' = "idle" /\ result' = "ok" /\ phase' = "idle"
    BY <1>7 DEF PerMode, ModeDone, stage
  <2>2. \A n \in Mode : yhat'[n] = ExactOut(n)
    BY <2>1 DEF IInv, Outputs
  <2>3. \A n \in Mode, e \in Slot : Counted(n, e)' = 1
    <3> SUFFICES ASSUME NEW n \in Mode, NEW e \in Slot PROVE Counted(n, e)' = 1
      OBVIOUS
    <3>1. \A k \in Cells(n) : yhat'[n][k][e] = IF k \in RowCells(Row[n][e]) THEN 1 ELSE 0
      BY <2>2, ExactOutAt
    <3>2. yhat'[n][Row[n][e] * VC][e] = 1
      <4>1. Row[n][e] * VC \in Cells(n) /\ Row[n][e] * VC \in RowCells(Row[n][e])
        BY RowFacts
      <4> QED BY <3>1, <4>1
    <3>3. Counted(n, e)' =
            IF \A k \in Cells(n) : yhat'[n][k][e] =
                 IF k \in RowCells(Row[n][e]) THEN yhat'[n][Row[n][e] * VC][e] ELSE 0
            THEN yhat'[n][Row[n][e] * VC][e] ELSE "smeared"
      BY DEF Counted
    <3> QED BY <3>1, <3>2, <3>3
  <2>4. out' = [n \in Promise!Mode |-> Promise!Exact]
    BY <2>1, <2>3 DEF out, Promise!Mode, Promise!Exact, Mode
  <2> QED BY <2>1, <2>4 DEF Promise!Next, Promise!Return
<1>8. CASE ModeDone /\ phase' # "idle"
  <2>1. stage = "writing" /\ stage' = "writing" /\ result' = result
    BY <1>8 DEF ModeDone, stage
  <2>2. out' = out
    BY <2>1 DEF out
  <2> QED BY <2>1, <2>2
<1>9. CASE UNCHANGED vars
  BY <1>9 DEF vars, stage, out, Counted
<1> QED BY <1>1, <1>2, <1>3, <1>4, <1>5, <1>6, <1>7, <1>8, <1>9 DEF Next, Step

(* A one-pass driver only takes the steps MttkrpAll allows: it leaves      *)
(* every Yhat[n] exact, or fails with all of them untouched.               *)
THEOREM AllModesImplements == Spec => StepsAllowed
<1>1. Init => Promise!Init
  BY InitPromised
<1>2. IInv /\ IInv' /\ [Next]_vars => [Promise!Next]_(Promise!vars)
  BY StepPromised
<1> QED BY <1>1, <1>2, AllModesCorrect, PTL DEF Spec, StepsAllowed
=============================================================================
