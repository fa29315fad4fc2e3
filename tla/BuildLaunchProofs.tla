-------------------------- MODULE BuildLaunchProofs --------------------------
(***************************************************************************)
(* What main and build_flycoo guarantee before the first sweep, for every  *)
(* tensor, team and machine.                                               *)
(*                                                                         *)
(* The preprocessor (FlycooBuild): a worker's histogram counts its chunk,  *)
(* so that the running sums over shards and workers are cardinalities of   *)
(* sets of nonzeros, the cursor of worker w for shard s is the number of   *)
(* nonzeros that come before its next one of s in the stable order, and no *)
(* two workers' cursors meet; the tables built from the counts are those   *)
(* in closed form of module Flycoo.                                        *)
(*                                                                         *)
(* The launch (Launch): what holds of the tensor at each step of main, and *)
(* what is left of the user's words once SetEnv has written them to the    *)
(* environment.                                                            *)
(***************************************************************************)
EXTENDS FlycooBuildInv, Launch, FiniteSetTheorems, WellFoundedInduction, TLAPS

-----------------------------------------------------------------------------
(* Induction over the naturals, stated for a set of numbers; the least     *)
(* element of a set, and the loops that add up a table.                    *)

LEMMA LessRel == \A x, y \in Nat : <<y, x>> \in OpToRel(<, Nat) <=> y < x
BY DEF OpToRel

LEMMA LeastElement ==
  ASSUME NEW S \in SUBSET Nat, S # {}
  PROVE  \E x \in S : \A y \in S : x =< y
<1>1. PICK R : IsWellFoundedOn(R, Nat) /\ \A x, y \in Nat : <<y, x>> \in R <=> y < x
  BY NatLessThanWellFounded, LessRel
<1>2. PICK x \in S : \A y \in S : ~ (<<y, x>> \in R)
  BY <1>1, WFMin
<1>3. ASSUME NEW y \in S PROVE ~ (y < x)
  BY <1>1, <1>2
<1>4. \A y \in S : x =< y
  BY <1>3
<1> QED BY <1>4

LEMMA SetInduction ==
  ASSUME NEW S, 0 \in S, \A n \in Nat : n \in S => n + 1 \in S
  PROVE  Nat \subseteq S
<1> SUFFICES ASSUME Nat \ S # {} PROVE FALSE
  OBVIOUS
<1>1. PICK x \in Nat \ S : \A y \in Nat \ S : x =< y
  BY LeastElement
<1>2. x # 0 /\ x - 1 \in Nat /\ x - 1 \in S
  BY <1>1
<1> QED BY <1>1, <1>2

LEMMA MinIs ==
  ASSUME NEW S \in SUBSET Nat, S # {}
  PROVE  Min(S) \in S /\ \A y \in S : Min(S) =< y
BY LeastElement DEF Min

LEMMA MinOfTwo ==
  ASSUME NEW a \in Nat, NEW b \in Nat
  PROVE  Min({a, b}) = IF a =< b THEN a ELSE b
<1>1. {a, b} \in SUBSET Nat /\ {a, b} # {}
  OBVIOUS
<1>2. Min({a, b}) \in {a, b} /\ \A y \in {a, b} : Min({a, b}) =< y
  BY <1>1, MinIs
<1> QED BY <1>2

LEMMA MaxOfTwo ==
  ASSUME NEW a \in Int, NEW b \in Int
  PROVE  Max({a, b}) = IF a >= b THEN a ELSE b
<1>1. \E x \in {a, b} : \A y \in {a, b} : x >= y
  OBVIOUS
<1>2. Max({a, b}) \in {a, b} /\ \A y \in {a, b} : Max({a, b}) >= y
  BY <1>1 DEF Max
<1> QED BY <1>2

\* A running sum is the table whose steps are the summands.
LEMMA SumIs ==
  ASSUME NEW k \in Nat, NEW f, NEW B, B[0] = 0,
         \A i \in 0 .. k : B[i] \in Nat,
         \A i \in 0 .. k - 1 : B[i + 1] = B[i] + f[i]
  PROVE  RunningSum(f, k) = B[k]
<1> DEFINE body(g) == [i \in 0 .. k |-> IF i = 0 THEN 0 ELSE g[i - 1] + f[i - 1]]
           F == [i \in 0 .. k |-> B[i]]
           sum == CHOOSE g : g = body(g)
<1>1. F = body(F)
  <2>1. ASSUME NEW i \in 0 .. k, i # 0 PROVE F[i] = F[i - 1] + f[i - 1]
    <3>1. i - 1 \in 0 .. k - 1 /\ i - 1 \in 0 .. k /\ (i - 1) + 1 = i
      BY <2>1
    <3> QED BY <3>1
  <2>2. F[0] = 0
    OBVIOUS
  <2> QED BY <2>1, <2>2
<1>2. sum = body(sum)
  <2> HIDE DEF F, body
  <2> QED BY <1>1
<1>3. RunningSum(f, k) = sum[k]
  BY DEF RunningSum
<1> HIDE DEF sum, F
<1>4. \A i \in 0 .. k : sum[i] = IF i = 0 THEN 0 ELSE sum[i - 1] + f[i - 1]
  BY <1>2
<1> HIDE DEF body
<1> DEFINE S == {i \in Nat : i =< k => sum[i] = B[i]}
<1>5. 0 \in S
  BY <1>4
<1>6. ASSUME NEW i \in Nat, i \in S PROVE i + 1 \in S
  <2> SUFFICES ASSUME i + 1 =< k PROVE sum[i + 1] = B[i + 1]
    OBVIOUS
  <2>1. i \in 0 .. k - 1 /\ i + 1 \in 0 .. k /\ i + 1 # 0 /\ (i + 1) - 1 = i
    OBVIOUS
  <2>2. sum[i + 1] = sum[i] + f[i]
    BY <1>4, <2>1
  <2>3. sum[i] = B[i]
    BY <1>6, <2>1
  <2> QED BY <2>1, <2>2, <2>3
<1>7. Nat \subseteq S
  <2> HIDE DEF S
  <2> QED BY <1>5, <1>6, SetInduction
<1> QED BY <1>3, <1>7

\* A set that grows from nothing in k steps; f counts what each adds.
Growing(S, f, k) ==
  /\ S[0] = {}
  /\ \A i \in 0 .. k : IsFiniteSet(S[i])
  /\ \A i \in 0 .. k - 1 : S[i] \subseteq S[i + 1] /\ f[i] = Cardinality(S[i + 1] \ S[i])

\* Adding up what each step adds to a growing set counts the set.
LEMMA SumCounts ==
  ASSUME NEW k \in Nat, NEW f, NEW S, Growing(S, f, k)
  PROVE  RunningSum(f, k) = Cardinality(S[k])
<1>0. /\ S[0] = {}
      /\ \A i \in 0 .. k : IsFiniteSet(S[i])
      /\ \A i \in 0 .. k - 1 : S[i] \subseteq S[i + 1] /\ f[i] = Cardinality(S[i + 1] \ S[i])
  BY DEF Growing
<1> DEFINE B == [i \in 0 .. k |-> Cardinality(S[i])]
<1>1. B[0] = 0
  BY <1>0, FS_EmptySet
<1>2. \A i \in 0 .. k : B[i] \in Nat
  BY <1>0, FS_CardinalityType
<1>3. ASSUME NEW i \in 0 .. k - 1 PROVE B[i + 1] = B[i] + f[i]
  <2>1. i \in 0 .. k /\ i + 1 \in 0 .. k
    OBVIOUS
  <2>2. IsFiniteSet(S[i]) /\ IsFiniteSet(S[i + 1]) /\ S[i] \subseteq S[i + 1]
    BY <1>0, <2>1
  <2>3. S[i] \cap (S[i + 1] \ S[i]) = {} /\ S[i] \cup (S[i + 1] \ S[i]) = S[i + 1]
    BY <2>2
  <2>4. IsFiniteSet(S[i + 1] \ S[i])
    BY <2>2, FS_Difference
  <2>5. Cardinality(S[i + 1]) = Cardinality(S[i]) + Cardinality(S[i + 1] \ S[i])
    <3>1. Cardinality(S[i] \cup (S[i + 1] \ S[i]))
            = Cardinality(S[i]) + Cardinality(S[i + 1] \ S[i])
                - Cardinality(S[i] \cap (S[i + 1] \ S[i]))
      BY <2>2, <2>4, FS_Union
    <3>2. Cardinality(S[i]) \in Nat /\ Cardinality(S[i + 1] \ S[i]) \in Nat
      BY <2>2, <2>4, FS_CardinalityType
    <3>3. Cardinality(S[i] \cap (S[i + 1] \ S[i])) = 0
      BY <2>3, FS_EmptySet
    <3>4. Cardinality(S[i] \cup (S[i + 1] \ S[i])) = Cardinality(S[i + 1])
      BY <2>3
    <3> HIDE DEF B
    <3> QED BY <3>1, <3>2, <3>3, <3>4
  <2> QED BY <1>0, <2>1, <2>5
<1> HIDE DEF B
<1>4. RunningSum(f, k) = B[k]
  BY <1>1, <1>2, <1>3, SumIs
<1> QED BY <1>4 DEF B


-----------------------------------------------------------------------------
(* The geometry of the shards.                                             *)

\* The powers of two up to 2^Bits.
LEMMA Pow2Def ==
  /\ Pow2[0] = 1
  /\ \A k \in 0 .. Bits : Pow2[k] \in Nat \ {0}
  /\ \A k \in 0 .. Bits - 1 : Pow2[k + 1] = 2 * Pow2[k]
<1> DEFINE IsTable(f, k) == /\ f \in [0 .. k -> Nat \ {0}]
                            /\ f[0] = 1
                            /\ \A n \in 0 .. k - 1 : f[n + 1] = 2 * f[n]
           S == {k \in Nat : \E f \in [0 .. k -> Nat \ {0}] : IsTable(f, k)}
<1>0. Bits \in Nat
  BY GeometryAssumption
<1>1. 0 \in S
  <2>1. IsTable([i \in 0 .. 0 |-> 1], 0)
    OBVIOUS
  <2> QED BY <2>1
<1>2. ASSUME NEW k \in Nat, k \in S PROVE k + 1 \in S
  <2>1. PICK f \in [0 .. k -> Nat \ {0}] : IsTable(f, k)
    BY <1>2
  <2> DEFINE g == [i \in 0 .. k + 1 |-> IF i = k + 1 THEN 2 * f[k] ELSE f[i]]
  <2>2. 2 * f[k] \in Nat \ {0}
    BY <2>1
  <2>3. g \in [0 .. k + 1 -> Nat \ {0}] /\ g[0] = 1
    BY <2>1, <2>2
  <2>4. ASSUME NEW n \in 0 .. (k + 1) - 1 PROVE g[n + 1] = 2 * g[n]
    <3>1. CASE n = k
      BY <3>1
    <3>2. CASE n # k
      BY <2>1, <3>2
    <3> QED BY <3>1, <3>2
  <2> HIDE DEF g
  <2>5. IsTable(g, k + 1)
    BY <2>3, <2>4
  <2> HIDE DEF IsTable
  <2> QED BY <2>3, <2>5
<1>3. Bits \in S
  <2> HIDE DEF S
  <2> QED BY <1>0, <1>1, <1>2, SetInduction
<1>4. PICK f \in [0 .. Bits -> Nat \ {0}] : IsTable(f, Bits)
  BY <1>3
<1> DEFINE body(g) == [k \in 0 .. Bits |-> IF k = 0 THEN 1 ELSE 2 * g[k - 1]]
<1>5. f = body(f)
  <2>1. ASSUME NEW n \in 0 .. Bits, n # 0 PROVE f[n] = 2 * f[n - 1]
    <3>1. n - 1 \in 0 .. Bits - 1 /\ (n - 1) + 1 = n
      BY <1>0, <2>1
    <3> QED BY <1>4, <3>1
  <2>2. f[0] = 1 /\ 0 \in 0 .. Bits
    BY <1>0, <1>4
  <2> HIDE DEF IsTable
  <2> QED BY <2>1, <2>2, <1>4
<1>6. Pow2 = CHOOSE g : g = body(g)
  BY DEF Pow2
<1>7. Pow2 = body(Pow2)
  BY <1>5, <1>6
<1> HIDE DEF body
<1>8. \A n \in 0 .. Bits : Pow2[n] = IF n = 0 THEN 1 ELSE 2 * Pow2[n - 1]
  BY <1>7 DEF body
<1>9. Pow2[0] = 1
  BY <1>0, <1>8
<1>10. ASSUME NEW k \in 0 .. Bits - 1 PROVE Pow2[k + 1] = 2 * Pow2[k]
  <2>1. k + 1 \in 0 .. Bits /\ k + 1 # 0 /\ (k + 1) - 1 = k
    BY <1>0
  <2> QED BY <1>8, <2>1
<1> DEFINE Q == {k \in Nat : k =< Bits => Pow2[k] \in Nat \ {0}}
<1>11. 0 \in Q /\ \A k \in Nat : k \in Q => k + 1 \in Q
  <2>1. ASSUME NEW k \in Nat, k \in Q, k + 1 =< Bits PROVE Pow2[k + 1] \in Nat \ {0}
    <3>1. k \in 0 .. Bits - 1 /\ k =< Bits
      BY <1>0, <2>1
    <3>2. Pow2[k] \in Nat \ {0}
      BY <2>1, <3>1
    <3> QED BY <1>10, <3>1, <3>2
  <2> QED BY <1>9, <2>1
<1>12. \A k \in 0 .. Bits : Pow2[k] \in Nat \ {0}
  <2> HIDE DEF Q
  <2>1. Nat \subseteq Q
    BY <1>11, SetInduction
  <2> QED BY <1>0, <2>1 DEF Q
<1> QED BY <1>9, <1>10, <1>12

LEMMA Pow2Mono ==
  ASSUME NEW i \in 0 .. Bits, NEW j \in 0 .. Bits, i =< j
  PROVE  Pow2[i] =< Pow2[j]
<1>0. Bits \in Nat /\ i \in Nat /\ j \in Nat
  BY GeometryAssumption
<1> DEFINE S == {d \in Nat : i + d =< Bits => Pow2[i] =< Pow2[i + d]}
<1>1. 0 \in S
  BY Pow2Def, <1>0
<1>2. ASSUME NEW d \in Nat, d \in S PROVE d + 1 \in S
  <2> SUFFICES ASSUME i + (d + 1) =< Bits PROVE Pow2[i] =< Pow2[i + (d + 1)]
    OBVIOUS
  <2> DEFINE c == i + d
  <2>1. c \in 0 .. Bits - 1 /\ c \in 0 .. Bits /\ i + (d + 1) = c + 1 /\ i + d =< Bits
    BY <1>0
  <2>2. Pow2[i] =< Pow2[c]
    BY <1>2, <2>1
  <2> HIDE DEF c
  <2>3. Pow2[c + 1] = 2 * Pow2[c] /\ Pow2[c] \in Nat /\ Pow2[i] \in Nat
    BY <2>1, Pow2Def
  <2> QED BY <2>1, <2>2, <2>3
<1>3. Nat \subseteq S
  <2> HIDE DEF S
  <2> QED BY <1>1, <1>2, SetInduction
<1>4. j - i \in Nat /\ i + (j - i) = j
  BY <1>0
<1> QED BY <1>0, <1>3, <1>4

\* The shift finds the exponent of a power of two.
LEMMA LogOfPow2 ==
  ASSUME NEW k \in 0 .. Bits
  PROVE  Pow2[Log2Pow2(Pow2[k])] = Pow2[k]
<1> DEFINE S == {i \in 0 .. Bits : Pow2[i] >= Pow2[k]}
           l == Min(S)
<1>0. Bits \in Nat /\ k \in Nat
  BY GeometryAssumption
<1>1. Pow2[k] \in Nat
  BY Pow2Def
<1>2. S \in SUBSET Nat /\ k \in S
  BY <1>0, <1>1
<1>3. l \in S /\ l =< k
  <2> HIDE DEF S
  <2> QED BY <1>2, MinIs
<1>4. Pow2[l] =< Pow2[k] /\ Pow2[l] >= Pow2[k] /\ Pow2[l] \in Nat
  <2>1. l \in 0 .. Bits
    BY <1>3
  <2> HIDE DEF l
  <2> QED BY <1>3, <2>1, Pow2Mono, Pow2Def
<1>5. Log2Pow2(Pow2[k]) = l
  BY DEF Log2Pow2
<1> QED BY <1>1, <1>4, <1>5

\* Rounding up at most doubles, and does not pass the largest shard.
LEMMA RoundedUp ==
  ASSUME NEW x \in Nat \ {0}, x =< kMaxRows
  PROVE  \E k \in 0 .. Bits - 1 :
           /\ RoundUpPow2(x) = Pow2[k]
           /\ x =< Pow2[k] /\ Pow2[k] =< kMaxRows /\ Pow2[k] < 2 * x
<1> DEFINE S == {p \in {Pow2[k] : k \in 0 .. Bits - 1} : p >= x}
<1>0. Bits \in Nat \ {0}
  BY GeometryAssumption
<1>1. PICK m \in 0 .. Bits - 1 : kMaxRows = Pow2[m]
  BY GeometryAssumption
<1>2. \A k \in 0 .. Bits - 1 : Pow2[k] \in Nat
  BY <1>0, Pow2Def
<1>3. S \in SUBSET Nat /\ kMaxRows \in S
  BY <1>1, <1>2
<1>4. Min(S) \in S /\ \A p \in S : Min(S) =< p
  <2> HIDE DEF S
  <2> QED BY <1>3, MinIs
<1>5. PICK k \in 0 .. Bits - 1 : Min(S) = Pow2[k]
  BY <1>4
<1>6. x =< Pow2[k] /\ Pow2[k] =< kMaxRows
  BY <1>3, <1>4, <1>5
<1>7. Pow2[k] < 2 * x
  <2>1. CASE k = 0
    BY <2>1, Pow2Def
  <2>2. CASE k # 0
    <3> DEFINE c == k - 1
    <3>1. c \in 0 .. Bits - 1 /\ c + 1 = k
      BY <1>0, <2>2
    <3>2. Pow2[k] = 2 * Pow2[c] /\ Pow2[c] \in Nat \ {0}
      <4> HIDE DEF c
      <4>1. c \in 0 .. Bits
        BY <3>1, <1>0
      <4> QED BY <3>1, <4>1, Pow2Def
    <3>3. ~ (Pow2[c] >= x)
      <4>1. ASSUME Pow2[c] >= x PROVE Pow2[k] =< Pow2[c]
        BY <1>4, <1>5, <3>1, <4>1
      <4> HIDE DEF c
      <4> QED BY <3>2, <4>1
    <3> HIDE DEF c
    <3> QED BY <3>2, <3>3
  <2> QED BY <2>1, <2>2
<1>8. RoundUpPow2(x) = Pow2[k]
  BY <1>5 DEF RoundUpPow2
<1> QED BY <1>6, <1>7, <1>8

\* pick_mn returns a power of two no larger than kMaxRows.
LEMMA PickedMN ==
  ASSUME NEW i \in Nat \ {0}, NEW threads \in Nat \ {0}
  PROVE  /\ \E k \in 0 .. Bits : PickMN(i, threads) = Pow2[k]
         /\ PickMN(i, threads) \in Nat \ {0}
         /\ PickMN(i, threads) =< kMaxRows
         /\ i >= 4 * kMinRows * threads => PickMN(i, threads) < 2 * (i \div (4 * threads))
<1> DEFINE q       == i \div (4 * threads)
           wanted  == Max({1, q})
           clamped == Min({Max({wanted, kMinRows}), kMaxRows})
           x       == Min({clamped, i})
<1>0. /\ Bits \in Nat \ {0} /\ kMinRows \in Nat \ {0} /\ kMaxRows \in Nat \ {0}
      /\ kMinRows =< kMaxRows
  <2>1. PICK m \in 0 .. Bits - 1 : kMaxRows = Pow2[m]
    BY GeometryAssumption
  <2>2. Bits \in Nat \ {0} /\ m \in 0 .. Bits
    BY GeometryAssumption
  <2> QED BY <2>1, <2>2, Pow2Def, GeometryAssumption
<1>1. q \in Nat
  OBVIOUS
<1>2. i >= 4 * kMinRows * threads => q >= kMinRows
  <2> DEFINE d == 4 * threads
  <2>1. d \in Nat \ {0} /\ q = i \div d /\ 4 * kMinRows * threads = kMinRows * d
    BY <1>0
  <2> HIDE DEF d, q
  <2>2. i < d * q + d
    BY <2>1
  <2>3. q < kMinRows => d * q + d =< kMinRows * d
    <3>1. ASSUME q < kMinRows PROVE d * (q + 1) =< d * kMinRows
      BY <1>0, <1>1, <2>1, <3>1
    <3>2. d * (q + 1) = d * q + d /\ d * kMinRows = kMinRows * d
      BY <1>0, <1>1, <2>1
    <3> QED BY <3>1, <3>2
  <2>4. kMinRows * d \in Nat /\ d * q \in Nat
    BY <1>0, <1>1, <2>1
  <2> QED BY <1>0, <1>1, <2>1, <2>2, <2>3, <2>4
<1> HIDE DEF q
<1>3. wanted \in Nat \ {0} /\ (q # 0 => wanted = q)
  BY <1>1, MaxOfTwo
<1> HIDE DEF wanted
<1>4. Max({wanted, kMinRows}) = IF wanted >= kMinRows THEN wanted ELSE kMinRows
  BY <1>0, <1>3, MaxOfTwo
<1>5. clamped \in Nat \ {0} /\ clamped =< kMaxRows /\ (wanted >= kMinRows => clamped =< wanted)
  BY <1>0, <1>3, <1>4, MinOfTwo
<1> HIDE DEF clamped
<1>6. x \in Nat \ {0} /\ x =< kMaxRows /\ x =< clamped
  BY <1>0, <1>5, MinOfTwo
<1> HIDE DEF x
<1>7. PICK k \in 0 .. Bits - 1 : /\ RoundUpPow2(x) = Pow2[k]
                                 /\ Pow2[k] =< kMaxRows /\ Pow2[k] < 2 * x
  BY <1>6, RoundedUp
<1>8. PickMN(i, threads) = IF i =< threads THEN 1 ELSE RoundUpPow2(x)
  BY DEF PickMN, x, clamped, wanted, q
<1>9. k \in 0 .. Bits /\ 0 \in 0 .. Bits /\ Pow2[0] = 1 /\ Pow2[k] \in Nat \ {0}
  BY <1>0, Pow2Def
<1>10. i >= 4 * kMinRows * threads => i > threads
  <2>1. kMinRows * threads >= threads /\ kMinRows * threads \in Nat
    BY <1>0
  <2>2. 4 * kMinRows * threads = 4 * (kMinRows * threads)
    BY <1>0
  <2> QED BY <2>1, <2>2
<1>11. i >= 4 * kMinRows * threads => RoundUpPow2(x) < 2 * q
  BY <1>0, <1>1, <1>2, <1>3, <1>5, <1>6, <1>7, <1>9
<1> QED BY <1>0, <1>7, <1>8, <1>9, <1>10, <1>11 DEF q

LEMMA Times == \A a, b, m \in Nat : a =< b => a * m \in Nat /\ b * m \in Nat /\ a * m =< b * m
OBVIOUS

LEMMA Quotient ==
  ASSUME NEW m \in Nat \ {0}, NEW r \in Nat
  PROVE  /\ r \div m \in Nat
         /\ (r \div m) * m =< r /\ r < ((r \div m) + 1) * m
<1> DEFINE q == r \div m
<1>1. q \in Nat /\ m * q =< r /\ r < m * q + m
  OBVIOUS
<1> HIDE DEF q
<1>2. q * m = m * q /\ (q + 1) * m = m * q + m
  BY <1>1
<1> QED BY <1>1, <1>2 DEF q

\* The shards of a mode cover its rows, and none is past the last row.
LEMMA Geometry ==
  ASSUME NEW i \in Nat \ {0}, NEW threads \in Nat \ {0}, i + kMaxRows =< Pow2[Bits],
         NEW m, m = PickMN(i, threads), NEW K, K = ShardsPerMode(i, m)
  PROVE  /\ m \in Nat \ {0} /\ K \in Nat \ {0}
         /\ K = (i + m - 1) \div m
         /\ \A r \in Nat : ShardOfRow(r, m) = r \div m
         /\ \A r \in 0 .. i - 1 : r \div m \in 0 .. K - 1
         /\ (K - 1) * m < i
         /\ i >= 4 * kMinRows * threads => K >= 2 * threads
<1>1. /\ m \in Nat \ {0} /\ m =< kMaxRows
      /\ \E k \in 0 .. Bits : m = Pow2[k]
      /\ i >= 4 * kMinRows * threads => m < 2 * (i \div (4 * threads))
  BY PickedMN
<1>2. Pow2[Bits] \in Nat \ {0} /\ kMaxRows \in Nat
  <2>1. Bits \in 0 .. Bits
    BY GeometryAssumption
  <2>2. PICK k \in 0 .. Bits - 1 : kMaxRows = Pow2[k]
    BY GeometryAssumption
  <2>3. k \in 0 .. Bits
    BY GeometryAssumption
  <2> QED BY <2>1, <2>2, <2>3, Pow2Def
<1> DEFINE c == i + m - 1
           q == c \div m
<1>3. c \in Nat /\ Wrap(c) = c
  <2>1. c \in Nat /\ c < Pow2[Bits]
    BY <1>1, <1>2
  <2> HIDE DEF c
  <2>2. c % Pow2[Bits] = c
    BY <1>2, <2>1
  <2> QED BY <2>1, <2>2 DEF Wrap
<1>4. q \in Nat /\ q * m =< c /\ c < (q + 1) * m
  <2> HIDE DEF c
  <2> QED BY <1>1, <1>3, Quotient
<1>5. K = Max({1, q})
  BY <1>3 DEF ShardsPerMode
<1>6. q # 0
  BY <1>1, <1>4
<1>7. K = q
  <2> HIDE DEF q
  <2> QED BY <1>4, <1>5, <1>6, MaxOfTwo
<1> HIDE DEF q
<1>8. \A r \in Nat : ShardOfRow(r, m) = r \div m
  BY <1>1, LogOfPow2 DEF ShardOfRow
<1>9. (q + 1) * m = q * m + m /\ (q - 1) * m = q * m - m /\ q * m \in Nat
  BY <1>1, <1>4
<1>10. ASSUME NEW r \in 0 .. i - 1 PROVE r \div m \in 0 .. K - 1
  <2> DEFINE s == r \div m
  <2>0. r \in Nat
    OBVIOUS
  <2>1. s \in Nat /\ s * m =< r
    BY <1>1, <2>0, Quotient
  <2> HIDE DEF s
  <2>2. ASSUME s >= q PROVE FALSE
    <3>1. q * m =< s * m /\ s * m \in Nat
      BY <1>1, <1>4, <2>1, <2>2, Times
    <3> QED BY <1>1, <1>4, <1>9, <2>1, <3>1
  <2> QED BY <1>4, <1>7, <2>1, <2>2 DEF s
<1>11. (K - 1) * m < i
  BY <1>1, <1>4, <1>7, <1>9
<1>12. ASSUME i >= 4 * kMinRows * threads PROVE K >= 2 * threads
  <2> DEFINE d == 4 * threads
             z == i \div d
             t2 == 2 * threads
  <2>1. d \in Nat \ {0} /\ z \in Nat /\ z * d =< i
    <3>1. d \in Nat \ {0}
      OBVIOUS
    <3> HIDE DEF d
    <3> QED BY <3>1, Quotient
  <2>2. m < 2 * z
    BY <1>1, <1>12
  <2> HIDE DEF z
  <2>3. z * d = (2 * z) * t2 /\ t2 \in Nat \ {0}
    BY <2>1
  <2> HIDE DEF d, t2
  <2>4. (m + 1) * t2 =< (2 * z) * t2
    <3>1. m + 1 =< 2 * z /\ m + 1 \in Nat /\ 2 * z \in Nat
      BY <1>1, <2>1, <2>2
    <3> QED BY <2>3, <3>1, Times
  <2>5. (m + 1) * t2 = t2 * m + t2 /\ t2 * m \in Nat /\ (2 * z) * t2 \in Nat
    BY <1>1, <2>1, <2>3
  <2>6. i =< q * m
    BY <1>1, <1>4, <1>9
  <2>7. ASSUME q < t2 PROVE FALSE
    <3>1. q * m =< t2 * m
      BY <1>1, <1>4, <2>3, <2>7, Times
    <3> QED BY <1>9, <2>1, <2>3, <2>4, <2>5, <2>6, <3>1
  <2> QED BY <1>4, <1>7, <2>3, <2>7 DEF t2
<1> QED BY <1>1, <1>3, <1>4, <1>6, <1>7, <1>8, <1>10, <1>11, <1>12 DEF q

-----------------------------------------------------------------------------
(* The job and the shards of its nonzeros. *)

LEMMA JobFacts ==
  ASSUME ShapeInv, NoWrap
  PROVE  /\ P \in Nat \ {0} /\ N \in Nat \ {0} /\ OMPT \in Nat \ {0}
         /\ nnz \in Nat /\ Elem = 1 .. nnz
         /\ \A n \in Mode : size[n] \in Nat \ {0} /\ size[n] + kMaxRows =< Pow2[Bits]
         /\ \A n \in Mode, e \in Elem : row[n][e] \in 0 .. size[n] - 1
<1>1. PICK j \in Jobs : P = j.threads /\ size = j.size /\ row = j.row
  BY DEF ShapeInv
<1>2. N \in Nat \ {0} /\ OMPT \in Nat \ {0} /\ 0 \in Mode
  BY TeamAssumption DEF Mode
<1>3. /\ j.threads \in Nat \ {0}
      /\ j.size \in [Mode -> 1 .. Pow2[Bits] - 1]
      /\ j.row \in [Mode -> Seq(Nat)]
      /\ \A n \in Mode : /\ Len(j.row[n]) = Len(j.row[0])
                         /\ \A e \in DOMAIN j.row[n] : j.row[n][e] < j.size[n]
  BY JobAssumption
<1>4. \A n \in Mode : j.size[n] + kMaxRows =< Pow2[Bits]
  BY DEF NoWrap
<1>5. row \in [Mode -> Seq(Nat)] /\ \A n \in Mode : Len(row[n]) = Len(row[0])
  BY <1>1, <1>3
<1>6. nnz \in Nat /\ Elem = 1 .. nnz
  BY <1>2, <1>5 DEF nnz, Elem
<1>7. Pow2[Bits] \in Nat
  BY Pow2Def, GeometryAssumption
<1>8. ASSUME NEW n \in Mode PROVE size[n] \in Nat \ {0} /\ size[n] + kMaxRows =< Pow2[Bits]
  BY <1>1, <1>3, <1>4, <1>7
<1>9. ASSUME NEW n \in Mode, NEW e \in Elem PROVE row[n][e] \in 0 .. size[n] - 1
  <2>1. e \in DOMAIN row[n] /\ row[n] \in Seq(Nat)
    BY <1>5, <1>6 DEF nnz
  <2>2. row[n][e] \in Nat
    BY <2>1
  <2>3. row[n][e] < size[n]
    BY <1>1, <1>3, <2>1
  <2> QED BY <1>8, <2>2, <2>3
<1> QED BY <1>1, <1>2, <1>3, <1>6, <1>8, <1>9

LEMMA ShardFacts ==
  ASSUME ShapeInv, NoWrap, pc # "shape", NEW n \in Mode
  PROVE  /\ mn[n] \in Nat \ {0}
         /\ ShardsPerMode(size[n], mn[n]) \in Nat \ {0}
         /\ ShardsPerMode(size[n], mn[n]) = (size[n] + mn[n] - 1) \div mn[n]
         /\ Shards(n) = 0 .. ShardsPerMode(size[n], mn[n]) - 1
         /\ Shards(n) \subseteq Nat
         /\ \A e \in Elem : /\ Shard(n, e) = row[n][e] \div mn[n]
                            /\ Shard(n, e) \in Shards(n)
         /\ \A r \in 0 .. size[n] - 1 : ShardOfRow(r, mn[n]) \in Shards(n)
         /\ (ShardsPerMode(size[n], mn[n]) - 1) * mn[n] < size[n]
         /\ size[n] >= 4 * kMinRows * P => ShardsPerMode(size[n], mn[n]) >= 2 * P
<1> DEFINE m == mn[n]
           i == size[n]
           K == ShardsPerMode(i, m)
<1>1. m = PickMN(i, P)
  BY DEF ShapeInv
<1>2. i \in Nat \ {0} /\ i + kMaxRows =< Pow2[Bits] /\ P \in Nat \ {0}
  BY JobFacts
<1>3. \A e \in Elem : row[n][e] \in 0 .. i - 1
  BY JobFacts
<1>4. Shards(n) = 0 .. K - 1
  BY DEF Shards
<1>5. \A e \in Elem : Shard(n, e) = ShardOfRow(row[n][e], m)
  BY DEF Shard
<1> HIDE DEF m, i, K
<1>6. /\ m \in Nat \ {0} /\ K \in Nat \ {0}
      /\ K = (i + m - 1) \div m
      /\ \A r \in Nat : ShardOfRow(r, m) = r \div m
      /\ \A r \in 0 .. i - 1 : r \div m \in 0 .. K - 1
      /\ (K - 1) * m < i
      /\ i >= 4 * kMinRows * P => K >= 2 * P
  BY <1>1, <1>2, Geometry DEF K
<1>7. ASSUME NEW r \in 0 .. i - 1 PROVE ShardOfRow(r, m) \in Shards(n)
  <2>1. r \in Nat
    BY <1>2
  <2>2. ShardOfRow(r, m) = r \div m
    BY <1>6, <2>1
  <2>3. r \div m \in 0 .. K - 1
    BY <1>6
  <2> QED BY <1>4, <2>2, <2>3
<1>8. \A e \in Elem : Shard(n, e) = row[n][e] \div m /\ Shard(n, e) \in Shards(n)
  <2> SUFFICES ASSUME NEW e \in Elem
               PROVE  Shard(n, e) = row[n][e] \div m /\ Shard(n, e) \in Shards(n)
    OBVIOUS
  <2>1. row[n][e] \in 0 .. i - 1 /\ row[n][e] \in Nat
    BY <1>2, <1>3
  <2> QED BY <1>5, <1>6, <1>7, <2>1
<1> QED BY <1>4, <1>6, <1>7, <1>8 DEF m, i, K

-----------------------------------------------------------------------------
(* The workers' chunks tile the slots. *)

LEMMA ChunkFacts ==
  ASSUME ShapeInv, NoWrap
  PROVE  /\ ChunkBegin(0) = 0 /\ ChunkBegin(OMPT) = nnz
         /\ \A w \in 0 .. OMPT : ChunkBegin(w) \in 0 .. nnz
         /\ \A w \in Worker : ChunkEnd(w) = ChunkBegin(w + 1) /\ ChunkBegin(w) =< ChunkEnd(w)
<1> DEFINE p == PerWorker
<1>1. nnz \in Nat /\ OMPT \in Nat \ {0}
  BY JobFacts
<1>2. p \in Nat /\ nnz =< p * OMPT
  <2> DEFINE c == nnz + OMPT - 1
             q == c \div OMPT
  <2>1. c \in Nat
    BY <1>1
  <2>2. q \in Nat /\ c < (q + 1) * OMPT
    <3> HIDE DEF c
    <3> QED BY <1>1, <2>1, Quotient
  <2>3. p = q
    BY DEF PerWorker
  <2> HIDE DEF q, p
  <2>4. (q + 1) * OMPT = q * OMPT + OMPT /\ q * OMPT \in Nat
    BY <1>1, <2>2
  <2> QED BY <1>1, <2>2, <2>3, <2>4
<1>3. \A w \in Nat : ChunkBegin(w) = IF w * p =< nnz THEN w * p ELSE nnz
  <2> SUFFICES ASSUME NEW w \in Nat PROVE ChunkBegin(w) = IF w * p =< nnz THEN w * p ELSE nnz
    OBVIOUS
  <2>1. ChunkBegin(w) = Min({w * p, nnz})
    BY DEF ChunkBegin
  <2> HIDE DEF p
  <2>2. w * p \in Nat
    BY <1>2
  <2> QED BY <1>1, <2>1, <2>2, MinOfTwo
<1>4. \A w \in Worker : ChunkEnd(w) = Min({ChunkBegin(w) + p, nnz})
  BY DEF ChunkEnd
<1> HIDE DEF p
<1>5. ChunkBegin(0) = 0
  BY <1>1, <1>2, <1>3
<1>6. ChunkBegin(OMPT) = nnz
  <2>1. OMPT * p = p * OMPT /\ OMPT * p \in Nat /\ OMPT \in Nat
    BY <1>1, <1>2
  <2>2. ChunkBegin(OMPT) = IF OMPT * p =< nnz THEN OMPT * p ELSE nnz
    BY <1>3, <2>1
  <2> QED BY <1>1, <1>2, <2>1, <2>2
<1>7. ASSUME NEW w \in Nat PROVE ChunkBegin(w) \in 0 .. nnz
  <2>1. w * p \in Nat
    BY <1>2
  <2> QED BY <1>1, <1>3, <2>1
<1>8. ASSUME NEW w \in Worker
      PROVE  ChunkEnd(w) = ChunkBegin(w + 1) /\ ChunkBegin(w) =< ChunkEnd(w)
  <2>1. w \in Nat /\ w + 1 \in Nat
    BY <1>1 DEF Worker
  <2>2. (w + 1) * p = w * p + p /\ w * p \in Nat
    BY <1>2, <2>1
  <2>3. ChunkBegin(w) \in Nat /\ ChunkBegin(w) =< nnz
    BY <1>1, <1>7, <2>1
  <2>4. ChunkEnd(w) = IF ChunkBegin(w) + p =< nnz THEN ChunkBegin(w) + p ELSE nnz
    <3>1. ChunkBegin(w) + p \in Nat
      BY <1>2, <2>3
    <3>2. ChunkEnd(w) = Min({ChunkBegin(w) + p, nnz})
      BY <1>4
    <3> QED BY <1>1, <3>1, <3>2, MinOfTwo
  <2>5. ChunkBegin(w) = IF w * p =< nnz THEN w * p ELSE nnz
    BY <1>3, <2>1
  <2>6. ChunkBegin(w + 1) = IF w * p + p =< nnz THEN w * p + p ELSE nnz
    BY <1>3, <2>1, <2>2
  <2> QED BY <1>1, <1>2, <2>2, <2>3, <2>4, <2>5, <2>6
<1> QED BY <1>1, <1>5, <1>6, <1>7, <1>8

LEMMA ChunkOrder ==
  ASSUME ShapeInv, NoWrap, NEW v \in 0 .. OMPT, NEW w \in 0 .. OMPT, v =< w
  PROVE  ChunkBegin(v) =< ChunkBegin(w)
<1>1. OMPT \in Nat /\ nnz \in Nat /\ v \in Nat /\ w \in Nat
  BY JobFacts
<1> DEFINE S == {d \in Nat : v + d =< OMPT => ChunkBegin(v) =< ChunkBegin(v + d)}
<1>2. 0 \in S
  BY <1>1, ChunkFacts
<1>3. ASSUME NEW d \in Nat, d \in S PROVE d + 1 \in S
  <2> SUFFICES ASSUME v + (d + 1) =< OMPT PROVE ChunkBegin(v) =< ChunkBegin(v + (d + 1))
    OBVIOUS
  <2>1. PICK c : c = v + d
    OBVIOUS
  <2>2. c \in Worker /\ c + 1 = v + (d + 1) /\ c \in 0 .. OMPT /\ c + 1 \in 0 .. OMPT
    BY <1>1, <2>1 DEF Worker
  <2>3. ChunkBegin(c) =< ChunkBegin(c + 1)
    BY <2>2, ChunkFacts
  <2>4. ChunkBegin(v) =< ChunkBegin(c)
    BY <1>1, <1>3, <2>1
  <2>5. ChunkBegin(v) \in Int /\ ChunkBegin(c) \in Int /\ ChunkBegin(c + 1) \in Int
    BY <1>1, <2>2, ChunkFacts
  <2> QED BY <2>2, <2>3, <2>4, <2>5
<1>4. Nat \subseteq S
  <2> HIDE DEF S
  <2> QED BY <1>2, <1>3, SetInduction
<1>5. w - v \in Nat /\ v + (w - v) = w
  BY <1>1
<1>6. w - v \in S
  BY <1>4, <1>5
<1> QED BY <1>1, <1>5, <1>6

\* Every slot is in one worker's chunk.
LEMMA ChunksTile ==
  ASSUME ShapeInv, NoWrap
  PROVE  /\ \A w \in Worker : Chunk(w) \subseteq Slot
         /\ \A i \in Slot : \E w \in Worker : i \in Chunk(w)
         /\ \A v, w \in Worker : v # w => Chunk(v) \cap Chunk(w) = {}
<1>1. OMPT \in Nat \ {0} /\ nnz \in Nat
  BY JobFacts
<1>2. \A w \in Worker : w \in 0 .. OMPT /\ w + 1 \in 0 .. OMPT /\ w \in Nat
  BY <1>1 DEF Worker
<1>3. \A w \in Worker : Chunk(w) = ChunkBegin(w) .. ChunkBegin(w + 1) - 1
  BY ChunkFacts DEF Chunk
<1>4. \A w \in Worker : ChunkBegin(w) \in 0 .. nnz /\ ChunkBegin(w + 1) \in 0 .. nnz
  BY <1>2, ChunkFacts
<1>5. ASSUME NEW w \in Worker PROVE Chunk(w) \subseteq Slot
  BY <1>1, <1>3, <1>4 DEF Slot
<1>6. ASSUME NEW i \in Slot PROVE \E w \in Worker : i \in Chunk(w)
  <2> DEFINE S == {k \in Nat : k =< OMPT /\ i < ChunkBegin(k)}
  <2>0. i \in Nat /\ i < nnz
    BY <1>1 DEF Slot
  <2>1. OMPT \in S
    BY <1>1, <2>0, ChunkFacts
  <2>2. PICK k \in S : \A y \in S : k =< y
    <3> HIDE DEF S
    <3>1. S \in SUBSET Nat
      BY DEF S
    <3> QED BY <2>1, <3>1, LeastElement
  <2>3. k # 0
    BY <2>0, ChunkFacts
  <2>4. PICK w : w = k - 1
    OBVIOUS
  <2>5. w \in Nat /\ w + 1 = k /\ w \in Worker /\ w =< OMPT
    BY <1>1, <2>2, <2>3, <2>4 DEF Worker
  <2>6. w \notin S
    BY <2>2, <2>5
  <2>7. ChunkBegin(w) \in Int /\ ChunkBegin(k) \in Int
    BY <1>1, <1>4, <2>5
  <2>8. ChunkBegin(w) =< i
    BY <2>0, <2>5, <2>6, <2>7
  <2>9. i \in ChunkBegin(w) .. ChunkBegin(w + 1) - 1
    BY <2>0, <2>2, <2>5, <2>7, <2>8
  <2> QED BY <1>3, <2>5, <2>9
<1>7. ASSUME NEW v \in Worker, NEW w \in Worker, v < w PROVE Chunk(v) \cap Chunk(w) = {}
  <2>1. ChunkBegin(v + 1) =< ChunkBegin(w)
    BY <1>2, <1>7, ChunkOrder
  <2>2. ASSUME NEW i \in Chunk(v), i \in Chunk(w) PROVE FALSE
    BY <1>1, <1>3, <1>4, <2>1, <2>2
  <2> QED BY <2>2
<1>8. ASSUME NEW v \in Worker, NEW w \in Worker, v # w PROVE Chunk(v) \cap Chunk(w) = {}
  <2>1. v < w \/ w < v
    BY <1>2, <1>8
  <2> QED BY <1>7, <2>1
<1> QED BY <1>5, <1>6, <1>8

-----------------------------------------------------------------------------
(* Sums over workers and over shards count sets of slots. *)

LEMMA SlotSets ==
  ASSUME ShapeInv, NoWrap
  PROVE  /\ \A D \in SUBSET Slot : IsFiniteSet(D) /\ Cardinality(D) \in Nat
         /\ \A D \in SUBSET Elem : IsFiniteSet(D) /\ Cardinality(D) \in Nat
         /\ Cardinality(Slot) = nnz /\ Cardinality(Elem) = nnz
<1>1. nnz \in Nat /\ Elem = 1 .. nnz
  BY JobFacts
<1>2. IsFiniteSet(Slot) /\ Cardinality(Slot) = nnz
  <2>1. 0 \in Int /\ nnz - 1 \in Int
    BY <1>1
  <2>2. Slot = 0 .. nnz - 1
    BY DEF Slot
  <2>3. IsFiniteSet(0 .. nnz - 1)
    BY <2>1, FS_Interval
  <2>4. Cardinality(0 .. nnz - 1) = IF 0 > nnz - 1 THEN 0 ELSE (nnz - 1) - 0 + 1
    BY <2>1, FS_Interval
  <2> QED BY <1>1, <2>2, <2>3, <2>4
<1>3. IsFiniteSet(Elem) /\ Cardinality(Elem) = nnz
  BY <1>1, FS_Interval
<1> QED BY <1>2, <1>3, FS_Subset, FS_CardinalityType

\* What the workers before k have counted of a set of slots.
LEMMA ChunkSum ==
  ASSUME ShapeInv, NoWrap, NEW D \in SUBSET Slot, NEW k \in 0 .. OMPT,
         NEW f, \A w \in Worker : f[w] = Cardinality(Chunk(w) \cap D)
  PROVE  RunningSum(f, k) = Cardinality({i \in D : i < ChunkBegin(k)})
<1>1. OMPT \in Nat \ {0} /\ nnz \in Nat /\ k \in Nat
  BY JobFacts
<1> DEFINE S == [w \in 0 .. OMPT |-> {i \in D : i < ChunkBegin(w)}]
<1>2. \A w \in 0 .. OMPT : ChunkBegin(w) \in 0 .. nnz
  BY ChunkFacts
<1>3. \A i \in D : i \in Nat
  BY <1>1 DEF Slot
<1>4. S[0] = {}
  BY <1>1, <1>3, ChunkFacts
<1>5. ASSUME NEW w \in 0 .. k PROVE IsFiniteSet(S[w])
  <2>1. S[w] \in SUBSET Slot
    BY <1>1
  <2> HIDE DEF S
  <2> QED BY <2>1, SlotSets
<1>6. ASSUME NEW w \in 0 .. k - 1
      PROVE  S[w] \subseteq S[w + 1] /\ f[w] = Cardinality(S[w + 1] \ S[w])
  <2>1. w \in Worker /\ w \in 0 .. OMPT /\ w + 1 \in 0 .. OMPT
    BY <1>1 DEF Worker
  <2>2. ChunkBegin(w) =< ChunkBegin(w + 1) /\ Chunk(w) = ChunkBegin(w) .. ChunkBegin(w + 1) - 1
    BY <2>1, ChunkFacts DEF Chunk
  <2>3. ChunkBegin(w) \in Nat /\ ChunkBegin(w + 1) \in Nat
    BY <1>1, <1>2, <2>1
  <2>4. S[w] \subseteq S[w + 1]
    BY <1>3, <2>1, <2>2, <2>3
  <2>5. S[w + 1] \ S[w] = Chunk(w) \cap D
    BY <1>3, <2>1, <2>2, <2>3
  <2> QED BY <2>1, <2>4, <2>5
<1>7. RunningSum(f, k) = Cardinality(S[k])
  <2> HIDE DEF S
  <2>1. Growing(S, f, k)
    BY <1>4, <1>5, <1>6 DEF Growing
  <2> QED BY <1>1, <2>1, SumCounts
<1> QED BY <1>7

\* f counts the elements of D by their key, up to k; those of a key under k.
Tallied(f, D, key, k) ==
  /\ IsFiniteSet(D)
  /\ \A x \in D : key[x] \in Nat
  /\ \A s \in 0 .. k - 1 : f[s] = Cardinality({x \in D : key[x] = s})

Under(D, key, k) == {x \in D : key[x] < k}

LEMMA KeySum ==
  ASSUME NEW D, NEW key, NEW k \in Nat, NEW f, Tallied(f, D, key, k)
  PROVE  RunningSum(f, k) = Cardinality(Under(D, key, k))
<1> DEFINE S == [s \in 0 .. k |-> {x \in D : key[x] < s}]
<1>0. /\ IsFiniteSet(D)
      /\ \A x \in D : key[x] \in Nat
      /\ \A s \in 0 .. k - 1 : f[s] = Cardinality({x \in D : key[x] = s})
  BY DEF Tallied
<1>1. S[0] = {}
  BY <1>0
<1>2. ASSUME NEW s \in 0 .. k PROVE IsFiniteSet(S[s])
  <2>1. S[s] \in SUBSET D
    OBVIOUS
  <2> HIDE DEF S
  <2> QED BY <1>0, <2>1, FS_Subset
<1>3. ASSUME NEW s \in 0 .. k - 1
      PROVE  S[s] \subseteq S[s + 1] /\ f[s] = Cardinality(S[s + 1] \ S[s])
  <2>1. s \in 0 .. k /\ s + 1 \in 0 .. k /\ s \in Nat
    OBVIOUS
  <2>2. S[s] \subseteq S[s + 1]
    BY <1>0, <2>1
  <2>3. S[s + 1] \ S[s] = {x \in D : key[x] = s}
    BY <1>0, <2>1
  <2>4. f[s] = Cardinality({x \in D : key[x] = s})
    BY <1>0
  <2> QED BY <2>2, <2>3, <2>4
<1>4. RunningSum(f, k) = Cardinality(S[k])
  <2> HIDE DEF S
  <2>1. Growing(S, f, k)
    BY <1>1, <1>2, <1>3 DEF Growing
  <2> QED BY <2>1, SumCounts
<1>5. S[k] = Under(D, key, k)
  BY DEF Under
<1> QED BY <1>4, <1>5

\* A one-to-one table counts the same in its domain and in its range.
LEMMA Recounted ==
  ASSUME NEW X, NEW Y, NEW g \in Bijection(X, Y), NEW A \in SUBSET Y, IsFiniteSet(A)
  PROVE  Cardinality({x \in X : g[x] \in A}) = Cardinality(A)
<1> DEFINE B == {x \in X : g[x] \in A}
           h == [x \in B |-> g[x]]
<1>1. \A x, y \in X : g[x] = g[y] => x = y
  BY DEF Bijection, Injection, IsInjective
<1>2. \A y \in Y : \E x \in X : g[x] = y
  BY DEF Bijection, Surjection
<1>3. h \in [B -> A] /\ \A a \in A : \E x \in B : h[x] = a
  BY <1>2
<1>4. h \in Injection(B, A)
  <2>1. \A x, y \in B : h[x] = h[y] => x = y
    BY <1>1
  <2> QED BY <1>3, <2>1 DEF Injection, IsInjective
<1>5. h \in Surjection(B, A)
  BY <1>3 DEF Surjection
<1> HIDE DEF h, B
<1>6. Cardinality(B) = Cardinality(A)
  BY <1>4, <1>5, FS_Injection
<1> QED BY <1>6 DEF B

-----------------------------------------------------------------------------
(* The stable order by mode-0 shard. *)

LEMMA SlotFacts ==
  ASSUME ShapeInv, NoWrap, pc # "shape"
  PROVE  /\ nnz \in Nat /\ 0 \in Mode
         /\ \A i \in Slot : i \in Nat /\ i < nnz /\ i + 1 \in Elem
         /\ \A e \in Elem : e \in Nat /\ e # Junk /\ e - 1 \in Slot
         /\ \A i \in Slot, n \in Mode : Shard(n, i + 1) \in Shards(n) /\ Shard(n, i + 1) \in Nat
<1>1. nnz \in Nat /\ Elem = 1 .. nnz /\ N \in Nat \ {0}
  BY JobFacts
<1>2. 0 \in Mode
  BY <1>1 DEF Mode
<1>3. \A i \in Slot : i \in Nat /\ i < nnz /\ i + 1 \in Elem
  BY <1>1 DEF Slot
<1>4. \A e \in Elem : e \in Nat /\ e # Junk /\ e - 1 \in Slot
  BY <1>1 DEF Slot, Junk
<1>5. ASSUME NEW i \in Slot, NEW n \in Mode
      PROVE  Shard(n, i + 1) \in Shards(n) /\ Shard(n, i + 1) \in Nat
  <2>1. PICK e \in Elem : e = i + 1
    BY <1>3
  <2>2. Shard(n, e) \in Shards(n) /\ Shards(n) \subseteq Nat
    BY ShardFacts
  <2> QED BY <2>1, <2>2
<1> QED BY <1>1, <1>2, <1>3, <1>4, <1>5

LEMMA LowerSets ==
  ASSUME ShapeInv, NoWrap, NEW s, NEW p
  PROVE  Lower(s, p) \in SUBSET Slot /\ IsFiniteSet(Lower(s, p)) /\ Cardinality(Lower(s, p)) \in Nat
<1>1. Lower(s, p) \in SUBSET Slot
  BY DEF Lower
<1> QED BY <1>1, SlotSets

LEMMA SmallerSet ==
  ASSUME ShapeInv, NoWrap, NEW A \in SUBSET Slot, NEW B \in SUBSET A, NEW x \in A, x \notin B
  PROVE  Cardinality(B) < Cardinality(A)
<1>1. IsFiniteSet(A) /\ Cardinality(A) \in Nat /\ IsFiniteSet(B) /\ Cardinality(B) \in Nat
  BY SlotSets
<1>2. Cardinality(B) =< Cardinality(A) /\ (Cardinality(A) = Cardinality(B) => A = B)
  BY <1>1, FS_Subset
<1> QED BY <1>1, <1>2

\* Nonzeros of lower shards go first, those of a shard in input order.
LEMMA TargetOrder ==
  ASSUME ShapeInv, NoWrap, pc # "shape", NEW i \in Slot, NEW j \in Slot,
         \/ Shard(0, i + 1) < Shard(0, j + 1)
         \/ Shard(0, i + 1) = Shard(0, j + 1) /\ i < j
  PROVE  Target(i) < Target(j)
<1> DEFINE a == Shard(0, i + 1)
           b == Shard(0, j + 1)
<1>1. a \in Nat /\ b \in Nat /\ \A c \in Slot : Shard(0, c + 1) \in Nat /\ c \in Nat
  BY SlotFacts
<1>2. Lower(a, i) \subseteq Lower(b, j)
  <2>1. ASSUME NEW c \in Lower(a, i) PROVE c \in Lower(b, j)
    <3>1. c \in Slot /\ (Shard(0, c + 1) < a \/ (Shard(0, c + 1) = a /\ c < i))
      BY DEF Lower
    <3>2. Shard(0, c + 1) \in Nat /\ c \in Nat /\ i \in Nat /\ j \in Nat
      BY <1>1, <3>1
    <3>3. Shard(0, c + 1) < b \/ (Shard(0, c + 1) = b /\ c < j)
      BY <1>1, <3>1, <3>2
    <3> QED BY <3>1, <3>3 DEF Lower
  <2> QED BY <2>1
<1>3. i \in Lower(b, j)
  BY DEF Lower
<1>4. i \notin Lower(a, i)
  BY <1>1 DEF Lower
<1>5. Lower(b, j) \in SUBSET Slot /\ Lower(a, i) \in SUBSET Lower(b, j)
  BY <1>2, LowerSets
<1>6. Cardinality(Lower(a, i)) < Cardinality(Lower(b, j))
  <2> HIDE DEF a, b
  <2> QED BY <1>3, <1>4, <1>5, SmallerSet
<1> QED BY <1>6 DEF Target

LEMMA TargetInjective ==
  ASSUME ShapeInv, NoWrap, pc # "shape", NEW i \in Slot, NEW j \in Slot, Target(i) = Target(j)
  PROVE  i = j
<1>1. Target(i) \in Nat /\ Target(j) \in Nat
  BY LowerSets DEF Target
<1>2. i \in Nat /\ j \in Nat /\ Shard(0, i + 1) \in Nat /\ Shard(0, j + 1) \in Nat
  BY SlotFacts
<1>3. /\ \/ Shard(0, i + 1) < Shard(0, j + 1)
         \/ Shard(0, i + 1) = Shard(0, j + 1) /\ i < j
      => Target(i) < Target(j)
  BY TargetOrder
<1>4. /\ \/ Shard(0, j + 1) < Shard(0, i + 1)
         \/ Shard(0, j + 1) = Shard(0, i + 1) /\ j < i
      => Target(j) < Target(i)
  BY TargetOrder
<1> QED BY <1>1, <1>2, <1>3, <1>4

LEMMA TargetType ==
  ASSUME ShapeInv, NoWrap, pc # "shape", NEW i \in Slot
  PROVE  Target(i) \in Slot
<1> DEFINE a == Shard(0, i + 1)
<1>1. Lower(a, i) \in SUBSET Slot /\ i \notin Lower(a, i)
  BY LowerSets, SlotFacts DEF Lower
<1>2. Slot \in SUBSET Slot /\ Cardinality(Slot) = nnz
  BY SlotSets
<1>3. Cardinality(Lower(a, i)) < nnz
  <2> HIDE DEF a
  <2> QED BY <1>1, <1>2, SmallerSet
<1>4. Cardinality(Lower(a, i)) \in Nat /\ nnz \in Nat
  BY LowerSets, SlotFacts
<1> QED BY <1>3, <1>4 DEF Target, Slot

LEMMA TargetsAll ==
  ASSUME ShapeInv, NoWrap, pc # "shape"
  PROVE  [i \in Slot |-> Target(i)] \in Bijection(Slot, Slot)
<1> DEFINE g == [i \in Slot |-> Target(i)]
<1>1. g \in [Slot -> Slot]
  BY TargetType
<1>2. \A i, j \in Slot : g[i] = g[j] => i = j
  BY TargetInjective
<1> HIDE DEF g
<1>3. g \in Injection(Slot, Slot)
  BY <1>1, <1>2 DEF Injection, IsInjective
<1>4. IsFiniteSet(Slot)
  BY SlotSets
<1>5. g \in Surjection(Slot, Slot)
  BY <1>3, <1>4, FS_Injection
<1> QED BY <1>3, <1>5 DEF Bijection, g

\* The cursor of a shard moves past the nonzero just placed.
LEMMA LowerStep ==
  ASSUME ShapeInv, NoWrap, pc # "shape", NEW i \in Slot, NEW u \in Shards(0)
  PROVE  Cardinality(Lower(u, i + 1))
           = IF Shard(0, i + 1) = u THEN Cardinality(Lower(u, i)) + 1 ELSE Cardinality(Lower(u, i))
<1>1. \A c \in Slot : Shard(0, c + 1) \in Nat /\ c \in Nat
  BY SlotFacts
<1>2. u \in Nat /\ i \in Nat
  BY <1>1, ShardFacts, SlotFacts
<1>3. CASE Shard(0, i + 1) = u
  <2>1. Lower(u, i + 1) = Lower(u, i) \cup {i}
    <3>1. ASSUME NEW c \in Slot PROVE c < i + 1 <=> c < i \/ c = i
      BY <1>1, <1>2
    <3>2. ASSUME NEW c \in Slot PROVE c \in Lower(u, i + 1) <=> c \in Lower(u, i) \cup {i}
      BY <1>3, <3>1 DEF Lower
    <3>3. Lower(u, i + 1) \subseteq Slot /\ Lower(u, i) \cup {i} \subseteq Slot
      BY LowerSets
    <3> QED BY <3>2, <3>3
  <2>2. i \notin Lower(u, i)
    BY <1>2, <1>3 DEF Lower
  <2>3. IsFiniteSet(Lower(u, i))
    BY LowerSets
  <2>4. Cardinality(Lower(u, i) \cup {i}) = Cardinality(Lower(u, i)) + 1
    BY <2>2, <2>3, FS_AddElement
  <2> QED BY <1>3, <2>1, <2>4
<1>4. CASE Shard(0, i + 1) # u
  <2>1. Lower(u, i + 1) = Lower(u, i)
    <3>1. ASSUME NEW c \in Slot PROVE c < i + 1 <=> c < i \/ c = i
      BY <1>1, <1>2
    <3>2. ASSUME NEW c \in Slot PROVE c \in Lower(u, i + 1) <=> c \in Lower(u, i)
      BY <1>4, <3>1 DEF Lower
    <3>3. Lower(u, i + 1) \subseteq Slot /\ Lower(u, i) \subseteq Slot
      BY LowerSets
    <3> QED BY <3>2, <3>3
  <2> QED BY <1>4, <2>1
<1> QED BY <1>3, <1>4

-----------------------------------------------------------------------------
(* What the scans' tables add up to. *)

\* The slots before p whose nonzero is in shard s of mode n.
In(n, s) == {i \in Slot : Shard(n, i + 1) = s}

LEMMA WorkerSum ==
  ASSUME ShapeInv, NoWrap, \A v \in Worker : Counted(v),
         NEW n \in Mode, NEW s \in Shards(n), NEW k \in 0 .. OMPT
  PROVE  RunningSum([v \in Worker |-> wcnt[v][n][s]], k)
           = Cardinality({i \in In(n, s) : i < ChunkBegin(k)})
<1> DEFINE f == [v \in Worker |-> wcnt[v][n][s]]
<1>1. In(n, s) \in SUBSET Slot
  BY DEF In
<1>2. ASSUME NEW v \in Worker PROVE f[v] = Cardinality(Chunk(v) \cap In(n, s))
  <2>1. wcnt[v][n][s] = Cardinality({i \in Chunk(v) : Shard(n, i + 1) = s})
    <3>1. wcnt[v] = [m \in Mode |-> [u \in Shards(m) |->
                      Cardinality({i \in Chunk(v) : Shard(m, i + 1) = u})]]
      BY DEF Counted
    <3>2. wcnt[v][n] = [u \in Shards(n) |-> Cardinality({i \in Chunk(v) : Shard(n, i + 1) = u})]
      BY <3>1
    <3> QED BY <3>2
  <2>2. Chunk(v) \subseteq Slot
    BY ChunksTile
  <2>3. {i \in Chunk(v) : Shard(n, i + 1) = s} = Chunk(v) \cap In(n, s)
    BY <2>2 DEF In
  <2> QED BY <2>1, <2>3
<1>3. RunningSum(f, k) = Cardinality({i \in In(n, s) : i < ChunkBegin(k)})
  <2> HIDE DEF f
  <2> QED BY <1>1, <1>2, ChunkSum
<1> QED BY <1>3

LEMMA TotalIs ==
  ASSUME ShapeInv, NoWrap, pc # "shape", \A v \in Worker : Counted(v),
         NEW n \in Mode, NEW s \in Shards(n)
  PROVE  Total(n, s) = Cardinality(In(n, s))
<1>1. OMPT \in 0 .. OMPT /\ ChunkBegin(OMPT) = nnz
  BY JobFacts, ChunkFacts
<1>2. {i \in In(n, s) : i < nnz} = In(n, s)
  BY SlotFacts DEF In
<1>3. Total(n, s) = Cardinality({i \in In(n, s) : i < ChunkBegin(OMPT)})
  BY <1>1, WorkerSum DEF Total
<1> QED BY <1>1, <1>2, <1>3

LEMMA ShardMajorIs ==
  ASSUME ShapeInv, NoWrap, pc # "shape", \A v \in Worker : Counted(v),
         NEW w \in Worker, NEW s \in Shards(0)
  PROVE  ShardMajor(w, s) = Cardinality(Lower(s, ChunkBegin(w)))
<1> DEFINE f   == [u \in Shards(0) |-> Total(0, u)]
           key == [i \in Slot |-> Shard(0, i + 1)]
           A   == {i \in Slot : Shard(0, i + 1) < s}
           B   == {i \in In(0, s) : i < ChunkBegin(w)}
<1>0. 0 \in Mode /\ w \in 0 .. OMPT /\ s \in Nat /\ Shards(0) = 0 .. ShardsPerMode(size[0], mn[0]) - 1
      /\ ShardsPerMode(size[0], mn[0]) \in Nat
  <2>1. 0 \in Mode
    BY SlotFacts
  <2>2. w \in 0 .. OMPT
    BY JobFacts DEF Worker
  <2> QED BY <2>1, <2>2, ShardFacts
<1>1. \A i \in Slot : key[i] \in Nat
  BY <1>0, SlotFacts
<1>2. ASSUME NEW u \in 0 .. s - 1 PROVE f[u] = Cardinality({i \in Slot : key[i] = u})
  <2>1. u \in Shards(0)
    BY <1>0
  <2>2. In(0, u) = {i \in Slot : key[i] = u}
    BY DEF In
  <2> QED BY <1>0, <2>1, <2>2, TotalIs
<1>3. IsFiniteSet(Slot)
  BY SlotSets
<1>4. RunningSum(f, s) = Cardinality(Under(Slot, key, s))
  <2> HIDE DEF f, key
  <2>1. Tallied(f, Slot, key, s)
    BY <1>1, <1>2, <1>3 DEF Tallied
  <2> QED BY <1>0, <2>1, KeySum
<1>5. Under(Slot, key, s) = A
  BY DEF Under
<1>6. RunningSum([v \in Worker |-> wcnt[v][0][s]], w) = Cardinality(B)
  BY <1>0, WorkerSum
<1>7. A \in SUBSET Slot /\ B \in SUBSET Slot /\ A \cap B = {} /\ A \cup B = Lower(s, ChunkBegin(w))
  BY <1>0, <1>1 DEF In, Lower
<1>8. ShardMajor(w, s) = Cardinality(A) + Cardinality(B)
  BY <1>4, <1>5, <1>6 DEF ShardMajor
<1> HIDE DEF A, B
<1>9. IsFiniteSet(A) /\ IsFiniteSet(B) /\ Cardinality(A) \in Nat /\ Cardinality(B) \in Nat
  BY <1>7, SlotSets
<1>10. Cardinality(A \cup B) = Cardinality(A) + Cardinality(B) - Cardinality(A \cap B)
  BY <1>9, FS_Union
<1>11. Cardinality(A \cap B) = 0
  BY <1>7, FS_EmptySet
<1>12. Cardinality(A \cup B) = Cardinality(Lower(s, ChunkBegin(w)))
  BY <1>7
<1> QED BY <1>8, <1>9, <1>10, <1>11, <1>12

-----------------------------------------------------------------------------
(* The invariant, up to the swap. *)

\* The tensor and its shards do not change.
LEMMA Frozen ==
  ASSUME job' = job, mn' = mn
  PROVE  /\ nnz' = nnz /\ Elem' = Elem /\ Slot' = Slot /\ Thread' = Thread
         /\ InputOrder' = InputOrder /\ P' = P /\ size' = size /\ row' = row
         /\ \A n : Shards(n)' = Shards(n)
         /\ \A n, e : Shard(n, e)' = Shard(n, e)
         /\ \A w : Chunk(w)' = Chunk(w) /\ ChunkBegin(w)' = ChunkBegin(w) /\ ChunkEnd(w)' = ChunkEnd(w)
         /\ \A s, p : Lower(s, p)' = Lower(s, p)
         /\ \A i : Target(i)' = Target(i)
<1>1. P' = P /\ size' = size /\ row' = row
  BY DEF job
<1>2. nnz' = nnz /\ Elem' = Elem /\ Slot' = Slot /\ Thread' = Thread /\ InputOrder' = InputOrder
  BY <1>1 DEF nnz, Elem, Slot, Thread, InputOrder
<1>3. \A n : Shards(n)' = Shards(n)
  BY <1>1 DEF Shards
<1>4. \A n, e : Shard(n, e)' = Shard(n, e)
  BY <1>1 DEF Shard
<1>5. \A w : ChunkBegin(w)' = ChunkBegin(w)
  BY <1>2 DEF ChunkBegin, PerWorker
<1>6. \A w : ChunkEnd(w)' = ChunkEnd(w)
  BY <1>2, <1>5 DEF ChunkEnd, PerWorker
<1>7. \A w : Chunk(w)' = Chunk(w)
  BY <1>5, <1>6 DEF Chunk
<1>8. \A s, p : Lower(s, p)' = Lower(s, p)
  BY <1>2, <1>4 DEF Lower
<1>9. \A i : Target(i)' = Target(i)
  BY <1>4, <1>8 DEF Target
<1> QED BY <1>1, <1>2, <1>3, <1>4, <1>5, <1>6, <1>7, <1>8, <1>9

\* What the steps that keep the tensor and its shards keep of ShapeInv.
LEMMA ShapeKept ==
  ASSUME ShapeInv, job' = job, mn' = mn, pc # "shape",
         pc' \in {"count", "scatter", "schedule", "hist", "done"},
         DOMAIN wcnt' = DOMAIN wcnt, DOMAIN wbits' = DOMAIN wbits, DOMAIN base' = DOMAIN base,
         DOMAIN pos' = DOMAIN pos, DOMAIN whist' = DOMAIN whist
  PROVE  ShapeInv'
BY DEF ShapeInv, job

LEMMA BuildInit == Init => BuildInv
<1> SUFFICES ASSUME Init PROVE BuildInv
  OBVIOUS
<1>1. ShapeInv
  BY DEF Init, ShapeInv
<1>2. CountInv
  BY DEF Init, CountInv, Swapped, InputOrder
<1>3. ScatterInv /\ PartInv /\ ReducedInv /\ ScheduleInv /\ PlanInv
  BY DEF Init, ScatterInv, PartInv, ReducedInv, ScheduleInv, PlanInv, Swapped
<1> QED BY <1>1, <1>2, <1>3 DEF BuildInv

LEMMA ShapeKeeps == ASSUME BuildInv, Shape PROVE BuildInv'
<1>1. ShapeInv'
  BY DEF BuildInv, ShapeInv, Shape, job, tables
<1>2. CountInv'
  BY DEF BuildInv, CountInv, Shape, job, Swapped, InputOrder, Slot, nnz
<1>3. (ScatterInv /\ PartInv /\ ReducedInv /\ ScheduleInv /\ PlanInv)'
  BY DEF Shape, ScatterInv, PartInv, ReducedInv, ScheduleInv, PlanInv, Swapped
<1> QED BY <1>1, <1>2, <1>3 DEF BuildInv

LEMMA CountScanKeeps ==
  ASSUME BuildInv, NoWrap, NEW w \in Worker, CountScan(w) PROVE BuildInv'
<1>1. job' = job /\ mn' = mn /\ pc = "count" /\ pc' = pc /\ vals' = vals /\ scr' = scr
  BY DEF CountScan
<1>2. ShapeInv'
  <2>1. /\ DOMAIN wcnt' = DOMAIN wcnt /\ DOMAIN wbits' = DOMAIN wbits /\ base' = base
        /\ pos' = pos /\ whist' = whist
    BY DEF CountScan, tables
  <2> QED BY <1>1, <2>1, ShapeKept DEF BuildInv
<1>3. \A v \in scanned' : Counted(v)'
  <2> SUFFICES ASSUME NEW v \in scanned' PROVE Counted(v)'
    OBVIOUS
  <2>0. DOMAIN wcnt = Worker /\ DOMAIN wbits = Worker
    BY DEF BuildInv, ShapeInv
  <2>1. CASE v = w
    <3>1. wcnt'[w] = [n \in Mode |-> [s \in Shards(n) |->
            Cardinality({i \in Chunk(w) : Shard(n, vals[i]) = s})]]
      BY <2>0 DEF CountScan
    <3>2. wbits'[w] = [n \in Mode |-> {row[n][vals[i]] : i \in Chunk(w)}]
      BY <2>0 DEF CountScan
    <3>3. vals = InputOrder
      BY <1>1 DEF BuildInv, CountInv, Swapped
    <3>4. \A i \in Chunk(w) : vals[i] = i + 1
      BY <3>3, ChunksTile DEF InputOrder, BuildInv
    <3>5. wcnt'[w] = [n \in Mode |-> [s \in Shards(n) |->
            Cardinality({i \in Chunk(w) : Shard(n, i + 1) = s})]]
      <4>1. ASSUME NEW n, NEW s
            PROVE {i \in Chunk(w) : Shard(n, vals[i]) = s} = {i \in Chunk(w) : Shard(n, i + 1) = s}
        BY <3>4
      <4> QED BY <3>1, <4>1
    <3>6. wbits'[w] = [n \in Mode |-> {row[n][i + 1] : i \in Chunk(w)}]
      <4> DEFINE A(n) == {row[n][vals[i]] : i \in Chunk(w)}
                 B(n) == {row[n][i + 1] : i \in Chunk(w)}
      <4>1. ASSUME NEW n PROVE A(n) = B(n)
        BY <3>4
      <4>2. wbits'[w] = [n \in Mode |-> A(n)]
        BY <3>2
      <4> HIDE DEF A, B
      <4>3. wbits'[w] = [n \in Mode |-> B(n)]
        BY <4>1, <4>2
      <4> QED BY <4>3 DEF B
    <3> QED BY <1>1, <2>1, <3>5, <3>6, Frozen DEF Counted
  <2>2. CASE v # w
    <3>1. v \in scanned /\ v \in Worker
      BY <1>1, <2>2 DEF CountScan, BuildInv, CountInv
    <3>2. wcnt'[v] = wcnt[v] /\ wbits'[v] = wbits[v]
      BY <2>0, <2>2, <3>1 DEF CountScan
    <3>3. Counted(v)
      BY <1>1, <3>1 DEF BuildInv, CountInv
    <3> QED BY <1>1, <3>2, <3>3, Frozen DEF Counted
  <2> QED BY <2>1, <2>2
<1>4. CountInv'
  <2>1. scanned' \subseteq Worker
    BY <1>1 DEF CountScan, BuildInv, CountInv
  <2>2. vals' = InputOrder'
    BY <1>1, Frozen DEF BuildInv, CountInv, Swapped
  <2>3. scr' = [d \in Slot' |-> Junk]
    BY <1>1, Frozen DEF BuildInv, CountInv
  <2> QED BY <1>1, <1>3, <2>1, <2>2, <2>3 DEF CountInv, Swapped
<1>5. (ScatterInv /\ PartInv /\ ReducedInv /\ ScheduleInv /\ PlanInv)'
  BY <1>1 DEF ScatterInv, PartInv, ReducedInv, ScheduleInv, PlanInv, Swapped
<1> QED BY <1>2, <1>4, <1>5 DEF BuildInv

LEMMA ScatterIntro ==
  ASSUME job' = job, mn' = mn, scr' \in [Slot -> Elem \cup {Junk}],
         \A w \in Worker :
           /\ pos'[w] \in ChunkBegin(w) .. ChunkEnd(w)
           /\ base'[w] = [s \in Shards(0) |-> Cardinality(Lower(s, pos'[w]))]
           /\ \A i \in Chunk(w) : scr'[Target(i)] = IF i < pos'[w] THEN i + 1 ELSE Junk
  PROVE  ScatterInv'
<1>1. scr' \in [Slot' -> (Elem \cup {Junk})']
  BY Frozen
<1>2. ASSUME NEW w \in Worker
      PROVE  /\ (pos[w] \in ChunkBegin(w) .. ChunkEnd(w))'
             /\ (base[w] = [s \in Shards(0) |-> Cardinality(Lower(s, pos[w]))])'
             /\ (\A i \in Chunk(w) : scr[Target(i)] = IF i < pos[w] THEN i + 1 ELSE Junk)'
  <2>1. (pos[w] \in ChunkBegin(w) .. ChunkEnd(w))'
    BY Frozen
  <2>2. ASSUME NEW s PROVE Lower(s, pos[w])' = Lower(s, pos'[w])
    BY Frozen DEF Lower
  <2>3. (base[w] = [s \in Shards(0) |-> Cardinality(Lower(s, pos[w]))])'
    <3>1. Shards(0)' = Shards(0)
      BY Frozen
    <3>2. ASSUME NEW s PROVE Cardinality(Lower(s, pos[w]))' = Cardinality(Lower(s, pos'[w]))
      BY <2>2
    <3> QED BY <3>1, <3>2
  <2>4. (\A i \in Chunk(w) : scr[Target(i)] = IF i < pos[w] THEN i + 1 ELSE Junk)'
    <3>1. ASSUME NEW i \in Chunk(w)
          PROVE  scr'[Target(i)'] = IF i < pos'[w] THEN i + 1 ELSE Junk
      <4>1. Target(i)' = Target(i)
        BY Frozen
      <4> QED BY <4>1
    <3>2. Chunk(w)' = Chunk(w)
      BY Frozen
    <3> QED BY <3>1, <3>2
  <2> QED BY <2>1, <2>3, <2>4
<1> QED BY <1>1, <1>2 DEF ScatterInv

LEMMA BasesKeeps == ASSUME BuildInv, NoWrap, Bases PROVE BuildInv'
<1>1. /\ job' = job /\ mn' = mn /\ pc = "count" /\ pc' = "scatter"
      /\ vals' = vals /\ scr' = scr /\ wcnt' = wcnt /\ wbits' = wbits
      /\ whist' = whist /\ scanned = Worker
      /\ base' = [w \in Worker |-> [s \in Shards(0) |-> ShardMajor(w, s)]]
      /\ pos' = [w \in Worker |-> ChunkBegin(w)]
  BY DEF Bases, tables
<1>2. ShapeInv'
  BY <1>1, ShapeKept DEF BuildInv, ShapeInv
<1>3. \A w \in Worker : Counted(w)
  BY <1>1 DEF BuildInv, CountInv
<1>4. CountInv'
  <2>1. vals' = InputOrder'
    BY <1>1, Frozen DEF BuildInv, CountInv, Swapped
  <2>2. \A w \in Worker : Counted(w)'
    BY <1>1, <1>3, Frozen DEF Counted
  <2> QED BY <1>1, <2>1, <2>2 DEF CountInv, Swapped
<1>5. ScatterInv'
  <2>1. scr = [d \in Slot |-> Junk]
    BY <1>1 DEF BuildInv, CountInv
  <2>2. scr' \in [Slot -> Elem \cup {Junk}]
    BY <1>1, <2>1
  <2> SUFFICES ASSUME NEW w \in Worker
               PROVE /\ pos'[w] \in ChunkBegin(w) .. ChunkEnd(w)
                     /\ base'[w] = [s \in Shards(0) |-> Cardinality(Lower(s, pos'[w]))]
                     /\ \A i \in Chunk(w) : scr'[Target(i)] = IF i < pos'[w] THEN i + 1 ELSE Junk
    BY <1>1, <2>2, ScatterIntro
  <2>3. /\ pos'[w] = ChunkBegin(w) /\ ChunkBegin(w) \in Nat
        /\ ChunkBegin(w) \in ChunkBegin(w) .. ChunkEnd(w)
    <3>1. w \in 0 .. OMPT /\ w + 1 \in 0 .. OMPT /\ nnz \in Nat
      BY JobFacts DEF Worker, BuildInv
    <3>2. /\ ChunkBegin(w) \in 0 .. nnz /\ ChunkBegin(w + 1) \in 0 .. nnz
          /\ ChunkEnd(w) = ChunkBegin(w + 1) /\ ChunkBegin(w) =< ChunkEnd(w)
      BY <3>1, ChunkFacts DEF BuildInv
    <3> QED BY <1>1, <3>1, <3>2
  <2>4. base'[w] = [s \in Shards(0) |-> Cardinality(Lower(s, ChunkBegin(w)))]
    <3>1. \A s \in Shards(0) : ShardMajor(w, s) = Cardinality(Lower(s, ChunkBegin(w)))
      BY <1>1, <1>3, ShardMajorIs DEF BuildInv
    <3> QED BY <1>1, <3>1
  <2>5. ASSUME NEW i \in Chunk(w) PROVE scr[Target(i)] = Junk /\ ~ (i < ChunkBegin(w))
    <3>1. i \in Slot
      BY ChunksTile DEF BuildInv
    <3>2. Target(i) \in Slot
      BY <1>1, <3>1, TargetType DEF BuildInv
    <3> QED BY <2>1, <2>3, <3>2 DEF Chunk
  <2> QED BY <1>1, <2>3, <2>4, <2>5
<1>6. (PartInv /\ ReducedInv /\ ScheduleInv /\ PlanInv)'
  BY <1>1 DEF PartInv, ReducedInv, ScheduleInv, PlanInv, Swapped
<1> QED BY <1>2, <1>4, <1>5, <1>6 DEF BuildInv

\* The next nonzero of a worker and the slot its cursor points to.
LEMMA NextPlaced ==
  ASSUME BuildInv, NoWrap, pc = "scatter", NEW w \in Worker, NEW i \in Chunk(w), i = pos[w]
  PROVE  /\ i \in Slot /\ vals[i] = i + 1 /\ Shard(0, vals[i]) \in Shards(0)
         /\ base[w][Shard(0, vals[i])] = Target(i)
         /\ Target(i) \in Slot /\ scr[Target(i)] = Junk
<1>1. ShapeInv /\ CountInv /\ ScatterInv
  BY DEF BuildInv
<1>2. i \in Slot
  BY <1>1, ChunksTile
<1>3. vals[i] = i + 1
  BY <1>1, <1>2 DEF CountInv, Swapped, InputOrder
<1>4. Shard(0, i + 1) \in Shards(0) /\ i \in Nat
  BY <1>1, <1>2, SlotFacts
<1>5. base[w] = [s \in Shards(0) |-> Cardinality(Lower(s, i))]
  BY <1>1 DEF ScatterInv
<1>6. base[w][Shard(0, i + 1)] = Target(i)
  BY <1>4, <1>5 DEF Target
<1>7. Target(i) \in Slot
  BY <1>1, <1>2, TargetType
<1>8. scr[Target(i)] = Junk
  <2>1. scr[Target(i)] = IF i < pos[w] THEN i + 1 ELSE Junk
    BY <1>1 DEF ScatterInv
  <2> QED BY <1>4, <2>1
<1> QED BY <1>2, <1>3, <1>4, <1>6, <1>7, <1>8

LEMMA ScatterKeeps ==
  ASSUME BuildInv, NoWrap, NEW w \in Worker, Scatter(w) PROVE BuildInv'
<1>0. ShapeInv /\ CountInv /\ ScatterInv
  BY DEF BuildInv
<1>1. /\ job' = job /\ mn' = mn /\ pc = "scatter" /\ pc' = pc
      /\ vals' = vals /\ wcnt' = wcnt /\ wbits' = wbits /\ whist' = whist
      /\ pos' = [pos EXCEPT ![w] = @ + 1]
  BY DEF Scatter, tables
<1>2. PICK i \in Chunk(w) : i = pos[w]
  BY DEF Scatter
<1>3. /\ i \in Slot /\ vals[i] = i + 1 /\ Shard(0, i + 1) \in Shards(0)
      /\ base[w][Shard(0, i + 1)] = Target(i)
      /\ Target(i) \in Slot
  BY <1>1, <1>2, NextPlaced
<1>4. /\ scr' = [scr EXCEPT ![Target(i)] = i + 1]
      /\ base' = [base EXCEPT ![w][Shard(0, i + 1)] = @ + 1]
  BY <1>2, <1>3 DEF Scatter
<1>5. ShapeInv'
  <2>1. DOMAIN pos' = DOMAIN pos /\ DOMAIN base' = DOMAIN base
    BY <1>1, <1>4
  <2> QED BY <1>0, <1>1, <2>1, ShapeKept
<1>6. CountInv'
  <2>1. vals' = InputOrder'
    BY <1>0, <1>1, Frozen DEF CountInv, Swapped
  <2>2. \A v \in Worker : Counted(v)'
    BY <1>0, <1>1, Frozen DEF Counted, CountInv
  <2> QED BY <1>1, <2>1, <2>2 DEF CountInv, Swapped
<1>7. ScatterInv'
  <2>0. /\ scr \in [Slot -> Elem \cup {Junk}]
        /\ DOMAIN pos = Worker /\ DOMAIN base = Worker
        /\ i + 1 \in Elem /\ i \in Nat /\ nnz \in Nat
        /\ \A c \in Slot : c \in Nat
    BY <1>0, <1>1, <1>3, SlotFacts DEF ScatterInv, ShapeInv
  <2>1. scr' \in [Slot -> Elem \cup {Junk}]
    BY <1>3, <1>4, <2>0
  <2>2. ASSUME NEW c \in Slot
        PROVE  scr'[Target(c)] = IF c = i THEN i + 1 ELSE scr[Target(c)]
    <3>1. Target(c) \in Slot
      BY <1>0, <1>1, TargetType
    <3>2. c # i => Target(c) # Target(i)
      BY <1>0, <1>1, <1>3, TargetInjective
    <3> QED BY <1>3, <1>4, <2>0, <3>1, <3>2
  <2> SUFFICES ASSUME NEW v \in Worker
               PROVE /\ pos'[v] \in ChunkBegin(v) .. ChunkEnd(v)
                     /\ base'[v] = [s \in Shards(0) |-> Cardinality(Lower(s, pos'[v]))]
                     /\ \A c \in Chunk(v) : scr'[Target(c)] = IF c < pos'[v] THEN c + 1 ELSE Junk
    BY <1>1, <2>1, ScatterIntro
  <2>3. /\ pos[v] \in ChunkBegin(v) .. ChunkEnd(v)
        /\ base[v] = [s \in Shards(0) |-> Cardinality(Lower(s, pos[v]))]
        /\ \A c \in Chunk(v) : scr[Target(c)] = IF c < pos[v] THEN c + 1 ELSE Junk
    BY <1>0, <1>1 DEF ScatterInv
  <2>4. Chunk(v) \subseteq Slot
    BY <1>0, ChunksTile
  <2>5. CASE v = w
    <3>1. pos'[v] = i + 1 /\ pos[v] = i
      BY <1>1, <1>2, <2>0, <2>5
    <3>2. i + 1 \in ChunkBegin(v) .. ChunkEnd(v)
      <4>1. ChunkBegin(v) \in Nat /\ ChunkEnd(v) \in Nat
        <5>1. v \in 0 .. OMPT /\ v + 1 \in 0 .. OMPT
          BY <1>0, JobFacts DEF Worker
        <5>2. ChunkBegin(v) \in 0 .. nnz /\ ChunkBegin(v + 1) \in 0 .. nnz
              /\ ChunkEnd(v) = ChunkBegin(v + 1)
          BY <1>0, <5>1, ChunkFacts
        <5> QED BY <2>0, <5>2
      <4>2. i \in ChunkBegin(v) .. ChunkEnd(v) - 1
        BY <1>2, <2>5 DEF Chunk
      <4> QED BY <4>1, <4>2
    <3>3. base'[v] = [s \in Shards(0) |-> Cardinality(Lower(s, i + 1))]
      <4>1. base'[v] = [base[v] EXCEPT ![Shard(0, i + 1)] = @ + 1]
        BY <1>4, <2>0, <2>5
      <4>2. base[v] = [s \in Shards(0) |-> Cardinality(Lower(s, i))]
        BY <2>3, <3>1
      <4>3. \A s \in Shards(0) :
              Cardinality(Lower(s, i + 1))
                = IF Shard(0, i + 1) = s THEN Cardinality(Lower(s, i)) + 1
                                         ELSE Cardinality(Lower(s, i))
        BY <1>0, <1>1, <1>3, LowerStep
      <4> QED BY <4>1, <4>2, <4>3
    <3>4. ASSUME NEW c \in Chunk(v)
          PROVE  scr'[Target(c)] = IF c < i + 1 THEN c + 1 ELSE Junk
      <4>1. c \in Slot /\ c \in Nat
        BY <2>0, <2>4
      <4>2. scr[Target(c)] = IF c < i THEN c + 1 ELSE Junk
        BY <2>3, <3>1
      <4>3. c < i + 1 <=> c < i \/ c = i
        BY <2>0, <4>1
      <4> QED BY <2>2, <4>1, <4>2, <4>3
    <3> QED BY <3>1, <3>2, <3>3, <3>4
  <2>6. CASE v # w
    <3>1. pos'[v] = pos[v] /\ base'[v] = base[v]
      BY <1>1, <1>4, <2>0, <2>6
    <3>2. ASSUME NEW c \in Chunk(v) PROVE scr'[Target(c)] = scr[Target(c)]
      <4>1. c \in Slot /\ c # i
        BY <1>0, <1>2, <2>4, <2>6, ChunksTile
      <4> QED BY <2>2, <4>1
    <3> QED BY <2>3, <3>1, <3>2
  <2> QED BY <2>5, <2>6
<1>8. (PartInv /\ ReducedInv /\ ScheduleInv /\ PlanInv)'
  BY <1>1 DEF PartInv, ReducedInv, ScheduleInv, PlanInv, Swapped
<1> QED BY <1>5, <1>6, <1>7, <1>8 DEF BuildInv

-----------------------------------------------------------------------------
\* A shard's slots and its nonzeros are as many.
LEMMA InCount ==
  ASSUME ShapeInv, NoWrap, pc # "shape", NEW n \in Mode, NEW s
  PROVE  Cardinality(In(n, s)) = Cardinality({e \in Elem : Shard(n, e) = s})
<1> DEFINE g == [i \in Slot |-> i + 1]
           A == {e \in Elem : Shard(n, e) = s}
<1>1. \A i \in Slot : i \in Nat /\ i + 1 \in Elem
  BY SlotFacts
<1>2. \A e \in Elem : e \in Nat /\ e - 1 \in Slot /\ (e - 1) + 1 = e
  BY SlotFacts
<1>3. g \in [Slot -> Elem] /\ (\A i, j \in Slot : g[i] = g[j] => i = j)
      /\ \A e \in Elem : \E i \in Slot : g[i] = e
  BY <1>1, <1>2
<1>4. In(n, s) = {i \in Slot : g[i] \in A}
  BY <1>1 DEF In
<1>5. A \in SUBSET Elem /\ IsFiniteSet(A)
  BY SlotSets
<1> HIDE DEF g, A
<1>6. g \in Bijection(Slot, Elem)
  BY <1>3 DEF Bijection, Injection, Surjection, IsInjective
<1> QED BY <1>4, <1>5, <1>6, Recounted DEF A

LEMMA SwapKeeps == ASSUME BuildInv, NoWrap, Swap PROVE BuildInv'
<1>0. ShapeInv /\ CountInv /\ ScatterInv
  BY DEF BuildInv
<1>1. /\ job' = job /\ mn' = mn /\ pc = "scatter" /\ pc' = "schedule"
      /\ vals' = scr /\ scr' = vals /\ wcnt' = wcnt /\ wbits' = wbits
      /\ whist' = whist /\ base' = base /\ pos' = pos
      /\ cnt' = Reduced
      /\ touched' = [n \in Mode |-> Seen(n)]
      /\ todo' = [n \in Mode |-> Shards(n)]
      /\ heap' = [n \in Mode |-> [t \in Thread |-> 0]]
      /\ ss_list' = [n \in Mode |-> [t \in Thread |-> <<>>]]
  BY DEF Swap
<1>2. ShapeInv'
  BY <1>0, <1>1, ShapeKept
<1>3. \A w \in Worker : Counted(w)
  BY <1>0, <1>1 DEF CountInv
<1>4. (CountInv /\ ScatterInv /\ PlanInv)'
  BY <1>1 DEF CountInv, ScatterInv, PlanInv, Swapped
<1>5. PartInv'
  <2>1. vals = InputOrder /\ scr \in [Slot -> Elem \cup {Junk}]
    BY <1>0, <1>1 DEF CountInv, Swapped, ScatterInv
  <2>2. ASSUME NEW i \in Slot PROVE scr[Target(i)] = i + 1
    <3>1. PICK w \in Worker : i \in Chunk(w)
      BY <1>0, ChunksTile
    <3>2. /\ pos[w] \in ChunkBegin(w) .. ChunkEnd(w) /\ pos[w] \notin Chunk(w)
          /\ scr[Target(i)] = IF i < pos[w] THEN i + 1 ELSE Junk
      BY <1>0, <1>1, <3>1 DEF ScatterInv, Swap
    <3>3. ChunkBegin(w) \in Nat /\ ChunkEnd(w) \in Nat /\ i \in Nat
      <4>1. w \in 0 .. OMPT /\ w + 1 \in 0 .. OMPT /\ nnz \in Nat
        BY <1>0, JobFacts DEF Worker
      <4>2. ChunkBegin(w) \in 0 .. nnz /\ ChunkBegin(w + 1) \in 0 .. nnz
            /\ ChunkEnd(w) = ChunkBegin(w + 1)
        BY <1>0, <4>1, ChunkFacts
      <4> QED BY <1>0, <1>1, <4>1, <4>2, SlotFacts
    <3>4. i < pos[w]
      BY <3>1, <3>2, <3>3 DEF Chunk
    <3> QED BY <3>2, <3>4
  <2> QED BY <1>1, <2>1, <2>2, Frozen DEF PartInv, Junk
<1>6. ReducedInv'
  <2>1. ASSUME NEW n \in Mode, NEW s \in Shards(n)
        PROVE  Total(n, s) = Cardinality({e \in Elem : Shard(n, e) = s})
    BY <1>0, <1>1, <1>3, <2>1, TotalIs, InCount
  <2>2. cnt' = [n \in Mode |-> [s \in Shards(n) |-> Cardinality({e \in Elem : Shard(n, e) = s})]]
    BY <1>1, <2>1 DEF Reduced
  <2>3. ASSUME NEW n \in Mode PROVE Seen(n) = {row[n][e] : e \in Elem}
    <3>1. ASSUME NEW w \in Worker PROVE wbits[w][n] = {row[n][i + 1] : i \in Chunk(w)}
      BY <1>3 DEF Counted
    <3>2. Seen(n) \subseteq {row[n][e] : e \in Elem}
      <4>1. ASSUME NEW w \in Worker, NEW i \in Chunk(w) PROVE i + 1 \in Elem
        BY <1>0, <1>1, ChunksTile, SlotFacts
      <4> QED BY <3>1, <4>1 DEF Seen
    <3>3. ASSUME NEW e \in Elem PROVE row[n][e] \in Seen(n)
      <4>1. PICK i \in Slot : e = i + 1
        <5>1. e - 1 \in Slot /\ e \in Nat
          BY <1>0, <1>1, SlotFacts
        <5> QED BY <5>1
      <4>2. PICK w \in Worker : i \in Chunk(w)
        BY <1>0, ChunksTile
      <4>3. row[n][e] \in wbits[w][n]
        BY <3>1, <4>1, <4>2
      <4> QED BY <4>3 DEF Seen
    <3> QED BY <3>2, <3>3
  <2>4. touched' = [n \in Mode |-> {row[n][e] : e \in Elem}]
    BY <1>1, <2>3
  <2> QED BY <1>1, <2>2, <2>4, Frozen DEF ReducedInv
<1>7. ScheduleInv'
  <2>1. ASSUME NEW n \in Mode
        PROVE  /\ todo'[n] = Shards(n)
               /\ heap'[n] \in [Thread -> Nat]
               /\ ss_list'[n] \in [Thread -> Seq(Nat)]
               /\ \A t \in Thread : ss_list'[n][t] = <<>>
    BY <1>1
  <2>2. ASSUME NEW n \in Mode, NEW t \in Thread PROVE DOMAIN ss_list'[n][t] = {}
    BY <2>1
  <2> QED BY <1>1, <2>1, <2>2, Frozen DEF ScheduleInv
<1> QED BY <1>2, <1>4, <1>5, <1>6, <1>7 DEF BuildInv

-----------------------------------------------------------------------------
(* The invariant, from the schedule on. *)

LEMMA CountFacts ==
  ASSUME BuildInv, NoWrap, Swapped, NEW n \in Mode
  PROVE  /\ cnt[n] = [s \in Shards(n) |-> Cardinality({e \in Elem : Shard(n, e) = s})]
         /\ \A s \in Shards(n) : cnt[n][s] \in Nat
         /\ pc # "shape" /\ ShapeInv /\ Shards(n) \subseteq Nat
<1>1. ShapeInv /\ ReducedInv /\ pc # "shape"
  BY DEF BuildInv, Swapped
<1>2. cnt[n] = [s \in Shards(n) |-> Cardinality({e \in Elem : Shard(n, e) = s})]
  BY <1>1 DEF ReducedInv
<1>3. ASSUME NEW s \in Shards(n) PROVE cnt[n][s] \in Nat
  <2>1. {e \in Elem : Shard(n, e) = s} \in SUBSET Elem
    OBVIOUS
  <2>2. Cardinality({e \in Elem : Shard(n, e) = s}) \in Nat
    BY <1>1, <2>1, SlotSets
  <2> QED BY <1>2, <2>2
<1>4. Shards(n) \subseteq Nat
  BY <1>1, ShardFacts
<1> QED BY <1>1, <1>2, <1>3, <1>4

LEMMA HeapTopLeast ==
  ASSUME NEW n, P \in Nat \ {0}, heap[n] \in [Thread -> Nat]
  PROVE  /\ HeapTop(n) \in Thread
         /\ \A u \in Thread : heap[n][HeapTop(n)] < heap[n][u]
                               \/ (heap[n][HeapTop(n)] = heap[n][u] /\ HeapTop(n) =< u)
<1> DEFINE loads == {heap[n][t] : t \in Thread}
<1>1. loads \in SUBSET Nat /\ loads # {} /\ Thread \subseteq Nat
  <2>1. 0 \in Thread /\ Thread \subseteq Nat
    BY DEF Thread
  <2> QED BY <2>1
<1>2. PICK m \in loads : \A y \in loads : m =< y
  <2> HIDE DEF loads
  <2> QED BY <1>1, LeastElement
<1> DEFINE S == {t \in Thread : heap[n][t] = m}
<1>3. S \in SUBSET Nat /\ S # {}
  BY <1>1, <1>2
<1>4. PICK t \in S : \A u \in S : t =< u
  <2> HIDE DEF S
  <2> QED BY <1>3, LeastElement
<1>5. ASSUME NEW u \in Thread
      PROVE  heap[n][t] < heap[n][u] \/ (heap[n][t] = heap[n][u] /\ t =< u)
  <2>1. heap[n][t] = m /\ m =< heap[n][u] /\ m \in Nat /\ heap[n][u] \in Nat
    BY <1>1, <1>2, <1>4
  <2>2. heap[n][u] = m => t =< u
    BY <1>4
  <2> QED BY <2>1, <2>2
<1>6. t \in Thread
  BY <1>4
<1> QED BY <1>5, <1>6 DEF HeapTop

\* What holds between the swap and the ranges, but for the lists.
LEMMA ScheduleStepKeeps ==
  ASSUME BuildInv, pc = "schedule",
         UNCHANGED <<pc, job, mn, vals, scr, wcnt, wbits, scanned, base, pos,
                     cnt, touched, begin, end, tidOf, whist, thrOff>>
  PROVE  (ShapeInv /\ CountInv /\ ScatterInv /\ PartInv /\ ReducedInv /\ PlanInv)'
<1>1. job' = job /\ mn' = mn /\ pc' = pc /\ vals' = vals /\ scr' = scr
      /\ cnt' = cnt /\ touched' = touched
  OBVIOUS
<1>2. ShapeInv'
  BY ShapeKept DEF BuildInv
<1>3. (CountInv /\ ScatterInv /\ PlanInv)'
  BY <1>1 DEF CountInv, ScatterInv, PlanInv, Swapped
<1>4. PartInv'
  BY <1>1, Frozen DEF PartInv, Swapped, BuildInv, Junk
<1>5. ReducedInv'
  BY <1>1, Frozen DEF ReducedInv, Swapped, BuildInv
<1> QED BY <1>2, <1>3, <1>4, <1>5

\* What the invariant says of one mode's schedule.
Scheduled(n) ==
  /\ todo[n] \subseteq Shards(n)
  /\ heap[n] \in [Thread -> Nat]
  /\ ss_list[n] \in [Thread -> Seq(Nat)]
  /\ pc # "schedule" => todo[n] = {}
  /\ \A t \in Thread : \A k \in DOMAIN ss_list[n][t] : PlacedOnce(n, t, k)
  /\ \A s \in Shards(n) \ todo[n] : cnt[n][s] > 0 =>
       \E t \in Thread : \E k \in DOMAIN ss_list[n][t] : ss_list[n][t][k] = s

LEMMA ScheduledIs ==
  ScheduleInv <=> (Swapped => /\ DOMAIN todo = Mode /\ DOMAIN heap = Mode /\ DOMAIN ss_list = Mode
                              /\ \A n \in Mode : Scheduled(n))
BY DEF ScheduleInv, Scheduled

LEMMA ScheduledKept ==
  ASSUME job' = job, mn' = mn, pc' = pc, cnt' = cnt, NEW m \in Mode, Scheduled(m),
         todo'[m] = todo[m], heap'[m] = heap[m], ss_list'[m] = ss_list[m]
  PROVE  Scheduled(m)'
<1>1. ASSUME NEW t, NEW k, PlacedOnce(m, t, k) PROVE PlacedOnce(m, t, k)'
  BY <1>1, Frozen DEF PlacedOnce
<1>2. Shards(m)' = Shards(m) /\ Thread' = Thread
  BY Frozen
<1> QED BY <1>1, <1>2 DEF Scheduled

LEMMA AssignKeeps ==
  ASSUME BuildInv, NoWrap, NEW n \in Mode, Assign(n) PROVE BuildInv'
<1>1. /\ pc = "schedule" /\ pc' = pc /\ job' = job /\ mn' = mn /\ cnt' = cnt
      /\ UNCHANGED <<pc, job, mn, vals, scr, wcnt, wbits, scanned, base, pos,
                     cnt, touched, begin, end, tidOf, whist, thrOff>>
  BY DEF Assign
<1>2. PICK s \in Largest(n) \ Skipped(n), t \in {HeapTop(n)} :
        /\ todo' = [todo EXCEPT ![n] = @ \ {s}]
        /\ ss_list' = [ss_list EXCEPT ![n][t] = Append(@, s)]
        /\ heap' = [heap EXCEPT ![n][t] = @ + cnt[n][s]]
  BY DEF Assign
<1>3. Swapped /\ ScheduleInv
  BY <1>1 DEF BuildInv, Swapped
<1>4. /\ DOMAIN todo = Mode /\ DOMAIN heap = Mode /\ DOMAIN ss_list = Mode
      /\ \A m \in Mode : Scheduled(m)
  BY <1>3, ScheduledIs
<1>5. /\ todo[n] \subseteq Shards(n) /\ heap[n] \in [Thread -> Nat]
      /\ ss_list[n] \in [Thread -> Seq(Nat)]
      /\ \A u \in Thread : \A k \in DOMAIN ss_list[n][u] : PlacedOnce(n, u, k)
      /\ \A x \in Shards(n) \ todo[n] : cnt[n][x] > 0 =>
           \E u \in Thread : \E k \in DOMAIN ss_list[n][u] : ss_list[n][u][k] = x
  BY <1>4 DEF Scheduled
<1>6. /\ \A x \in Shards(n) : cnt[n][x] \in Nat
      /\ Shards(n) \subseteq Nat
  BY <1>3, CountFacts
<1>7. /\ s \in todo[n] /\ s \in Shards(n) /\ s \in Nat /\ cnt[n][s] \in Nat /\ cnt[n][s] > 0
      /\ \A u \in todo[n] : cnt[n][u] =< cnt[n][s]
  <2>1. s \in todo[n] /\ (\A u \in todo[n] : cnt[n][u] =< cnt[n][s]) /\ cnt[n][s] # 0
    BY <1>2 DEF Largest, Skipped
  <2> QED BY <1>5, <1>6, <2>1
<1>8. t \in Thread
  <2>1. P \in Nat \ {0}
    BY JobFacts DEF BuildInv
  <2> QED BY <1>2, <1>5, <2>1, HeapTopLeast
<1> DEFINE L == ss_list[n]
           M == ss_list'[n]
           K == Len(L[t]) + 1
<1>9. /\ todo'[n] = todo[n] \ {s}
      /\ heap'[n] = [heap[n] EXCEPT ![t] = @ + cnt[n][s]]
      /\ M = [L EXCEPT ![t] = Append(@, s)]
  BY <1>2, <1>4
<1>10. /\ M \in [Thread -> Seq(Nat)]
       /\ K \in DOMAIN M[t] /\ M[t][K] = s /\ K \in Nat
       /\ \A u \in Thread : \A k \in DOMAIN L[u] : k \in DOMAIN M[u] /\ M[u][k] = L[u][k] /\ (u = t => k < K)
       /\ \A u \in Thread : \A k \in DOMAIN M[u] : k \in DOMAIN L[u] \/ (u = t /\ k = K)
  <2>0. L \in [Thread -> Seq(Nat)]
    BY <1>5
  <2> HIDE DEF L, M
  <2>1. L[t] \in Seq(Nat) /\ Len(L[t]) \in Nat /\ Append(L[t], s) \in Seq(Nat)
    BY <1>7, <1>8, <2>0
  <2>2. /\ DOMAIN L[t] = 1 .. Len(L[t]) /\ DOMAIN Append(L[t], s) = 1 .. K
        /\ Append(L[t], s)[K] = s
        /\ \A k \in 1 .. Len(L[t]) : Append(L[t], s)[k] = L[t][k]
    BY <2>1
  <2>3. M[t] = Append(L[t], s) /\ \A u \in Thread : u # t => M[u] = L[u]
    BY <1>8, <1>9, <2>0
  <2>4. M \in [Thread -> Seq(Nat)]
    BY <1>8, <1>9, <2>0, <2>1
  <2>5. K \in Nat /\ K \in 1 .. K /\ (\A k \in 1 .. Len(L[t]) : k \in 1 .. K /\ k < K)
        /\ \A k \in 1 .. K : k \in 1 .. Len(L[t]) \/ k = K
    BY <2>1
  <2> HIDE DEF K
  <2>6. DOMAIN M[t] = 1 .. K /\ M[t][K] = s /\ \A k \in 1 .. Len(L[t]) : M[t][k] = L[t][k]
    BY <2>2, <2>3
  <2>7. ASSUME NEW u \in Thread, NEW k \in DOMAIN L[u]
        PROVE  k \in DOMAIN M[u] /\ M[u][k] = L[u][k] /\ (u = t => k < K)
    <3>1. CASE u = t
      BY <2>2, <2>5, <2>6, <3>1
    <3>2. CASE u # t
      BY <2>3, <3>2
    <3> QED BY <3>1, <3>2
  <2>8. ASSUME NEW u \in Thread, NEW k \in DOMAIN M[u]
        PROVE  k \in DOMAIN L[u] \/ (u = t /\ k = K)
    <3>1. CASE u = t
      BY <2>2, <2>5, <2>6, <3>1
    <3>2. CASE u # t
      BY <2>3, <3>2
    <3> QED BY <3>1, <3>2
  <2> QED BY <2>4, <2>5, <2>6, <2>7, <2>8
<1>11. ASSUME NEW u \in Thread, NEW k \in DOMAIN M[u] PROVE PlacedOnce(n, u, k)'
  <2> DEFINE x == M[u][k]
  <2>1. /\ x \in Shards(n) \ todo'[n] /\ cnt[n][x] > 0
        /\ \A y \in todo'[n] : cnt[n][y] =< cnt[n][x]
    <3>1. CASE k \in DOMAIN L[u]
      <4>1. PlacedOnce(n, u, k) /\ x = L[u][k]
        BY <1>5, <1>10, <3>1
      <4> QED BY <1>9, <4>1 DEF PlacedOnce
    <3>2. CASE u = t /\ k = K
      <4>1. x = s
        BY <1>10, <3>2
      <4> QED BY <1>7, <1>9, <4>1
    <3> QED BY <1>10, <3>1, <3>2
  <2>2. ASSUME NEW v \in Thread, NEW j \in DOMAIN M[v]
        PROVE  /\ M[v][j] = x => v = u /\ j = k
               /\ v = u /\ j < k => cnt[n][x] =< cnt[n][M[v][j]]
    <3>1. CASE k \in DOMAIN L[u] /\ j \in DOMAIN L[v]
      <4>1. PlacedOnce(n, u, k) /\ x = L[u][k] /\ M[v][j] = L[v][j]
        BY <1>5, <1>10, <3>1
      <4> QED BY <3>1, <4>1 DEF PlacedOnce
    <3>2. CASE k \in DOMAIN L[u] /\ v = t /\ j = K
      <4>1. PlacedOnce(n, u, k) /\ x = L[u][k] /\ M[v][j] = s
        BY <1>5, <1>10, <3>2
      <4>2. x # s
        BY <1>7, <4>1 DEF PlacedOnce
      <4>3. ~ (v = u /\ j < k)
        <5>1. k \in Nat
          BY <1>5, <3>2
        <5> QED BY <1>10, <3>2, <5>1
      <4> QED BY <4>1, <4>2, <4>3
    <3>3. CASE u = t /\ k = K /\ j \in DOMAIN L[v]
      <4>1. PlacedOnce(n, v, j) /\ x = s /\ M[v][j] = L[v][j]
        BY <1>5, <1>10, <3>3
      <4>2. L[v][j] # s /\ cnt[n][s] =< cnt[n][L[v][j]]
        BY <1>7, <4>1 DEF PlacedOnce
      <4> QED BY <4>1, <4>2
    <3>4. CASE u = t /\ k = K /\ v = t /\ j = K
      BY <1>10, <3>4
    <3> QED BY <1>10, <3>1, <3>2, <3>3, <3>4
  <2>3. Shards(n)' = Shards(n) /\ Thread' = Thread
    BY <1>1, Frozen
  <2> QED BY <1>1, <2>1, <2>2, <2>3 DEF PlacedOnce
<1>12. ASSUME NEW x \in Shards(n) \ todo'[n], cnt[n][x] > 0
       PROVE  \E u \in Thread : \E k \in DOMAIN M[u] : M[u][k] = x
  <2>1. CASE x = s
    BY <1>8, <1>10, <2>1
  <2>2. CASE x # s
    <3>1. x \in Shards(n) \ todo[n]
      BY <1>9, <2>2
    <3>2. PICK u \in Thread : \E k \in DOMAIN L[u] : L[u][k] = x
      BY <1>5, <1>12, <3>1
    <3> QED BY <1>10, <3>2
  <2> QED BY <2>1, <2>2
<1>13. Scheduled(n)'
  <2>1. Shards(n)' = Shards(n) /\ Thread' = Thread
    BY <1>1, Frozen
  <2>2. todo'[n] \subseteq Shards(n)
    BY <1>5, <1>9
  <2>3. heap'[n] \in [Thread -> Nat]
    BY <1>5, <1>7, <1>8, <1>9
  <2>4. ss_list'[n] \in [Thread -> Seq(Nat)]
    BY <1>10
  <2> QED BY <1>1, <1>11, <1>12, <2>1, <2>2, <2>3, <2>4 DEF Scheduled
<1>14. ASSUME NEW m \in Mode, m # n PROVE Scheduled(m)'
  <2>1. todo'[m] = todo[m] /\ heap'[m] = heap[m] /\ ss_list'[m] = ss_list[m]
    BY <1>2, <1>4, <1>14
  <2> QED BY <1>1, <1>4, <2>1, ScheduledKept
<1>15. ScheduleInv'
  <2>1. DOMAIN todo' = Mode /\ DOMAIN heap' = Mode /\ DOMAIN ss_list' = Mode
    BY <1>2, <1>4
  <2>2. \A m \in Mode : Scheduled(m)'
    BY <1>13, <1>14
  <2> QED BY <2>1, <2>2 DEF ScheduleInv, Scheduled
<1>16. (ShapeInv /\ CountInv /\ ScatterInv /\ PartInv /\ ReducedInv /\ PlanInv)'
  BY <1>1, ScheduleStepKeeps
<1> QED BY <1>15, <1>16 DEF BuildInv

LEMMA SkipEmptyKeeps ==
  ASSUME BuildInv, NoWrap, NEW n \in Mode, SkipEmpty(n) PROVE BuildInv'
<1>1. /\ pc = "schedule" /\ pc' = pc /\ job' = job /\ mn' = mn /\ cnt' = cnt
      /\ heap' = heap /\ ss_list' = ss_list /\ todo' = [todo EXCEPT ![n] = {}]
      /\ todo[n] = Skipped(n)
      /\ UNCHANGED <<pc, job, mn, vals, scr, wcnt, wbits, scanned, base, pos,
                     cnt, touched, begin, end, tidOf, whist, thrOff>>
  BY DEF SkipEmpty
<1>2. Swapped /\ ScheduleInv
  BY <1>1 DEF BuildInv, Swapped
<1>3. /\ DOMAIN todo = Mode /\ DOMAIN heap = Mode /\ DOMAIN ss_list = Mode
      /\ \A m \in Mode : Scheduled(m)
  BY <1>2, ScheduledIs
<1>4. Shards(n)' = Shards(n) /\ Thread' = Thread /\ todo'[n] = {}
  BY <1>1, <1>3, Frozen
<1>5. Scheduled(n)'
  <2>1. ASSUME NEW t \in Thread, NEW k \in DOMAIN ss_list[n][t] PROVE PlacedOnce(n, t, k)'
    <3>1. PlacedOnce(n, t, k)
      BY <1>3 DEF Scheduled
    <3> QED BY <1>1, <1>4, <3>1 DEF PlacedOnce
  <2>2. ASSUME NEW s \in Shards(n), cnt[n][s] > 0
        PROVE  \E t \in Thread : \E k \in DOMAIN ss_list[n][t] : ss_list[n][t][k] = s
    <3>1. s \notin todo[n]
      BY <1>1, <2>2 DEF Skipped
    <3> QED BY <1>3, <2>2, <3>1 DEF Scheduled
  <2>3. heap[n] \in [Thread -> Nat] /\ ss_list[n] \in [Thread -> Seq(Nat)]
    BY <1>3 DEF Scheduled
  <2> QED BY <1>1, <1>4, <2>1, <2>2, <2>3 DEF Scheduled
<1>6. ASSUME NEW m \in Mode, m # n PROVE Scheduled(m)'
  <2>1. todo'[m] = todo[m] /\ heap'[m] = heap[m] /\ ss_list'[m] = ss_list[m]
    BY <1>1, <1>3, <1>6
  <2> QED BY <1>1, <1>3, <2>1, ScheduledKept
<1>7. ScheduleInv'
  <2>1. DOMAIN todo' = Mode /\ DOMAIN heap' = Mode /\ DOMAIN ss_list' = Mode
    BY <1>1, <1>3
  <2>2. \A m \in Mode : Scheduled(m)'
    BY <1>5, <1>6
  <2> QED BY <2>1, <2>2 DEF ScheduleInv, Scheduled
<1>8. (ShapeInv /\ CountInv /\ ScatterInv /\ PartInv /\ ReducedInv /\ PlanInv)'
  BY <1>1, ScheduleStepKeeps
<1> QED BY <1>7, <1>8 DEF BuildInv

LEMMA RangesKeeps == ASSUME BuildInv, Ranges PROVE BuildInv'
<1>1. /\ pc = "schedule" /\ pc' = "hist" /\ job' = job /\ mn' = mn
      /\ vals' = vals /\ scr' = scr /\ wcnt' = wcnt /\ wbits' = wbits /\ base' = base
      /\ pos' = pos /\ cnt' = cnt /\ touched' = touched /\ todo' = todo /\ heap' = heap
      /\ ss_list' = ss_list /\ whist' = whist /\ scanned' = {}
      /\ \A n \in Mode : todo[n] = {}
      /\ begin' = [n \in Mode |-> [s \in Shards(n) |-> RunningSum(cnt[n], s)]]
      /\ end'   = [n \in Mode |-> [s \in Shards(n) |-> RunningSum(cnt[n], s + 1)]]
      /\ tidOf' = [n \in Mode |-> [s \in Shards(n) |-> OwnerIn(n, s)]]
  BY DEF Ranges
<1>2. ShapeInv'
  BY <1>1, ShapeKept DEF BuildInv
<1>3. (CountInv /\ ScatterInv)'
  BY <1>1 DEF CountInv, ScatterInv, Swapped
<1>4. PartInv'
  BY <1>1, Frozen DEF PartInv, Swapped, BuildInv, Junk
<1>5. ReducedInv'
  BY <1>1, Frozen DEF ReducedInv, Swapped, BuildInv
<1>6. ScheduleInv'
  <2>1. ScheduleInv /\ Swapped
    BY <1>1 DEF BuildInv, Swapped
  <2>2. /\ DOMAIN todo = Mode /\ DOMAIN heap = Mode /\ DOMAIN ss_list = Mode
        /\ \A n \in Mode : Scheduled(n)
    BY <2>1, ScheduledIs
  <2>3. ASSUME NEW n \in Mode PROVE Scheduled(n)'
    <3>1. ASSUME NEW t, NEW k, PlacedOnce(n, t, k) PROVE PlacedOnce(n, t, k)'
      BY <1>1, <3>1, Frozen DEF PlacedOnce
    <3>2. Shards(n)' = Shards(n) /\ Thread' = Thread /\ Scheduled(n)
      BY <1>1, <2>2, Frozen
    <3> QED BY <1>1, <3>1, <3>2 DEF Scheduled
  <2> QED BY <1>1, <2>2, <2>3 DEF ScheduleInv, Scheduled
<1>7. PlanInv'
  <2>1. \A n : Shards(n)' = Shards(n)
    BY <1>1, Frozen
  <2>2. Thread' = Thread
    BY <1>1, Frozen
  <2>3. \A n, s : OwnerIn(n, s)' = OwnerIn(n, s)
    BY <1>1, <2>2 DEF OwnerIn
  <2>4. begin' = [n \in Mode |-> [s \in Shards(n)' |-> RunningSum(cnt'[n], s)]]
    BY <1>1, <2>1
  <2>5. end' = [n \in Mode |-> [s \in Shards(n)' |-> RunningSum(cnt'[n], s + 1)]]
    BY <1>1, <2>1
  <2>6. tidOf' = [n \in Mode |-> [s \in Shards(n)' |-> OwnerIn(n, s)']]
    BY <1>1, <2>1, <2>3
  <2> QED BY <1>1, <2>4, <2>5, <2>6 DEF PlanInv
<1> QED BY <1>2, <1>3, <1>4, <1>5, <1>6, <1>7 DEF BuildInv

\* What the steps after the ranges keep.
LEMMA HistStepKeeps ==
  ASSUME BuildInv, pc = "hist", pc' \in {"hist", "done"},
         UNCHANGED <<job, mn, vals, scr, wcnt, wbits, base, pos,
                     cnt, touched, todo, heap, ss_list, begin, end, tidOf>>,
         DOMAIN whist' = DOMAIN whist
  PROVE  /\ (ShapeInv /\ CountInv /\ ScatterInv /\ PartInv /\ ReducedInv /\ ScheduleInv)'
         /\ begin' = [n \in Mode |-> [s \in Shards(n)' |-> RunningSum(cnt'[n], s)]]
         /\ end' = [n \in Mode |-> [s \in Shards(n)' |-> RunningSum(cnt'[n], s + 1)]]
         /\ tidOf' = [n \in Mode |-> [s \in Shards(n)' |-> OwnerIn(n, s)']]
<1>1. /\ job' = job /\ mn' = mn /\ pc # "shape"
      /\ vals' = vals /\ scr' = scr /\ cnt' = cnt /\ touched' = touched
      /\ todo' = todo /\ heap' = heap /\ ss_list' = ss_list
      /\ begin' = begin /\ end' = end /\ tidOf' = tidOf
  OBVIOUS
<1>2. ShapeInv'
  BY <1>1, ShapeKept DEF BuildInv
<1>3. (CountInv /\ ScatterInv)'
  BY DEF CountInv, ScatterInv, Swapped
<1>4. PartInv'
  BY <1>1, Frozen DEF PartInv, Swapped, BuildInv, Junk
<1>5. ReducedInv'
  BY <1>1, Frozen DEF ReducedInv, Swapped, BuildInv
<1>6. ScheduleInv'
  <2>1. ScheduleInv /\ Swapped
    BY DEF BuildInv, Swapped
  <2>2. /\ DOMAIN todo = Mode /\ DOMAIN heap = Mode /\ DOMAIN ss_list = Mode
        /\ \A n \in Mode : Scheduled(n)
    BY <2>1, ScheduledIs
  <2>3. ASSUME NEW n \in Mode PROVE Scheduled(n)'
    <3>1. ASSUME NEW t, NEW k, PlacedOnce(n, t, k) PROVE PlacedOnce(n, t, k)'
      BY <1>1, <3>1, Frozen DEF PlacedOnce
    <3>2. Shards(n)' = Shards(n) /\ Thread' = Thread /\ Scheduled(n)
      BY <1>1, <2>2, Frozen
    <3>3. todo[n] = {}
      BY <2>2 DEF Scheduled
    <3> QED BY <1>1, <3>1, <3>2, <3>3 DEF Scheduled
  <2> QED BY <1>1, <2>2, <2>3 DEF ScheduleInv, Scheduled
<1>7. /\ begin = [n \in Mode |-> [s \in Shards(n) |-> RunningSum(cnt[n], s)]]
      /\ end = [n \in Mode |-> [s \in Shards(n) |-> RunningSum(cnt[n], s + 1)]]
      /\ tidOf = [n \in Mode |-> [s \in Shards(n) |-> OwnerIn(n, s)]]
  BY DEF BuildInv, PlanInv
<1>8. \A n : Shards(n)' = Shards(n)
  BY <1>1, Frozen
<1>9. \A n, s : OwnerIn(n, s)' = OwnerIn(n, s)
  <2>1. Thread' = Thread
    BY <1>1, Frozen
  <2> QED BY <1>1, <2>1 DEF OwnerIn
<1>10. begin' = [n \in Mode |-> [s \in Shards(n)' |-> RunningSum(cnt'[n], s)]]
  BY <1>1, <1>7, <1>8
<1>11. end' = [n \in Mode |-> [s \in Shards(n)' |-> RunningSum(cnt'[n], s + 1)]]
  BY <1>1, <1>7, <1>8
<1>12. tidOf' = [n \in Mode |-> [s \in Shards(n)' |-> OwnerIn(n, s)']]
  BY <1>1, <1>7, <1>8, <1>9
<1> QED BY <1>2, <1>3, <1>4, <1>5, <1>6, <1>10, <1>11, <1>12

LEMMA SpreadKept ==
  ASSUME job' = job, mn' = mn, vals' = vals, tidOf' = tidOf, NEW v, whist'[v] = whist[v], Spread(v)
  PROVE  Spread(v)'
<1>1. /\ \A n : Shards(n)' = Shards(n)
      /\ Chunk(v)' = Chunk(v) /\ Thread' = Thread
  BY Frozen
<1>2. \A n, i : Shard(n, vals[i])' = Shard(n, vals[i])
  BY DEF Shard, job
<1>3. \A n : Succ(n)' = Succ(n)
  BY DEF Succ
<1> DEFINE A(n, t, s) == {i \in Chunk(v) : /\ tidOf[n][Shard(n, vals[i])] = t
                                         /\ Shard(Succ(n), vals[i]) = s}
           B(n, t, s) == {i \in Chunk(v)' : /\ tidOf'[n][Shard(n, vals[i])'] = t
                                          /\ Shard(Succ(n), vals[i])' = s}
<1>4. ASSUME NEW n, NEW t, NEW s PROVE B(n, t, s) = A(n, t, s)
  BY <1>1, <1>2, <1>3
<1>5. ASSUME NEW n PROVE Shards(Succ(n))' = Shards(Succ(n))
  BY <1>1, <1>3
<1>6. whist'[v] = [n \in Mode |-> [t \in Thread |-> [s \in Shards(Succ(n)) |-> Cardinality(A(n, t, s))]]]
  BY DEF Spread
<1> HIDE DEF A, B
<1>7. whist'[v] = [n \in Mode |-> [t \in Thread' |-> [s \in Shards(Succ(n))' |-> Cardinality(B(n, t, s))]]]
  BY <1>1, <1>4, <1>5, <1>6
<1> QED BY <1>7 DEF Spread, B

LEMMA HistScanKeeps ==
  ASSUME BuildInv, NEW w \in Worker, HistScan(w) PROVE BuildInv'
<1>1. /\ pc = "hist" /\ pc' = "hist" /\ scanned' = scanned \cup {w}
      /\ job' = job /\ mn' = mn /\ vals' = vals /\ tidOf' = tidOf
      /\ UNCHANGED <<job, mn, vals, scr, wcnt, wbits, base, pos,
                     cnt, touched, todo, heap, ss_list, begin, end, tidOf>>
      /\ DOMAIN whist' = DOMAIN whist
  BY DEF HistScan
<1>2. /\ (ShapeInv /\ CountInv /\ ScatterInv /\ PartInv /\ ReducedInv /\ ScheduleInv)'
      /\ begin' = [n \in Mode |-> [s \in Shards(n)' |-> RunningSum(cnt'[n], s)]]
      /\ end' = [n \in Mode |-> [s \in Shards(n)' |-> RunningSum(cnt'[n], s + 1)]]
      /\ tidOf' = [n \in Mode |-> [s \in Shards(n)' |-> OwnerIn(n, s)']]
  BY <1>1, HistStepKeeps
<1>3. scanned \subseteq Worker /\ (\A v \in scanned : Spread(v)) /\ DOMAIN whist = Worker
  BY <1>1 DEF BuildInv, PlanInv, ShapeInv
<1>4. ASSUME NEW v \in scanned' PROVE Spread(v)'
  <2>1. /\ \A n : Shards(n)' = Shards(n)
        /\ \A n, e : Shard(n, e)' = Shard(n, e)
        /\ Chunk(v)' = Chunk(v) /\ Thread' = Thread
    BY <1>1, Frozen
  <2>2. whist'[v] = [n \in Mode |-> [t \in Thread |-> [s \in Shards(Succ(n)) |->
          Cardinality({i \in Chunk(v) : /\ tidOf[n][Shard(n, vals[i])] = t
                                        /\ Shard(Succ(n), vals[i]) = s})]]]
    <3>1. CASE v = w
      BY <1>3, <3>1 DEF HistScan
    <3>2. CASE v # w
      <4>1. v \in scanned /\ v \in Worker
        BY <1>1, <1>3, <3>2
      <4>2. whist'[v] = whist[v]
        BY <1>3, <3>2, <4>1 DEF HistScan
      <4> QED BY <1>3, <4>1, <4>2 DEF Spread
    <3> QED BY <3>1, <3>2
  <2>3. \A n, i : Shard(n, vals[i])' = Shard(n, vals[i])
    BY <1>1 DEF Shard, job
  <2>4. \A n : Succ(n)' = Succ(n)
    BY DEF Succ
  <2> QED BY <1>1, <2>1, <2>2, <2>3, <2>4 DEF Spread
<1>5. PlanInv'
  BY <1>1, <1>2, <1>3, <1>4 DEF PlanInv
<1> QED BY <1>2, <1>5 DEF BuildInv

LEMMA CursorsKeeps == ASSUME BuildInv, Cursors PROVE BuildInv'
<1>1. /\ pc = "hist" /\ pc' = "done" /\ scanned' = scanned /\ scanned = Worker
      /\ job' = job /\ mn' = mn /\ vals' = vals /\ tidOf' = tidOf /\ whist' = whist
      /\ begin' = begin
      /\ UNCHANGED <<job, mn, vals, scr, wcnt, wbits, base, pos,
                     cnt, touched, todo, heap, ss_list, begin, end, tidOf>>
      /\ thrOff' = [n \in Mode |-> [t \in Thread |-> [s \in Shards(Succ(n)) |-> Cursor(n, t, s)]]]
  BY DEF Cursors
<1>2. /\ (ShapeInv /\ CountInv /\ ScatterInv /\ PartInv /\ ReducedInv /\ ScheduleInv)'
      /\ begin' = [n \in Mode |-> [s \in Shards(n)' |-> RunningSum(cnt'[n], s)]]
      /\ end' = [n \in Mode |-> [s \in Shards(n)' |-> RunningSum(cnt'[n], s + 1)]]
      /\ tidOf' = [n \in Mode |-> [s \in Shards(n)' |-> OwnerIn(n, s)']]
  BY <1>1, HistStepKeeps
<1>3. /\ \A n : Shards(n)' = Shards(n)
      /\ \A n, e : Shard(n, e)' = Shard(n, e)
      /\ \A v : Chunk(v)' = Chunk(v)
      /\ Thread' = Thread
  BY <1>1, Frozen
<1>4. \A v \in scanned : Spread(v)'
  <2>1. ASSUME NEW v \in scanned PROVE Spread(v)'
    <3>1. Spread(v)
      BY <1>1 DEF BuildInv, PlanInv
    <3> QED BY <1>1, <3>1, SpreadKept
  <2> QED BY <2>1
<1>5. \A n, t, s : Cursor(n, t, s)' = Cursor(n, t, s)
  <2>1. \A n, t, s : Hist(n, t, s)' = Hist(n, t, s)
    BY <1>1 DEF Hist
  <2> QED BY <1>1, <1>3, <2>1 DEF Cursor
<1>6. thrOff' = [n \in Mode |-> [t \in Thread' |-> [s \in Shards(Succ(n))' |-> Cursor(n, t, s)']]]
  BY <1>1, <1>3, <1>5
<1>7. PlanInv'
  BY <1>1, <1>2, <1>4, <1>6 DEF PlanInv
<1> QED BY <1>2, <1>7 DEF BuildInv

LEMMA BuildNext == ASSUME NoWrap, BuildInv, [Next]_vars PROVE BuildInv'
<1>1. CASE Next
  <2>1. CASE Shape   BY <2>1, ShapeKeeps
  <2>2. CASE Bases   BY <2>2, BasesKeeps
  <2>3. CASE Swap    BY <2>3, SwapKeeps
  <2>4. CASE Ranges  BY <2>4, RangesKeeps
  <2>5. CASE Cursors BY <2>5, CursorsKeeps
  <2>6. ASSUME NEW w \in Worker, CountScan(w) \/ Scatter(w) \/ HistScan(w) PROVE BuildInv'
    BY <2>6, CountScanKeeps, ScatterKeeps, HistScanKeeps
  <2>7. ASSUME NEW n \in Mode, Assign(n) \/ SkipEmpty(n) PROVE BuildInv'
    BY <2>7, AssignKeeps, SkipEmptyKeeps
  <2> QED BY <1>1, <2>1, <2>2, <2>3, <2>4, <2>5, <2>6, <2>7 DEF Next
<1>2. CASE UNCHANGED vars
  <2>1. /\ job' = job /\ mn' = mn /\ pc' = pc /\ vals' = vals /\ scr' = scr
        /\ wcnt' = wcnt /\ wbits' = wbits /\ scanned' = scanned /\ base' = base /\ pos' = pos
        /\ cnt' = cnt /\ touched' = touched /\ todo' = todo /\ heap' = heap /\ ss_list' = ss_list
        /\ begin' = begin /\ end' = end /\ tidOf' = tidOf /\ whist' = whist /\ thrOff' = thrOff
        /\ P' = P /\ size' = size /\ row' = row
    BY <1>2 DEF vars, tables, job
  <2>2. ShapeInv'
    BY <2>1 DEF BuildInv, ShapeInv
  <2>3. CountInv'
    <3>1. CountInv /\ InputOrder' = InputOrder /\ Slot' = Slot /\ (Swapped' <=> Swapped)
      BY <2>1, Frozen DEF BuildInv, Swapped
    <3>2. ASSUME NEW v, Counted(v) PROVE Counted(v)'
      BY <2>1, <3>2, Frozen DEF Counted
    <3> QED BY <2>1, <3>1, <3>2 DEF CountInv
  <2>4. ScatterInv'
    <3>1. CASE pc = "scatter"
      BY <2>1, <3>1, ScatterIntro DEF BuildInv, ScatterInv
    <3>2. CASE pc # "scatter"
      BY <2>1, <3>2 DEF ScatterInv
    <3> QED BY <3>1, <3>2
  <2>5. PartInv' /\ ReducedInv'
    BY <2>1, Frozen DEF BuildInv, PartInv, ReducedInv, Swapped, Junk
  <2>6. ScheduleInv'
    <3>1. CASE Swapped
      <4>1. /\ DOMAIN todo = Mode /\ DOMAIN heap = Mode /\ DOMAIN ss_list = Mode
            /\ \A m \in Mode : Scheduled(m)
        BY <3>1, ScheduledIs DEF BuildInv
      <4>2. \A m \in Mode : Scheduled(m)'
        BY <2>1, <4>1, ScheduledKept
      <4> QED BY <2>1, <4>1, <4>2 DEF ScheduleInv, Scheduled
    <3>2. CASE ~ Swapped
      BY <2>1, <3>2 DEF ScheduleInv, Swapped
    <3> QED BY <3>1, <3>2
  <2>7. PlanInv'
    <3>1. /\ PlanInv /\ Thread' = Thread
          /\ \A n : Shards(n)' = Shards(n)
      BY <2>1, Frozen DEF BuildInv
    <3>2. ASSUME NEW v, Spread(v) PROVE Spread(v)'
      BY <2>1, <3>2, SpreadKept
    <3>3. \A n, s : OwnerIn(n, s)' = OwnerIn(n, s)
      BY <2>1, <3>1 DEF OwnerIn
    <3>4. \A n, t, s : Cursor(n, t, s)' = Cursor(n, t, s)
      <4>1. \A n, t, s : Hist(n, t, s)' = Hist(n, t, s)
        BY <2>1 DEF Hist
      <4> QED BY <2>1, <3>1, <4>1 DEF Cursor
    <3>5. pc' \in {"hist", "done"} =>
            /\ begin' = [n \in Mode |-> [s \in Shards(n)' |-> RunningSum(cnt'[n], s)]]
            /\ end' = [n \in Mode |-> [s \in Shards(n)' |-> RunningSum(cnt'[n], s + 1)]]
            /\ tidOf' = [n \in Mode |-> [s \in Shards(n)' |-> OwnerIn(n, s)']]
            /\ scanned' \subseteq Worker
            /\ \A v \in scanned' : Spread(v)'
      BY <2>1, <3>1, <3>2, <3>3 DEF PlanInv
    <3>6. pc' = "done" =>
            /\ scanned' = Worker
            /\ thrOff' = [n \in Mode |-> [t \in Thread' |-> [s \in Shards(Succ(n))' |-> Cursor(n, t, s)']]]
      BY <2>1, <3>1, <3>4 DEF PlanInv
    <3> QED BY <3>5, <3>6 DEF PlanInv
  <2> QED BY <2>2, <2>3, <2>4, <2>5, <2>6, <2>7 DEF BuildInv
<1> QED BY <1>1, <1>2

LEMMA BuildInvariance == ASSUME NoWrap PROVE Spec => []BuildInv
<1>1. Init => BuildInv
  BY BuildInit
<1>2. BuildInv /\ [Next]_vars => BuildInv'
  BY BuildNext
<1> QED BY <1>1, <1>2, PTL DEF Spec

(* Whatever the mode size and thread count pick_mn is called with, every   *)
(* row has a super-shard, no super-shard is past the last row, and two or  *)
(* more per thread are left for the schedule unless kMinRows forbids it.   *)
THEOREM ShardsAlwaysCover == NoWrap => (Spec => []ShardsCover)
<1> SUFFICES ASSUME NoWrap PROVE Spec => []ShardsCover
  OBVIOUS
<1>1. BuildInv => ShardsCover
  <2> SUFFICES ASSUME BuildInv, pc = "count", NEW n \in Mode
               PROVE  /\ \A r \in 0 .. size[n] - 1 : ShardOfRow(r, mn[n]) \in Shards(n)
                      /\ (Cardinality(Shards(n)) - 1) * mn[n] < size[n]
                      /\ size[n] >= 4 * kMinRows * P => Cardinality(Shards(n)) >= 2 * P
    BY DEF ShardsCover, RowsCovered, TwoShardsPerThread
  <2> DEFINE K == ShardsPerMode(size[n], mn[n])
  <2>1. /\ K \in Nat \ {0} /\ Shards(n) = 0 .. K - 1
        /\ \A r \in 0 .. size[n] - 1 : ShardOfRow(r, mn[n]) \in Shards(n)
        /\ (K - 1) * mn[n] < size[n]
        /\ size[n] >= 4 * kMinRows * P => K >= 2 * P
    BY ShardFacts DEF BuildInv
  <2> HIDE DEF K
  <2>2. Cardinality(0 .. K - 1) = K
    <3>1. 0 \in Int /\ K - 1 \in Int
      BY <2>1
    <3>2. Cardinality(0 .. K - 1) = IF 0 > K - 1 THEN 0 ELSE (K - 1) - 0 + 1
      BY <3>1, FS_Interval
    <3> QED BY <2>1, <3>2
  <2> QED BY <2>1, <2>2
<1> QED BY <1>1, BuildInvariance, PTL

(* sort_and_count_all, pass B: in every interleaving of the team, the slot *)
(* a worker is about to fill is a slot of the slab, is not filled yet, and *)
(* no other worker is about to fill it.                                    *)
THEOREM ScatterNeedsNoAtomics == NoWrap => (Spec => []ScatterPrivate)
<1> SUFFICES ASSUME NoWrap PROVE Spec => []ScatterPrivate
  OBVIOUS
<1>1. BuildInv => ScatterPrivate
  <2> SUFFICES ASSUME BuildInv, pc = "scatter", NEW w \in Worker, pos[w] \in Chunk(w)
               PROVE  /\ base[w][Shard(0, vals[pos[w]])] \in Slot
                      /\ scr[base[w][Shard(0, vals[pos[w]])]] = Junk
                      /\ \A v \in Worker \ {w} : pos[v] \in Chunk(v) =>
                           base[v][Shard(0, vals[pos[v]])] # base[w][Shard(0, vals[pos[w]])]
    BY DEF ScatterPrivate
  <2>1. PICK i \in Chunk(w) : i = pos[w]
    OBVIOUS
  <2>2. /\ base[w][Shard(0, vals[i])] = Target(i)
        /\ Target(i) \in Slot /\ scr[Target(i)] = Junk /\ i \in Slot
    BY <2>1, NextPlaced
  <2>3. ASSUME NEW v \in Worker \ {w}, pos[v] \in Chunk(v)
        PROVE  base[v][Shard(0, vals[pos[v]])] # Target(i)
    <3>1. PICK j \in Chunk(v) : j = pos[v]
      BY <2>3
    <3>2. base[v][Shard(0, vals[j])] = Target(j) /\ j \in Slot
      BY <3>1, NextPlaced
    <3>3. i # j
      BY ChunksTile DEF BuildInv
    <3>4. Target(i) # Target(j)
      BY <2>2, <3>2, <3>3, TargetInjective DEF BuildInv
    <3> QED BY <3>1, <3>2, <3>4
  <2> QED BY <2>1, <2>2, <2>3
<1> QED BY <1>1, BuildInvariance, PTL

-----------------------------------------------------------------------------
(* The tables that build_flycoo leaves. *)

LEMMA PlacedAt ==
  ASSUME BuildInv, NoWrap, Swapped, NEW d \in Slot
  PROVE  \E i \in Slot : d = Target(i) /\ vals[d] = i + 1
<1>1. PartInv /\ ShapeInv /\ pc # "shape"
  BY DEF BuildInv, Swapped
<1>2. [i \in Slot |-> Target(i)] \in Surjection(Slot, Slot)
  BY <1>1, TargetsAll DEF Bijection
<1>3. PICK i \in Slot : Target(i) = d
  BY <1>2 DEF Surjection
<1> QED BY <1>1, <1>3 DEF PartInv

LEMMA SlabBijection == ASSUME BuildInv, NoWrap, Swapped PROVE vals \in Bijection(Slot, Elem)
<1>1. PartInv /\ ShapeInv /\ pc # "shape"
  BY DEF BuildInv, Swapped
<1>2. vals \in [Slot -> Elem \cup {Junk}] /\ \A i \in Slot : vals[Target(i)] = i + 1
  BY <1>1 DEF PartInv
<1>3. \A i \in Slot : i \in Nat /\ i + 1 \in Elem
  BY <1>1, SlotFacts
<1>4. ASSUME NEW d \in Slot PROVE vals[d] \in Elem
  BY <1>3, PlacedAt
<1>5. vals \in [Slot -> Elem]
  BY <1>2, <1>4
<1>6. ASSUME NEW c \in Slot, NEW d \in Slot, vals[c] = vals[d] PROVE c = d
  <2>1. PICK i \in Slot : c = Target(i) /\ vals[c] = i + 1
    BY PlacedAt
  <2>2. PICK j \in Slot : d = Target(j) /\ vals[d] = j + 1
    BY PlacedAt
  <2> QED BY <1>3, <1>6, <2>1, <2>2
<1>7. ASSUME NEW e \in Elem PROVE \E d \in Slot : vals[d] = e
  <2>1. e - 1 \in Slot /\ (e - 1) + 1 = e
    BY <1>1, SlotFacts
  <2>2. Target(e - 1) \in Slot
    BY <1>1, <2>1, TargetType
  <2> QED BY <1>2, <2>1, <2>2
<1> QED BY <1>5, <1>6, <1>7 DEF Bijection, Injection, Surjection, IsInjective

LEMMA PlanCardinality == \A S : Plan!Cardinality(S) = Cardinality(S)
BY DEF Plan!Cardinality, Cardinality

LEMMA PlanShard ==
  ASSUME ShapeInv, NoWrap, pc # "shape", NEW n \in Mode, NEW e \in Elem
  PROVE  Plan!Shard(n, e) = Shard(n, e)
BY ShardFacts DEF Plan!Shard

\* The prefix sums are the shards' ranges.
LEMMA RangesAre ==
  ASSUME BuildInv, NoWrap, pc \in {"hist", "done"}, NEW n \in Mode, NEW s \in Shards(n)
  PROVE  /\ begin[n][s] = Cardinality({e \in Elem : Shard(n, e) < s})
         /\ end[n][s] = Cardinality({e \in Elem : Shard(n, e) =< s})
<1> DEFINE key == [e \in Elem |-> Shard(n, e)]
           K == ShardsPerMode(size[n], mn[n])
<1>1. /\ cnt[n] = [u \in Shards(n) |-> Cardinality({e \in Elem : Shard(n, e) = u})]
      /\ ShapeInv /\ pc # "shape"
  BY CountFacts DEF Swapped
<1>2. /\ begin[n][s] = RunningSum(cnt[n], s) /\ end[n][s] = RunningSum(cnt[n], s + 1)
  BY DEF BuildInv, PlanInv
<1>3. /\ Shards(n) = 0 .. K - 1 /\ K \in Nat /\ Shards(n) \subseteq Nat
      /\ \A e \in Elem : Shard(n, e) \in Nat
  <2>1. /\ Shards(n) = 0 .. K - 1 /\ K \in Nat /\ Shards(n) \subseteq Nat
        /\ \A e \in Elem : Shard(n, e) \in Shards(n)
    BY <1>1, ShardFacts
  <2> QED BY <2>1
<1>4. Elem \in SUBSET Elem /\ IsFiniteSet(Elem)
  BY <1>1, SlotSets
<1> HIDE DEF K
<1>5. ASSUME NEW k \in Nat, k =< s + 1 PROVE Tallied(cnt[n], Elem, key, k)
  <2>1. ASSUME NEW u \in 0 .. k - 1
        PROVE  cnt[n][u] = Cardinality({e \in Elem : key[e] = u})
    <3>1. u \in Shards(n)
      BY <1>3, <1>5
    <3>2. {e \in Elem : key[e] = u} = {e \in Elem : Shard(n, e) = u}
      OBVIOUS
    <3> QED BY <1>1, <3>1, <3>2
  <2>2. \A e \in Elem : key[e] \in Nat
    BY <1>3
  <2> HIDE DEF key
  <2> QED BY <1>4, <2>1, <2>2 DEF Tallied
<1>6. s \in Nat /\ s + 1 \in Nat /\ s =< s + 1 /\ s + 1 =< s + 1
  BY <1>3
<1>7. /\ RunningSum(cnt[n], s) = Cardinality(Under(Elem, key, s))
      /\ RunningSum(cnt[n], s + 1) = Cardinality(Under(Elem, key, s + 1))
  <2> HIDE DEF key
  <2>1. Tallied(cnt[n], Elem, key, s) /\ Tallied(cnt[n], Elem, key, s + 1)
    BY <1>5, <1>6
  <2> QED BY <1>6, <2>1, KeySum
<1>8. /\ Under(Elem, key, s) = {e \in Elem : Shard(n, e) < s}
      /\ Under(Elem, key, s + 1) = {e \in Elem : Shard(n, e) =< s}
  BY <1>3, <1>6 DEF Under
<1> QED BY <1>2, <1>7, <1>8

\* A nonzero's shard is on a list, so it has an owner.
LEMMA OwnedBy ==
  ASSUME BuildInv, NoWrap, pc \in {"hist", "done"}, NEW n \in Mode, NEW e \in Elem
  PROVE  /\ tidOf[n][Shard(n, e)] \in Thread
         /\ Max({tidOf[n][Shard(n, e)], 0}) = tidOf[n][Shard(n, e)]
<1> DEFINE s == Shard(n, e)
           A == {x \in Elem : Shard(n, x) = s}
<1>1. /\ cnt[n] = [u \in Shards(n) |-> Cardinality({x \in Elem : Shard(n, x) = u})]
      /\ cnt[n] = [u \in Shards(n) |-> Cardinality({x \in Elem : Shard(n, x) = u})]
      /\ ShapeInv /\ pc # "shape" /\ \A u \in Shards(n) : cnt[n][u] \in Nat
  BY CountFacts DEF Swapped
<1>2. s \in Shards(n)
  BY <1>1, ShardFacts
<1>3. cnt[n][s] > 0
  <2>1. cnt[n][s] = Cardinality(A) /\ e \in A /\ A \in SUBSET Elem
    BY <1>1, <1>2
  <2>2. IsFiniteSet(A) /\ Cardinality(A) # 0
    <3> HIDE DEF A
    <3>1. IsFiniteSet(A)
      BY <1>1, <2>1, SlotSets
    <3> QED BY <2>1, <3>1, FS_EmptySet
  <2> QED BY <1>1, <1>2, <2>1, <2>2
<1>4. PICK t \in Thread : \E k \in DOMAIN ss_list[n][t] : ss_list[n][t][k] = s
  <2>1. Scheduled(n) /\ pc # "schedule"
    BY ScheduledIs DEF BuildInv, Swapped
  <2> QED BY <1>2, <1>3, <2>1 DEF Scheduled
<1>5. Contains(ss_list[n][t], s)
  <2>1. ss_list[n][t] \in Seq(Nat)
    BY ScheduledIs DEF BuildInv, Swapped, Scheduled
  <2> QED BY <1>4, <2>1 DEF Contains
<1>6. OwnerIn(n, s) \in Thread
  <2> HIDE DEF s
  <2> QED BY <1>5 DEF OwnerIn
<1>7. tidOf[n][s] = OwnerIn(n, s)
  BY <1>2 DEF BuildInv, PlanInv
<1>8. tidOf[n][s] \in Thread /\ tidOf[n][s] \in Nat
  BY <1>6, <1>7 DEF Thread
<1> HIDE DEF s
<1>9. Max({tidOf[n][s], 0}) = tidOf[n][s]
  BY <1>8, MaxOfTwo
<1> QED BY <1>8, <1>9 DEF s

\* The histograms count the nonzeros that go from a thread to a shard.
LEMMA HistIs ==
  ASSUME BuildInv, NoWrap, pc \in {"hist", "done"}, \A w \in Worker : Spread(w),
         NEW n \in Mode, NEW t \in Thread, NEW s \in Shards(Succ(n))
  PROVE  Hist(n, t, s) = Cardinality({e \in Elem : /\ tidOf[n][Shard(n, e)] = t
                                                   /\ Shard(Succ(n), e) = s})
<1> DEFINE A == {e \in Elem : tidOf[n][Shard(n, e)] = t /\ Shard(Succ(n), e) = s}
           D == {i \in Slot : vals[i] \in A}
           f == [w \in Worker |-> whist[w][n][t][s]]
<1>1. ShapeInv /\ Swapped /\ pc # "shape" /\ vals \in Bijection(Slot, Elem)
  BY SlabBijection DEF BuildInv, Swapped
<1>2. \A i \in Slot : vals[i] \in Elem
  BY <1>1 DEF Bijection, Injection
<1>3. ASSUME NEW w \in Worker PROVE f[w] = Cardinality(Chunk(w) \cap D)
  <2>1. whist[w] = [m \in Mode |-> [u \in Thread |-> [x \in Shards(Succ(m)) |->
          Cardinality({i \in Chunk(w) : /\ tidOf[m][Shard(m, vals[i])] = u
                                        /\ Shard(Succ(m), vals[i]) = x})]]]
    BY DEF Spread
  <2>2. whist[w][n][t][s]
          = Cardinality({i \in Chunk(w) : /\ tidOf[n][Shard(n, vals[i])] = t
                                          /\ Shard(Succ(n), vals[i]) = s})
    BY <2>1
  <2>3. Chunk(w) \subseteq Slot
    BY <1>1, ChunksTile
  <2>4. {i \in Chunk(w) : /\ tidOf[n][Shard(n, vals[i])] = t
                          /\ Shard(Succ(n), vals[i]) = s} = Chunk(w) \cap D
    BY <1>2, <2>3
  <2> QED BY <2>2, <2>4
<1>4. D \in SUBSET Slot /\ OMPT \in 0 .. OMPT /\ ChunkBegin(OMPT) = nnz
  BY <1>1, JobFacts, ChunkFacts
<1>5. A \in SUBSET Elem /\ IsFiniteSet(A)
  BY <1>1, SlotSets
<1>6. {i \in D : i < nnz} = D
  BY <1>1, SlotFacts
<1>7. Cardinality(D) = Cardinality(A)
  <2> HIDE DEF A
  <2> QED BY <1>1, <1>5, Recounted
<1>8. Hist(n, t, s) = RunningSum(f, OMPT)
  BY DEF Hist
<1> HIDE DEF f, D, A
<1>9. RunningSum(f, OMPT) = Cardinality({i \in D : i < ChunkBegin(OMPT)})
  BY <1>1, <1>3, <1>4, ChunkSum
<1> QED BY <1>4, <1>6, <1>7, <1>8, <1>9 DEF A

LEMMA SuccIn == ASSUME ShapeInv, NoWrap, NEW n \in Mode PROVE Succ(n) \in Mode
<1>1. N \in Nat \ {0} /\ n + 1 \in Nat
  BY JobFacts DEF Mode
<1> DEFINE c == n + 1
<1>2. c % N \in 0 .. N - 1
  <2> HIDE DEF c
  <2> QED BY <1>1 DEF c
<1> QED BY <1>2 DEF Succ, Mode

LEMMA CursorIs ==
  ASSUME BuildInv, NoWrap, pc \in {"hist", "done"}, \A w \in Worker : Spread(w),
         NEW n \in Mode, NEW t \in Thread, NEW s \in Shards(Succ(n))
  PROVE  Cursor(n, t, s) = Plan!ThrOff(n, t, s)
<1> DEFINE m   == Succ(n)
           D   == {e \in Elem : Shard(m, e) = s}
           A   == {e \in Elem : Shard(m, e) < s}
           key == [e \in Elem |-> tidOf[n][Shard(n, e)]]
           f   == [u \in Thread |-> Hist(n, u, s)]
           B   == Under(D, key, t)
<1>1. ShapeInv /\ Swapped /\ pc # "shape"
  BY DEF BuildInv, Swapped
<1>2. m \in Mode
  BY <1>1, SuccIn
<1>3. /\ P \in Nat /\ t \in Nat /\ t < P /\ Thread \subseteq Nat
      /\ s \in Nat /\ \A e \in Elem : Shard(m, e) \in Nat
  <2>1. P \in Nat /\ Shards(m) \subseteq Nat /\ \A e \in Elem : Shard(m, e) \in Shards(m)
    BY <1>1, <1>2, JobFacts, ShardFacts
  <2> QED BY <2>1 DEF Thread
<1>4. \A e \in Elem : key[e] \in Thread
  BY OwnedBy
<1>5. /\ D \in SUBSET Elem /\ IsFiniteSet(D)
      /\ A \in SUBSET Elem /\ IsFiniteSet(A)
  BY <1>1, SlotSets
<1>6. RunningSum(f, t) = Cardinality(B)
  <2>1. ASSUME NEW u \in 0 .. t - 1 PROVE f[u] = Cardinality({e \in D : key[e] = u})
    <3>1. u \in Thread
      BY <1>3 DEF Thread
    <3>2. {e \in Elem : tidOf[n][Shard(n, e)] = u /\ Shard(m, e) = s} = {e \in D : key[e] = u}
      OBVIOUS
    <3>3. f[u] = Hist(n, u, s)
      BY <3>1
    <3>4. Hist(n, u, s) = Cardinality({e \in Elem : tidOf[n][Shard(n, e)] = u /\ Shard(m, e) = s})
      BY <3>1, HistIs
    <3> QED BY <3>2, <3>3, <3>4
  <2>2. \A e \in D : key[e] \in Nat
    BY <1>3, <1>4
  <2> HIDE DEF D, key, f
  <2>3. Tallied(f, D, key, t)
    BY <1>5, <2>1, <2>2 DEF Tallied
  <2> QED BY <1>3, <2>3, KeySum
<1>7. begin[m][s] = Cardinality(A)
  BY <1>2, RangesAre
<1>8. Cursor(n, t, s) = Cardinality(A) + Cardinality(B)
  BY <1>6, <1>7 DEF Cursor
<1>9. A \cap B = {} /\ B \in SUBSET Elem
  BY <1>3 DEF Under
<1>10. Plan!Before(n, t, s) = A \cup B
  <2>1. ASSUME NEW e \in Elem
        PROVE /\ Plan!Shard(Plan!Succ(n), e) = Shard(m, e)
              /\ Plan!OwnerOf(n, e) = key[e]
    <3>1. Plan!Succ(n) = m
      BY DEF Plan!Succ, Succ
    <3>2. Plan!Shard(m, e) = Shard(m, e) /\ Plan!Shard(n, e) = Shard(n, e)
      BY <1>1, <1>2, PlanShard
    <3>3. Shard(n, e) \in Shards(n)
      BY <1>1, ShardFacts
    <3>4. Plan!OwnerOf(n, e) = Max({tidOf[n][Shard(n, e)], 0})
      BY <3>2, <3>3 DEF Plan!OwnerOf
    <3> QED BY <3>1, <3>2, <3>4, OwnedBy
  <2>2. ASSUME NEW e \in Elem PROVE e \in Plan!Before(n, t, s) <=> e \in A \cup B
    BY <2>1 DEF Plan!Before, Under
  <2>3. Plan!Before(n, t, s) \subseteq Elem
    BY DEF Plan!Before
  <2> QED BY <1>5, <1>9, <2>2, <2>3
<1> HIDE DEF A, B
<1>11. IsFiniteSet(B) /\ Cardinality(A) \in Nat /\ Cardinality(B) \in Nat
  BY <1>1, <1>5, <1>9, SlotSets
<1>12. Cardinality(A \cup B) = Cardinality(A) + Cardinality(B) - Cardinality(A \cap B)
  BY <1>5, <1>11, FS_Union
<1>13. Cardinality(A \cap B) = 0
  BY <1>9, FS_EmptySet
<1>14. Plan!ThrOff(n, t, s) = Cardinality(A \cup B)
  <2>1. Plan!ThrOff(n, t, s) = Cardinality(Plan!Before(n, t, s))
    BY PlanCardinality DEF Plan!ThrOff
  <2> QED BY <1>10, <2>1
<1> QED BY <1>8, <1>11, <1>12, <1>13, <1>14

LEMMA PlanExactly == ASSUME BuildInv, NoWrap PROVE PlanExact
<1> SUFFICES ASSUME Done, NEW n \in Mode
             PROVE /\ \A s \in Shards(n) : /\ begin[n][s] = Plan!ShardBegin(n, s)
                                           /\ end[n][s] = Plan!ShardEnd(n, s)
                   /\ \A t \in Thread, s \in Shards(Succ(n)) :
                        thrOff[n][t][s] = Plan!ThrOff(n, t, s)
  BY DEF PlanExact
<1>1. pc = "done" /\ ShapeInv /\ pc # "shape"
  BY DEF Done, BuildInv
<1>2. \A w \in Worker : Spread(w)
  BY <1>1 DEF BuildInv, PlanInv
<1>3. ASSUME NEW s \in Shards(n)
      PROVE  begin[n][s] = Plan!ShardBegin(n, s) /\ end[n][s] = Plan!ShardEnd(n, s)
  <2>1. \A e \in Elem : Plan!Shard(n, e) = Shard(n, e)
    BY <1>1, PlanShard
  <2>2. /\ begin[n][s] = Cardinality({e \in Elem : Shard(n, e) < s})
        /\ end[n][s] = Cardinality({e \in Elem : Shard(n, e) =< s})
    BY <1>1, RangesAre
  <2>3. /\ Plan!ShardBegin(n, s) = Cardinality({e \in Elem : Plan!Shard(n, e) < s})
        /\ Plan!ShardEnd(n, s) = Cardinality({e \in Elem : Plan!Shard(n, e) =< s})
    BY PlanCardinality DEF Plan!ShardBegin, Plan!ShardEnd
  <2>4. /\ {e \in Elem : Plan!Shard(n, e) < s} = {e \in Elem : Shard(n, e) < s}
        /\ {e \in Elem : Plan!Shard(n, e) =< s} = {e \in Elem : Shard(n, e) =< s}
    BY <2>1
  <2> QED BY <2>2, <2>3, <2>4
<1>4. ASSUME NEW t \in Thread, NEW s \in Shards(Succ(n))
      PROVE  thrOff[n][t][s] = Plan!ThrOff(n, t, s)
  <2>1. thrOff = [m \in Mode |-> [u \in Thread |-> [x \in Shards(Succ(m)) |-> Cursor(m, u, x)]]]
    BY <1>1 DEF BuildInv, PlanInv
  <2>2. thrOff[n][t][s] = Cursor(n, t, s)
    BY <2>1
  <2> QED BY <1>1, <1>2, <2>2, CursorIs
<1> QED BY <1>3, <1>4

LEMMA ScheduleExactly == ASSUME BuildInv, NoWrap PROVE ScheduleExact
<1> SUFFICES ASSUME Done, NEW n \in Mode
             PROVE /\ \A s \in Shards(n) :
                        Cardinality(Entries(n, s)) = IF cnt[n][s] = 0 THEN 0 ELSE 1
                   /\ \A t \in Thread : \A j, k \in DOMAIN ss_list[n][t] :
                        j < k => cnt[n][ss_list[n][t][j]] >= cnt[n][ss_list[n][t][k]]
  BY DEF ScheduleExact
<1>1. pc = "done" /\ pc # "schedule" /\ Swapped
  BY DEF Done, Swapped
<1>2. /\ todo[n] = {}
      /\ \A t \in Thread : \A k \in DOMAIN ss_list[n][t] : PlacedOnce(n, t, k)
      /\ \A s \in Shards(n) : cnt[n][s] > 0 =>
           \E t \in Thread : \E k \in DOMAIN ss_list[n][t] : ss_list[n][t][k] = s
  BY <1>1, ScheduledIs DEF BuildInv, Scheduled
<1>3. \A s \in Shards(n) : cnt[n][s] \in Nat
  BY <1>1, CountFacts
<1>4. ASSUME NEW s \in Shards(n)
      PROVE  Cardinality(Entries(n, s)) = IF cnt[n][s] = 0 THEN 0 ELSE 1
  <2>1. \A z : z \in Entries(n, s) <=>
          \E t \in Thread : \E k \in DOMAIN ss_list[n][t] : ss_list[n][t][k] = s /\ z = <<t, k>>
    BY DEF Entries
  <2>2. CASE cnt[n][s] = 0
    <3>1. ASSUME NEW t \in Thread, NEW k \in DOMAIN ss_list[n][t] PROVE ss_list[n][t][k] # s
      BY <1>2, <1>3, <2>2 DEF PlacedOnce
    <3>2. Entries(n, s) = {}
      BY <2>1, <3>1
    <3>3. Cardinality({}) = 0
      BY FS_EmptySet
    <3> QED BY <2>2, <3>2, <3>3
  <2>3. CASE cnt[n][s] # 0
    <3>1. PICK t \in Thread : \E k \in DOMAIN ss_list[n][t] : ss_list[n][t][k] = s
      BY <1>2, <1>3, <2>3
    <3>2. PICK k \in DOMAIN ss_list[n][t] : ss_list[n][t][k] = s
      BY <3>1
    <3>3. ASSUME NEW v \in Thread, NEW j \in DOMAIN ss_list[n][v], ss_list[n][v][j] = s
          PROVE  v = t /\ j = k
      BY <1>2, <3>2, <3>3 DEF PlacedOnce
    <3>4. Entries(n, s) = {<<t, k>>}
      BY <2>1, <3>2, <3>3
    <3>5. Cardinality({<<t, k>>}) = 1
      BY FS_Singleton
    <3> QED BY <2>3, <3>4, <3>5
  <2> QED BY <2>2, <2>3
<1>5. ASSUME NEW t \in Thread, NEW j \in DOMAIN ss_list[n][t], NEW k \in DOMAIN ss_list[n][t], j < k
      PROVE  cnt[n][ss_list[n][t][j]] >= cnt[n][ss_list[n][t][k]]
  <2>1. /\ cnt[n][ss_list[n][t][k]] =< cnt[n][ss_list[n][t][j]]
        /\ ss_list[n][t][k] \in Shards(n) /\ ss_list[n][t][j] \in Shards(n)
    BY <1>2, <1>5 DEF PlacedOnce
  <2> QED BY <1>3, <2>1
<1> QED BY <1>4, <1>5

(* What build_flycoo leaves to the sweep, for every tensor and team: shard *)
(* ranges and remap cursors are the closed forms ReserveDisjoint and the   *)
(* sweeps' proofs rest on, the bitmaps hold exactly the rows a kernel      *)
(* writes, and every nonempty shard is on one list, once, largest first.   *)
THEOREM TablesAlwaysExact == NoWrap => (Spec => []TablesExact)
<1> SUFFICES ASSUME NoWrap PROVE Spec => []TablesExact
  OBVIOUS
<1>1. BuildInv => TouchedExact
  BY DEF BuildInv, ReducedInv, Swapped, TouchedExact, Done
<1>2. BuildInv => TablesExact
  BY <1>1, PlanExactly, ScheduleExactly DEF TablesExact
<1> QED BY <1>2, BuildInvariance, PTL

LEMMA HandoverHolds == ASSUME BuildInv, NoWrap PROVE Handover
<1> DEFINE from == [d \in Slot |-> CHOOSE c \in Slot : scr[c] = vals[d]]
           key  == [e \in Elem |-> Shard(0, e)]
<1> SUFFICES ASSUME Done
             PROVE  /\ scr \in [Slot -> Elem] /\ vals \in [Slot -> Elem]
                    /\ Plan!Grouped(vals, 0)
                    /\ Plan!StableOrder(from, Slot, scr, key)
  BY DEF Handover
<1>1. pc = "done" /\ Swapped /\ pc # "shape" /\ ShapeInv
  BY DEF Done, Swapped, BuildInv
<1>2. /\ 0 \in Mode /\ nnz \in Nat
      /\ \A i \in Slot : i \in Nat /\ i + 1 \in Elem
      /\ \A e \in Elem : e \in Nat /\ e - 1 \in Slot
      /\ \A i \in Slot : Shard(0, i + 1) \in Nat
  BY <1>1, SlotFacts
<1>3. scr = InputOrder /\ scr \in [Slot -> Elem]
  BY <1>1, <1>2 DEF BuildInv, PartInv, InputOrder
<1>4. vals \in Bijection(Slot, Elem) /\ vals \in [Slot -> Elem]
  BY <1>1, SlabBijection DEF Bijection, Injection
<1>5. ASSUME NEW d \in Slot
      PROVE  from[d] \in Slot /\ vals[d] = from[d] + 1 /\ Target(from[d]) = d
             /\ scr[from[d]] = vals[d] /\ from[d] \in Nat
  <2>1. PICK i \in Slot : d = Target(i) /\ vals[d] = i + 1
    BY <1>1, PlacedAt
  <2>2. \A c \in Slot : scr[c] = vals[d] <=> c = i
    BY <1>2, <1>3, <2>1 DEF InputOrder
  <2>3. from[d] = i
    BY <2>1, <2>2
  <2> HIDE DEF from
  <2> QED BY <1>2, <2>1, <2>2, <2>3
<1>6. Plan!Grouped(vals, 0)
  <2>1. ASSUME NEW d \in Slot
        PROVE  d \in Plan!ShardRange(0, Plan!Shard(0, vals[d]))
    <3>1. PICK i \in Slot : d = Target(i) /\ vals[d] = i + 1
      BY <1>1, PlacedAt
    <3> DEFINE s == Shard(0, i + 1)
               A == {e \in Elem : Shard(0, e) < s}
               B == {e \in Elem : Shard(0, e) =< s}
               C == {j \in Slot : Shard(0, j + 1) < s}
               D == {j \in Slot : Shard(0, j + 1) =< s}
    <3>2. Plan!Shard(0, vals[d]) = s /\ \A e \in Elem : Plan!Shard(0, e) = Shard(0, e)
      BY <1>1, <1>2, <3>1, PlanShard
    <3>3. Plan!ShardBegin(0, s) = Cardinality(A) /\ Plan!ShardEnd(0, s) = Cardinality(B)
      <4>1. /\ Plan!ShardBegin(0, s) = Cardinality({e \in Elem : Plan!Shard(0, e) < s})
            /\ Plan!ShardEnd(0, s) = Cardinality({e \in Elem : Plan!Shard(0, e) =< s})
        BY PlanCardinality DEF Plan!ShardBegin, Plan!ShardEnd
      <4>2. /\ {e \in Elem : Plan!Shard(0, e) < s} = A
            /\ {e \in Elem : Plan!Shard(0, e) =< s} = B
        BY <3>2
      <4> QED BY <4>1, <4>2
    <3>4. Cardinality(C) = Cardinality(A) /\ Cardinality(D) = Cardinality(B)
      <4> DEFINE g == [j \in Slot |-> j + 1]
      <4>1. g \in [Slot -> Elem] /\ (\A j, k \in Slot : g[j] = g[k] => j = k)
            /\ \A e \in Elem : \E j \in Slot : g[j] = e
        <5>1. \A e \in Elem : e - 1 \in Slot /\ (e - 1) + 1 = e
          BY <1>2
        <5> QED BY <1>2, <5>1
      <4>2. C = {j \in Slot : g[j] \in A} /\ D = {j \in Slot : g[j] \in B}
        BY <1>2
      <4>3. A \in SUBSET Elem /\ IsFiniteSet(A) /\ B \in SUBSET Elem /\ IsFiniteSet(B)
        BY <1>1, SlotSets
      <4> HIDE DEF g, A, B
      <4>4. g \in Bijection(Slot, Elem)
        BY <4>1 DEF Bijection, Injection, Surjection, IsInjective
      <4>5. /\ Cardinality({j \in Slot : g[j] \in A}) = Cardinality(A)
            /\ Cardinality({j \in Slot : g[j] \in B}) = Cardinality(B)
        BY <4>3, <4>4, Recounted
      <4> QED BY <4>2, <4>5
    <3>5. C \subseteq Lower(s, i) /\ Lower(s, i) \subseteq D /\ i \in D /\ i \notin Lower(s, i)
      BY <1>2 DEF Lower
    <3>6. D \in SUBSET Slot /\ Lower(s, i) \in SUBSET Slot /\ C \in SUBSET Slot
      BY LowerSets, <1>1
    <3> HIDE DEF A, B, C, D
    <3>7. Cardinality(C) =< Cardinality(Lower(s, i))
      <4>1. IsFiniteSet(Lower(s, i))
        BY <1>1, LowerSets
      <4> QED BY <3>5, <4>1, FS_Subset
    <3>8. Cardinality(Lower(s, i)) < Cardinality(D)
      BY <1>1, <3>5, <3>6, SmallerSet
    <3>9. Cardinality(C) \in Nat /\ Cardinality(Lower(s, i)) \in Nat /\ Cardinality(D) \in Nat
      BY <1>1, <3>6, SlotSets
    <3>10. d = Cardinality(Lower(s, i))
      BY <3>1 DEF Target
    <3> HIDE DEF s
    <3>11. Plan!ShardRange(0, s) = Cardinality(C) .. Cardinality(D) - 1
      BY <3>3, <3>4 DEF Plan!ShardRange
    <3> QED BY <3>2, <3>7, <3>8, <3>9, <3>10, <3>11
  <2>2. Plan!Slot = Slot
    <3>1. Cardinality(Elem) = nnz
      BY <1>1, SlotSets
    <3> QED BY <3>1, PlanCardinality DEF Plan!Slot, Plan!nnz, Slot
  <2>3. vals \in Plan!Bijection(Plan!Slot, Elem)
    BY <1>4, <2>2 DEF Plan!Bijection, Plan!Injection, Plan!Surjection, Plan!IsInjective,
                      Bijection, Injection, Surjection, IsInjective
  <2> QED BY <2>1, <2>2, <2>3 DEF Plan!Grouped
<1>7. Plan!StableOrder(from, Slot, scr, key)
  <2>0. from \in [Slot -> Slot]
    BY <1>5
  <2> HIDE DEF from
  <2>1. from \in Bijection(Slot, Slot)
    <3>1. \A c, d \in Slot : from[c] = from[d] => c = d
      BY <1>5
    <3>2. \A c \in Slot : \E d \in Slot : from[d] = c
      <4> SUFFICES ASSUME NEW c \in Slot PROVE \E d \in Slot : from[d] = c
        OBVIOUS
      <4>1. PICK d \in Slot : vals[d] = c + 1
        BY <1>2, <1>4 DEF Bijection, Surjection
      <4>2. from[d] \in Nat /\ c \in Nat /\ vals[d] = from[d] + 1
        BY <1>2, <1>5
      <4> QED BY <4>1, <4>2
    <3> QED BY <2>0, <3>1, <3>2 DEF Bijection, Injection, Surjection, IsInjective
  <2>2. ASSUME NEW c \in Slot, NEW d \in Slot, c < d
        PROVE  \/ key[scr[from[c]]] < key[scr[from[d]]]
               \/ key[scr[from[c]]] = key[scr[from[d]]] /\ from[c] < from[d]
    <3>1. PICK i \in Slot : i = from[c]
      BY <1>5
    <3>2. PICK j \in Slot : j = from[d]
      BY <1>5
    <3>3. Target(i) = c /\ Target(j) = d /\ scr[i] = i + 1 /\ scr[j] = j + 1
      BY <1>5, <3>1, <3>2
    <3>4. key[scr[i]] = Shard(0, i + 1) /\ key[scr[j]] = Shard(0, j + 1)
      BY <1>2, <3>3
    <3>5. /\ Shard(0, i + 1) \in Nat /\ Shard(0, j + 1) \in Nat /\ i \in Nat /\ j \in Nat
          /\ c \in Nat /\ d \in Nat
      BY <1>2
    <3>6. ASSUME \/ Shard(0, j + 1) < Shard(0, i + 1)
                 \/ Shard(0, j + 1) = Shard(0, i + 1) /\ j < i
          PROVE  FALSE
      <4>1. Target(j) < Target(i)
        BY <1>1, <3>6, TargetOrder
      <4> QED BY <2>2, <3>3, <3>5, <4>1
    <3>7. i # j
      BY <2>2, <3>3, <3>5
    <3> HIDE DEF key
    <3> QED BY <3>1, <3>2, <3>4, <3>5, <3>6, <3>7
  <2>3. from \in Plan!Bijection(Slot, Slot)
    BY <2>1 DEF Plan!Bijection, Plan!Injection, Plan!Surjection, Plan!IsInjective,
                Bijection, Injection, Surjection, IsInjective
  <2> HIDE DEF key
  <2> QED BY <2>2, <2>3 DEF Plan!StableOrder
<1> QED BY <1>3, <1>4, <1>6, <1>7

(* The slab the first process(0) finds holds every nonzero once, grouped   *)
(* by mode-0 shard and in input order within one, and the scratch slab     *)
(* still holds the input order.                                            *)
THEOREM HandoverIsStable == NoWrap => (Spec => []Handover)
<1> SUFFICES ASSUME NoWrap PROVE Spec => []Handover
  OBVIOUS
<1> QED BY HandoverHolds, BuildInvariance, PTL

-----------------------------------------------------------------------------
(* The schedule: Graham's bound.                                           *)

\* Two disjoint parts of a set.
LEMMA DisjointParts ==
  ASSUME NEW C, IsFiniteSet(C), NEW A \in SUBSET C, NEW B \in SUBSET C, A \cap B = {}
  PROVE  /\ Cardinality(A) \in Nat /\ Cardinality(B) \in Nat /\ Cardinality(C) \in Nat
         /\ Cardinality(A) + Cardinality(B) =< Cardinality(C)
         /\ IsFiniteSet(A \cup B) /\ Cardinality(A \cup B) = Cardinality(A) + Cardinality(B)
<1>1. IsFiniteSet(A) /\ IsFiniteSet(B)
  BY FS_Subset
<1>2. IsFiniteSet(A \cup B) /\ Cardinality(A \cup B) = Cardinality(A) + Cardinality(B) - Cardinality(A \cap B)
  BY <1>1, FS_Union
<1>3. Cardinality(A \cap B) = 0
  BY FS_EmptySet
<1>4. A \cup B \subseteq C
  OBVIOUS
<1>5. Cardinality(A \cup B) =< Cardinality(C)
  BY <1>4, FS_Subset
<1>6. Cardinality(A) \in Nat /\ Cardinality(B) \in Nat /\ Cardinality(C) \in Nat
  BY <1>1, FS_CardinalityType
<1> QED BY <1>2, <1>3, <1>5, <1>6

\* The elements g sends to q.
Fiber(D, g, q) == {e \in D : g[e] = q}

\* A set divided into k parts, each of lo to hi elements.
LEMMA PartsSum ==
  ASSUME NEW k \in Nat, NEW D, IsFiniteSet(D), NEW h, \A x \in D : h[x] \in 0 .. k - 1,
         NEW lo \in Nat, NEW hi \in Nat,
         \A t \in 0 .. k - 1 : lo =< Cardinality(Fiber(D, h, t)) /\ Cardinality(Fiber(D, h, t)) =< hi
  PROVE  k * lo =< Cardinality(D) /\ Cardinality(D) =< k * hi
<1> DEFINE Below(i) == {x \in D : h[x] < i}
           Part(t)  == {x \in D : h[x] = t}
           S == {i \in Nat : i =< k => i * lo =< Cardinality(Below(i)) /\ Cardinality(Below(i)) =< i * hi}
<1>1. 0 \in S
  <2>1. Below(0) = {}
    OBVIOUS
  <2>2. Cardinality(Below(0)) = 0
    BY <2>1, FS_EmptySet
  <2> HIDE DEF Below
  <2> QED BY <2>2
<1>2. ASSUME NEW i \in Nat, i \in S PROVE i + 1 \in S
  <2> SUFFICES ASSUME i + 1 =< k
               PROVE  (i + 1) * lo =< Cardinality(Below(i + 1)) /\ Cardinality(Below(i + 1)) =< (i + 1) * hi
    <3> HIDE DEF Below
    <3> QED OBVIOUS
  <2>1. i \in 0 .. k - 1
    OBVIOUS
  <2>2. i * lo =< Cardinality(Below(i)) /\ Cardinality(Below(i)) =< i * hi
    BY <1>2, <2>1
  <2>3. lo =< Cardinality(Part(i)) /\ Cardinality(Part(i)) =< hi
    BY <2>1 DEF Fiber
  <2>4. Below(i) \in SUBSET D /\ Part(i) \in SUBSET D /\ Below(i) \cap Part(i) = {} /\ Below(i + 1) = Below(i) \cup Part(i)
    OBVIOUS
  <2> HIDE DEF Below, Part
  <2>5. /\ Cardinality(Below(i + 1)) = Cardinality(Below(i)) + Cardinality(Part(i))
        /\ Cardinality(Below(i)) \in Nat /\ Cardinality(Part(i)) \in Nat
    <3>1. IsFiniteSet(Below(i)) /\ IsFiniteSet(Part(i))
      BY <2>4, FS_Subset
    <3>2. Cardinality(Below(i) \cup Part(i))
            = Cardinality(Below(i)) + Cardinality(Part(i)) - Cardinality(Below(i) \cap Part(i))
      BY <3>1, FS_Union, Zenon
    <3>3. Cardinality(Below(i) \cap Part(i)) = 0
      BY <2>4, FS_EmptySet
    <3>4. Cardinality(Below(i)) \in Nat /\ Cardinality(Part(i)) \in Nat
      BY <3>1, FS_CardinalityType
    <3>5. Cardinality(Below(i + 1)) = Cardinality(Below(i) \cup Part(i))
      BY <2>4, Zenon
    <3> QED BY <3>2, <3>3, <3>4, <3>5
  <2>6. (i + 1) * lo = i * lo + lo /\ (i + 1) * hi = i * hi + hi /\ i * lo \in Nat /\ i * hi \in Nat
    OBVIOUS
  <2> QED BY <2>2, <2>3, <2>5, <2>6
<1>3. k \in S
  <2> HIDE DEF S
  <2> QED BY <1>1, <1>2, SetInduction
<1>4. Below(k) = D
  OBVIOUS
<1> HIDE DEF Below
<1> QED BY <1>3, <1>4

\* A set in which no three elements are different.
LEMMA AtMostTwo ==
  ASSUME NEW X, IsFiniteSet(X), \A x, y, z \in X : x = y \/ x = z \/ y = z
  PROVE  Cardinality(X) =< 2
<1>1. CASE X = {}
  BY <1>1, FS_EmptySet
<1>2. CASE X # {}
  <2>1. PICK x \in X : TRUE
    BY <1>2
  <2>2. PICK y \in X : X = {x, y}
    <3>1. CASE X = {x}
      BY <2>1, <3>1
    <3>2. CASE X # {x}
      <4>1. PICK y \in X : y # x
        BY <2>1, <3>2
      <4>2. X = {x, y}
        BY <2>1, <4>1
      <4> QED BY <4>2
    <3> QED BY <3>1, <3>2
  <2>3. IsFiniteSet({x}) /\ Cardinality({x}) = 1
    BY FS_Singleton
  <2>4. Cardinality({x} \cup {y}) =< 2
    <3>1. CASE y = x
      <4>1. {x} \cup {y} = {x}
        BY <3>1
      <4> QED BY <2>3, <4>1
    <3>2. CASE y # x
      <4>1. Cardinality({x} \cup {y}) = Cardinality({x}) + 1
        BY <2>3, <3>2, FS_AddElement
      <4> QED BY <2>3, <4>1
    <3> QED BY <3>1, <3>2
  <2>5. X = {x} \cup {y}
    BY <2>2
  <2> QED BY <2>4, <2>5
<1> QED BY <1>1, <1>2

\* A set with two different elements.
LEMMA AtLeastTwo ==
  ASSUME NEW X, IsFiniteSet(X), NEW x \in X, NEW y \in X, x # y
  PROVE  2 =< Cardinality(X)
<1>1. {x} \in SUBSET X /\ {y} \in SUBSET X /\ {x} \cap {y} = {}
  OBVIOUS
<1>2. Cardinality({x}) = 1 /\ Cardinality({y}) = 1
  BY FS_Singleton
<1>3. Cardinality({x}) + Cardinality({y}) =< Cardinality(X)
  BY <1>1, DisjointParts
<1> QED BY <1>2, <1>3

\* The elements that g sends into K, and o on to t.
LoadAt(D, g, K, o, t) == {e \in D : g[e] \in K /\ o[g[e]] = t}

\* If the next shard s is no larger than those placed, by o on k threads, and
\* more than a third of a bound M on the loads of some schedule f of all the
\* shards, then the least loaded thread has room for it below M.
LEMMA LargeFits ==
  ASSUME NEW k \in Nat \ {0}, NEW D, IsFiniteSet(D), NEW Z, IsFiniteSet(Z), NEW g \in [D -> Z],
         NEW K \in SUBSET Z, NEW s \in Z \ K,
         NEW o \in [K -> 0 .. k - 1], NEW f \in [Z -> 0 .. k - 1], NEW M \in Nat, NEW l \in Nat,
         \A q \in K : Cardinality(Fiber(D, g, s)) =< Cardinality(Fiber(D, g, q)),
         \A t \in 0 .. k - 1 : l =< Cardinality(LoadAt(D, g, K, o, t)),
         \A t \in 0 .. k - 1 : Cardinality(LoadAt(D, g, Z, f, t)) =< M,
         M < 3 * Cardinality(Fiber(D, g, s))
  PROVE  l + Cardinality(Fiber(D, g, s)) =< M
<1> DEFINE T == 0 .. k - 1
           F(q) == Fiber(D, g, q)
           c == Cardinality(F(s))
           alone == {q \in K : \A r \in K : o[r] = o[q] => r = q}
           Y == K \cup {s}
<1>1. \A q : F(q) \in SUBSET D /\ IsFiniteSet(F(q)) /\ Cardinality(F(q)) \in Nat
  <2> SUFFICES ASSUME NEW q PROVE F(q) \in SUBSET D /\ IsFiniteSet(F(q)) /\ Cardinality(F(q)) \in Nat
    OBVIOUS
  <2>1. F(q) \in SUBSET D
    BY DEF Fiber
  <2>2. IsFiniteSet(F(q))
    BY <2>1, FS_Subset
  <2> QED BY <2>1, <2>2, FS_CardinalityType
<1>2. ASSUME NEW q \in Z
      PROVE  F(q) \in SUBSET LoadAt(D, g, Z, f, f[q])
  BY DEF Fiber, LoadAt
<1>3. ASSUME NEW t \in T
      PROVE  IsFiniteSet(LoadAt(D, g, Z, f, t)) /\ Cardinality(LoadAt(D, g, Z, f, t)) =< M
             /\ Cardinality(LoadAt(D, g, Z, f, t)) \in Nat
  <2>1. LoadAt(D, g, Z, f, t) \in SUBSET D
    BY DEF LoadAt
  <2>2. IsFiniteSet(LoadAt(D, g, Z, f, t))
    BY <2>1, FS_Subset
  <2> QED BY <2>2, FS_CardinalityType
<1>4. \A q, r : q # r => F(q) \cap F(r) = {}
  BY DEF Fiber
<1>5. \A q \in Y : q \in Z /\ c =< Cardinality(F(q))
  BY <1>1
<1>6. \A q \in Z : f[q] \in T
  OBVIOUS
<1> SUFFICES ASSUME M < l + c PROVE FALSE
  BY <1>1
<1> HIDE DEF F, T
<1>7. ASSUME NEW q \in Z, NEW r \in Z, q # r, f[q] = f[r]
      PROVE  Cardinality(F(q)) + Cardinality(F(r)) =< M
  <2>1. F(q) \in SUBSET LoadAt(D, g, Z, f, f[q]) /\ F(r) \in SUBSET LoadAt(D, g, Z, f, f[q])
    BY <1>2, <1>7
  <2>2. Cardinality(F(q)) + Cardinality(F(r)) =< Cardinality(LoadAt(D, g, Z, f, f[q]))
    BY <1>3, <1>4, <1>6, <1>7, <2>1, DisjointParts
  <2>3. Cardinality(LoadAt(D, g, Z, f, f[q])) =< M /\ Cardinality(LoadAt(D, g, Z, f, f[q])) \in Nat
    BY <1>3, <1>6
  <2> QED BY <1>1, <2>2, <2>3
<1>8. ASSUME NEW q \in Y, NEW r \in Y, NEW u \in Y, q # r, q # u, r # u, f[q] = f[r], f[q] = f[u]
      PROVE  FALSE
  <2> DEFINE L == LoadAt(D, g, Z, f, f[q])
  <2>1. F(q) \in SUBSET L /\ F(r) \in SUBSET L /\ F(u) \in SUBSET L
    BY <1>2, <1>5, <1>8
  <2>2. IsFiniteSet(L) /\ Cardinality(L) =< M /\ Cardinality(L) \in Nat
    BY <1>3, <1>5, <1>6
  <2> HIDE DEF L
  <2>3. Cardinality(F(q) \cup F(r)) = Cardinality(F(q)) + Cardinality(F(r))
    <3>1. F(q) \cap F(r) = {}
      BY <1>4, <1>8
    <3>2. IsFiniteSet(F(q)) /\ IsFiniteSet(F(r)) /\ Cardinality({}) = 0
      BY <1>1, FS_EmptySet
    <3>3. Cardinality(F(q) \cup F(r)) = Cardinality(F(q)) + Cardinality(F(r)) - Cardinality(F(q) \cap F(r))
      BY <3>2, FS_Union, Zenon
    <3>4. Cardinality(F(q) \cap F(r)) = 0
      BY <3>1, <3>2
    <3>5. Cardinality(F(q)) \in Nat /\ Cardinality(F(r)) \in Nat
      BY <1>1
    <3> QED BY <3>3, <3>4, <3>5
  <2>4. F(q) \cup F(r) \in SUBSET L /\ (F(q) \cup F(r)) \cap F(u) = {}
    BY <1>4, <1>8, <2>1
  <2>5. Cardinality(F(q) \cup F(r)) + Cardinality(F(u)) =< Cardinality(L)
    BY <2>1, <2>2, <2>4, DisjointParts
  <2>6. c =< Cardinality(F(q)) /\ c =< Cardinality(F(r)) /\ c =< Cardinality(F(u))
    BY <1>5
  <2>7. c \in Nat /\ M < 3 * c
    BY <1>1 DEF F
  <2> HIDE DEF c
  <2> QED BY <1>1, <2>2, <2>3, <2>5, <2>6, <2>7
<1>9. ASSUME NEW t \in T PROVE \E q \in K : o[q] = t
  <2> SUFFICES ASSUME \A q \in K : o[q] # t PROVE FALSE
    OBVIOUS
  <2>1. LoadAt(D, g, K, o, t) = {}
    BY DEF LoadAt
  <2>2. l =< 0
    BY <2>1, FS_EmptySet DEF T
  <2>3. s \in Z /\ f[s] \in T
    BY <1>6
  <2>4. c =< Cardinality(LoadAt(D, g, Z, f, f[s]))
    BY <1>2, <1>3, <2>3, FS_Subset
  <2>5. c =< M
    BY <1>1, <1>3, <2>3, <2>4
  <2> QED BY <1>1, <2>2, <2>5
<1>10. ASSUME NEW q \in alone PROVE l =< Cardinality(F(q))
  <2>1. q \in K /\ o[q] \in T
    BY DEF T
  <2>2. LoadAt(D, g, K, o, o[q]) \subseteq F(q)
    BY <2>1 DEF LoadAt, F, Fiber
  <2>3. Cardinality(LoadAt(D, g, K, o, o[q])) =< Cardinality(F(q)) /\ IsFiniteSet(LoadAt(D, g, K, o, o[q]))
    BY <1>1, <2>2, FS_Subset
  <2>4. l =< Cardinality(LoadAt(D, g, K, o, o[q])) /\ Cardinality(LoadAt(D, g, K, o, o[q])) \in Nat
    BY <2>1, <2>3, FS_CardinalityType DEF T
  <2> QED BY <1>1, <2>3, <2>4
<1>11. ASSUME NEW q \in alone, NEW r \in Y, r # q PROVE f[r] # f[q]
  <2> SUFFICES ASSUME f[q] = f[r] PROVE FALSE
    OBVIOUS
  <2>1. q \in Z /\ r \in Z
    BY <1>5
  <2>2. Cardinality(F(q)) + Cardinality(F(r)) =< M
    BY <1>7, <1>11, <2>1
  <2>3. l =< Cardinality(F(q)) /\ c =< Cardinality(F(r))
    BY <1>5, <1>10
  <2> QED BY <1>1, <2>2, <2>3
\* A shard counts once, and once more when it is alone on its thread.
<1> DEFINE E == {d \in K \X {1, 2} : d[2] = 2 => d[1] \in alone}
           G == E \cup {<<s, 1>>}
           ho == [d \in E |-> o[d[1]]]
           hf == [d \in G |-> f[d[1]]]
<1>12. IsFiniteSet(E) /\ Cardinality(E) \in Nat /\ IsFiniteSet(G) /\ Cardinality(G) = Cardinality(E) + 1
  <2>1. IsFiniteSet(K) /\ IsFiniteSet({1, 2})
    <3>1. IsFiniteSet(K)
      BY FS_Subset
    <3>2. IsFiniteSet({1} \cup {2})
      BY FS_Singleton, FS_Union
    <3>3. {1} \cup {2} = {1, 2}
      OBVIOUS
    <3> QED BY <3>1, <3>2, <3>3
  <2>2. IsFiniteSet(K \X {1, 2})
    BY <2>1, FS_Product
  <2>3. E \subseteq K \X {1, 2}
    OBVIOUS
  <2>4. IsFiniteSet(E)
    BY <2>2, <2>3, FS_Subset
  <2>5. <<s, 1>> \notin E
    OBVIOUS
  <2> HIDE DEF E
  <2> QED BY <2>4, <2>5, FS_AddElement, FS_CardinalityType
<1>13. k * 2 =< Cardinality(E)
  <2>1. ASSUME NEW t \in 0 .. k - 1
        PROVE  2 =< Cardinality(Fiber(E, ho, t)) /\ Cardinality(Fiber(E, ho, t)) =< Cardinality(E)
    <3> DEFINE X == {d \in E : ho[d] = t}
    <3>1. IsFiniteSet(X) /\ Cardinality(X) =< Cardinality(E)
      <4>1. X \subseteq E
        OBVIOUS
      <4> HIDE DEF X, E
      <4> QED BY <1>12, <4>1, FS_Subset
    <3>2. PICK q \in K : o[q] = t
      BY <1>9 DEF T
    <3>3. <<q, 1>> \in X
      BY <3>2
    <3>4. \E d \in X : d # <<q, 1>>
      <4>1. CASE q \in alone
        <5>1. <<q, 2>> \in X
          BY <3>2, <4>1
        <5> QED BY <5>1
      <4>2. CASE q \notin alone
        <5>1. PICK r \in K : o[r] = o[q] /\ r # q
          BY <4>2
        <5>2. <<r, 1>> \in X
          BY <3>2, <5>1
        <5> QED BY <5>1, <5>2
      <4> QED BY <4>1, <4>2
    <3> HIDE DEF X
    <3>5. 2 =< Cardinality(X)
      BY <3>1, <3>3, <3>4, AtLeastTwo
    <3> QED BY <3>1, <3>5 DEF X, Fiber
  <2>2. \A d \in E : ho[d] \in 0 .. k - 1
    OBVIOUS
  <2> HIDE DEF E, ho
  <2>3. k \in Nat /\ 2 \in Nat /\ Cardinality(E) \in Nat
    BY <1>12
  <2>4. k * 2 =< Cardinality(E) /\ Cardinality(E) =< k * Cardinality(E)
    BY <1>12, <2>1, <2>2, <2>3, PartsSum, Zenon
  <2> QED BY <2>4
<1>14. Cardinality(G) =< k * 2
  <2>1. ASSUME NEW t \in 0 .. k - 1
        PROVE  0 =< Cardinality(Fiber(G, hf, t)) /\ Cardinality(Fiber(G, hf, t)) =< 2
    <3> DEFINE X == {d \in G : hf[d] = t}
    <3>1. IsFiniteSet(X) /\ Cardinality(X) \in Nat
      <4>1. X \subseteq G
        OBVIOUS
      <4> HIDE DEF X, G
      <4> QED BY <1>12, <4>1, FS_Subset, FS_CardinalityType
    <3>2. \A d \in X : /\ d = <<d[1], d[2]>> /\ d[1] \in Y /\ d[2] \in {1, 2} /\ f[d[1]] = t
                       /\ d[2] = 2 => d[1] \in alone
      OBVIOUS
    <3> HIDE DEF X, Y, G, E
    <3>3. ASSUME NEW x \in X, NEW y \in X, NEW z \in X, x # y, x # z, y # z PROVE FALSE
      <4>1. \A v \in X, w \in X : v[1] = w[1] /\ v # w => v[1] \in alone
        BY <3>2
      <4>2. \A v \in X, w \in X : v[1] \in alone => w[1] = v[1]
        BY <1>11, <3>2
      <4>3. ~ (x[1] = y[1] /\ x[1] = z[1])
        BY <3>2, <3>3
      <4>4. x[1] # y[1] /\ x[1] # z[1] /\ y[1] # z[1]
        BY <3>3, <4>1, <4>2, <4>3
      <4> QED BY <1>8, <3>2, <4>4
    <3>4. Cardinality(X) =< 2
      BY <3>1, <3>3, AtMostTwo
    <3> QED BY <3>1, <3>4 DEF X, Fiber
  <2>2. \A d \in G : hf[d] \in 0 .. k - 1
    <3>1. \A d \in G : d[1] \in Z
      OBVIOUS
    <3> QED BY <1>6, <3>1 DEF T
  <2> HIDE DEF G, hf
  <2>3. k \in Nat /\ 0 \in Nat /\ 2 \in Nat
    OBVIOUS
  <2>4. k * 0 =< Cardinality(G) /\ Cardinality(G) =< k * 2
    BY <1>12, <2>1, <2>2, <2>3, PartsSum, Zenon
  <2> QED BY <2>4
<1> HIDE DEF E, G
<1> QED BY <1>12, <1>13, <1>14

\* The next shard s in the order keeps the least loaded thread, and so every
\* thread, within Graham's bound of a schedule f whose loads are within M.
LEMMA GreedyStep ==
  ASSUME NEW k \in Nat \ {0}, NEW D, IsFiniteSet(D), NEW Z, IsFiniteSet(Z), NEW g \in [D -> Z],
         NEW K \in SUBSET Z, NEW s \in Z \ K,
         NEW o \in [K -> 0 .. k - 1], NEW f \in [Z -> 0 .. k - 1], NEW M \in Nat, NEW l \in Nat,
         \A q \in K : Cardinality(Fiber(D, g, s)) =< Cardinality(Fiber(D, g, q)),
         \A t \in 0 .. k - 1 : l =< Cardinality(LoadAt(D, g, K, o, t)),
         \A t \in 0 .. k - 1 : Cardinality(LoadAt(D, g, Z, f, t)) =< M
  PROVE  3 * k * (l + Cardinality(Fiber(D, g, s))) =< (4 * k - 1) * M
<1> DEFINE C == Fiber(D, g, s)
           c == Cardinality(C)
<1>1. C \in SUBSET D /\ IsFiniteSet(C) /\ c \in Nat
  <2>1. C \in SUBSET D
    BY DEF Fiber
  <2>2. IsFiniteSet(C)
    BY <2>1, FS_Subset
  <2> QED BY <2>1, <2>2, FS_CardinalityType
<1>2. CASE M < 3 * c
  <2>1. l + c =< M
    BY <1>2, LargeFits
  <2> HIDE DEF c
  <2>2. 3 * k \in Nat /\ M =< k * M /\ k * M \in Nat
    BY Times
  <2>3. 3 * k * (l + c) =< 3 * k * M
    BY <1>1, <2>1, <2>2, Times
  <2>4. 3 * k * M = 3 * (k * M) /\ (4 * k - 1) * M = 4 * (k * M) - M
    OBVIOUS
  <2> QED BY <1>1, <2>2, <2>3, <2>4 DEF c
<1>3. CASE 3 * c =< M
  <2> DEFINE A == {e \in D : g[e] \in K}
             oa == [e \in A |-> o[g[e]]]
             fd == [e \in D |-> f[g[e]]]
  <2>1. A \in SUBSET D /\ A \cap C = {}
    BY DEF Fiber
  <2>2. IsFiniteSet(A) /\ Cardinality(A) \in Nat /\ Cardinality(D) \in Nat /\ Cardinality(A) + c =< Cardinality(D)
    <3>1. IsFiniteSet(A)
      BY <2>1, FS_Subset
    <3> HIDE DEF A, C
    <3> QED BY <1>1, <2>1, <3>1, DisjointParts
  <2>3. k * l =< Cardinality(A)
    <3>1. ASSUME NEW t \in 0 .. k - 1
          PROVE  l =< Cardinality(Fiber(A, oa, t)) /\ Cardinality(Fiber(A, oa, t)) =< Cardinality(A)
      <4>1. Fiber(A, oa, t) = LoadAt(D, g, K, o, t)
        BY DEF Fiber, LoadAt
      <4>2. Fiber(A, oa, t) \subseteq A
        BY DEF Fiber
      <4> HIDE DEF A, oa
      <4>3. Cardinality(Fiber(A, oa, t)) =< Cardinality(A)
        BY <2>2, <4>2, FS_Subset
      <4> QED BY <4>1, <4>3
    <3>2. \A e \in A : oa[e] \in 0 .. k - 1
      OBVIOUS
    <3> HIDE DEF A, oa
    <3>3. k \in Nat /\ Cardinality(A) \in Nat
      BY <2>2
    <3>4. k * l =< Cardinality(A) /\ Cardinality(A) =< k * Cardinality(A)
      BY <2>2, <3>1, <3>2, <3>3, PartsSum, Zenon
    <3> QED BY <3>4
  <2>4. Cardinality(D) =< k * M
    <3>1. ASSUME NEW t \in 0 .. k - 1
          PROVE  0 =< Cardinality(Fiber(D, fd, t)) /\ Cardinality(Fiber(D, fd, t)) =< M
      <4>1. Fiber(D, fd, t) = LoadAt(D, g, Z, f, t)
        BY DEF Fiber, LoadAt
      <4>2. Fiber(D, fd, t) \subseteq D
        BY DEF Fiber
      <4> HIDE DEF fd
      <4>3. Cardinality(Fiber(D, fd, t)) \in Nat
        BY <4>2, FS_Subset, FS_CardinalityType
      <4> QED BY <4>1, <4>3
    <3>2. \A e \in D : fd[e] \in 0 .. k - 1
      OBVIOUS
    <3> HIDE DEF fd
    <3>3. k \in Nat /\ 0 \in Nat
      OBVIOUS
    <3>4. k * 0 =< Cardinality(D) /\ Cardinality(D) =< k * M
      BY <3>1, <3>2, <3>3, PartsSum, Zenon
    <3> QED BY <3>4
  <2> HIDE DEF A, c
  <2>5. (3 * c) * (k - 1) =< M * (k - 1)
    BY <1>1, <1>3, Times
  <2>6. /\ (3 * c) * (k - 1) = 3 * (k * c) - 3 * c /\ M * (k - 1) = k * M - M
        /\ 3 * k * (l + c) = 3 * (k * l) + 3 * (k * c) /\ (4 * k - 1) * M = 4 * (k * M) - M
        /\ k * l \in Nat /\ k * M \in Nat /\ k * c \in Nat
    BY <1>1
  <2> QED BY <1>1, <2>2, <2>3, <2>4, <2>5, <2>6 DEF c
<1>4. M < 3 * c \/ 3 * c =< M
  <2> HIDE DEF c
  <2> QED BY <1>1
<1> QED BY <1>2, <1>3, <1>4

\* The shards of mode n that are on a list, and the thread whose list it is.
ShardMap(n) == [e \in Elem |-> Shard(n, e)]
Listed(n)   == Loaded(n) \ todo[n]
ListOf(n)   == [s \in Listed(n) |-> CHOOSE t \in Thread : \E k \in DOMAIN ss_list[n][t] : ss_list[n][t][k] = s]

LEMMA ListFacts ==
  ASSUME BuildInv, NoWrap, Swapped, NEW n \in Mode
  PROVE  /\ IsFiniteSet(Elem) /\ IsFiniteSet(Loaded(n)) /\ P \in Nat \ {0} /\ Thread = 0 .. P - 1
         /\ ShardMap(n) \in [Elem -> Loaded(n)]
         /\ Listed(n) \in SUBSET Loaded(n) /\ ListOf(n) \in [Listed(n) -> Thread]
         /\ \A s \in Shards(n) : cnt[n][s] \in Nat /\ cnt[n][s] = Cardinality(Fiber(Elem, ShardMap(n), s))
         /\ \A t \in Thread : Assigned(n, t) = LoadAt(Elem, ShardMap(n), Listed(n), ListOf(n), t)
<1>1. /\ cnt[n] = [s \in Shards(n) |-> Cardinality({e \in Elem : Shard(n, e) = s})]
      /\ \A s \in Shards(n) : cnt[n][s] \in Nat
      /\ pc # "shape" /\ ShapeInv /\ Shards(n) \subseteq Nat
  BY CountFacts
<1>2. /\ \A e \in Elem : Shard(n, e) \in Shards(n)
      /\ ShardsPerMode(size[n], mn[n]) \in Nat /\ Shards(n) = 0 .. ShardsPerMode(size[n], mn[n]) - 1
  BY <1>1, ShardFacts
<1>3. IsFiniteSet(Elem) /\ \A A \in SUBSET Elem : IsFiniteSet(A)
  BY <1>1, SlotSets
<1>4. P \in Nat \ {0} /\ Thread = 0 .. P - 1
  BY <1>1, JobFacts DEF Thread
<1>5. \A s \in Shards(n) : cnt[n][s] = Cardinality(Fiber(Elem, ShardMap(n), s))
  BY <1>1 DEF Fiber, ShardMap
<1>6. ASSUME NEW e \in Elem PROVE Shard(n, e) \in Loaded(n)
  <2> DEFINE A == {x \in Elem : Shard(n, x) = Shard(n, e)}
  <2>1. A \in SUBSET Elem /\ e \in A
    OBVIOUS
  <2>2. cnt[n][Shard(n, e)] = Cardinality(A)
    BY <1>1, <1>2
  <2> HIDE DEF A
  <2>3. Cardinality(A) # 0
    BY <1>3, <2>1, FS_EmptySet
  <2> QED BY <1>1, <1>2, <2>2, <2>3 DEF Loaded
<1>7. IsFiniteSet(Loaded(n))
  <2>1. IsFiniteSet(Shards(n))
    <3>1. 0 \in Int /\ ShardsPerMode(size[n], mn[n]) - 1 \in Int
      BY <1>2
    <3> QED BY <1>2, <3>1, FS_Interval
  <2>2. Loaded(n) \subseteq Shards(n)
    BY DEF Loaded
  <2> QED BY <2>1, <2>2, FS_Subset
<1>8. /\ \A t \in Thread : \A k \in DOMAIN ss_list[n][t] : PlacedOnce(n, t, k)
      /\ \A s \in Shards(n) \ todo[n] : cnt[n][s] > 0 =>
           \E t \in Thread : \E k \in DOMAIN ss_list[n][t] : ss_list[n][t][k] = s
  BY ScheduledIs DEF Scheduled, BuildInv
<1>9. ASSUME NEW s \in Listed(n)
      PROVE  /\ ListOf(n)[s] \in Thread
             /\ \E k \in DOMAIN ss_list[n][ListOf(n)[s]] : ss_list[n][ListOf(n)[s]][k] = s
  <2>1. \E t \in Thread : \E k \in DOMAIN ss_list[n][t] : ss_list[n][t][k] = s
    BY <1>8 DEF Listed, Loaded
  <2> QED BY <2>1 DEF ListOf
<1>10. ASSUME NEW t \in Thread, NEW k \in DOMAIN ss_list[n][t]
       PROVE  ss_list[n][t][k] \in Listed(n) /\ ListOf(n)[ss_list[n][t][k]] = t
  <2>1. /\ ss_list[n][t][k] \in Listed(n)
        /\ \A v \in Thread : \A j \in DOMAIN ss_list[n][v] : ss_list[n][v][j] = ss_list[n][t][k] => v = t
    BY <1>8 DEF PlacedOnce, Listed, Loaded
  <2> QED BY <1>9, <2>1
<1>11. ShardMap(n) \in [Elem -> Loaded(n)]
  BY <1>6 DEF ShardMap
<1>12. Listed(n) \in SUBSET Loaded(n) /\ ListOf(n) \in [Listed(n) -> Thread]
  <2> DEFINE own(s) == CHOOSE t \in Thread : \E k \in DOMAIN ss_list[n][t] : ss_list[n][t][k] = s
  <2>1. ListOf(n) = [s \in Listed(n) |-> own(s)]
    BY DEF ListOf
  <2> HIDE DEF own
  <2>2. \A s \in Listed(n) : own(s) \in Thread
    BY <1>9, <2>1
  <2> QED BY <2>1, <2>2 DEF Listed
<1>13. ASSUME NEW t \in Thread
       PROVE  Assigned(n, t) = LoadAt(Elem, ShardMap(n), Listed(n), ListOf(n), t)
  <2>1. ASSUME NEW e \in Elem
        PROVE  (\E k \in DOMAIN ss_list[n][t] : ss_list[n][t][k] = Shard(n, e))
                 <=> (Shard(n, e) \in Listed(n) /\ ListOf(n)[Shard(n, e)] = t)
    BY <1>9, <1>10
  <2> QED BY <2>1 DEF Assigned, LoadAt, ShardMap
<1> QED BY <1>1, <1>3, <1>4, <1>5, <1>7, <1>11, <1>12, <1>13

\* The largest of a thread's loads.
LEMMA MakespanIs ==
  ASSUME P \in Nat \ {0}, NEW b \in Nat, NEW load \in [Thread -> 0 .. b]
  PROVE  /\ Makespan(load) \in Nat /\ \A t \in Thread : load[t] =< Makespan(load)
         /\ \E t \in Thread : Makespan(load) = load[t]
<1> DEFINE S == {load[t] : t \in Thread}
           R == {b - x : x \in S}
<1>1. S \subseteq 0 .. b /\ S # {}
  <2>1. 0 \in Thread
    BY DEF Thread
  <2> QED BY <2>1
<1> HIDE DEF S
<1>2. R \in SUBSET Nat /\ R # {}
  <2>1. \A x \in S : b - x \in Nat
    BY <1>1
  <2>2. \E x \in S : TRUE
    BY <1>1
  <2> QED BY <2>1, <2>2
<1>3. PICK r \in R : \A y \in R : r =< y
  BY <1>2, LeastElement
<1>4. PICK x \in S : r = b - x
  BY <1>3
<1>5. \A y \in S : x >= y
  <2> SUFFICES ASSUME NEW y \in S PROVE x >= y
    OBVIOUS
  <2>1. b - y \in R /\ b - x =< b - y
    BY <1>3, <1>4
  <2> QED BY <1>1, <2>1
<1>6. Max(S) \in S /\ \A y \in S : Max(S) >= y
  BY <1>5 DEF Max
<1>7. Makespan(load) = Max(S)
  BY DEF Makespan, S
<1>8. Makespan(load) \in S /\ Makespan(load) \in Nat /\ \A y \in S : y =< Makespan(load)
  <2>1. \A y \in S : y \in Nat
    BY <1>1
  <2> HIDE DEF R
  <2> QED BY <1>6, <1>7, <2>1
<1> QED BY <1>8 DEF S

\* The loads of a schedule are numbers of nonzeros.
LEMMA LoadsAre ==
  ASSUME BuildInv, NoWrap, Swapped, NEW n \in Mode, NEW f \in [Loaded(n) -> Thread]
  PROVE  /\ LoadOf(n, f) \in [Thread -> 0 .. nnz] /\ nnz \in Nat
         /\ Makespan(LoadOf(n, f)) \in 0 .. nnz
         /\ \A t \in Thread : Cardinality(LoadAt(Elem, ShardMap(n), Loaded(n), f, t)) =< Makespan(LoadOf(n, f))
<1>1. ShapeInv /\ ShardMap(n) \in [Elem -> Loaded(n)] /\ P \in Nat \ {0} /\ IsFiniteSet(Elem)
  BY ListFacts DEF BuildInv
<1>2. nnz \in Nat /\ Cardinality(Elem) = nnz
  BY <1>1, JobFacts, SlotSets
<1>3. ASSUME NEW t \in Thread
      PROVE  /\ LoadOf(n, f)[t] = Cardinality(LoadAt(Elem, ShardMap(n), Loaded(n), f, t))
             /\ LoadOf(n, f)[t] \in 0 .. nnz
  <2> DEFINE A == {e \in Elem : f[Shard(n, e)] = t}
  <2>1. A = LoadAt(Elem, ShardMap(n), Loaded(n), f, t)
    <3>1. \A e \in Elem : ShardMap(n)[e] = Shard(n, e) /\ Shard(n, e) \in Loaded(n)
      BY <1>1 DEF ShardMap
    <3> QED BY <3>1 DEF LoadAt
  <2>2. A \subseteq Elem
    OBVIOUS
  <2>3. LoadOf(n, f)[t] = Cardinality(A)
    BY DEF LoadOf
  <2> HIDE DEF A
  <2>4. IsFiniteSet(A) /\ Cardinality(A) =< nnz /\ Cardinality(A) \in Nat
    BY <1>1, <1>2, <2>2, FS_Subset, FS_CardinalityType
  <2> QED BY <1>2, <2>1, <2>3, <2>4
<1>4. LoadOf(n, f) \in [Thread -> 0 .. nnz]
  <2>1. LoadOf(n, f) = [t \in Thread |-> LoadOf(n, f)[t]]
    BY DEF LoadOf
  <2> QED BY <1>3, <2>1
<1>5. /\ \A t \in Thread : LoadOf(n, f)[t] =< Makespan(LoadOf(n, f))
      /\ \E t \in Thread : Makespan(LoadOf(n, f)) = LoadOf(n, f)[t]
  BY <1>1, <1>2, <1>4, MakespanIs
<1> QED BY <1>2, <1>3, <1>4, <1>5

LEMMA LoadsFrozen ==
  ASSUME job' = job, mn' = mn, cnt' = cnt, NEW n
  PROVE  /\ Loaded(n)' = Loaded(n) /\ Thread' = Thread /\ P' = P
         /\ \A f : LoadOf(n, f)' = LoadOf(n, f) /\ Makespan(LoadOf(n, f))' = Makespan(LoadOf(n, f))
<1>1. Thread' = Thread /\ P' = P /\ Elem' = Elem /\ Loaded(n)' = Loaded(n)
  BY Frozen DEF Loaded
<1>2. \A f : LoadOf(n, f)' = LoadOf(n, f)
  BY <1>1, Frozen DEF LoadOf
<1> QED BY <1>1, <1>2 DEF Makespan

LEMMA GreedyKept ==
  ASSUME job' = job, mn' = mn, cnt' = cnt, NEW m, Greedy(m),
         heap'[m] = heap[m], ss_list'[m] = ss_list[m]
  PROVE  Greedy(m)'
<1>1. \A t : Assigned(m, t)' = Assigned(m, t)
  BY Frozen DEF Assigned
<1>2. /\ Loaded(m)' = Loaded(m) /\ Thread' = Thread /\ P' = P
      /\ \A f : Makespan(LoadOf(m, f))' = Makespan(LoadOf(m, f))
  BY LoadsFrozen
<1> QED BY <1>1, <1>2 DEF Greedy

\* After the swap, and after the next step, schedules have loads.
HaveLoads ==
  BuildInv /\ NoWrap /\ Swapped =>
    \A n \in Mode : \A f \in [Loaded(n) -> Thread] : P \in Nat \ {0} /\ Makespan(LoadOf(n, f)) \in Nat

LEMMA HaveLoadsNow == HaveLoads
<1> SUFFICES ASSUME BuildInv, NoWrap, Swapped, NEW n \in Mode, NEW f \in [Loaded(n) -> Thread]
             PROVE  P \in Nat \ {0} /\ Makespan(LoadOf(n, f)) \in Nat
  BY DEF HaveLoads
<1>1. P \in Nat \ {0}
  BY ListFacts
<1>2. Makespan(LoadOf(n, f)) \in 0 .. nnz /\ nnz \in Nat
  BY LoadsAre
<1> QED BY <1>1, <1>2

LEMMA HaveLoadsNext == HaveLoads'
BY HaveLoadsNow, PTL

LEMMA SwapGreedy == ASSUME BuildInv, BuildInv', NoWrap, NoWrap', Swap PROVE GreedyInv'
<1>1. /\ Swapped' /\ job' = job /\ mn' = mn
      /\ heap' = [n \in Mode |-> [t \in Thread |-> 0]]
      /\ ss_list' = [n \in Mode |-> [t \in Thread |-> <<>>]]
  BY DEF Swap, Swapped
<1>2. Thread' = Thread
  BY <1>1, Frozen
<1>3. ASSUME NEW n \in Mode, NEW t \in Thread PROVE heap'[n][t] = Cardinality(Assigned(n, t)')
  <2>1. DOMAIN ss_list'[n][t] = {} /\ heap'[n][t] = 0
    BY <1>1
  <2>2. Assigned(n, t)' = {}
    BY <2>1 DEF Assigned
  <2> QED BY <2>1, <2>2, FS_EmptySet
<1>4. ASSUME NEW n \in Mode, NEW t \in Thread', NEW f \in [Loaded(n)' -> Thread']
      PROVE  3 * P' * heap'[n][t] =< (4 * P' - 1) * Makespan(LoadOf(n, f))'
  <2>1. Makespan(LoadOf(n, f))' \in Nat /\ P' \in Nat \ {0} /\ heap'[n][t] = 0
    <3>1. Makespan(LoadOf(n, f))' \in Nat /\ P' \in Nat \ {0}
      BY <1>1, HaveLoadsNext DEF HaveLoads
    <3> QED BY <1>1, <1>2, <3>1
  <2>2. PICK p \in Nat \ {0}, M \in Nat : p = P' /\ M = Makespan(LoadOf(n, f))'
    BY <2>1
  <2>3. 3 * p * 0 =< (4 * p - 1) * M
    <3>1. 4 * p - 1 \in Nat
      OBVIOUS
    <3>2. 0 * M =< (4 * p - 1) * M /\ 3 * p * 0 = 0
      BY <3>1, Times
    <3> QED BY <3>2
  <2> QED BY <2>1, <2>2, <2>3
<1> QED BY <1>1, <1>2, <1>3, <1>4 DEF GreedyInv, Greedy

LEMMA AssignGreedy ==
  ASSUME BuildInv, BuildInv', NoWrap, NEW n \in Mode, Assign(n), Greedy(n)
  PROVE  Greedy(n)'
<1>1. /\ pc = "schedule" /\ Swapped /\ job' = job /\ mn' = mn /\ cnt' = cnt
  BY DEF Assign, Swapped
<1>2. PICK s \in Largest(n) \ Skipped(n) :
        /\ todo' = [todo EXCEPT ![n] = @ \ {s}]
        /\ ss_list' = [ss_list EXCEPT ![n][HeapTop(n)] = Append(@, s)]
        /\ heap' = [heap EXCEPT ![n][HeapTop(n)] = @ + cnt[n][s]]
  BY DEF Assign
<1> DEFINE g == ShardMap(n)
<1>3. Scheduled(n) /\ DOMAIN heap = Mode /\ DOMAIN ss_list = Mode
  BY <1>1, ScheduledIs DEF BuildInv
<1>4. /\ IsFiniteSet(Elem) /\ IsFiniteSet(Loaded(n)) /\ P \in Nat \ {0} /\ Thread = 0 .. P - 1
      /\ g \in [Elem -> Loaded(n)]
      /\ Listed(n) \in SUBSET Loaded(n) /\ ListOf(n) \in [Listed(n) -> Thread]
      /\ \A x \in Shards(n) : cnt[n][x] \in Nat /\ cnt[n][x] = Cardinality(Fiber(Elem, g, x))
      /\ \A t \in Thread : Assigned(n, t) = LoadAt(Elem, g, Listed(n), ListOf(n), t)
  BY <1>1, ListFacts
<1>5. heap[n] \in [Thread -> Nat] /\ ss_list[n] \in [Thread -> Seq(Nat)]
  BY <1>3 DEF Scheduled
<1>6. PICK h \in Thread : h = HeapTop(n) /\ \A t \in Thread : heap[n][h] =< heap[n][t]
  <2>1. /\ HeapTop(n) \in Thread
        /\ \A u \in Thread : heap[n][HeapTop(n)] < heap[n][u]
                              \/ (heap[n][HeapTop(n)] = heap[n][u] /\ HeapTop(n) =< u)
    BY <1>4, <1>5, HeapTopLeast
  <2>2. \A u \in Thread : heap[n][HeapTop(n)] =< heap[n][u]
    BY <1>5, <2>1
  <2> QED BY <2>1, <2>2
<1>7. /\ s \in todo[n] /\ s \in Shards(n) /\ s \in Nat /\ s \in Loaded(n) \ Listed(n)
      /\ \A x \in Listed(n) : cnt[n][s] =< cnt[n][x]
  <2>1. s \in todo[n] /\ cnt[n][s] # 0 /\ todo[n] \subseteq Shards(n) /\ Shards(n) \subseteq Nat
    BY <1>1, <1>2, <1>3, CountFacts DEF Largest, Skipped, Scheduled
  <2>2. s \in Loaded(n) \ Listed(n)
    BY <1>4, <2>1 DEF Loaded, Listed
  <2>3. ASSUME NEW x \in Listed(n) PROVE cnt[n][s] =< cnt[n][x]
    <3>1. PICK t \in Thread : \E k \in DOMAIN ss_list[n][t] : ss_list[n][t][k] = x
      BY <1>3 DEF Scheduled, Listed, Loaded
    <3>2. PICK k \in DOMAIN ss_list[n][t] : ss_list[n][t][k] = x
      BY <3>1
    <3>3. PlacedOnce(n, t, k)
      BY <1>3 DEF Scheduled
    <3> QED BY <2>1, <3>2, <3>3 DEF PlacedOnce
  <2> QED BY <2>1, <2>2, <2>3
<1> HIDE DEF g
<1>8. /\ heap'[n] = [heap[n] EXCEPT ![h] = @ + cnt[n][s]]
      /\ ss_list'[n] = [ss_list[n] EXCEPT ![h] = Append(@, s)]
  BY <1>2, <1>3, <1>6
<1>9. /\ Assigned(n, h)' = Assigned(n, h) \cup Fiber(Elem, g, s)
      /\ \A t \in Thread \ {h} : Assigned(n, t)' = Assigned(n, t)
  <2>1. /\ ss_list'[n][h] = Append(ss_list[n][h], s)
        /\ \A t \in Thread \ {h} : ss_list'[n][t] = ss_list[n][t]
    BY <1>5, <1>6, <1>8
  <2>2. \A x : (\E k \in DOMAIN ss_list'[n][h] : ss_list'[n][h][k] = x)
                 <=> ((\E k \in DOMAIN ss_list[n][h] : ss_list[n][h][k] = x) \/ x = s)
    <3>1. PICK L \in Seq(Nat) : L = ss_list[n][h]
      BY <1>5, <1>6
    <3>2. \A x : (\E k \in DOMAIN Append(L, s) : Append(L, s)[k] = x)
                   <=> ((\E k \in DOMAIN L : L[k] = x) \/ x = s)
      <4>1. /\ Len(L) \in Nat /\ DOMAIN L = 1 .. Len(L) /\ DOMAIN Append(L, s) = 1 .. Len(L) + 1
            /\ Append(L, s)[Len(L) + 1] = s /\ \A k \in 1 .. Len(L) : Append(L, s)[k] = L[k]
        BY <1>7, <3>1
      <4> QED BY <4>1
    <3>3. ss_list'[n][h] = Append(L, s)
      BY <2>1, <3>1, Zenon
    <3> QED BY <3>1, <3>2, <3>3, Zenon
  <2>3. \A e \in Elem : e \in Fiber(Elem, g, s) <=> Shard(n, e) = s
    BY DEF Fiber, g, ShardMap
  <2>4. Fiber(Elem, g, s) \subseteq Elem
    BY DEF Fiber
  <2>5. Assigned(n, h)' = Assigned(n, h) \cup Fiber(Elem, g, s)
    <3>1. Elem' = Elem /\ \A e : Shard(n, e)' = Shard(n, e)
      BY <1>1, Frozen
    <3>2. Assigned(n, h)' = {e \in Elem : \E k \in DOMAIN ss_list'[n][h] : ss_list'[n][h][k] = Shard(n, e)}
      BY <3>1 DEF Assigned
    <3> QED BY <2>2, <2>3, <2>4, <3>2 DEF Assigned
  <2>6. ASSUME NEW t \in Thread \ {h} PROVE Assigned(n, t)' = Assigned(n, t)
    BY <1>1, <2>1, Frozen DEF Assigned
  <2> QED BY <2>5, <2>6
<1>10. Cardinality(Assigned(n, h)') = heap'[n][h] /\ heap'[n][h] = heap[n][h] + cnt[n][s]
  <2>1. Assigned(n, h) \in SUBSET Elem /\ Fiber(Elem, g, s) \in SUBSET Elem
    BY DEF Assigned, Fiber
  <2>2. Assigned(n, h) \cap Fiber(Elem, g, s) = {}
    <3>1. Assigned(n, h) = LoadAt(Elem, g, Listed(n), ListOf(n), h)
      BY <1>4, <1>6
    <3> QED BY <1>7, <3>1 DEF LoadAt, Fiber
  <2>3. Cardinality(Assigned(n, h) \cup Fiber(Elem, g, s))
          = Cardinality(Assigned(n, h)) + Cardinality(Fiber(Elem, g, s))
    <3>1. IsFiniteSet(Assigned(n, h)) /\ IsFiniteSet(Fiber(Elem, g, s))
      BY <1>4, <2>1, FS_Subset
    <3>2. Cardinality(Assigned(n, h) \cup Fiber(Elem, g, s))
            = Cardinality(Assigned(n, h)) + Cardinality(Fiber(Elem, g, s))
              - Cardinality(Assigned(n, h) \cap Fiber(Elem, g, s))
      BY <3>1, FS_Union, Zenon
    <3>3. Cardinality(Assigned(n, h) \cap Fiber(Elem, g, s)) = 0
      BY <2>2, FS_EmptySet
    <3>4. Cardinality(Assigned(n, h)) \in Nat /\ Cardinality(Fiber(Elem, g, s)) \in Nat
      BY <3>1, FS_CardinalityType
    <3> QED BY <3>2, <3>3, <3>4
  <2>4. heap'[n][h] = heap[n][h] + cnt[n][s]
    BY <1>5, <1>6, <1>8
  <2>5. heap[n][h] = Cardinality(Assigned(n, h)) /\ cnt[n][s] = Cardinality(Fiber(Elem, g, s))
    BY <1>4, <1>6, <1>7 DEF Greedy
  <2>6. Cardinality(Assigned(n, h)') = Cardinality(Assigned(n, h) \cup Fiber(Elem, g, s))
    BY <1>9, Zenon
  <2> QED BY <2>3, <2>4, <2>5, <2>6
<1>11. ASSUME NEW f \in [Loaded(n) -> Thread]
       PROVE  3 * P * heap'[n][h] =< (4 * P - 1) * Makespan(LoadOf(n, f))
  <2> DEFINE M == Makespan(LoadOf(n, f))
  <2>1. M \in Nat /\ \A t \in Thread : Cardinality(LoadAt(Elem, g, Loaded(n), f, t)) =< M
    <3>1. M \in 0 .. nnz /\ nnz \in Nat
      BY <1>1, LoadsAre
    <3>2. \A t \in Thread : Cardinality(LoadAt(Elem, g, Loaded(n), f, t)) =< M
      BY <1>1, LoadsAre DEF g
    <3> HIDE DEF M
    <3> QED BY <3>1, <3>2
  <2> HIDE DEF M
  <2>2. \A q \in Listed(n) : Cardinality(Fiber(Elem, g, s)) =< Cardinality(Fiber(Elem, g, q))
    <3>1. \A q \in Listed(n) : q \in Shards(n)
      BY DEF Listed, Loaded
    <3> QED BY <1>4, <1>7, <3>1
  <2>3. \A t \in 0 .. P - 1 : heap[n][h] =< Cardinality(LoadAt(Elem, g, Listed(n), ListOf(n), t))
    <3>1. \A t \in Thread : heap[n][t] = Cardinality(Assigned(n, t))
      BY DEF Greedy
    <3> QED BY <1>4, <1>6, <3>1
  <2>4. heap[n][h] \in Nat
    BY <1>5, <1>6
  <2>5. 3 * P * (heap[n][h] + Cardinality(Fiber(Elem, g, s))) =< (4 * P - 1) * M
    <3>1. f \in [Loaded(n) -> 0 .. P - 1] /\ ListOf(n) \in [Listed(n) -> 0 .. P - 1]
      BY <1>4
    <3> QED BY <1>4, <1>7, <2>1, <2>2, <2>3, <2>4, <3>1, GreedyStep
  <2> QED BY <1>4, <1>7, <1>10, <2>5 DEF M
<1>12. ASSUME NEW t \in Thread, t # h
       PROVE  /\ heap'[n][t] = Cardinality(Assigned(n, t)')
              /\ \A f \in [Loaded(n) -> Thread] :
                   3 * P * heap'[n][t] =< (4 * P - 1) * Makespan(LoadOf(n, f))
  <2>1. heap'[n][t] = heap[n][t]
    BY <1>5, <1>8, <1>12
  <2>2. Assigned(n, t)' = Assigned(n, t)
    BY <1>9, <1>12
  <2> QED BY <2>1, <2>2 DEF Greedy
<1>13. /\ Loaded(n)' = Loaded(n) /\ Thread' = Thread /\ P' = P
       /\ \A f : Makespan(LoadOf(n, f))' = Makespan(LoadOf(n, f))
  BY <1>1, LoadsFrozen
<1>14. ASSUME NEW t \in Thread
       PROVE  /\ heap'[n][t] = Cardinality(Assigned(n, t)')
              /\ \A f \in [Loaded(n) -> Thread] :
                   3 * P * heap'[n][t] =< (4 * P - 1) * Makespan(LoadOf(n, f))
  <2>1. CASE t = h
    BY <1>10, <1>11, <2>1, Zenon
  <2>2. CASE t # h
    BY <1>12, <2>2, Zenon
  <2> QED BY <2>1, <2>2
<1> QED BY <1>13, <1>14 DEF Greedy

\* A step that neither places a shard nor counts.
LEMMA GreedySame ==
  ASSUME GreedyInv, Swapped' => Swapped, UNCHANGED <<job, mn, cnt, heap, ss_list>>
  PROVE  GreedyInv'
<1>1. job' = job /\ mn' = mn /\ cnt' = cnt /\ heap' = heap /\ ss_list' = ss_list
  OBVIOUS
<1>2. ASSUME Swapped, NEW m \in Mode PROVE Greedy(m)'
  <2>1. Greedy(m)
    BY <1>2 DEF GreedyInv
  <2> QED BY <1>1, <2>1, GreedyKept
<1> QED BY <1>2 DEF GreedyInv, Greedy

LEMMA GreedyNext ==
  ASSUME NoWrap, BuildInv, BuildInv', GreedyInv, [Next]_vars PROVE GreedyInv'
<1>1. CASE Shape \/ Bases \/ \E w \in Worker : CountScan(w) \/ Scatter(w)
  BY <1>1 DEF Shape, Bases, CountScan, Scatter, GreedyInv, Swapped
<1>2. CASE Swap
  <2>1. NoWrap'
    BY DEF NoWrap
  <2> QED BY <1>2, <2>1, SwapGreedy
<1>3. CASE \E n \in Mode : Assign(n)
  <2>1. PICK n \in Mode : Assign(n)
    BY <1>3
  <2>2. /\ Swapped /\ Swapped' /\ job' = job /\ mn' = mn /\ cnt' = cnt
    BY <2>1 DEF Assign, Swapped
  <2>3. \A m \in Mode \ {n} : heap'[m] = heap[m] /\ ss_list'[m] = ss_list[m]
    <3>1. DOMAIN heap = Mode /\ DOMAIN ss_list = Mode
      BY <2>2 DEF BuildInv, ScheduleInv
    <3>2. PICK s, t : /\ ss_list' = [ss_list EXCEPT ![n][t] = Append(@, s)]
                      /\ heap' = [heap EXCEPT ![n][t] = @ + cnt[n][s]]
      BY <2>1 DEF Assign
    <3> QED BY <3>1, <3>2
  <2>4. \A m \in Mode : Greedy(m)
    BY <2>2 DEF GreedyInv
  <2>5. Greedy(n)'
    BY <2>1, <2>4, AssignGreedy
  <2>6. ASSUME NEW m \in Mode, m # n PROVE Greedy(m)'
    BY <2>2, <2>3, <2>4, <2>6, GreedyKept
  <2>7. \A m \in Mode : Greedy(m)'
    BY <2>5, <2>6
  <2> QED BY <2>7 DEF GreedyInv, Greedy
<1>4. CASE \/ \E n \in Mode : SkipEmpty(n)
           \/ Ranges \/ Cursors
           \/ \E w \in Worker : HistScan(w)
           \/ UNCHANGED vars
  <2>1. (Swapped' => Swapped) /\ UNCHANGED <<job, mn, cnt, heap, ss_list>>
    BY <1>4 DEF SkipEmpty, Ranges, Cursors, HistScan, vars, tables, Swapped
  <2> QED BY <2>1, GreedySame
<1> QED BY <1>1, <1>2, <1>3, <1>4 DEF Next

LEMMA GreedyInvariance == ASSUME NoWrap PROVE Spec => [](BuildInv /\ GreedyInv)
<1>1. Init => GreedyInv
  BY DEF Init, GreedyInv, Swapped
<1>2. BuildInv /\ BuildInv' /\ GreedyInv /\ [Next]_vars => GreedyInv'
  BY GreedyNext
<1> QED BY <1>1, <1>2, BuildInvariance, PTL DEF Spec

\* Every thread's load is within the bound of every schedule.
LEMMA LptHolds == ASSUME BuildInv, GreedyInv, NoWrap PROVE LptBound
<1> SUFFICES ASSUME Done, NEW n \in Mode
             PROVE  3 * P * Makespan(heap[n])
                      =< (4 * P - 1) * Min({Makespan(LoadOf(n, f)) : f \in [Loaded(n) -> Thread]})
  BY DEF LptBound
<1>1. Swapped
  BY DEF Done, Swapped
<1>2. ShapeInv /\ P \in Nat \ {0} /\ IsFiniteSet(Elem) /\ Thread = 0 .. P - 1
  BY <1>1, ListFacts DEF BuildInv
<1>3. nnz \in Nat /\ \A A \in SUBSET Elem : Cardinality(A) \in 0 .. nnz
  <2>1. nnz \in Nat /\ Cardinality(Elem) = nnz
    BY <1>2, JobFacts, SlotSets
  <2>2. ASSUME NEW A \in SUBSET Elem PROVE Cardinality(A) \in 0 .. nnz
    <3>1. IsFiniteSet(A) /\ Cardinality(A) =< Cardinality(Elem)
      BY <1>2, FS_Subset
    <3>2. Cardinality(A) \in Nat
      BY <3>1, FS_CardinalityType
    <3> QED BY <2>1, <3>1, <3>2
  <2> QED BY <2>1, <2>2
<1>4. heap[n] \in [Thread -> 0 .. nnz]
  <2>1. Greedy(n) /\ heap[n] \in [Thread -> Nat]
    BY <1>1 DEF GreedyInv, BuildInv, ScheduleInv
  <2>2. \A t \in Thread : heap[n][t] \in 0 .. nnz
    <3>1. \A t \in Thread : heap[n][t] = Cardinality(Assigned(n, t)) /\ Assigned(n, t) \in SUBSET Elem
      BY <2>1 DEF Greedy, Assigned
    <3> QED BY <1>3, <3>1
  <2> QED BY <2>1, <2>2
<1>5. PICK t \in Thread : Makespan(heap[n]) = heap[n][t]
  BY <1>2, <1>3, <1>4, MakespanIs
<1> DEFINE S == {Makespan(LoadOf(n, f)) : f \in [Loaded(n) -> Thread]}
<1>6. S \in SUBSET Nat /\ S # {}
  <2>1. \A f \in [Loaded(n) -> Thread] : Makespan(LoadOf(n, f)) \in Nat
    BY <1>1, HaveLoadsNow DEF HaveLoads
  <2>2. [s \in Loaded(n) |-> 0] \in [Loaded(n) -> Thread]
    BY <1>2
  <2> QED BY <2>1, <2>2
<1>7. PICK f \in [Loaded(n) -> Thread] : Min(S) = Makespan(LoadOf(n, f))
  <2>1. Min(S) \in S
    <3> HIDE DEF S
    <3> QED BY <1>6, MinIs
  <2> QED BY <2>1
<1>8. 3 * P * heap[n][t] =< (4 * P - 1) * Makespan(LoadOf(n, f))
  BY <1>1 DEF GreedyInv, Greedy
<1> QED BY <1>5, <1>7, <1>8

(* Whatever the shards' sizes, and however std::sort orders equal ones,    *)
(* the heaviest thread of build_schedule_from_counts gets at most          *)
(* 4/3 - 1/(3P) of the least heaviest load any schedule has (Graham).      *)
THEOREM ScheduleWithinGraham == NoWrap => (Spec => []LptBound)
<1> SUFFICES ASSUME NoWrap PROVE Spec => []LptBound
  OBVIOUS
<1>1. BuildInv /\ GreedyInv => LptBound
  BY LptHolds
<1> QED BY <1>1, GreedyInvariance, PTL

-----------------------------------------------------------------------------
\* The tensor before it is loaded, while it is built, and when it streams.
TensorSteps ==
  /\ at \in {"start", "runtime", "plan", "stream", "load"}
       => layout = "PingPong" /\ held = 0 /\ ~primary
  /\ at \in {"start", "runtime", "plan", "stream", "load", "build", "convert"} => ~ooc
  /\ ooc => layout = "OutOfCore" /\ held = 0 /\ ~primary
  /\ layout = "Morton" => ~primary
  /\ at \in {"setenv", "build", "convert", "dispatch", "cpals", "run"}
       /\ ~ooc /\ layout # "Morton" =>
         primary \/ (layout \in {"NCopy", "OutOfCore"} /\ Compacted)
  /\ at = "runtime" => opt.runtime
  /\ opt.verify => layout # "Morton"
  /\ opt.runtime => layout # "OutOfCore"
  /\ at \in {"plan", "stream", "load", "build", "convert"} => ~opt.runtime
  /\ ooc => ~opt.runtime

\* What main has handed on, and why it streams.
WordsKept ==
  /\ at \in {"build", "convert", "dispatch", "cpals", "run"} /\ opt.layout # "auto"
       => env.layout = IF opt.layout = "Morton" THEN "InPlace" ELSE opt.layout
  /\ at \in {"convert", "dispatch", "cpals", "run"} /\ ~opt.runtime /\ ~ooc =>
       /\ Asked \in InCore => layout = Asked
       /\ Asked = "Morton" => layout \in {"Morton", "InPlace"}
       /\ layout = "OutOfCore" <=> Asked = "OutOfCore"
  /\ at \in {"load", "setenv", "build", "convert", "dispatch", "cpals", "run"} /\ ~opt.runtime /\ ~ooc
       => ~(Cpals /\ opt.dnb /\ Asked = "OutOfCore")
  /\ at = "stream" \/ ooc =>
       /\ opt.dnb
       /\ Cpals /\ Asked \in InCore => OocAsked(opt.ooc, env.ooc) = "on"
       /\ Cpals /\ OocAsked(opt.ooc, env.ooc) = "off" => Asked \in {"OutOfCore", "Morton"}

\* What the driver and the kernel were chosen by.
Chosen ==
  /\ at \in {"cpals", "run"} /\ Cpals =>
       /\ opt.kernel = "jacobi" => kernel = "jacobi"
       /\ opt.kernel = "gs" /\ layout \in InCore /\ Asked # "OutOfCore"
            /\ OocAsked(opt.ooc, env.ooc) = "off" => kernel = "gs"
  /\ at = "cpals" => Cpals
  /\ at = "run" /\ ooc => Cpals

IInv == TypeOK /\ TensorSteps /\ WordsKept /\ Chosen /\ DriverFitsTensor

-----------------------------------------------------------------------------
(* The larger of two naturals is one of them. *)
LEMMA LargerNat == ASSUME NEW a \in Int, NEW b \in Int, a >= 0 \/ b >= 0
                   PROVE  Larger(a, b) \in Nat
BY SMT DEF Larger

(* A plan is a plan: its choice is a layout, and "off" with no layout      *)
(* asked for never streams; a layout asked for is chosen.                  *)
LEMMA PlanIs ==
  ASSUME NEW avail, NEW rank, NEW hint, NEW asked \in Planned \cup {"auto"},
         NEW mode \in {"auto", "on", "off"}, NEW p,
         p = PlanStorage(avail, rank, hint, asked, mode)
  PROVE  /\ p \in [choice : Planned, fits : SUBSET InCore, forced : BOOLEAN]
         /\ asked = "OutOfCore" \/ mode = "on" => p.choice = "OutOfCore"
         /\ asked \in InCore /\ mode # "on" => p.choice = asked
         /\ asked = "auto" /\ mode = "off" => p.choice \in InCore
         /\ p.forced = (asked # "auto" \/ mode = "on")
         /\ ~p.forced => p.choice = AutoLayout(p.fits, mode)
<1> DEFINE fits == {l \in InCore : Need(l, rank, hint) <= Budget(avail)}
           choice == IF mode = "on" THEN "OutOfCore"
                     ELSE IF asked # "auto" THEN asked ELSE AutoLayout(fits, mode)
           forced == asked # "auto" \/ mode = "on"
<1>1. p = [choice |-> choice, fits |-> fits, forced |-> forced]
  BY DEF PlanStorage
<1>2. fits \in SUBSET InCore /\ forced \in BOOLEAN
  OBVIOUS
<1>3. p.choice = choice /\ p.fits = fits /\ p.forced = forced
  BY <1>1
<1> HIDE DEF fits
<1>5. AutoLayout(fits, mode) \in Planned /\ (mode = "off" => AutoLayout(fits, mode) \in InCore)
  BY DEF AutoLayout, Planned, InCore
<1>6. choice \in Planned
  BY <1>5 DEF Planned, InCore
<1>7. p \in [choice : Planned, fits : SUBSET InCore, forced : BOOLEAN]
  BY <1>1, <1>2, <1>6
<1>8. /\ asked = "OutOfCore" \/ mode = "on" => p.choice = "OutOfCore"
      /\ asked \in InCore /\ mode # "on" => p.choice = asked
      /\ asked = "auto" /\ mode = "off" => p.choice \in InCore
      /\ p.forced = (asked # "auto" \/ mode = "on")
      /\ ~p.forced => p.choice = AutoLayout(p.fits, mode)
  BY <1>3, <1>5 DEF InCore
<1> QED BY <1>7, <1>8

(* What the words the user wrote come to.                                  *)
LEMMA AskedIs ==
  ASSUME NEW cli \in Planned \cup {"auto", "Morton"}, NEW e \in Planned \cup {"auto"}
  PROVE  /\ LayoutAsked(cli, e) \in Planned \cup {"auto"}
         /\ cli \in Planned => LayoutAsked(cli, e) = cli
         /\ cli \in {"auto", "Morton"} => LayoutAsked(cli, e) = e
BY SMT DEF LayoutAsked, Known, Planned, InCore

LEMMA OocAskedIs ==
  ASSUME NEW cli \in {"auto", "on", "off"}, NEW e \in {"auto", "on", "off"}
  PROVE  OocAsked(cli, e) \in {"auto", "on", "off"} /\ OocAsked("off", e) = "off"
BY SMT DEF OocAsked

(* The options as the assumption types them.                               *)
LEMMA Words ==
  ASSUME TypeOK
  PROVE  /\ opt.layout \in Planned \cup {"auto", "Morton"} /\ opt.ooc \in {"auto", "on", "off"}
         /\ opt.kernel \in {"auto", "gs", "jacobi"}
         /\ opt.decompose \in BOOLEAN /\ opt.dnb \in BOOLEAN /\ opt.runtime \in BOOLEAN
         /\ opt.verify \in BOOLEAN
         /\ env.layout \in Planned \cup {"auto"} /\ env.ooc \in {"auto", "on", "off"}
         /\ opt.rank \in Nat
<1>1. opt \in [layout  : Planned \cup {"Morton", "auto"}, ooc : {"auto", "on", "off"},
               decompose : BOOLEAN, kernel : {"auto", "gs", "jacobi"},
               verify : BOOLEAN, allModes : BOOLEAN, compact : {"auto", "on", "off"},
               runtime : BOOLEAN, dnb : BOOLEAN, rank : Nat \ {0}]
  BY LaunchAssumption DEF TypeOK
<1>2. env \in [layout : Planned \cup {"auto"}, ooc : {"auto", "on", "off"}]
  BY DEF TypeOK
<1> QED BY <1>1, <1>2, SMT

LEMMA BytesNat == ASSUME NEW l \in InCore PROVE TensorBytes(l) \in Nat
<1>1. NumModes * CopyBytes \in Nat
  BY PlanAssumption, SMT
<1> QED BY <1>1, PlanAssumption, SMT DEF InCore, TensorBytes

-----------------------------------------------------------------------------
LEMMA InitIInv == LaunchInit => IInv
<1> SUFFICES ASSUME LaunchInit PROVE IInv
  OBVIOUS
<1>1. env \in [layout : Planned \cup {"auto"}, ooc : {"auto", "on", "off"}]
  BY LaunchAssumption DEF LaunchInit
<1>2. plan \in [choice : Planned \cup {"Morton", "none"}, fits : SUBSET InCore, forced : BOOLEAN]
  BY DEF LaunchInit, NoPlan
<1>3. TypeOK
  BY <1>1, <1>2 DEF LaunchInit, TypeOK, Planned, InCore
<1>4. TensorSteps /\ WordsKept /\ Chosen /\ DriverFitsTensor
  BY DEF LaunchInit, TensorSteps, WordsKept, Chosen, DriverFitsTensor, InCore, ReadsPrimary, Stranded
<1> QED
  BY <1>3, <1>4 DEF IInv

(* main returns: what the invariant asks of the steps before is past.      *)
LEMMA Returns ==
  ASSUME IInv, NEW code \in {0, 1, 2, 6, 7}, Return(code)
  PROVE  IInv'
<1>1. UNCHANGED <<opt, env, tensor, layout, ooc, held, primary, plan, kernel, driver>>
  BY DEF Return, inputs, memory
<1>2. at' = "exited" /\ rc' = code
  BY DEF Return
<1>3. TypeOK'
  BY <1>1, <1>2 DEF IInv, TypeOK
<1>4. TensorSteps'
  BY <1>1, <1>2 DEF IInv, TensorSteps, Compacted
<1>5. WordsKept'
  BY <1>1, <1>2 DEF IInv, WordsKept, Asked, Cpals
<1>6. Chosen' /\ DriverFitsTensor'
  BY <1>1, <1>2 DEF IInv, Chosen, DriverFitsTensor
<1> QED
  BY <1>3, <1>4, <1>5, <1>6 DEF IInv

LEMMA StartKeeps ==
  ASSUME IInv, ReadOptions
  PROVE  IInv'
<1>1. UNCHANGED <<opt, env, tensor, layout, ooc, held, primary, plan, kernel, driver, rc>>
  BY DEF ReadOptions, inputs, memory
<1>2. TypeOK'
  BY <1>1 DEF IInv, ReadOptions, TypeOK
<1>3. TensorSteps'
  BY <1>1 DEF IInv, ReadOptions, TensorSteps, Compacted
<1>4. WordsKept'
  BY <1>1 DEF IInv, ReadOptions, WordsKept, Asked, Cpals
<1>5. Chosen'
  BY <1>1 DEF IInv, ReadOptions, Chosen, Asked, Cpals
<1>6. DriverFitsTensor'
  BY <1>1 DEF IInv, ReadOptions, DriverFitsTensor, Cpals
<1> QED
  BY <1>2, <1>3, <1>4, <1>5, <1>6 DEF IInv

LEMMA NoHeaderKeeps ==
  ASSUME IInv, NoHeader
  PROVE  IInv'
<1>1. UNCHANGED <<opt, env, tensor, layout, ooc, held, primary, plan, kernel, driver, rc>>
  BY DEF NoHeader, inputs, memory
<1>2. TypeOK'
  BY <1>1 DEF IInv, NoHeader, TypeOK
<1>3. TensorSteps'
  BY <1>1 DEF IInv, NoHeader, TensorSteps, Compacted
<1>4. WordsKept'
  BY <1>1 DEF IInv, NoHeader, WordsKept, Asked, Cpals
<1>5. Chosen'
  BY <1>1 DEF IInv, NoHeader, Chosen, Asked, Cpals
<1>6. DriverFitsTensor'
  BY <1>1 DEF IInv, NoHeader, DriverFitsTensor, Cpals
<1> QED
  BY <1>2, <1>3, <1>4, <1>5, <1>6 DEF IInv

LEMMA LoadCooKeeps ==
  ASSUME IInv, LoadCoo
  PROVE  IInv'
<1>1. UNCHANGED <<opt, env, tensor, layout, ooc, plan, kernel, driver, rc>>
  BY DEF LoadCoo, inputs, memory
<1>2. TypeOK'
  BY <1>1, PlanAssumption DEF IInv, LoadCoo, TypeOK, InCore
<1>3. TensorSteps'
  BY <1>1, PlanAssumption DEF IInv, LoadCoo, TensorSteps, InCore, Compacted
<1>4. WordsKept'
  BY <1>1, PlanAssumption DEF IInv, LoadCoo, WordsKept, Asked, Cpals, InCore
<1>5. Chosen'
  BY <1>1, PlanAssumption DEF IInv, LoadCoo, Chosen, Asked, Cpals, InCore
<1>6. DriverFitsTensor'
  BY <1>1, PlanAssumption DEF IInv, LoadCoo, DriverFitsTensor, Cpals, TensorSteps
<1> QED
  BY <1>2, <1>3, <1>4, <1>5, <1>6 DEF IInv

LEMMA StreamSetUpKeeps ==
  ASSUME IInv, StreamSetUp
  PROVE  IInv'
<1>1. UNCHANGED <<opt, env, tensor, held, primary, plan, kernel, driver, rc>>
  BY DEF StreamSetUp, inputs, memory
<1>2. TypeOK'
  BY <1>1 DEF IInv, StreamSetUp, TypeOK, InCore, Planned
<1>3. TensorSteps'
  BY <1>1 DEF IInv, StreamSetUp, TensorSteps, InCore, Planned, Compacted
<1>4. WordsKept'
  BY <1>1 DEF IInv, StreamSetUp, WordsKept, Asked, Cpals, InCore, Planned
<1>5. Chosen'
  BY <1>1 DEF IInv, StreamSetUp, Chosen, Asked, Cpals, InCore, Planned
<1>6. DriverFitsTensor'
  BY <1>1 DEF IInv, StreamSetUp, DriverFitsTensor, Cpals, TensorSteps
<1> QED
  BY <1>2, <1>3, <1>4, <1>5, <1>6 DEF IInv

LEMMA LoadRuntimeKeeps ==
  ASSUME IInv, LoadRuntime
  PROVE  IInv'
<1>1. UNCHANGED <<opt, env, tensor, ooc, plan, kernel, driver, rc>>
  BY DEF LoadRuntime, inputs, memory
<1>2. PICK l \in InCore \cup {"Morton"} :
        /\ layout' = l /\ primary' = (l # "Morton")
        /\ held' = IF l = "Morton" THEN CopyBytes ELSE TensorBytes(l)
  BY DEF LoadRuntime
<1>3. held' \in Nat
  BY <1>2, BytesNat, PlanAssumption
<1>4. at = "runtime" /\ at' = "setenv" /\ ~ooc /\ opt.runtime /\ ~opt.verify
  BY DEF IInv, TensorSteps, LoadRuntime
<1>5. TypeOK'
  BY <1>1, <1>2, <1>3, <1>4 DEF IInv, TypeOK, InCore, Planned
<1>6. TensorSteps'
  BY <1>1, <1>2, <1>3, <1>4 DEF IInv, TensorSteps, InCore, Planned, Compacted
<1>7. WordsKept'
  BY <1>1, <1>2, <1>3, <1>4 DEF IInv, WordsKept, Asked, Cpals, InCore, Planned
<1>8. Chosen'
  BY <1>1, <1>2, <1>3, <1>4 DEF IInv, Chosen, Asked, Cpals, InCore, Planned
<1>9. DriverFitsTensor'
  BY <1>1, <1>2, <1>3, <1>4 DEF IInv, DriverFitsTensor, Cpals, InCore, Planned
<1> QED
  BY <1>5, <1>6, <1>7, <1>8, <1>9 DEF IInv

LEMMA PlanFromHeaderKeeps ==
  ASSUME IInv, PlanFromHeader
  PROVE  IInv'
<1>1. UNCHANGED <<opt, env, tensor, layout, ooc, held, primary, kernel, driver, rc>>
  BY DEF PlanFromHeader, inputs, memory
<1> DEFINE asked == LayoutAsked(LayoutCli, env.layout)
           mode  == OocAsked(OocCli, env.ooc)
<1>2. PICK avail \in Measured : plan' = PlanStorage(avail, opt.rank, AssumedDense, asked, mode)
  BY DEF PlanFromHeader
<1>3. asked \in Planned \cup {"auto"} /\ mode \in {"auto", "on", "off"}
  BY Words, AskedIs, OocAskedIs DEF IInv, LayoutCli, OocCli
<1> HIDE DEF asked, mode
<1>4. /\ plan' \in [choice : Planned, fits : SUBSET InCore, forced : BOOLEAN]
      /\ asked = "OutOfCore" \/ mode = "on" => plan'.choice = "OutOfCore"
      /\ asked \in InCore /\ mode # "on" => plan'.choice = asked
      /\ asked = "auto" /\ mode = "off" => plan'.choice \in InCore
  BY <1>2, <1>3, PlanIs
<1>5. /\ at = "plan" /\ opt.dnb
      /\ at' = IF plan'.choice = "OutOfCore" THEN "stream" ELSE "load"
  BY DEF PlanFromHeader
<1>6. ASSUME Cpals
      PROVE  /\ at' = "stream" /\ Asked \in InCore => OocAsked(opt.ooc, env.ooc) = "on"
             /\ at' = "stream" /\ OocAsked(opt.ooc, env.ooc) = "off"
                  => Asked \in {"OutOfCore", "Morton"}
             /\ at' = "load" => Asked # "OutOfCore"
  <2>1. asked = LayoutAsked(opt.layout, env.layout) /\ mode = OocAsked(opt.ooc, env.ooc)
    BY <1>6 DEF asked, mode, LayoutCli, OocCli
  <2>2. at' = "stream" <=> plan'.choice = "OutOfCore"
    BY <1>5
  <2>3. /\ opt.layout \in Planned \cup {"auto", "Morton"} /\ env.layout \in Planned \cup {"auto"}
        /\ opt.layout \in Planned => asked = opt.layout
        /\ opt.layout = "auto" => asked = env.layout
    BY <2>1, Words, AskedIs DEF IInv
  <2>4. at' = "load" => at' # "stream"
    OBVIOUS
  <2> QED
    BY <1>3, <1>4, <2>1, <2>2, <2>3, <2>4 DEF Asked, Planned, InCore
<1>7. TypeOK'
  BY <1>1, <1>4, <1>5, <1>6 DEF IInv, TypeOK, InCore, Planned
<1>8. TensorSteps'
  BY <1>1, <1>4, <1>5, <1>6 DEF IInv, TensorSteps, InCore, Planned, Compacted
<1>9. WordsKept'
  BY <1>1, <1>4, <1>5, <1>6 DEF IInv, WordsKept, Asked, Cpals, InCore, Planned
<1>10. Chosen'
  BY <1>1, <1>4, <1>5, <1>6 DEF IInv, Chosen, Asked, Cpals, InCore, Planned
<1>11. DriverFitsTensor'
  BY <1>1, <1>4, <1>5, <1>6 DEF IInv, DriverFitsTensor, Cpals, InCore, Planned
<1> QED
  BY <1>7, <1>8, <1>9, <1>10, <1>11 DEF IInv

LEMMA SetEnvKeeps ==
  ASSUME IInv, SetEnv
  PROVE  IInv'
<1>1. UNCHANGED <<opt, tensor, layout, ooc, held, primary, plan, kernel, driver, rc>>
  BY DEF SetEnv, inputs, memory
<1>2. /\ env' \in [layout : Planned \cup {"auto"}, ooc : {"auto", "on", "off"}]
      /\ env'.layout = PassLayout /\ env'.ooc = env.ooc
  <2>1. env \in [layout : Planned \cup {"auto"}, ooc : {"auto", "on", "off"}]
    BY DEF IInv, TypeOK
  <2>2. PassLayout \in Planned \cup {"auto"}
    BY Words DEF IInv, PassLayout, Planned, InCore
  <2>3. env' = [env EXCEPT !.layout = PassLayout]
    BY DEF SetEnv
  <2> QED BY <2>1, <2>2, <2>3
<1>3. Asked' = Asked
  BY <1>1, <1>2 DEF Asked, PassLayout
<1>4. at = "setenv" /\ at' = IF ooc \/ opt.runtime THEN "dispatch" ELSE "build"
  BY DEF SetEnv
<1>5. opt.layout # "auto"
        => env'.layout = IF opt.layout = "Morton" THEN "InPlace" ELSE opt.layout
  BY <1>2 DEF PassLayout
<1>6. TypeOK'
  BY <1>1, <1>2, <1>3, <1>4, <1>5 DEF IInv, TypeOK
<1>7. TensorSteps'
  BY <1>1, <1>2, <1>3, <1>4, <1>5 DEF IInv, TensorSteps, Compacted
<1>8. WordsKept'
  BY <1>1, <1>2, <1>3, <1>4, <1>5 DEF IInv, WordsKept, Cpals
<1>9. Chosen'
  BY <1>1, <1>2, <1>3, <1>4, <1>5 DEF IInv, Chosen, Cpals
<1>10. DriverFitsTensor'
  BY <1>1, <1>2, <1>3, <1>4, <1>5 DEF IInv, DriverFitsTensor, Cpals
<1> QED
  BY <1>6, <1>7, <1>8, <1>9, <1>10 DEF IInv

LEMMA BuildFlycooKeeps ==
  ASSUME IInv, BuildFlycoo
  PROVE  IInv'
<1>1. UNCHANGED <<opt, env, tensor, kernel, driver>>
  BY DEF BuildFlycoo, inputs, memory
<1> DEFINE populated == IF plan'.choice = "OutOfCore" THEN "NCopy" ELSE plan'.choice
<1>2. PICK o \in Others :
        /\ plan' = PlanStorage(Larger(0, TotalBytes - 2 * CopyBytes - o), DefaultRank, HasDense,
                              LayoutAsked("auto", env.layout), "off")
        /\ \/ at' = "exited" /\ rc' = 2 /\ UNCHANGED memory
           \/ /\ at' = "convert" /\ rc' = rc /\ ooc' = ooc
              /\ layout' = plan'.choice
              /\ held' = TensorBytes(populated)
              /\ primary' = ~(populated = "NCopy" /\ Compacted)
  BY DEF BuildFlycoo
<1>3. /\ env.layout \in Planned \cup {"auto"}
      /\ LayoutAsked("auto", env.layout) = env.layout
  BY Words, AskedIs DEF IInv
<1>4. plan' = PlanStorage(Larger(0, TotalBytes - 2 * CopyBytes - o), DefaultRank, HasDense,
                          env.layout, "off")
  BY <1>2, <1>3
<1>5. /\ plan' \in [choice : Planned, fits : SUBSET InCore, forced : BOOLEAN]
      /\ env.layout \in InCore => plan'.choice = env.layout
      /\ plan'.choice = "OutOfCore" <=> env.layout = "OutOfCore"
  BY <1>3, <1>4, PlanIs DEF InCore, Planned
<1>6. populated \in InCore
  BY <1>5 DEF Planned, InCore
<1>7. held' \in Nat
  BY <1>2, <1>6, BytesNat DEF IInv, TypeOK, memory
<1>8. at = "build" /\ ~ooc /\ ~opt.runtime
  BY DEF BuildFlycoo, IInv, TensorSteps
<1>9. at' = "convert" => /\ Asked \in InCore => layout' = Asked
                         /\ Asked = "Morton" => layout' = "InPlace"
                         /\ layout' = "OutOfCore" <=> Asked = "OutOfCore"
  BY <1>2, <1>3, <1>5, <1>8, Words DEF IInv, WordsKept, Asked, Planned, InCore
<1>10. populated = "NCopy" => plan'.choice \in {"NCopy", "OutOfCore"}
  OBVIOUS
<1>11. primary' \in BOOLEAN /\ layout' \in Planned \cup {"Morton"}
  BY <1>2, <1>5 DEF IInv, TypeOK, memory
<1>12. \/ /\ at' = "exited" /\ rc' = 2 /\ UNCHANGED <<layout, ooc, held, primary>>
       \/ /\ at' = "convert" /\ rc' = rc /\ ooc' = ooc
          /\ layout' \in Planned
          /\ primary' \/ (layout' \in {"NCopy", "OutOfCore"} /\ Compacted)
  BY <1>2, <1>5, <1>10 DEF memory, InCore
<1> HIDE DEF populated
<1>13. TypeOK'
  BY <1>1, <1>5, <1>7, <1>8, <1>9, <1>11, <1>12 DEF IInv, TypeOK, InCore, Planned
<1>14. TensorSteps'
  BY <1>1, <1>5, <1>7, <1>8, <1>9, <1>11, <1>12 DEF IInv, TensorSteps, InCore, Planned, Compacted
<1>15. WordsKept'
  BY <1>1, <1>5, <1>7, <1>8, <1>9, <1>11, <1>12 DEF IInv, WordsKept, Asked, Cpals, InCore, Planned
<1>16. Chosen'
  BY <1>1, <1>5, <1>7, <1>8, <1>9, <1>11, <1>12 DEF IInv, Chosen, Asked, Cpals, InCore, Planned
<1>17. DriverFitsTensor'
  BY <1>1, <1>5, <1>7, <1>8, <1>9, <1>11, <1>12 DEF IInv, DriverFitsTensor, Cpals, InCore, Planned
<1> QED
  BY <1>13, <1>14, <1>15, <1>16, <1>17 DEF IInv

LEMMA ConvertKeeps ==
  ASSUME IInv, Convert
  PROVE  IInv'
<1>1. UNCHANGED <<opt, env, tensor, ooc, plan, kernel, driver, rc>>
  BY DEF Convert, inputs, memory
<1>2. /\ at = "convert" /\ at' = "dispatch" /\ ~ooc /\ ~opt.runtime
      /\ \/ UNCHANGED <<layout, held, primary>>
         \/ /\ opt.layout = "Morton" /\ ~opt.verify
            /\ layout' = "Morton" /\ held' = CopyBytes /\ ~primary'
  BY DEF Convert, IInv, TensorSteps, memory
<1>3. held' \in Nat /\ primary' \in BOOLEAN
  BY <1>2, PlanAssumption DEF Convert, memory, IInv, TypeOK
<1>4. TypeOK'
  BY <1>1, <1>2, <1>3 DEF IInv, TypeOK, InCore, Planned
<1>5. TensorSteps'
  BY <1>1, <1>2, <1>3 DEF IInv, TensorSteps, InCore, Planned, Compacted
<1>6. WordsKept'
  BY <1>1, <1>2, <1>3 DEF IInv, WordsKept, Asked, Cpals, InCore, Planned
<1>7. Chosen'
  BY <1>1, <1>2, <1>3 DEF IInv, Chosen, Asked, Cpals, InCore, Planned
<1>8. DriverFitsTensor'
  BY <1>1, <1>2, <1>3 DEF IInv, DriverFitsTensor, Cpals, InCore, Planned
<1> QED
  BY <1>4, <1>5, <1>6, <1>7, <1>8 DEF IInv

LEMMA ComputePlanKeeps ==
  ASSUME IInv, ComputePlan
  PROVE  IInv'
<1>1. UNCHANGED <<opt, env, tensor, layout, ooc, held, primary, driver, rc>>
  BY DEF ComputePlan, inputs, memory
<1> DEFINE asked == LayoutAsked(opt.layout, env.layout)
           mode  == OocAsked(opt.ooc, env.ooc)
<1>2. PICK avail, p :
        /\ avail \in Measured
        /\ p = PlanStorage(avail, opt.rank, HasDense, asked, mode)
        /\ plan' = [p EXCEPT !.choice = IF layout \in {"Morton", "OutOfCore"} THEN layout
                                        ELSE p.choice]
        /\ kernel' = Kernel(IF layout \in {"Morton", "OutOfCore"} THEN layout ELSE p.choice, avail)
  BY DEF ComputePlan
<1>3. /\ asked \in Planned \cup {"auto"} /\ mode \in {"auto", "on", "off"}
      /\ opt.layout \in Planned => asked = opt.layout
      /\ opt.layout \in {"auto", "Morton"} => asked = env.layout
  BY Words, AskedIs, OocAskedIs DEF IInv
<1> HIDE DEF asked, mode
<1>4. /\ p \in [choice : Planned, fits : SUBSET InCore, forced : BOOLEAN]
      /\ asked \in InCore /\ mode # "on" => p.choice = asked
      /\ asked = "auto" /\ mode = "off" => p.choice \in InCore
  BY <1>2, <1>3, PlanIs
<1> DEFINE choice == IF layout \in {"Morton", "OutOfCore"} THEN layout ELSE p.choice
<1>5. /\ choice \in Planned \cup {"Morton"} /\ plan'.choice = choice
      /\ plan' \in [choice : Planned \cup {"Morton", "none"}, fits : SUBSET InCore, forced : BOOLEAN]
  BY <1>2, <1>4 DEF Planned
<1>6. at = "dispatch" /\ Cpals /\ at' = "cpals"
  BY DEF ComputePlan
<1>7. kernel' = Kernel(choice, avail)
  BY <1>2
<1>8. kernel' \in {"gs", "jacobi"}
  BY <1>7, Words DEF IInv, Kernel, AutoKernel
<1>9. opt.kernel = "jacobi" => kernel' = "jacobi"
  BY <1>7 DEF Kernel
<1>10. ASSUME opt.kernel = "gs", layout \in InCore, Asked # "OutOfCore",
              OocAsked(opt.ooc, env.ooc) = "off"
       PROVE  kernel' = "gs"
  <2>1. mode = "off" /\ ~ooc
    BY <1>10 DEF mode, IInv, TensorSteps, InCore
  <2>2. asked \in InCore \cup {"auto"}
    BY <1>3, <1>6, <1>10, Words DEF IInv, WordsKept, Asked, Planned, InCore
  <2>3. p.choice \in InCore /\ choice = p.choice
    BY <1>4, <1>10, <2>1, <2>2 DEF InCore
  <2> QED
    BY <1>7, <1>10, <2>1, <2>3 DEF Kernel, InCore
<1>11. ASSUME opt.kernel = "auto", kernel' = "jacobi", primary, choice \in InCore
       PROVE  "allModes" \in AllModes'
  <2>1. ~ooc /\ ~Wide
    BY <1>7, <1>11 DEF IInv, TensorSteps, Kernel, AutoKernel, InCore
  <2>2. Wide' = Wide
    BY <1>1 DEF Wide
  <2> QED
    BY <1>1, <1>11, <2>1, <2>2 DEF AllModes
<1> HIDE DEF choice
<1>12. TypeOK'
  BY <1>1, <1>5, <1>6, <1>8, <1>9, <1>10, <1>11 DEF IInv, TypeOK
<1>13. TensorSteps'
  BY <1>1, <1>5, <1>6, <1>8, <1>9, <1>10, <1>11 DEF IInv, TensorSteps, Compacted
<1>14. WordsKept'
  BY <1>1, <1>5, <1>6, <1>8, <1>9, <1>10, <1>11 DEF IInv, WordsKept, Asked, Cpals
<1>15. Chosen'
  BY <1>1, <1>5, <1>6, <1>8, <1>9, <1>10, <1>11 DEF IInv, Chosen, Asked, Cpals
<1>16. DriverFitsTensor'
  BY <1>1, <1>5, <1>6, <1>8, <1>9, <1>10, <1>11 DEF IInv, DriverFitsTensor, Cpals
<1> QED
  BY <1>12, <1>13, <1>14, <1>15, <1>16 DEF IInv

LEMMA RunCpalsKeeps ==
  ASSUME IInv, RunCpals
  PROVE  IInv'
<1>1. UNCHANGED <<opt, env, tensor, layout, ooc, held, primary, plan, kernel, rc>>
  BY DEF RunCpals, inputs, memory
<1>2. /\ at = "cpals" /\ at' = "run" /\ driver' \in CpalsDrivers /\ Cpals
      /\ ~NoNorm
  BY DEF RunCpals, IInv, Chosen
<1>3. /\ driver' \in {"ooc", "morton", "allModes", "ncopy", "inplace", "pingpong"}
      /\ driver' = "ooc" <=> ooc
      /\ driver' = "morton" => layout = "Morton"
      /\ driver' = "allModes" => primary
      /\ driver' = "ncopy" => layout = "NCopy"
      /\ driver' = "inplace" => layout = "InPlace"
      /\ driver' = "pingpong" => layout \notin {"NCopy", "InPlace"}
  BY <1>2 DEF CpalsDrivers, AllModes, PerMode, Jacobi
<1>4. TypeOK'
  BY <1>1, <1>2, <1>3 DEF IInv, TypeOK, InCore
<1>5. TensorSteps'
  BY <1>1, <1>2, <1>3 DEF IInv, TensorSteps, InCore, Compacted
<1>6. WordsKept'
  BY <1>1, <1>2, <1>3 DEF IInv, WordsKept, Asked, Cpals, InCore
<1>7. Chosen'
  BY <1>1, <1>2, <1>3 DEF IInv, Chosen, Asked, Cpals, InCore
<1>8. ReadsPrimary' => primary' \/ Stranded'
  <2>1. SUFFICES ASSUME driver' \in {"allModes", "inplace", "pingpong"}, ~primary
                 PROVE  driver' = "pingpong" /\ layout = "Morton"
    BY <1>1 DEF ReadsPrimary, Stranded
  <2>2. ~ooc
    BY <1>3, <2>1
  <2>3. layout \in {"NCopy", "Morton"}
    BY <1>2, <2>1, <2>2 DEF NoNorm
  <2> QED
    BY <1>3, <2>1, <2>3
<1>9. DriverFitsTensor'
  BY <1>1, <1>2, <1>3, <1>8 DEF IInv, DriverFitsTensor, Cpals, TensorSteps
<1> QED
  BY <1>4, <1>5, <1>6, <1>7, <1>9 DEF IInv

LEMMA RunBenchmarkKeeps ==
  ASSUME IInv, RunBenchmark
  PROVE  IInv'
<1>1. UNCHANGED <<opt, env, tensor, layout, ooc, held, primary, plan, kernel, rc>>
  BY DEF RunBenchmark, inputs, memory
<1>2. at = "dispatch" /\ at' = "run" /\ ~Cpals /\ ~ooc
  BY DEF RunBenchmark
<1>3. /\ driver' \in {"allModes", "ncopy", "inplace", "pingpong"}
      /\ driver' = "allModes" => primary
      /\ driver' = "ncopy" => layout = "NCopy"
      /\ driver' = "inplace" => layout = "InPlace"
      /\ driver' = "pingpong" => layout \notin {"NCopy", "InPlace"}
  BY DEF RunBenchmark, AllModes, PerMode
<1>4. TypeOK'
  BY <1>1, <1>2, <1>3 DEF IInv, TypeOK, InCore
<1>5. TensorSteps'
  BY <1>1, <1>2, <1>3 DEF IInv, TensorSteps, InCore, Compacted
<1>6. WordsKept'
  BY <1>1, <1>2, <1>3 DEF IInv, WordsKept, Asked, Cpals, InCore
<1>7. Chosen'
  BY <1>1, <1>2, <1>3 DEF IInv, Chosen, Asked, Cpals, InCore
<1>8. layout # "Morton" => primary \/ (layout \in {"NCopy", "OutOfCore"} /\ Compacted)
  BY <1>2 DEF IInv, TensorSteps
<1>9. layout = "OutOfCore" => Asked = "OutOfCore"
  BY <1>2 DEF IInv, TensorSteps, WordsKept
<1>10. ReadsPrimary' => primary' \/ Stranded'
  <2>1. SUFFICES ASSUME driver' \in {"allModes", "inplace", "pingpong"}, ~primary
                 PROVE  Stranded'
    BY <1>1 DEF ReadsPrimary
  <2>2. driver' = "pingpong" /\ layout \notin {"NCopy", "InPlace"}
    BY <1>3, <1>8, <2>1
  <2>3. layout = "Morton" \/ (layout = "OutOfCore" /\ Compacted)
    BY <1>8, <2>1, <2>2
  <2>4. Compacted' = Compacted /\ Asked' = Asked /\ Cpals' = Cpals
    BY <1>1 DEF Compacted, Asked, Cpals
  <2> QED
    BY <1>1, <1>2, <1>9, <2>2, <2>3, <2>4 DEF Stranded
<1>11. opt.verify /\ opt.compact # "on" => primary
  BY <1>2, <1>8 DEF IInv, TensorSteps, Compacted
<1>12. DriverFitsTensor'
  BY <1>1, <1>2, <1>3, <1>10, <1>11 DEF DriverFitsTensor
<1> QED
  BY <1>4, <1>5, <1>6, <1>7, <1>12 DEF IInv

LEMMA NextKeeps == IInv /\ [LaunchNext]_launchVars => IInv'
<1> SUFFICES ASSUME IInv, [LaunchNext]_launchVars PROVE IInv'
  OBVIOUS
<1>1. CASE UNCHANGED launchVars
  <2>1. UNCHANGED <<at, opt, env, tensor, layout, ooc, held, primary, plan, kernel, driver, rc>>
    BY <1>1 DEF launchVars, inputs, memory
  <2>2. TypeOK' /\ TensorSteps'
    BY <2>1 DEF IInv, TypeOK, TensorSteps, Compacted
  <2>3. WordsKept' /\ Chosen'
    BY <2>1 DEF IInv, WordsKept, Chosen, Asked, Cpals
  <2>4. AllModes' = AllModes
    BY <2>1 DEF AllModes, PerMode, Wide
  <2>5. DriverFitsTensor'
    BY <2>1, <2>4 DEF IInv, DriverFitsTensor, ReadsPrimary, Stranded, Cpals, Asked, Compacted
  <2> QED
    BY <2>2, <2>3, <2>5 DEF IInv
<1>2. CASE \/ RuntimeRefused \/ RuntimeUnreadable \/ OocWithoutCache \/ StreamFails
           \/ LoadFails \/ MortonVerify \/ CpalsFatal \/ OocWithoutCpals \/ Finish
  <2>1. \E code \in {0, 1, 2, 6, 7} : Return(code)
    BY <1>2 DEF RuntimeRefused, RuntimeUnreadable, OocWithoutCache, StreamFails,
                LoadFails, MortonVerify, CpalsFatal, OocWithoutCpals, Finish
  <2> QED
    BY <2>1, Returns
<1>3. CASE \/ ReadOptions \/ LoadRuntime \/ PlanFromHeader \/ NoHeader \/ StreamSetUp
           \/ LoadCoo \/ SetEnv \/ BuildFlycoo
  BY <1>3, StartKeeps, LoadRuntimeKeeps, PlanFromHeaderKeeps, NoHeaderKeeps,
     StreamSetUpKeeps, LoadCooKeeps, SetEnvKeeps, BuildFlycooKeeps
<1>4. CASE Convert \/ ComputePlan \/ RunCpals \/ RunBenchmark
  BY <1>4, ConvertKeeps, ComputePlanKeeps, RunCpalsKeeps, RunBenchmarkKeeps
<1> QED
  BY <1>1, <1>2, <1>3, <1>4 DEF LaunchNext

LEMMA InvHolds == LaunchSpec => []IInv
  BY InitIInv, NextKeeps, PTL DEF LaunchSpec

(* Every variable of the launch keeps its type.                            *)
THEOREM LaunchTypeCorrect == LaunchSpec => []TypeOK
<1>1. IInv => TypeOK
  BY DEF IInv
<1> QED
  BY <1>1, InvHolds, PTL

(* The driver that main and cpals pick has the primary slab if it reads    *)
(* it, but for the two cases of Stranded, and a streamed tensor meets the  *)
(* streaming driver only, for every command line, environment, machine and *)
(* tensor.                                                                 *)
THEOREM DriverAlwaysFits == LaunchSpec => []DriverFitsTensor
<1>1. IInv => DriverFitsTensor
  BY DEF IInv
<1> QED
  BY <1>1, InvHolds, PTL

(* What the user asked for survives the three plans.                       *)
THEOREM RequestAlwaysKept == LaunchSpec => []RequestKept
<1>1. IInv => RequestKept
  <2> SUFFICES ASSUME IInv PROVE RequestKept
    OBVIOUS
  <2>1. ASSUME at = "run", ~opt.runtime
        PROVE  /\ Asked \in InCore => layout = Asked \/ OocAsked(opt.ooc, env.ooc) = "on"
               /\ Asked = "OutOfCore" => layout = "OutOfCore" /\ (ooc <=> Cpals /\ opt.dnb)
               /\ Asked = "Morton" => layout \in {"Morton", "InPlace", "OutOfCore"}
               /\ ooc => /\ Cpals /\ opt.dnb
                         /\ OocAsked(opt.ooc, env.ooc) = "off" => Asked \in {"OutOfCore", "Morton"}
    BY <2>1 DEF IInv, TensorSteps, WordsKept, Chosen
  <2>2. ASSUME at \in {"cpals", "run"}, Cpals
        PROVE  /\ opt.kernel = "jacobi" => Jacobi
               /\ opt.kernel = "gs" /\ layout \in InCore /\ Asked # "OutOfCore"
                    /\ OocAsked(opt.ooc, env.ooc) = "off" => ~Jacobi
    BY <2>2 DEF IInv, TensorSteps, Chosen, Jacobi, InCore
  <2> QED
    BY <2>1, <2>2 DEF RequestKept
<1> QED
  BY <1>1, InvHolds, PTL

-----------------------------------------------------------------------------
(* With two modes or more the in-place layout needs least. *)
LEMMA InPlaceLeast ==
  ASSUME NumModes > 1, NEW l \in InCore, NEW rank, NEW hint, NEW avail,
         Overhead(rank, hint) \in Nat, Budget(avail) \in Nat,
         Need(l, rank, hint) <= Budget(avail)
  PROVE  Need("InPlace", rank, hint) <= Budget(avail)
<1>1. NumModes \in Nat /\ CopyBytes \in Nat /\ ColumnBytes \in Nat /\ ColumnBytes < CopyBytes
  BY PlanAssumption
<1>2. 2 * CopyBytes <= NumModes * CopyBytes
  BY <1>1, SMT
<1>3. TensorBytes("InPlace") <= TensorBytes(l)
  BY <1>1, <1>2 DEF TensorBytes, InCore
<1>4. TensorBytes(l) \in Nat /\ TensorBytes("InPlace") \in Nat
  BY BytesNat DEF InCore
<1> QED
  BY <1>3, <1>4 DEF Need

LEMMA BudgetNat == ASSUME NEW avail \in Nat PROVE Budget(avail) \in Nat
<1>1. Headroom \in Nat
  BY PlanAssumption DEF Headroom, Larger
<1>2. (7 * avail) \div 10 \in Nat /\ TotalBytes \div 2 \in Nat
  BY PlanAssumption, SMT
<1> QED
  BY <1>1, <1>2 DEF Budget, Larger

LEMMA OverheadNat == ASSUME NEW rank \in Nat, NEW hint PROVE Overhead(rank, hint) \in Nat
<1>1. FactorBytes * rank \in Nat
  BY PlanAssumption, SMT
<1> QED
  BY <1>1, PlanAssumption DEF Overhead

(* Streaming unasked: even the in-place layout does not fit, and no other. *)
LEMMA StreamFits == ASSUME IInv, PlanFromHeader PROVE PlanFits'
<1> DEFINE asked == LayoutAsked(LayoutCli, env.layout)
           mode  == OocAsked(OocCli, env.ooc)
<1>1. PICK avail \in Measured : plan' = PlanStorage(avail, opt.rank, AssumedDense, asked, mode)
  BY DEF PlanFromHeader
<1>2. asked \in Planned \cup {"auto"} /\ mode \in {"auto", "on", "off"}
  BY Words, AskedIs, OocAskedIs DEF IInv, LayoutCli, OocCli
<1>3. avail \in Nat
  BY LargerNat, LaunchAssumption, PlanAssumption DEF Measured, IInv, TypeOK
<1>4. opt.rank \in Nat
  BY Words DEF IInv
<1> HIDE DEF asked, mode
<1>5. plan'.fits = {l \in InCore : Need(l, opt.rank, AssumedDense) <= Budget(avail)}
  BY <1>1 DEF PlanStorage
<1>6. ~plan'.forced => plan'.choice = AutoLayout(plan'.fits, mode)
  BY <1>1, <1>2, PlanIs
<1>7. at' = "stream" \/ at' = "load"
  BY DEF PlanFromHeader
<1>8. ASSUME NumModes > 1, at' = "stream", ~plan'.forced
      PROVE  plan'.fits = {}
  <2>1. "InPlace" \notin plan'.fits
    BY <1>6, <1>8 DEF PlanFromHeader, AutoLayout
  <2>2. ASSUME NEW l \in plan'.fits PROVE FALSE
    <3>1. l \in InCore /\ Need(l, opt.rank, AssumedDense) <= Budget(avail)
      BY <1>5, <2>2
    <3>2. Need("InPlace", opt.rank, AssumedDense) <= Budget(avail)
      BY <1>3, <1>4, <1>8, <3>1, InPlaceLeast, BudgetNat, OverheadNat
    <3> QED
      BY <1>5, <2>1, <3>2 DEF InCore
  <2> QED
    BY <2>2
<1> QED
  BY <1>7, <1>8 DEF PlanFits

(* The layout that is populated unasked fits, or the process has exited.   *)
LEMMA BuildFits == ASSUME IInv, BuildFlycoo PROVE PlanFits'
<1>1. PICK o \in Others :
        /\ plan' = PlanStorage(Larger(0, TotalBytes - 2 * CopyBytes - o), DefaultRank, HasDense,
                              LayoutAsked("auto", env.layout), "off")
        /\ at' = "exited" \/ (at' = "convert" /\ layout' = plan'.choice /\ ~TooLarge(plan'))
  BY DEF BuildFlycoo
<1>2. LayoutAsked("auto", env.layout) \in Planned \cup {"auto"}
  BY Words, AskedIs DEF IInv
<1>3. /\ plan' \in [choice : Planned, fits : SUBSET InCore, forced : BOOLEAN]
      /\ ~plan'.forced => plan'.choice = AutoLayout(plan'.fits, "off")
  BY <1>1, <1>2, PlanIs
<1>4. plan'.fits \subseteq InCore
  BY <1>3
<1>5. ASSUME NumModes > 1, at' = "convert", ~plan'.forced
      PROVE  /\ layout' \in plan'.fits
             /\ \A l \in plan'.fits : \/ l = layout' \/ layout' = "NCopy"
                                      \/ l = "InPlace" /\ layout' = "PingPong"
  <2>1. layout' = AutoLayout(plan'.fits, "off") /\ (layout' = "InPlace" => "InPlace" \in plan'.fits)
    BY <1>1, <1>3, <1>5 DEF TooLarge
  <2>2. /\ "NCopy" \in plan'.fits => layout' = "NCopy"
        /\ "NCopy" \notin plan'.fits /\ "PingPong" \in plan'.fits => layout' = "PingPong"
        /\ "NCopy" \notin plan'.fits /\ "PingPong" \notin plan'.fits => layout' = "InPlace"
    BY <1>5, <2>1, PlanAssumption DEF AutoLayout
  <2> QED
    BY <1>4, <2>1, <2>2 DEF InCore
<1> QED
  BY <1>1, <1>5 DEF PlanFits

(* A layout nobody asked for fits the budget and is the fastest that does; *)
(* a tensor is streamed unasked only when no layout fits.                  *)
THEOREM PlanAlwaysFits == LaunchSpec => []PlanFits
<1>1. LaunchInit => PlanFits
  BY DEF LaunchInit, PlanFits
<1>2. ASSUME IInv, PlanFits, [LaunchNext]_launchVars PROVE PlanFits'
  <2>1. CASE UNCHANGED launchVars
    BY <1>2, <2>1 DEF launchVars, inputs, memory, PlanFits
  <2>2. CASE PlanFromHeader \/ BuildFlycoo
    BY <1>2, <2>2, StreamFits, BuildFits
  <2>3. CASE \/ ReadOptions \/ RuntimeRefused \/ RuntimeUnreadable \/ LoadRuntime
             \/ OocWithoutCache \/ NoHeader \/ StreamSetUp \/ StreamFails \/ LoadCoo
             \/ LoadFails \/ SetEnv \/ Convert \/ MortonVerify \/ ComputePlan
             \/ CpalsFatal \/ RunCpals \/ OocWithoutCpals \/ RunBenchmark \/ Finish
    <3>1. at' \notin {"convert", "stream"}
      BY <2>3 DEF ReadOptions, RuntimeRefused, RuntimeUnreadable, LoadRuntime,
           OocWithoutCache, NoHeader, StreamSetUp, StreamFails, LoadCoo, LoadFails, SetEnv,
           Convert, MortonVerify, ComputePlan, CpalsFatal, RunCpals, OocWithoutCpals,
           RunBenchmark, Finish, Return
    <3> QED
      BY <3>1 DEF PlanFits
  <2> QED
    BY <1>2, <2>1, <2>2, <2>3 DEF LaunchNext
<1>3. QED
  BY <1>1, <1>2, InvHolds, PTL DEF LaunchSpec
==============================================================================
