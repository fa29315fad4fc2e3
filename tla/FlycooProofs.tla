---------------------------- MODULE FlycooProofs ----------------------------
(***************************************************************************)
(* Lemmas about the FLYCOO tables, for every tensor, thread count and      *)
(* assignment of super-shards to threads: shard ranges tile the slab, and  *)
(* the cursor ranges of the remap are pairwise disjoint.                   *)
(***************************************************************************)
EXTENDS Flycoo, FiniteSetTheorems, WellFoundedInduction, TLAPS

-----------------------------------------------------------------------------
(* Arithmetic. *)

LEMMA LessRel == \A x, y \in Nat : <<y, x>> \in OpToRel(<, Nat) <=> y < x
BY DEF OpToRel

LEMMA LeastElement ==
  ASSUME NEW S \in SUBSET Nat, S # {}
  PROVE  \E x \in S : \A y \in S : x =< y
<1>1. PICK R : IsWellFoundedOn(R, Nat) /\ \A x, y \in Nat : <<y, x>> \in R <=> y < x
  BY NatLessThanWellFounded, LessRel
<1>2. PICK x \in S : \A y \in S : ~ (<<y, x>> \in R)
  BY <1>1, WFMin
<1>3. ASSUME NEW y \in S PROVE ~ (y < x)
  BY <1>1, <1>2
<1>4. \A y \in S : x =< y
  BY <1>3
<1> QED BY <1>4

LEMMA Times == \A a, b, m \in Nat : a =< b => a * m \in Nat /\ b * m \in Nat /\ a * m =< b * m
OBVIOUS

\* The shard of a row starts at or before it, and the next one after it.
LEMMA Division ==
  ASSUME NEW m \in Nat \ {0}, NEW r \in Nat
  PROVE  /\ r \div m \in Nat
         /\ (r \div m) * m =< r /\ r < ((r \div m) + 1) * m
         /\ \A s \in Nat : r \div m < s <=> r < s * m
<1> DEFINE q == r \div m
<1>1. q \in Nat /\ m * q =< r /\ r < m * q + m
  OBVIOUS
<1> HIDE DEF q
<1>2. q * m = m * q /\ (q + 1) * m = m * q + m /\ q * m \in Nat /\ (q + 1) * m \in Nat
  BY <1>1
<1>3. ASSUME NEW s \in Nat PROVE q < s <=> r < s * m
  <2>1. CASE q < s
    <3>1. (q + 1) * m =< s * m /\ s * m \in Nat
      BY <1>1, <2>1, Times
    <3> QED BY <1>1, <1>2, <2>1, <3>1
  <2>2. CASE s =< q
    <3>1. s * m =< q * m /\ s * m \in Nat
      BY <1>1, <2>2, Times
    <3> QED BY <1>1, <1>2, <2>2, <3>1
  <2> QED BY <1>1, <2>1, <2>2
<1> QED BY <1>1, <1>2, <1>3 DEF q

-----------------------------------------------------------------------------
(* The shards of a mode and their ranges. *)

LEMMA ModeFacts ==
  /\ 0 \in Mode
  /\ \A n \in Mode : Succ(n) \in Mode
BY ShapeAssumption DEF Mode, Succ

\* Every nonzero's shard is one of the mode's shards (ceiling division).
LEMMA ShardType ==
  ASSUME NEW n \in Mode, NEW e \in Elem
  PROVE  Shard(n, e) \in Nat /\ Shard(n, e) \in Shards(n)
<1> DEFINE m == MN[n]
           q == Shard(n, e)
           b == ModeSize[n]
           r == Row[n][e]
<1>1. m \in Nat \ {0} /\ b \in Nat \ {0} /\ r \in Nat /\ r < b
  BY TensorAssumption
<1>2. q \in Nat /\ m * q =< r
  <2>1. q = r \div m  BY DEF Shard
  <2> HIDE DEF q, m, b, r
  <2> QED BY <1>1, <2>1
<1>3. NumShards(n) \in Nat /\ m * NumShards(n) > b - 1
  <2>1. NumShards(n) = (b + m - 1) \div m  BY DEF NumShards
  <2> DEFINE c == b + m - 1
             k == NumShards(n)
  <2>2. c \in Nat /\ k = c \div m /\ m \in Nat \ {0}  BY <1>1, <2>1
  <2>3. k \in Nat /\ m * k =< c /\ c < m * k + m
    <3> HIDE DEF c, k, m
    <3> QED BY <2>2
  <2> QED BY <1>1, <2>2, <2>3
<1>4. q < NumShards(n)
  <2> DEFINE k == NumShards(n)
  <2>1. k \in Nat /\ m * k > m * q /\ m \in Nat \ {0} /\ q \in Nat
    <3>1. k \in Nat /\ m * k > b - 1 /\ m * q =< r /\ r =< b - 1
      BY <1>1, <1>2, <1>3
    <3>2. m * k \in Int /\ m * q \in Int  BY <1>1, <1>2, <1>3
    <3> HIDE DEF k, q, m, b, r
    <3> QED BY <3>1, <3>2, <1>1, <1>2
  <2> HIDE DEF k, q, m
  <2>2. ASSUME q >= k PROVE FALSE
    <3>1. m * q >= m * k  BY <2>1, <2>2
    <3> QED BY <2>1, <3>1
  <2> QED BY <2>1, <2>2 DEF k
<1> QED BY <1>2, <1>3, <1>4 DEF Shards

LEMMA FiniteElems ==
  ASSUME NEW S \in SUBSET Elem
  PROVE  IsFiniteSet(S) /\ Cardinality(S) \in Nat
BY ShapeAssumption, FS_Subset, FS_CardinalityType

LEMMA CardMonotone ==
  ASSUME NEW S \in SUBSET Elem, NEW T \in SUBSET S
  PROVE  Cardinality(T) =< Cardinality(S)
BY FiniteElems, FS_Subset

LEMMA SlotFacts ==
  /\ nnz \in Nat
  /\ IsFiniteSet(Slot) /\ Cardinality(Slot) = Cardinality(Elem)
  /\ \A d \in Slot : d \in Nat
<1>1. nnz \in Nat  BY FiniteElems DEF nnz
<1> QED BY <1>1, FS_Interval DEF Slot, nnz

\* Shard ranges lie in the slab, in the order of their shards.
LEMMA RangeOrder ==
  ASSUME NEW n \in Mode, NEW s \in Shards(n)
  PROVE  /\ ShardBegin(n, s) \in Nat /\ ShardEnd(n, s) \in Nat
         /\ ShardBegin(n, s) =< ShardEnd(n, s)
         /\ ShardEnd(n, s) =< nnz
         /\ ShardRange(n, s) \subseteq Slot
         /\ \A u \in Shards(n) : s < u => ShardEnd(n, s) =< ShardBegin(n, u)
<1> DEFINE Lo(u) == {e \in Elem : Shard(n, e) < u}
           Hi(u) == {e \in Elem : Shard(n, e) =< u}
<1>0. s \in Int /\ \A u \in Shards(n) : u \in Int  BY DEF Shards
<1>1. /\ ShardBegin(n, s) \in Nat /\ ShardEnd(n, s) \in Nat
  BY FiniteElems DEF ShardBegin, ShardEnd
<1>2. ShardBegin(n, s) =< ShardEnd(n, s)
  <2>1. Lo(s) \subseteq Hi(s)  BY <1>0, ShardType
  <2> QED BY <2>1, CardMonotone DEF ShardBegin, ShardEnd
<1>3. ShardEnd(n, s) =< nnz
  BY CardMonotone DEF ShardEnd, nnz
<1>4. ASSUME NEW u \in Shards(n), s < u PROVE ShardEnd(n, s) =< ShardBegin(n, u)
  <2>1. Hi(s) \subseteq Lo(u)  BY <1>0, <1>4, ShardType
  <2> QED BY <2>1, CardMonotone DEF ShardBegin, ShardEnd
<1>5. ShardRange(n, s) \subseteq Slot
  BY <1>1, <1>3, SlotFacts DEF ShardRange, Slot
<1> QED BY <1>1, <1>2, <1>3, <1>4, <1>5

\* A slot belongs to at most one shard.
LEMMA RangeDisjoint ==
  ASSUME NEW n \in Mode, NEW s \in Shards(n), NEW u \in Shards(n),
         NEW d \in ShardRange(n, s), d \in ShardRange(n, u)
  PROVE  s = u
<1>1. s \in Int /\ u \in Int  BY DEF Shards
<1>2. CASE s < u  BY <1>2, RangeOrder DEF ShardRange
<1>3. CASE u < s  BY <1>3, RangeOrder DEF ShardRange
<1> QED BY <1>1, <1>2, <1>3

LEMMA GroupFacts ==
  ASSUME NEW n \in Mode, NEW t \in Thread, NEW s \in Shards(Succ(n))
  PROVE  /\ ThrOff(n, t, s) \in Nat /\ ThrEnd(n, t, s) \in Nat
         /\ Group(n, t, s) \subseteq Elem
         /\ Cardinality(Group(n, t, s)) \in Nat
         /\ ThrEnd(n, t, s) = Cardinality(Before(n, t, s) \cup Group(n, t, s))
<1>0. t \in Int /\ s \in Int  BY DEF Thread, Shards
<1>1. Group(n, t, s) \subseteq Elem /\ Before(n, t, s) \subseteq Elem
  BY DEF Group, Before
<1>2. Group(n, t, s) \cap Before(n, t, s) = {}
  BY <1>0 DEF Group, Before
<1>3. /\ IsFiniteSet(Group(n, t, s)) /\ IsFiniteSet(Before(n, t, s))
      /\ Cardinality(Group(n, t, s)) \in Nat /\ Cardinality(Before(n, t, s)) \in Nat
  BY <1>1, FiniteElems
<1>4. Cardinality(Before(n, t, s) \cup Group(n, t, s))
        = Cardinality(Before(n, t, s)) + Cardinality(Group(n, t, s))
  <2>1. Cardinality(Before(n, t, s) \cap Group(n, t, s)) = 0
    <3>1. Before(n, t, s) \cap Group(n, t, s) = {}  BY <1>2
    <3> QED BY <3>1, FS_EmptySet
  <2>2. Cardinality(Before(n, t, s) \cup Group(n, t, s))
          = Cardinality(Before(n, t, s)) + Cardinality(Group(n, t, s))
            - Cardinality(Before(n, t, s) \cap Group(n, t, s))
    BY <1>3, FS_Union
  <2> QED BY <1>3, <2>1, <2>2
<1> QED BY <1>1, <1>3, <1>4 DEF ThrOff, ThrEnd

\* The atomic-free scatter: the slots reserved for one thread and one shard
\* of the next mode are reserved for no other pair, whatever the schedule.
THEOREM ReserveDisjoint ==
  ASSUME NEW n \in Mode,
         NEW t \in Thread, NEW s \in Shards(Succ(n)),
         NEW u \in Thread, NEW v \in Shards(Succ(n)),
         <<t, s>> # <<u, v>>
  PROVE  ThrEnd(n, t, s) =< ThrOff(n, u, v) \/ ThrEnd(n, u, v) =< ThrOff(n, t, s)
<1>0. t \in Int /\ s \in Int /\ u \in Int /\ v \in Int  BY DEF Thread, Shards
<1>1. ASSUME NEW a \in Thread, NEW b \in Shards(Succ(n)),
             NEW c \in Thread, NEW d \in Shards(Succ(n)),
             b < d \/ (b = d /\ a < c)
      PROVE  ThrEnd(n, a, b) =< ThrOff(n, c, d)
  <2>0. a \in Int /\ b \in Int /\ c \in Int /\ d \in Int  BY DEF Thread, Shards
  <2>1. ASSUME NEW e \in Before(n, a, b) \cup Group(n, a, b)
        PROVE  e \in Before(n, c, d)
    <3>1. e \in Elem /\ Shard(Succ(n), e) \in Int /\ OwnerOf(n, e) \in Int
      <4>1. e \in Elem  BY DEF Before, Group
      <4>2. OwnerOf(n, e) \in Thread  BY <4>1, OwnerAssumption, ShardType DEF OwnerOf
      <4> QED BY <4>1, <4>2, ShardType, ModeFacts DEF Thread
    <3> QED BY <2>0, <3>1, <2>1, <1>1 DEF Before, Group
  <2>2. Before(n, a, b) \cup Group(n, a, b) \in SUBSET Before(n, c, d)  BY <2>1
  <2>3. Before(n, c, d) \in SUBSET Elem  BY DEF Before
  <2> QED BY <2>2, <2>3, CardMonotone, GroupFacts DEF ThrOff
<1>2. CASE s < v \/ (s = v /\ t < u)  BY <1>1, <1>2
<1>3. CASE v < s \/ (s = v /\ u < t)  BY <1>1, <1>3
<1> QED BY <1>0, <1>2, <1>3

\* The slots reserved in a shard of the next mode lie in that shard's range.
LEMMA ReserveInShard ==
  ASSUME NEW n \in Mode, NEW t \in Thread, NEW s \in Shards(Succ(n))
  PROVE  /\ ShardBegin(Succ(n), s) =< ThrOff(n, t, s)
         /\ ThrOff(n, t, s) =< ThrEnd(n, t, s)
         /\ ThrEnd(n, t, s) =< ShardEnd(Succ(n), s)
<1> DEFINE Lo == {e \in Elem : Shard(Succ(n), e) < s}
           Hi == {e \in Elem : Shard(Succ(n), e) =< s}
<1>0. s \in Int  BY DEF Shards
<1>1. Lo \subseteq Before(n, t, s) /\ Before(n, t, s) \subseteq Elem
  BY DEF Before
<1>2. Before(n, t, s) \cup Group(n, t, s) \subseteq Hi
  BY <1>0, ShardType, ModeFacts DEF Before, Group
<1>3. ShardBegin(Succ(n), s) =< ThrOff(n, t, s)
  BY <1>1, CardMonotone DEF ShardBegin, ThrOff
<1>4. ThrEnd(n, t, s) =< ShardEnd(Succ(n), s)
  <2>1. Hi \in SUBSET Elem  OBVIOUS
  <2> QED BY <1>2, <2>1, CardMonotone, GroupFacts DEF ShardEnd
<1>5. ThrOff(n, t, s) =< ThrEnd(n, t, s)
  <2>1. ThrOff(n, t, s) \in Nat /\ Cardinality(Group(n, t, s)) \in Nat
    BY GroupFacts
  <2> QED BY <2>1 DEF ThrEnd
<1> QED BY <1>3, <1>4, <1>5

-----------------------------------------------------------------------------
(* Slabs in shard order. *)

LEMMA GroupedFacts ==
  ASSUME NEW n \in Mode, NEW slab, Grouped(slab, n)
  PROVE  /\ slab \in [Slot -> Elem]
         /\ \A c, d \in Slot : slab[c] = slab[d] => c = d
         /\ \A e \in Elem : \E d \in Slot : slab[d] = e
         /\ \A d \in Slot : /\ Shard(n, slab[d]) \in Shards(n)
                            /\ d \in ShardRange(n, Shard(n, slab[d]))
         /\ \A s \in Shards(n) : \A d \in ShardRange(n, s) : Shard(n, slab[d]) = s
<1>1. slab \in [Slot -> Elem] /\ \A c, d \in Slot : slab[c] = slab[d] => c = d
  BY DEF Grouped, Bijection, Injection, IsInjective
<1>2. \A e \in Elem : \E d \in Slot : slab[d] = e
  BY DEF Grouped, Bijection, Surjection
<1>3. \A d \in Slot : /\ Shard(n, slab[d]) \in Shards(n)
                      /\ d \in ShardRange(n, Shard(n, slab[d]))
  BY <1>1, ShardType DEF Grouped
<1>4. ASSUME NEW s \in Shards(n), NEW d \in ShardRange(n, s)
      PROVE  Shard(n, slab[d]) = s
  <2>1. d \in Slot  BY RangeOrder
  <2> QED BY <2>1, <1>3, RangeDisjoint
<1> QED BY <1>1, <1>2, <1>3, <1>4

\* A slab that has every nonzero, each within its shard's range, is grouped.
LEMMA OntoGrouped ==
  ASSUME NEW n \in Mode, NEW slab \in [Slot -> Elem],
         \A e \in Elem : \E d \in Slot : slab[d] = e /\ d \in ShardRange(n, Shard(n, e))
  PROVE  Grouped(slab, n)
<1>1. slab \in Surjection(Slot, Elem)
  BY DEF Surjection
<1>2. slab \in Injection(Slot, Elem)
  BY <1>1, SlotFacts, ShapeAssumption, FS_SurjSameCardinalityImpliesInj
<1>3. ASSUME NEW d \in Slot PROVE d \in ShardRange(n, Shard(n, slab[d]))
  <2>1. PICK c \in Slot : slab[c] = slab[d] /\ c \in ShardRange(n, Shard(n, slab[d]))
    OBVIOUS
  <2>2. c = d  BY <1>2, <2>1 DEF Injection, IsInjective
  <2> QED BY <2>1, <2>2
<1> QED BY <1>1, <1>2, <1>3 DEF Grouped, Bijection
=============================================================================
