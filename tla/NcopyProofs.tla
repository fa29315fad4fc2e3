----------------------------- MODULE NcopyProofs -----------------------------
(***************************************************************************)
(* Proofs about NcopyCsr, for every tensor, thread count, schedule and     *)
(* choice of dense modes: the copies are grouped, the row pointers are     *)
(* exact, threads that share an entry write the same value into it, and    *)
(* process(n) over the copies implements Mttkrp.                           *)
(***************************************************************************)
EXTENDS NcopyInv, FlycooProofs

-----------------------------------------------------------------------------
(* Shard counts and rows. *)

\* The number of shards, rounded up.
LEMMA ShardCount ==
  ASSUME NEW b \in Nat \ {0}, NEW m \in Nat \ {0}, NEW s \in Nat
  PROVE  s < (b + m - 1) \div m <=> s * m < b
<1>1. s * m \in Nat /\ (s + 1) * m = s * m + m /\ s + 1 \in Nat /\ b + m - 1 \in Nat
  BY Times
<1> DEFINE q == (b + m - 1) \div m
<1>2. q < s + 1 <=> b + m - 1 < (s + 1) * m
  BY <1>1, Division
<1>3. q \in Nat
  BY <1>1, Division
<1> HIDE DEF q
<1>4. s < q <=> s * m < b
  BY <1>1, <1>2, <1>3
<1> QED BY <1>4 DEF q

-----------------------------------------------------------------------------
(* Rows and shards. *)

LEMMA RowBounds ==
  ASSUME NEW n \in Mode, NEW s \in Shards(n)
  PROVE  /\ RowLo(n, s) \in Nat /\ RowHi(n, s) \in Nat
         /\ RowLo(n, s) =< RowHi(n, s) /\ RowHi(n, s) =< ModeSize[n]
<1> DEFINE b == ModeSize[n]
           m == MN[n]
<1>1. b \in Nat \ {0} /\ m \in Nat \ {0}
  BY TensorAssumption
<1>2. s \in Nat /\ s < (b + m - 1) \div m
  <2>1. (b + m - 1) \div m \in Nat
    BY <1>1, Division
  <2> QED BY <2>1 DEF Shards, NumShards
<1> HIDE DEF b, m
<1>3. s * m < b
  BY <1>1, <1>2, ShardCount
<1>4. s * m \in Nat /\ (s + 1) * m \in Nat /\ s * m =< (s + 1) * m
  BY <1>1, <1>2, Times
<1> QED BY <1>1, <1>3, <1>4 DEF RowLo, RowHi, b, m

LEMMA RowInShard ==
  ASSUME NEW n \in Mode, NEW r \in Nat, r < ModeSize[n]
  PROVE  \E s \in Shards(n) : r \in RowLo(n, s) .. RowHi(n, s) - 1
<1> DEFINE b == ModeSize[n]
           m == MN[n]
           s == r \div m
<1>1. b \in Nat \ {0} /\ m \in Nat \ {0} /\ r < b
  BY TensorAssumption
<1>2. s \in Nat /\ s * m =< r /\ r < (s + 1) * m
  BY <1>1, Division
<1>3. s * m \in Nat /\ (s + 1) * m \in Nat
  BY <1>1, <1>2, Times
<1> HIDE DEF b, m, s
<1>4. s < (b + m - 1) \div m
  BY <1>1, <1>2, <1>3, ShardCount
<1>5. s \in Shards(n)
  <2>1. (b + m - 1) \div m \in Nat
    BY <1>1, Division
  <2> QED BY <1>2, <1>4, <2>1 DEF Shards, NumShards, b, m
<1>6. r \in RowLo(n, s) .. RowHi(n, s) - 1
  BY <1>1, <1>2, <1>3 DEF RowLo, RowHi, b, m
<1> QED BY <1>5, <1>6

LEMMA BelowType ==
  ASSUME NEW n \in Mode, NEW r \in Nat
  PROVE  /\ Below(n, r) \in Nat /\ Below(n, r) =< nnz
         /\ \A q \in Nat : r =< q => Below(n, r) =< Below(n, q)
<1>1. ASSUME NEW q \in Nat PROVE {e \in Elem : Row[n][e] < q} \in SUBSET Elem
  OBVIOUS
<1>2. Below(n, r) \in Nat
  BY FiniteElems DEF Below
<1>3. Below(n, r) =< nnz
  BY CardMonotone DEF Below, nnz
<1>4. ASSUME NEW q \in Nat, r =< q PROVE Below(n, r) =< Below(n, q)
  <2>1. \A e \in Elem : Row[n][e] \in Nat
    BY TensorAssumption
  <2>2. {e \in Elem : Row[n][e] < r} \in SUBSET {e \in Elem : Row[n][e] < q}
    BY <1>4, <2>1
  <2> QED BY <2>2, CardMonotone DEF Below
<1> QED BY <1>2, <1>3, <1>4

\* Shard boundaries are row boundaries.
LEMMA ShardBelow ==
  ASSUME NEW n \in Mode, NEW s \in Shards(n)
  PROVE  /\ ShardBegin(n, s) = Below(n, RowLo(n, s))
         /\ ShardEnd(n, s) = Below(n, RowHi(n, s))
<1>1. MN[n] \in Nat \ {0} /\ ModeSize[n] \in Nat /\ s \in Nat
      /\ \A e \in Elem : Row[n][e] \in Nat /\ Row[n][e] < ModeSize[n]
  BY TensorAssumption DEF Shards
<1>2. ASSUME NEW e \in Elem
      PROVE  /\ Shard(n, e) < s <=> Row[n][e] < RowLo(n, s)
             /\ Shard(n, e) =< s <=> Row[n][e] < RowHi(n, s)
  <2>1. Shard(n, e) \in Nat
    BY ShardType
  <2>2. Shard(n, e) < s <=> Row[n][e] < s * MN[n]
    BY <1>1, Division DEF Shard
  <2>3. Shard(n, e) < s + 1 <=> Row[n][e] < (s + 1) * MN[n]
    <3>1. s + 1 \in Nat /\ Row[n][e] \in Nat
      BY <1>1
    <3> QED BY <1>1, <3>1, Division, Zenon DEF Shard
  <2>4. (s + 1) * MN[n] \in Nat /\ Row[n][e] \in Nat /\ Row[n][e] < ModeSize[n]
    BY <1>1, Times
  <2>5. Row[n][e] < RowHi(n, s) <=> Row[n][e] < (s + 1) * MN[n]
    BY <1>1, <2>4 DEF RowHi
  <2> QED BY <1>1, <2>1, <2>2, <2>3, <2>5 DEF RowLo
<1>3. {e \in Elem : Shard(n, e) < s} = {e \in Elem : Row[n][e] < RowLo(n, s)}
  BY <1>2
<1>4. {e \in Elem : Shard(n, e) =< s} = {e \in Elem : Row[n][e] < RowHi(n, s)}
  BY <1>2
<1> QED BY <1>3, <1>4 DEF ShardBegin, ShardEnd, Below

LEMMA BelowAll == ASSUME NEW n \in Mode PROVE Below(n, ModeSize[n]) = nnz
<1>1. {e \in Elem : Row[n][e] < ModeSize[n]} = Elem
  BY TensorAssumption
<1> QED BY <1>1 DEF Below, nnz

-----------------------------------------------------------------------------
(* A slab in the order of its rows. *)

LEMMA BelowSlots ==
  ASSUME NEW n \in Mode, NEW slab, Grouped(slab, n), InOrder(slab, n), NEW q \in Nat
  PROVE  \A d \in Slot : Row[n][slab[d]] < q <=> d < Below(n, q)
<1> DEFINE D == {d \in Slot : Row[n][slab[d]] < q}
           E == {e \in Elem : Row[n][e] < q}
           U == (Slot \ D) \cup {nnz}
<1>1. /\ nnz \in Nat /\ Slot = 0 .. nnz - 1
      /\ slab \in [Slot -> Elem] /\ \A e \in Elem : Row[n][e] \in Nat
  BY SlotFacts, GroupedFacts, TensorAssumption DEF Slot
<1>2. PICK m \in U : \A y \in U : m =< y
  <2>1. U \in SUBSET Nat /\ U # {}
    BY <1>1
  <2> QED BY <2>1, LeastElement
<1>3. D = 0 .. m - 1
  <2>1. ASSUME NEW d \in Slot, d < m PROVE d \in D
    BY <1>1, <1>2, <2>1
  <2>2. ASSUME NEW d \in Slot, m =< d PROVE d \notin D
    <3>1. m \in Slot /\ m \notin D
      BY <1>1, <1>2, <2>2
    <3>2. Row[n][slab[m]] =< Row[n][slab[d]]
      <4>1. CASE m = d
        BY <1>1, <3>1, <4>1
      <4>2. CASE m < d
        BY <3>1, <4>2 DEF InOrder
      <4> QED BY <1>1, <2>2, <3>1, <4>1, <4>2
    <3>3. Row[n][slab[m]] \in Nat /\ Row[n][slab[d]] \in Nat
      BY <1>1, <3>1
    <3> QED BY <3>1, <3>2, <3>3
  <2>3. m \in Nat /\ m =< nnz
    BY <1>1, <1>2
  <2> QED BY <1>1, <2>1, <2>2, <2>3
<1>4. Cardinality(D) = Cardinality(E)
  <2> DEFINE f == [d \in D |-> slab[d]]
  <2>1. f \in Bijection(D, E)
    <3>1. f \in [D -> E]
      BY <1>1
    <3>2. \A c, d \in D : f[c] = f[d] => c = d
      BY GroupedFacts
    <3>3. \A e \in E : \E d \in D : f[d] = e
      <4>1. ASSUME NEW e \in E PROVE \E d \in D : f[d] = e
        <5>1. PICK d \in Slot : slab[d] = e
          BY GroupedFacts
        <5>2. d \in D
          BY <5>1
        <5>3. f[d] = e
          BY <5>1, <5>2
        <5> QED BY <5>2, <5>3
      <4> QED BY <4>1
    <3> HIDE DEF f, D, E
    <3> QED BY <3>1, <3>2, <3>3 DEF Bijection, Injection, Surjection, IsInjective
  <2>2. IsFiniteSet(E)
    BY FiniteElems
  <2>3. IsFiniteSet(D)
    BY SlotFacts, FS_Subset
  <2> HIDE DEF f, D, E
  <2> QED BY <2>1, <2>2, <2>3, FS_Bijection DEF ExistsBijection
<1>5. Below(n, q) = m
  <2>1. m \in Nat
    BY <1>1, <1>2
  <2>2. Cardinality(0 .. m - 1) = m
    BY <2>1, FS_Interval
  <2> QED BY <1>3, <1>4, <2>2 DEF Below
<1>6. ASSUME NEW d \in Slot PROVE d \in D <=> d < m
  BY <1>1, <1>2, <1>3
<1> QED BY <1>5, <1>6

\* The scan of a row ends at the first slot of the next.
LEMMA PastRowBelow ==
  ASSUME NEW n \in Mode, NEW slab, Grouped(slab, n), InOrder(slab, n),
         NEW r \in Nat, NEW h \in Nat, r < h
  PROVE  PastRow(slab, n, Below(n, r), Below(n, h), r) = Below(n, r + 1)
<1> DEFINE i == Below(n, r)
           e == Below(n, h)
           b == Below(n, r + 1)
           Past(j) == /\ \A d \in i .. j - 1 : Row[n][slab[d]] = r
                      /\ j < e => Row[n][slab[j]] # r
<1>1. /\ i \in Nat /\ e \in Nat /\ b \in Nat /\ i =< b /\ b =< e /\ e =< nnz
      /\ nnz \in Nat /\ Slot = 0 .. nnz - 1
  BY BelowType, SlotFacts DEF Slot
<1>2. ASSUME NEW d \in Slot PROVE Row[n][slab[d]] = r <=> i =< d /\ d < b
  <2>1. Row[n][slab[d]] \in Nat
    BY GroupedFacts, TensorAssumption
  <2>2. /\ Row[n][slab[d]] < r <=> d < i
        /\ Row[n][slab[d]] < r + 1 <=> d < b
    BY BelowSlots
  <2>3. d \in Nat
    BY SlotFacts
  <2> HIDE DEF i, b
  <2> QED BY <1>1, <2>1, <2>2, <2>3
<1> HIDE DEF i, e, b
<1>3. b \in i .. e /\ Past(b)
  BY <1>1, <1>2
<1>4. ASSUME NEW j \in i .. e, Past(j) PROVE j = b
  <2>1. CASE j < b
    BY <1>1, <1>2, <1>4, <2>1
  <2>2. CASE b < j
    <3>1. b \in i .. j - 1 /\ b \in Slot
      BY <1>1, <2>2
    <3> QED BY <1>1, <1>2, <1>4, <3>1
  <2> QED BY <1>1, <2>1, <2>2
<1>5. (CHOOSE j \in i .. e : Past(j)) = b
  <2> HIDE DEF Past
  <2> QED BY <1>3, <1>4
<1> QED BY <1>5 DEF PastRow, i, e, b

-----------------------------------------------------------------------------
(* The sort and the stripes. *)

\* A grouped slab whose shards have been sorted by row is in row order.
LEMMA SortComplete ==
  ASSUME NEW n \in Mode, NEW src, Grouped(src, n),
         NEW dst, dst = [d \in Slot |-> dst[d]],
         \A s \in Shards(n) : \E from \in Bijection(ShardRange(n, s), ShardRange(n, s)) :
           /\ \A d \in ShardRange(n, s) : dst[d] = src[from[d]]
           /\ \A c, d \in ShardRange(n, s) : c < d => Row[n][dst[c]] =< Row[n][dst[d]]
  PROVE  Grouped(dst, n) /\ InOrder(dst, n)
<1>1. ASSUME NEW s \in Shards(n)
      PROVE  /\ \A d \in ShardRange(n, s) : \E c \in ShardRange(n, s) : dst[d] = src[c]
             /\ \A c \in ShardRange(n, s) : \E d \in ShardRange(n, s) : dst[d] = src[c]
  <2>1. PICK from \in Bijection(ShardRange(n, s), ShardRange(n, s)) :
          \A d \in ShardRange(n, s) : dst[d] = src[from[d]]
    OBVIOUS
  <2>2. /\ \A d \in ShardRange(n, s) : from[d] \in ShardRange(n, s)
        /\ \A c \in ShardRange(n, s) : \E d \in ShardRange(n, s) : from[d] = c
    BY DEF Bijection, Injection, Surjection
  <2>3. \A d \in ShardRange(n, s) : \E c \in ShardRange(n, s) : dst[d] = src[c]
    BY <2>1, <2>2
  <2>4. ASSUME NEW c \in ShardRange(n, s)
        PROVE  \E d \in ShardRange(n, s) : dst[d] = src[c]
    <3>1. PICK d \in ShardRange(n, s) : from[d] = c
      BY <2>2
    <3> QED BY <2>1, <3>1
  <2> QED BY <2>3, <2>4
<1>2. dst \in [Slot -> Elem]
  <2>1. ASSUME NEW d \in Slot PROVE dst[d] \in Elem
    <3>1. PICK s \in Shards(n) : d \in ShardRange(n, s)
      BY GroupedFacts
    <3>2. PICK c \in ShardRange(n, s) : dst[d] = src[c]
      BY <1>1, <3>1
    <3>3. c \in Slot
      BY RangeOrder
    <3> QED BY <3>2, <3>3, GroupedFacts
  <2> QED BY <2>1
<1>3. Grouped(dst, n)
  <2>1. ASSUME NEW e \in Elem
        PROVE  \E d \in Slot : dst[d] = e /\ d \in ShardRange(n, Shard(n, e))
    <3>1. PICK c \in Slot : src[c] = e
      BY GroupedFacts
    <3>2. Shard(n, e) \in Shards(n) /\ c \in ShardRange(n, Shard(n, e))
      BY <3>1, GroupedFacts
    <3>3. PICK d \in ShardRange(n, Shard(n, e)) : dst[d] = e
      BY <1>1, <3>1, <3>2
    <3>4. d \in Slot
      BY <3>2, RangeOrder
    <3> QED BY <3>3, <3>4
  <2> QED BY <1>2, <2>1, OntoGrouped
<1>4. ASSUME NEW c \in Slot, NEW d \in Slot, c < d
      PROVE  Row[n][dst[c]] =< Row[n][dst[d]]
  <2> DEFINE x == Row[n][dst[c]]
             y == Row[n][dst[d]]
             m == MN[n]
             u == Shard(n, dst[c])
             v == Shard(n, dst[d])
  <2>1. x \in Nat /\ y \in Nat /\ m \in Nat \ {0} /\ u = x \div m /\ v = y \div m
    BY <1>2, TensorAssumption DEF Shard
  <2>2. u \in Shards(n) /\ v \in Shards(n) /\ c \in ShardRange(n, u) /\ d \in ShardRange(n, v)
    BY <1>3, GroupedFacts
  <2>3. u \in Nat /\ v \in Nat /\ c \in Nat /\ d \in Nat
    BY <2>2, SlotFacts DEF Shards
  <2> HIDE DEF x, y, m, u, v
  <2>4. CASE u = v
    BY <1>4, <2>2, <2>4 DEF x, y
  <2>5. CASE u < v
    <3>1. x < v * m /\ v * m =< y /\ v * m \in Nat
      BY <2>1, <2>3, <2>5, Division, Times
    <3> QED BY <2>1, <3>1 DEF x, y
  <2>6. CASE v < u
    <3>1. ShardEnd(n, v) =< ShardBegin(n, u)
          /\ ShardEnd(n, v) \in Nat /\ ShardBegin(n, u) \in Nat
      BY <2>2, <2>6, RangeOrder
    <3> QED BY <1>4, <2>2, <2>3, <3>1 DEF ShardRange
  <2> QED BY <2>3, <2>4, <2>5, <2>6
<1> QED BY <1>3, <1>4 DEF InOrder

LEMMA StripesCover ==
  ASSUME NEW d \in Slot
  PROVE  \E t \in Thread : d \in StripeOf(t)
<1> DEFINE S == {t \in Nat : d < (nnz * (t + 1)) \div P}
<1>1. nnz \in Nat /\ d \in Nat /\ d < nnz /\ P \in Nat \ {0} /\ P - 1 \in Nat
  BY SlotFacts, ShapeAssumption DEF Slot
<1>2. \A t \in Nat : nnz * t \in Nat /\ (nnz * t) \div P \in Nat
  <2>1. \A t \in Nat : nnz * t \in Nat
    BY <1>1
  <2> QED BY <1>1, <2>1, Division
<1>3. P - 1 \in S
  <2>1. (d + 1) * P =< nnz * P /\ nnz * P \in Nat /\ (d + 1) * P \in Nat
    BY <1>1, Times
  <2>2. ~ ((nnz * P) \div P < d + 1)
    BY <1>1, <2>1, Division
  <2>3. (nnz * P) \div P \in Nat
    BY <1>1, <1>2
  <2>4. (P - 1) + 1 = P
    BY <1>1
  <2> QED BY <1>1, <2>2, <2>3, <2>4
<1>4. PICK t \in S : \A u \in S : t =< u
  <2>1. S \in SUBSET Nat /\ S # {}
    BY <1>3
  <2> HIDE DEF S
  <2> QED BY <2>1, LeastElement
<1>5. t \in Thread
  BY <1>1, <1>3, <1>4 DEF Thread
<1>6. (nnz * t) \div P =< d
  <2>1. CASE t = 0
    <3>1. nnz * t = 0
      BY <1>1, <2>1
    <3>2. (nnz * t) \div P = 0
      BY <1>1, <3>1
    <3> QED BY <1>1, <3>2
  <2>2. CASE t # 0
    <3>1. t - 1 \in Nat /\ t - 1 \notin S /\ (t - 1) + 1 = t /\ t \in Nat
      BY <1>4, <2>2
    <3>2. ~ (d < (nnz * t) \div P)
      BY <3>1
    <3> QED BY <1>1, <1>2, <3>1, <3>2
  <2> QED BY <2>1, <2>2
<1>7. d < (nnz * (t + 1)) \div P /\ (nnz * (t + 1)) \div P \in Nat /\ (nnz * t) \div P \in Nat
  BY <1>2, <1>4
<1>8. d \in StripeOf(t)
  <2> DEFINE lo == (nnz * t) \div P
             hi == (nnz * (t + 1)) \div P
  <2>1. lo \in Nat /\ hi \in Nat /\ lo =< d /\ d < hi
    BY <1>6, <1>7
  <2> HIDE DEF lo, hi
  <2>2. d \in lo .. hi - 1
    BY <1>1, <2>1
  <2> QED BY <2>2 DEF StripeOf, lo, hi
<1> QED BY <1>5, <1>8

-----------------------------------------------------------------------------
(* The remap. *)

LEMMA SidFacts ==
  \A n \in Mode : Shards(n) \subseteq Sid /\ \A s \in Shards(n) : s \in Nat
BY DEF Sid, Shards

LEMMA PreviousMode ==
  ASSUME NEW n \in Mode, n # 0
  PROVE  n - 1 \in Mode /\ Succ(n - 1) = n /\ n \in Nat
<1>1. n \in Nat /\ n < N /\ 0 < n /\ N \in Nat
  BY ShapeAssumption DEF Mode
<1>2. n - 1 \in Mode /\ (n - 1) + 1 = n
  BY <1>1 DEF Mode
<1>3. n % N = n
  BY <1>1
<1> QED BY <1>1, <1>2, <1>3 DEF Succ

LEMMA TemplateType ==
  ASSUME NEW n \in Mode PROVE Template(n) \in [Thread -> [Sid -> Nat]]
<1>1. ASSUME NEW t \in Thread, NEW s \in Sid PROVE ThrOff(n, t, s) \in Nat
  <2>1. Before(n, t, s) \in SUBSET Elem
    BY DEF Before
  <2> QED BY <2>1, FiniteElems DEF ThrOff
<1> QED BY <1>1 DEF Template

LEMMA ListsType ==
  ASSUME NEW n \in Mode
  PROVE  /\ Lists(n) \in [Thread -> SUBSET Nat]
         /\ \A t \in Thread : \A s \in Lists(n)[t] : s \in Shards(n) /\ Owner[n][s] = t
BY SidFacts DEF Lists, ThreadShards

\* The lists of a mode hold every slot.
LEMMA AllListed ==
  ASSUME NEW n \in Mode, NEW slab, Grouped(slab, n), NEW k \in Slot
  PROVE  \E t \in Thread : \E u \in Lists(n)[t] : k \in ShardRange(n, u)
<1> DEFINE u == Shard(n, slab[k])
           t == Owner[n][u]
<1>1. u \in Shards(n) /\ k \in ShardRange(n, u)
  BY GroupedFacts
<1> HIDE DEF u
<1>2. t \in Thread
  BY <1>1, OwnerAssumption
<1>3. u \in Lists(n)[t]
  BY <1>1, <1>2 DEF Lists, ThreadShards
<1> QED BY <1>1, <1>2, <1>3

LEMMA InitInv == Init => IInv
<1> SUFFICES ASSUME Init PROVE IInv
  OBVIOUS
<1>1. PICK input \in Bijection(Slot, Elem), from \in Bijection(Slot, Slot) :
         copy = [n \in Mode |->
            CASE n = 0 -> [d \in Slot |-> input[from[d]]]
              [] n = 1 -> input
              [] OTHER -> [d \in Slot |-> Fresh]]
  BY DEF Init
<1>2. 0 \in Mode /\ 1 \in Mode /\ 1 - 1 = 0 /\ \A n \in Mode : n < 1 => n = 0
  BY ShapeAssumption DEF Mode
<1>3. /\ stage = "remap" /\ mode = 1 /\ Grouped(copy[0], 0)
      /\ sorted = {} /\ csr = {} /\ todo = {}
      /\ pending = Lists(0) /\ off = Template(0)
      /\ env \in [sort : BOOLEAN, csr : BOOLEAN, compact : BOOLEAN]
  BY DEF Init
<1>4. copy \in [Mode -> [Slot -> Elem \cup {Fresh}]]
  <2>1. input \in [Slot -> Elem] /\ \A d \in Slot : input[d] \in Elem /\ from[d] \in Slot
    BY DEF Bijection, Injection
  <2>2. ASSUME NEW n \in Mode PROVE copy[n] \in [Slot -> Elem \cup {Fresh}]
    <3>1. CASE n = 0
      <4>1. copy[n] = [d \in Slot |-> input[from[d]]]
        BY <1>1, <3>1
      <4>2. ASSUME NEW d \in Slot PROVE input[from[d]] \in Elem \cup {Fresh}
        <5>1. from[d] \in Slot
          BY <2>1
        <5> QED BY <2>1, <5>1
      <4> QED BY <4>1, <4>2
    <3>2. CASE n = 1
      <4>1. copy[n] = input
        BY <1>1, <3>2
      <4> QED BY <2>1, <4>1
    <3>3. CASE n # 0 /\ n # 1
      <4>1. copy[n] = [d \in Slot |-> Fresh]
        BY <1>1, <3>3
      <4> QED BY <4>1
    <3> QED BY <3>1, <3>2, <3>3
  <2>3. copy = [n \in Mode |-> copy[n]]
    BY <1>1
  <2> QED BY <2>2, <2>3
<1>5. TypeOK
  <2>1. pending \in [Thread -> SUBSET Nat] /\ off \in [Thread -> [Sid -> Nat]]
    BY <1>2, <1>3, ListsType, TemplateType
  <2>2. DOMAIN rowptr = Mode /\ \A n \in Mode : rowptr[n] \in [0 .. ModeSize[n] -> Nat \cup {Fresh}]
    BY DEF Init
  <2>3. /\ tmp \in [Slot -> Elem \cup {Fresh}]
        /\ ip \in [Thread -> Nat] /\ ends \in [Thread -> Nat] /\ stop \in [Thread -> Nat]
        /\ row \in [Thread -> Nat] /\ rowEnd \in [Thread -> Nat]
        /\ at \in [Thread -> {"row", "rows", "run"}]
    BY DEF Init
  <2>4. acc \in [Thread -> [Elem -> Nat]]
    BY DEF Init, Nothing
  <2> QED BY <1>2, <1>3, <1>4, <2>1, <2>2, <2>3, <2>4 DEF TypeOK, Stage
<1>6. CopiesReady /\ SortInv /\ RowPtrSound /\ ScanInv /\ ScannedInv /\ QuietInv
  <2>1. CopiesGrouped
    <3>1. \A n \in Mode : n >= mode \/ n = 0
      BY <1>2, <1>3 DEF Mode
    <3> QED BY <1>3, <3>1 DEF CopiesGrouped
  <2>2. RowPtrExact /\ RowPtrSound
    BY <1>3 DEF RowPtrExact, RowPtrSound, Init
  <2> QED BY <1>3, <1>5, <2>1, <2>2 DEF CopiesReady, SortInv, ScanInv, ScannedInv, QuietInv
<1>7. KernelInv
  BY <1>3 DEF Init, KernelInv, Nothing
<1>8. MoverInv
  <2>1. \A t \in Thread : at[t] = "row" /\ row[t] = rowEnd[t] /\ ip[t] = 0 /\ ends[t] = 0
    BY DEF Init
  <2> QED BY <1>2, <1>3, <2>1, ListsType DEF MoverInv
<1>9. RemapInv
  <2>1. Moved = {}
    BY <1>2, <1>3, AllListed DEF Moved, Ahead
  <2>2. \A t \in Thread, s \in Shards(mode) : MovedBy(t, s) = {}
    BY <2>1 DEF MovedBy
  <2>3. \A t \in Thread, s \in Shards(mode) : off[t][s] = ThrOff(0, t, s) /\ ThrOff(0, t, s) \in Nat
    <3>1. \A s \in Shards(mode) : s \in Sid
      BY <1>2, <1>3, SidFacts
    <3>2. \A t \in Thread, s \in Sid : Template(0)[t][s] = ThrOff(0, t, s)
      BY DEF Template
    <3>3. \A t \in Thread, s \in Sid : Template(0)[t][s] \in Nat
      BY <1>2, TemplateType
    <3>4. ASSUME NEW t \in Thread, NEW s \in Shards(mode)
          PROVE  off[t][s] = ThrOff(0, t, s) /\ ThrOff(0, t, s) \in Nat
      <4>1. s \in Sid
        BY <3>1
      <4>2. off[t][s] = Template(0)[t][s]
        BY <1>3
      <4> QED BY <3>2, <3>3, <4>1, <4>2
    <3> QED BY <3>4
  <2>4. ASSUME NEW t \in Thread, NEW s \in Shards(mode)
        PROVE  off[t][s] = ThrOff(mode - 1, t, s) + Cardinality(MovedBy(t, s))
    <3>1. Cardinality(MovedBy(t, s)) = 0
      BY <2>2, FS_EmptySet
    <3>2. mode - 1 = 0
      BY <1>3
    <3> QED BY <2>3, <3>1, <3>2
  <2> QED BY <1>3, <2>2, <2>4 DEF RemapInv
<1> QED BY <1>6, <1>7, <1>8, <1>9 DEF IInv

\* A step of the remap concerns the copy being filled and its movers.
LEMMA StillRemapping ==
  ASSUME IInv, TypeOK', stage = "remap", UNCHANGED <<stage, mode, rowptr, csr, yhat>>,
         \A n \in Mode : n # mode => copy'[n] = copy[n],
         MoverInv', RemapInv'
  PROVE  IInv'
<1>1. CopiesGrouped'
  BY DEF IInv, CopiesReady, CopiesGrouped, TypeOK, Mode
<1>2. RowPtrExact' /\ RowPtrSound'
  BY DEF IInv, CopiesReady, RowPtrExact, RowPtrSound
<1>3. SortInv' /\ ScanInv' /\ ScannedInv' /\ QuietInv'
  BY DEF SortInv, ScanInv, ScannedInv, QuietInv
<1>4. KernelInv'
  BY DEF IInv, KernelInv
<1> QED BY <1>1, <1>2, <1>3, <1>4 DEF IInv, CopiesReady

LEMMA SourceCopy ==
  ASSUME IInv, stage = "remap"
  PROVE  /\ mode \in Mode /\ mode # 0 /\ mode - 1 \in Mode /\ Succ(mode - 1) = mode
         /\ Grouped(copy[mode - 1], mode - 1)
<1>1. mode \in Mode /\ mode # 0 /\ mode - 1 \in Mode /\ Succ(mode - 1) = mode /\ mode \in Nat
  BY PreviousMode DEF IInv, CopiesReady, TypeOK, RemapInv
<1>2. ~ (mode - 1 >= mode)
  BY <1>1
<1>3. Grouped(copy[mode - 1], mode - 1)
  BY <1>1, <1>2 DEF IInv, CopiesReady, CopiesGrouped
<1> QED BY <1>1, <1>3

LEMMA TakeRemapShardStep ==
  ASSUME IInv, NEW t \in Thread, TakeRemapShard(t) PROVE IInv'
<1>1. PICK s \in pending[t] :
         /\ pending' = [pending EXCEPT ![t] = @ \ {s}]
         /\ ip' = [ip EXCEPT ![t] = ShardBegin(mode - 1, s)]
         /\ ends' = [ends EXCEPT ![t] = ShardEnd(mode - 1, s)]
  BY DEF TakeRemapShard
<1>2. /\ stage = "remap" /\ ip[t] = ends[t]
      /\ UNCHANGED <<env, stage, mode, copy, tmp, rowptr, sorted, csr, todo, off, row, rowEnd,
                     at, stop, acc, yhat>>
  BY DEF TakeRemapShard, tables
<1>3. /\ mode - 1 \in Mode /\ s \in Shards(mode - 1) /\ Owner[mode - 1][s] = t
      /\ ShardBegin(mode - 1, s) \in Nat /\ ShardEnd(mode - 1, s) \in Nat
      /\ ShardBegin(mode - 1, s) =< ShardEnd(mode - 1, s)
  BY <1>2, SourceCopy, RangeOrder DEF IInv, MoverInv
<1>4. /\ pending'[t] = pending[t] \ {s}
      /\ ip'[t] = ShardBegin(mode - 1, s) /\ ends'[t] = ShardEnd(mode - 1, s)
      /\ \A u \in Thread : u # t =>
           pending'[u] = pending[u] /\ ip'[u] = ip[u] /\ ends'[u] = ends[u]
  BY <1>1 DEF IInv, CopiesReady, TypeOK
<1>5. TypeOK'
  <2>1. pending' \in [Thread -> SUBSET Nat] /\ ip' \in [Thread -> Nat] /\ ends' \in [Thread -> Nat]
    BY <1>1, <1>3 DEF IInv, CopiesReady, TypeOK
  <2> QED BY <1>2, <2>1 DEF IInv, CopiesReady, TypeOK
<1>6. Moved' = Moved
  <2>1. Ahead(t)' = Ahead(t)
    <3>1. \A k \in Slot : k \notin ip[t] .. ends[t] - 1
      BY <1>2 DEF IInv, CopiesReady, TypeOK
    <3>2. \A k : k \in ip'[t] .. ends'[t] - 1 <=> k \in ShardRange(mode - 1, s)
      BY <1>4 DEF ShardRange
    <3> QED BY <1>2, <1>4, <3>1, <3>2 DEF Ahead
  <2>2. ASSUME NEW u \in Thread, u # t PROVE Ahead(u)' = Ahead(u)
    BY <1>2, <1>4, <2>2 DEF Ahead
  <2> QED BY <1>2, <2>1, <2>2 DEF Moved
<1>7. MoverInv'
  <2>1. ASSUME NEW u \in Thread, NEW v \in Shards(mode - 1), InShard(u, v), u # t
        PROVE  InShard(u, v)'
    BY <1>2, <1>4, <2>1 DEF InShard
  <2>2. InShard(t, s)'
    BY <1>2, <1>3, <1>4 DEF InShard
  <2> QED BY <1>2, <1>3, <1>4, <2>1, <2>2 DEF IInv, MoverInv
<1>8. RemapInv'
  <2>1. \A u \in Thread, v \in Shards(mode) : MovedBy(u, v)' = MovedBy(u, v)
    BY <1>2, <1>6 DEF MovedBy
  <2> QED BY <1>2, <2>1 DEF IInv, RemapInv
<1> QED BY <1>2, <1>5, <1>7, <1>8, StillRemapping

LEMMA MovedByFacts ==
  ASSUME NEW t \in Thread, NEW s \in Shards(mode)
  PROVE  /\ MovedBy(t, s) \subseteq Group(mode - 1, t, s)
         /\ IsFiniteSet(MovedBy(t, s))
         /\ Cardinality(MovedBy(t, s)) \in Nat
         /\ Cardinality(MovedBy(t, s)) =< Cardinality(Group(mode - 1, t, s))
         /\ \A e \in Group(mode - 1, t, s) \ Moved :
              Cardinality(MovedBy(t, s)) + 1 =< Cardinality(Group(mode - 1, t, s))
<1> DEFINE G == Group(mode - 1, t, s)
           B == MovedBy(t, s)
<1>1. B \subseteq G
  BY DEF MovedBy
<1>2. G \in SUBSET Elem
  BY DEF Group
<1>3. IsFiniteSet(B) /\ Cardinality(B) \in Nat
  BY <1>1, <1>2, FiniteElems
<1>4. Cardinality(B) =< Cardinality(G)
  BY <1>1, <1>2, CardMonotone
<1>5. ASSUME NEW e \in G \ Moved PROVE Cardinality(B) + 1 =< Cardinality(G)
  <2>1. e \notin B
    BY DEF MovedBy
  <2>2. Cardinality(B \cup {e}) = Cardinality(B) + 1
    BY <1>3, <2>1, FS_AddElement
  <2>3. B \cup {e} \in SUBSET G
    BY <1>1
  <2> QED BY <1>2, <2>2, <2>3, CardMonotone
<1> QED BY <1>1, <1>3, <1>4, <1>5

\* A cursor stays within the range reserved for its thread and shard.
LEMMA CursorRange ==
  ASSUME IInv, stage = "remap", NEW t \in Thread, NEW s \in Shards(mode)
  PROVE  /\ ThrOff(mode - 1, t, s) \in Nat /\ ThrEnd(mode - 1, t, s) \in Nat
         /\ off[t][s] \in Nat
         /\ ThrOff(mode - 1, t, s) =< off[t][s] /\ off[t][s] =< ThrEnd(mode - 1, t, s)
         /\ \A e \in Group(mode - 1, t, s) \ Moved : off[t][s] < ThrEnd(mode - 1, t, s)
         /\ \A d \in ThrOff(mode - 1, t, s) .. ThrEnd(mode - 1, t, s) - 1 :
              d \in Slot /\ d \in ShardRange(mode, s)
<1>1. mode \in Mode /\ mode - 1 \in Mode /\ Succ(mode - 1) = mode
  BY SourceCopy
<1>2. /\ ThrOff(mode - 1, t, s) \in Nat /\ ThrEnd(mode - 1, t, s) \in Nat
      /\ Cardinality(Group(mode - 1, t, s)) \in Nat
      /\ ThrEnd(mode - 1, t, s) = ThrOff(mode - 1, t, s) + Cardinality(Group(mode - 1, t, s))
  BY <1>1, GroupFacts DEF ThrEnd
<1>3. off[t][s] = ThrOff(mode - 1, t, s) + Cardinality(MovedBy(t, s))
  BY DEF IInv, RemapInv
<1>4. /\ ShardBegin(mode, s) =< ThrOff(mode - 1, t, s)
      /\ ThrEnd(mode - 1, t, s) =< ShardEnd(mode, s)
  BY <1>1, ReserveInShard
<1>5. /\ ShardBegin(mode, s) \in Nat /\ ShardEnd(mode, s) \in Nat
      /\ ShardRange(mode, s) \subseteq Slot
  BY <1>1, RangeOrder
<1>6. \A d \in ThrOff(mode - 1, t, s) .. ThrEnd(mode - 1, t, s) - 1 :
        d \in Slot /\ d \in ShardRange(mode, s)
  BY <1>2, <1>4, <1>5 DEF ShardRange
<1>7. /\ off[t][s] \in Nat
      /\ ThrOff(mode - 1, t, s) =< off[t][s] /\ off[t][s] =< ThrEnd(mode - 1, t, s)
      /\ \A e \in Group(mode - 1, t, s) \ Moved : off[t][s] < ThrEnd(mode - 1, t, s)
  BY <1>2, <1>3, MovedByFacts
<1> QED BY <1>2, <1>6, <1>7

LEMMA MoveStep ==
  ASSUME IInv, NEW t \in Thread, Move(t) PROVE IInv'
<1>0. PICK k, e, s : /\ k = ip[t] /\ e = copy[mode - 1][k] /\ s = Shard(mode, e)
                     /\ copy' = [copy EXCEPT ![mode][off[t][s]] = e]
                     /\ off' = [off EXCEPT ![t][s] = @ + 1]
  BY DEF Move
<1>1. /\ stage = "remap" /\ k < ends[t] /\ ip' = [ip EXCEPT ![t] = k + 1]
      /\ UNCHANGED <<env, stage, mode, tmp, rowptr, sorted, csr, todo, pending, ends, row, rowEnd,
                     at, stop, acc, yhat>>
  BY <1>0 DEF Move
<1>2. /\ mode \in Mode /\ mode - 1 \in Mode /\ Succ(mode - 1) = mode
      /\ Grouped(copy[mode - 1], mode - 1) /\ TypeOK
      /\ k \in Nat /\ ends[t] \in Nat /\ mode # mode - 1
  <2>1. TypeOK
    BY DEF IInv, CopiesReady
  <2>2. mode # mode - 1
    BY <2>1 DEF TypeOK, Mode
  <2> QED BY <1>0, <1>1, <2>1, <2>2, SourceCopy DEF TypeOK
<1>3. PICK v \in Shards(mode - 1) : InShard(t, v)
  BY <1>0, <1>1 DEF IInv, MoverInv
<1>4. k \in ShardRange(mode - 1, v) /\ k \in Slot
  <2>1. ShardBegin(mode - 1, v) \in Nat /\ ShardRange(mode - 1, v) \subseteq Slot
    BY <1>2, RangeOrder
  <2> QED BY <1>0, <1>1, <1>2, <1>3, <2>1 DEF InShard, ShardRange
<1>5. k \in Ahead(t)
  BY <1>0, <1>1, <1>2, <1>4 DEF Ahead
<1>6. e \in Elem /\ Shard(mode - 1, e) = v /\ OwnerOf(mode - 1, e) = t
  <2>1. e \in Elem /\ Shard(mode - 1, e) = v
    BY <1>0, <1>2, <1>4, GroupedFacts
  <2> QED BY <1>3, <2>1 DEF InShard, OwnerOf
<1>7. e \notin Moved
  <2>1. k \in UNION {Ahead(u) : u \in Thread}
    BY <1>5
  <2> QED BY <1>0, <1>2, <1>4, <2>1, GroupedFacts DEF Moved
<1>8. s \in Shards(mode) /\ s \in Sid /\ e \in Group(mode - 1, t, s)
  <2>1. s \in Shards(mode)
    BY <1>0, <1>2, <1>6, ShardType
  <2> QED BY <1>0, <1>2, <1>6, <2>1, SidFacts DEF Group
<1>9. ip'[t] = k + 1 /\ \A u \in Thread : u # t => ip'[u] = ip[u]
  BY <1>1, <1>2 DEF TypeOK
<1>10. off[t][s] \in Slot
       /\ ThrOff(mode - 1, t, s) =< off[t][s] /\ off[t][s] < ThrEnd(mode - 1, t, s)
  <2>1. /\ ThrOff(mode - 1, t, s) \in Nat /\ ThrEnd(mode - 1, t, s) \in Nat
        /\ off[t][s] \in Nat
        /\ ThrOff(mode - 1, t, s) =< off[t][s] /\ off[t][s] < ThrEnd(mode - 1, t, s)
    BY <1>1, <1>7, <1>8, CursorRange
  <2>2. off[t][s] \in ThrOff(mode - 1, t, s) .. ThrEnd(mode - 1, t, s) - 1
    BY <2>1
  <2> QED BY <1>1, <1>8, <2>1, <2>2, CursorRange
<1>11. /\ copy'[mode] = [copy[mode] EXCEPT ![off[t][s]] = e]
       /\ copy'[mode][off[t][s]] = e
       /\ \A d \in Slot : d # off[t][s] => copy'[mode][d] = copy[mode][d]
       /\ \A n \in Mode : n # mode => copy'[n] = copy[n]
  BY <1>0, <1>2, <1>10 DEF TypeOK
<1>12. /\ off'[t][s] = off[t][s] + 1
       /\ \A u \in Thread, w \in Sid : u # t \/ w # s => off'[u][w] = off[u][w]
  BY <1>0, <1>2, <1>8 DEF TypeOK
<1>13. TypeOK'
  <2>1. copy' \in [Mode -> [Slot -> Elem \cup {Fresh}]]
    <3>1. copy'[mode] \in [Slot -> Elem \cup {Fresh}]
      BY <1>2, <1>6, <1>10, <1>11 DEF TypeOK
    <3>2. copy' = [copy EXCEPT ![mode] = copy'[mode]]
      BY <1>0, <1>2 DEF TypeOK
    <3> QED BY <1>2, <3>1, <3>2 DEF TypeOK
  <2>2. off' \in [Thread -> [Sid -> Nat]] /\ ip' \in [Thread -> Nat]
    BY <1>0, <1>1, <1>2, <1>8 DEF TypeOK
  <2> QED BY <1>1, <1>2, <2>1, <2>2 DEF TypeOK

\* What is moved grows by e alone.
<1>14. Moved' = Moved \cup {e}
  <2>1. Ahead(t)' = Ahead(t) \ {k}
    <3>1. \A u \in pending[t] : k \notin ShardRange(mode - 1, u)
      <4>1. v \notin pending[t] /\ \A u \in pending[t] : u \in Shards(mode - 1)
        BY <1>1, <1>3 DEF InShard, IInv, MoverInv
      <4> QED BY <1>2, <1>4, <4>1, RangeDisjoint
    <3>2. \A d : d \in ip'[t] .. ends'[t] - 1 <=> d \in ip[t] .. ends[t] - 1 /\ d # k
      BY <1>0, <1>1, <1>2, <1>9
    <3> QED BY <1>1, <3>1, <3>2 DEF Ahead
  <2>2. ASSUME NEW u \in Thread, u # t PROVE Ahead(u)' = Ahead(u) /\ k \notin Ahead(u)
    <3>1. Ahead(u)' = Ahead(u)
      BY <1>1, <1>9, <2>2 DEF Ahead
    <3>2. ASSUME k \in Ahead(u) PROVE FALSE
      <4>1. PICK w \in Shards(mode - 1) : k \in ShardRange(mode - 1, w) /\ Owner[mode - 1][w] = u
        <5>1. CASE k \in ip[u] .. ends[u] - 1
          <6>1. ip[u] \in Nat /\ ends[u] \in Nat /\ ip[u] < ends[u]
            BY <1>2, <5>1 DEF TypeOK
          <6>2. PICK w \in Shards(mode - 1) : InShard(u, w)
            BY <1>1, <6>1 DEF IInv, MoverInv
          <6>3. k \in ShardRange(mode - 1, w)
            BY <1>2, <5>1, <6>1, <6>2, RangeOrder DEF InShard, ShardRange
          <6> QED BY <6>2, <6>3 DEF InShard
        <5>2. CASE \E w \in pending[u] : k \in ShardRange(mode - 1, w)
          BY <1>1, <5>2 DEF IInv, MoverInv
        <5> QED BY <3>2, <5>1, <5>2 DEF Ahead
      <4>2. w = v
        BY <1>2, <1>4, <4>1, RangeDisjoint
      <4> QED BY <1>3, <2>2, <4>1, <4>2 DEF InShard
    <3> QED BY <3>1, <3>2
  <2> DEFINE A == UNION {Ahead(u) : u \in Thread}
  <2>3. ASSUME NEW x PROVE x \in A' <=> x \in A /\ x # k
    <3>1. ASSUME NEW u \in Thread PROVE x \in Ahead(u)' <=> x \in Ahead(u) /\ x # k
      <4>1. CASE u = t
        BY <2>1, <4>1
      <4>2. CASE u # t
        BY <2>2, <4>2
      <4> QED BY <4>1, <4>2
    <3> QED BY <3>1
  <2>4. Slot \ A' = (Slot \ A) \cup {k}
    BY <1>4, <2>3
  <2>5. Moved = {copy[mode - 1][j] : j \in Slot \ A} /\ Moved' = {copy'[mode - 1][j] : j \in Slot \ A'}
    BY <1>1 DEF Moved
  <2>6. copy'[mode - 1] = copy[mode - 1]
    BY <1>2, <1>11
  <2> HIDE DEF A
  <2> QED BY <1>0, <2>4, <2>5, <2>6
<1>15. MovedBy(t, s)' = MovedBy(t, s) \cup {e}
  BY <1>1, <1>8, <1>14 DEF MovedBy
<1>16. ASSUME NEW u \in Thread, NEW w \in Shards(mode), u # t \/ w # s
       PROVE  MovedBy(u, w)' = MovedBy(u, w)
  <2>1. e \notin Group(mode - 1, u, w)
    BY <1>0, <1>2, <1>6, <1>16 DEF Group
  <2> QED BY <1>1, <1>14, <2>1 DEF MovedBy
<1>17. MoverInv'
  <2>1. ASSUME NEW u \in Thread, NEW w \in Shards(mode - 1), InShard(u, w)
        PROVE  InShard(u, w)'
    <3>1. ShardBegin(mode - 1, w) \in Nat
      BY <1>2, RangeOrder
    <3>2. ip[u] \in Nat /\ ip'[u] \in Nat /\ ip'[u] >= ip[u]
      <4>1. ip[u] \in Nat
        BY <1>2 DEF TypeOK
      <4>2. CASE u = t
        BY <1>0, <1>2, <1>9, <4>1, <4>2
      <4>3. CASE u # t
        BY <1>9, <4>1, <4>3
      <4> QED BY <4>1, <4>2, <4>3
    <3> QED BY <1>1, <2>1, <3>1, <3>2 DEF InShard
  <2>2. InShard(t, v)' /\ ip'[t] =< ends'[t]
    BY <1>0, <1>1, <1>2, <1>3, <1>9, <2>1
  <2> QED BY <1>1, <1>9, <2>1, <2>2 DEF IInv, MoverInv
<1>18. ASSUME NEW u \in Thread, NEW w \in Shards(mode)
       PROVE  off'[u][w] = ThrOff(mode - 1, u, w) + Cardinality(MovedBy(u, w)')
  <2>1. off[u][w] = ThrOff(mode - 1, u, w) + Cardinality(MovedBy(u, w))
    BY <1>1 DEF IInv, RemapInv
  <2>2. CASE u = t /\ w = s
    <3>1. Cardinality(MovedBy(t, s)') = Cardinality(MovedBy(t, s)) + 1
      <4>1. IsFiniteSet(MovedBy(t, s))
        BY <1>8, MovedByFacts
      <4>2. e \notin MovedBy(t, s)
        BY <1>7 DEF MovedBy
      <4> QED BY <1>15, <4>1, <4>2, FS_AddElement
    <3>2. ThrOff(mode - 1, t, s) \in Nat /\ Cardinality(MovedBy(t, s)) \in Nat
      BY <1>2, <1>8, GroupFacts, MovedByFacts
    <3> QED BY <1>12, <2>1, <2>2, <3>1, <3>2
  <2>3. CASE u # t \/ w # s
    <3>1. w \in Sid
      BY <1>2, SidFacts
    <3> QED BY <1>12, <1>16, <2>1, <2>3, <3>1
  <2> QED BY <2>2, <2>3
<1>19. ASSUME NEW u \in Thread, NEW w \in Shards(mode), NEW f \in MovedBy(u, w)
       PROVE  \E d \in ThrOff(mode - 1, u, w) .. off'[u][w] - 1 : copy'[mode][d] = f
  <2>1. PICK d \in ThrOff(mode - 1, u, w) .. off[u][w] - 1 : copy[mode][d] = f
    BY <1>1 DEF IInv, RemapInv
  <2>2. /\ ThrOff(mode - 1, u, w) \in Nat /\ ThrEnd(mode - 1, u, w) \in Nat
        /\ off[u][w] \in Nat /\ off[u][w] =< ThrEnd(mode - 1, u, w)
    BY <1>1, CursorRange
  <2>3. off'[u][w] \in Nat /\ off'[u][w] >= off[u][w]
    <3>1. w \in Sid
      BY <1>2, SidFacts
    <3>2. CASE u = t /\ w = s
      BY <1>12, <2>2, <3>2
    <3>3. CASE u # t \/ w # s
      BY <1>12, <2>2, <3>1, <3>3
    <3> QED BY <3>2, <3>3
  <2>4. d # off[t][s]
    <3>1. CASE <<u, w>> = <<t, s>>
      BY <2>1, <2>2, <3>1
    <3>2. CASE <<u, w>> # <<t, s>>
      <4>1. \/ ThrEnd(mode - 1, u, w) =< ThrOff(mode - 1, t, s)
            \/ ThrEnd(mode - 1, t, s) =< ThrOff(mode - 1, u, w)
        BY <1>2, <1>8, <3>2, ReserveDisjoint
      <4>2. /\ off[t][s] \in Nat
            /\ ThrOff(mode - 1, t, s) \in Nat /\ ThrEnd(mode - 1, t, s) \in Nat
        BY <1>1, <1>8, CursorRange
      <4> QED BY <1>10, <2>1, <2>2, <4>1, <4>2
    <3> QED BY <3>1, <3>2
  <2>5. copy'[mode][d] = f
    <3>1. d \in ThrOff(mode - 1, u, w) .. ThrEnd(mode - 1, u, w) - 1
      BY <2>1, <2>2
    <3>2. d \in Slot
      BY <1>1, <3>1, CursorRange
    <3> QED BY <1>11, <2>1, <2>4, <3>2
  <2> QED BY <2>1, <2>2, <2>3, <2>5
<1>20. \E d \in ThrOff(mode - 1, t, s) .. off'[t][s] - 1 : copy'[mode][d] = e
  <2>1. off[t][s] \in Nat /\ ThrOff(mode - 1, t, s) \in Nat
    BY <1>1, <1>8, CursorRange
  <2> QED BY <1>10, <1>11, <1>12, <2>1
<1>21. ASSUME NEW u \in Thread, NEW w \in Shards(mode), NEW f \in MovedBy(u, w)'
       PROVE  \E d \in ThrOff(mode - 1, u, w) .. off'[u][w] - 1 : copy'[mode][d] = f
  <2>1. f \in MovedBy(u, w) \/ (u = t /\ w = s /\ f = e)
    BY <1>15, <1>16
  <2> QED BY <1>19, <1>20, <2>1
<1>22. RemapInv'
  BY <1>1, <1>18, <1>21 DEF IInv, RemapInv
<1> QED BY <1>1, <1>11, <1>13, <1>17, <1>22, StillRemapping

\* A slab that holds every nonzero holds nothing else.
LEMMA FullSlab ==
  ASSUME NEW slab \in [Slot -> Elem \cup {Fresh}], \A e \in Elem : \E d \in Slot : slab[d] = e
  PROVE  slab \in [Slot -> Elem]
<1> DEFINE f == [e \in Elem |-> CHOOSE d \in Slot : slab[d] = e]
<1>1. ASSUME NEW e \in Elem PROVE f[e] \in Slot /\ slab[f[e]] = e
  OBVIOUS
<1> HIDE DEF f
<1>2. f \in [Elem -> Slot]
  <2>1. f = [e \in Elem |-> f[e]]
    BY DEF f
  <2> QED BY <1>1, <2>1
<1>3. \A a, b \in Elem : f[a] = f[b] => a = b
  BY <1>1
<1>4. f \in Injection(Elem, Slot)
  BY <1>2, <1>3 DEF Injection, IsInjective
<1>5. f \in Surjection(Elem, Slot)
  BY <1>4, SlotFacts, FS_Injection
<1>6. ASSUME NEW d \in Slot PROVE slab[d] \in Elem
  <2>1. PICK e \in Elem : f[e] = d
    BY <1>5 DEF Surjection
  <2> QED BY <1>1, <2>1
<1> QED BY <1>6

\* When the movers are done, the copy is complete.
LEMMA RemapComplete ==
  ASSUME IInv, stage = "remap", \A t \in Thread : Finished(t)
  PROVE  Grouped(copy[mode], mode)
<1>1. /\ mode \in Mode /\ mode - 1 \in Mode /\ Succ(mode - 1) = mode
      /\ Grouped(copy[mode - 1], mode - 1) /\ TypeOK
  BY SourceCopy DEF IInv, CopiesReady
<1>2. \A t \in Thread : Ahead(t) = {}
  BY <1>1 DEF Finished, Ahead, TypeOK
<1>3. \A e \in Elem : e \in Moved
  BY <1>1, <1>2, GroupedFacts DEF Moved
<1>4. ASSUME NEW e \in Elem
      PROVE  \E d \in Slot : copy[mode][d] = e /\ d \in ShardRange(mode, Shard(mode, e))
  <2> DEFINE t == OwnerOf(mode - 1, e)
             s == Shard(mode, e)
  <2>1. t \in Thread /\ s \in Shards(mode)
    BY <1>1, ShardType, OwnerAssumption DEF OwnerOf
  <2>2. e \in MovedBy(t, s)
    BY <1>1, <1>3 DEF MovedBy, Group
  <2> HIDE DEF t, s
  <2>3. PICK d \in ThrOff(mode - 1, t, s) .. off[t][s] - 1 : copy[mode][d] = e
    BY <2>1, <2>2 DEF IInv, RemapInv
  <2>4. d \in ThrOff(mode - 1, t, s) .. ThrEnd(mode - 1, t, s) - 1
    BY <2>1, <2>3, CursorRange
  <2>5. d \in Slot /\ d \in ShardRange(mode, s)
    BY <2>1, <2>4, CursorRange
  <2> QED BY <2>3, <2>5 DEF s
<1>5. copy[mode] \in [Slot -> Elem \cup {Fresh}]
  BY <1>1 DEF TypeOK
<1>6. copy[mode] \in [Slot -> Elem]
  BY <1>4, <1>5, FullSlab
<1> QED BY <1>1, <1>4, <1>6, OntoGrouped

\* Between the loops of the build.
LEMMA SortFromFacts ==
  ASSUME NEW n \in Nat, SortFrom(n)
  PROVE  /\ stage' \in {"sort", "idle"} /\ mode' \in Mode /\ todo' \in SUBSET Nat
         /\ stage' = "sort" => mode' \in Dense /\ mode' >= n /\ todo' = Shards(mode')
<1> DEFINE S == {i \in Dense : i >= n}
           Least(i) == i >= n /\ \A j \in Dense : j >= n => i =< j
           k == CHOOSE i \in Dense : Least(i)
<1>1. Dense \subseteq Mode /\ 0 \in Mode /\ \A i \in Mode : i \in Nat
  BY NcopyAssumption, ModeFacts DEF Mode
<1>2. CASE env.sort /\ \E i \in Dense : i >= n
  <2>1. S \in SUBSET Nat /\ S # {}
    BY <1>1, <1>2
  <2>2. PICK i \in S : \A j \in S : i =< j
    <3> HIDE DEF S
    <3> QED BY <2>1, LeastElement
  <2>3. i \in Dense /\ Least(i)
    BY <2>2
  <2>4. k \in Dense /\ k >= n
    <3>1. k \in Dense /\ Least(k)
      <4> HIDE DEF Least
      <4> QED BY <2>3
    <3> QED BY <3>1
  <2>5. stage' = "sort" /\ mode' = k /\ todo' = Shards(k)
    BY <1>2 DEF SortFrom
  <2> HIDE DEF k
  <2>6. todo' \in SUBSET Nat
    BY <1>1, <2>4, <2>5, SidFacts
  <2> QED BY <1>1, <2>4, <2>5, <2>6
<1>3. CASE ~ (env.sort /\ \E i \in Dense : i >= n)
  <2>1. stage' = "idle" /\ mode' = 0 /\ todo' = {}
    BY <1>3 DEF SortFrom
  <2> QED BY <1>1, <2>1
<1> QED BY <1>2, <1>3

LEMMA Settled ==
  ASSUME IInv, TypeOK', yhat' = yhat, NEW n \in Nat, SortFrom(n),
         \A t \in Thread : Finished(t)',
         \A k \in Mode : Grouped(copy'[k], k), RowPtrExact', RowPtrSound'
  PROVE  IInv'
<1>1. /\ stage' \in {"sort", "idle"} /\ mode' \in Mode
      /\ stage' = "sort" => mode' \in Dense /\ todo' = Shards(mode')
  BY SortFromFacts
<1>2. CopiesReady'
  BY DEF CopiesReady, CopiesGrouped
<1>3. MoverInv' /\ RemapInv' /\ SortInv' /\ ScanInv' /\ ScannedInv'
  BY <1>1 DEF MoverInv, RemapInv, SortInv, ScanInv, ScannedInv
<1>4. QuietInv'
  BY DEF QuietInv
<1>5. KernelInv'
  BY <1>1 DEF IInv, KernelInv
<1> QED BY <1>2, <1>3, <1>4, <1>5 DEF IInv

LEMMA RemapDoneStep ==
  ASSUME IInv, RemapDone PROVE IInv'
<1>1. /\ stage = "remap" /\ \A t \in Thread : Finished(t)
      /\ UNCHANGED <<env, copy, tmp, rowptr, sorted, csr, ip, ends, row, rowEnd, at, stop, acc, yhat>>
  BY DEF RemapDone, tables
<1>2. /\ mode \in Mode /\ mode # 0 /\ mode - 1 \in Mode /\ Succ(mode - 1) = mode
      /\ Grouped(copy[mode - 1], mode - 1) /\ TypeOK
      /\ mode \in Nat /\ N \in Nat /\ mode < N
  BY <1>1, SourceCopy, ShapeAssumption DEF IInv, CopiesReady, Mode
<1>3. Grouped(copy[mode], mode)
  BY <1>1, RemapComplete
<1>4. RowPtrExact' /\ RowPtrSound'
  BY <1>1 DEF IInv, CopiesReady, RowPtrExact, RowPtrSound
<1>5. \A n \in Mode : n < mode + 1 => Grouped(copy'[n], n)
  <2>1. ASSUME NEW n \in Mode, n < mode PROVE Grouped(copy[n], n)
    BY <1>1, <1>2, <2>1 DEF IInv, CopiesReady, CopiesGrouped, Mode
  <2>2. \A n \in Mode : n < mode + 1 => n < mode \/ n = mode
    BY <1>2 DEF Mode
  <2> QED BY <1>1, <1>3, <2>1, <2>2
<1>6. CASE mode < N - 1
  <2>1. mode' = mode + 1 /\ pending' = Lists(mode) /\ off' = Template(mode) /\ UNCHANGED <<stage, todo>>
    BY <1>6 DEF RemapDone
  <2>2. mode' \in Mode /\ mode' # 0 /\ mode' - 1 = mode
    BY <1>2, <1>6, <2>1 DEF Mode
  <2>3. TypeOK'
    <3>1. pending' \in [Thread -> SUBSET Nat] /\ off' \in [Thread -> [Sid -> Nat]]
      BY <1>2, <2>1, ListsType, TemplateType
    <3> QED BY <1>1, <1>2, <2>1, <2>2, <3>1 DEF TypeOK
  <2>4. MoverInv'
    <3>1. ASSUME NEW t \in Thread
          PROVE  at'[t] = "row" /\ row'[t] = rowEnd'[t] /\ ip'[t] = ends'[t] /\ ip'[t] \in Nat
      BY <1>1, <2>3 DEF Finished, TypeOK
    <3>2. \A t \in Thread : \A s \in pending'[t] : s \in Shards(mode' - 1) /\ Owner[mode' - 1][s] = t
      BY <1>2, <2>1, <2>2, ListsType
    <3> QED BY <3>1, <3>2 DEF MoverInv
  <2>5. Moved' = {}
    <3>1. ASSUME NEW k \in Slot PROVE \E t \in Thread : k \in Ahead(t)'
      <4>1. PICK t \in Thread : \E u \in Lists(mode)[t] : k \in ShardRange(mode, u)
        BY <1>2, <1>3, AllListed
      <4> QED BY <2>1, <2>2, <4>1 DEF Ahead
    <3> QED BY <3>1 DEF Moved
  <2>6. RemapInv'
    <3>1. ASSUME NEW t \in Thread, NEW s \in Shards(mode')
          PROVE  /\ off'[t][s] = ThrOff(mode' - 1, t, s) + Cardinality(MovedBy(t, s)')
                 /\ MovedBy(t, s)' = {}
      <4>1. MovedBy(t, s)' = {}
        BY <2>5 DEF MovedBy
      <4>2. Cardinality(MovedBy(t, s)') = 0
        BY <4>1, FS_EmptySet
      <4>3. s \in Sid
        BY <2>2, SidFacts
      <4>4. Template(mode)[t][s] = ThrOff(mode, t, s) /\ Template(mode)[t][s] \in Nat
        BY <1>2, <4>3, TemplateType DEF Template
      <4> QED BY <2>1, <2>2, <4>1, <4>2, <4>4
    <3> QED BY <2>2, <3>1 DEF RemapInv
  <2>7. CopiesGrouped'
    BY <1>1, <1>2, <1>5, <2>1, <2>2 DEF CopiesGrouped, Mode
  <2>8. SortInv' /\ ScanInv' /\ ScannedInv' /\ QuietInv'
    BY <1>1, <2>1 DEF SortInv, ScanInv, ScannedInv, QuietInv
  <2>9. KernelInv'
    BY <1>1, <2>1 DEF IInv, KernelInv
  <2> QED BY <1>4, <2>3, <2>4, <2>6, <2>7, <2>8, <2>9 DEF IInv, CopiesReady
<1>7. CASE ~ (mode < N - 1)
  <2>1. SortFrom(0) /\ UNCHANGED <<pending, off>>
    BY <1>7 DEF RemapDone
  <2>2. stage' \in {"sort", "idle"} /\ mode' \in Mode /\ todo' \in SUBSET Nat
    BY <2>1, SortFromFacts
  <2>3. TypeOK'
    BY <1>1, <1>2, <2>1, <2>2 DEF TypeOK, Stage
  <2>4. \A n \in Mode : Grouped(copy'[n], n)
    BY <1>2, <1>5, <1>7 DEF Mode
  <2>5. \A t \in Thread : Finished(t)'
    BY <1>1, <2>1 DEF Finished
  <2> QED BY <1>1, <1>4, <2>1, <2>3, <2>4, <2>5, Settled
<1> QED BY <1>6, <1>7

-----------------------------------------------------------------------------
(* The sort of a dense mode's copy. *)

LEMMA StillSorting ==
  ASSUME IInv, TypeOK', stage \in {"sort", "stripe"}, stage' \in {"sort", "stripe"},
         UNCHANGED <<mode, rowptr, csr, work, yhat>>, CopiesGrouped', SortInv'
  PROVE  IInv'
<1>1. RowPtrExact' /\ RowPtrSound'
  BY DEF IInv, CopiesReady, RowPtrExact, RowPtrSound
<1>2. MoverInv' /\ RemapInv' /\ ScanInv' /\ ScannedInv'
  BY DEF MoverInv, RemapInv, ScanInv, ScannedInv
<1>3. QuietInv'
  BY DEF IInv, QuietInv, Finished, work
<1>4. KernelInv'
  BY DEF IInv, KernelInv
<1> QED BY <1>1, <1>2, <1>3, <1>4 DEF IInv, CopiesReady

LEMMA SortShardStep ==
  ASSUME IInv, NEW s \in todo, SortShard(s) PROVE IInv'
<1>1. /\ stage = "sort" /\ todo' = todo \ {s}
      /\ UNCHANGED <<env, stage, mode, copy, rowptr, sorted, csr, work, yhat>>
  BY DEF SortShard
<1>2. PICK from \in Bijection(ShardRange(mode, s), ShardRange(mode, s)) :
        /\ StableOrder(from, ShardRange(mode, s), copy[mode], Row[mode])
        /\ tmp' = [d \in Slot |-> IF d \in ShardRange(mode, s)
                                  THEN copy[mode][from[d]] ELSE tmp[d]]
  BY DEF SortShard
<1>3. /\ TypeOK /\ mode \in Mode /\ mode \in Dense /\ s \in Shards(mode) /\ todo \subseteq Shards(mode)
      /\ Grouped(copy[mode], mode)
  BY <1>1 DEF IInv, CopiesReady, TypeOK, CopiesGrouped, SortInv
<1>4. /\ ShardRange(mode, s) \subseteq Slot
      /\ \A d \in ShardRange(mode, s) : from[d] \in ShardRange(mode, s)
  BY <1>3, RangeOrder DEF Bijection, Injection
<1>5. TypeOK'
  <2>1. ASSUME NEW d \in Slot PROVE tmp'[d] \in Elem \cup {Fresh}
    <3>1. CASE d \in ShardRange(mode, s)
      <4>1. from[d] \in Slot /\ tmp'[d] = copy[mode][from[d]]
        BY <1>2, <1>4, <3>1
      <4> QED BY <1>3, <4>1, GroupedFacts
    <3>2. CASE d \notin ShardRange(mode, s)
      BY <1>2, <1>3, <3>2 DEF TypeOK
    <3> QED BY <3>1, <3>2
  <2>2. tmp' \in [Slot -> Elem \cup {Fresh}]
    <3>1. tmp' = [d \in Slot |-> tmp'[d]]
      BY <1>2
    <3> QED BY <2>1, <3>1
  <2>3. todo' \subseteq Nat
    BY <1>1, <1>3 DEF TypeOK
  <2> QED BY <1>1, <1>3, <2>2, <2>3 DEF TypeOK, work
<1>6. SortedShard(s)'
  <2>1. \A d \in ShardRange(mode, s) : tmp'[d] = copy[mode][from[d]]
    BY <1>2, <1>4
  <2>2. \A e \in Elem : Row[mode][e] \in Nat
    BY <1>3, TensorAssumption
  <2>3. \A d \in ShardRange(mode, s) : copy[mode][from[d]] \in Elem
    BY <1>3, <1>4, GroupedFacts
  <2>4. ASSUME NEW c \in ShardRange(mode, s), NEW d \in ShardRange(mode, s), c < d
        PROVE  Row[mode][tmp'[c]] =< Row[mode][tmp'[d]]
    <3>1. Row[mode][copy[mode][from[c]]] \in Nat /\ Row[mode][copy[mode][from[d]]] \in Nat
      BY <2>2, <2>3
    <3>2. \/ Row[mode][copy[mode][from[c]]] < Row[mode][copy[mode][from[d]]]
          \/ Row[mode][copy[mode][from[c]]] = Row[mode][copy[mode][from[d]]]
      BY <1>2, <2>4 DEF StableOrder
    <3> QED BY <2>1, <3>1, <3>2
  <2> QED BY <1>1, <2>1, <2>4 DEF SortedShard
<1>7. ASSUME NEW u \in Shards(mode) \ todo, u # s PROVE SortedShard(u)'
  <2>1. PICK g \in Bijection(ShardRange(mode, u), ShardRange(mode, u)) :
          /\ \A d \in ShardRange(mode, u) : tmp[d] = copy[mode][g[d]]
          /\ \A c, d \in ShardRange(mode, u) : c < d => Row[mode][tmp[c]] =< Row[mode][tmp[d]]
    BY <1>1 DEF IInv, SortInv, SortedShard
  <2>2. \A d \in ShardRange(mode, u) : tmp'[d] = tmp[d]
    <3>1. ASSUME NEW d \in ShardRange(mode, u) PROVE d \in Slot /\ d \notin ShardRange(mode, s)
      BY <1>3, <1>7, RangeOrder, RangeDisjoint
    <3> QED BY <1>2, <3>1
  <2> QED BY <1>1, <2>1, <2>2 DEF SortedShard
<1>8. SortInv'
  <2>1. \A u \in Shards(mode') \ todo' : SortedShard(u)'
    BY <1>1, <1>6, <1>7
  <2> QED BY <1>1, <1>3, <2>1 DEF SortInv
<1>9. CopiesGrouped'
  BY <1>1 DEF IInv, CopiesReady, CopiesGrouped
<1> QED BY <1>1, <1>5, <1>8, <1>9, StillSorting

LEMMA SortDoneStep ==
  ASSUME IInv, SortDone PROVE IInv'
<1>1. /\ stage = "sort" /\ todo = {} /\ stage' = "stripe" /\ todo' = Thread
      /\ UNCHANGED <<env, mode, copy, tmp, rowptr, sorted, csr, work, yhat>>
  BY DEF SortDone, tables
<1>2. /\ TypeOK /\ mode \in Mode /\ mode \in Dense /\ Grouped(copy[mode], mode)
      /\ \A s \in Shards(mode) : SortedShard(s)
  BY <1>1 DEF IInv, CopiesReady, TypeOK, CopiesGrouped, SortInv
<1>3. tmp = [d \in Slot |-> tmp[d]]
  BY <1>2 DEF TypeOK
<1>4. Grouped(tmp, mode) /\ InOrder(tmp, mode)
  <2>1. \A s \in Shards(mode) : \E from \in Bijection(ShardRange(mode, s), ShardRange(mode, s)) :
          /\ \A d \in ShardRange(mode, s) : tmp[d] = copy[mode][from[d]]
          /\ \A c, d \in ShardRange(mode, s) : c < d => Row[mode][tmp[c]] =< Row[mode][tmp[d]]
    BY <1>2 DEF SortedShard
  <2> QED BY <1>2, <1>3, <2>1, SortComplete
<1>5. TypeOK'
  BY <1>1, <1>2 DEF TypeOK, Stage, Thread, work
<1>6. SortInv'
  BY <1>1, <1>2, <1>4 DEF SortInv
<1>7. CopiesGrouped'
  BY <1>1 DEF IInv, CopiesReady, CopiesGrouped
<1> QED BY <1>1, <1>5, <1>6, <1>7, StillSorting

LEMMA StripeStep ==
  ASSUME IInv, NEW t \in todo, Stripe(t) PROVE IInv'
<1>1. /\ stage = "stripe" /\ todo' = todo \ {t}
      /\ copy' = [copy EXCEPT ![mode] = [d \in Slot |-> IF d \in StripeOf(t) THEN tmp[d] ELSE @[d]]]
      /\ UNCHANGED <<env, stage, mode, tmp, rowptr, sorted, csr, work, yhat>>
  BY DEF Stripe
<1>2. /\ TypeOK /\ mode \in Mode /\ mode \in Dense /\ todo \subseteq Thread
      /\ Grouped(tmp, mode) /\ InOrder(tmp, mode)
  BY <1>1 DEF IInv, CopiesReady, TypeOK, SortInv
<1>3. /\ copy'[mode] = [d \in Slot |-> IF d \in StripeOf(t) THEN tmp[d] ELSE copy[mode][d]]
      /\ \A n \in Mode : n # mode => copy'[n] = copy[n]
  BY <1>1, <1>2 DEF TypeOK
<1>4. TypeOK'
  <2>1. copy'[mode] \in [Slot -> Elem \cup {Fresh}]
    BY <1>2, <1>3 DEF TypeOK
  <2>2. copy' \in [Mode -> [Slot -> Elem \cup {Fresh}]]
    <3>1. copy' = [copy EXCEPT ![mode] = copy'[mode]]
      BY <1>1, <1>3
    <3> QED BY <1>2, <2>1, <3>1 DEF TypeOK
  <2>3. todo' \subseteq Nat
    BY <1>1, <1>2 DEF TypeOK
  <2> QED BY <1>1, <1>2, <2>2, <2>3 DEF TypeOK, work
<1>5. SortInv'
  <2>1. ASSUME NEW u \in Thread \ todo', NEW d \in Slot, d \in StripeOf(u)
        PROVE  copy'[mode][d] = tmp[d]
    <3>1. CASE d \in StripeOf(t)
      BY <1>3, <3>1
    <3>2. CASE d \notin StripeOf(t)
      <4>1. u \in Thread \ todo
        BY <1>1, <2>1, <3>2
      <4>2. copy[mode][d] = tmp[d]
        BY <1>1, <2>1, <4>1 DEF IInv, SortInv
      <4> QED BY <1>3, <3>2, <4>2
    <3> QED BY <3>1, <3>2
  <2>2. \A u \in Thread \ todo' : \A d \in Slot : d \in StripeOf(u) => copy'[mode'][d] = tmp'[d]
    BY <1>1, <2>1
  <2> QED BY <1>1, <1>2, <2>2 DEF SortInv
<1>6. CopiesGrouped'
  BY <1>1, <1>3 DEF IInv, CopiesReady, CopiesGrouped
<1> QED BY <1>1, <1>4, <1>5, <1>6, StillSorting

-----------------------------------------------------------------------------
(* The row pointers. *)

\* Whoever writes an entry writes the count of the lower rows' nonzeros.
LEMMA RowPtrWrite ==
  ASSUME IInv, NEW r \in 0 .. ModeSize[mode],
         rowptr' = [rowptr EXCEPT ![mode][r] = Below(mode, r)]
  PROVE  /\ DOMAIN rowptr' = Mode
         /\ \A n \in Mode : rowptr'[n] \in [0 .. ModeSize[n] -> Nat \cup {Fresh}]
         /\ RowPtrSound' /\ rowptr'[mode][r] # Fresh
         /\ csr' = csr => RowPtrExact'
         /\ \A n \in Mode : \A q \in 0 .. ModeSize[n] :
              rowptr[n][q] # Fresh => rowptr'[n][q] = rowptr[n][q]
<1> DEFINE b == Below(mode, r)
<1>1. /\ mode \in Mode /\ DOMAIN rowptr = Mode /\ csr \subseteq Mode
      /\ \A n \in Mode : rowptr[n] \in [0 .. ModeSize[n] -> Nat \cup {Fresh}]
  BY NcopyAssumption DEF IInv, CopiesReady, TypeOK
<1>2. r \in Nat /\ b \in Nat /\ b # Fresh
  <2>1. r \in Nat
    BY <1>1, TensorAssumption
  <2> QED BY <1>1, <2>1, BelowType, NcopyAssumption
<1> HIDE DEF b
<1>3. /\ rowptr'[mode] = [rowptr[mode] EXCEPT ![r] = b]
      /\ \A n \in Mode : n # mode => rowptr'[n] = rowptr[n]
      /\ DOMAIN rowptr' = Mode
  BY <1>1 DEF b
<1>4. ASSUME NEW n \in Mode PROVE rowptr'[n] \in [0 .. ModeSize[n] -> Nat \cup {Fresh}]
  <2>1. CASE n = mode
    BY <1>1, <1>2, <1>3, <2>1
  <2>2. CASE n # mode
    BY <1>1, <1>3, <2>2
  <2> QED BY <2>1, <2>2
<1>5. ASSUME NEW n \in Mode, NEW q \in 0 .. ModeSize[n]
      PROVE  /\ rowptr'[n][q] = rowptr[n][q] \/ (n = mode /\ q = r /\ rowptr'[n][q] = b)
  <2>1. CASE n = mode
    BY <1>1, <1>3, <2>1
  <2>2. CASE n # mode
    BY <1>3, <2>2
  <2> QED BY <2>1, <2>2
<1>6. rowptr'[mode][r] = b
  BY <1>1, <1>3
<1>7. ASSUME NEW n \in Mode, NEW q \in 0 .. ModeSize[n], rowptr'[n][q] # Fresh
      PROVE  rowptr'[n][q] = Below(n, q)
  BY <1>5, <1>7 DEF IInv, RowPtrSound, b
<1>8. RowPtrSound'
  BY <1>7 DEF RowPtrSound
<1>9. ASSUME NEW n \in Mode, NEW q \in 0 .. ModeSize[n], rowptr[n][q] # Fresh
      PROVE  rowptr'[n][q] = rowptr[n][q]
  BY <1>5, <1>9 DEF IInv, RowPtrSound, b
<1>10. ASSUME csr' = csr PROVE RowPtrExact'
  <2>1. ASSUME NEW n \in csr, NEW q \in 0 .. ModeSize[n] PROVE rowptr'[n][q] = Below(n, q)
    <3>1. rowptr[n][q] = Below(n, q)
      BY DEF IInv, CopiesReady, RowPtrExact, Below
    <3> QED BY <1>1, <1>5, <3>1 DEF b
  <2> QED BY <1>10, <2>1 DEF RowPtrExact, Below
<1> QED BY <1>2, <1>3, <1>4, <1>6, <1>8, <1>9, <1>10

LEMMA StripesDoneStep ==
  ASSUME IInv, StripesDone PROVE IInv'
<1>1. /\ stage = "stripe" /\ todo = {} /\ sorted' = sorted \cup {mode}
      /\ UNCHANGED <<env, copy, tmp, csr, work, yhat>>
  BY DEF StripesDone
<1>2. /\ TypeOK /\ mode \in Mode /\ mode \in Nat /\ mode \in Dense
      /\ Grouped(tmp, mode) /\ InOrder(tmp, mode)
  BY <1>1 DEF IInv, CopiesReady, TypeOK, SortInv, Mode
<1>3. copy[mode] = tmp
  <2>1. ASSUME NEW d \in Slot PROVE copy[mode][d] = tmp[d]
    <3>1. PICK t \in Thread : d \in StripeOf(t)
      BY StripesCover
    <3> QED BY <1>1, <3>1 DEF IInv, SortInv
  <2>2. copy[mode] \in [Slot -> Elem \cup {Fresh}] /\ tmp \in [Slot -> Elem \cup {Fresh}]
    BY <1>2 DEF TypeOK
  <2> QED BY <2>1, <2>2
<1>4. \A n \in Mode : Grouped(copy'[n], n)
  BY <1>1, <1>2, <1>3 DEF IInv, CopiesReady, CopiesGrouped
<1>5. sorted' \subseteq Dense /\ csr' \subseteq sorted'
  BY <1>1, <1>2 DEF TypeOK
<1>6. \A t \in Thread : Finished(t) /\ Finished(t)'
  BY <1>1 DEF IInv, QuietInv, Finished, work
<1>7. CASE env.csr
  <2>1. /\ stage' = "rowptr" /\ todo' = Shards(mode) /\ mode' = mode
        /\ rowptr' = [rowptr EXCEPT ![mode][ModeSize[mode]] = nnz]
    BY <1>7 DEF StripesDone
  <2>2. ModeSize[mode] \in 0 .. ModeSize[mode] /\ nnz = Below(mode, ModeSize[mode])
    BY <1>2, TensorAssumption, BelowAll
  <2>3. /\ DOMAIN rowptr' = Mode
        /\ \A n \in Mode : rowptr'[n] \in [0 .. ModeSize[n] -> Nat \cup {Fresh}]
        /\ RowPtrSound' /\ RowPtrExact' /\ rowptr'[mode][ModeSize[mode]] # Fresh
    BY <1>1, <2>1, <2>2, RowPtrWrite
  <2>4. TypeOK'
    <3>1. todo' \subseteq Nat
      BY <1>2, <2>1, SidFacts
    <3> QED BY <1>1, <1>2, <1>5, <2>1, <2>3, <3>1 DEF TypeOK, Stage, work
  <2>5. SortInv'
    BY <1>1, <1>2, <1>3, <2>1 DEF SortInv
  <2>6. ScanInv'
    BY <1>6, <2>1 DEF ScanInv, Finished
  <2>7. ScannedInv'
    BY <2>1, <2>3 DEF ScannedInv
  <2>8. CopiesGrouped'
    BY <1>4 DEF CopiesGrouped
  <2>9. MoverInv' /\ RemapInv' /\ QuietInv' /\ KernelInv'
    BY <1>1, <2>1 DEF IInv, MoverInv, RemapInv, QuietInv, KernelInv
  <2> QED BY <2>3, <2>4, <2>5, <2>6, <2>7, <2>8, <2>9 DEF IInv, CopiesReady
<1>8. CASE ~ env.csr
  <2>1. SortFrom(mode + 1) /\ rowptr' = rowptr /\ mode + 1 \in Nat
    BY <1>2, <1>8 DEF StripesDone
  <2>2. stage' \in {"sort", "idle"} /\ mode' \in Mode /\ todo' \in SUBSET Nat
    BY <2>1, SortFromFacts
  <2>3. TypeOK'
    BY <1>1, <1>2, <1>5, <2>1, <2>2 DEF TypeOK, Stage, work
  <2>4. RowPtrExact' /\ RowPtrSound'
    BY <1>1, <2>1 DEF IInv, CopiesReady, RowPtrExact, RowPtrSound
  <2> QED BY <1>1, <1>4, <1>6, <2>1, <2>3, <2>4, Settled
<1> QED BY <1>7, <1>8

LEMMA RowPtrDoneStep ==
  ASSUME IInv, RowPtrDone PROVE IInv'
<1>1. /\ stage = "rowptr" /\ todo = {} /\ \A t \in Thread : at[t] = "row"
      /\ csr' = csr \cup {mode} /\ SortFrom(mode + 1)
      /\ UNCHANGED <<env, copy, tmp, rowptr, sorted, work, yhat>>
  BY DEF RowPtrDone
<1>2. TypeOK /\ mode \in Mode /\ mode \in sorted /\ mode + 1 \in Nat /\ ModeSize[mode] \in Nat
  <2>1. TypeOK /\ mode \in Mode /\ mode \in sorted
    BY <1>1 DEF IInv, CopiesReady, TypeOK, SortInv
  <2> QED BY <2>1, TensorAssumption DEF Mode
<1>3. ASSUME NEW r \in 0 .. ModeSize[mode] PROVE rowptr[mode][r] = Below(mode, r)
  <2>1. rowptr[mode][r] # Fresh
    <3>1. CASE r = ModeSize[mode]
      BY <1>1, <3>1 DEF IInv, ScannedInv
    <3>2. CASE r # ModeSize[mode]
      <4>1. r \in Nat /\ r < ModeSize[mode]
        BY <1>2, <3>2
      <4>2. PICK s \in Shards(mode) : r \in RowLo(mode, s) .. RowHi(mode, s) - 1
        BY <1>2, <4>1, RowInShard
      <4> QED BY <1>1, <4>2 DEF IInv, ScannedInv
    <3> QED BY <3>1, <3>2
  <2> QED BY <1>2, <2>1 DEF IInv, RowPtrSound
<1>4. RowPtrExact' /\ RowPtrSound'
  <2>1. \A n \in csr' : \A r \in 0 .. ModeSize[n] : rowptr[n][r] = Below(n, r)
    BY <1>1, <1>3 DEF IInv, CopiesReady, RowPtrExact, Below
  <2> QED BY <1>1, <2>1 DEF IInv, RowPtrExact, RowPtrSound, Below
<1>5. stage' \in {"sort", "idle"} /\ mode' \in Mode /\ todo' \in SUBSET Nat
  BY <1>1, <1>2, SortFromFacts
<1>6. TypeOK'
  BY <1>1, <1>2, <1>5 DEF TypeOK, Stage, work
<1>7. \A t \in Thread : Finished(t)'
  BY <1>1 DEF IInv, ScanInv, Finished, work
<1>8. \A n \in Mode : Grouped(copy'[n], n)
  BY <1>1 DEF IInv, CopiesReady, CopiesGrouped
<1> QED BY <1>1, <1>2, <1>4, <1>6, <1>7, <1>8, Settled

LEMMA SlabFacts ==
  ASSUME IInv, stage = "rowptr"
  PROVE  /\ mode \in Mode /\ mode \in sorted /\ SortedSlab = copy[mode]
         /\ Grouped(copy[mode], mode) /\ InOrder(copy[mode], mode)
BY DEF IInv, CopiesReady, TypeOK, CopiesGrouped, SortInv, SortedSlab

\* A step of the scan concerns the row pointers and its thread.
LEMMA StillScanning ==
  ASSUME IInv, TypeOK', stage = "rowptr",
         UNCHANGED <<stage, mode, copy, tmp, sorted, pending, yhat>>,
         RowPtrExact', RowPtrSound', ScanInv', ScannedInv'
  PROVE  IInv'
<1>1. CopiesGrouped'
  BY DEF IInv, CopiesReady, CopiesGrouped
<1>2. MoverInv' /\ RemapInv' /\ SortInv' /\ QuietInv'
  BY DEF IInv, MoverInv, RemapInv, SortInv, QuietInv
<1>3. KernelInv'
  BY DEF IInv, KernelInv
<1> QED BY <1>1, <1>2, <1>3 DEF IInv, CopiesReady

LEMMA TakeRowShardStep ==
  ASSUME IInv, NEW t \in Thread, TakeRowShard(t) PROVE IInv'
<1>1. PICK s \in todo :
        /\ todo' = todo \ {s}
        /\ ip' = [ip EXCEPT ![t] = ShardBegin(mode, s)]
        /\ ends' = [ends EXCEPT ![t] = ShardEnd(mode, s)]
        /\ row' = [row EXCEPT ![t] = RowLo(mode, s)]
        /\ rowEnd' = [rowEnd EXCEPT ![t] = RowHi(mode, s)]
  BY DEF TakeRowShard
<1>2. /\ stage = "rowptr" /\ at[t] = "row" /\ at' = [at EXCEPT ![t] = "rows"]
      /\ UNCHANGED <<env, stage, mode, copy, tmp, rowptr, sorted, csr, pending, off, stop, acc, yhat>>
  BY DEF TakeRowShard, tables
<1>3. TypeOK /\ mode \in Mode /\ s \in Shards(mode) /\ todo \subseteq Shards(mode)
  BY <1>1, <1>2 DEF IInv, CopiesReady, TypeOK, ScannedInv
<1>4. /\ ShardBegin(mode, s) \in Nat /\ ShardEnd(mode, s) \in Nat
      /\ RowLo(mode, s) \in Nat /\ RowHi(mode, s) \in Nat /\ RowLo(mode, s) =< RowHi(mode, s)
      /\ ShardBegin(mode, s) = Below(mode, RowLo(mode, s))
  BY <1>3, RangeOrder, RowBounds, ShardBelow
<1>5. /\ ip'[t] = ShardBegin(mode, s) /\ ends'[t] = ShardEnd(mode, s)
      /\ row'[t] = RowLo(mode, s) /\ rowEnd'[t] = RowHi(mode, s) /\ at'[t] = "rows"
  BY <1>1, <1>2, <1>3 DEF TypeOK
<1>6. \A u \in Thread : u # t =>
        /\ ip'[u] = ip[u] /\ ends'[u] = ends[u] /\ row'[u] = row[u]
        /\ rowEnd'[u] = rowEnd[u] /\ at'[u] = at[u]
  BY <1>1, <1>2, <1>3 DEF TypeOK
<1>7. TypeOK'
  <2>1. ip' \in [Thread -> Nat] /\ ends' \in [Thread -> Nat]
    BY <1>1, <1>3, <1>4 DEF TypeOK
  <2>2. row' \in [Thread -> Nat] /\ rowEnd' \in [Thread -> Nat]
    BY <1>1, <1>3, <1>4 DEF TypeOK
  <2>3. at' \in [Thread -> {"row", "rows", "run"}] /\ todo' \subseteq Nat
    BY <1>1, <1>2, <1>3 DEF TypeOK
  <2> QED BY <1>2, <1>3, <2>1, <2>2, <2>3 DEF TypeOK
<1>8. ScanInv'
  <2>1. ASSUME NEW u \in Thread
        PROVE  /\ pending'[u] = {}
               /\ at'[u] = "row" => ip'[u] = ends'[u] /\ row'[u] = rowEnd'[u]
               /\ at'[u] # "row" => \E v \in Shards(mode) :
                    /\ at'[u] = "rows" /\ ip'[u] = Below(mode, row'[u])
                    /\ RowLo(mode, v) =< row'[u] /\ row'[u] =< rowEnd'[u]
                    /\ rowEnd'[u] = RowHi(mode, v) /\ ends'[u] = ShardEnd(mode, v)
    <3>1. CASE u = t
      BY <1>2, <1>3, <1>4, <1>5, <3>1 DEF IInv, ScanInv
    <3>2. CASE u # t
      BY <1>2, <1>6, <3>2 DEF IInv, ScanInv
    <3> QED BY <3>1, <3>2
  <2> QED BY <1>2, <2>1 DEF ScanInv
<1>9. ScannedInv'
  <2>1. ASSUME NEW u \in Shards(mode) \ todo', NEW r \in RowLo(mode, u) .. RowHi(mode, u) - 1
        PROVE  \/ rowptr'[mode][r] # Fresh
               \/ \E w \in Thread : at'[w] = "rows" /\ row'[w] =< r /\ r < rowEnd'[w]
    <3>1. CASE u = s
      BY <1>4, <1>5, <3>1
    <3>2. CASE u # s
      <4>1. \/ rowptr[mode][r] # Fresh
            \/ \E w \in Thread : at[w] = "rows" /\ row[w] =< r /\ r < rowEnd[w]
        BY <1>1, <1>2, <3>2 DEF IInv, ScannedInv
      <4> QED BY <1>2, <1>6, <4>1
    <3> QED BY <3>1, <3>2
  <2> QED BY <1>1, <1>2, <1>3, <2>1 DEF IInv, ScannedInv
<1>10. RowPtrExact' /\ RowPtrSound'
  BY <1>2 DEF IInv, CopiesReady, RowPtrExact, RowPtrSound
<1> QED BY <1>2, <1>7, <1>8, <1>9, <1>10, StillScanning

\* What a thread writes, and what it is in the middle of.
LEMMA ScanFacts ==
  ASSUME IInv, stage = "rowptr", NEW t \in Thread, at[t] = "rows"
  PROVE  \E s \in Shards(mode) :
           /\ mode \in Mode /\ row[t] \in Nat /\ rowEnd[t] \in Nat /\ row[t] =< rowEnd[t]
           /\ rowEnd[t] =< ModeSize[mode] /\ ModeSize[mode] \in Nat
           /\ ip[t] = Below(mode, row[t]) /\ ends[t] = Below(mode, rowEnd[t])
           /\ RowLo(mode, s) =< row[t] /\ RowLo(mode, s) \in Nat
           /\ rowEnd[t] = RowHi(mode, s) /\ ends[t] = ShardEnd(mode, s)
<1>1. mode \in Mode /\ TypeOK
  BY DEF IInv, CopiesReady, TypeOK
<1>2. PICK s \in Shards(mode) :
         /\ ip[t] = Below(mode, row[t])
         /\ RowLo(mode, s) =< row[t] /\ row[t] =< rowEnd[t]
         /\ rowEnd[t] = RowHi(mode, s) /\ ends[t] = ShardEnd(mode, s)
  BY DEF IInv, ScanInv
<1>3. RowLo(mode, s) \in Nat /\ RowHi(mode, s) =< ModeSize[mode]
      /\ ShardEnd(mode, s) = Below(mode, RowHi(mode, s))
  BY <1>1, RowBounds, ShardBelow
<1>4. row[t] \in Nat /\ rowEnd[t] \in Nat /\ ModeSize[mode] \in Nat
  BY <1>1, TensorAssumption DEF TypeOK
<1> QED BY <1>1, <1>2, <1>3, <1>4

LEMMA WriteRowPtrStep ==
  ASSUME IInv, NEW t \in Thread, WriteRowPtr(t) PROVE IInv'
<1>1. /\ stage = "rowptr" /\ at[t] = "rows" /\ row[t] < rowEnd[t]
      /\ rowptr' = [rowptr EXCEPT ![mode][row[t]] = ip[t]]
      /\ ip' = [ip EXCEPT ![t] = PastRow(SortedSlab, mode, ip[t], ends[t], row[t])]
      /\ row' = [row EXCEPT ![t] = row[t] + 1]
      /\ UNCHANGED <<env, stage, mode, copy, tmp, sorted, csr, todo,
                     pending, off, ends, rowEnd, at, stop, acc, yhat>>
  BY DEF WriteRowPtr
<1>2. PICK s \in Shards(mode) :
        /\ mode \in Mode /\ row[t] \in Nat /\ rowEnd[t] \in Nat
        /\ rowEnd[t] =< ModeSize[mode] /\ ModeSize[mode] \in Nat
        /\ ip[t] = Below(mode, row[t]) /\ ends[t] = Below(mode, rowEnd[t])
        /\ RowLo(mode, s) =< row[t] /\ RowLo(mode, s) \in Nat
        /\ rowEnd[t] = RowHi(mode, s) /\ ends[t] = ShardEnd(mode, s)
  BY <1>1, ScanFacts
<1>3. TypeOK
  BY DEF IInv, CopiesReady
<1>4. row[t] \in 0 .. ModeSize[mode] /\ row[t] + 1 \in Nat
  BY <1>1, <1>2
<1>5. /\ DOMAIN rowptr' = Mode
      /\ \A n \in Mode : rowptr'[n] \in [0 .. ModeSize[n] -> Nat \cup {Fresh}]
      /\ RowPtrSound' /\ RowPtrExact' /\ rowptr'[mode][row[t]] # Fresh
      /\ \A n \in Mode : \A q \in 0 .. ModeSize[n] :
           rowptr[n][q] # Fresh => rowptr'[n][q] = rowptr[n][q]
  BY <1>1, <1>2, <1>4, RowPtrWrite
<1>6. PastRow(SortedSlab, mode, ip[t], ends[t], row[t]) = Below(mode, row[t] + 1)
      /\ Below(mode, row[t] + 1) \in Nat
  BY <1>1, <1>2, <1>4, SlabFacts, PastRowBelow, BelowType
<1>7. /\ ip'[t] = Below(mode, row[t] + 1) /\ row'[t] = row[t] + 1
      /\ \A u \in Thread : u # t => ip'[u] = ip[u] /\ row'[u] = row[u]
  BY <1>1, <1>3, <1>6 DEF TypeOK
<1>8. TypeOK'
  <2>1. ip' \in [Thread -> Nat] /\ row' \in [Thread -> Nat]
    BY <1>1, <1>3, <1>4, <1>6 DEF TypeOK
  <2> QED BY <1>1, <1>3, <1>5, <2>1 DEF TypeOK
<1>9. ScanInv'
  <2>1. ASSUME NEW u \in Thread
        PROVE  /\ pending'[u] = {}
               /\ at'[u] = "row" => ip'[u] = ends'[u] /\ row'[u] = rowEnd'[u]
               /\ at'[u] # "row" => \E v \in Shards(mode) :
                    /\ at'[u] = "rows" /\ ip'[u] = Below(mode, row'[u])
                    /\ RowLo(mode, v) =< row'[u] /\ row'[u] =< rowEnd'[u]
                    /\ rowEnd'[u] = RowHi(mode, v) /\ ends'[u] = ShardEnd(mode, v)
    <3>1. CASE u = t
      <4>1. RowLo(mode, s) =< row'[t] /\ row'[t] =< rowEnd'[t]
        BY <1>1, <1>2, <1>7
      <4> QED BY <1>1, <1>2, <1>7, <3>1, <4>1 DEF IInv, ScanInv
    <3>2. CASE u # t
      BY <1>1, <1>7, <3>2 DEF IInv, ScanInv
    <3> QED BY <3>1, <3>2
  <2> QED BY <1>1, <2>1 DEF ScanInv
<1>10. ScannedInv'
  <2>1. ASSUME NEW u \in Shards(mode) \ todo, NEW r \in RowLo(mode, u) .. RowHi(mode, u) - 1
        PROVE  \/ rowptr'[mode][r] # Fresh
               \/ \E w \in Thread : at'[w] = "rows" /\ row'[w] =< r /\ r < rowEnd'[w]
    <3>1. r \in 0 .. ModeSize[mode] /\ r \in Nat
      BY <1>2, RowBounds
    <3>2. CASE rowptr[mode][r] # Fresh
      BY <1>2, <1>5, <3>1, <3>2
    <3>3. CASE rowptr[mode][r] = Fresh
      <4>1. PICK w \in Thread : at[w] = "rows" /\ row[w] =< r /\ r < rowEnd[w]
        BY <1>1, <3>3 DEF IInv, ScannedInv
      <4>2. CASE w = t
        BY <1>1, <1>2, <1>5, <1>7, <3>1, <4>1, <4>2
      <4>3. CASE w # t
        BY <1>1, <1>7, <4>1, <4>3
      <4> QED BY <4>2, <4>3
    <3> QED BY <3>2, <3>3
  <2>2. rowptr'[mode][ModeSize[mode]] # Fresh
    <3>1. rowptr[mode][ModeSize[mode]] # Fresh /\ ModeSize[mode] \in 0 .. ModeSize[mode]
      BY <1>1, <1>2 DEF IInv, ScannedInv
    <3> QED BY <1>2, <1>5, <3>1
  <2> QED BY <1>1, <2>1, <2>2 DEF IInv, ScannedInv
<1> QED BY <1>1, <1>5, <1>8, <1>9, <1>10, StillScanning

LEMMA CloseRowPtrStep ==
  ASSUME IInv, NEW t \in Thread, CloseRowPtr(t) PROVE IInv'
<1>1. /\ stage = "rowptr" /\ at[t] = "rows" /\ row[t] = rowEnd[t]
      /\ rowptr' = [rowptr EXCEPT ![mode][rowEnd[t]] = ip[t]]
      /\ at' = [at EXCEPT ![t] = "row"]
      /\ ip' = [ip EXCEPT ![t] = ends[t]]
      /\ UNCHANGED <<env, stage, mode, copy, tmp, sorted, csr, todo,
                     pending, off, ends, row, rowEnd, stop, acc, yhat>>
  BY DEF CloseRowPtr
<1>2. /\ mode \in Mode /\ row[t] \in Nat /\ rowEnd[t] \in Nat
      /\ rowEnd[t] =< ModeSize[mode] /\ ModeSize[mode] \in Nat
      /\ ip[t] = Below(mode, row[t])
  BY <1>1, ScanFacts
<1>3. TypeOK
  BY DEF IInv, CopiesReady
<1>4. rowEnd[t] \in 0 .. ModeSize[mode] /\ ip[t] = Below(mode, rowEnd[t])
  BY <1>1, <1>2
<1>5. /\ DOMAIN rowptr' = Mode
      /\ \A n \in Mode : rowptr'[n] \in [0 .. ModeSize[n] -> Nat \cup {Fresh}]
      /\ RowPtrSound' /\ RowPtrExact'
      /\ \A n \in Mode : \A q \in 0 .. ModeSize[n] :
           rowptr[n][q] # Fresh => rowptr'[n][q] = rowptr[n][q]
  BY <1>1, <1>2, <1>4, RowPtrWrite
<1>6. /\ ip'[t] = ends[t] /\ at'[t] = "row" /\ ends[t] \in Nat
      /\ \A u \in Thread : u # t => ip'[u] = ip[u] /\ at'[u] = at[u]
  BY <1>1, <1>3 DEF TypeOK
<1>7. TypeOK'
  <2>1. ip' \in [Thread -> Nat] /\ at' \in [Thread -> {"row", "rows", "run"}]
    BY <1>1, <1>3, <1>6 DEF TypeOK
  <2> QED BY <1>1, <1>3, <1>5, <2>1 DEF TypeOK
<1>8. ScanInv'
  <2>1. ASSUME NEW u \in Thread
        PROVE  /\ pending'[u] = {}
               /\ at'[u] = "row" => ip'[u] = ends'[u] /\ row'[u] = rowEnd'[u]
               /\ at'[u] # "row" => \E v \in Shards(mode) :
                    /\ at'[u] = "rows" /\ ip'[u] = Below(mode, row'[u])
                    /\ RowLo(mode, v) =< row'[u] /\ row'[u] =< rowEnd'[u]
                    /\ rowEnd'[u] = RowHi(mode, v) /\ ends'[u] = ShardEnd(mode, v)
    <3>1. CASE u = t
      BY <1>1, <1>6, <3>1 DEF IInv, ScanInv
    <3>2. CASE u # t
      BY <1>1, <1>6, <3>2 DEF IInv, ScanInv
    <3> QED BY <3>1, <3>2
  <2> QED BY <1>1, <2>1 DEF ScanInv
<1>9. ScannedInv'
  <2>1. ASSUME NEW u \in Shards(mode) \ todo, NEW r \in RowLo(mode, u) .. RowHi(mode, u) - 1
        PROVE  \/ rowptr'[mode][r] # Fresh
               \/ \E w \in Thread : at'[w] = "rows" /\ row'[w] =< r /\ r < rowEnd'[w]
    <3>1. r \in 0 .. ModeSize[mode] /\ r \in Nat
      BY <1>2, RowBounds
    <3>2. CASE rowptr[mode][r] # Fresh
      BY <1>2, <1>5, <3>1, <3>2
    <3>3. CASE rowptr[mode][r] = Fresh
      <4>1. PICK w \in Thread : at[w] = "rows" /\ row[w] =< r /\ r < rowEnd[w]
        BY <1>1, <3>3 DEF IInv, ScannedInv
      <4>2. w # t
        BY <1>1, <1>2, <3>1, <4>1
      <4> QED BY <1>1, <1>6, <4>1, <4>2
    <3> QED BY <3>2, <3>3
  <2>2. rowptr'[mode][ModeSize[mode]] # Fresh
    <3>1. rowptr[mode][ModeSize[mode]] # Fresh /\ ModeSize[mode] \in 0 .. ModeSize[mode]
      BY <1>1, <1>2 DEF IInv, ScannedInv
    <3> QED BY <1>2, <1>5, <3>1
  <2> QED BY <1>1, <2>1, <2>2 DEF IInv, ScannedInv
<1> QED BY <1>1, <1>5, <1>7, <1>8, <1>9, StillScanning

-----------------------------------------------------------------------------
(* process. *)

LEMMA StillServing ==
  ASSUME IInv, TypeOK', stage \in {"idle", "kernel"}, stage' = "kernel",
         UNCHANGED <<mode, copy, rowptr, csr>>, KernelInv'
  PROVE  IInv'
<1>1. CopiesGrouped' /\ RowPtrExact' /\ RowPtrSound'
  BY DEF IInv, CopiesReady, CopiesGrouped, RowPtrExact, RowPtrSound
<1>2. MoverInv' /\ RemapInv' /\ SortInv' /\ ScanInv' /\ ScannedInv' /\ QuietInv'
  BY DEF MoverInv, RemapInv, SortInv, ScanInv, ScannedInv, QuietInv
<1> QED BY <1>1, <1>2 DEF IInv, CopiesReady

LEMMA CallStep ==
  ASSUME IInv, Call PROVE IInv'
<1>1. /\ stage = "idle" /\ stage' = "kernel" /\ yhat' = Zeroed /\ pending' = Lists(mode)
      /\ UNCHANGED <<env, mode, copy, tmp, rowptr, sorted, csr, todo, off, ip, ends, row, rowEnd,
                     at, stop, acc>>
  BY DEF Call, tables
<1>2. TypeOK /\ mode \in Mode
  BY DEF IInv, CopiesReady, TypeOK
<1>3. TypeOK'
  <2>1. pending' \in [Thread -> SUBSET Nat]
    BY <1>1, <1>2, ListsType
  <2> QED BY <1>1, <1>2, <2>1 DEF TypeOK, Stage
<1>4. KernelInv'
  <2>1. DOMAIN yhat = Mode /\ \A n \in Mode : yhat[n] \in [Rows(n) -> [Elem -> Nat]]
    BY DEF IInv, KernelInv
  <2>2. DOMAIN yhat' = Mode /\ \A n \in Mode : n # mode => yhat'[n] = yhat[n]
    BY <1>1, <1>2, <2>1 DEF Zeroed
  <2>3. yhat'[mode] \in [Rows(mode) -> [Elem -> Nat]]
    <3>1. Nothing \in [Elem -> Nat]
      BY DEF Nothing
    <3>2. yhat'[mode] = [r \in Rows(mode) |-> IF r \in ZeroedRows(mode) THEN Nothing ELSE yhat[mode][r]]
      BY <1>1, <1>2, <2>1 DEF Zeroed
    <3>3. \A r \in Rows(mode) : yhat[mode][r] \in [Elem -> Nat]
      BY <1>2, <2>1
    <3> QED BY <3>1, <3>2, <3>3
  <2>4. ASSUME NEW t \in Thread
        PROVE  /\ pending'[t] \subseteq Shards(mode)
               /\ at'[t] = "row" /\ ip'[t] = ends'[t] /\ row'[t] = rowEnd'[t]
               /\ ip'[t] \in Nat /\ row'[t] \in Nat
    <3>1. Finished(t) /\ ip[t] \in Nat /\ row[t] \in Nat
      BY <1>1, <1>2 DEF IInv, QuietInv, TypeOK
    <3> QED BY <1>1, <1>2, <3>1, ListsType DEF Finished
  <2>5. \A n \in Mode : yhat'[n] \in [Rows(n) -> [Elem -> Nat]]
    BY <2>1, <2>2, <2>3
  <2> QED BY <1>1, <2>2, <2>4, <2>5 DEF KernelInv
<1> QED BY <1>1, <1>3, <1>4, StillServing

\* A step of a thread concerns the thread, and perhaps the output.
LEMMA ThreadServing ==
  ASSUME IInv, TypeOK', stage = "kernel", NEW t \in Thread,
         UNCHANGED <<stage, mode, copy, rowptr, csr>>,
         DOMAIN yhat' = Mode, \A n \in Mode : yhat'[n] \in [Rows(n) -> [Elem -> Nat]],
         \A u \in Thread : u # t =>
           /\ pending'[u] = pending[u] /\ at'[u] = at[u] /\ ip'[u] = ip[u]
           /\ ends'[u] = ends[u] /\ row'[u] = row[u] /\ rowEnd'[u] = rowEnd[u],
         pending'[t] \subseteq Shards(mode),
         at'[t] = "run" \/ ip'[t] < ends'[t] => ends'[t] =< nnz,
         row'[t] < rowEnd'[t] => rowEnd'[t] =< ModeSize[mode]
  PROVE  IInv'
<1>1. ASSUME NEW u \in Thread
      PROVE  /\ pending'[u] \subseteq Shards(mode)
             /\ at'[u] = "run" \/ ip'[u] < ends'[u] => ends'[u] =< nnz
             /\ row'[u] < rowEnd'[u] => rowEnd'[u] =< ModeSize[mode]
  <2>1. CASE u = t
    BY <2>1
  <2>2. CASE u # t
    BY <2>2 DEF IInv, KernelInv
  <2> QED BY <2>1, <2>2
<1>2. KernelInv'
  BY <1>1 DEF KernelInv
<1> QED BY <1>2, StillServing

LEMMA ServingFacts ==
  ASSUME IInv, stage = "kernel", NEW t \in Thread
  PROVE  /\ TypeOK /\ mode \in Mode /\ Grouped(copy[mode], mode) /\ ModeSize[mode] \in Nat
         /\ nnz \in Nat /\ Slot = 0 .. nnz - 1
         /\ ip[t] \in Nat /\ ends[t] \in Nat /\ stop[t] \in Nat
         /\ row[t] \in Nat /\ rowEnd[t] \in Nat
         /\ DOMAIN yhat = Mode /\ \A n \in Mode : yhat[n] \in [Rows(n) -> [Elem -> Nat]]
         /\ pending[t] \subseteq Shards(mode)
         /\ at[t] = "run" \/ ip[t] < ends[t] => ends[t] =< nnz
         /\ row[t] < rowEnd[t] => rowEnd[t] =< ModeSize[mode]
<1>1. TypeOK /\ mode \in Mode
  BY DEF IInv, CopiesReady, TypeOK
<1>2. Grouped(copy[mode], mode)
  BY <1>1 DEF IInv, CopiesReady, CopiesGrouped
<1>3. ModeSize[mode] \in Nat /\ nnz \in Nat /\ Slot = 0 .. nnz - 1
  BY <1>1, TensorAssumption, SlotFacts DEF Slot
<1>4. ip[t] \in Nat /\ ends[t] \in Nat /\ stop[t] \in Nat /\ row[t] \in Nat /\ rowEnd[t] \in Nat
  BY <1>1 DEF TypeOK
<1> QED BY <1>1, <1>2, <1>3, <1>4 DEF IInv, KernelInv

\* A grouped copy holds every nonzero, and nothing else.
LEMMA CopyOnto ==
  ASSUME NEW n \in Mode, Grouped(copy[n], n)
  PROVE  /\ \A d \in Slot : copy[n][d] \in Elem
         /\ \A e \in Elem : \E d \in Slot : copy[n][d] = e
BY DEF Grouped, Bijection, Injection, Surjection

LEMMA TakeShardStep ==
  ASSUME IInv, NEW t \in Thread, TakeShard(t) PROVE IInv'
<1>1. PICK s \in pending[t] :
        /\ pending' = [pending EXCEPT ![t] = @ \ {s}]
        /\ IF UseCsr
           THEN /\ row' = [row EXCEPT ![t] = RowLo(mode, s)]
                /\ rowEnd' = [rowEnd EXCEPT ![t] = RowHi(mode, s)]
                /\ UNCHANGED <<ip, ends>>
           ELSE /\ ip' = [ip EXCEPT ![t] = ShardBegin(mode, s)]
                /\ ends' = [ends EXCEPT ![t] = ShardEnd(mode, s)]
                /\ UNCHANGED <<row, rowEnd>>
  BY DEF TakeShard
<1>2. /\ stage = "kernel" /\ at[t] = "row" /\ ip[t] = ends[t] /\ row[t] = rowEnd[t]
      /\ UNCHANGED <<env, stage, mode, copy, tmp, rowptr, sorted, csr, todo, off, at, stop, acc, yhat>>
  BY DEF TakeShard, tables
<1>3. TypeOK /\ mode \in Mode /\ s \in Shards(mode) /\ pending[t] \subseteq Shards(mode)
      /\ DOMAIN yhat = Mode /\ \A n \in Mode : yhat[n] \in [Rows(n) -> [Elem -> Nat]]
      /\ ip[t] \in Nat /\ row[t] \in Nat
  BY <1>2, ServingFacts
<1>4. /\ pending'[t] = pending[t] \ {s}
      /\ \A u \in Thread : u # t => pending'[u] = pending[u]
      /\ pending' \in [Thread -> SUBSET Nat]
  BY <1>1, <1>3 DEF TypeOK
<1>5. CASE UseCsr
  <2>1. RowLo(mode, s) \in Nat /\ RowHi(mode, s) \in Nat /\ RowHi(mode, s) =< ModeSize[mode]
    BY <1>3, RowBounds
  <2>2. /\ row' \in [Thread -> Nat] /\ rowEnd' \in [Thread -> Nat] /\ ip' = ip /\ ends' = ends
        /\ rowEnd'[t] = RowHi(mode, s)
        /\ \A u \in Thread : u # t => row'[u] = row[u] /\ rowEnd'[u] = rowEnd[u]
    <3>1. /\ row' = [row EXCEPT ![t] = RowLo(mode, s)]
          /\ rowEnd' = [rowEnd EXCEPT ![t] = RowHi(mode, s)]
          /\ ip' = ip /\ ends' = ends
      BY <1>1, <1>5, Zenon
    <3>2. row \in [Thread -> Nat] /\ rowEnd \in [Thread -> Nat]
      BY <1>3 DEF TypeOK
    <3> QED BY <2>1, <3>1, <3>2
  <2>3. TypeOK'
    BY <1>2, <1>3, <1>4, <2>2 DEF TypeOK
  <2> QED BY <1>2, <1>3, <1>4, <2>1, <2>2, <2>3, ThreadServing
<1>6. CASE ~ UseCsr
  <2>1. ShardBegin(mode, s) \in Nat /\ ShardEnd(mode, s) \in Nat /\ ShardEnd(mode, s) =< nnz
    BY <1>3, RangeOrder
  <2>2. /\ ip' \in [Thread -> Nat] /\ ends' \in [Thread -> Nat] /\ row' = row /\ rowEnd' = rowEnd
        /\ ends'[t] = ShardEnd(mode, s)
        /\ \A u \in Thread : u # t => ip'[u] = ip[u] /\ ends'[u] = ends[u]
    <3>1. /\ ip' = [ip EXCEPT ![t] = ShardBegin(mode, s)]
          /\ ends' = [ends EXCEPT ![t] = ShardEnd(mode, s)]
          /\ row' = row /\ rowEnd' = rowEnd
      BY <1>1, <1>6, Zenon
    <3>2. ip \in [Thread -> Nat] /\ ends \in [Thread -> Nat]
      BY <1>3 DEF TypeOK
    <3> QED BY <2>1, <3>1, <3>2
  <2>3. TypeOK'
    BY <1>2, <1>3, <1>4, <2>2 DEF TypeOK
  <2> QED BY <1>2, <1>3, <1>4, <2>1, <2>2, <2>3, ThreadServing
<1> QED BY <1>5, <1>6

LEMMA SkipRowStep ==
  ASSUME IInv, NEW t \in Thread, SkipRow(t) PROVE IInv'
<1>1. /\ stage = "kernel" /\ at[t] = "row" /\ row[t] < rowEnd[t]
      /\ row' = [row EXCEPT ![t] = row[t] + 1]
      /\ UNCHANGED <<env, stage, mode, copy, tmp, rowptr, sorted, csr, todo,
                     pending, off, ip, ends, rowEnd, at, stop, acc, yhat>>
  BY DEF SkipRow, tables
<1>2. TypeOK /\ row[t] \in Nat /\ row' \in [Thread -> Nat]
      /\ \A u \in Thread : u # t => row'[u] = row[u]
  <2>1. TypeOK /\ row[t] \in Nat
    BY <1>1, ServingFacts
  <2> QED BY <1>1, <2>1 DEF TypeOK
<1>3. TypeOK'
  BY <1>1, <1>2 DEF TypeOK
<1> QED BY <1>1, <1>2, <1>3, ServingFacts, ThreadServing

LEMMA LoadCsrRowStep ==
  ASSUME IInv, NEW t \in Thread, LoadCsrRow(t) PROVE IInv'
<1> DEFINE q == row[t] + 1
<1>1. /\ stage = "kernel" /\ UseCsr /\ at[t] = "row" /\ row[t] < rowEnd[t]
      /\ ip' = [ip EXCEPT ![t] = rowptr[mode][row[t]]]
      /\ stop' = [stop EXCEPT ![t] = rowptr[mode][q]]
      /\ ends' = [ends EXCEPT ![t] = rowptr[mode][q]]
      /\ acc' = [acc EXCEPT ![t] = yhat[mode][row[t]]]
      /\ at' = [at EXCEPT ![t] = "run"]
      /\ UNCHANGED <<env, stage, mode, copy, tmp, rowptr, sorted, csr, todo, pending, off, row, rowEnd, yhat>>
  BY DEF LoadCsrRow, tables
<1>2. /\ TypeOK /\ mode \in Mode /\ mode \in csr /\ row[t] \in Nat /\ rowEnd[t] \in Nat
      /\ rowEnd[t] =< ModeSize[mode] /\ ModeSize[mode] \in Nat
      /\ DOMAIN yhat = Mode /\ \A n \in Mode : yhat[n] \in [Rows(n) -> [Elem -> Nat]]
      /\ pending[t] \subseteq Shards(mode)
  BY <1>1, ServingFacts DEF UseCsr
<1>3. row[t] \in 0 .. ModeSize[mode] /\ q \in 0 .. ModeSize[mode] /\ row[t] \in Rows(mode) /\ q \in Nat
  BY <1>1, <1>2 DEF Rows
<1> HIDE DEF q
<1>4. rowptr[mode][row[t]] = Below(mode, row[t]) /\ rowptr[mode][q] = Below(mode, q)
  BY <1>2, <1>3 DEF IInv, CopiesReady, RowPtrExact, Below
<1>5. rowptr[mode][row[t]] \in Nat /\ rowptr[mode][q] \in Nat /\ rowptr[mode][q] =< nnz
  BY <1>2, <1>3, <1>4, BelowType
<1>6. TypeOK'
  <2>1. ip' \in [Thread -> Nat] /\ stop' \in [Thread -> Nat] /\ ends' \in [Thread -> Nat]
    BY <1>1, <1>2, <1>5 DEF TypeOK
  <2>2. acc' \in [Thread -> [Elem -> Nat]]
    <3>1. yhat[mode][row[t]] \in [Elem -> Nat]
      BY <1>2, <1>3
    <3> QED BY <1>1, <1>2, <3>1 DEF TypeOK
  <2>3. at' \in [Thread -> {"row", "rows", "run"}]
    BY <1>1, <1>2 DEF TypeOK
  <2> QED BY <1>1, <1>2, <2>1, <2>2, <2>3 DEF TypeOK
<1>7. /\ ends'[t] =< nnz
      /\ \A u \in Thread : u # t => ip'[u] = ip[u] /\ ends'[u] = ends[u] /\ at'[u] = at[u]
  BY <1>1, <1>2, <1>5 DEF TypeOK
<1> QED BY <1>1, <1>2, <1>6, <1>7, ThreadServing

LEMMA LoadRowStep ==
  ASSUME IInv, NEW t \in Thread, LoadRow(t) PROVE IInv'
<1>1. PICK j \in ip[t] + 1 .. ends[t] : stop' = [stop EXCEPT ![t] = j]
  BY DEF LoadRow
<1>2. /\ stage = "kernel" /\ ip[t] < ends[t]
      /\ acc' = [acc EXCEPT ![t] = yhat[mode][Row[mode][copy[mode][ip[t]]]]]
      /\ at' = [at EXCEPT ![t] = "run"]
      /\ UNCHANGED <<env, stage, mode, copy, tmp, rowptr, sorted, csr, todo, pending, off, ip, ends,
                     row, rowEnd, yhat>>
  BY DEF LoadRow, tables
<1>3. /\ TypeOK /\ mode \in Mode /\ Grouped(copy[mode], mode) /\ ModeSize[mode] \in Nat
      /\ ip[t] \in Nat /\ ends[t] \in Nat /\ ends[t] =< nnz /\ nnz \in Nat /\ Slot = 0 .. nnz - 1
      /\ DOMAIN yhat = Mode /\ \A n \in Mode : yhat[n] \in [Rows(n) -> [Elem -> Nat]]
      /\ pending[t] \subseteq Shards(mode)
      /\ row[t] < rowEnd[t] => rowEnd[t] =< ModeSize[mode]
  BY <1>2, ServingFacts
<1>4. Row[mode][copy[mode][ip[t]]] \in Rows(mode)
  <2>1. ip[t] \in Slot
    BY <1>2, <1>3
  <2>2. copy[mode][ip[t]] \in Elem
    BY <1>3, <2>1, CopyOnto
  <2>3. Row[mode][copy[mode][ip[t]]] \in Nat /\ Row[mode][copy[mode][ip[t]]] < ModeSize[mode]
    BY <1>3, <2>2, TensorAssumption
  <2> QED BY <1>3, <2>3 DEF Rows
<1>5. TypeOK'
  <2>1. stop' \in [Thread -> Nat]
    <3>1. j \in Nat
      BY <1>1, <1>3
    <3> QED BY <1>1, <1>3, <3>1 DEF TypeOK
  <2>2. acc' \in [Thread -> [Elem -> Nat]]
    <3>1. yhat[mode][Row[mode][copy[mode][ip[t]]]] \in [Elem -> Nat]
      BY <1>3, <1>4
    <3> QED BY <1>2, <1>3, <3>1 DEF TypeOK
  <2>3. at' \in [Thread -> {"row", "rows", "run"}]
    BY <1>2, <1>3 DEF TypeOK
  <2> QED BY <1>2, <1>3, <2>1, <2>2, <2>3 DEF TypeOK
<1>6. \A u \in Thread : u # t => at'[u] = at[u]
  BY <1>2, <1>3 DEF TypeOK
<1> QED BY <1>2, <1>3, <1>5, <1>6, ThreadServing

LEMMA StoreRowStep ==
  ASSUME IInv, NEW t \in Thread, StoreRow(t) PROVE IInv'
<1>1. /\ stage = "kernel" /\ at[t] = "run"
      /\ yhat' = [yhat EXCEPT ![mode][HeldRow(t)] = Summed(t)]
      /\ ip' = [ip EXCEPT ![t] = stop[t]]
      /\ row' = [row EXCEPT ![t] = IF UseCsr THEN row[t] + 1 ELSE row[t]]
      /\ at' = [at EXCEPT ![t] = "row"]
      /\ UNCHANGED <<env, stage, mode, copy, tmp, rowptr, sorted, csr, todo, pending, off, ends,
                     rowEnd, stop, acc>>
  BY DEF StoreRow, tables
<1>2. /\ TypeOK /\ mode \in Mode /\ ModeSize[mode] \in Nat
      /\ ip[t] \in Nat /\ ends[t] \in Nat /\ ends[t] =< nnz /\ stop[t] \in Nat
      /\ row[t] \in Nat /\ rowEnd[t] \in Nat
      /\ DOMAIN yhat = Mode /\ \A n \in Mode : yhat[n] \in [Rows(n) -> [Elem -> Nat]]
      /\ pending[t] \subseteq Shards(mode)
      /\ row[t] < rowEnd[t] => rowEnd[t] =< ModeSize[mode]
  BY <1>1, ServingFacts
<1>3. Summed(t) \in [Elem -> Nat]
  <2>1. ASSUME NEW e \in Elem
        PROVE  acc[t][e] + Cardinality({d \in ip[t] .. stop[t] - 1 : copy[mode][d] = e}) \in Nat
    <3>1. IsFiniteSet(ip[t] .. stop[t] - 1)
      <4>1. ip[t] \in Int /\ stop[t] - 1 \in Int
        BY <1>2
      <4> QED BY <4>1, FS_Interval
    <3>2. Cardinality({d \in ip[t] .. stop[t] - 1 : copy[mode][d] = e}) \in Nat
      BY <3>1, FS_Subset, FS_CardinalityType
    <3>3. acc[t][e] \in Nat
      BY <1>2 DEF TypeOK
    <3> QED BY <3>2, <3>3
  <2> QED BY <2>1 DEF Summed
<1>4. DOMAIN yhat' = Mode /\ \A n \in Mode : yhat'[n] \in [Rows(n) -> [Elem -> Nat]]
  <2> DEFINE sum == Summed(t)
             held == HeldRow(t)
  <2>1. yhat' = [yhat EXCEPT ![mode] = [yhat[mode] EXCEPT ![held] = sum]] /\ sum \in [Elem -> Nat]
    BY <1>1, <1>3
  <2> HIDE DEF sum, held
  <2>2. yhat'[mode] = [yhat[mode] EXCEPT ![held] = sum]
        /\ DOMAIN yhat' = Mode /\ \A n \in Mode : n # mode => yhat'[n] = yhat[n]
    BY <1>2, <2>1
  <2>3. yhat'[mode] \in [Rows(mode) -> [Elem -> Nat]]
    BY <1>2, <2>1, <2>2
  <2> QED BY <1>2, <2>2, <2>3
<1>5. /\ row' \in [Thread -> Nat] /\ ip' \in [Thread -> Nat]
      /\ at' \in [Thread -> {"row", "rows", "run"}]
      /\ row'[t] >= row[t] /\ row'[t] \in Nat
      /\ \A u \in Thread : u # t => row'[u] = row[u] /\ ip'[u] = ip[u] /\ at'[u] = at[u]
  <2>1. row[t] + 1 \in Nat
    BY <1>2
  <2> QED BY <1>1, <1>2, <2>1 DEF TypeOK
<1>6. TypeOK'
  BY <1>1, <1>2, <1>5 DEF TypeOK
<1>7. row'[t] < rowEnd'[t] => rowEnd'[t] =< ModeSize[mode]
  BY <1>1, <1>2, <1>5
<1> QED BY <1>1, <1>2, <1>4, <1>5, <1>6, <1>7, ThreadServing

LEMMA ReturnStep ==
  ASSUME IInv, Return PROVE IInv'
<1>1. /\ stage = "kernel" /\ stage' = "idle" /\ mode' = Succ(mode) /\ \A t \in Thread : Finished(t)
      /\ UNCHANGED <<env, copy, tmp, rowptr, sorted, csr, todo, work, yhat>>
  BY DEF Return, tables
<1>2. TypeOK /\ mode' \in Mode
  BY <1>1, ModeFacts DEF IInv, CopiesReady, TypeOK
<1>3. TypeOK'
  BY <1>1, <1>2 DEF TypeOK, Stage, work
<1>4. CopiesGrouped' /\ RowPtrExact' /\ RowPtrSound' /\ KernelInv'
  BY <1>1 DEF IInv, CopiesReady, CopiesGrouped, RowPtrExact, RowPtrSound, KernelInv
<1>5. QuietInv'
  BY <1>1 DEF QuietInv, Finished, work
<1>6. MoverInv' /\ RemapInv' /\ SortInv' /\ ScanInv' /\ ScannedInv'
  BY <1>1 DEF MoverInv, RemapInv, SortInv, ScanInv, ScannedInv
<1> QED BY <1>3, <1>4, <1>5, <1>6 DEF IInv, CopiesReady

-----------------------------------------------------------------------------
(* The theorems. *)

LEMMA InvStep == IInv /\ [Next]_vars => IInv'
<1> SUFFICES ASSUME IInv, [Next]_vars PROVE IInv'
  OBVIOUS
<1>1. CASE Call
  BY <1>1, CallStep
<1>2. CASE Loop
  BY <1>2, SortShardStep, StripeStep DEF Loop
<1>3. CASE Driver
  BY <1>3, RemapDoneStep, SortDoneStep, StripesDoneStep, RowPtrDoneStep, ReturnStep DEF Driver
<1>4. ASSUME NEW t \in Thread, Remap(t) PROVE IInv'
  BY <1>4, TakeRemapShardStep, MoveStep DEF Remap
<1>5. ASSUME NEW t \in Thread, RowPtr(t) PROVE IInv'
  BY <1>5, TakeRowShardStep, WriteRowPtrStep, CloseRowPtrStep DEF RowPtr
<1>6. ASSUME NEW t \in Thread, Kernel(t) PROVE IInv'
  BY <1>6, TakeShardStep, SkipRowStep, LoadCsrRowStep, LoadRowStep, StoreRowStep DEF Kernel
<1>7. CASE UNCHANGED vars
  <2> USE DEF vars, tables, work
  <2>1. TypeOK' /\ CopiesGrouped' /\ RowPtrExact' /\ RowPtrSound'
    BY <1>7 DEF IInv, CopiesReady, TypeOK, CopiesGrouped, RowPtrExact, RowPtrSound
  <2>2. MoverInv'
    BY <1>7 DEF IInv, MoverInv, InShard
  <2>3. Moved' = Moved
    BY <1>7 DEF Moved, Ahead
  <2>4. RemapInv'
    BY <1>7, <2>3 DEF IInv, RemapInv, MovedBy
  <2>5. SortInv' /\ ScanInv' /\ ScannedInv'
    BY <1>7 DEF IInv, SortInv, SortedShard, ScanInv, ScannedInv
  <2>6. QuietInv' /\ KernelInv'
    BY <1>7 DEF IInv, QuietInv, Finished, KernelInv
  <2> QED BY <2>1, <2>2, <2>4, <2>5, <2>6 DEF IInv, CopiesReady
<1> QED BY <1>1, <1>2, <1>3, <1>4, <1>5, <1>6, <1>7 DEF Next

LEMMA Invariance == Spec => []IInv
BY InitInv, InvStep, PTL DEF Spec

\* The NCopy build: a populated copy holds every nonzero once, in the shard
\* order of its mode, whichever threads scattered, sorted or compacted it
\* and however their steps interleaved; and the row pointers of a mode that
\* has them are the row boundaries of its sorted copy.
THEOREM CopiesAlwaysReady == Spec => []CopiesReady
<1>1. IInv => CopiesReady
  BY DEF IInv
<1> QED BY <1>1, Invariance, PTL

\* An entry of a row pointer is only ever written with one value.
LEMMA RowPtrStep ==
  ASSUME IInv, [Next]_vars
  PROVE  \/ rowptr' = rowptr
         \/ \E r \in 0 .. ModeSize[mode] :
              rowptr' = [rowptr EXCEPT ![mode][r] = Below(mode, r)]
<1>0. mode \in Mode
  BY DEF IInv, CopiesReady, TypeOK
<1>1. CASE StripesDone
  <2>1. ModeSize[mode] \in 0 .. ModeSize[mode] /\ nnz = Below(mode, ModeSize[mode])
    BY <1>0, TensorAssumption, BelowAll
  <2> QED BY <1>1, <2>1 DEF StripesDone
<1>2. ASSUME NEW t \in Thread, WriteRowPtr(t) \/ CloseRowPtr(t)
      PROVE  \E r \in 0 .. ModeSize[mode] : rowptr' = [rowptr EXCEPT ![mode][r] = Below(mode, r)]
  <2>1. /\ row[t] \in Nat /\ row[t] =< rowEnd[t] /\ rowEnd[t] \in Nat
        /\ rowEnd[t] =< ModeSize[mode] /\ ModeSize[mode] \in Nat /\ ip[t] = Below(mode, row[t])
    BY <1>2, ScanFacts DEF WriteRowPtr, CloseRowPtr
  <2>2. row[t] \in 0 .. ModeSize[mode]
    BY <2>1
  <2>3. rowptr' = [rowptr EXCEPT ![mode][row[t]] = ip[t]]
    BY <1>2 DEF WriteRowPtr, CloseRowPtr
  <2> QED BY <2>1, <2>2, <2>3
<1>3. CASE Call \/ Loop \/ RemapDone \/ SortDone \/ RowPtrDone \/ Return
  BY <1>3 DEF Call, Loop, SortShard, Stripe, RemapDone, SortDone, RowPtrDone, Return, tables
<1>4. ASSUME NEW t \in Thread, Remap(t) \/ Kernel(t) \/ TakeRowShard(t) PROVE rowptr' = rowptr
  BY <1>4 DEF Remap, Kernel, TakeRemapShard, Move, TakeRowShard, TakeShard, SkipRow, LoadCsrRow,
              LoadRow, StoreRow, tables
<1>5. CASE UNCHANGED vars
  BY <1>5 DEF vars, tables
<1> QED BY <1>1, <1>2, <1>3, <1>4, <1>5 DEF Next, Driver, RowPtr

\* Threads that build neighbouring shards' row pointers share the entry
\* between them and write it without synchronisation: whoever is second
\* finds there what it writes.
THEOREM NeighboursAgree == Spec => RowPtrAgreed
<1>1. IInv /\ [Next]_vars =>
        [\A n \in Mode : \A r \in 0 .. ModeSize[n] :
           rowptr[n][r] # Fresh => rowptr[n][r]' = rowptr[n][r]]_rowptr
  <2> SUFFICES ASSUME IInv, [Next]_vars, rowptr' # rowptr,
                      NEW n \in Mode, NEW r \in 0 .. ModeSize[n], rowptr[n][r] # Fresh
               PROVE  rowptr'[n][r] = rowptr[n][r]
    OBVIOUS
  <2> QED BY RowPtrStep, RowPtrWrite
<1> QED BY <1>1, Invariance, PTL DEF Spec, RowPtrAgreed
-----------------------------------------------------------------------------
(* process(mode): who has what left to add. *)

LEMMA RowsOfShard ==
  ASSUME NEW n \in Mode, NEW s \in Shards(n), NEW e \in Elem
  PROVE  Shard(n, e) = s <=> RowLo(n, s) =< Row[n][e] /\ Row[n][e] < RowHi(n, s)
<1>1. MN[n] \in Nat \ {0} /\ ModeSize[n] \in Nat /\ s \in Nat
      /\ Row[n][e] \in Nat /\ Row[n][e] < ModeSize[n]
  BY TensorAssumption DEF Shards
<1>2. s + 1 \in Nat /\ s * MN[n] \in Nat /\ (s + 1) * MN[n] \in Nat
  BY <1>1, Times
<1>3. /\ Shard(n, e) < s <=> Row[n][e] < s * MN[n]
      /\ Shard(n, e) < s + 1 <=> Row[n][e] < (s + 1) * MN[n]
  BY <1>1, <1>2, Division, Zenon DEF Shard
<1>4. Shard(n, e) \in Nat
  BY ShardType
<1>5. Row[n][e] < RowHi(n, s) <=> Row[n][e] < (s + 1) * MN[n]
  BY <1>1, <1>2 DEF RowHi
<1>6. RowLo(n, s) = s * MN[n]
  BY DEF RowLo
<1> QED BY <1>1, <1>2, <1>3, <1>4, <1>5, <1>6

LEMMA LeftOwned ==
  ASSUME IInv, stage = "kernel", NEW t \in Thread, Server(t), NEW e \in Left(t)
  PROVE  OwnerOf(mode, e) = t
<1>1. /\ mode \in Mode /\ Grouped(copy[mode], mode) /\ e \in Elem
      /\ row[t] \in Nat /\ rowEnd[t] \in Nat /\ ip[t] \in Nat /\ ends[t] \in Nat
  BY ServingFacts DEF Left
<1>2. Row[mode][e] \in Nat
  BY <1>1, TensorAssumption
<1>3. CASE Shard(mode, e) \in pending[t]
  BY <1>3 DEF Server, OwnerOf
<1>4. CASE UseCsr /\ row[t] =< Row[mode][e] /\ Row[mode][e] < rowEnd[t]
  <2>1. Busy(t)
    BY <1>1, <1>2, <1>4 DEF Busy
  <2>2. PICK s \in Shards(mode) :
          Owner[mode][s] = t /\ RowLo(mode, s) =< row[t] /\ rowEnd[t] = RowHi(mode, s)
    BY <1>4, <2>1 DEF Server, Inside
  <2>3. RowLo(mode, s) \in Nat
    BY <1>1, RowBounds
  <2>4. Shard(mode, e) = s
    BY <1>1, <1>2, <1>4, <2>2, <2>3, RowsOfShard
  <2> QED
    BY <2>2, <2>4 DEF OwnerOf
<1>5. CASE ~ UseCsr /\ \E k \in ip[t] .. ends[t] - 1 : copy[mode][k] = e
  <2>1. PICK k \in ip[t] .. ends[t] - 1 : copy[mode][k] = e
    BY <1>5
  <2>2. Busy(t)
    BY <1>1, <1>5, <2>1 DEF Busy
  <2>3. PICK s \in Shards(mode) :
          Owner[mode][s] = t /\ ShardBegin(mode, s) =< ip[t] /\ ends[t] = ShardEnd(mode, s)
    BY <1>5, <2>2 DEF Server, Inside
  <2>4. k \in ShardRange(mode, s)
    BY <1>1, <2>1, <2>3, RangeOrder DEF ShardRange
  <2>5. Shard(mode, e) = s
    BY <1>1, <2>1, <2>4, GroupedFacts
  <2> QED
    BY <2>3, <2>5 DEF OwnerOf
<1> QED
  BY <1>3, <1>4, <1>5 DEF Left

\* The run in a thread's registers: nonzeros of one row that it has left.
LEMMA RunFacts ==
  ASSUME IInv, stage = "kernel", NEW t \in Thread, Server(t), at[t] = "run"
  PROVE  /\ ip[t] \in Nat /\ stop[t] \in Nat /\ ip[t] < stop[t] /\ RunSlots(t) \subseteq Slot
         /\ ip[t] \in RunSlots(t)
         /\ HeldRow(t) \in Rows(mode)
         /\ \A d \in RunSlots(t) :
              /\ copy[mode][d] \in Left(t)
              /\ Row[mode][copy[mode][d]] = HeldRow(t)
<1>1. /\ mode \in Mode /\ Grouped(copy[mode], mode) /\ nnz \in Nat /\ Slot = 0 .. nnz - 1
      /\ row[t] \in Nat /\ rowEnd[t] \in Nat /\ ip[t] \in Nat /\ ends[t] \in Nat
      /\ stop[t] \in Nat /\ ends[t] =< nnz /\ ModeSize[mode] \in Nat
  BY ServingFacts
<1>2. /\ Busy(t) /\ ip[t] < stop[t] /\ stop[t] =< ends[t]
      /\ \A d \in RunSlots(t) : Row[mode][copy[mode][d]] = HeldRow(t)
  BY DEF Server
<1>3. RunSlots(t) \subseteq Slot /\ ip[t] \in RunSlots(t)
  BY <1>1, <1>2 DEF RunSlots
<1>4. ASSUME NEW d \in RunSlots(t)
      PROVE  /\ copy[mode][d] \in Elem /\ Row[mode][copy[mode][d]] \in Nat
             /\ Row[mode][copy[mode][d]] < ModeSize[mode]
  <2>1. copy[mode][d] \in Elem
    BY <1>1, <1>3, GroupedFacts
  <2> QED
    BY <1>1, <2>1, TensorAssumption
<1>5. HeldRow(t) \in Rows(mode)
  BY <1>1, <1>2, <1>3, <1>4 DEF Rows
<1>6. ASSUME NEW d \in RunSlots(t) PROVE copy[mode][d] \in Left(t)
  <2>1. CASE UseCsr
    <3>1. Row[mode][copy[mode][d]] = row[t] /\ row[t] < rowEnd[t]
      BY <1>2, <2>1 DEF HeldRow, Busy
    <3> QED
      BY <1>1, <1>4, <2>1, <3>1 DEF Left
  <2>2. CASE ~ UseCsr
    <3>1. d \in ip[t] .. ends[t] - 1
      BY <1>1, <1>2 DEF RunSlots
    <3> QED
      BY <1>4, <2>2, <3>1 DEF Left
  <2> QED
    BY <2>1, <2>2
<1> QED
  BY <1>1, <1>2, <1>3, <1>5, <1>6

\* No two threads hold one output row.
LEMMA RowsApart ==
  ASSUME IInv, stage = "kernel", NEW t \in Thread, NEW u \in Thread,
         Server(t), Server(u), at[t] = "run", at[u] = "run", HeldRow(t) = HeldRow(u)
  PROVE  t = u
<1> DEFINE d == copy[mode][ip[t]]
           e == copy[mode][ip[u]]
<1>1. d \in Left(t) /\ e \in Left(u) /\ Row[mode][d] = Row[mode][e]
  BY RunFacts
<1>2. OwnerOf(mode, d) = t /\ OwnerOf(mode, e) = u
  <2> HIDE DEF d, e
  <2> QED
    BY <1>1, LeftOwned
<1> QED
  BY <1>1, <1>2 DEF OwnerOf, Shard

\* A step of thread t in the kernel, for the others.
LEMMA ServeFrame ==
  ASSUME stage = "kernel", NEW t \in Thread, ServerInv, OrderedInv,
         UNCHANGED <<stage, mode, copy, sorted, csr>>,
         \A u \in Thread : u # t =>
           /\ pending'[u] = pending[u] /\ at'[u] = at[u] /\ ip'[u] = ip[u]
           /\ ends'[u] = ends[u] /\ row'[u] = row[u] /\ rowEnd'[u] = rowEnd[u]
           /\ stop'[u] = stop[u] /\ acc'[u] = acc[u],
         \A u \in Thread : u # t /\ at[u] = "run" =>
           yhat'[mode][HeldRow(u)] = yhat[mode][HeldRow(u)],
         Server(t)'
  PROVE  /\ ServerInv' /\ OrderedInv'
         /\ UseCsr' = UseCsr
         /\ \A u \in Thread : u # t => Left(u)' = Left(u)
<1>1. (UseCsr' <=> UseCsr) /\ UseCsr' = UseCsr
  BY DEF UseCsr, UseFiber
<1>2. ASSUME NEW u \in Thread, u # t PROVE Server(u)' /\ Left(u)' = Left(u)
  <2>1. /\ pending'[u] = pending[u] /\ at'[u] = at[u] /\ ip'[u] = ip[u]
        /\ ends'[u] = ends[u] /\ row'[u] = row[u] /\ rowEnd'[u] = rowEnd[u]
        /\ stop'[u] = stop[u] /\ acc'[u] = acc[u]
    BY <1>2
  <2>2. Left(u)' = Left(u)
    BY <1>1, <2>1 DEF Left
  <2>3. (Busy(u)' <=> Busy(u)) /\ RunSlots(u)' = RunSlots(u) /\ HeldRow(u)' = HeldRow(u)
    BY <1>1, <2>1 DEF Busy, RunSlots, HeldRow
  <2>4. \A s \in Shards(mode) : Inside(u, s)' <=> Inside(u, s)
    BY <1>1, <2>1 DEF Inside
  <2>5. Server(u)
    BY <1>2 DEF ServerInv
  <2>6. at[u] = "run" => yhat'[mode][HeldRow(u)] = yhat[mode][HeldRow(u)]
    BY <1>2
  <2>7. Server(u)'
    BY <1>1, <2>1, <2>3, <2>4, <2>5, <2>6 DEF Server
  <2> QED
    BY <2>2, <2>7
<1>3. ServerInv'
  BY <1>2 DEF ServerInv
<1>4. OrderedInv'
  BY DEF OrderedInv
<1> QED
  BY <1>1, <1>2, <1>3, <1>4

\* A step that adds nothing.
LEMMA OutputKept ==
  ASSUME OutputInv, mode' = mode, stage = "kernel", stage' = "kernel", yhat' = yhat,
         \A u \in Thread : Left(u)' = Left(u), mode \in Mode
  PROVE  OutputInv'
<1>1. \A e \in Elem : OwnerOf(mode, e) \in Thread
  BY ShardType, OwnerAssumption DEF OwnerOf
<1>2. \A e \in Elem : Left(OwnerOf(mode, e))' = Left(OwnerOf(mode, e))
  BY <1>1
<1> QED
  BY <1>2 DEF OutputInv


-----------------------------------------------------------------------------
(* process(mode): its steps. *)

LEMMA CallServe ==
  ASSUME IInv, ServeInv, Call PROVE ServeInv'
<1>1. /\ stage = "idle" /\ stage' = "kernel" /\ yhat' = Zeroed /\ pending' = Lists(mode)
      /\ UNCHANGED <<env, mode, copy, tmp, rowptr, sorted, csr, todo, off, ip, ends, row, rowEnd,
                     at, stop, acc>>
  BY DEF Call, tables
<1>2. TypeOK /\ mode \in Mode /\ Grouped(copy[mode], mode)
  <2>1. TypeOK /\ mode \in Mode
    BY DEF IInv, CopiesReady, TypeOK
  <2> QED
    BY <1>1, <2>1 DEF IInv, CopiesReady, CopiesGrouped
<1>3. OrderedInv'
  BY <1>1 DEF ServeInv, OrderedInv
<1>4. ASSUME NEW t \in Thread
      PROVE  /\ at[t] = "row" /\ ip[t] = ends[t] /\ row[t] = rowEnd[t]
             /\ ip[t] \in Nat /\ row[t] \in Nat
             /\ \A s \in Lists(mode)[t] : Owner[mode][s] = t
  BY <1>1, <1>2, ListsType DEF IInv, QuietInv, Finished, TypeOK
<1>5. ServerInv'
  <2>1. ASSUME NEW t \in Thread PROVE Server(t)'
    <3>1. ~ Busy(t)'
      BY <1>1, <1>4 DEF Busy
    <3> QED
      BY <1>1, <1>4, <3>1 DEF Server
  <2> QED
    BY <2>1 DEF ServerInv
<1>6. DOMAIN yhat = Mode /\ \A n \in Mode : yhat[n] \in [Rows(n) -> [Elem -> Nat]]
  BY DEF IInv, KernelInv
<1>7. /\ \A n \in Mode : n # mode => yhat'[n] = yhat[n]
      /\ \A r \in Rows(mode) :
           yhat'[mode][r] = IF r \in ZeroedRows(mode) THEN Nothing ELSE yhat[mode][r]
  BY <1>1, <1>2, <1>6 DEF Zeroed
<1>8. ASSUME NEW n \in Mode, NEW r \in Rows(n), NEW e \in Elem, Row[n][e] # r
      PROVE  yhat'[n][r][e] = 0
  <2>1. yhat[n][r][e] = 0
    BY <1>8 DEF ServeInv, OutputInv
  <2> QED
    BY <1>7, <2>1 DEF Nothing
<1>9. ASSUME NEW e \in Elem
      PROVE  /\ yhat'[mode][Row[mode][e]][e] = 0
             /\ OwnerOf(mode, e) \in Thread
             /\ \A t \in Thread : t = OwnerOf(mode, e) => e \in Left(t)'
  <2>1. Row[mode][e] \in Rows(mode)
    BY <1>2, TensorAssumption DEF Rows
  <2>2. Row[mode][e] \in ZeroedRows(mode)
    BY <2>1 DEF ZeroedRows, Touched
  <2>3. yhat'[mode][Row[mode][e]] = Nothing
    BY <1>7, <2>1, <2>2
  <2> DEFINE s == Shard(mode, e)
  <2>4. s \in Shards(mode) /\ ShardRange(mode, s) # {}
    <3>1. PICK d \in Slot : copy[mode][d] = e
      BY <1>2, GroupedFacts
    <3> QED
      BY <1>2, <3>1, GroupedFacts
  <2>5. OwnerOf(mode, e) \in Thread
    BY <1>2, <2>4, OwnerAssumption DEF OwnerOf
  <2>6. ASSUME NEW t \in Thread, t = OwnerOf(mode, e) PROVE e \in Left(t)'
    <3>1. s \in Lists(mode)[t]
      BY <2>4, <2>6 DEF Lists, ThreadShards, OwnerOf
    <3>2. Shard(mode', e) \in pending'[t]
      BY <1>1, <3>1
    <3> QED
      BY <3>2 DEF Left
  <2> QED
    BY <2>3, <2>5, <2>6 DEF Nothing
<1>10. OutputInv'
  <2>1. ASSUME NEW e \in Elem PROVE e \in Left(OwnerOf(mode, e))'
    <3>1. PICK t \in Thread : t = OwnerOf(mode, e)
      BY <1>9
    <3>2. e \in Left(t)' /\ t = OwnerOf(mode', e)
      BY <1>1, <1>9, <3>1
    <3> QED
      BY <3>2
  <2>2. \A e \in Elem : yhat'[mode'][Row[mode'][e]][e] = 0
    BY <1>1, <1>9
  <2>3. \A n \in Mode : \A r \in Rows(n) : \A e \in Elem : Row[n][e] # r => yhat'[n][r][e] = 0
    BY <1>8
  <2> QED
    BY <2>1, <2>2, <2>3 DEF OutputInv
<1> QED
  BY <1>3, <1>5, <1>10 DEF ServeInv

LEMMA TakeShardServe ==
  ASSUME IInv, ServeInv, NEW t \in Thread, TakeShard(t) PROVE ServeInv'
<1>1. PICK s \in pending[t] :
        /\ pending' = [pending EXCEPT ![t] = @ \ {s}]
        /\ IF UseCsr
           THEN /\ row' = [row EXCEPT ![t] = RowLo(mode, s)]
                /\ rowEnd' = [rowEnd EXCEPT ![t] = RowHi(mode, s)]
                /\ UNCHANGED <<ip, ends>>
           ELSE /\ ip' = [ip EXCEPT ![t] = ShardBegin(mode, s)]
                /\ ends' = [ends EXCEPT ![t] = ShardEnd(mode, s)]
                /\ UNCHANGED <<row, rowEnd>>
  BY DEF TakeShard
<1>2. /\ stage = "kernel" /\ at[t] = "row" /\ ip[t] = ends[t] /\ row[t] = rowEnd[t]
      /\ UNCHANGED <<env, stage, mode, copy, tmp, rowptr, sorted, csr, todo, off, at, stop, acc, yhat>>
  BY DEF TakeShard, tables
<1>3. /\ TypeOK /\ mode \in Mode /\ s \in Shards(mode) /\ Grouped(copy[mode], mode)
      /\ ip[t] \in Nat /\ row[t] \in Nat
  BY <1>2, ServingFacts
<1>4. Server(t)
  BY <1>2 DEF ServeInv, ServerInv
<1>5. /\ pending'[t] = pending[t] \ {s}
      /\ \A u \in Thread : u # t => pending'[u] = pending[u]
  BY <1>1, <1>3 DEF TypeOK
<1>6. UseCsr' <=> UseCsr
  BY <1>2 DEF UseCsr, UseFiber
<1>7. IF UseCsr
      THEN row'[t] = RowLo(mode, s) /\ rowEnd'[t] = RowHi(mode, s) /\ ip' = ip /\ ends' = ends
      ELSE ip'[t] = ShardBegin(mode, s) /\ ends'[t] = ShardEnd(mode, s) /\ row' = row /\ rowEnd' = rowEnd
  BY <1>1, <1>3 DEF TypeOK
<1>8. \A u \in Thread : u # t =>
        row'[u] = row[u] /\ rowEnd'[u] = rowEnd[u] /\ ip'[u] = ip[u] /\ ends'[u] = ends[u]
  BY <1>1, <1>3 DEF TypeOK
<1>9. Server(t)'
  <2>1. Inside(t, s)'
    <3>1. s \in Shards(mode) \ pending'[t] /\ Owner[mode][s] = t
      BY <1>3, <1>4, <1>5 DEF Server
    <3>2. CASE UseCsr
      <4>1. RowLo(mode, s) =< RowLo(mode, s)
        BY <1>3, RowBounds
      <4> QED
        BY <1>2, <1>6, <1>7, <3>1, <3>2, <4>1 DEF Inside
    <3>3. CASE ~ UseCsr
      <4>1. ShardBegin(mode, s) =< ShardBegin(mode, s)
        BY <1>3, RangeOrder
      <4> QED
        BY <1>2, <1>6, <1>7, <3>1, <3>3, <4>1 DEF Inside
    <3> QED
      BY <3>2, <3>3
  <2> QED
    BY <1>2, <1>3, <1>4, <1>5, <2>1 DEF Server
<1>10. Left(t)' = Left(t)
  <2>1. ASSUME NEW e \in Elem
        PROVE  IF UseCsr
               THEN row'[t] =< Row[mode][e] /\ Row[mode][e] < rowEnd'[t] <=> Shard(mode, e) = s
               ELSE (\E k \in ip'[t] .. ends'[t] - 1 : copy[mode][k] = e) <=> Shard(mode, e) = s
    <3>1. CASE UseCsr
      BY <1>3, <1>7, <3>1, RowsOfShard
    <3>2. CASE ~ UseCsr
      <4>1. ip'[t] .. ends'[t] - 1 = ShardRange(mode, s)
        BY <1>7, <3>2 DEF ShardRange
      <4>2. ASSUME NEW k \in ShardRange(mode, s), copy[mode][k] = e PROVE Shard(mode, e) = s
        BY <1>3, <4>2, GroupedFacts
      <4>3. ASSUME Shard(mode, e) = s PROVE \E k \in ShardRange(mode, s) : copy[mode][k] = e
        BY <1>3, <4>3, GroupedFacts
      <4> QED
        BY <3>2, <4>1, <4>2, <4>3
    <3> QED
      BY <3>1, <3>2
  <2>2. ASSUME NEW e \in Elem
        PROVE  /\ ~ (row[t] =< Row[mode][e] /\ Row[mode][e] < rowEnd[t])
               /\ ~ \E k \in ip[t] .. ends[t] - 1 : copy[mode][k] = e
    BY <1>2, <1>3, TensorAssumption
  <2>3. ASSUME NEW e \in Elem PROVE e \in Left(t)' <=> e \in Left(t)
    <3>1. e \in Left(t) <=> Shard(mode, e) \in pending[t]
      BY <2>2 DEF Left
    <3>2. e \in Left(t)' <=> Shard(mode, e) \in pending'[t] \/ Shard(mode, e) = s
      BY <1>2, <1>6, <2>1 DEF Left
    <3> QED
      BY <1>5, <3>1, <3>2
  <2> QED
    BY <2>3 DEF Left
<1>11. ServerInv' /\ OrderedInv' /\ \A u \in Thread : u # t => Left(u)' = Left(u)
  BY <1>2, <1>5, <1>8, <1>9, ServeFrame DEF ServeInv
<1>12. OutputInv'
  BY <1>2, <1>3, <1>10, <1>11, OutputKept DEF ServeInv
<1> QED
  BY <1>11, <1>12 DEF ServeInv

LEMMA PointedRow ==
  ASSUME IInv, OrderedInv, stage = "kernel", NEW t \in Thread, UseCsr, row[t] < rowEnd[t]
  PROVE  LET i == rowptr[mode][row[t]]
             j == rowptr[mode][row[t] + 1]
         IN  /\ i = Below(mode, row[t]) /\ j = Below(mode, row[t] + 1)
             /\ i \in Nat /\ j \in Nat /\ i =< j /\ j =< nnz
             /\ row[t] \in Rows(mode)
             /\ \A d \in Slot : Row[mode][copy[mode][d]] = row[t] <=> i =< d /\ d < j
<1> DEFINE q == row[t] + 1
<1>1. /\ mode \in Mode /\ mode \in csr /\ row[t] \in Nat /\ rowEnd[t] \in Nat
      /\ rowEnd[t] =< ModeSize[mode] /\ ModeSize[mode] \in Nat
      /\ Grouped(copy[mode], mode)
  BY ServingFacts DEF UseCsr
<1>2. /\ row[t] \in 0 .. ModeSize[mode] /\ q \in 0 .. ModeSize[mode]
      /\ row[t] \in Rows(mode) /\ q \in Nat /\ row[t] =< q
  BY <1>1 DEF Rows
<1>3. rowptr[mode][row[t]] = Below(mode, row[t]) /\ rowptr[mode][q] = Below(mode, q)
  BY <1>1, <1>2 DEF IInv, CopiesReady, RowPtrExact, Below
<1>4. /\ Below(mode, row[t]) \in Nat /\ Below(mode, q) \in Nat
      /\ Below(mode, row[t]) =< Below(mode, q) /\ Below(mode, q) =< nnz
  BY <1>1, <1>2, BelowType
<1>5. InOrder(copy[mode], mode)
  BY <1>1 DEF OrderedInv
<1>6. ASSUME NEW d \in Slot
      PROVE  Row[mode][copy[mode][d]] = row[t] <=> Below(mode, row[t]) =< d /\ d < Below(mode, q)
  <2>1. /\ Row[mode][copy[mode][d]] < row[t] <=> d < Below(mode, row[t])
        /\ Row[mode][copy[mode][d]] < q <=> d < Below(mode, q)
    BY <1>1, <1>2, <1>5, BelowSlots
  <2>2. Row[mode][copy[mode][d]] \in Nat /\ d \in Nat
    BY <1>1, GroupedFacts, TensorAssumption, SlotFacts
  <2> HIDE DEF q
  <2>3. Row[mode][copy[mode][d]] < q <=> Row[mode][copy[mode][d]] =< row[t]
    BY <1>1, <2>2 DEF q
  <2> QED
    BY <1>1, <1>4, <2>1, <2>2, <2>3
<1> QED
  BY <1>2, <1>3, <1>4, <1>6


LEMMA SkipRowServe ==
  ASSUME IInv, ServeInv, NEW t \in Thread, SkipRow(t) PROVE ServeInv'
<1>1. /\ stage = "kernel" /\ UseCsr /\ at[t] = "row" /\ row[t] < rowEnd[t]
      /\ rowptr[mode][row[t]] = rowptr[mode][row[t] + 1]
      /\ row' = [row EXCEPT ![t] = row[t] + 1]
      /\ UNCHANGED <<env, stage, mode, copy, tmp, rowptr, sorted, csr, todo,
                     pending, off, ip, ends, rowEnd, at, stop, acc, yhat>>
  BY DEF SkipRow, tables
<1>2. /\ TypeOK /\ mode \in Mode /\ Grouped(copy[mode], mode)
      /\ row[t] \in Nat /\ rowEnd[t] \in Nat
  BY <1>1, ServingFacts
<1>3. row'[t] = row[t] + 1 /\ \A u \in Thread : u # t => row'[u] = row[u]
  BY <1>1, <1>2 DEF TypeOK
<1>4. Server(t) /\ OrderedInv
  BY <1>1 DEF ServeInv, ServerInv
<1>5. UseCsr'
  BY <1>1 DEF UseCsr, UseFiber
<1>6. ASSUME NEW e \in Elem PROVE Row[mode][e] # row[t]
  <2>1. PICK d \in Slot : copy[mode][d] = e
    BY <1>2, GroupedFacts
  <2>2. LET i == rowptr[mode][row[t]] IN
        i \in Nat /\ (Row[mode][copy[mode][d]] = row[t] <=> i =< d /\ d < i)
    BY <1>1, <1>4, PointedRow
  <2>3. d \in Nat
    BY SlotFacts
  <2> QED
    BY <2>1, <2>2, <2>3
<1>7. Left(t)' = Left(t)
  <2>1. ASSUME NEW e \in Elem PROVE row[t] + 1 =< Row[mode][e] <=> row[t] =< Row[mode][e]
    <3>1. Row[mode][e] \in Nat
      BY <1>2, TensorAssumption
    <3> QED
      BY <1>2, <1>6, <3>1
  <2> QED
    BY <1>1, <1>3, <1>5, <2>1 DEF Left
<1>8. Server(t)'
  <2>1. ASSUME Busy(t)' PROVE \E s \in Shards(mode) : Inside(t, s)'
    <3>1. PICK s \in Shards(mode) : Inside(t, s)
      BY <1>1, <1>4 DEF Server, Busy
    <3>2. RowLo(mode, s) \in Nat
      BY <1>2, RowBounds
    <3>3. RowLo(mode, s) =< row'[t]
      BY <1>1, <1>2, <1>3, <3>1, <3>2 DEF Inside
    <3>4. Inside(t, s)'
      BY <1>1, <1>5, <3>1, <3>3 DEF Inside
    <3> QED
      BY <3>4
  <2> QED
    BY <1>1, <1>4, <2>1 DEF Server
<1>9. ServerInv' /\ OrderedInv' /\ \A u \in Thread : u # t => Left(u)' = Left(u)
  BY <1>1, <1>3, <1>8, ServeFrame DEF ServeInv
<1>10. OutputInv'
  BY <1>1, <1>2, <1>7, <1>9, OutputKept DEF ServeInv
<1> QED
  BY <1>9, <1>10 DEF ServeInv

LEMMA LoadCsrRowServe ==
  ASSUME IInv, ServeInv, NEW t \in Thread, LoadCsrRow(t) PROVE ServeInv'
<1> DEFINE i == rowptr[mode][row[t]]
           j == rowptr[mode][row[t] + 1]
<1>1. /\ stage = "kernel" /\ UseCsr /\ at[t] = "row" /\ row[t] < rowEnd[t] /\ i # j
      /\ ip' = [ip EXCEPT ![t] = i] /\ stop' = [stop EXCEPT ![t] = j]
      /\ ends' = [ends EXCEPT ![t] = j]
      /\ acc' = [acc EXCEPT ![t] = yhat[mode][row[t]]]
      /\ at' = [at EXCEPT ![t] = "run"]
      /\ UNCHANGED <<env, stage, mode, copy, tmp, rowptr, sorted, csr, todo, pending, off, row, rowEnd, yhat>>
  BY DEF LoadCsrRow, tables
<1>2. /\ TypeOK /\ mode \in Mode /\ nnz \in Nat /\ Slot = 0 .. nnz - 1
      /\ row[t] \in Nat /\ rowEnd[t] \in Nat
  BY <1>1, ServingFacts
<1>3. Server(t) /\ OrderedInv
  BY <1>1 DEF ServeInv, ServerInv
<1>4. /\ i = Below(mode, row[t]) /\ j = Below(mode, row[t] + 1)
      /\ i \in Nat /\ j \in Nat /\ i =< j /\ j =< nnz
      /\ \A d \in Slot : Row[mode][copy[mode][d]] = row[t] <=> i =< d /\ d < j
  BY <1>1, <1>3, PointedRow
<1> HIDE DEF i, j
<1>5. /\ ip'[t] = i /\ stop'[t] = j /\ ends'[t] = j /\ acc'[t] = yhat[mode][row[t]] /\ at'[t] = "run"
      /\ \A u \in Thread : u # t => /\ ip'[u] = ip[u] /\ stop'[u] = stop[u] /\ ends'[u] = ends[u]
                                    /\ acc'[u] = acc[u] /\ at'[u] = at[u]
  BY <1>1, <1>2 DEF TypeOK
<1>6. UseCsr'
  BY <1>1 DEF UseCsr, UseFiber
<1>7. Left(t)' = Left(t)
  BY <1>1, <1>6 DEF Left
<1>8. Server(t)'
  <2>1. Busy(t)' /\ Busy(t)
    BY <1>1, <1>6 DEF Busy
  <2>2. PICK s \in Shards(mode) : Inside(t, s)
    BY <1>3, <2>1 DEF Server
  <2>3. Inside(t, s)'
    BY <1>1, <1>6, <2>2 DEF Inside
  <2>4. HeldRow(t)' = row[t]
    BY <1>1, <1>6 DEF HeldRow
  <2>5. ASSUME NEW d \in RunSlots(t)' PROVE Row[mode][copy[mode][d]] = row[t]
    <3>1. d \in i .. j - 1
      BY <1>5 DEF RunSlots
    <3>2. d \in Slot /\ i =< d /\ d < j
      BY <1>2, <1>4, <3>1
    <3> QED
      BY <1>4, <3>2
  <2>6. ip'[t] < stop'[t] /\ stop'[t] =< ends'[t]
    BY <1>1, <1>4, <1>5
  <2>7. ip'[t] = Below(mode, row'[t]) /\ stop'[t] = Below(mode, row'[t] + 1)
    BY <1>1, <1>4, <1>5
  <2>8. acc'[t] = yhat'[mode'][HeldRow(t)']
    BY <1>1, <1>5, <2>4
  <2>9. \A d \in RunSlots(t)' : Row[mode'][copy'[mode'][d]] = HeldRow(t)'
    BY <1>1, <2>4, <2>5
  <2>10. \A u \in pending'[t] : Owner[mode'][u] = t
    BY <1>1, <1>3 DEF Server
  <2>11. Shards(mode') = Shards(mode) /\ at'[t] = "run"
    BY <1>1, <1>5
  <2>12. \A r \in Nat : Below(mode, r)' = Below(mode, r)
    BY <1>1 DEF Below
  <2> QED
    BY <1>1, <1>2, <2>1, <2>3, <2>6, <2>7, <2>8, <2>9, <2>10, <2>11, <2>12 DEF Server
<1>9. ServerInv' /\ OrderedInv' /\ \A u \in Thread : u # t => Left(u)' = Left(u)
  BY <1>1, <1>5, <1>8, ServeFrame DEF ServeInv
<1>10. OutputInv'
  BY <1>1, <1>2, <1>7, <1>9, OutputKept DEF ServeInv
<1> QED
  BY <1>9, <1>10 DEF ServeInv

LEMMA LoadRowServe ==
  ASSUME IInv, ServeInv, NEW t \in Thread, LoadRow(t) PROVE ServeInv'
<1>1. PICK j \in ip[t] + 1 .. ends[t] : RunEnd(t, j) /\ stop' = [stop EXCEPT ![t] = j]
  BY DEF LoadRow
<1> DEFINE r == Row[mode][copy[mode][ip[t]]]
<1>2. /\ stage = "kernel" /\ ~ UseCsr /\ at[t] = "row" /\ ip[t] < ends[t]
      /\ acc' = [acc EXCEPT ![t] = yhat[mode][r]]
      /\ at' = [at EXCEPT ![t] = "run"]
      /\ UNCHANGED <<env, stage, mode, copy, tmp, rowptr, sorted, csr, todo, pending, off, ip, ends,
                     row, rowEnd, yhat>>
  BY DEF LoadRow, tables
<1>3. /\ TypeOK /\ mode \in Mode /\ ip[t] \in Nat /\ ends[t] \in Nat
  BY <1>2, ServingFacts
<1>4. Server(t)
  BY <1>2 DEF ServeInv, ServerInv
<1>5. \A d \in ip[t] .. j - 1 : Row[mode][copy[mode][d]] = r
  <2>1. CASE UseFiber
    BY <1>1, <2>1 DEF RunEnd
  <2>2. CASE ~ UseFiber
    <3>1. j = ip[t] + 1
      BY <1>1, <2>2 DEF RunEnd
    <3>2. \A d \in ip[t] .. j - 1 : d = ip[t]
      BY <1>3, <3>1
    <3> QED
      BY <3>2
  <2> QED
    BY <2>1, <2>2
<1>6. /\ stop'[t] = j /\ acc'[t] = yhat[mode][r] /\ at'[t] = "run"
      /\ \A u \in Thread : u # t => stop'[u] = stop[u] /\ acc'[u] = acc[u] /\ at'[u] = at[u]
  BY <1>1, <1>2, <1>3 DEF TypeOK
<1>7. (UseCsr' <=> UseCsr) /\ ~ UseCsr'
  BY <1>2 DEF UseCsr, UseFiber
<1>8. Left(t)' = Left(t)
  BY <1>2, <1>7 DEF Left
<1>9. Server(t)'
  <2>1. Busy(t)' /\ Busy(t)
    BY <1>2, <1>7 DEF Busy
  <2>2. PICK s \in Shards(mode) : Inside(t, s)
    BY <1>4, <2>1 DEF Server
  <2>3. Inside(t, s)'
    BY <1>2, <1>7, <2>2 DEF Inside
  <2>4. HeldRow(t)' = r
    BY <1>2, <1>7 DEF HeldRow
  <2>5. \A d \in RunSlots(t)' : Row[mode'][copy'[mode'][d]] = HeldRow(t)'
    BY <1>2, <1>5, <1>6, <2>4 DEF RunSlots
  <2>6. ip'[t] < stop'[t] /\ stop'[t] =< ends'[t]
    BY <1>1, <1>2, <1>3, <1>6
  <2>7. acc'[t] = yhat'[mode'][HeldRow(t)']
    BY <1>2, <1>6, <2>4
  <2>8. \A u \in pending'[t] : Owner[mode'][u] = t
    BY <1>2, <1>4 DEF Server
  <2>9. Shards(mode') = Shards(mode)
    BY <1>2
  <2> QED
    BY <1>6, <1>7, <2>1, <2>3, <2>5, <2>6, <2>7, <2>8, <2>9 DEF Server
<1>10. ServerInv' /\ OrderedInv' /\ \A u \in Thread : u # t => Left(u)' = Left(u)
  BY <1>2, <1>6, <1>9, ServeFrame DEF ServeInv
<1>11. OutputInv'
  BY <1>2, <1>3, <1>8, <1>10, OutputKept DEF ServeInv
<1> QED
  BY <1>10, <1>11 DEF ServeInv


\* What StoreRow writes: the nonzeros of the run are in their row now.
LEMMA RunSum ==
  ASSUME IInv, ServeInv, stage = "kernel", NEW t \in Thread, at[t] = "run", NEW e \in Elem
  PROVE  LET run == {copy[mode][d] : d \in RunSlots(t)}
         IN  Summed(t)[e] = IF e \in run THEN 1 ELSE yhat[mode][HeldRow(t)][e]
<1> DEFINE D == {d \in ip[t] .. stop[t] - 1 : copy[mode][d] = e}
<1>1. /\ mode \in Mode /\ Grouped(copy[mode], mode)
      /\ \A n \in Mode : yhat[n] \in [Rows(n) -> [Elem -> Nat]]
  BY ServingFacts
<1>2. Server(t)
  BY DEF ServeInv, ServerInv
<1>3. /\ RunSlots(t) \subseteq Slot /\ HeldRow(t) \in Rows(mode)
      /\ \A d \in RunSlots(t) : copy[mode][d] \in Left(t) /\ Row[mode][copy[mode][d]] = HeldRow(t)
  BY <1>2, RunFacts
<1>4. Summed(t)[e] = yhat[mode][HeldRow(t)][e] + Cardinality(D)
  BY <1>2 DEF Summed, Server
<1>5. yhat[mode][HeldRow(t)][e] \in Nat
  BY <1>1, <1>3
<1>6. CASE e \in {copy[mode][d] : d \in RunSlots(t)}
  <2>1. PICK d \in RunSlots(t) : copy[mode][d] = e
    BY <1>6
  <2>2. D = {d}
    <3>1. ASSUME NEW c \in D PROVE c = d
      <4>1. c \in Slot /\ d \in Slot /\ copy[mode][c] = copy[mode][d]
        BY <1>3, <2>1 DEF RunSlots
      <4> QED
        BY <1>1, <4>1, GroupedFacts
    <3>2. d \in D
      BY <2>1 DEF RunSlots
    <3> QED
      BY <3>1, <3>2
  <2>3. Cardinality(D) = 1
    BY <2>2, FS_Singleton
  <2>4. e \in Left(t) /\ Row[mode][e] = HeldRow(t)
    BY <1>3, <2>1
  <2>5. OwnerOf(mode, e) = t
    BY <1>2, <2>4, LeftOwned
  <2>6. yhat[mode][HeldRow(t)][e] = 0
    BY <2>4, <2>5 DEF ServeInv, OutputInv
  <2> QED
    BY <1>4, <1>6, <2>3, <2>6
<1>7. CASE e \notin {copy[mode][d] : d \in RunSlots(t)}
  <2>1. D = {}
    BY <1>7 DEF RunSlots
  <2>2. Cardinality(D) = 0
    BY <2>1, FS_EmptySet
  <2> QED
    BY <1>4, <1>5, <1>7, <2>2
<1> QED
  BY <1>6, <1>7

\* The shard a thread is in is not one it has still to begin.
LEMMA RunBegun ==
  ASSUME IInv, stage = "kernel", NEW t \in Thread, Server(t), at[t] = "run",
         NEW d \in RunSlots(t)
  PROVE  Shard(mode, copy[mode][d]) \notin pending[t]
<1>1. /\ mode \in Mode /\ Grouped(copy[mode], mode)
      /\ row[t] \in Nat /\ rowEnd[t] \in Nat /\ ip[t] \in Nat /\ ends[t] \in Nat /\ stop[t] \in Nat
  BY ServingFacts
<1>2. /\ Busy(t) /\ ip[t] < stop[t] /\ stop[t] =< ends[t]
      /\ Row[mode][copy[mode][d]] = HeldRow(t) /\ d \in Slot
  BY RunFacts DEF Server
<1>3. PICK s \in Shards(mode) : Inside(t, s)
  BY <1>2 DEF Server
<1>4. copy[mode][d] \in Elem
  BY <1>1, <1>2, GroupedFacts
<1>5. Shard(mode, copy[mode][d]) = s
  <2>1. CASE UseCsr
    <3>1. RowLo(mode, s) =< row[t] /\ row[t] < RowHi(mode, s) /\ Row[mode][copy[mode][d]] = row[t]
      BY <1>2, <1>3, <2>1 DEF Inside, Busy, HeldRow
    <3> QED
      BY <1>1, <1>4, <3>1, RowsOfShard
  <2>2. CASE ~ UseCsr
    <3>1. ShardBegin(mode, s) =< ip[t] /\ ends[t] = ShardEnd(mode, s) /\ ShardBegin(mode, s) \in Nat
      BY <1>1, <1>3, <2>2, RangeOrder DEF Inside
    <3>2. d \in ShardRange(mode, s)
      BY <1>1, <1>2, <3>1 DEF RunSlots, ShardRange
    <3> QED
      BY <1>1, <3>2, GroupedFacts
  <2> QED
    BY <2>1, <2>2
<1> QED
  BY <1>3, <1>5 DEF Inside

LEMMA StoreRowServe ==
  ASSUME IInv, ServeInv, NEW t \in Thread, StoreRow(t) PROVE ServeInv'
<1> DEFINE r == HeldRow(t)
           run == {copy[mode][d] : d \in RunSlots(t)}
<1>1. /\ stage = "kernel" /\ at[t] = "run"
      /\ yhat' = [yhat EXCEPT ![mode][r] = Summed(t)]
      /\ ip' = [ip EXCEPT ![t] = stop[t]]
      /\ row' = [row EXCEPT ![t] = IF UseCsr THEN row[t] + 1 ELSE row[t]]
      /\ at' = [at EXCEPT ![t] = "row"]
      /\ UNCHANGED <<env, stage, mode, copy, tmp, rowptr, sorted, csr, todo, pending, off, ends,
                     rowEnd, stop, acc>>
  BY DEF StoreRow, tables
<1>2. /\ TypeOK /\ mode \in Mode /\ Grouped(copy[mode], mode) /\ nnz \in Nat /\ Slot = 0 .. nnz - 1
      /\ ip[t] \in Nat /\ ends[t] \in Nat /\ stop[t] \in Nat /\ row[t] \in Nat /\ rowEnd[t] \in Nat
      /\ DOMAIN yhat = Mode /\ \A n \in Mode : yhat[n] \in [Rows(n) -> [Elem -> Nat]]
  BY <1>1, ServingFacts
<1>3. Server(t) /\ OrderedInv /\ \A u \in Thread : Server(u)
  BY <1>1 DEF ServeInv, ServerInv
<1>4. /\ ip[t] < stop[t] /\ RunSlots(t) \subseteq Slot /\ r \in Rows(mode)
      /\ \A d \in RunSlots(t) : copy[mode][d] \in Left(t) /\ Row[mode][copy[mode][d]] = r
  BY <1>1, <1>3, RunFacts
<1>5. \A e \in run : e \in Elem /\ Row[mode][e] = r /\ Shard(mode, e) \notin pending[t]
  BY <1>1, <1>3, <1>4, RunBegun DEF Left
<1>6. /\ \A n \in Mode : n # mode => yhat'[n] = yhat[n]
      /\ \A q \in Rows(mode) : q # r => yhat'[mode][q] = yhat[mode][q]
      /\ \A e \in Elem : yhat'[mode][r][e] = IF e \in run THEN 1 ELSE yhat[mode][r][e]
  <2>1. yhat'[mode] = [yhat[mode] EXCEPT ![r] = Summed(t)]
        /\ \A n \in Mode : n # mode => yhat'[n] = yhat[n]
    <3> HIDE DEF r
    <3> QED
      BY <1>1, <1>2
  <2>2. yhat'[mode][r] = Summed(t) /\ \A q \in Rows(mode) : q # r => yhat'[mode][q] = yhat[mode][q]
    <3> HIDE DEF r
    <3> QED
      BY <1>2, <1>4, <2>1
  <2>3. \A e \in Elem : Summed(t)[e] = IF e \in run THEN 1 ELSE yhat[mode][r][e]
    BY <1>1, RunSum
  <2> HIDE DEF r, run
  <2> QED
    BY <2>1, <2>2, <2>3
<1>7. /\ ip'[t] = stop[t] /\ at'[t] = "row" /\ row'[t] = IF UseCsr THEN row[t] + 1 ELSE row[t]
      /\ \A u \in Thread : u # t => ip'[u] = ip[u] /\ at'[u] = at[u] /\ row'[u] = row[u]
  BY <1>1, <1>2 DEF TypeOK
<1>8. UseCsr' <=> UseCsr
  BY <1>1 DEF UseCsr, UseFiber
<1> HIDE DEF r, run
<1>9. Left(t)' = Left(t) \ run
  <2>1. CASE UseCsr
    <3>1. rowptr[mode][row[t]] = ip[t] /\ rowptr[mode][row[t] + 1] = stop[t] /\ row[t] < rowEnd[t]
      <4>1. row[t] < rowEnd[t] /\ ip[t] = Below(mode, row[t]) /\ stop[t] = Below(mode, row[t] + 1)
        BY <1>1, <1>3, <2>1 DEF Server, Busy
      <4> QED
        BY <1>1, <1>3, <2>1, <4>1, PointedRow
    <3>2. ASSUME NEW e \in Elem PROVE Row[mode][e] = row[t] <=> e \in run
      <4>1. \A d \in Slot : Row[mode][copy[mode][d]] = row[t] <=> ip[t] =< d /\ d < stop[t]
        BY <1>1, <1>3, <2>1, <3>1, PointedRow
      <4>2. PICK d \in Slot : copy[mode][d] = e
        BY <1>2, CopyOnto
      <4>3. ASSUME Row[mode][e] = row[t] PROVE e \in run
        <5>1. d \in RunSlots(t)
          BY <1>2, <4>1, <4>2, <4>3 DEF RunSlots
        <5> QED
          BY <4>2, <5>1 DEF run
      <4>4. ASSUME e \in run PROVE Row[mode][e] = row[t]
        BY <1>5, <2>1, <4>4 DEF r, HeldRow
      <4> QED
        BY <4>3, <4>4
    <3>3. ASSUME NEW e \in Elem
          PROVE  row[t] + 1 =< Row[mode][e] <=> row[t] =< Row[mode][e] /\ e \notin run
      <4>1. Row[mode][e] \in Nat
        BY <1>2, TensorAssumption
      <4> QED
        BY <1>2, <3>2, <4>1
    <3> QED
      BY <1>1, <1>5, <1>7, <1>8, <2>1, <3>3 DEF Left
  <2>2. CASE ~ UseCsr
    <3>1. ASSUME NEW e \in Elem
          PROVE  (\E k \in stop[t] .. ends[t] - 1 : copy[mode][k] = e)
                   <=> (\E k \in ip[t] .. ends[t] - 1 : copy[mode][k] = e) /\ e \notin run
      <4>1. ends[t] =< nnz /\ stop[t] =< ends[t]
        BY <1>1, <1>3, ServingFacts DEF Server
      <4>2. ASSUME NEW k \in stop[t] .. ends[t] - 1, copy[mode][k] = e
            PROVE  k \in ip[t] .. ends[t] - 1 /\ e \notin run
        <5>1. k \in ip[t] .. ends[t] - 1 /\ k \in Slot
          BY <1>2, <1>4, <4>1
        <5>2. ASSUME NEW d \in RunSlots(t), copy[mode][d] = e PROVE FALSE
          <6>1. d = k
            <7>1. d \in Slot /\ k \in Slot /\ copy[mode][d] = copy[mode][k]
              BY <1>4, <4>2, <5>1, <5>2
            <7> QED
              BY <1>2, <7>1, GroupedFacts
          <6> QED
            BY <1>2, <6>1 DEF RunSlots
        <5> QED
          BY <5>1, <5>2 DEF run
      <4>3. ASSUME NEW k \in ip[t] .. ends[t] - 1, copy[mode][k] = e, e \notin run
            PROVE  k \in stop[t] .. ends[t] - 1
        <5>1. k \notin RunSlots(t)
          BY <4>3 DEF run
        <5> QED
          BY <1>2, <5>1 DEF RunSlots
      <4> QED
        BY <4>2, <4>3
    <3> QED
      BY <1>1, <1>5, <1>7, <1>8, <2>2, <3>1 DEF Left
  <2> QED
    BY <2>1, <2>2
<1>10. Server(t)'
  <2>1. ASSUME Busy(t)' PROVE \E s \in Shards(mode) : Inside(t, s)'
    <3>1. PICK s \in Shards(mode) : Inside(t, s)
      BY <1>1, <1>3 DEF Server
    <3>2. CASE UseCsr
      <4>1. RowLo(mode, s) \in Nat
        BY <1>2, RowBounds
      <4>2. RowLo(mode, s) =< row'[t]
        BY <1>2, <1>7, <3>1, <3>2, <4>1 DEF Inside
      <4> QED
        BY <1>1, <1>8, <3>1, <3>2, <4>2 DEF Inside
    <3>3. CASE ~ UseCsr
      <4>1. ShardBegin(mode, s) \in Nat
        BY <1>2, RangeOrder
      <4>2. ShardBegin(mode, s) =< ip'[t]
        BY <1>2, <1>4, <1>7, <3>1, <3>3, <4>1 DEF Inside
      <4> QED
        BY <1>1, <1>8, <3>1, <3>3, <4>2 DEF Inside
    <3> QED
      BY <3>2, <3>3
  <2> QED
    BY <1>1, <1>3, <1>7, <2>1 DEF Server
<1>11. ASSUME NEW u \in Thread, u # t, at[u] = "run"
       PROVE  yhat'[mode][HeldRow(u)] = yhat[mode][HeldRow(u)]
  <2>1. HeldRow(u) # r
    BY <1>1, <1>3, <1>11, RowsApart DEF r
  <2>2. HeldRow(u) \in Rows(mode)
    BY <1>1, <1>3, <1>11, RunFacts
  <2> QED
    BY <1>6, <2>1, <2>2
<1>12. ServerInv' /\ OrderedInv' /\ \A u \in Thread : u # t => Left(u)' = Left(u)
  BY <1>1, <1>7, <1>10, <1>11, ServeFrame DEF ServeInv
<1>13. ASSUME NEW n \in Mode, NEW q \in Rows(n), NEW e \in Elem, Row[n][e] # q
       PROVE  yhat'[n][q][e] = 0
  <2>1. yhat[n][q][e] = 0
    BY <1>13 DEF ServeInv, OutputInv
  <2>2. CASE n = mode /\ q = r
    BY <1>5, <1>6, <1>13, <2>1, <2>2
  <2>3. CASE n # mode \/ q # r
    BY <1>6, <2>1, <2>3
  <2> QED
    BY <2>2, <2>3
<1>14. ASSUME NEW e \in Elem, NEW u \in Thread, u = OwnerOf(mode, e)
       PROVE  yhat'[mode][Row[mode][e]][e] = IF e \in Left(u)' THEN 0 ELSE 1
  <2>1. yhat[mode][Row[mode][e]][e] = IF e \in Left(u) THEN 0 ELSE 1
    BY <1>1, <1>14 DEF ServeInv, OutputInv
  <2>2. Row[mode][e] \in Rows(mode)
    BY <1>2, TensorAssumption DEF Rows
  <2>3. CASE e \in run
    <3>1. e \in Left(t)
      BY <1>4, <2>3 DEF run
    <3>2. u = t
      BY <1>1, <1>3, <1>14, <3>1, LeftOwned
    <3> QED
      BY <1>5, <1>6, <1>9, <2>3, <3>2
  <2>4. CASE e \notin run
    <3>1. e \in Left(u)' <=> e \in Left(u)
      BY <1>9, <1>12, <2>4
    <3>2. yhat'[mode][Row[mode][e]][e] = yhat[mode][Row[mode][e]][e]
      BY <1>6, <2>2, <2>4
    <3> QED
      BY <2>1, <3>1, <3>2
  <2> QED
    BY <2>3, <2>4
<1>15. OutputInv'
  <2>1. ASSUME NEW e \in Elem
        PROVE  yhat'[mode'][Row[mode'][e]][e] = IF e \in Left(OwnerOf(mode, e))' THEN 0 ELSE 1
    <3>1. OwnerOf(mode, e) \in Thread
      BY <1>2, ShardType, OwnerAssumption DEF OwnerOf
    <3>2. PICK u \in Thread : u = OwnerOf(mode, e)
      BY <3>1
    <3>3. yhat'[mode][Row[mode][e]][e] = IF e \in Left(u)' THEN 0 ELSE 1
      BY <1>14, <3>2
    <3>4. u = OwnerOf(mode', e) /\ mode' = mode
      BY <1>1, <3>2
    <3> QED
      BY <3>3, <3>4
  <2>2. \A n \in Mode : \A q \in Rows(n) : \A e \in Elem : Row[n][e] # q => yhat'[n][q][e] = 0
    BY <1>13
  <2> QED
    BY <2>1, <2>2 DEF OutputInv
<1> QED
  BY <1>12, <1>15 DEF ServeInv


LEMMA ReturnServe ==
  ASSUME IInv, ServeInv, Return PROVE ServeInv'
<1>1. /\ stage = "kernel" /\ stage' = "idle"
      /\ UNCHANGED <<env, copy, tmp, rowptr, sorted, csr, todo, work, yhat>>
  BY DEF Return, tables
<1> QED
  BY <1>1 DEF ServeInv, OrderedInv, ServerInv, OutputInv

\* The steps of the build.
LEMMA BuildServe ==
  ASSUME IInv, ServeInv, stage \in {"remap", "sort", "stripe", "rowptr"}, stage' # "kernel",
         yhat' = yhat, OrderedInv'
  PROVE  ServeInv'
BY DEF ServeInv, ServerInv, OutputInv

LEMMA RemapServe ==
  ASSUME IInv, ServeInv, NEW t \in Thread, Remap(t) PROVE ServeInv'
<1>1. stage = "remap" /\ stage' = "remap" /\ csr' = csr /\ yhat' = yhat
  BY DEF Remap, TakeRemapShard, Move, tables
<1>2. OrderedInv'
  BY <1>1 DEF ServeInv, OrderedInv
<1> QED
  BY <1>1, <1>2, BuildServe

LEMMA RemapDoneServe ==
  ASSUME IInv, ServeInv, RemapDone PROVE ServeInv'
<1>1. stage = "remap" /\ csr' = {} /\ yhat' = yhat /\ csr = {}
  BY DEF ServeInv, OrderedInv, RemapDone, tables
<1>2. stage' \in {"remap", "sort", "idle"}
  BY <1>1, SortFromFacts DEF RemapDone
<1>3. OrderedInv'
  BY <1>1 DEF OrderedInv
<1> QED
  BY <1>1, <1>2, <1>3, BuildServe

LEMMA LoopServe ==
  ASSUME IInv, ServeInv, Loop PROVE ServeInv'
<1>1. stage \in {"sort", "stripe"} /\ UNCHANGED <<stage, mode, csr, yhat>>
  BY DEF Loop, SortShard, Stripe
<1>2. ASSUME NEW n \in csr PROVE copy'[n] = copy[n]
  <2>1. n < mode /\ n \in Nat /\ mode \in Nat
    <3>1. csr \subseteq Mode /\ mode \in Mode
      BY NcopyAssumption DEF IInv, CopiesReady, TypeOK
    <3> QED
      BY <1>1, <3>1 DEF ServeInv, OrderedInv, Mode
  <2>2. CASE \E s \in todo : SortShard(s)
    BY <2>2 DEF SortShard
  <2>3. CASE \E t \in todo : Stripe(t)
    BY <2>1, <2>3 DEF Stripe
  <2> QED
    BY <2>2, <2>3 DEF Loop
<1>3. OrderedInv'
  BY <1>1, <1>2 DEF ServeInv, OrderedInv, InOrder
<1> QED
  BY <1>1, <1>3, BuildServe

\* The next dense mode is a later one.
LEMMA SortFromOrdered ==
  ASSUME IInv, copy' = copy, SortFrom(mode + 1),
         \A n \in csr' : n \in Nat /\ n =< mode /\ InOrder(copy[n], n)
  PROVE  stage' \in {"sort", "idle"} /\ OrderedInv'
<1>1. mode \in Nat
  BY DEF IInv, CopiesReady, TypeOK, Mode
<1>2. /\ stage' \in {"sort", "idle"} /\ (stage' = "sort" => mode' >= mode + 1) /\ mode' \in Nat
  BY <1>1, SortFromFacts DEF Mode
<1> QED
  BY <1>1, <1>2 DEF OrderedInv, InOrder

LEMMA SettleServe ==
  ASSUME IInv, ServeInv, SortDone \/ StripesDone \/ RowPtrDone PROVE ServeInv'
<1>0. mode \in Nat /\ csr \subseteq Mode /\ mode \in Mode
  BY NcopyAssumption DEF IInv, CopiesReady, TypeOK, Mode
<1>1. ASSUME stage \in {"sort", "stripe", "rowptr"}
      PROVE  \A n \in csr : n =< mode /\ n \in Nat /\ InOrder(copy[n], n) /\ n < mode
  BY <1>0, <1>1 DEF ServeInv, OrderedInv, Mode
<1>2. CASE SortDone
  <2>1. /\ stage = "sort" /\ stage' = "stripe"
        /\ UNCHANGED <<mode, copy, csr, yhat>>
    BY <1>2 DEF SortDone, tables
  <2>2. OrderedInv'
    BY <1>1, <2>1 DEF OrderedInv, InOrder
  <2> QED
    BY <2>1, <2>2, BuildServe
<1>3. CASE StripesDone
  <2>1. /\ stage = "stripe" /\ UNCHANGED <<copy, csr, yhat>>
        /\ (stage' = "rowptr" /\ mode' = mode) \/ SortFrom(mode + 1)
    BY <1>3 DEF StripesDone
  <2>2. CASE stage' = "rowptr" /\ mode' = mode
    <3>1. OrderedInv'
      BY <1>1, <2>1, <2>2 DEF OrderedInv, InOrder
    <3> QED
      BY <2>1, <2>2, <3>1, BuildServe
  <2>3. CASE SortFrom(mode + 1)
    <3>1. stage' \in {"sort", "idle"} /\ OrderedInv'
      BY <1>1, <2>1, <2>3, SortFromOrdered
    <3> QED
      BY <2>1, <3>1, BuildServe
  <2> QED
    BY <2>1, <2>2, <2>3
<1>4. CASE RowPtrDone
  <2>1. /\ stage = "rowptr" /\ csr' = csr \cup {mode} /\ copy' = copy /\ yhat' = yhat
        /\ SortFrom(mode + 1)
    BY <1>4 DEF RowPtrDone
  <2>2. InOrder(copy[mode], mode)
    BY <2>1 DEF IInv, SortInv
  <2>3. \A n \in csr' : n \in Nat /\ n =< mode /\ InOrder(copy[n], n)
    BY <1>0, <1>1, <2>1, <2>2
  <2>4. stage' \in {"sort", "idle"} /\ OrderedInv'
    BY <2>1, <2>3, SortFromOrdered
  <2> QED
    BY <2>1, <2>4, BuildServe
<1> QED
  BY <1>2, <1>3, <1>4

LEMMA RowPtrServe ==
  ASSUME IInv, ServeInv, NEW t \in Thread, RowPtr(t) PROVE ServeInv'
<1>1. stage = "rowptr" /\ UNCHANGED <<stage, mode, copy, csr, yhat>>
  BY DEF RowPtr, TakeRowShard, WriteRowPtr, CloseRowPtr, tables
<1>2. OrderedInv'
  BY <1>1 DEF ServeInv, OrderedInv, InOrder
<1> QED
  BY <1>1, <1>2, BuildServe

LEMMA InitServe == Init => ServeInv
<1> SUFFICES ASSUME Init PROVE ServeInv
  OBVIOUS
<1>1. stage = "remap" /\ csr = {} /\ yhat = [n \in Mode |-> [r \in Rows(n) |-> Nothing]]
  BY DEF Init
<1>2. OutputInv
  BY <1>1 DEF OutputInv, Nothing
<1> QED
  BY <1>1, <1>2 DEF ServeInv, OrderedInv, ServerInv

LEMMA ServeStep == IInv /\ ServeInv /\ [Next]_vars => ServeInv'
<1> SUFFICES ASSUME IInv, ServeInv, [Next]_vars PROVE ServeInv'
  OBVIOUS
<1>1. CASE Call
  BY <1>1, CallServe
<1>2. CASE Loop
  BY <1>2, LoopServe
<1>3. CASE Driver
  BY <1>3, RemapDoneServe, SettleServe, ReturnServe DEF Driver
<1>4. ASSUME NEW t \in Thread, Remap(t) PROVE ServeInv'
  BY <1>4, RemapServe
<1>5. ASSUME NEW t \in Thread, RowPtr(t) PROVE ServeInv'
  BY <1>5, RowPtrServe
<1>6. ASSUME NEW t \in Thread, Kernel(t) PROVE ServeInv'
  BY <1>6, TakeShardServe, SkipRowServe, LoadCsrRowServe, LoadRowServe, StoreRowServe DEF Kernel
<1>7. CASE UNCHANGED vars
  <2>1. /\ UNCHANGED <<stage, mode, copy, sorted, csr, yhat, pending, at, ip, ends, row, rowEnd, stop, acc>>
    BY <1>7 DEF vars, tables, work
  <2>2. (UseCsr' <=> UseCsr) /\ \A u \in Thread : Left(u)' = Left(u)
    BY <2>1 DEF UseCsr, UseFiber, Left
  <2>3. ASSUME NEW u \in Thread PROVE Server(u)' <=> Server(u)
    BY <2>1, <2>2 DEF Server, Busy, Inside, HeldRow, RunSlots, Below
  <2>4. ServerInv' /\ OrderedInv'
    BY <2>1, <2>3 DEF ServeInv, ServerInv, OrderedInv, InOrder
  <2>5. OutputInv'
    <3>1. CASE stage = "kernel"
      <4>1. mode \in Mode
        BY DEF IInv, CopiesReady, TypeOK
      <4> QED
        BY <2>1, <2>2, <3>1, <4>1, OutputKept DEF ServeInv
    <3>2. CASE stage # "kernel"
      BY <2>1, <3>2 DEF ServeInv, OutputInv
    <3> QED
      BY <3>1, <3>2
  <2> QED
    BY <2>4, <2>5 DEF ServeInv
<1> QED
  BY <1>1, <1>2, <1>3, <1>4, <1>5, <1>6, <1>7 DEF Next


\* At the barrier every nonzero is in its row, once.
LEMMA ServedAll ==
  ASSUME IInv, ServeInv, Return PROVE OutOf(mode) = [e \in Elem |-> 1]
<1>1. stage = "kernel" /\ \A t \in Thread : Finished(t)
  BY DEF Return
<1>2. mode \in Mode
  BY DEF IInv, CopiesReady, TypeOK
<1>3. ASSUME NEW e \in Elem PROVE OutOf(mode)[e] = 1
  <2>1. OwnerOf(mode, e) \in Thread
    BY <1>2, ShardType, OwnerAssumption DEF OwnerOf
  <2>2. ASSUME NEW t \in Thread PROVE e \notin Left(t)
    <3>1. /\ ip[t] = ends[t] /\ row[t] = rowEnd[t] /\ pending[t] = {}
          /\ ip[t] \in Nat /\ row[t] \in Nat /\ Row[mode][e] \in Nat
      BY <1>1, <1>2, ServingFacts, TensorAssumption DEF Finished
    <3>2. ip[t] .. ends[t] - 1 = {} /\ ~ (row[t] =< Row[mode][e] /\ Row[mode][e] < rowEnd[t])
      BY <3>1
    <3> QED
      BY <3>1, <3>2 DEF Left
  <2>3. yhat[mode][Row[mode][e]][e] = 1
    BY <1>1, <2>1, <2>2 DEF ServeInv, OutputInv
  <2>4. \A r \in Rows(mode) \ {Row[mode][e]} : yhat[mode][r][e] = 0
    BY <1>2 DEF ServeInv, OutputInv
  <2> QED
    BY <2>3, <2>4 DEF OutOf
<1> QED
  BY <1>3 DEF OutOf

LEMMA PromiseInit == Init => Promise!Init
<1> SUFFICES ASSUME Init PROVE Promise!Init
  OBVIOUS
<1>1. /\ stage = "remap" /\ mode = 1
      /\ yhat = [n \in Mode |-> [r \in Rows(n) |-> Nothing]]
  BY DEF Init
<1>2. ASSUME NEW n \in Mode PROVE OutOf(n) = [e \in Elem |-> 0]
  <2>1. \A e \in Elem : Row[n][e] \in Rows(n)
    BY TensorAssumption DEF Rows
  <2> QED
    BY <1>1, <2>1 DEF OutOf, Nothing
<1> QED
  BY <1>1, <1>2 DEF Promise!Init, Promise!Mode, Mode

LEMMA PromiseStep ==
  IInv /\ ServeInv /\ [Next]_vars => [Promise!Next]_(Promise!vars)
<1> SUFFICES ASSUME IInv, ServeInv, [Next]_vars PROVE [Promise!Next]_(Promise!vars)
  OBVIOUS
<1> DEFINE turn == IF stage \in {"idle", "kernel"} THEN mode ELSE 0
           out == [n \in Mode |-> IF n = mode /\ stage = "kernel" THEN "undefined" ELSE OutOf(n)]
<1>0. /\ mode \in Mode
      /\ DOMAIN yhat = Mode /\ \A n \in Mode : yhat[n] \in [Rows(n) -> [Elem -> Nat]]
  BY DEF IInv, CopiesReady, TypeOK, KernelInv
<1>1. ASSUME NEW n \in Mode, yhat'[n] = yhat[n] PROVE OutOf(n)' = OutOf(n)
  BY <1>1 DEF OutOf
<1>2. ASSUME stage \in {"remap", "sort", "stripe", "rowptr"}, yhat' = yhat,
             stage' \in {"remap", "sort", "stripe", "rowptr"} \/ (stage' = "idle" /\ mode' = 0)
      PROVE  UNCHANGED Promise!vars
  <2>1. turn' = turn
    BY <1>2
  <2>2. out' = out
    BY <1>1, <1>2
  <2> QED
    BY <1>2, <2>1, <2>2 DEF Promise!vars
<1>3. ASSUME NEW n \in Nat, SortFrom(n)
      PROVE  stage' = "sort" \/ (stage' = "idle" /\ mode' = 0)
  BY <1>3 DEF SortFrom
<1>4. CASE Call
  <2>1. /\ stage = "idle" /\ stage' = "kernel" /\ mode' = mode /\ yhat' = Zeroed
    BY <1>4 DEF Call
  <2>2. \A n \in Mode : n # mode => yhat'[n] = yhat[n]
    BY <1>0, <2>1 DEF Zeroed
  <2>3. out' = [out EXCEPT ![turn] = "undefined"]
    BY <1>0, <1>1, <2>1, <2>2
  <2>4. Promise!Call
    BY <2>1, <2>3 DEF Promise!Call, Promise!Undefined
  <2> QED
    BY <2>4 DEF Promise!Next
<1>5. CASE Loop
  <2>1. stage \in {"sort", "stripe"} /\ stage' = stage /\ yhat' = yhat
    BY <1>5 DEF Loop, SortShard, Stripe
  <2> QED
    BY <1>2, <2>1
<1>6. CASE RemapDone
  <2>1. stage = "remap" /\ yhat' = yhat /\ (stage' = "remap" \/ SortFrom(0))
    BY <1>6 DEF RemapDone
  <2> QED
    BY <1>2, <1>3, <2>1
<1>7. CASE SortDone \/ StripesDone \/ RowPtrDone
  <2>1. /\ stage \in {"sort", "stripe", "rowptr"} /\ yhat' = yhat
        /\ stage' \in {"stripe", "rowptr"} \/ SortFrom(mode + 1)
    BY <1>7 DEF SortDone, StripesDone, RowPtrDone
  <2>2. mode + 1 \in Nat
    BY <1>0 DEF Mode
  <2> QED
    BY <1>2, <1>3, <2>1, <2>2
<1>8. ASSUME NEW t \in Thread, Remap(t) \/ RowPtr(t) PROVE UNCHANGED Promise!vars
  <2>1. stage \in {"remap", "rowptr"} /\ stage' = stage /\ yhat' = yhat
    BY <1>8 DEF Remap, RowPtr, TakeRemapShard, Move, TakeRowShard, WriteRowPtr, CloseRowPtr
  <2> QED
    BY <1>2, <2>1
<1>9. ASSUME NEW t \in Thread, Kernel(t) PROVE UNCHANGED Promise!vars
  <2>1. stage = "kernel" /\ stage' = stage /\ mode' = mode
    BY <1>9 DEF Kernel, TakeShard, SkipRow, LoadCsrRow, LoadRow, StoreRow
  <2>2. \A n \in Mode : n # mode => yhat'[n] = yhat[n]
    <3>1. CASE StoreRow(t)
      <4> DEFINE sum == Summed(t)
                 held == HeldRow(t)
      <4>1. yhat' = [yhat EXCEPT ![mode][held] = sum]
        BY <3>1 DEF StoreRow
      <4> HIDE DEF sum, held
      <4> QED
        BY <1>0, <4>1
    <3>2. CASE ~ StoreRow(t)
      BY <1>9, <3>2 DEF Kernel, TakeShard, SkipRow, LoadCsrRow, LoadRow
    <3> QED
      BY <3>1, <3>2
  <2>3. out' = out
    BY <1>1, <2>1, <2>2
  <2> QED
    BY <2>1, <2>3 DEF Promise!vars
<1>10. CASE Return
  <2>1. /\ stage = "kernel" /\ stage' = "idle" /\ mode' = Succ(mode) /\ yhat' = yhat
    BY <1>10 DEF Return
  <2>2. OutOf(mode) = Promise!Exact
    BY <1>10, ServedAll DEF Promise!Exact
  <2>3. out' = [out EXCEPT ![turn] = Promise!Exact]
    <3>1. out' = [n \in Mode |-> OutOf(n)]
      BY <1>1, <2>1
    <3>2. [out EXCEPT ![turn] = Promise!Exact] = [n \in Mode |-> OutOf(n)]
      BY <1>0, <2>1, <2>2
    <3> QED
      BY <3>1, <3>2
  <2>4. Promise!Return
    BY <2>1, <2>3 DEF Promise!Return, Succ
  <2> QED
    BY <2>4 DEF Promise!Next
<1>11. CASE UNCHANGED vars
  <2>1. stage' = stage /\ mode' = mode /\ yhat' = yhat
    BY <1>11 DEF vars
  <2> QED
    BY <1>1, <2>1 DEF Promise!vars
<1> QED
  BY <1>4, <1>5, <1>6, <1>7, <1>8, <1>9, <1>10, <1>11 DEF Next, Driver, Promise!vars

\* process(n) over the NCopy copies keeps the promise of Mttkrp: whether it
\* goes by row pointers, by runs of a sorted copy or by single nonzeros, and
\* whichever threads built copies and row pointers in which order, a call
\* that returns has added every nonzero into its own row, and into no other,
\* exactly once.
THEOREM NcopyImplementsMttkrp ==
  Spec => Promise!Init /\ [][Promise!Next]_(Promise!vars)
<1>1. Init => Promise!Init /\ ServeInv
  BY PromiseInit, InitServe
<1>2. IInv /\ ServeInv /\ [Next]_vars => ServeInv'
  BY ServeStep
<1>3. IInv /\ ServeInv /\ [Next]_vars => [Promise!Next]_(Promise!vars)
  BY PromiseStep
<1> QED
  BY <1>1, <1>2, <1>3, Invariance, PTL DEF Spec
=============================================================================
