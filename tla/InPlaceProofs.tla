---------------------------- MODULE InPlaceProofs ----------------------------
(***************************************************************************)
(* Proofs about InPlaceSort, for every tensor, thread count, schedule and  *)
(* choice of fiber modes: however the slab is sorted, its columns end with *)
(* the same permutation of the nonzeros, grouped by the shards of the      *)
(* mode and, in a fiber mode, with the rows of every shard in order.       *)
(***************************************************************************)
EXTENDS InPlaceInv, FlycooProofs

-----------------------------------------------------------------------------
(* Sets and counts. *)

LEMMA MinIs ==
  ASSUME NEW S \in SUBSET Nat, S # {}
  PROVE  Min(S) \in S /\ \A y \in S : Min(S) =< y
BY LeastElement DEF Min

LEMMA MinOfTwo ==
  ASSUME NEW a \in Nat, NEW b \in Nat
  PROVE  Min({a, b}) = IF a =< b THEN a ELSE b
<1>1. Min({a, b}) \in {a, b} /\ \A y \in {a, b} : Min({a, b}) =< y
  <2>1. {a, b} \in SUBSET Nat /\ {a, b} # {}  OBVIOUS
  <2> QED BY <2>1, MinIs
<1> QED BY <1>1

\* Shards and rows within a shard are classes of the American-flag sorts.
LEMMA ClassFacts ==
  /\ Class \subseteq Nat /\ Sid \subseteq Nat
  /\ \A n \in Mode : /\ Shards(n) \subseteq Sid /\ Shards(n) \subseteq Class
                     /\ \A k \in 0 .. MN[n] - 1 : k \in Class
                     /\ \A s \in Shards(n) : s \in Nat
BY DEF Class, Sid, Shards

LEMMA ColumnFacts ==
  /\ ValsColumn \in Column /\ Mode \subseteq Column
  /\ \A n \in Mode : n # ValsColumn
BY ShapeAssumption DEF Column, ValsColumn, Mode

LEMMA KeyTypes ==
  ASSUME NEW n \in Mode
  PROVE  /\ ShardKey(n) \in [Elem -> Nat] /\ RowKey(n) \in [Elem -> Nat]
         /\ \A e \in Elem : ShardKey(n)[e] = Shard(n, e) /\ ShardKey(n)[e] \in Class
         /\ \A e \in Elem : RowKey(n)[e] = Row[n][e] % MN[n] /\ RowKey(n)[e] \in Class
<1>1. \A e \in Elem : Shard(n, e) \in Nat /\ Shard(n, e) \in Class
  BY ShardType, ClassFacts
<1>2. ASSUME NEW e \in Elem
      PROVE  Row[n][e] % MN[n] \in Nat /\ Row[n][e] % MN[n] \in Class
  <2>1. Row[n][e] \in Nat /\ MN[n] \in Nat \ {0}
    BY TensorAssumption
  <2>2. Row[n][e] % MN[n] \in 0 .. MN[n] - 1
    BY <2>1
  <2> QED BY <2>2, ClassFacts
<1> QED BY <1>1, <1>2 DEF ShardKey, RowKey

\* A full slab has as many slots with a nonzero of S as S has nonzeros.
LEMMA SlotsOf ==
  ASSUME NEW slab \in Bijection(Slot, Elem), NEW S \in SUBSET Elem
  PROVE  Cardinality({i \in Slot : slab[i] \in S}) = Cardinality(S)
<1> DEFINE D == {i \in Slot : slab[i] \in S}
           f == [i \in D |-> slab[i]]
<1>1. /\ slab \in [Slot -> Elem] /\ \A i, j \in Slot : slab[i] = slab[j] => i = j
      /\ \A e \in Elem : \E i \in Slot : slab[i] = e
  BY DEF Bijection, Injection, Surjection, IsInjective
<1>2. f \in [D -> S]
  OBVIOUS
<1>3. \A i, j \in D : f[i] = f[j] => i = j
  BY <1>1
<1>4. \A e \in S : \E i \in D : f[i] = e
  BY <1>1
<1>5. IsFiniteSet(D)
  <2>1. D \in SUBSET Slot  OBVIOUS
  <2> QED BY <2>1, SlotFacts, FS_Subset
<1>6. f \in Bijection(D, S)
  <2> HIDE DEF f, D
  <2> QED BY <1>2, <1>3, <1>4 DEF Bijection, Injection, Surjection, IsInjective
<1>7. ExistsBijection(D, S)
  BY <1>6 DEF ExistsBijection
<1> HIDE DEF D
<1>8. Cardinality(S) = Cardinality(D)
  BY <1>5, <1>7, FS_Bijection
<1> QED BY <1>8 DEF D

\* Swapping two slots of a full slab leaves it full.
LEMMA SwapFull ==
  ASSUME NEW slab \in Bijection(Slot, Elem), NEW i \in Slot, NEW j \in Slot,
         NEW new \in [Slot -> Elem], new[i] = slab[j], new[j] = slab[i],
         \A d \in Slot : d # i /\ d # j => new[d] = slab[d]
  PROVE  new \in Bijection(Slot, Elem)
<1>1. /\ slab \in [Slot -> Elem] /\ \A c, d \in Slot : slab[c] = slab[d] => c = d
      /\ \A e \in Elem : \E d \in Slot : slab[d] = e
  BY DEF Bijection, Injection, Surjection, IsInjective
<1>4. \A c, d \in Slot : new[c] = new[d] => c = d
  BY <1>1
<1>5. \A e \in Elem : \E d \in Slot : new[d] = e
  <2> SUFFICES ASSUME NEW e \in Elem PROVE \E d \in Slot : new[d] = e
    OBVIOUS
  <2>1. PICK d \in Slot : slab[d] = e
    BY <1>1
  <2>2. CASE d = i  BY <2>1, <2>2
  <2>3. CASE d = j  BY <2>1, <2>3
  <2>4. CASE d # i /\ d # j  BY <2>1, <2>4
  <2> QED BY <2>2, <2>3, <2>4
<1> QED BY <1>4, <1>5 DEF Bijection, Injection, Surjection, IsInjective

-----------------------------------------------------------------------------
(* The American-flag sort of nonzeros E, in the slots from first on. *)

\* The nonzeros E are in the slots from first on, and no others are there.
Region(slab, E, first) ==
  /\ first + Cardinality(E) =< nnz
  /\ \A i \in Slot : slab[i] \in E <=> i \in first .. first + Cardinality(E) - 1

LEMMA ClassBounds ==
  ASSUME NEW E \in SUBSET Elem, NEW first \in Nat, NEW key \in [Elem -> Nat], NEW k \in Nat
  PROVE  /\ ClassBegin(E, first, key, k) \in Nat /\ ClassEnd(E, first, key, k) \in Nat
         /\ Cardinality(E) \in Nat
         /\ first =< ClassBegin(E, first, key, k)
         /\ ClassBegin(E, first, key, k) =< ClassEnd(E, first, key, k)
         /\ ClassEnd(E, first, key, k) =< first + Cardinality(E)
         /\ ClassEnd(E, first, key, k)
              = ClassBegin(E, first, key, k) + Cardinality({e \in E : key[e] = k})
         /\ Cardinality({e \in E : key[e] = k}) \in Nat
         /\ \A m \in Nat : k < m =>
              ClassEnd(E, first, key, k) =< ClassBegin(E, first, key, m)
<1> DEFINE Under(m) == {e \in E : key[e] < m}
           UpTo(m) == {e \in E : key[e] =< m}
           Eq == {e \in E : key[e] = k}
<1>1. /\ \A m \in Nat : IsFiniteSet(Under(m)) /\ Cardinality(Under(m)) \in Nat /\ Under(m) \in SUBSET Elem
      /\ \A m \in Nat : IsFiniteSet(UpTo(m)) /\ Cardinality(UpTo(m)) \in Nat /\ UpTo(m) \in SUBSET E
      /\ IsFiniteSet(Eq) /\ Cardinality(Eq) \in Nat /\ Cardinality(E) \in Nat
  <2>1. \A m \in Nat : Under(m) \in SUBSET Elem /\ UpTo(m) \in SUBSET Elem /\ Eq \in SUBSET Elem
    OBVIOUS
  <2> HIDE DEF Under, UpTo, Eq
  <2>2. \A m \in Nat : UpTo(m) \in SUBSET E
    BY DEF UpTo
  <2> QED BY <2>1, <2>2, FiniteElems
<1>2. Cardinality(UpTo(k)) = Cardinality(Under(k)) + Cardinality(Eq)
  <2>1. UpTo(k) = Under(k) \cup Eq /\ Under(k) \cap Eq = {}
    OBVIOUS
  <2> HIDE DEF Under, UpTo, Eq
  <2>2. Cardinality(Under(k) \cap Eq) = 0
    BY <2>1, FS_EmptySet
  <2>3. Cardinality(Under(k) \cup Eq)
          = Cardinality(Under(k)) + Cardinality(Eq) - Cardinality(Under(k) \cap Eq)
    BY <1>1, FS_Union
  <2> QED BY <1>1, <2>1, <2>2, <2>3
<1>3. Cardinality(UpTo(k)) =< Cardinality(E)
  BY <1>1, CardMonotone
<1>4. ASSUME NEW m \in Nat, k < m PROVE Cardinality(UpTo(k)) =< Cardinality(Under(m))
  <2>1. UpTo(k) \in SUBSET Under(m)
    BY <1>4
  <2> HIDE DEF Under, UpTo
  <2> QED BY <1>1, <2>1, CardMonotone
<1>5. \A m \in Nat : ClassBegin(E, first, key, m) = first + Cardinality(Under(m))
  BY DEF ClassBegin
<1>6. ClassEnd(E, first, key, k) = first + Cardinality(UpTo(k))
  BY DEF ClassEnd
<1> HIDE DEF Under, UpTo
<1>7. \A m \in Nat : k < m => ClassEnd(E, first, key, k) =< ClassBegin(E, first, key, m)
  BY <1>1, <1>4, <1>5, <1>6
<1> QED BY <1>1, <1>2, <1>3, <1>5, <1>6, <1>7

\* A class whose slots are all its own has all its nonzeros.
LEMMA FullClass ==
  ASSUME NEW slab \in Bijection(Slot, Elem), NEW E \in SUBSET Elem, NEW first \in Nat,
         NEW key \in [Elem -> Nat], NEW k \in Nat, Region(slab, E, first),
         \A i \in ClassBegin(E, first, key, k) .. ClassEnd(E, first, key, k) - 1 :
           key[slab[i]] = k,
         NEW j \in Slot, slab[j] \in E, key[slab[j]] = k
  PROVE  j \in ClassBegin(E, first, key, k) .. ClassEnd(E, first, key, k) - 1
<1> DEFINE a == ClassBegin(E, first, key, k)
           z == ClassEnd(E, first, key, k)
           Eq == {e \in E : key[e] = k}
           T == {i \in Slot : slab[i] \in Eq}
<1>1. /\ a \in Nat /\ z \in Nat /\ Cardinality(E) \in Nat /\ first =< a
      /\ z =< first + Cardinality(E) /\ z = a + Cardinality(Eq) /\ Cardinality(Eq) \in Nat
  BY ClassBounds
<1>2. a .. z - 1 \subseteq Slot
  <2> HIDE DEF a, z, Eq
  <2>1. first + Cardinality(E) =< nnz /\ nnz \in Nat
    BY SlotFacts DEF Region
  <2> QED BY <1>1, <2>1 DEF Slot
<1>3. ASSUME NEW i \in a .. z - 1 PROVE i \in T
  <2>1. i \in Slot /\ key[slab[i]] = k
    BY <1>2
  <2>2. slab[i] \in E
    BY <1>1, <2>1 DEF Region
  <2> QED BY <2>1, <2>2
<1>4. Cardinality(T) = Cardinality(Eq)
  <2>1. Eq \in SUBSET Elem  OBVIOUS
  <2> HIDE DEF Eq
  <2> QED BY <2>1, SlotsOf
<1>5. Cardinality(a .. z - 1) = Cardinality(Eq)
  <2> HIDE DEF a, z, Eq
  <2>1. Cardinality(a .. z - 1) = IF a > z - 1 THEN 0 ELSE z - 1 - a + 1
    <3>1. a \in Int /\ z - 1 \in Int  BY <1>1
    <3> QED BY <3>1, FS_Interval
  <2> QED BY <1>1, <2>1
<1>6. j \in T
  OBVIOUS
<1>7. a .. z - 1 \in SUBSET T /\ IsFiniteSet(T)
  <2>1. T \in SUBSET Slot  OBVIOUS
  <2> HIDE DEF T
  <2> QED BY <1>3, <2>1, SlotFacts, FS_Subset
<1> HIDE DEF T, a, z
<1>8. T = a .. z - 1
  BY <1>4, <1>5, <1>7, FS_Subset
<1> QED BY <1>6, <1>8 DEF a, z

\* A sort that has not filled any class.
LEMMA FillStart ==
  ASSUME NEW E \in SUBSET Elem, NEW first \in Nat, NEW key \in [Elem -> Nat], NEW slab,
         NEW b, b = [k \in Class |-> ClassBegin(E, first, key, k)],
         NEW f, f = [k \in Class |-> ClassEnd(E, first, key, k)]
  PROVE  /\ Filling(b, f, slab, E, first, key)
         /\ b \in [Class -> Nat] /\ f \in [Class -> Nat]
<1>1. ASSUME NEW k \in Class
      PROVE  /\ b[k] = ClassBegin(E, first, key, k) /\ f[k] = ClassEnd(E, first, key, k)
             /\ b[k] \in Nat /\ f[k] \in Nat /\ b[k] =< f[k]
  <2>1. k \in Nat  BY ClassFacts
  <2>2. /\ ClassBegin(E, first, key, k) \in Nat /\ ClassEnd(E, first, key, k) \in Nat
        /\ ClassBegin(E, first, key, k) =< ClassEnd(E, first, key, k)
    BY <2>1, ClassBounds, Zenon
  <2> QED BY <2>2
<1>2. ASSUME NEW k \in Class
      PROVE  \A i \in ClassBegin(E, first, key, k) .. b[k] - 1 : key[slab[i]] = k
  BY <1>1
<1>3. b = [k \in Class |-> b[k]] /\ f = [k \in Class |-> f[k]]
  OBVIOUS
<1>4. Filling(b, f, slab, E, first, key)
  <2> SUFFICES ASSUME NEW k \in Class
               PROVE  /\ f[k] = ClassEnd(E, first, key, k)
                      /\ ClassBegin(E, first, key, k) =< b[k] /\ b[k] =< f[k]
                      /\ \A i \in ClassBegin(E, first, key, k) .. b[k] - 1 : key[slab[i]] = k
    BY DEF Filling
  <2> QED BY <1>1, <1>2
<1> QED BY <1>1, <1>3, <1>4

\* A cursor of an unfinished class is one of the sort's slots.
LEMMA CursorSlot ==
  ASSUME NEW slab \in Bijection(Slot, Elem), NEW E \in SUBSET Elem, NEW first \in Nat,
         NEW key \in [Elem -> Nat], Region(slab, E, first),
         NEW b \in [Class -> Nat], NEW f \in [Class -> Nat],
         Filling(b, f, slab, E, first, key), NEW k \in Class, b[k] < f[k]
  PROVE  /\ b[k] \in Slot /\ slab[b[k]] \in E
         /\ b[k] \in first .. first + Cardinality(E) - 1
         /\ b[k] \in ClassBegin(E, first, key, k) .. ClassEnd(E, first, key, k) - 1
<1>1. k \in Nat /\ b[k] \in Nat /\ f[k] \in Nat
  BY ClassFacts
<1>2. /\ ClassBegin(E, first, key, k) \in Nat /\ ClassEnd(E, first, key, k) \in Nat
      /\ Cardinality(E) \in Nat /\ first =< ClassBegin(E, first, key, k)
      /\ ClassEnd(E, first, key, k) =< first + Cardinality(E)
  BY <1>1, ClassBounds, Zenon
<1>3. f[k] = ClassEnd(E, first, key, k) /\ ClassBegin(E, first, key, k) =< b[k]
  BY DEF Filling
<1>4. nnz \in Nat /\ first + Cardinality(E) =< nnz
  BY SlotFacts DEF Region
<1>5. /\ b[k] \in first .. first + Cardinality(E) - 1
      /\ b[k] \in ClassBegin(E, first, key, k) .. ClassEnd(E, first, key, k) - 1
  BY <1>1, <1>2, <1>3
<1>6. b[k] \in Slot
  BY <1>1, <1>2, <1>4, <1>5 DEF Slot
<1> QED BY <1>5, <1>6 DEF Region

\* The nonzero at the front of the lowest unfinished class belongs to an
\* unfinished class, whose front is not before it.
LEMMA FrontOfClass ==
  ASSUME NEW slab \in Bijection(Slot, Elem), NEW E \in SUBSET Elem, NEW first \in Nat,
         NEW key \in [Elem -> Nat], \A e \in E : key[e] \in Class,
         Region(slab, E, first),
         NEW b \in [Class -> Nat], NEW f \in [Class -> Nat],
         Filling(b, f, slab, E, first, key),
         NEW m \in Class, b[m] < f[m], \A k \in Class : b[k] < f[k] => m =< k
  PROVE  LET k == key[slab[b[m]]]
         IN  k \in Class /\ b[k] < f[k] /\ b[m] =< b[k]
<1> DEFINE i == b[m]
           k == key[slab[i]]
           Beg(c) == ClassBegin(E, first, key, c)
           End(c) == ClassEnd(E, first, key, c)
<1>1. i \in Slot /\ slab[i] \in E /\ i \in Beg(m) .. End(m) - 1
  BY CursorSlot, Zenon
<1>2. k \in Class /\ k \in Nat /\ m \in Nat
  BY <1>1, ClassFacts
<1>3. \A c \in Class : /\ f[c] = End(c) /\ Beg(c) =< b[c] /\ b[c] =< f[c]
                       /\ \A d \in Beg(c) .. b[c] - 1 : key[slab[d]] = c
  BY DEF Filling
<1>4. \A c \in Nat : /\ Beg(c) \in Nat /\ End(c) \in Nat
                     /\ \A d \in Nat : c < d => End(c) =< Beg(d)
  BY ClassBounds, Zenon
<1>5. b[k] < f[k]
  <2> SUFFICES ASSUME ~(b[k] < f[k]) PROVE FALSE
    OBVIOUS
  <2>1. b[k] \in Nat /\ f[k] \in Nat
    BY <1>2
  <2>2. b[k] = End(k) /\ k # m
    BY <1>2, <1>3, <2>1
  <2>3. \A d \in Beg(k) .. End(k) - 1 : key[slab[d]] = k
    BY <1>2, <1>3, <2>2
  <2>4. i \in Beg(k) .. End(k) - 1
    <3> HIDE DEF Beg, End
    <3> QED BY <1>1, <1>2, <2>3, FullClass DEF Beg, End
  <2>5. i \in Nat
    BY <1>1, SlotFacts
  <2> HIDE DEF i, k, Beg, End
  <2>6. CASE k < m  BY <1>1, <1>2, <1>4, <2>4, <2>5, <2>6
  <2>7. CASE m < k  BY <1>1, <1>2, <1>4, <2>4, <2>5, <2>7
  <2> QED BY <1>2, <2>2, <2>6, <2>7
<1>6. i =< b[k]
  <2>1. m =< k
    BY <1>2, <1>5
  <2>2. CASE m = k  BY <1>1, <2>2, SlotFacts
  <2>3. CASE m < k
    <3>1. b[k] \in Nat /\ i \in Nat
      BY <1>2
    <3>2. End(m) =< Beg(k) /\ Beg(k) =< b[k] /\ End(m) \in Nat /\ Beg(k) \in Nat
      BY <1>2, <1>3, <1>4, <2>3
    <3> HIDE DEF i, k, Beg, End
    <3> QED BY <1>1, <3>1, <3>2
  <2> QED BY <1>2, <2>1, <2>2, <2>3
<1> QED BY <1>2, <1>5, <1>6

\* One step of the sort: the nonzero at the front of class m, which is of class
\* k, goes to the front of its own class.
Move(slab, b, m, k, new, bb) ==
  /\ new[b[m]] = slab[b[k]] /\ new[b[k]] = slab[b[m]]
  /\ \A d \in Slot : d # b[m] /\ d # b[k] => new[d] = slab[d]
  /\ bb[k] = b[k] + 1 /\ \A c \in Class : c # k => bb[c] = b[c]

LEMMA FillStep ==
  ASSUME NEW slab \in Bijection(Slot, Elem), NEW E \in SUBSET Elem, NEW first \in Nat,
         NEW key \in [Elem -> Nat], \A e \in E : key[e] \in Class,
         Region(slab, E, first),
         NEW b \in [Class -> Nat], NEW f \in [Class -> Nat],
         Filling(b, f, slab, E, first, key),
         NEW m \in Class, b[m] < f[m], NEW k \in Class, b[k] < f[k], k = key[slab[b[m]]],
         NEW new, NEW bb, Move(slab, b, m, k, new, bb)
  PROVE  /\ Filling(bb, f, new, E, first, key)
         /\ Region(new, E, first)
         /\ \A d \in Slot : d \notin first .. first + Cardinality(E) - 1 => new[d] = slab[d]
<1> DEFINE i == b[m]
           j == b[k]
           Beg(c) == ClassBegin(E, first, key, c)
           End(c) == ClassEnd(E, first, key, c)
<1>1. /\ i \in Slot /\ slab[i] \in E /\ i \in Beg(m) .. End(m) - 1
      /\ j \in Slot /\ slab[j] \in E /\ j \in Beg(k) .. End(k) - 1
  BY CursorSlot, Zenon
<1>2. /\ new[i] = slab[j] /\ new[j] = slab[i]
      /\ \A d \in Slot : d # i /\ d # j => new[d] = slab[d]
  BY DEF Move
<1>3. \A c \in Class : c \in Nat /\ b[c] \in Nat /\ f[c] \in Nat
  BY ClassFacts
<1>4. \A c \in Class : /\ f[c] = End(c) /\ Beg(c) =< b[c] /\ b[c] =< f[c]
                       /\ \A d \in Beg(c) .. b[c] - 1 : key[slab[d]] = c
  BY DEF Filling
<1>5. \A c \in Nat : /\ Beg(c) \in Nat /\ End(c) \in Nat
                     /\ first =< Beg(c) /\ End(c) =< first + Cardinality(E)
                     /\ Cardinality(E) \in Nat
                     /\ \A d \in Nat : c < d => End(c) =< Beg(d)
  BY ClassBounds, Zenon
<1>6. bb[k] = j + 1 /\ \A c \in Class : c # k => bb[c] = b[c]
  BY DEF Move
<1>7. ASSUME NEW c \in Class, NEW d \in Beg(c) .. bb[c] - 1
      PROVE  key[new[d]] = c
  <2>1. CASE c = k /\ d = j
    BY <1>2, <2>1
  <2>2. CASE ~(c = k /\ d = j)
    <3>1. d \in Beg(c) .. b[c] - 1
      <4>1. c \in Nat /\ b[c] \in Nat /\ Beg(c) \in Nat /\ j \in Nat
        BY <1>3, <1>5
      <4>2. CASE c = k
        <5> HIDE DEF Beg
        <5> QED BY <1>6, <2>2, <4>1, <4>2
      <4>3. CASE c # k  BY <1>6, <4>3
      <4> QED BY <4>2, <4>3
    <3>2. /\ d \in Nat /\ d \in Slot /\ d < b[c] /\ d \in Beg(c) .. End(c) - 1
      <4>1. /\ Beg(c) \in Nat /\ End(c) \in Nat /\ End(c) =< first + Cardinality(E)
            /\ b[c] =< End(c) /\ Cardinality(E) \in Nat /\ b[c] \in Nat /\ nnz \in Nat
            /\ first + Cardinality(E) =< nnz
        BY <1>3, <1>4, <1>5, SlotFacts DEF Region
      <4> DEFINE y == b[c]
                 z == first + Cardinality(E)
      <4>2. z \in Nat /\ End(c) =< z /\ z =< nnz /\ y =< End(c) /\ d \in Beg(c) .. y - 1
        BY <3>1, <4>1
      <4> HIDE DEF Beg, End, y, z
      <4>3. d \in Nat /\ d < y /\ d \in Beg(c) .. End(c) - 1 /\ d \in 0 .. nnz - 1
        BY <4>1, <4>2 DEF y
      <4> QED BY <4>3 DEF y, Slot
    <3>3. ASSUME NEW x \in {m, k}, d = b[x] PROVE FALSE
      <4>1. CASE x = c  BY <1>3, <3>2, <3>3, <4>1
      <4>2. CASE x # c
        <5>1. d \in Beg(x) .. End(x) - 1
          BY <1>1, <3>3
        <5>2. x \in Nat /\ c \in Nat
          BY <1>3
        <5> HIDE DEF Beg, End
        <5>3. CASE x < c  BY <1>5, <3>2, <5>1, <5>2, <5>3
        <5>4. CASE c < x  BY <1>5, <3>2, <5>1, <5>2, <5>4
        <5> QED BY <4>2, <5>2, <5>3, <5>4
      <4> QED BY <4>1, <4>2
    <3>4. new[d] = slab[d]
      BY <1>2, <3>2, <3>3
    <3> QED BY <1>4, <3>1, <3>4
  <2> QED BY <2>1, <2>2
<1>8. ASSUME NEW c \in Class PROVE Beg(c) =< bb[c] /\ bb[c] =< f[c]
  <2>1. Beg(c) \in Nat /\ b[c] \in Nat /\ f[c] \in Nat /\ Beg(c) =< b[c] /\ b[c] =< f[c]
    BY <1>3, <1>4, <1>5
  <2> HIDE DEF Beg
  <2>2. CASE c = k  BY <1>6, <2>1, <2>2
  <2>3. CASE c # k  BY <1>6, <2>1, <2>3
  <2> QED BY <2>2, <2>3
<1>9. Filling(bb, f, new, E, first, key)
  BY <1>4, <1>7, <1>8, Zenon DEF Filling
<1>10. Region(new, E, first)
  <2>1. ASSUME NEW d \in Slot
        PROVE  new[d] \in E <=> d \in first .. first + Cardinality(E) - 1
    <3>1. \A c \in Slot : slab[c] \in E <=> c \in first .. first + Cardinality(E) - 1
      BY DEF Region
    <3>2. CASE d = i  BY <1>1, <1>2, <3>1, <3>2, Zenon
    <3>3. CASE d = j  BY <1>1, <1>2, <3>1, <3>3, Zenon
    <3>4. CASE d # i /\ d # j  BY <1>2, <3>1, <3>4, Zenon
    <3> QED BY <3>2, <3>3, <3>4
  <2> QED BY <2>1 DEF Region
<1>11. \A d \in Slot : d \notin first .. first + Cardinality(E) - 1 => new[d] = slab[d]
  <2>1. \A d \in Slot : slab[d] \in E => d \in first .. first + Cardinality(E) - 1
    BY DEF Region
  <2> HIDE DEF i, j
  <2> QED BY <1>1, <1>2, <2>1, Zenon
<1> QED BY <1>9, <1>10, <1>11

\* A sort in another part of the slab is not disturbed.
LEMMA FillFrame ==
  ASSUME NEW E \in SUBSET Elem, NEW first \in Nat, NEW key \in [Elem -> Nat],
         NEW slab, NEW new,
         NEW b \in [Class -> Nat], NEW f \in [Class -> Nat],
         Filling(b, f, slab, E, first, key),
         \A d \in first .. first + Cardinality(E) - 1 : new[d] = slab[d]
  PROVE  Filling(b, f, new, E, first, key)
<1>1. ASSUME NEW c \in Class, NEW d \in ClassBegin(E, first, key, c) .. b[c] - 1
      PROVE  new[d] = slab[d]
  <2>1. c \in Nat /\ b[c] \in Nat /\ b[c] =< ClassEnd(E, first, key, c)
    BY ClassFacts DEF Filling
  <2>2. /\ ClassBegin(E, first, key, c) \in Nat /\ ClassEnd(E, first, key, c) \in Nat
        /\ first =< ClassBegin(E, first, key, c) /\ Cardinality(E) \in Nat
        /\ ClassEnd(E, first, key, c) =< first + Cardinality(E)
    BY <2>1, ClassBounds, Zenon
  <2>3. d \in first .. first + Cardinality(E) - 1
    BY <2>1, <2>2
  <2> QED BY <2>3
<1> QED BY <1>1 DEF Filling

\* Once every class is full the slots are in the order of the key.
LEMMA Filled ==
  ASSUME NEW slab \in Bijection(Slot, Elem), NEW E \in SUBSET Elem, NEW first \in Nat,
         NEW key \in [Elem -> Nat], \A e \in E : key[e] \in Class,
         Region(slab, E, first),
         NEW b \in [Class -> Nat], NEW f \in [Class -> Nat],
         Filling(b, f, slab, E, first, key), \A k \in Class : ~(b[k] < f[k])
  PROVE  /\ \A i \in Slot : slab[i] \in E =>
              LET k == key[slab[i]]
              IN  i \in ClassBegin(E, first, key, k) .. ClassEnd(E, first, key, k) - 1
         /\ \A i, j \in Slot : slab[i] \in E /\ slab[j] \in E /\ i < j =>
              key[slab[i]] =< key[slab[j]]
<1> DEFINE Beg(c) == ClassBegin(E, first, key, c)
           End(c) == ClassEnd(E, first, key, c)
<1>1. \A c \in Class : \A d \in Beg(c) .. End(c) - 1 : key[slab[d]] = c
  <2> SUFFICES ASSUME NEW c \in Class PROVE \A d \in Beg(c) .. End(c) - 1 : key[slab[d]] = c
    OBVIOUS
  <2>1. f[c] = End(c) /\ b[c] =< f[c] /\ \A d \in Beg(c) .. b[c] - 1 : key[slab[d]] = c
    BY DEF Filling
  <2>2. b[c] \in Nat /\ f[c] \in Nat /\ ~(b[c] < f[c])
    OBVIOUS
  <2>3. b[c] = End(c)
    BY <2>1, <2>2
  <2> QED BY <2>1, <2>3
<1>2. ASSUME NEW i \in Slot, slab[i] \in E
      PROVE  i \in Beg(key[slab[i]]) .. End(key[slab[i]]) - 1
  <2>1. key[slab[i]] \in Class /\ key[slab[i]] \in Nat
    BY <1>2
  <2>2. \A d \in Beg(key[slab[i]]) .. End(key[slab[i]]) - 1 : key[slab[d]] = key[slab[i]]
    BY <1>1, <2>1
  <2> QED BY <1>2, <2>1, <2>2, FullClass
<1>3. ASSUME NEW i \in Slot, NEW j \in Slot, slab[i] \in E, slab[j] \in E, i < j
      PROVE  key[slab[i]] =< key[slab[j]]
  <2> DEFINE k == key[slab[i]]
             m == key[slab[j]]
  <2>1. k \in Nat /\ m \in Nat /\ i \in Nat /\ j \in Nat
    BY <1>3, SlotFacts
  <2>2. i \in Beg(k) .. End(k) - 1 /\ j \in Beg(m) .. End(m) - 1
    BY <1>2, <1>3
  <2>3. Beg(k) \in Nat /\ End(k) \in Nat /\ Beg(m) \in Nat /\ End(m) \in Nat
        /\ (m < k => End(m) =< Beg(k))
    BY <2>1, ClassBounds, Zenon
  <2> HIDE DEF k, m, Beg, End
  <2>4. ~(m < k)
    BY <1>3, <2>1, <2>2, <2>3
  <2>5. k =< m
    BY <2>1, <2>4
  <2> QED BY <2>5 DEF k, m
<1> QED BY <1>2, <1>3

-----------------------------------------------------------------------------
(* The cursors of the parallel pass 1. *)

LEMMA RankType ==
  ASSUME NEW key \in [Slot -> Nat], NEW x \in Nat, NEW s \in Nat
  PROVE  Rank(key, x, s) \in Nat
<1> DEFINE D == {j \in Slot : key[j] < s \/ (key[j] = s /\ j < x)}
<1>1. D \in SUBSET Slot
  OBVIOUS
<1> HIDE DEF D
<1>2. IsFiniteSet(D)
  BY <1>1, SlotFacts, FS_Subset
<1>3. Cardinality(D) \in Nat
  BY <1>2, FS_CardinalityType
<1> QED BY <1>3 DEF Rank, D

\* The cursor of a nonzero still to be scattered is a slot, and before every
\* cursor of the same shard further on and of every higher shard.
LEMMA RankBefore ==
  ASSUME NEW key \in [Slot -> Nat], NEW x \in Nat, NEW i \in Slot, x =< i
  PROVE  /\ Rank(key, x, key[i]) \in Slot
         /\ \A y, v \in Nat : key[i] < v \/ (key[i] = v /\ i < y) =>
              Rank(key, x, key[i]) < Rank(key, y, v)
<1> DEFINE D(y, v) == {j \in Slot : key[j] < v \/ (key[j] = v /\ j < y)}
           s == key[i]
<1>1. s \in Nat /\ i \in Nat /\ i \notin D(x, s)
  BY SlotFacts
<1>2. \A y, v \in Nat : /\ D(y, v) \in SUBSET Slot /\ IsFiniteSet(D(y, v))
                        /\ Cardinality(D(y, v)) \in Nat
  <2> SUFFICES ASSUME NEW y \in Nat, NEW v \in Nat
               PROVE  /\ D(y, v) \in SUBSET Slot /\ IsFiniteSet(D(y, v))
                      /\ Cardinality(D(y, v)) \in Nat
    OBVIOUS
  <2>1. D(y, v) \in SUBSET Slot
    OBVIOUS
  <2> HIDE DEF D
  <2>2. IsFiniteSet(D(y, v))
    BY <2>1, SlotFacts, FS_Subset
  <2> QED BY <2>1, <2>2, FS_CardinalityType
<1>3. Cardinality(D(x, s) \cup {i}) = Cardinality(D(x, s)) + 1
  <2> HIDE DEF D, s
  <2> QED BY <1>1, <1>2, FS_AddElement
<1>4. ASSUME NEW T, IsFiniteSet(T), D(x, s) \cup {i} \in SUBSET T
      PROVE  Cardinality(D(x, s)) < Cardinality(T)
  <2> HIDE DEF D, s
  <2>1. Cardinality(D(x, s) \cup {i}) =< Cardinality(T)
    BY <1>4, FS_Subset
  <2>2. Cardinality(T) \in Nat
    BY <1>4, FS_CardinalityType
  <2> QED BY <1>1, <1>2, <1>3, <2>1, <2>2
<1>5. \A y, v \in Nat : Rank(key, y, v) = Cardinality(D(y, v))
  BY DEF Rank
<1>6. Rank(key, x, s) \in Slot
  <2> HIDE DEF D, s
  <2>1. D(x, s) \cup {i} \in SUBSET Slot
    BY <1>1, <1>2
  <2>2. Cardinality(D(x, s)) < nnz
    BY <1>4, <2>1, SlotFacts DEF nnz
  <2>3. Rank(key, x, s) \in Nat /\ Rank(key, x, s) < nnz /\ nnz \in Nat
    BY <1>1, <1>2, <1>5, <2>2, SlotFacts
  <2> QED BY <2>3 DEF Slot
<1>7. ASSUME NEW y \in Nat, NEW v \in Nat, s < v \/ (s = v /\ i < y)
      PROVE  Rank(key, x, s) < Rank(key, y, v)
  <2>1. ASSUME NEW j \in D(x, s) PROVE j \in D(y, v)
    <3>1. j \in Slot /\ j \in Nat /\ key[j] \in Nat
      BY SlotFacts
    <3> QED BY <1>1, <1>7, <3>1
  <2>2. i \in D(y, v)
    BY <1>7
  <2> HIDE DEF D, s
  <2>3. D(x, s) \cup {i} \in SUBSET D(y, v)
    BY <2>1, <2>2
  <2> QED BY <1>1, <1>2, <1>4, <1>5, <2>3
<1> QED BY <1>6, <1>7

\* A step of the scan moves one cursor by one.
LEMMA RankNext ==
  ASSUME NEW key \in [Slot -> Nat], NEW x \in Slot, NEW s \in Nat
  PROVE  Rank(key, x + 1, s) = IF key[x] = s THEN Rank(key, x, s) + 1 ELSE Rank(key, x, s)
<1> DEFINE D(y) == {j \in Slot : key[j] < s \/ (key[j] = s /\ j < y)}
<1>1. x \in Nat /\ \A j \in Slot : j \in Nat /\ key[j] \in Nat
  BY SlotFacts
<1>a. \A j \in Slot : j < x + 1 <=> j < x \/ j = x
  BY <1>1
<1>2. ASSUME key[x] = s PROVE D(x + 1) = D(x) \cup {x} /\ x \notin D(x)
  <2>1. \A j \in Slot : j \in D(x + 1) <=> j \in D(x) \/ j = x
    BY <1>1, <1>a, <1>2
  <2>2. x \notin D(x)
    BY <1>1, <1>2
  <2> QED BY <2>1, <2>2
<1>3. ASSUME key[x] # s PROVE D(x + 1) = D(x)
  <2>1. \A j \in Slot : j \in D(x + 1) <=> j \in D(x)
    BY <1>1, <1>a, <1>3
  <2> QED BY <2>1
<1>4. IsFiniteSet(D(x))
  <2>1. D(x) \in SUBSET Slot
    OBVIOUS
  <2> HIDE DEF D
  <2> QED BY <2>1, SlotFacts, FS_Subset
<1>5. \A y : Rank(key, y, s) = Cardinality(D(y))
  BY DEF Rank
<1> HIDE DEF D
<1>6. CASE key[x] = s
  BY <1>2, <1>4, <1>5, <1>6, FS_AddElement
<1> QED BY <1>3, <1>5, <1>6

\* Every nonzero has a slot of its own.
LEMMA RankOnto ==
  ASSUME NEW key \in [Slot -> Nat]
  PROVE  /\ \A i \in Slot : Rank(key, i, key[i]) \in Slot
         /\ \A i, j \in Slot : Rank(key, i, key[i]) = Rank(key, j, key[j]) => i = j
         /\ \A d \in Slot : \E i \in Slot : Rank(key, i, key[i]) = d
<1> DEFINE f == [i \in Slot |-> Rank(key, i, key[i])]
<1>1. \A i \in Slot : i \in Nat /\ key[i] \in Nat
  BY SlotFacts
<1>2. \A i \in Slot : Rank(key, i, key[i]) \in Slot
  BY <1>1, RankBefore
<1>3. ASSUME NEW i \in Slot, NEW j \in Slot, i # j
      PROVE  Rank(key, i, key[i]) # Rank(key, j, key[j])
  <2>1. /\ Rank(key, i, key[i]) \in Nat /\ Rank(key, j, key[j]) \in Nat
        /\ i \in Nat /\ j \in Nat /\ key[i] \in Nat /\ key[j] \in Nat
    BY <1>1, RankType
  <2>2. CASE key[i] < key[j] \/ (key[i] = key[j] /\ i < j)
    <3>1. Rank(key, i, key[i]) < Rank(key, j, key[j])
      BY <2>1, <2>2, RankBefore
    <3> QED BY <2>1, <3>1
  <2>3. CASE key[j] < key[i] \/ (key[j] = key[i] /\ j < i)
    <3>1. Rank(key, j, key[j]) < Rank(key, i, key[i])
      BY <2>1, <2>3, RankBefore
    <3> QED BY <2>1, <3>1
  <2> QED BY <1>3, <2>1, <2>2, <2>3
<1>4. f \in [Slot -> Slot] /\ \A i, j \in Slot : f[i] = f[j] => i = j
  BY <1>2, <1>3
<1>5. f \in Surjection(Slot, Slot)
  <2> HIDE DEF f
  <2>1. f \in Injection(Slot, Slot)
    BY <1>4 DEF Injection, IsInjective
  <2> QED BY <2>1, SlotFacts, FS_Injection
<1>6. \A d \in Slot : \E i \in Slot : f[i] = d
  <2> HIDE DEF f
  <2> QED BY <1>5 DEF Surjection
<1> QED BY <1>2, <1>3, <1>6

\* The chunks of the threads tile the slots.
LEMMA ChunkFacts ==
  /\ ChunkSize \in Nat \ {0}
  /\ \A t \in Thread : /\ Lo(t) \in Nat /\ Hi(t) \in Nat /\ Hi(t) =< nnz
                       /\ Hi(t) = IF nnz =< Lo(t) + ChunkSize THEN nnz ELSE Lo(t) + ChunkSize
  /\ \A t, u \in Thread : t < u => Lo(t) + ChunkSize =< Lo(u)
  /\ \A i \in Slot : \A m \in 0 .. P : i < m * ChunkSize =>
       \E t \in Thread : t < m /\ i \in Lo(t) .. Hi(t) - 1
  /\ \A i \in Slot : i < P * ChunkSize
<1>1. P \in Nat \ {0} /\ nnz \in Nat \ {0}
  <2>1. nnz # 0
    BY ShapeAssumption, FS_EmptySet DEF nnz
  <2> QED BY <2>1, SlotFacts, ShapeAssumption
<1>2. ChunkSize \in Nat /\ nnz =< P * ChunkSize /\ P * ChunkSize \in Nat
  <2> DEFINE q == (nnz + P - 1) \div P
  <2>1. nnz + P - 1 \in Nat
    BY <1>1
  <2>2. q \in Nat /\ nnz + P - 1 < (q + 1) * P
    BY <1>1, <2>1, Division
  <2> HIDE DEF q
  <2>3. (q + 1) * P = P * q + P /\ P * q \in Nat
    BY <1>1, <2>2
  <2>4. nnz =< P * q
    BY <1>1, <2>2, <2>3
  <2> QED BY <2>2, <2>3, <2>4 DEF ChunkSize, q
<1>3. ChunkSize # 0
  BY <1>1, <1>2
<1>4. \A t \in Thread : t \in Nat /\ t < P /\ Lo(t) = t * ChunkSize /\ Lo(t) \in Nat
  BY <1>1, <1>2, Times DEF Thread, Lo
<1>5. ASSUME NEW t \in Thread
      PROVE  /\ Hi(t) \in Nat /\ Hi(t) =< nnz
             /\ Hi(t) = IF nnz =< Lo(t) + ChunkSize THEN nnz ELSE Lo(t) + ChunkSize
  <2>1. Lo(t) + ChunkSize \in Nat
    BY <1>2, <1>4
  <2>2. Hi(t) = IF nnz =< Lo(t) + ChunkSize THEN nnz ELSE Lo(t) + ChunkSize
    BY <1>1, <2>1, MinOfTwo DEF Hi
  <2> QED BY <1>1, <2>1, <2>2
<1>6. ASSUME NEW t \in Thread, NEW u \in Thread, t < u
      PROVE  Lo(t) + ChunkSize =< Lo(u)
  <2>1. t + 1 =< u /\ t + 1 \in Nat /\ t \in Nat /\ u \in Nat
    BY <1>4, <1>6
  <2>2. (t + 1) * ChunkSize =< u * ChunkSize
    BY <1>2, <2>1, Times
  <2>3. (t + 1) * ChunkSize = t * ChunkSize + ChunkSize
    BY <1>2, <2>1
  <2> QED BY <1>4, <2>2, <2>3
<1>7. ASSUME NEW i \in Slot, NEW m \in 0 .. P, i < m * ChunkSize
      PROVE  \E t \in Thread : t < m /\ i \in Lo(t) .. Hi(t) - 1
  <2> DEFINE t == i \div ChunkSize
  <2>0. m \in Nat /\ m =< P /\ i \in Nat /\ ChunkSize \in Nat \ {0} /\ i < nnz
    BY <1>1, <1>2, <1>3 DEF Slot
  <2>1. t \in Nat /\ t * ChunkSize =< i /\ i < (t + 1) * ChunkSize /\ t < m
    BY <1>7, <2>0, Division
  <2> HIDE DEF t
  <2>2. t \in Thread
    BY <1>1, <2>0, <2>1 DEF Thread
  <2>3. (t + 1) * ChunkSize = t * ChunkSize + ChunkSize
    BY <2>0, <2>1
  <2>4. i \in Lo(t) .. Hi(t) - 1
    BY <1>1, <1>4, <1>5, <2>0, <2>1, <2>2, <2>3
  <2> QED BY <2>1, <2>2, <2>4
<1>8. \A i \in Slot : i < P * ChunkSize
  BY <1>1, <1>2, SlotFacts DEF Slot
<1> QED BY <1>2, <1>3, <1>4, <1>5, <1>6, <1>7, <1>8

\* Every slot is in the chunk of one thread.
LEMMA ChunkCover ==
  ASSUME NEW i \in Slot
  PROVE  \E t \in Thread : i \in Lo(t) .. Hi(t) - 1
<1>1. P \in 0 .. P
  BY ShapeAssumption
<1> QED BY <1>1, ChunkFacts

\* precomp: the cursor of a thread starts where the slots before its chunk end.
LEMMA CursorStart ==
  ASSUME SlotShard \in [Slot -> Nat], NEW t \in Thread, NEW s \in Nat
  PROVE  Cursor0(t, s) = Rank(SlotShard, Lo(t), s)
<1>1. t \in Nat /\ t \in 0 .. P /\ 0 .. t - 1 \subseteq Thread
  BY ShapeAssumption DEF Thread
<1>2. ASSUME NEW i \in Slot
      PROVE  (\E u \in 0 .. t - 1 : i \in Lo(u) .. Hi(u) - 1) <=> i < Lo(t)
  <2>0. i \in Nat
    BY SlotFacts
  <2>1. ASSUME NEW u \in 0 .. t - 1, i \in Lo(u) .. Hi(u) - 1 PROVE i < Lo(t)
    <3>1. u \in Thread /\ u < t
      BY <1>1
    <3>2. /\ Lo(u) \in Nat /\ Hi(u) \in Nat /\ ChunkSize \in Nat /\ Lo(t) \in Nat
          /\ Hi(u) =< Lo(u) + ChunkSize /\ Lo(u) + ChunkSize =< Lo(t)
      <4>1. ChunkSize \in Nat /\ Lo(u) \in Nat /\ Hi(u) \in Nat /\ Lo(t) \in Nat /\ nnz \in Nat
        BY <3>1, ChunkFacts, SlotFacts
      <4>2. Hi(u) = IF nnz =< Lo(u) + ChunkSize THEN nnz ELSE Lo(u) + ChunkSize
        BY <3>1, ChunkFacts
      <4>3. Lo(u) + ChunkSize =< Lo(t)
        BY <3>1, ChunkFacts
      <4> QED BY <4>1, <4>2, <4>3
    <3> QED BY <2>0, <2>1, <3>2
  <2>2. ASSUME i < Lo(t) PROVE \E u \in 0 .. t - 1 : i \in Lo(u) .. Hi(u) - 1
    <3>1. PICK u \in Thread : u < t /\ i \in Lo(u) .. Hi(u) - 1
      BY <1>1, <2>2, ChunkFacts DEF Lo
    <3>2. u \in 0 .. t - 1
      BY <1>1, <3>1 DEF Thread
    <3> QED BY <3>1, <3>2
  <2> QED BY <2>1, <2>2
<1>3. \A i \in Slot : SlotShard[i] = ShardAt(i)
  BY DEF SlotShard
<1> DEFINE A == {i \in Slot : \/ ShardAt(i) < s
                              \/ /\ ShardAt(i) = s
                                 /\ \E u \in 0 .. t - 1 : i \in Lo(u) .. Hi(u) - 1}
           B == {j \in Slot : SlotShard[j] < s \/ (SlotShard[j] = s /\ j < Lo(t))}
<1>4. A = B
  <2>1. \A i \in Slot : i \in A <=> i \in B
    BY <1>2, <1>3
  <2> QED BY <2>1
<1> QED BY <1>4 DEF Cursor0, Rank

-----------------------------------------------------------------------------
(* The shards of a full slab. *)

LEMMA CountTypes == \A n, s : ShardBegin(n, s) \in Nat /\ ShardEnd(n, s) \in Nat
<1> TAKE n, s
<1> DEFINE Lower == {e \in Elem : Shard(n, e) < s}
           NotHigher == {e \in Elem : Shard(n, e) =< s}
<1>1. Lower \in SUBSET Elem /\ NotHigher \in SUBSET Elem
  OBVIOUS
<1>2. Cardinality(Lower) \in Nat /\ Cardinality(NotHigher) \in Nat
  <2> HIDE DEF Lower, NotHigher
  <2> QED BY <1>1, FiniteElems
<1> QED BY <1>2 DEF ShardBegin, ShardEnd

LEMMA MembersFacts ==
  ASSUME NEW n \in Mode, NEW s \in Shards(n)
  PROVE  /\ Members(n, s) \in SUBSET Elem
         /\ ShardBegin(n, s) + Cardinality(Members(n, s)) = ShardEnd(n, s)
         /\ Cardinality(Members(n, s)) \in Nat
         /\ ShardRange(n, s)
              = ShardBegin(n, s) .. ShardBegin(n, s) + Cardinality(Members(n, s)) - 1
<1> DEFINE Lower == {e \in Elem : Shard(n, e) < s}
           NotHigher == {e \in Elem : Shard(n, e) =< s}
           M == Members(n, s)
<1>1. s \in Nat /\ \A e \in Elem : Shard(n, e) \in Nat
  BY ShardType, ClassFacts
<1>2. NotHigher = Lower \cup M /\ Lower \cap M = {} /\ M \in SUBSET Elem
  <2>1. \A e \in Elem : e \in NotHigher <=> e \in Lower \/ e \in M
    BY <1>1 DEF Members
  <2> QED BY <1>1, <2>1 DEF Members
<1>3. IsFiniteSet(Lower) /\ Cardinality(Lower) \in Nat /\ IsFiniteSet(M) /\ Cardinality(M) \in Nat
  <2>1. Lower \in SUBSET Elem  OBVIOUS
  <2> HIDE DEF Lower, M
  <2> QED BY <1>2, <2>1, FiniteElems
<1>4. Cardinality(NotHigher) = Cardinality(Lower) + Cardinality(M)
  <2> HIDE DEF Lower, NotHigher, M
  <2>1. Cardinality(Lower \cup M) = Cardinality(Lower) + Cardinality(M) - Cardinality(Lower \cap M)
    BY <1>3, FS_Union
  <2>2. Cardinality(Lower \cap M) = 0
    BY <1>2, FS_EmptySet
  <2> QED BY <1>2, <1>3, <2>1, <2>2
<1>5. ShardBegin(n, s) = Cardinality(Lower) /\ ShardEnd(n, s) = Cardinality(NotHigher)
  BY DEF ShardBegin, ShardEnd
<1> HIDE DEF Lower, NotHigher
<1> QED BY <1>2, <1>3, <1>4, <1>5 DEF ShardRange

LEMMA ShardRegion ==
  ASSUME NEW n \in Mode, NEW s \in Shards(n), NEW slab, Grouped(slab, n)
  PROVE  Region(slab, Members(n, s), ShardBegin(n, s))
<1>1. ShardEnd(n, s) =< nnz
  BY RangeOrder
<1>2. ASSUME NEW i \in Slot
      PROVE  slab[i] \in Members(n, s) <=> i \in ShardRange(n, s)
  <2>1. slab[i] \in Elem /\ i \in ShardRange(n, Shard(n, slab[i]))
    BY GroupedFacts
  <2>2. i \in ShardRange(n, s) => Shard(n, slab[i]) = s
    BY GroupedFacts
  <2> QED BY <2>1, <2>2 DEF Members
<1> QED BY <1>1, <1>2, MembersFacts DEF Region

LEMMA WholeRegion ==
  ASSUME NEW slab \in Bijection(Slot, Elem)
  PROVE  Region(slab, Elem, 0)
<1>1. slab \in [Slot -> Elem] /\ nnz \in Nat /\ Cardinality(Elem) = nnz
  BY SlotFacts DEF Bijection, Injection, nnz
<1>2. \A i \in Slot : slab[i] \in Elem /\ i \in 0 .. 0 + Cardinality(Elem) - 1
  BY <1>1 DEF Slot
<1> QED BY <1>1, <1>2 DEF Region

\* The classes of the sort by shard are the shards.
LEMMA ShardClass ==
  ASSUME NEW n \in Mode, NEW k
  PROVE  /\ ClassBegin(Elem, 0, ShardKey(n), k) = ShardBegin(n, k)
         /\ ClassEnd(Elem, 0, ShardKey(n), k) = ShardEnd(n, k)
<1> DEFINE Lower == {e \in Elem : Shard(n, e) < k}
           NotHigher == {e \in Elem : Shard(n, e) =< k}
<1>1. \A e \in Elem : ShardKey(n)[e] = Shard(n, e)
  BY DEF ShardKey
<1>2. {e \in Elem : ShardKey(n)[e] < k} = Lower /\ {e \in Elem : ShardKey(n)[e] =< k} = NotHigher
  BY <1>1
<1>3. Lower \in SUBSET Elem /\ NotHigher \in SUBSET Elem
  OBVIOUS
<1>4. Cardinality(Lower) \in Nat /\ Cardinality(NotHigher) \in Nat
  <2> HIDE DEF Lower, NotHigher
  <2> QED BY <1>3, FiniteElems
<1> QED BY <1>2, <1>4 DEF ClassBegin, ClassEnd, ShardBegin, ShardEnd

\* Counting the slots of a full slab counts the nonzeros.
LEMMA CountSlots ==
  ASSUME NEW n \in Mode, NEW slab \in Bijection(Slot, Elem), NEW s
  PROVE  /\ Cardinality({i \in Slot : Shard(n, slab[i]) < s}) = ShardBegin(n, s)
         /\ Cardinality({i \in Slot : Shard(n, slab[i]) =< s}) = ShardEnd(n, s)
<1> DEFINE Lower == {e \in Elem : Shard(n, e) < s}
           NotHigher == {e \in Elem : Shard(n, e) =< s}
<1>1. \A i \in Slot : slab[i] \in Elem
  BY DEF Bijection, Injection
<1>2. {i \in Slot : Shard(n, slab[i]) < s} = {i \in Slot : slab[i] \in Lower}
  BY <1>1
<1>3. {i \in Slot : Shard(n, slab[i]) =< s} = {i \in Slot : slab[i] \in NotHigher}
  BY <1>1
<1>4. Lower \in SUBSET Elem /\ NotHigher \in SUBSET Elem
  OBVIOUS
<1>5. /\ Cardinality({i \in Slot : slab[i] \in Lower}) = Cardinality(Lower)
      /\ Cardinality({i \in Slot : slab[i] \in NotHigher}) = Cardinality(NotHigher)
  <2> HIDE DEF Lower, NotHigher
  <2> QED BY <1>4, SlotsOf
<1> QED BY <1>2, <1>3, <1>5 DEF ShardBegin, ShardEnd

\* A shard ends where the next one begins, and the last one at the slab's end.
LEMMA NextShard ==
  ASSUME NEW n \in Mode, NEW s \in Shards(n)
  PROVE  /\ s + 1 \in Shards(n) => ShardBegin(n, s + 1) = ShardEnd(n, s)
         /\ s + 1 \notin Shards(n) => ShardEnd(n, s) = nnz
<1>1. s \in Nat /\ \A e \in Elem : Shard(n, e) \in Nat /\ Shard(n, e) \in Shards(n)
  BY ShardType, ClassFacts
<1>2. {e \in Elem : Shard(n, e) < s + 1} = {e \in Elem : Shard(n, e) =< s}
  <2>1. \A e \in Elem : Shard(n, e) < s + 1 <=> Shard(n, e) =< s
    BY <1>1
  <2> QED BY <2>1
<1>3. ASSUME s + 1 \notin Shards(n) PROVE {e \in Elem : Shard(n, e) =< s} = Elem
  <2>1. NumShards(n) \in Int
    BY TensorAssumption DEF NumShards
  <2>2. \A e \in Elem : Shard(n, e) =< s
    BY <1>1, <1>3, <2>1 DEF Shards
  <2> QED BY <2>2
<1> QED BY <1>2, <1>3 DEF ShardBegin, ShardEnd, nnz

\* With one shard, or one nonzero, every order is grouped by shard.
LEMMA NothingToSort ==
  ASSUME NEW n \in Mode, NEW slab \in Bijection(Slot, Elem), ~(nnz > 1 /\ NumShards(n) > 1)
  PROVE  Grouped(slab, n)
<1>1. slab \in [Slot -> Elem] /\ \A i, j \in Slot : slab[i] = slab[j] => i = j
  BY DEF Bijection, Injection, IsInjective
<1>2. ASSUME NEW d \in Slot PROVE d \in ShardRange(n, Shard(n, slab[d]))
  <2> DEFINE s == Shard(n, slab[d])
             T == {e \in Elem : Shard(n, e) =< s}
  <2>1. /\ s \in Shards(n) /\ s \in Nat /\ d \in Nat /\ d < nnz /\ nnz \in Nat
        /\ NumShards(n) \in Int
    BY <1>1, ShardType, SlotFacts, TensorAssumption DEF Slot, NumShards
  <2>2. ShardBegin(n, s) \in Nat /\ ShardEnd(n, s) \in Nat
    BY <2>1, RangeOrder
  <2>3. \A e \in Elem : Shard(n, e) = s
    <3>1. CASE NumShards(n) =< 1
      <4>1. \A e \in Elem : Shard(n, e) \in 0 .. NumShards(n) - 1
        BY ShardType DEF Shards
      <4> QED BY <2>1, <3>1, <4>1 DEF Shards
    <3>2. CASE nnz =< 1
      <4>1. \A i \in Slot : i = d
        BY <2>1, <3>2 DEF Slot
      <4>2. \A e \in Elem : \E i \in Slot : slab[i] = e
        BY DEF Bijection, Surjection
      <4> QED BY <4>1, <4>2
    <3> QED BY <2>1, <3>1, <3>2
  <2>4. ShardBegin(n, s) = 0
    <3>1. {e \in Elem : Shard(n, e) < s} = {}
      BY <2>1, <2>3
    <3> QED BY <3>1, FS_EmptySet DEF ShardBegin
  <2>5. ShardEnd(n, s) = nnz
    <3>1. {e \in Elem : Shard(n, e) =< s} = Elem
      BY <2>1, <2>3
    <3> QED BY <3>1 DEF ShardEnd, nnz
  <2> QED BY <2>1, <2>2, <2>4, <2>5 DEF ShardRange
<1> QED BY <1>2 DEF Grouped

-----------------------------------------------------------------------------
(* The invariant holds initially, and when process is called. *)

LEMMA SlotShardType ==
  ASSUME TypeInv
  PROVE  /\ SlotShard \in [Slot -> Nat]
         /\ \A i \in Slot : /\ SlotShard[i] = ShardAt(i) /\ cols[mode][i] \in Elem
                            /\ ShardAt(i) = Shard(mode, cols[mode][i])
                            /\ ShardAt(i) \in Shards(mode) /\ ShardAt(i) \in Sid
                            /\ ShardAt(i) \in Nat
<1>1. mode \in Mode /\ \A i \in Slot : cols[mode][i] \in Elem
  BY ColumnFacts DEF TypeInv
<1>2. \A i \in Slot : /\ ShardAt(i) = Shard(mode, cols[mode][i])
                      /\ ShardAt(i) \in Shards(mode) /\ ShardAt(i) \in Nat
  BY <1>1, ShardType DEF ShardAt
<1> QED BY <1>1, <1>2, ClassFacts DEF SlotShard

\* The slots pass 2 takes for a shard are the shard's.
LEMMA CountedSlots ==
  ASSUME mode \in Mode, \A s \in Shards(mode) : cnt[s] = ShardBegin(mode, s),
         NEW s \in Shards(mode)
  PROVE  ShardSlots(s) = ShardRange(mode, s)
BY NextShard DEF ShardSlots, ShardRange

LEMMA InitInv == Init => IInv
<1> SUFFICES ASSUME Init PROVE IInv
  OBVIOUS
<1>0. /\ 0 \in Mode /\ 0 \in Thread /\ N \in Nat
  BY ModeFacts, ShapeAssumption DEF Thread
<1>1. PICK slab \in Bijection(Slot, Elem) :
        Grouped(slab, 0) /\ cols = [c \in Column |-> slab]
  BY DEF Init
<1>2. slab \in [Slot -> Elem]
  BY DEF Bijection, Injection
<1>3. \A c \in Column : cols[c] = slab
  BY <1>1
<1>4. (CHOOSE e \in Elem : TRUE) \in Elem
  BY ShapeAssumption
<1>5. TypeInv
  <2>1. cols \in [Column -> [Slot -> Elem]] /\ scr \in [Slot -> Elem]
    BY <1>1, <1>2, <1>4 DEF Init
  <2>2. /\ cnt \in [Sid -> Nat] /\ off \in [Thread -> [Sid -> Nat]] /\ pos \in [Thread -> Nat]
        /\ beg \in [Thread -> [Class -> Nat]] /\ fin \in [Thread -> [Class -> Nat]]
    BY SlotFacts DEF Init, NoFlag
  <2>3. yhat \in [Mode -> [Elem -> Nat]]
    BY DEF Init
  <2> QED BY <1>0, <2>1, <2>2, <2>3 DEF Init, TypeInv
<1>6. OrderInv
  BY <1>0, <1>1, <1>3, ColumnFacts DEF Init, OrderInv, Aligned
<1>7. SerialInv
  BY DEF Init, SerialInv, Flagging, NoFlag
<1> QED BY <1>5, <1>6, <1>7 DEF Init, IInv, CountInv, ScatterInv, RowsInv, KernelInv

LEMMA BeginSortedStep == IInv /\ BeginSorted => IInv'
<1> SUFFICES ASSUME IInv, BeginSorted PROVE IInv'
  OBVIOUS
<1> USE DEF BeginSorted, sortVars
<1>1. TypeInv'
  BY DEF IInv, TypeInv
<1>2. OrderInv'
  BY DEF IInv, OrderInv, Aligned
<1>3. SerialInv'
  BY DEF IInv, SerialInv, Flagging
<1> QED BY <1>1, <1>2, <1>3 DEF IInv, CountInv, ScatterInv, RowsInv, KernelInv

LEMMA BeginTrivialStep == IInv /\ BeginTrivial => IInv'
<1> SUFFICES ASSUME IInv, BeginTrivial PROVE IInv'
  OBVIOUS
<1> USE DEF BeginTrivial, sortVars
<1>1. TypeInv'
  BY DEF IInv, TypeInv
<1>2. OrderInv'
  <2>1. mode \in Mode /\ cols[mode] \in Bijection(Slot, Elem)
    BY ColumnFacts DEF IInv, TypeInv, OrderInv, Aligned
  <2>2. Grouped(cols[mode], mode)
    BY <2>1, NothingToSort DEF NeedsSort
  <2> QED BY <2>2 DEF IInv, OrderInv, Aligned
<1>3. SerialInv'
  BY DEF IInv, SerialInv, Flagging
<1> QED BY <1>1, <1>2, <1>3 DEF IInv, CountInv, ScatterInv, RowsInv, KernelInv

LEMMA BeginSerialStep == IInv /\ BeginSerial => IInv'
<1> SUFFICES ASSUME IInv, BeginSerial PROVE IInv'
  OBVIOUS
<1>0. /\ phase = "idle" /\ phase' = "serial"
      /\ UNCHANGED <<mode, parallel, sorted, cols, scr, col, off, pos, todo, pending, yhat>>
  BY DEF BeginSerial
<1>1. /\ TypeInv /\ mode \in Mode /\ 0 \in Thread
      /\ cols[mode] \in Bijection(Slot, Elem)
  BY <1>0, ColumnFacts, ShapeAssumption DEF IInv, TypeInv, OrderInv, Aligned, Thread
<1>2. \A k : /\ Cardinality({i \in Slot : ShardAt(i) < k}) = ShardBegin(mode, k)
             /\ Cardinality({i \in Slot : ShardAt(i) =< k}) = ShardEnd(mode, k)
  <2> TAKE k
  <2>1. /\ {i \in Slot : ShardAt(i) < k} = {i \in Slot : Shard(mode, cols[mode][i]) < k}
        /\ {i \in Slot : ShardAt(i) =< k} = {i \in Slot : Shard(mode, cols[mode][i]) =< k}
    BY DEF ShardAt
  <2> QED BY <1>1, <2>1, CountSlots
<1>3. \A k : ShardBegin(mode, k) \in Nat /\ ShardEnd(mode, k) \in Nat
  BY CountTypes
<1>4. cnt' = [s \in Sid |-> ShardBegin(mode, s)]
  BY <1>2 DEF BeginSerial
<1> DEFINE b == [k \in Class |-> ClassBegin(Elem, 0, ShardKey(mode), k)]
           f == [k \in Class |-> ClassEnd(Elem, 0, ShardKey(mode), k)]
<1>5. b = FlagStart(Slot, 0, ShardAt) /\ f = FlagEnd(Slot, 0, ShardAt)
  <2>1. \A k : /\ ClassBegin(Elem, 0, ShardKey(mode), k) = 0 + Cardinality({i \in Slot : ShardAt(i) < k})
               /\ ClassEnd(Elem, 0, ShardKey(mode), k) = 0 + Cardinality({i \in Slot : ShardAt(i) =< k})
    BY <1>1, <1>2, <1>3, ShardClass
  <2> QED BY <2>1 DEF FlagStart, FlagEnd
<1>6. Filling(b, f, cols[mode], Elem, 0, ShardKey(mode)) /\ b \in [Class -> Nat] /\ f \in [Class -> Nat]
  <2>1. Elem \in SUBSET Elem /\ 0 \in Nat /\ ShardKey(mode) \in [Elem -> Nat]
    BY <1>1, KeyTypes
  <2> QED BY <2>1, FillStart
<1> HIDE DEF b, f
<1>7. /\ beg' = [beg EXCEPT ![0] = b] /\ fin' = [fin EXCEPT ![0] = f]
  BY <1>5 DEF BeginSerial
<1>8. /\ beg' \in [Thread -> [Class -> Nat]] /\ beg'[0] = b
      /\ fin' \in [Thread -> [Class -> Nat]] /\ fin'[0] = f
      /\ \A t \in Thread \ {0} : beg'[t] = beg[t] /\ fin'[t] = fin[t]
  BY <1>1, <1>6, <1>7 DEF TypeInv
<1>9. TypeInv'
  BY <1>0, <1>1, <1>3, <1>4, <1>8 DEF TypeInv
<1>10. OrderInv'
  BY <1>0 DEF IInv, OrderInv, Aligned
<1>11. CountInv'
  BY <1>0, <1>1, <1>4, ClassFacts DEF CountInv
<1>12. SerialInv'
  <2>1. \A t \in Thread \ {0} : Flagging(t)' = {}
    BY <1>0, <1>8 DEF IInv, SerialInv, Flagging
  <2> QED BY <1>0, <1>6, <1>8, <2>1 DEF SerialInv
<1> QED BY <1>0, <1>9, <1>10, <1>11, <1>12 DEF IInv, ScatterInv, RowsInv, KernelInv

-----------------------------------------------------------------------------
(* The parallel pass 1. *)

\* vals, the other index columns, and the mode's own column last.
LEMMA ColumnOrder ==
  ASSUME mode \in Mode
  PROVE  /\ \A c \in 0 .. N : ColumnAt(c) \in Column
         /\ \A c \in 0 .. N : ColumnAt(c) = mode <=> c = N
         /\ \A c, d \in 0 .. N : ColumnAt(c) = ColumnAt(d) => c = d
         /\ \A x \in Column : \E c \in 0 .. N : ColumnAt(c) = x
<1>1. N \in Nat /\ N > 1 /\ mode \in Nat /\ mode < N
  BY ShapeAssumption DEF Mode
<1>2. \A x : x \in Column <=> x \in 0 .. N
  BY <1>1 DEF Column, Mode, ValsColumn
<1>3. \A c \in 0 .. N : /\ c = 0 => ColumnAt(c) = N
                        /\ c = N => ColumnAt(c) = mode
                        /\ c # 0 /\ c # N /\ c - 1 < mode => ColumnAt(c) = c - 1
                        /\ c # 0 /\ c # N /\ ~(c - 1 < mode) => ColumnAt(c) = c
  BY <1>1 DEF ColumnAt, ValsColumn
<1>4. \A c \in 0 .. N : ColumnAt(c) \in Column
  <2> SUFFICES ASSUME NEW c \in 0 .. N PROVE ColumnAt(c) \in 0 .. N
    BY <1>2
  <2> QED BY <1>1, <1>3
<1>5. \A c \in 0 .. N : ColumnAt(c) = mode <=> c = N
  BY <1>1, <1>3
<1>6. ASSUME NEW c \in 0 .. N, NEW d \in 0 .. N, ColumnAt(c) = ColumnAt(d)
      PROVE  c = d
  BY <1>1, <1>3, <1>6
<1>7. ASSUME NEW x \in 0 .. N PROVE \E c \in 0 .. N : ColumnAt(c) = x
  <2>1. CASE x = N
    <3>1. 0 \in 0 .. N  BY <1>1
    <3> QED BY <1>3, <2>1, <3>1
  <2>2. CASE x = mode
    <3>1. N \in 0 .. N  BY <1>1
    <3> QED BY <1>3, <2>2, <3>1
  <2>3. CASE x < mode
    <3>1. x + 1 \in 0 .. N /\ x + 1 # 0 /\ x + 1 # N /\ (x + 1) - 1 = x  BY <1>1, <2>3
    <3> QED BY <1>3, <2>3, <3>1
  <2>4. CASE mode < x /\ x < N
    <3>1. x # 0 /\ x # N /\ ~(x - 1 < mode)  BY <1>1, <2>4
    <3> QED BY <1>3, <3>1
  <2> QED BY <1>1, <2>1, <2>2, <2>3, <2>4
<1> QED BY <1>2, <1>4, <1>5, <1>6, <1>7

\* The slot a nonzero is scattered to is in its shard's range.
LEMMA DestInShard ==
  ASSUME TypeInv, cols[mode] \in Bijection(Slot, Elem), NEW i \in Slot
  PROVE  Dest(i) \in ShardRange(mode, ShardAt(i))
<1> DEFINE s == ShardAt(i)
           key == SlotShard
           Lower == {j \in Slot : ShardAt(j) < s}
           D == {j \in Slot : key[j] < s \/ (key[j] = s /\ j < i)}
           NotHigher == {j \in Slot : ShardAt(j) =< s}
<1>1. /\ \A j \in Slot : key[j] = ShardAt(j) /\ key[j] \in Nat /\ ShardAt(j) \in Nat
      /\ key \in [Slot -> Nat] /\ s \in Shards(mode) /\ mode \in Mode
  BY SlotShardType DEF TypeInv
<1>2. Cardinality(Lower) = ShardBegin(mode, s) /\ Cardinality(NotHigher) = ShardEnd(mode, s)
  <2>1. /\ Lower = {j \in Slot : Shard(mode, cols[mode][j]) < s}
        /\ NotHigher = {j \in Slot : Shard(mode, cols[mode][j]) =< s}
    BY DEF ShardAt
  <2> HIDE DEF Lower, NotHigher, s
  <2> QED BY <1>1, <2>1, CountSlots
<1>3. Lower \in SUBSET D /\ D \cup {i} \in SUBSET NotHigher /\ i \notin D
      /\ NotHigher \in SUBSET Slot /\ D \in SUBSET Slot
  <2>1. \A j \in Slot : j \in Nat
    BY SlotFacts
  <2>2. \A j \in Lower : j \in D
    BY <1>1
  <2>3. \A j \in D : j \in NotHigher
    BY <1>1
  <2>4. i \in NotHigher /\ i \notin D
    BY <1>1, <2>1
  <2>5. NotHigher \in SUBSET Slot /\ D \in SUBSET Slot
    OBVIOUS
  <2> HIDE DEF D, Lower, NotHigher
  <2> QED BY <2>2, <2>3, <2>4, <2>5
<1>4. /\ ShardBegin(mode, s) \in Nat /\ ShardEnd(mode, s) \in Nat
  BY <1>1, RangeOrder
<1> HIDE DEF D, Lower, NotHigher
<1>5. /\ IsFiniteSet(D) /\ IsFiniteSet(NotHigher) /\ Cardinality(D) \in Nat
  BY <1>3, SlotFacts, FS_Subset, FS_CardinalityType
<1>6. Cardinality(Lower) =< Cardinality(D)
  BY <1>3, <1>5, FS_Subset
<1>7. Cardinality(D) + 1 =< Cardinality(NotHigher)
  <2>1. Cardinality(D \cup {i}) = Cardinality(D) + 1
    BY <1>3, <1>5, FS_AddElement
  <2>2. Cardinality(D \cup {i}) =< Cardinality(NotHigher)
    BY <1>3, <1>5, FS_Subset
  <2> QED BY <2>1, <2>2
<1>8. Dest(i) = Cardinality(D)
  BY DEF Dest, Rank, D
<1> HIDE DEF s
<1>9. Dest(i) \in ShardBegin(mode, s) .. ShardEnd(mode, s) - 1
  BY <1>2, <1>4, <1>5, <1>6, <1>7, <1>8
<1> QED BY <1>9 DEF ShardRange, s

\* The cursors as every column of pass 1 starts with them.
LEMMA FreshCursors ==
  ASSUME TypeInv
  PROVE  /\ Cursors \in [Thread -> [Sid -> Nat]]
         /\ \A t \in Thread : \A s \in Shards(mode) :
              Cursors[t][s] = Rank(SlotShard, Lo(t), s)
<1>1. SlotShard \in [Slot -> Nat] /\ mode \in Mode
  BY SlotShardType DEF TypeInv
<1>2. ASSUME NEW t \in Thread, NEW s \in Sid
      PROVE  Cursor0(t, s) = Rank(SlotShard, Lo(t), s) /\ Cursor0(t, s) \in Nat
  <2>1. s \in Nat /\ Lo(t) \in Nat
    BY ClassFacts, ChunkFacts
  <2> QED BY <1>1, <2>1, CursorStart, RankType
<1>3. Shards(mode) \subseteq Sid
  BY <1>1, ClassFacts
<1> QED BY <1>2, <1>3 DEF Cursors

\* The shards' first slots, from the cursors of the first thread.
LEMMA FirstCursor ==
  ASSUME TypeInv, cols[mode] \in Bijection(Slot, Elem), NEW s \in Nat
  PROVE  Cursor0(0, s) = ShardBegin(mode, s)
<1>1. /\ SlotShard \in [Slot -> Nat] /\ mode \in Mode /\ 0 \in Thread
      /\ \A j \in Slot : SlotShard[j] = ShardAt(j) /\ ShardAt(j) = Shard(mode, cols[mode][j])
  <2>1. mode \in Mode  BY DEF TypeInv
  <2>2. 0 \in Thread  BY ShapeAssumption DEF Thread
  <2> QED BY <2>1, <2>2, SlotShardType
<1>2. Lo(0) = 0
  BY ChunkFacts DEF Lo
<1>3. Cursor0(0, s) = Rank(SlotShard, 0, s)
  BY <1>1, <1>2, CursorStart
<1>4. {j \in Slot : SlotShard[j] < s \/ (SlotShard[j] = s /\ j < 0)}
        = {j \in Slot : Shard(mode, cols[mode][j]) < s}
  <2>1. \A j \in Slot : ~(j < 0)
    BY SlotFacts
  <2> QED BY <1>1, <2>1
<1> QED BY <1>1, <1>3, <1>4, CountSlots DEF Rank

LEMMA BeginParallelStep == IInv /\ BeginParallel => IInv'
<1> SUFFICES ASSUME IInv, BeginParallel PROVE IInv'
  OBVIOUS
<1>0. /\ phase = "idle" /\ phase' = "scatter"
      /\ cnt' = [s \in Sid |-> Cursor0(0, s)] /\ col' = 0 /\ off' = Cursors
      /\ pos' = [t \in Thread |-> Lo(t)]
      /\ UNCHANGED <<mode, parallel, sorted, cols, scr, todo, beg, fin, pending, yhat>>
  BY DEF BeginParallel
<1>1. /\ TypeInv /\ mode \in Mode
      /\ cols[mode] \in Bijection(Slot, Elem) /\ \A c \in Column : cols[c] = cols[mode]
  BY <1>0, ColumnFacts DEF IInv, TypeInv, OrderInv, Aligned
<1>2. TypeInv'
  <2>1. cnt' \in [Sid -> Nat]
    BY <1>0, <1>1, FirstCursor, ClassFacts, CountTypes
  <2>2. off' \in [Thread -> [Sid -> Nat]] /\ pos' \in [Thread -> Nat]
    BY <1>0, <1>1, FreshCursors, ChunkFacts
  <2>3. col' \in 0 .. N + 1
    BY <1>0, ShapeAssumption
  <2> QED BY <1>0, <1>1, <2>1, <2>2, <2>3 DEF TypeInv
<1>3. OrderInv'
  BY <1>0 DEF OrderInv
<1>4. CountInv'
  <2>1. ASSUME NEW s \in Shards(mode) PROVE cnt'[s] = ShardBegin(mode, s)
    <3>1. s \in Sid /\ s \in Nat
      BY <1>1, ClassFacts
    <3> QED BY <1>0, <1>1, <3>1, FirstCursor
  <2> QED BY <1>0, <2>1 DEF CountInv
<1>5. SlotShard' = SlotShard /\ mode' = mode
  BY <1>0 DEF SlotShard, ShardAt
<1>6. CursorInv'
  <2>1. \A t \in Thread : pos'[t] = Lo(t) /\ Lo(t) \in Nat
    BY <1>0, ChunkFacts
  <2>2. \A t \in Thread : \A s \in Shards(mode) : off'[t][s] = Rank(SlotShard, Lo(t), s)
    BY <1>0, <1>1, FreshCursors
  <2> SUFFICES ASSUME NEW t \in Thread
               PROVE  /\ Lo(t) =< pos'[t] /\ (Lo(t) < pos'[t] => pos'[t] =< Hi(t))
                      /\ \A s \in Shards(mode) : off'[t][s] = Rank(SlotShard, pos'[t], s)
    BY <1>5 DEF CursorInv
  <2>3. Lo(t) =< pos'[t] /\ ~(Lo(t) < pos'[t])
    BY <2>1
  <2> QED BY <2>1, <2>2, <2>3
<1>7. ColumnInv'
  <2>1. ASSUME NEW t \in Thread PROVE Lo(t) .. pos'[t] - 1 = {}
    BY <1>0, ChunkFacts
  <2>2. ASSUME NEW c \in 0 .. N PROVE ~(c < col') /\ cols'[ColumnAt(c)'] = cols'[mode']
    <3>1. ColumnAt(c)' = ColumnAt(c)
      BY <1>5 DEF ColumnAt
    <3> QED BY <1>0, <1>1, <3>1, ColumnOrder
  <2>3. cols'[mode'] \in Bijection(Slot, Elem) /\ col' =< N
    BY <1>0, <1>1, ShapeAssumption
  <2> QED BY <2>1, <2>2, <2>3 DEF ColumnInv
<1>8. SerialInv'
  BY <1>0 DEF IInv, SerialInv, Flagging
<1> QED BY <1>0, <1>2, <1>3, <1>4, <1>6, <1>7, <1>8 DEF IInv, ScatterInv, RowsInv, KernelInv

\* Where a thread is in its chunk, and where it puts the next nonzero.
LEMMA ScatterFacts ==
  ASSUME IInv, phase = "scatter", NEW t \in Thread, pos[t] < Hi(t)
  PROVE  LET x == pos[t]
             s == ShardAt(x)
         IN  /\ x \in Slot /\ s \in Shards(mode) /\ s \in Sid
             /\ off[t][s] = Dest(x) /\ Dest(x) \in Slot
             /\ cols[ColumnAt(col)] = cols[mode] /\ cols[mode] \in [Slot -> Elem]
<1>1. /\ TypeInv /\ CursorInv /\ ColumnInv /\ mode \in Mode
      /\ col \in 0 .. N
  BY DEF IInv, ScatterInv, TypeInv, ColumnInv
<1>2. pos[t] \in Slot
  <2>1. pos[t] \in Nat /\ Hi(t) \in Nat /\ Hi(t) =< nnz /\ nnz \in Nat
    BY <1>1, ChunkFacts, SlotFacts DEF TypeInv
  <2> QED BY <2>1 DEF Slot
<1>3. /\ ShardAt(pos[t]) \in Shards(mode) /\ ShardAt(pos[t]) \in Sid
      /\ SlotShard[pos[t]] = ShardAt(pos[t]) /\ SlotShard \in [Slot -> Nat]
  BY <1>1, <1>2, SlotShardType
<1>4. off[t][ShardAt(pos[t])] = Dest(pos[t])
  BY <1>1, <1>3 DEF CursorInv, Dest
<1>5. Dest(pos[t]) \in Slot
  BY <1>2, <1>3, RankOnto DEF Dest
<1>6. cols[ColumnAt(col)] = cols[mode]
  BY <1>1 DEF ColumnInv
<1>7. cols[mode] \in [Slot -> Elem]
  BY <1>1, ColumnFacts DEF TypeInv
<1> QED BY <1>2, <1>3, <1>4, <1>5, <1>6, <1>7

LEMMA ScatterStep == ASSUME IInv, NEW t \in Thread, Scatter(t) PROVE IInv'
<1> DEFINE x == pos[t]
           s == ShardAt(x)
<1>0. /\ phase = "scatter" /\ x < Hi(t)
      /\ scr' = [scr EXCEPT ![off[t][s]] = cols[ColumnAt(col)][x]]
      /\ off' = [off EXCEPT ![t][s] = @ + 1]
      /\ pos' = [pos EXCEPT ![t] = @ + 1]
      /\ UNCHANGED <<mode, phase, parallel, sorted, cols, cnt, col, todo, beg, fin,
                     pending, yhat>>
  BY DEF Scatter
<1>1. /\ TypeInv /\ CursorInv /\ ColumnInv /\ CountInv /\ mode \in Mode
  BY <1>0 DEF IInv, ScatterInv, TypeInv
<1>2. /\ x \in Slot /\ s \in Shards(mode) /\ s \in Sid
      /\ off[t][s] = Dest(x) /\ Dest(x) \in Slot
      /\ cols[ColumnAt(col)] = cols[mode] /\ cols[mode] \in [Slot -> Elem]
  BY <1>0, ScatterFacts
<1>3. /\ SlotShard' = SlotShard /\ SlotShard \in [Slot -> Nat]
      /\ \A i \in Slot : SlotShard[i] = ShardAt(i) /\ Dest(i)' = Dest(i)
      /\ \A c : ColumnAt(c)' = ColumnAt(c)
  <2>1. SlotShard' = SlotShard /\ \A c : ColumnAt(c)' = ColumnAt(c)
    BY <1>0 DEF SlotShard, ShardAt, ColumnAt
  <2>2. \A i \in Slot : Dest(i)' = Dest(i)
    BY <1>0, <2>1 DEF Dest, ShardAt
  <2> QED BY <1>1, <2>1, <2>2, SlotShardType
<1>4. /\ pos \in [Thread -> Nat] /\ off \in [Thread -> [Sid -> Nat]] /\ scr \in [Slot -> Elem]
      /\ x \in Nat
  BY <1>1 DEF TypeInv
<1> HIDE DEF s
<1>5. /\ pos' \in [Thread -> Nat] /\ pos'[t] = x + 1
      /\ \A u \in Thread \ {t} : pos'[u] = pos[u]
  BY <1>0, <1>4
<1>6. /\ off' \in [Thread -> [Sid -> Nat]]
      /\ off'[t][s] = off[t][s] + 1
      /\ \A v \in Sid \ {s} : off'[t][v] = off[t][v]
      /\ \A u \in Thread \ {t} : off'[u] = off[u]
  BY <1>0, <1>2, <1>4
<1>7. /\ scr' \in [Slot -> Elem] /\ scr'[Dest(x)] = cols[ColumnAt(col)][x]
      /\ \A d \in Slot \ {Dest(x)} : scr'[d] = scr[d]
  <2> HIDE DEF x
  <2> QED BY <1>0, <1>2, <1>4
<1>8. TypeInv'
  BY <1>0, <1>1, <1>5, <1>6, <1>7 DEF TypeInv
<1>9. CursorInv'
  <2> SUFFICES ASSUME NEW u \in Thread
               PROVE  /\ Lo(u) =< pos'[u] /\ (Lo(u) < pos'[u] => pos'[u] =< Hi(u))
                      /\ \A v \in Shards(mode) : off'[u][v] = Rank(SlotShard, pos'[u], v)
    BY <1>0, <1>3 DEF CursorInv
  <2>1. /\ Lo(u) =< pos[u] /\ (Lo(u) < pos[u] => pos[u] =< Hi(u))
        /\ \A v \in Shards(mode) : off[u][v] = Rank(SlotShard, pos[u], v)
    BY <1>1 DEF CursorInv
  <2>2. CASE u # t
    BY <1>5, <1>6, <2>1, <2>2
  <2>3. CASE u = t
    <3>1. Lo(t) \in Nat /\ Hi(t) \in Nat
      BY ChunkFacts
    <3>2. Lo(t) =< x + 1 /\ x + 1 =< Hi(t)
      BY <1>0, <1>4, <2>1, <2>3, <3>1
    <3>3. ASSUME NEW v \in Shards(mode)
          PROVE  off'[t][v] = Rank(SlotShard, x + 1, v)
      <4>1. v \in Nat /\ v \in Sid
        BY <1>1, ClassFacts
      <4>2. SlotShard[x] = s
        BY <1>2, <1>3 DEF s
      <4>3. Rank(SlotShard, x + 1, v)
              = IF SlotShard[x] = v THEN Rank(SlotShard, x, v) + 1 ELSE Rank(SlotShard, x, v)
        BY <1>2, <1>3, <4>1, RankNext
      <4>4. off[t][v] = Rank(SlotShard, x, v)
        BY <2>1, <2>3
      <4>5. CASE v = s  BY <1>6, <4>2, <4>3, <4>4, <4>5
      <4>6. CASE v # s  BY <1>6, <4>1, <4>2, <4>3, <4>4, <4>6
      <4> QED BY <4>5, <4>6
    <3> QED BY <1>5, <2>3, <3>2, <3>3
  <2> QED BY <2>2, <2>3
<1>10. ColumnInv'
  <2>1. ASSUME NEW u \in Thread, NEW i \in Lo(u) .. pos'[u] - 1
        PROVE  scr'[Dest(i)] = cols[ColumnAt(col)][i]
    <3>1. CASE i = x
      BY <1>7, <3>1
    <3>2. CASE i # x
      <4>1. i \in Lo(u) .. pos[u] - 1
        <5>1. Lo(u) \in Nat /\ pos[u] \in Nat
          BY <1>4, ChunkFacts
        <5>2. CASE u = t  BY <1>4, <1>5, <3>2, <5>1, <5>2
        <5>3. CASE u # t  BY <1>5, <5>3
        <5> QED BY <5>2, <5>3
      <4>2. i \in Slot
        <5>1. /\ Lo(u) \in Nat /\ pos[u] \in Nat /\ Hi(u) \in Nat /\ Hi(u) =< nnz /\ nnz \in Nat
          BY <1>4, ChunkFacts, SlotFacts
        <5>2. Lo(u) < pos[u] => pos[u] =< Hi(u)
          BY <1>1 DEF CursorInv
        <5> QED BY <4>1, <5>1, <5>2 DEF Slot
      <4>3. Dest(i) # Dest(x) /\ Dest(i) \in Slot
        <5>1. Dest(i) = Rank(SlotShard, i, SlotShard[i]) /\ Dest(x) = Rank(SlotShard, x, SlotShard[x])
          BY <1>2, <1>3, <4>2 DEF Dest
        <5> HIDE DEF x
        <5> QED BY <1>2, <1>3, <3>2, <4>2, <5>1, RankOnto
      <4>4. scr[Dest(i)] = cols[ColumnAt(col)][i]
        BY <1>1, <4>1 DEF ColumnInv
      <4> QED BY <1>7, <4>3, <4>4
    <3> QED BY <3>1, <3>2
  <2>2. ASSUME NEW u \in Thread, NEW i \in Lo(u) .. pos'[u] - 1 PROVE i \in Slot
    <3>1. /\ Lo(u) \in Nat /\ pos'[u] \in Nat /\ Hi(u) \in Nat /\ Hi(u) =< nnz /\ nnz \in Nat
      BY <1>5, ChunkFacts, SlotFacts
    <3>2. Lo(u) < pos'[u] => pos'[u] =< Hi(u)
      BY <1>9 DEF CursorInv
    <3> QED BY <3>1, <3>2 DEF Slot
  <2>3. ASSUME NEW u \in Thread, NEW i \in Lo(u) .. pos'[u] - 1
        PROVE  scr'[Dest(i)'] = cols'[ColumnAt(col)'][i]
    <3>1. Dest(i)' = Dest(i) /\ ColumnAt(col)' = ColumnAt(col) /\ cols' = cols
      <4>1. ColumnAt(col)' = ColumnAt(col)
        BY <1>0 DEF ColumnAt
      <4> QED BY <1>0, <1>3, <2>2, <4>1
    <3> QED BY <2>1, <3>1
  <2>4. ASSUME NEW c \in 0 .. N
        PROVE  IF c < col' THEN \A i \in Slot : cols'[ColumnAt(c)'][Dest(i)'] = cols'[mode'][i]
                           ELSE cols'[ColumnAt(c)'] = cols'[mode']
    <3>1. IF c < col THEN \A i \in Slot : cols[ColumnAt(c)][Dest(i)] = cols[mode][i]
                     ELSE cols[ColumnAt(c)] = cols[mode]
      BY <1>1 DEF ColumnInv
    <3>2. CASE c < col  BY <1>0, <1>3, <3>1, <3>2
    <3>3. CASE ~(c < col)  BY <1>0, <1>3, <3>1, <3>3
    <3> QED BY <3>2, <3>3
  <2>5. col' =< N /\ cols'[mode'] \in Bijection(Slot, Elem)
    BY <1>0, <1>1 DEF ColumnInv
  <2> QED BY <2>3, <2>4, <2>5 DEF ColumnInv
<1>11. OrderInv' /\ SerialInv' /\ CountInv'
  BY <1>0, <1>1 DEF IInv, OrderInv, SerialInv, Flagging, CountInv
<1> QED BY <1>0, <1>8, <1>9, <1>10, <1>11 DEF IInv, ScatterInv, RowsInv, KernelInv

\* Pass 1 is over: the rows of the shards are next, or the kernel.
LEMMA Pass1Step ==
  ASSUME IInv, Pass1Done, phase \in {"serial", "scatter"},
         \A t \in Thread : Flagging(t) = {},
         UNCHANGED <<mode, beg, fin, cnt, pending, yhat>>,
         cols' \in [Column -> [Slot -> Elem]], scr' \in [Slot -> Elem],
         col' \in 0 .. N + 1, off' \in [Thread -> [Sid -> Nat]], pos' \in [Thread -> Nat],
         Aligned', Grouped(cols'[mode], mode)
  PROVE  IInv'
<1>1. TypeInv /\ CountInv /\ mode \in Mode
  BY DEF IInv, TypeInv
<1>2. \A t \in Thread : Flagging(t)' = {}
  BY DEF Flagging
<1>3. CASE mode \in DenseClass
  <2>1. phase' = "rows" /\ todo' = Shards(mode) /\ sorted' = sorted
    BY <1>3 DEF Pass1Done
  <2>2. TypeInv'
    BY <1>1, <2>1 DEF TypeInv
  <2>3. OrderInv'
    BY <2>1 DEF OrderInv
  <2>4. CountInv'
    BY <1>1, <2>1 DEF CountInv
  <2>5. SerialInv'
    BY <1>2, <2>1 DEF SerialInv
  <2>6. 0 \in Shards(mode)
    <3>1. PICK e \in Elem : TRUE
      BY ShapeAssumption
    <3>2. Shard(mode, e) \in 0 .. NumShards(mode) - 1 /\ NumShards(mode) \in Int
      BY <1>1, ShardType, TensorAssumption DEF Shards, NumShards
    <3> QED BY <3>2 DEF Shards
  <2>7. RowsInv'
    <3> DEFINE none == [t \in Thread |-> 0]
    <3>1. none \in [Thread -> Shards(mode)]
      BY <2>6
    <3>2. RowJobs(none)'
      BY <1>2, <2>1 DEF RowJobs
    <3> HIDE DEF none
    <3>3. \E job \in [Thread -> Shards(mode)] : RowJobs(job)'
      BY <3>1, <3>2
    <3> QED BY <3>3 DEF RowsInv
  <2> QED BY <2>1, <2>2, <2>3, <2>4, <2>5, <2>7 DEF IInv, ScatterInv, KernelInv
<1>4. CASE mode \notin DenseClass
  <2>1. phase' = "zero" /\ todo' = todo /\ sorted' = mode
    BY <1>4 DEF Pass1Done
  <2>2. TypeInv'
    BY <1>1, <2>1 DEF TypeInv
  <2>3. OrderInv'
    BY <2>1 DEF OrderInv
  <2>5. SerialInv'
    BY <1>2, <2>1 DEF SerialInv
  <2> QED BY <2>1, <2>2, <2>3, <2>5 DEF IInv, CountInv, ScatterInv, RowsInv, KernelInv
<1> QED BY <1>3, <1>4

\* What the scratch column holds once every thread is done with its chunk.
LEMMA ScatteredColumn ==
  ASSUME IInv, Scattered
  PROVE  /\ \A i \in Slot : scr[Dest(i)] = cols[mode][i]
         /\ \A i \in Slot : Dest(i) \in Slot
         /\ \A d \in Slot : \E i \in Slot : Dest(i) = d
<1>0. phase = "scatter" /\ \A t \in Thread : pos[t] >= Hi(t)
  BY DEF Scattered
<1>1. TypeInv /\ CursorInv /\ ColumnInv /\ col \in 0 .. N
  BY <1>0 DEF IInv, ScatterInv, TypeInv, ColumnInv
<1>2. cols[ColumnAt(col)] = cols[mode]
  BY <1>1 DEF ColumnInv
<1>3. ASSUME NEW i \in Slot PROVE scr[Dest(i)] = cols[mode][i]
  <2>1. PICK t \in Thread : i \in Lo(t) .. Hi(t) - 1
    BY ChunkCover
  <2>2. pos[t] \in Nat /\ Lo(t) \in Nat /\ Hi(t) \in Nat
    BY <1>1, ChunkFacts DEF TypeInv
  <2>3. pos[t] >= Hi(t)
    BY <1>0
  <2>4. i \in Lo(t) .. pos[t] - 1
    BY <2>1, <2>2, <2>3
  <2>5. scr[Dest(i)] = cols[ColumnAt(col)][i]
    BY <1>1, <2>4 DEF ColumnInv
  <2> QED BY <1>2, <2>5
<1>4. SlotShard \in [Slot -> Nat] /\ \A i \in Slot : Dest(i) = Rank(SlotShard, i, SlotShard[i])
  BY <1>1, SlotShardType DEF Dest
<1> QED BY <1>3, <1>4, RankOnto

LEMMA CopyBackStep == IInv /\ CopyBack => IInv'
<1> SUFFICES ASSUME IInv, CopyBack PROVE IInv'
  OBVIOUS
<1>0. /\ phase = "scatter" /\ Scattered
      /\ cols' = [cols EXCEPT ![ColumnAt(col)] = scr]
      /\ col' = col + 1
      /\ UNCHANGED <<mode, parallel, scr, cnt, beg, fin, pending, yhat>>
  BY DEF CopyBack, Scattered
<1>1. /\ TypeInv /\ CursorInv /\ ColumnInv /\ CountInv /\ mode \in Mode /\ col \in 0 .. N
      /\ N \in Nat
  BY <1>0, ShapeAssumption DEF IInv, ScatterInv, TypeInv, ColumnInv
<1>2. ColumnAt(col) \in Column
  BY <1>1, ColumnOrder
<1>3. /\ cols' \in [Column -> [Slot -> Elem]] /\ cols'[ColumnAt(col)] = scr
      /\ \A x \in Column \ {ColumnAt(col)} : cols'[x] = cols[x]
  BY <1>0, <1>1, <1>2 DEF TypeInv
<1>4. /\ scr' \in [Slot -> Elem] /\ col' \in 0 .. N + 1
      /\ off \in [Thread -> [Sid -> Nat]] /\ pos \in [Thread -> Nat]
  BY <1>0, <1>1 DEF TypeInv
<1>5. /\ \A i \in Slot : scr[Dest(i)] = cols[mode][i] /\ Dest(i) \in Slot
      /\ \A d \in Slot : \E i \in Slot : Dest(i) = d
  BY <1>0, ScatteredColumn
<1>6. CASE col # N
  <2>1. off' = Cursors /\ pos' = [t \in Thread |-> Lo(t)] /\ UNCHANGED <<phase, sorted, todo>>
    BY <1>6 DEF CopyBack
  <2>2. /\ ColumnAt(col) # mode /\ mode \in Column
    BY <1>1, <1>6, ColumnOrder, ColumnFacts
  <2>3. cols'[mode] = cols[mode] /\ col + 1 =< N
    BY <1>1, <1>3, <1>6, <2>2
  <2>4. SlotShard' = SlotShard /\ \A c : ColumnAt(c)' = ColumnAt(c)
    BY <1>0, <2>3 DEF SlotShard, ShardAt, ColumnAt
  <2>5. \A i \in Slot : Dest(i)' = Dest(i)
    BY <1>0, <2>3, <2>4 DEF Dest, ShardAt
  <2>6. off' \in [Thread -> [Sid -> Nat]] /\ pos' \in [Thread -> Nat]
    BY <1>1, <2>1, FreshCursors, ChunkFacts
  <2>7. TypeInv'
    BY <1>0, <1>1, <1>3, <1>4, <2>1, <2>6 DEF TypeInv
  <2>8. CursorInv'
    <3>1. \A t \in Thread : pos'[t] = Lo(t) /\ Lo(t) \in Nat
      BY <2>1, ChunkFacts
    <3>2. \A t \in Thread : \A s \in Shards(mode) : off'[t][s] = Rank(SlotShard, Lo(t), s)
      BY <1>1, <2>1, FreshCursors
    <3> SUFFICES ASSUME NEW t \in Thread
                 PROVE  /\ Lo(t) =< pos'[t] /\ (Lo(t) < pos'[t] => pos'[t] =< Hi(t))
                        /\ \A s \in Shards(mode) : off'[t][s] = Rank(SlotShard, pos'[t], s)
      BY <1>0, <2>4 DEF CursorInv
    <3>3. Lo(t) =< pos'[t] /\ ~(Lo(t) < pos'[t])
      BY <3>1
    <3> QED BY <3>1, <3>2, <3>3
  <2>9. ColumnInv'
    <3>1. ASSUME NEW t \in Thread PROVE Lo(t) .. pos'[t] - 1 = {}
      BY <2>1, ChunkFacts
    <3>2. ASSUME NEW c \in 0 .. N
          PROVE  IF c < col' THEN \A i \in Slot : cols'[ColumnAt(c)'][Dest(i)'] = cols'[mode'][i]
                             ELSE cols'[ColumnAt(c)'] = cols'[mode']
      <4>1. IF c < col THEN \A i \in Slot : cols[ColumnAt(c)][Dest(i)] = cols[mode][i]
                       ELSE cols[ColumnAt(c)] = cols[mode]
        BY <1>1 DEF ColumnInv
      <4>2. ColumnAt(c) \in Column /\ (c # col => ColumnAt(c) # ColumnAt(col))
        BY <1>1, ColumnOrder
      <4>3. mode' = mode /\ ColumnAt(c)' = ColumnAt(c)
        BY <1>0, <2>4
      <4>4. CASE c = col
        <5>1. \A i \in Slot : cols'[ColumnAt(c)][Dest(i)] = cols'[mode][i]
          BY <1>3, <1>5, <2>3, <4>4
        <5>2. c < col'
          BY <1>0, <1>1, <4>4
        <5> QED BY <2>5, <4>3, <5>1, <5>2
      <4>5. CASE c # col
        <5>1. cols'[ColumnAt(c)] = cols[ColumnAt(c)] /\ (c < col' <=> c < col)
          BY <1>0, <1>1, <1>3, <4>2, <4>5
        <5>2. CASE c < col  BY <2>3, <2>5, <4>1, <4>3, <5>1, <5>2
        <5>3. CASE ~(c < col)  BY <2>3, <4>1, <4>3, <5>1, <5>3
        <5> QED BY <5>2, <5>3
      <4> QED BY <4>4, <4>5
    <3>3. col' =< N /\ cols'[mode'] \in Bijection(Slot, Elem)
      BY <1>0, <1>1, <2>3 DEF ColumnInv
    <3> QED BY <3>1, <3>2, <3>3 DEF ColumnInv
  <2>10. OrderInv' /\ SerialInv' /\ CountInv'
    BY <1>0, <1>1, <2>1 DEF IInv, OrderInv, SerialInv, Flagging, CountInv
  <2> QED BY <1>0, <2>1, <2>7, <2>8, <2>9, <2>10 DEF IInv, ScatterInv, RowsInv, KernelInv
<1>7. CASE col = N
  <2>1. Pass1Done /\ off' = off /\ pos' = pos
    BY <1>7 DEF CopyBack
  <2>2. ColumnAt(col) = mode /\ mode \in Column /\ cols'[mode] = scr
    BY <1>1, <1>3, <1>7, ColumnOrder, ColumnFacts
  <2>3. ASSUME NEW x \in Column PROVE cols'[x] = scr
    <3>1. PICK c \in 0 .. N : ColumnAt(c) = x
      BY <1>1, ColumnOrder
    <3>2. CASE c = col  BY <1>3, <3>1, <3>2
    <3>3. CASE c # col
      <4>1. x # mode /\ c < col
        BY <1>1, <1>7, <3>1, <3>3, ColumnOrder
      <4>2. \A i \in Slot : cols[x][Dest(i)] = cols[mode][i]
        BY <1>1, <3>1, <4>1 DEF ColumnInv
      <4>3. cols'[x] = cols[x]
        BY <1>3, <2>2, <4>1
      <4>4. \A d \in Slot : cols'[x][d] = scr[d]
        BY <1>5, <4>2, <4>3
      <4>5. cols'[x] \in [Slot -> Elem] /\ scr \in [Slot -> Elem]
        BY <1>1, <1>3 DEF TypeInv
      <4> QED BY <4>4, <4>5
    <3> QED BY <3>2, <3>3
  <2>4. Grouped(scr, mode)
    <3>1. /\ cols[mode] \in Bijection(Slot, Elem) /\ scr \in [Slot -> Elem]
      BY <1>1 DEF ColumnInv, TypeInv
    <3>2. ASSUME NEW e \in Elem
          PROVE  \E d \in Slot : scr[d] = e /\ d \in ShardRange(mode, Shard(mode, e))
      <4>1. PICK i \in Slot : cols[mode][i] = e
        BY <3>1 DEF Bijection, Surjection
      <4>2. Dest(i) \in ShardRange(mode, Shard(mode, e))
        BY <1>1, <3>1, <4>1, DestInShard DEF ShardAt
      <4> QED BY <1>5, <4>1, <4>2
    <3> QED BY <1>1, <3>1, <3>2, OntoGrouped
  <2>5. Aligned'
    <3>1. scr \in Bijection(Slot, Elem)
      BY <2>4 DEF Grouped
    <3>2. cols'[ValsColumn] = scr /\ \A c \in Column : cols'[c] = scr
      BY <2>3, ColumnFacts
    <3> QED BY <3>1, <3>2 DEF Aligned
  <2>6. \A t \in Thread : Flagging(t) = {}
    BY <1>0 DEF IInv, SerialInv
  <2> QED BY <1>0, <1>3, <1>4, <2>1, <2>2, <2>4, <2>5, <2>6, Pass1Step
<1> QED BY <1>6, <1>7

-----------------------------------------------------------------------------
(* The American-flag sorts of the slab. *)

\* The next swap of thread t, which sorts the nonzeros E by key.
LEMMA CycleFacts ==
  ASSUME TypeInv, Aligned, NEW t \in Thread, NEW E \in SUBSET Elem, NEW first \in Nat,
         NEW key \in [Elem -> Nat], \A e \in E : key[e] \in Class,
         Region(cols[mode], E, first),
         Filling(beg[t], fin[t], cols[mode], E, first, key), Flagging(t) # {}
  PROVE  LET i == beg[t][Min(Flagging(t))]
             k == key[cols[mode][i]]
         IN  /\ Min(Flagging(t)) \in Class /\ i < fin[t][Min(Flagging(t))]
             /\ k \in Class /\ beg[t][k] < fin[t][k] /\ i =< beg[t][k]
             /\ i \in Slot /\ cols[mode][i] \in E
             /\ i \in first .. first + Cardinality(E) - 1
             /\ beg[t][k] \in Slot /\ cols[mode][beg[t][k]] \in E
             /\ beg[t][k] \in first .. first + Cardinality(E) - 1
<1> DEFINE m == Min(Flagging(t))
           i == beg[t][m]
           k == key[cols[mode][i]]
<1>1. /\ cols[mode] \in Bijection(Slot, Elem)
      /\ beg[t] \in [Class -> Nat] /\ fin[t] \in [Class -> Nat]
  BY ColumnFacts DEF TypeInv, Aligned
<1>2. /\ m \in Class /\ i < fin[t][m]
      /\ \A c \in Class : beg[t][c] < fin[t][c] => m =< c
  <2>1. Flagging(t) \in SUBSET Nat
    BY ClassFacts DEF Flagging
  <2>2. m \in Flagging(t) /\ \A c \in Flagging(t) : m =< c
    BY <2>1, MinIs
  <2> HIDE DEF m
  <2> QED BY <2>2 DEF Flagging
<1> HIDE DEF m
<1>3. k \in Class /\ beg[t][k] < fin[t][k] /\ i =< beg[t][k]
  <2>1. \A c \in Class : beg[t][c] < fin[t][c] => m =< c
    BY <1>2
  <2> QED BY <1>1, <1>2, <2>1, FrontOfClass
<1>4. /\ i \in Slot /\ cols[mode][i] \in E
      /\ i \in first .. first + Cardinality(E) - 1
  BY <1>1, <1>2, CursorSlot
<1>5. /\ beg[t][k] \in Slot /\ cols[mode][beg[t][k]] \in E
      /\ beg[t][k] \in first .. first + Cardinality(E) - 1
  <2> HIDE DEF k
  <2> QED BY <1>1, <1>3, CursorSlot
<1> QED BY <1>2, <1>3, <1>4, <1>5 DEF m

\* Two slots of every column change places.
LEMMA SwapColumns ==
  ASSUME TypeInv, Aligned, NEW i \in Slot, NEW j \in Slot
  PROVE  LET new == Swapped(i, j)
             slab == cols[mode]
         IN  /\ new \in [Column -> [Slot -> Elem]]
             /\ \A c \in Column : new[c] = new[mode]
             /\ new[mode] \in Bijection(Slot, Elem)
             /\ new[mode][i] = slab[j] /\ new[mode][j] = slab[i]
             /\ \A d \in Slot : d # i /\ d # j => new[mode][d] = slab[d]
<1> DEFINE slab == cols[mode]
           new == [slab EXCEPT ![i] = slab[j], ![j] = slab[i]]
<1>1. /\ mode \in Column /\ \A c \in Column : cols[c] = slab
      /\ slab \in Bijection(Slot, Elem) /\ slab \in [Slot -> Elem]
  BY ColumnFacts DEF TypeInv, Aligned, Bijection, Injection
<1>2. Swapped(i, j) = [c \in Column |-> new]
  BY <1>1 DEF Swapped
<1> HIDE DEF slab
<1>3. /\ new \in [Slot -> Elem] /\ new[i] = slab[j] /\ new[j] = slab[i]
      /\ \A d \in Slot : d # i /\ d # j => new[d] = slab[d]
  BY <1>1
<1> HIDE DEF new
<1>4. new \in Bijection(Slot, Elem)
  BY <1>1, <1>3, SwapFull
<1> QED BY <1>1, <1>2, <1>3, <1>4 DEF slab

\* Thread t, sorting by key, makes its next swap.
Cycled(t, key) ==
  LET i == beg[t][Min(Flagging(t))]
      k == key[cols[mode][i]]
  IN  /\ cols' = Swapped(i, beg[t][k])
      /\ beg'[t][k] = beg[t][k] + 1
      /\ \A c \in Class : c # k => beg'[t][c] = beg[t][c]

LEMMA CycleStep ==
  ASSUME TypeInv, Aligned, NEW t \in Thread, NEW E \in SUBSET Elem, NEW first \in Nat,
         NEW key \in [Elem -> Nat], \A e \in E : key[e] \in Class,
         Region(cols[mode], E, first),
         Filling(beg[t], fin[t], cols[mode], E, first, key), Flagging(t) # {},
         Cycled(t, key)
  PROVE  /\ cols' \in [Column -> [Slot -> Elem]]
         /\ cols'[ValsColumn] \in Bijection(Slot, Elem)
         /\ \A c \in Column : cols'[c] = cols'[ValsColumn]
         /\ Filling(beg'[t], fin[t], cols'[mode], E, first, key)
         /\ Region(cols'[mode], E, first)
         /\ \A d \in Slot : d \notin first .. first + Cardinality(E) - 1 =>
              cols'[mode][d] = cols[mode][d]
<1> DEFINE m == Min(Flagging(t))
           i == beg[t][m]
           slab == cols[mode]
           k == key[slab[i]]
           j == beg[t][k]
           new == cols'[mode]
<1>0. /\ cols' = Swapped(i, j)
      /\ beg'[t][k] = beg[t][k] + 1 /\ \A c \in Class : c # k => beg'[t][c] = beg[t][c]
  BY DEF Cycled
<1>1. /\ slab \in Bijection(Slot, Elem)
      /\ beg[t] \in [Class -> Nat] /\ fin[t] \in [Class -> Nat]
  BY ColumnFacts DEF TypeInv, Aligned
<1>2. /\ m \in Class /\ i = beg[t][m] /\ i < fin[t][m]
      /\ k \in Class /\ beg[t][k] < fin[t][k]
      /\ i \in Slot /\ i \in first .. first + Cardinality(E) - 1
      /\ j \in Slot /\ j \in first .. first + Cardinality(E) - 1
  BY CycleFacts, Zenon
<1>3. /\ cols' \in [Column -> [Slot -> Elem]]
      /\ \A c \in Column : cols'[c] = new
      /\ new \in Bijection(Slot, Elem)
      /\ new[i] = slab[j] /\ new[j] = slab[i]
      /\ \A d \in Slot : d # i /\ d # j => new[d] = slab[d]
  <2>1. /\ Swapped(i, j) \in [Column -> [Slot -> Elem]]
        /\ \A c \in Column : Swapped(i, j)[c] = Swapped(i, j)[mode]
        /\ Swapped(i, j)[mode] \in Bijection(Slot, Elem)
        /\ Swapped(i, j)[mode][i] = slab[j] /\ Swapped(i, j)[mode][j] = slab[i]
        /\ \A d \in Slot : d # i /\ d # j => Swapped(i, j)[mode][d] = slab[d]
    <3>1. i \in Slot /\ j \in Slot
      BY <1>2
    <3> HIDE DEF i, j
    <3> QED BY <3>1, SwapColumns
  <2>2. cols' = Swapped(i, j)
    BY <1>0
  <2> HIDE DEF i, j, slab
  <2> QED BY <2>1, <2>2, Zenon
<1>4. /\ Filling(beg'[t], fin[t], new, E, first, key)
      /\ Region(new, E, first)
  <2> DEFINE bb == beg'[t]
  <2>0. bb[k] = beg[t][k] + 1 /\ \A c \in Class : c # k => bb[c] = beg[t][c]
    BY <1>0
  <2> HIDE DEF m, i, k, slab, new, j, bb
  <2>1. /\ new[beg[t][m]] = slab[beg[t][k]] /\ new[beg[t][k]] = slab[beg[t][m]]
        /\ \A d \in Slot : d # beg[t][m] /\ d # beg[t][k] => new[d] = slab[d]
    BY <1>2, <1>3 DEF j
  <2>2. k = key[slab[beg[t][m]]] /\ beg[t][m] < fin[t][m]
        /\ Filling(beg[t], fin[t], slab, E, first, key) /\ Region(slab, E, first)
    BY <1>2 DEF slab, k
  <2>3. m \in Class /\ k \in Class /\ beg[t][k] < fin[t][k]
    BY <1>2
  <2>4. Move(slab, beg[t], m, k, new, bb)
    BY <2>0, <2>1, Zenon DEF Move
  <2>5. Filling(bb, fin[t], new, E, first, key) /\ Region(new, E, first)
    BY <1>1, <2>2, <2>3, <2>4, FillStep
  <2> QED BY <2>5 DEF bb
<1>5. cols'[ValsColumn] = new
  BY <1>3, ColumnFacts
<1>6. \A d \in Slot : d \notin first .. first + Cardinality(E) - 1 => new[d] = slab[d]
  <2> HIDE DEF m, i, k, slab, new, j
  <2> QED BY <1>2, <1>3, Zenon
<1> HIDE DEF m, i, k, j
<1> QED BY <1>3, <1>4, <1>5, <1>6

\* A thread's cursor moves, and no other.
LEMMA NextCursor ==
  ASSUME TypeInv, NEW t \in Thread, NEW k \in Class
  PROVE  LET new == [beg EXCEPT ![t][k] = @ + 1]
         IN  /\ new \in [Thread -> [Class -> Nat]] /\ new[t][k] = beg[t][k] + 1
             /\ \A c \in Class : c # k => new[t][c] = beg[t][c]
             /\ \A u \in Thread \ {t} : new[u] = beg[u]
<1>1. beg \in [Thread -> [Class -> Nat]] /\ beg[t] \in [Class -> Nat]
  BY DEF TypeInv
<1> QED BY <1>1

LEMMA SerialCycleStep == IInv /\ SerialCycle => IInv'
<1> SUFFICES ASSUME IInv, SerialCycle PROVE IInv'
  OBVIOUS
<1> DEFINE i == beg[0][Min(Flagging(0))]
           k == ShardAt(i)
           key == ShardKey(mode)
<1>0. /\ phase = "serial" /\ Flagging(0) # {}
      /\ cols' = Swapped(i, beg[0][k]) /\ beg' = [beg EXCEPT ![0][k] = @ + 1]
      /\ UNCHANGED <<mode, phase, parallel, sorted, scr, cnt, col, off, pos, todo, fin,
                     pending, yhat>>
  BY DEF SerialCycle, Cycle
<1>1. /\ TypeInv /\ Aligned /\ CountInv /\ mode \in Mode /\ 0 \in Thread
      /\ cols[mode] \in Bijection(Slot, Elem)
      /\ \A t \in Thread \ {0} : Flagging(t) = {}
      /\ Filling(beg[0], fin[0], cols[mode], Elem, 0, key)
  <2>1. TypeInv /\ Aligned /\ CountInv /\ mode \in Mode
    BY <1>0 DEF IInv, TypeInv, OrderInv
  <2>2. 0 \in Thread /\ cols[mode] \in Bijection(Slot, Elem)
    BY <2>1, ColumnFacts, ShapeAssumption DEF Aligned, Thread
  <2>3. SerialInv
    BY DEF IInv
  <2> QED BY <1>0, <2>1, <2>2, <2>3 DEF SerialInv
<1>2. /\ key \in [Elem -> Nat] /\ \A e \in Elem : key[e] = Shard(mode, e) /\ key[e] \in Class
      /\ Region(cols[mode], Elem, 0) /\ Elem \in SUBSET Elem /\ 0 \in Nat
  BY <1>1, KeyTypes, WholeRegion
<1> HIDE DEF key
<1>3. k = key[cols[mode][i]] /\ k \in Class
  <2>1. i \in Slot /\ cols[mode][i] \in Elem /\ key[cols[mode][i]] \in Class
    BY <1>0, <1>1, <1>2, CycleFacts
  <2> HIDE DEF i
  <2> QED BY <1>2, <2>1 DEF ShardAt
<1> HIDE DEF k
<1>4. /\ beg' \in [Thread -> [Class -> Nat]] /\ beg'[0][k] = beg[0][k] + 1
      /\ \A c \in Class : c # k => beg'[0][c] = beg[0][c]
      /\ \A u \in Thread \ {0} : beg'[u] = beg[u]
  <2>1. LET new == [beg EXCEPT ![0][k] = @ + 1]
        IN  /\ new \in [Thread -> [Class -> Nat]] /\ new[0][k] = beg[0][k] + 1
            /\ \A c \in Class : c # k => new[0][c] = beg[0][c]
            /\ \A u \in Thread \ {0} : new[u] = beg[u]
    BY <1>1, <1>3, NextCursor
  <2> QED BY <1>0, <2>1, Zenon
<1>5. /\ cols' \in [Column -> [Slot -> Elem]]
      /\ cols'[ValsColumn] \in Bijection(Slot, Elem)
      /\ \A c \in Column : cols'[c] = cols'[ValsColumn]
      /\ Filling(beg'[0], fin[0], cols'[mode], Elem, 0, key)
  <2>1. Cycled(0, key)
    BY <1>0, <1>3, <1>4 DEF Cycled
  <2> QED BY <1>0, <1>1, <1>2, <2>1, CycleStep
<1>6. TypeInv'
  BY <1>0, <1>1, <1>4, <1>5 DEF TypeInv
<1>7. OrderInv'
  BY <1>0, <1>5 DEF OrderInv, Aligned
<1>8. CountInv'
  BY <1>0, <1>1 DEF CountInv
<1>9. SerialInv'
  BY <1>0, <1>1, <1>4, <1>5 DEF SerialInv, Flagging, key
<1> QED BY <1>0, <1>6, <1>7, <1>8, <1>9 DEF IInv, ScatterInv, RowsInv, KernelInv

LEMMA SerialDoneStep == IInv /\ SerialDone => IInv'
<1> SUFFICES ASSUME IInv, SerialDone PROVE IInv'
  OBVIOUS
<1>0. /\ phase = "serial" /\ Flagging(0) = {} /\ Pass1Done
      /\ UNCHANGED <<mode, parallel, cols, scr, cnt, col, off, pos, beg, fin, pending, yhat>>
  BY DEF SerialDone
<1> DEFINE key == ShardKey(mode)
<1>1. /\ TypeInv /\ Aligned /\ mode \in Mode /\ 0 \in Thread
      /\ cols[mode] \in Bijection(Slot, Elem)
      /\ beg[0] \in [Class -> Nat] /\ fin[0] \in [Class -> Nat]
      /\ \A t \in Thread : Flagging(t) = {}
      /\ Filling(beg[0], fin[0], cols[mode], Elem, 0, key)
  <2>1. TypeInv /\ Aligned /\ SerialInv /\ mode \in Mode
    BY <1>0 DEF IInv, TypeInv, OrderInv
  <2>2. 0 \in Thread /\ cols[mode] \in Bijection(Slot, Elem)
    BY <2>1, ColumnFacts, ShapeAssumption DEF Aligned, Thread
  <2>3. beg[0] \in [Class -> Nat] /\ fin[0] \in [Class -> Nat]
    BY <2>1, <2>2 DEF TypeInv
  <2> QED BY <1>0, <2>1, <2>2, <2>3 DEF SerialInv
<1>2. /\ key \in [Elem -> Nat] /\ \A e \in Elem : key[e] = Shard(mode, e) /\ key[e] \in Class
      /\ Region(cols[mode], Elem, 0) /\ Elem \in SUBSET Elem /\ 0 \in Nat
  BY <1>1, KeyTypes, WholeRegion
<1>3. \A c \in Class : ~(beg[0][c] < fin[0][c])
  BY <1>0 DEF Flagging
<1>4. Grouped(cols[mode], mode)
  <2> SUFFICES ASSUME NEW d \in Slot PROVE d \in ShardRange(mode, Shard(mode, cols[mode][d]))
    BY <1>1 DEF Grouped
  <2>1. cols[mode][d] \in Elem
    BY <1>1 DEF Bijection, Injection
  <2> DEFINE s == key[cols[mode][d]]
  <2>2. s = Shard(mode, cols[mode][d])
    BY <1>2, <2>1
  <2> HIDE DEF key
  <2>3. d \in ClassBegin(Elem, 0, key, s) .. ClassEnd(Elem, 0, key, s) - 1
    BY <1>1, <1>2, <1>3, <2>1, Filled
  <2>4. ClassBegin(Elem, 0, key, s) = ShardBegin(mode, s) /\ ClassEnd(Elem, 0, key, s) = ShardEnd(mode, s)
    BY <1>1, ShardClass DEF key
  <2> HIDE DEF s
  <2> QED BY <2>2, <2>3, <2>4 DEF ShardRange
<1>5. /\ cols' \in [Column -> [Slot -> Elem]] /\ scr' \in [Slot -> Elem]
      /\ col' \in 0 .. N + 1 /\ off' \in [Thread -> [Sid -> Nat]] /\ pos' \in [Thread -> Nat]
  BY <1>0, <1>1 DEF TypeInv
<1>6. Aligned' /\ Grouped(cols'[mode], mode)
  BY <1>0, <1>1, <1>4 DEF Aligned
<1> QED BY <1>0, <1>1, <1>5, <1>6, Pass1Step

-----------------------------------------------------------------------------
(* Pass 2: the rows of a shard. *)

\* What a sort of the rows of shard s works on.
LEMMA RowSort ==
  ASSUME NEW n \in Mode, NEW s \in Shards(n), NEW slab, Grouped(slab, n)
  PROVE  /\ Members(n, s) \in SUBSET Elem /\ ShardBegin(n, s) \in Nat
         /\ RowKey(n) \in [Elem -> Nat]
         /\ \A e \in Members(n, s) : RowKey(n)[e] \in Class
         /\ Region(slab, Members(n, s), ShardBegin(n, s))
         /\ slab \in Bijection(Slot, Elem)
<1>1. Members(n, s) \in SUBSET Elem
  BY MembersFacts
<1>2. RowKey(n) \in [Elem -> Nat] /\ \A e \in Members(n, s) : RowKey(n)[e] \in Class
  BY <1>1, KeyTypes
<1>3. ShardBegin(n, s) \in Nat
  BY CountTypes
<1>4. Region(slab, Members(n, s), ShardBegin(n, s)) /\ slab \in Bijection(Slot, Elem)
  BY ShardRegion DEF Grouped
<1> QED BY <1>1, <1>2, <1>3, <1>4

\* A finished sort leaves the rows of the shard in order.
LEMMA RowsInOrder ==
  ASSUME NEW n \in Mode, NEW s \in Shards(n), NEW slab, Grouped(slab, n),
         NEW b \in [Class -> Nat], NEW f \in [Class -> Nat],
         Filling(b, f, slab, Members(n, s), ShardBegin(n, s), RowKey(n)),
         \A k \in Class : ~(b[k] < f[k])
  PROVE  InOrder(slab, n, s)
<1> SUFFICES ASSUME NEW i \in ShardRange(n, s), NEW j \in ShardRange(n, s), i < j
             PROVE  RowKey(n)[slab[i]] =< RowKey(n)[slab[j]]
  BY DEF InOrder
<1>1. i \in Slot /\ j \in Slot
  BY RangeOrder
<1>2. slab[i] \in Members(n, s) /\ slab[j] \in Members(n, s)
  BY <1>1, GroupedFacts DEF Members
<1>3. /\ Members(n, s) \in SUBSET Elem /\ ShardBegin(n, s) \in Nat
      /\ RowKey(n) \in [Elem -> Nat]
      /\ \A e \in Members(n, s) : RowKey(n)[e] \in Class
      /\ Region(slab, Members(n, s), ShardBegin(n, s))
      /\ slab \in Bijection(Slot, Elem)
  BY RowSort
<1>4. \A c, d \in Slot : slab[c] \in Members(n, s) /\ slab[d] \in Members(n, s) /\ c < d =>
        RowKey(n)[slab[c]] =< RowKey(n)[slab[d]]
  BY <1>3, Filled
<1> QED BY <1>1, <1>2, <1>4

\* A swap among the slots of shard s leaves the slab grouped, and every other
\* shard as it was.
LEMMA ShardSwap ==
  ASSUME NEW n \in Mode, NEW s \in Shards(n), NEW slab, Grouped(slab, n),
         NEW new \in Bijection(Slot, Elem),
         Region(new, Members(n, s), ShardBegin(n, s)),
         \A d \in Slot : d \notin ShardRange(n, s) => new[d] = slab[d]
  PROVE  /\ Grouped(new, n)
         /\ \A u \in Shards(n) \ {s} : \A d \in ShardRange(n, u) : new[d] = slab[d]
<1>1. ASSUME NEW d \in Slot PROVE d \in ShardRange(n, Shard(n, new[d]))
  <2>1. CASE d \in ShardRange(n, s)
    <3>1. new[d] \in Members(n, s)
      BY <2>1, MembersFacts DEF Region
    <3> QED BY <2>1, <3>1 DEF Members
  <2>2. CASE d \notin ShardRange(n, s)
    BY <2>2, GroupedFacts
  <2> QED BY <2>1, <2>2
<1>2. ASSUME NEW u \in Shards(n) \ {s}, NEW d \in ShardRange(n, u)
      PROVE  new[d] = slab[d]
  <2>1. d \in Slot
    BY RangeOrder
  <2>2. d \notin ShardRange(n, s)
    BY RangeDisjoint
  <2> QED BY <2>1, <2>2
<1> QED BY <1>1, <1>2 DEF Grouped

\* Equal slots are in the same order.
LEMMA OrderFrame ==
  ASSUME NEW n, NEW u, NEW slab, NEW new, InOrder(slab, n, u),
         \A d \in ShardRange(n, u) : new[d] = slab[d]
  PROVE  InOrder(new, n, u)
BY DEF InOrder

LEMMA RowCycleStep == ASSUME IInv, NEW t \in Thread, RowCycle(t) PROVE IInv'
<1> DEFINE i == beg[t][Min(Flagging(t))]
           k == RowAt(i)
           key == RowKey(mode)
<1>0. /\ phase = "rows" /\ Flagging(t) # {}
      /\ cols' = Swapped(i, beg[t][k]) /\ beg' = [beg EXCEPT ![t][k] = @ + 1]
      /\ UNCHANGED <<mode, phase, parallel, sorted, scr, cnt, col, off, pos, todo, fin,
                     pending, yhat>>
  BY DEF RowCycle, Cycle
<1>1. /\ TypeInv /\ CountInv /\ mode \in Mode /\ beg \in [Thread -> [Class -> Nat]]
      /\ fin \in [Thread -> [Class -> Nat]]
  BY DEF IInv, TypeInv
<1>2. Aligned /\ Grouped(cols[mode], mode)
  BY <1>0 DEF IInv, OrderInv
<1>3. PICK job \in [Thread -> Shards(mode)] : RowJobs(job)
  BY <1>0 DEF IInv, RowsInv
<1> DEFINE s == job[t]
           E == Members(mode, s)
           first == ShardBegin(mode, s)
<1>4. s \in Shards(mode)
  BY <1>3
<1>5. /\ s \notin todo /\ Filling(beg[t], fin[t], cols[mode], E, first, key)
      /\ \A u \in Thread \ {t} : Flagging(u) # {} => job[u] # s
  BY <1>0, <1>3 DEF RowJobs, RowJob
<1> HIDE DEF key, s
<1>6. /\ E \in SUBSET Elem /\ first \in Nat /\ key \in [Elem -> Nat]
      /\ \A e \in E : key[e] \in Class
      /\ Region(cols[mode], E, first)
  BY <1>1, <1>2, <1>4, RowSort DEF key
<1> HIDE DEF E, first
<1>7. k = key[cols[mode][i]] /\ k \in Class
  <2>1. i \in Slot /\ cols[mode][i] \in E /\ key[cols[mode][i]] \in Class
    BY <1>0, <1>1, <1>2, <1>5, <1>6, CycleFacts
  <2> HIDE DEF i
  <2>2. cols[mode][i] \in Elem
    BY <1>6, <2>1
  <2> QED BY <2>1, <2>2 DEF RowAt, key, RowKey
<1> HIDE DEF k
<1>8. /\ beg' \in [Thread -> [Class -> Nat]] /\ beg'[t][k] = beg[t][k] + 1
      /\ \A c \in Class : c # k => beg'[t][c] = beg[t][c]
      /\ \A u \in Thread \ {t} : beg'[u] = beg[u]
  <2>1. LET new == [beg EXCEPT ![t][k] = @ + 1]
        IN  /\ new \in [Thread -> [Class -> Nat]] /\ new[t][k] = beg[t][k] + 1
            /\ \A c \in Class : c # k => new[t][c] = beg[t][c]
            /\ \A u \in Thread \ {t} : new[u] = beg[u]
    BY <1>1, <1>7, NextCursor
  <2> QED BY <1>0, <2>1, Zenon
<1> DEFINE new == cols'[mode]
<1>9. /\ cols' \in [Column -> [Slot -> Elem]]
      /\ cols'[ValsColumn] \in Bijection(Slot, Elem)
      /\ \A c \in Column : cols'[c] = cols'[ValsColumn]
      /\ Filling(beg'[t], fin[t], new, E, first, key)
      /\ Region(new, E, first)
      /\ \A d \in Slot : d \notin first .. first + Cardinality(E) - 1 => new[d] = cols[mode][d]
  <2>1. Cycled(t, key)
    BY <1>0, <1>7, <1>8 DEF Cycled
  <2> QED BY <1>0, <1>1, <1>2, <1>5, <1>6, <2>1, CycleStep
<1> HIDE DEF new
<1>10. new \in Bijection(Slot, Elem)
  BY <1>1, <1>9, ColumnFacts DEF new
<1>11. /\ Grouped(new, mode)
       /\ \A u \in Shards(mode) \ {s} : \A d \in ShardRange(mode, u) : new[d] = cols[mode][d]
  <2>1. \A d \in Slot : d \notin ShardRange(mode, s) => new[d] = cols[mode][d]
    BY <1>1, <1>4, <1>9, MembersFacts DEF E, first
  <2>2. Region(new, Members(mode, s), ShardBegin(mode, s))
    BY <1>9 DEF E, first
  <2> QED BY <1>1, <1>2, <1>4, <1>10, <2>1, <2>2, ShardSwap
<1>12. \A u \in Thread \ {t} : Flagging(u)' = Flagging(u)
  BY <1>0, <1>8 DEF Flagging
<1>13. RowJobs(job)'
  <2>1. ASSUME NEW u \in Thread, Flagging(u)' # {}
        PROVE  /\ job[u] \notin todo' /\ RowJob(u, job[u])'
               /\ \A w \in Thread \ {u} : Flagging(w)' # {} => job[w] # job[u]
    <3>1. /\ Flagging(u) # {} /\ \A w \in Thread : Flagging(w)' # {} => Flagging(w) # {}
      BY <1>0, <1>12, <2>1
    <3>2. /\ job[u] \notin todo /\ RowJob(u, job[u])
          /\ \A w \in Thread \ {u} : Flagging(w) # {} => job[w] # job[u]
      BY <1>3, <3>1 DEF RowJobs
    <3>3. CASE u = t
      <4>1. RowJob(t, s)'
        BY <1>0, <1>9 DEF RowJob, E, first, key, new
      <4> QED BY <1>0, <3>1, <3>2, <3>3, <4>1 DEF s
    <3>4. CASE u # t
      <4>1. job[u] \in Shards(mode) \ {s}
        BY <1>3, <1>5, <3>1, <3>4
      <4>2. \A d \in ShardRange(mode, job[u]) : new[d] = cols[mode][d]
        BY <1>11, <4>1
      <4>3. /\ Filling(beg[u], fin[u], cols[mode], Members(mode, job[u]),
                       ShardBegin(mode, job[u]), RowKey(mode))
            /\ beg[u] \in [Class -> Nat] /\ fin[u] \in [Class -> Nat]
        BY <1>1, <3>2 DEF RowJob
      <4>4. /\ Members(mode, job[u]) \in SUBSET Elem /\ ShardBegin(mode, job[u]) \in Nat
            /\ RowKey(mode) \in [Elem -> Nat]
            /\ ShardRange(mode, job[u]) = ShardBegin(mode, job[u]) ..
                 ShardBegin(mode, job[u]) + Cardinality(Members(mode, job[u])) - 1
        BY <1>1, <4>1, MembersFacts, KeyTypes, CountTypes
      <4>5. Filling(beg[u], fin[u], new, Members(mode, job[u]), ShardBegin(mode, job[u]),
                    RowKey(mode))
        BY <4>2, <4>3, <4>4, FillFrame
      <4>6. RowJob(u, job[u])'
        BY <1>0, <1>8, <3>4, <4>5 DEF RowJob, new
      <4> QED BY <1>0, <3>1, <3>2, <4>6
    <3> QED BY <3>3, <3>4
  <2>2. ASSUME NEW v \in Shards(mode) \ todo,
               \A u \in Thread : Flagging(u)' # {} => job[u] # v
        PROVE  InOrder(new, mode, v)
    <3>1. CASE v = s
      <4>1. Flagging(t)' = {}
        BY <2>2, <3>1 DEF s
      <4>2. \A c \in Class : ~(beg'[t][c] < fin[t][c])
        BY <1>0, <4>1 DEF Flagging
      <4>3. Filling(beg'[t], fin[t], new, Members(mode, s), ShardBegin(mode, s), RowKey(mode))
        BY <1>9 DEF E, first, key
      <4>4. beg'[t] \in [Class -> Nat] /\ fin[t] \in [Class -> Nat]
        BY <1>1, <1>8
      <4>5. InOrder(new, mode, s)
        BY <1>1, <1>4, <1>11, <4>2, <4>3, <4>4, RowsInOrder
      <4> QED BY <3>1, <4>5
    <3>2. CASE v # s
      <4>1. \A u \in Thread : Flagging(u) # {} => job[u] # v
        BY <1>12, <2>2, <3>2 DEF s
      <4>2. InOrder(cols[mode], mode, v)
        BY <1>3, <4>1 DEF RowJobs
      <4> QED BY <1>11, <3>2, <4>2, OrderFrame
    <3> QED BY <3>1, <3>2
  <2> QED BY <1>0, <2>1, <2>2 DEF RowJobs, new
<1>14. TypeInv'
  BY <1>0, <1>1, <1>8, <1>9 DEF TypeInv
<1>15. OrderInv'
  BY <1>0, <1>9, <1>11 DEF OrderInv, Aligned, new
<1>16. RowsInv'
  BY <1>0, <1>13 DEF RowsInv
<1>17. CountInv' /\ SerialInv'
  BY <1>0, <1>1 DEF CountInv, SerialInv
<1> QED BY <1>0, <1>14, <1>15, <1>16, <1>17 DEF IInv, ScatterInv, KernelInv

\* The classes of the slots of shard s, as TakeRows counts them, are the
\* classes of the nonzeros of the shard.
LEMMA RowClass ==
  ASSUME TypeInv, CountInv, phase = "rows", Grouped(cols[mode], mode), NEW s \in Shards(mode)
  PROVE  /\ FlagStart(ShardSlots(s), cnt[s], RowAt)
              = [k \in Class |-> ClassBegin(Members(mode, s), ShardBegin(mode, s), RowKey(mode), k)]
         /\ FlagEnd(ShardSlots(s), cnt[s], RowAt)
              = [k \in Class |-> ClassEnd(Members(mode, s), ShardBegin(mode, s), RowKey(mode), k)]
<1> DEFINE E == Members(mode, s)
           D == ShardRange(mode, s)
           key == RowKey(mode)
<1>1. /\ mode \in Mode /\ \A u \in Shards(mode) : cnt[u] = ShardBegin(mode, u)
      /\ cols[mode] \in Bijection(Slot, Elem)
  BY DEF TypeInv, CountInv, Grouped
<1>2. ShardSlots(s) = D /\ cnt[s] = ShardBegin(mode, s)
  BY <1>1, CountedSlots
<1>3. /\ \A i \in Slot : cols[mode][i] \in Elem
      /\ \A i \in Slot : cols[mode][i] \in E <=> i \in D
      /\ D \subseteq Slot /\ E \in SUBSET Elem
  <2>1. \A i \in Slot : cols[mode][i] \in Elem
    BY <1>1, GroupedFacts
  <2>2. \A i \in Slot : cols[mode][i] \in E <=> i \in D
    BY <1>1, MembersFacts, ShardRegion DEF Region
  <2> QED BY <1>1, <2>1, <2>2, RangeOrder, MembersFacts
<1>4. \A i \in Slot : RowAt(i) = key[cols[mode][i]]
  BY <1>3 DEF RowAt, RowKey
<1> HIDE DEF E, D, key
<1>5. ASSUME NEW k
      PROVE  /\ Cardinality({i \in D : RowAt(i) < k}) = Cardinality({e \in E : key[e] < k})
             /\ Cardinality({i \in D : RowAt(i) =< k}) = Cardinality({e \in E : key[e] =< k})
  <2> DEFINE Below == {e \in E : key[e] < k}
             UpTo == {e \in E : key[e] =< k}
  <2>1. {i \in D : RowAt(i) < k} = {i \in Slot : cols[mode][i] \in Below}
    <3>1. \A i : i \in D /\ RowAt(i) < k <=> i \in Slot /\ cols[mode][i] \in Below
      BY <1>3, <1>4
    <3> QED BY <3>1
  <2>2. {i \in D : RowAt(i) =< k} = {i \in Slot : cols[mode][i] \in UpTo}
    <3>1. \A i : i \in D /\ RowAt(i) =< k <=> i \in Slot /\ cols[mode][i] \in UpTo
      BY <1>3, <1>4
    <3> QED BY <3>1
  <2>3. Below \in SUBSET Elem /\ UpTo \in SUBSET Elem
    BY <1>3
  <2>4. /\ Cardinality({i \in Slot : cols[mode][i] \in Below}) = Cardinality(Below)
        /\ Cardinality({i \in Slot : cols[mode][i] \in UpTo}) = Cardinality(UpTo)
    <3> HIDE DEF Below, UpTo
    <3> QED BY <1>1, <2>3, SlotsOf
  <2> QED BY <2>1, <2>2, <2>4
<1>6. /\ FlagStart(D, ShardBegin(mode, s), RowAt)
           = [k \in Class |-> ClassBegin(E, ShardBegin(mode, s), key, k)]
      /\ FlagEnd(D, ShardBegin(mode, s), RowAt)
           = [k \in Class |-> ClassEnd(E, ShardBegin(mode, s), key, k)]
  BY <1>5 DEF FlagStart, FlagEnd, ClassBegin, ClassEnd
<1> QED BY <1>2, <1>6 DEF E, D, key

\* A shard with at most one nonzero is in order.
LEMMA ShortInOrder ==
  ASSUME NEW n \in Mode, NEW s \in Shards(n), NEW slab, Cardinality(ShardRange(n, s)) =< 1
  PROVE  InOrder(slab, n, s)
<1> DEFINE a == ShardBegin(n, s)
           z == ShardEnd(n, s)
<1>1. a \in Nat /\ z \in Nat
  BY CountTypes
<1> HIDE DEF a, z
<1>2. Cardinality(a .. z - 1) = IF a > z - 1 THEN 0 ELSE z - 1 - a + 1
  <2>1. a \in Int /\ z - 1 \in Int  BY <1>1
  <2> QED BY <2>1, FS_Interval
<1>3. ShardRange(n, s) = a .. z - 1
  BY DEF ShardRange, a, z
<1>4. \A i, j \in a .. z - 1 : ~(i < j)
  BY <1>1, <1>2, <1>3
<1> QED BY <1>3, <1>4 DEF InOrder

LEMMA TakeRowsStep == ASSUME IInv, NEW t \in Thread, TakeRows(t) PROVE IInv'
<1>0. /\ phase = "rows" /\ Flagging(t) = {}
      /\ UNCHANGED <<mode, phase, parallel, sorted, cols, scr, cnt, col, off, pos,
                     pending, yhat>>
  BY DEF TakeRows
<1>1. PICK s \in todo :
        /\ todo' = todo \ {s}
        /\ IF Cardinality(ShardSlots(s)) =< 1
           THEN UNCHANGED <<beg, fin>>
           ELSE /\ beg' = [beg EXCEPT ![t] = FlagStart(ShardSlots(s), cnt[s], RowAt)]
                /\ fin' = [fin EXCEPT ![t] = FlagEnd(ShardSlots(s), cnt[s], RowAt)]
  BY DEF TakeRows
<1>2. /\ TypeInv /\ CountInv /\ mode \in Mode /\ s \in Shards(mode)
      /\ todo \subseteq Shards(mode)
      /\ beg \in [Thread -> [Class -> Nat]] /\ fin \in [Thread -> [Class -> Nat]]
  BY DEF IInv, TypeInv
<1>3. Aligned /\ Grouped(cols[mode], mode)
  BY <1>0 DEF IInv, OrderInv
<1>4. PICK job \in [Thread -> Shards(mode)] : RowJobs(job)
  BY <1>0 DEF IInv, RowsInv
<1> DEFINE next == [job EXCEPT ![t] = s]
<1>5. /\ next \in [Thread -> Shards(mode)] /\ next[t] = s
      /\ \A u \in Thread \ {t} : next[u] = job[u]
  BY <1>2, <1>4
<1> HIDE DEF next
<1>6. /\ beg' \in [Thread -> [Class -> Nat]] /\ fin' \in [Thread -> [Class -> Nat]]
      /\ \A u \in Thread \ {t} : beg'[u] = beg[u] /\ fin'[u] = fin[u]
      /\ Flagging(t)' # {} => RowJob(t, s)'
      /\ Flagging(t)' = {} => InOrder(cols[mode], mode, s)
  <2>1. CASE Cardinality(ShardSlots(s)) =< 1
    <3>1. beg' = beg /\ fin' = fin
      BY <1>1, <2>1
    <3>2. Flagging(t)' = {}
      BY <1>0, <3>1 DEF Flagging
    <3>3. InOrder(cols[mode], mode, s)
      <4>1. \A u \in Shards(mode) : cnt[u] = ShardBegin(mode, u)
        BY <1>0, <1>2 DEF CountInv
      <4>2. ShardSlots(s) = ShardRange(mode, s)
        BY <1>2, <4>1, CountedSlots
      <4> QED BY <1>2, <2>1, <4>2, ShortInOrder
    <3> QED BY <1>2, <3>1, <3>2, <3>3
  <2>2. CASE ~(Cardinality(ShardSlots(s)) =< 1)
    <3> DEFINE E == Members(mode, s)
               first == ShardBegin(mode, s)
               key == RowKey(mode)
               b == [k \in Class |-> ClassBegin(E, first, key, k)]
               f == [k \in Class |-> ClassEnd(E, first, key, k)]
    <3>1. beg' = [beg EXCEPT ![t] = b] /\ fin' = [fin EXCEPT ![t] = f]
      BY <1>0, <1>1, <1>2, <1>3, <2>2, RowClass
    <3>2. Filling(b, f, cols[mode], E, first, key) /\ b \in [Class -> Nat] /\ f \in [Class -> Nat]
      <4>1. E \in SUBSET Elem /\ first \in Nat /\ key \in [Elem -> Nat]
        BY <1>2, <1>3, RowSort
      <4> QED BY <4>1, FillStart
    <3> HIDE DEF b, f, E, first, key
    <3>3. /\ beg' \in [Thread -> [Class -> Nat]] /\ fin' \in [Thread -> [Class -> Nat]]
          /\ \A u \in Thread \ {t} : beg'[u] = beg[u] /\ fin'[u] = fin[u]
          /\ beg'[t] = b /\ fin'[t] = f
      BY <1>2, <3>1, <3>2
    <3>4. RowJob(t, s)'
      BY <1>0, <3>2, <3>3 DEF RowJob, E, first, key
    <3>5. ASSUME Flagging(t)' = {} PROVE InOrder(cols[mode], mode, s)
      <4>1. \A k \in Class : ~(b[k] < f[k])
        BY <3>3, <3>5 DEF Flagging
      <4>2. Filling(b, f, cols[mode], Members(mode, s), ShardBegin(mode, s), RowKey(mode))
        BY <3>2 DEF E, first, key
      <4> QED BY <1>2, <1>3, <3>2, <4>1, <4>2, RowsInOrder
    <3> QED BY <3>3, <3>4, <3>5
  <2> QED BY <2>1, <2>2
<1>7. \A u \in Thread \ {t} : Flagging(u)' = Flagging(u)
  BY <1>6 DEF Flagging
<1>8. RowJobs(next)'
  <2>1. ASSUME NEW u \in Thread, Flagging(u)' # {}
        PROVE  /\ next[u] \notin todo' /\ RowJob(u, next[u])'
               /\ \A w \in Thread \ {u} : Flagging(w)' # {} => next[w] # next[u]
    <3>1. ASSUME NEW w \in Thread, w # t, Flagging(w)' # {}
          PROVE  /\ next[w] = job[w] /\ Flagging(w) # {} /\ job[w] \notin todo
                 /\ job[w] # s /\ RowJob(w, job[w])
      BY <1>4, <1>5, <1>7, <3>1 DEF RowJobs
    <3>2. CASE u = t
      BY <1>1, <1>5, <1>6, <2>1, <3>1, <3>2
    <3>3. CASE u # t
      <4>1. RowJob(u, next[u])'
        BY <1>0, <1>6, <2>1, <3>1, <3>3 DEF RowJob
      <4>2. ASSUME NEW w \in Thread \ {u}, Flagging(w)' # {} PROVE next[w] # next[u]
        <5>1. CASE w = t  BY <1>5, <2>1, <3>1, <3>3, <5>1
        <5>2. CASE w # t
          <6>1. /\ next[w] = job[w] /\ next[u] = job[u] /\ Flagging(w) # {} /\ Flagging(u) # {}
            BY <2>1, <3>1, <3>3, <4>2, <5>2
          <6> QED BY <1>4, <4>2, <6>1 DEF RowJobs
        <5> QED BY <5>1, <5>2
      <4> QED BY <1>1, <2>1, <3>1, <3>3, <4>1, <4>2
    <3> QED BY <3>2, <3>3
  <2>2. ASSUME NEW v \in Shards(mode) \ todo',
               \A u \in Thread : Flagging(u)' # {} => next[u] # v
        PROVE  InOrder(cols[mode], mode, v)
    <3>1. CASE v = s
      BY <1>5, <1>6, <2>2, <3>1
    <3>2. CASE v # s
      <4>1. v \in Shards(mode) \ todo
        BY <1>1, <3>2
      <4>2. ASSUME NEW u \in Thread, Flagging(u) # {} PROVE job[u] # v
        <5>1. u # t
          BY <1>0, <4>2
        <5> QED BY <1>5, <1>7, <2>2, <4>2, <5>1
      <4> QED BY <1>4, <4>1, <4>2 DEF RowJobs
    <3> QED BY <3>1, <3>2
  <2> QED BY <1>0, <2>1, <2>2 DEF RowJobs
<1>9. TypeInv'
  BY <1>0, <1>1, <1>2, <1>6 DEF TypeInv
<1>10. OrderInv'
  BY <1>0, <1>3 DEF OrderInv, Aligned
<1>11. RowsInv'
  BY <1>0, <1>5, <1>8 DEF RowsInv
<1>12. CountInv' /\ SerialInv'
  BY <1>0, <1>2 DEF CountInv, SerialInv
<1> QED BY <1>0, <1>9, <1>10, <1>11, <1>12 DEF IInv, ScatterInv, KernelInv

LEMMA RowsDoneStep == IInv /\ RowsDone => IInv'
<1> SUFFICES ASSUME IInv, RowsDone PROVE IInv'
  OBVIOUS
<1>0. /\ phase = "rows" /\ todo = {} /\ \A t \in Thread : Flagging(t) = {}
      /\ phase' = "zero" /\ sorted' = mode
      /\ UNCHANGED <<mode, parallel, sortVars, pending, yhat>>
  BY DEF RowsDone, RowsSorted
<1>1. TypeInv'
  BY <1>0 DEF IInv, TypeInv, sortVars
<1>2. OrderInv'
  BY <1>0 DEF IInv, OrderInv, Aligned, sortVars
<1>3. SerialInv'
  BY <1>0 DEF IInv, SerialInv, Flagging, sortVars
<1> QED BY <1>0, <1>1, <1>2, <1>3 DEF IInv, CountInv, ScatterInv, RowsInv, KernelInv

-----------------------------------------------------------------------------
(* The kernel. *)

LEMMA LaunchStep == IInv /\ Launch => IInv'
<1> SUFFICES ASSUME IInv, Launch PROVE IInv'
  OBVIOUS
<1>0. /\ phase = "zero" /\ phase' = "kernel"
      /\ yhat' = [yhat EXCEPT ![mode] = [e \in Elem |-> 0]]
      /\ pending' = [t \in Thread |->
           {s \in Shards(mode) : Owner[mode][s] = t /\ ShardRange(mode, s) # {}}]
      /\ UNCHANGED <<mode, parallel, sorted, sortVars>>
  BY DEF Launch
<1>1. TypeInv /\ mode \in Mode /\ yhat \in [Mode -> [Elem -> Nat]]
  BY DEF IInv, TypeInv
<1>2. yhat' \in [Mode -> [Elem -> Nat]] /\ yhat'[mode] = [e \in Elem |-> 0]
  BY <1>0, <1>1
<1>3. TypeInv'
  <2>1. pending' \in [Thread -> SUBSET Sid]
    <3>1. Shards(mode) \subseteq Sid
      BY <1>1, ClassFacts
    <3> QED BY <1>0, <3>1
  <2>2. todo = {} /\ UNCHANGED <<cols, scr, cnt, col, off, pos, todo, beg, fin>>
    BY <1>0, <1>1 DEF TypeInv, sortVars
  <2>3. /\ mode' \in Mode /\ sorted' \in Mode /\ phase' = "kernel" /\ todo' = {}
    BY <1>0, <1>1, <2>2 DEF TypeInv
  <2>4. /\ cols' \in [Column -> [Slot -> Elem]] /\ scr' \in [Slot -> Elem]
        /\ cnt' \in [Sid -> Nat] /\ col' \in 0 .. N + 1
        /\ off' \in [Thread -> [Sid -> Nat]] /\ pos' \in [Thread -> Nat]
        /\ beg' \in [Thread -> [Class -> Nat]] /\ fin' \in [Thread -> [Class -> Nat]]
    BY <1>1, <2>2 DEF TypeInv
  <2> QED BY <1>2, <2>1, <2>3, <2>4 DEF TypeInv
<1>4. Aligned /\ Grouped(cols[mode], mode) /\ sorted = mode
  BY <1>0 DEF IInv, OrderInv
<1>5. OrderInv'
  BY <1>0, <1>4 DEF OrderInv, Aligned, sortVars
<1>6. SerialInv'
  BY <1>0 DEF IInv, SerialInv, Flagging, sortVars
<1>7. ASSUME NEW e \in Elem PROVE Shard(mode, e) \in pending'[OwnerOf(mode, e)]
  <2>1. Shard(mode, e) \in Shards(mode) /\ OwnerOf(mode, e) \in Thread
    BY <1>1, ShardType, OwnerAssumption DEF OwnerOf
  <2>2. ShardRange(mode, Shard(mode, e)) # {}
    BY <1>1, <1>4, GroupedFacts
  <2> QED BY <1>0, <2>1, <2>2 DEF OwnerOf
<1>8. KernelInv'
  <2>1. \A t \in Thread : pending'[t] \subseteq {s \in Shards(mode) : Owner[mode][s] = t}
    BY <1>0
  <2>2. \A e \in Elem : yhat'[mode][e] = 0 /\ Shard(mode, e) \in pending'[OwnerOf(mode, e)]
    BY <1>2, <1>7
  <2>3. mode' = mode
    BY <1>0
  <2>4. /\ \A u \in Thread : pending'[u] \subseteq {v \in Shards(mode') : Owner[mode'][v] = u}
        /\ \A e \in Elem : yhat'[mode'][e]
             = IF Shard(mode', e) \in pending'[OwnerOf(mode', e)] THEN 0 ELSE 1
    BY <2>1, <2>2, <2>3
  <2> QED BY <2>4 DEF KernelInv
<1> QED BY <1>0, <1>3, <1>5, <1>6, <1>8 DEF IInv, CountInv, ScatterInv, RowsInv

\* The kernel reads every nonzero of a shard once, with all its columns.
LEMMA ReadOnce ==
  ASSUME mode \in Mode, Aligned, Grouped(cols[mode], mode), NEW s \in Shards(mode), NEW e \in Elem
  PROVE  Read(s, e) = IF Shard(mode, e) = s THEN 1 ELSE 0
<1> DEFINE D == {i \in ShardRange(mode, s) : \A c \in Column : cols[c][i] = e}
<1>1. \A i : (\A c \in Column : cols[c][i] = e) <=> cols[mode][i] = e
  BY ColumnFacts DEF Aligned
<1>2. CASE Shard(mode, e) = s
  <2>1. PICK d \in Slot : cols[mode][d] = e
    BY GroupedFacts
  <2>2. d \in ShardRange(mode, s)
    BY <1>2, <2>1, GroupedFacts
  <2>3. \A i \in ShardRange(mode, s) : cols[mode][i] = e => i = d
    BY <2>1, RangeOrder, GroupedFacts
  <2>4. D = {d}
    BY <1>1, <2>1, <2>2, <2>3
  <2> HIDE DEF D
  <2>5. Cardinality(D) = 1
    BY <2>4, FS_Singleton
  <2> QED BY <1>2, <2>5 DEF Read, D
<1>3. CASE Shard(mode, e) # s
  <2>1. \A i \in ShardRange(mode, s) : cols[mode][i] # e
    BY <1>3, GroupedFacts
  <2>2. D = {}
    BY <1>1, <2>1
  <2> HIDE DEF D
  <2>3. Cardinality(D) = 0
    BY <2>2, FS_EmptySet
  <2> QED BY <1>3, <2>3 DEF Read, D
<1> QED BY <1>2, <1>3

LEMMA ProcessShardStep == ASSUME IInv, NEW t \in Thread, ProcessShard(t) PROVE IInv'
<1>0. /\ phase = "kernel"
      /\ UNCHANGED <<mode, phase, parallel, sorted, sortVars>>
  BY DEF ProcessShard
<1>1. PICK s \in pending[t] :
        /\ pending' = [pending EXCEPT ![t] = @ \ {s}]
        /\ yhat' = [yhat EXCEPT ![mode] = [e \in Elem |-> @[e] + Read(s, e)]]
  BY DEF ProcessShard
<1>2. /\ TypeInv /\ mode \in Mode /\ yhat \in [Mode -> [Elem -> Nat]]
      /\ yhat[mode] \in [Elem -> Nat]
  BY DEF IInv, TypeInv
<1>3. Aligned /\ Grouped(cols[mode], mode) /\ sorted = mode
  BY <1>0 DEF IInv, OrderInv
<1>4. /\ \A u \in Thread : pending[u] \subseteq {v \in Shards(mode) : Owner[mode][v] = u}
      /\ \A e \in Elem :
           yhat[mode][e] = IF Shard(mode, e) \in pending[OwnerOf(mode, e)] THEN 0 ELSE 1
  BY <1>0 DEF IInv, KernelInv
<1>5. s \in Shards(mode) /\ Owner[mode][s] = t
  BY <1>4
<1>6. \A e \in Elem : Read(s, e) = IF Shard(mode, e) = s THEN 1 ELSE 0
  BY <1>2, <1>3, <1>5, ReadOnce
<1>7. /\ yhat' \in [Mode -> [Elem -> Nat]]
      /\ \A e \in Elem : yhat'[mode][e] = yhat[mode][e] + Read(s, e)
  <2> DEFINE new == [e \in Elem |-> yhat[mode][e] + Read(s, e)]
  <2>1. new \in [Elem -> Nat]
    BY <1>2, <1>6
  <2>2. yhat' = [yhat EXCEPT ![mode] = new]
    BY <1>1
  <2>3. \A e \in Elem : new[e] = yhat[mode][e] + Read(s, e)
    OBVIOUS
  <2> HIDE DEF new
  <2> QED BY <1>2, <2>1, <2>2, <2>3
<1>p. /\ pending' \in [Thread -> SUBSET Sid] /\ pending'[t] = pending[t] \ {s}
      /\ \A u \in Thread \ {t} : pending'[u] = pending[u]
  <2>1. pending \in [Thread -> SUBSET Sid]
    BY <1>2 DEF TypeInv
  <2> QED BY <1>1, <2>1
<1>8. TypeInv'
  BY <1>0, <1>2, <1>7, <1>p DEF TypeInv, sortVars
<1>9. OrderInv'
  BY <1>0, <1>3 DEF OrderInv, Aligned, sortVars
<1>10. SerialInv'
  BY <1>0 DEF IInv, SerialInv, Flagging, sortVars
<1>11. KernelInv'
  <2>1. /\ pending'[t] = pending[t] \ {s}
        /\ \A u \in Thread \ {t} : pending'[u] = pending[u]
    BY <1>p
  <2>2. \A u \in Thread : pending'[u] \subseteq {v \in Shards(mode) : Owner[mode][v] = u}
    BY <1>4, <2>1
  <2>3. ASSUME NEW e \in Elem
        PROVE  yhat'[mode][e] = IF Shard(mode, e) \in pending'[OwnerOf(mode, e)] THEN 0 ELSE 1
    <3>1. OwnerOf(mode, e) \in Thread /\ OwnerOf(mode, e) = Owner[mode][Shard(mode, e)]
      BY <1>2, ShardType, OwnerAssumption DEF OwnerOf
    <3>2. yhat[mode][e] = IF Shard(mode, e) \in pending[OwnerOf(mode, e)] THEN 0 ELSE 1
      BY <1>4
    <3>3. CASE Shard(mode, e) = s
      <4>1. OwnerOf(mode, e) = t
        BY <1>5, <3>1, <3>3
      <4> QED BY <1>6, <1>7, <2>1, <3>2, <3>3, <4>1
    <3>4. CASE Shard(mode, e) # s
      <4>1. yhat'[mode][e] = yhat[mode][e]
        <5>1. Read(s, e) = 0 /\ yhat[mode][e] \in Nat
          BY <1>2, <1>6, <3>4
        <5> QED BY <1>7, <5>1
      <4>2. Shard(mode, e) \in pending'[OwnerOf(mode, e)] <=> Shard(mode, e) \in pending[OwnerOf(mode, e)]
        BY <2>1, <3>1, <3>4
      <4> QED BY <3>2, <4>1, <4>2
    <3> QED BY <3>3, <3>4
  <2>4. mode' = mode
    BY <1>0
  <2>5. /\ \A u \in Thread : pending'[u] \subseteq {v \in Shards(mode') : Owner[mode'][v] = u}
        /\ \A e \in Elem : yhat'[mode'][e]
             = IF Shard(mode', e) \in pending'[OwnerOf(mode', e)] THEN 0 ELSE 1
    BY <2>2, <2>3, <2>4
  <2> QED BY <2>5 DEF KernelInv
<1> QED BY <1>0, <1>8, <1>9, <1>10, <1>11 DEF IInv, CountInv, ScatterInv, RowsInv

LEMMA JoinStep == IInv /\ Join => IInv'
<1> SUFFICES ASSUME IInv, Join PROVE IInv'
  OBVIOUS
<1>0. /\ phase = "kernel" /\ phase' = "idle" /\ mode' = Succ(mode)
      /\ UNCHANGED <<parallel, sorted, sortVars, pending, yhat>>
  BY DEF Join
<1>1. TypeInv /\ mode' \in Mode
  BY <1>0, ModeFacts DEF IInv, TypeInv
<1>2. Aligned /\ Grouped(cols[mode], sorted) /\ mode \in Mode
  BY <1>0 DEF IInv, OrderInv, TypeInv
<1>3. TypeInv'
  <2>1. todo = {} /\ todo' = todo
    BY <1>0, <1>1 DEF TypeInv, sortVars
  <2> QED BY <1>0, <1>1, <2>1 DEF TypeInv, sortVars
<1>4. OrderInv'
  <2>1. cols[mode'] = cols[mode]
    BY <1>1, <1>2, ColumnFacts DEF Aligned
  <2> QED BY <1>0, <1>2, <2>1 DEF OrderInv, Aligned, sortVars
<1>5. SerialInv'
  BY <1>0 DEF IInv, SerialInv, Flagging, sortVars
<1> QED BY <1>0, <1>3, <1>4, <1>5 DEF IInv, CountInv, ScatterInv, RowsInv, KernelInv

LEMMA StutterStep == IInv /\ UNCHANGED vars => IInv'
<1> SUFFICES ASSUME IInv, UNCHANGED vars PROVE IInv'
  OBVIOUS
<1>0. UNCHANGED <<mode, phase, parallel, sorted, cols, scr, cnt, col, off, pos, todo, beg,
                  fin, pending, yhat>>
  BY DEF vars
<1>1. TypeInv'
  BY <1>0 DEF IInv, TypeInv
<1>2. OrderInv' /\ CountInv'
  BY <1>0 DEF IInv, OrderInv, Aligned, CountInv
<1>3. ScatterInv'
  BY <1>0 DEF IInv, ScatterInv, CursorInv, ColumnInv, SlotShard, ShardAt, Dest, ColumnAt
<1>4. \A t \in Thread : Flagging(t)' = Flagging(t)
  BY <1>0 DEF Flagging
<1>5. SerialInv'
  BY <1>0, <1>4 DEF IInv, SerialInv
<1>6. RowsInv'
  BY <1>0, <1>4 DEF IInv, RowsInv, RowJobs, RowJob
<1>7. KernelInv'
  BY <1>0 DEF IInv, KernelInv
<1> QED BY <1>1, <1>2, <1>3, <1>5, <1>6, <1>7 DEF IInv

LEMMA InvStep == IInv /\ [Next]_vars => IInv'
<1> SUFFICES ASSUME IInv, [Next]_vars PROVE IInv'
  OBVIOUS
<1>1. CASE Begin
  BY <1>1, BeginSortedStep, BeginTrivialStep, BeginSerialStep, BeginParallelStep DEF Begin
<1>2. CASE Driver
  BY <1>2, SerialCycleStep, SerialDoneStep, CopyBackStep, RowsDoneStep, LaunchStep, JoinStep
  DEF Driver
<1>3. ASSUME NEW t \in Thread, Work(t) PROVE IInv'
  BY <1>3, ScatterStep, TakeRowsStep, RowCycleStep, ProcessShardStep DEF Work
<1>4. CASE UNCHANGED vars
  BY <1>4, StutterStep
<1> QED BY <1>1, <1>2, <1>3, <1>4 DEF Next

\* Every reachable state is as InPlaceInv says.
THEOREM Invariance == Spec => []IInv
BY InitInv, InvStep, PTL DEF Spec

-----------------------------------------------------------------------------
(* What the invariant implies. *)

LEMMA CursorsNeverMeet ==
  ASSUME IInv, phase = "scatter",
         NEW t \in Thread, NEW s \in Shards(mode), Left(t, s) # {}
  PROVE  /\ off[t][s] \in Slot
         /\ \A u \in Thread : \A v \in Shards(mode) :
              s < v \/ (s = v /\ t < u) => off[t][s] < off[u][v]
<1>1. TypeInv /\ CursorInv /\ mode \in Mode
  BY DEF IInv, ScatterInv, TypeInv
<1>2. SlotShard \in [Slot -> Nat] /\ s \in Nat
  BY <1>1, SlotShardType, ClassFacts
<1>3. PICK i \in pos[t] .. Hi(t) - 1 : ShardAt(i) = s
  BY DEF Left
<1>4. /\ pos[t] \in Nat /\ Hi(t) \in Nat /\ Hi(t) =< nnz /\ nnz \in Nat
      /\ pos[t] =< i /\ i < Hi(t) /\ i \in Nat
  <2>1. pos[t] \in Nat /\ Hi(t) \in Nat /\ Hi(t) =< nnz /\ nnz \in Nat
    BY <1>1, ChunkFacts, SlotFacts DEF TypeInv
  <2> QED BY <1>3, <2>1
<1>5. i \in Slot /\ SlotShard[i] = s
  <2>1. i \in Slot
    BY <1>4 DEF Slot
  <2> QED BY <1>1, <1>3, <2>1, SlotShardType
<1>6. off[t][s] = Rank(SlotShard, pos[t], s)
  BY <1>1 DEF CursorInv
<1>7. /\ Rank(SlotShard, pos[t], s) \in Slot
      /\ \A y, v \in Nat : s < v \/ (s = v /\ i < y) =>
           Rank(SlotShard, pos[t], s) < Rank(SlotShard, y, v)
  BY <1>2, <1>4, <1>5, RankBefore
<1>8. ASSUME NEW u \in Thread, NEW v \in Shards(mode), s < v \/ (s = v /\ t < u)
      PROVE  off[t][s] < off[u][v]
  <2>1. v \in Nat /\ pos[u] \in Nat /\ off[u][v] = Rank(SlotShard, pos[u], v)
    BY <1>1, ClassFacts DEF CursorInv, TypeInv
  <2>2. t < u => i < pos[u]
    <3>1. ASSUME t < u PROVE i < pos[u]
      <4>1. /\ Lo(t) + ChunkSize =< Lo(u) /\ Lo(t) \in Nat /\ Lo(u) \in Nat /\ ChunkSize \in Nat
            /\ Hi(t) = IF nnz =< Lo(t) + ChunkSize THEN nnz ELSE Lo(t) + ChunkSize
        BY <3>1, ChunkFacts
      <4>2. Lo(u) =< pos[u]
        BY <1>1 DEF CursorInv
      <4> QED BY <1>4, <2>1, <4>1, <4>2
    <3> QED BY <3>1
  <2>3. s < v \/ (s = v /\ i < pos[u])
    BY <1>8, <2>2
  <2> QED BY <1>6, <1>7, <2>1, <2>3
<1> QED BY <1>6, <1>7, <1>8

LEMMA InvAligned == IInv => ColumnsAligned
<1> SUFFICES ASSUME IInv PROVE ColumnsAligned
  OBVIOUS
<1>1. CASE phase = "scatter"
  <2> SUFFICES ASSUME NEW t \in Thread, NEW u \in Thread,
                      NEW s \in Shards(mode), NEW v \in Shards(mode), Left(t, s) # {}
               PROVE  /\ off[t][s] \in Slot
                      /\ Left(u, v) # {} /\ <<t, s>> # <<u, v>> => off[t][s] # off[u][v]
    BY <1>1 DEF ColumnsAligned, CursorsDisjoint
  <2>1. off[t][s] \in Slot
    BY <1>1, CursorsNeverMeet
  <2>2. ASSUME Left(u, v) # {}, <<t, s>> # <<u, v>> PROVE off[t][s] # off[u][v]
    <3>1. off[u][v] \in Slot
      BY <1>1, <2>2, CursorsNeverMeet
    <3>2. off[t][s] \in Nat /\ off[u][v] \in Nat
      BY <2>1, <3>1, SlotFacts
    <3>3. s \in Nat /\ v \in Nat /\ t \in Nat /\ u \in Nat
      BY ClassFacts, ShapeAssumption DEF IInv, TypeInv, Thread
    <3>4. CASE s < v \/ (s = v /\ t < u)
      <4>1. off[t][s] < off[u][v]
        BY <1>1, <3>4, CursorsNeverMeet
      <4> QED BY <3>2, <4>1
    <3>5. CASE v < s \/ (v = s /\ u < t)
      <4>1. off[u][v] < off[t][s]
        BY <1>1, <2>2, <3>5, CursorsNeverMeet
      <4> QED BY <3>2, <4>1
    <3> QED BY <2>2, <3>3, <3>4, <3>5
  <2> QED BY <2>1, <2>2
<1>2. CASE phase # "scatter"
  BY <1>2 DEF IInv, OrderInv, Aligned, ColumnsAligned
<1> QED BY <1>1, <1>2

LEMMA InvSwaps == IInv => SwapsSafe
<1> SUFFICES ASSUME IInv PROVE SwapsSafe
  OBVIOUS
<1> DEFINE at(t) == beg[t][Min(Flagging(t))]
<1>1. /\ TypeInv /\ mode \in Mode /\ SerialInv
      /\ beg \in [Thread -> [Class -> Nat]] /\ fin \in [Thread -> [Class -> Nat]]
  BY DEF IInv, TypeInv
<1>2. ASSUME phase = "serial", NEW t \in Thread, Flagging(t) # {}
      PROVE  /\ beg[t][ShardAt(at(t))] \in at(t) .. fin[t][ShardAt(at(t))] - 1
             /\ \A u \in Thread \ {t} : Flagging(u) = {}
  <2> DEFINE key == ShardKey(mode)
  <2>1. /\ t = 0 /\ \A u \in Thread \ {t} : Flagging(u) = {}
        /\ Filling(beg[t], fin[t], cols[mode], Elem, 0, key)
    BY <1>1, <1>2 DEF SerialInv
  <2>2. Aligned /\ cols[mode] \in Bijection(Slot, Elem)
    BY <1>1, <1>2, ColumnFacts DEF IInv, OrderInv, Aligned
  <2>3. /\ key \in [Elem -> Nat] /\ \A e \in Elem : key[e] = Shard(mode, e) /\ key[e] \in Class
        /\ Region(cols[mode], Elem, 0) /\ Elem \in SUBSET Elem /\ 0 \in Nat
    BY <1>1, <2>2, KeyTypes, WholeRegion
  <2> HIDE DEF key
  <2> DEFINE k == key[cols[mode][at(t)]]
  <2>4. /\ k \in Class /\ beg[t][k] < fin[t][k] /\ at(t) =< beg[t][k]
        /\ at(t) \in Slot /\ cols[mode][at(t)] \in Elem
    BY <1>1, <1>2, <2>1, <2>2, <2>3, CycleFacts
  <2>5. ShardAt(at(t)) = k
    BY <2>3, <2>4 DEF ShardAt
  <2>6. beg[t][k] \in Nat /\ fin[t][k] \in Nat /\ at(t) \in Nat
    BY <1>1, <2>4, SlotFacts
  <2> HIDE DEF k, at
  <2> QED BY <2>1, <2>4, <2>5, <2>6
<1>3. ASSUME phase = "rows", NEW t \in Thread, Flagging(t) # {}
      PROVE  /\ beg[t][RowAt(at(t))] \in at(t) .. fin[t][RowAt(at(t))] - 1
             /\ \A u \in Thread \ {t} : \A m \in Flagging(u) :
                  beg[u][m] # at(t) /\ beg[u][m] # beg[t][RowAt(at(t))]
  <2>1. Aligned /\ Grouped(cols[mode], mode)
    BY <1>3 DEF IInv, OrderInv
  <2>2. PICK job \in [Thread -> Shards(mode)] : RowJobs(job)
    BY <1>3 DEF IInv, RowsInv
  <2>3. ASSUME NEW u \in Thread, Flagging(u) # {}
        PROVE  /\ job[u] \in Shards(mode)
               /\ Filling(beg[u], fin[u], cols[mode], Members(mode, job[u]),
                          ShardBegin(mode, job[u]), RowKey(mode))
               /\ Members(mode, job[u]) \in SUBSET Elem /\ ShardBegin(mode, job[u]) \in Nat
               /\ RowKey(mode) \in [Elem -> Nat]
               /\ \A e \in Members(mode, job[u]) : RowKey(mode)[e] \in Class
               /\ Region(cols[mode], Members(mode, job[u]), ShardBegin(mode, job[u]))
               /\ cols[mode] \in Bijection(Slot, Elem)
               /\ ShardRange(mode, job[u]) = ShardBegin(mode, job[u]) ..
                    ShardBegin(mode, job[u]) + Cardinality(Members(mode, job[u])) - 1
    <3>1. job[u] \in Shards(mode) /\ RowJob(u, job[u])
      BY <2>2, <2>3 DEF RowJobs
    <3> QED BY <1>1, <2>1, <3>1, RowSort, MembersFacts DEF RowJob
  <2> DEFINE E == Members(mode, job[t])
             key == RowKey(mode)
             k == key[cols[mode][at(t)]]
  <2>4. /\ k \in Class /\ beg[t][k] < fin[t][k] /\ at(t) =< beg[t][k]
        /\ at(t) \in Slot /\ cols[mode][at(t)] \in E
        /\ at(t) \in ShardRange(mode, job[t]) /\ beg[t][k] \in ShardRange(mode, job[t])
    BY <1>1, <1>3, <2>1, <2>3, CycleFacts
  <2>5. RowAt(at(t)) = k
    <3>1. cols[mode][at(t)] \in Elem
      BY <1>3, <2>3, <2>4
    <3> QED BY <3>1 DEF RowAt, RowKey
  <2>6. beg[t][k] \in Nat /\ fin[t][k] \in Nat /\ at(t) \in Nat
    BY <1>1, <2>4, SlotFacts
  <2>7. ASSUME NEW u \in Thread \ {t}, NEW m \in Flagging(u)
        PROVE  beg[u][m] # at(t) /\ beg[u][m] # beg[t][k]
    <3>1. job[u] # job[t]
      BY <1>3, <2>2, <2>7 DEF RowJobs
    <3>2. beg[u][m] \in ShardRange(mode, job[u])
      <4>1. m \in Class /\ beg[u][m] < fin[u][m]
        BY <2>7 DEF Flagging
      <4>2. beg[u] \in [Class -> Nat] /\ fin[u] \in [Class -> Nat]
        BY <1>1
      <4> QED BY <2>3, <2>7, <4>1, <4>2, CursorSlot
    <3>3. \A d \in ShardRange(mode, job[t]) : d # beg[u][m]
      BY <1>1, <1>3, <2>3, <2>7, <3>1, <3>2, RangeDisjoint
    <3> QED BY <2>4, <3>3
  <2> HIDE DEF k, at
  <2> QED BY <2>4, <2>5, <2>6, <2>7
<1> QED BY <1>2, <1>3 DEF SwapsSafe

LEMMA InvKernelOrder == IInv => KernelOrder
<1> SUFFICES ASSUME IInv PROVE KernelOrder
  OBVIOUS
<1>1. TypeInv /\ mode \in Mode
  BY DEF IInv, TypeInv
<1>2. phase \in {"zero", "kernel"} => Grouped(cols[mode], mode)
  BY DEF IInv, OrderInv
<1>3. ASSUME RowsSorted, NEW c \in Slot, NEW d \in Slot, c < d
      PROVE  Row[mode][cols[mode][c]] =< Row[mode][cols[mode][d]]
  <2> DEFINE x == Row[mode][cols[mode][c]]
             y == Row[mode][cols[mode][d]]
             m == MN[mode]
             u == Shard(mode, cols[mode][c])
             v == Shard(mode, cols[mode][d])
  <2>1. Grouped(cols[mode], mode) /\ phase = "rows"
    BY <1>3 DEF RowsSorted, IInv, OrderInv
  <2>2. PICK job \in [Thread -> Shards(mode)] : RowJobs(job)
    BY <2>1 DEF IInv, RowsInv
  <2>3. \A s \in Shards(mode) : InOrder(cols[mode], mode, s)
    BY <1>3, <2>2 DEF RowsSorted, RowJobs
  <2>4. cols[mode][c] \in Elem /\ cols[mode][d] \in Elem
    BY <1>1, <2>1, GroupedFacts
  <2>5. x \in Nat /\ y \in Nat /\ m \in Nat \ {0} /\ u = x \div m /\ v = y \div m
    BY <1>1, <2>4, TensorAssumption DEF Shard
  <2>6. /\ u \in Shards(mode) /\ v \in Shards(mode)
        /\ c \in ShardRange(mode, u) /\ d \in ShardRange(mode, v)
    BY <1>1, <2>1, GroupedFacts
  <2>7. u \in Nat /\ v \in Nat /\ c \in Nat /\ d \in Nat
    BY <1>1, <2>6, SlotFacts, ClassFacts
  <2>8. u = v => x % m =< y % m
    BY <1>1, <1>3, <2>3, <2>4, <2>6 DEF InOrder, RowKey
  <2>9. ~(v < u)
    <3>1. v < u => ShardEnd(mode, v) =< ShardBegin(mode, u)
      BY <1>1, <2>6, RangeOrder
    <3>2. ShardEnd(mode, v) \in Nat /\ ShardBegin(mode, u) \in Nat
      BY CountTypes
    <3>3. d < ShardEnd(mode, v) /\ ShardBegin(mode, u) =< c
      BY <2>6, <2>7, CountTypes DEF ShardRange
    <3> HIDE DEF u, v
    <3> QED BY <1>3, <2>7, <3>1, <3>2, <3>3
  <2> HIDE DEF x, y, m, u, v
  <2> SUFFICES x =< y
    BY DEF x, y
  <2>10. /\ x = m * u + (x % m) /\ x % m \in 0 .. m - 1
         /\ y = m * v + (y % m) /\ y % m \in 0 .. m - 1
    BY <2>5
  <2>11. CASE u = v
    BY <2>5, <2>7, <2>8, <2>10, <2>11
  <2>12. CASE u < v
    <3>1. m * u + m =< m * v
      <4>1. (u + 1) * m =< v * m
        BY <2>5, <2>7, <2>12, Times
      <4> QED BY <2>5, <2>7, <4>1
    <3>2. m * u \in Nat /\ m * v \in Nat
      BY <2>5, <2>7
    <3> QED BY <2>5, <2>10, <3>1, <3>2
  <2> QED BY <2>7, <2>9, <2>11, <2>12
<1> QED BY <1>2, <1>3 DEF KernelOrder

-----------------------------------------------------------------------------
(* Theorems. *)

\* Whatever path sorts the slab, all its columns end with the same permutation
\* of the nonzeros; while the parallel pass 1 of inplace_sort_slab_by_mode
\* scatters a column, no two threads' cursors are at the same slot.
THEOREM ColumnsStayAligned == Spec => []ColumnsAligned
BY Invariance, InvAligned, PTL

\* The American-flag swaps of the threads of pass 2 touch disjoint slots, and
\* a swap never takes a nonzero out of a finished class.
THEOREM SwapsAreSafe == Spec => []SwapsSafe
BY Invariance, InvSwaps, PTL

\* The kernel reads a slab grouped by the shards of its mode, on the paths
\* that sort it and on those that skip the sort, and a completed pass 2 has
\* put the rows of every shard in order.
THEOREM KernelReadsInOrder == Spec => []KernelOrder
BY Invariance, InvKernelOrder, PTL

-----------------------------------------------------------------------------
(* Refinement. *)

LEMMA PromiseInit == Init => Promise!Init
<1> SUFFICES ASSUME Init PROVE Promise!Init
  OBVIOUS
<1>1. mode = 0 /\ phase = "idle" /\ yhat = [n \in Mode |-> [e \in Elem |-> 0]]
  BY DEF Init
<1> QED BY <1>1, ModeFacts DEF Promise!Init, Promise!Mode, Mode

LEMMA PromiseStep == IInv /\ [Next]_vars => [Promise!Next]_(Promise!vars)
<1> SUFFICES ASSUME IInv, [Next]_vars PROVE [Promise!Next]_(Promise!vars)
  OBVIOUS
<1> DEFINE out == [n \in Mode |-> IF n = mode /\ phase # "idle"
                                  THEN "undefined" ELSE yhat[n]]
<1>0. mode \in Mode /\ yhat \in [Mode -> [Elem -> Nat]]
  BY DEF IInv, TypeInv
<1>1. CASE Begin
  <2>1. /\ phase = "idle" /\ phase' # "idle" /\ UNCHANGED <<mode, yhat>>
    BY <1>1 DEF Begin, BeginSorted, BeginTrivial, BeginSerial, BeginParallel
  <2>2. out' = [out EXCEPT ![mode] = "undefined"]
    BY <1>0, <2>1
  <2>3. Promise!Call
    BY <2>1, <2>2 DEF Promise!Call, Promise!Undefined
  <2> QED BY <2>3 DEF Promise!Next
<1>2. ASSUME phase # "idle", phase' # "idle", mode' = mode,
             \A n \in Mode \ {mode} : yhat'[n] = yhat[n]
      PROVE  UNCHANGED Promise!vars
  <2>1. out' = out
    BY <1>2
  <2> QED BY <1>2, <2>1 DEF Promise!vars
<1>3. CASE SerialCycle \/ SerialDone \/ CopyBack \/ RowsDone
  <2>1. phase # "idle" /\ phase' # "idle" /\ mode' = mode /\ yhat' = yhat
    BY <1>3 DEF SerialCycle, Cycle, SerialDone, Pass1Done, CopyBack, Scattered, RowsDone, RowsSorted
  <2> QED BY <1>2, <2>1
<1>4. CASE Launch
  BY <1>0, <1>2, <1>4 DEF Launch
<1>5. ASSUME NEW t \in Thread, Work(t) PROVE UNCHANGED Promise!vars
  <2>1. CASE Scatter(t) \/ TakeRows(t) \/ RowCycle(t)
    <3>1. phase # "idle" /\ phase' # "idle" /\ mode' = mode /\ yhat' = yhat
      BY <2>1 DEF Scatter, TakeRows, RowCycle, Cycle
    <3> QED BY <1>2, <3>1
  <2>2. CASE ProcessShard(t)
    <3>1. /\ phase = "kernel" /\ phase' = phase /\ mode' = mode
          /\ \A n \in Mode \ {mode} : yhat'[n] = yhat[n]
      BY <1>0, <2>2 DEF ProcessShard
    <3> QED BY <1>2, <3>1
  <2> QED BY <1>5, <2>1, <2>2 DEF Work
<1>6. CASE Join
  <2>1. /\ phase = "kernel" /\ phase' = "idle" /\ mode' = Succ(mode)
        /\ yhat' = yhat /\ \A t \in Thread : pending[t] = {}
    BY <1>6 DEF Join
  <2>2. ASSUME NEW e \in Elem PROVE yhat[mode][e] = 1
    <3>1. OwnerOf(mode, e) \in Thread
      BY <1>0, ShardType, OwnerAssumption DEF OwnerOf
    <3> QED BY <2>1, <3>1 DEF IInv, KernelInv
  <2>3. yhat[mode] = Promise!Exact
    BY <1>0, <2>2 DEF Promise!Exact
  <2>4. out' = [out EXCEPT ![mode] = Promise!Exact]
    <3>1. out' = yhat
      BY <1>0, <2>1
    <3>2. [out EXCEPT ![mode] = Promise!Exact] = yhat
      BY <1>0, <2>3
    <3> QED BY <3>1, <3>2
  <2>5. Promise!Return
    BY <2>1, <2>4 DEF Promise!Return, Succ
  <2> QED BY <2>5 DEF Promise!Next
<1>7. CASE UNCHANGED vars
  BY <1>7 DEF vars, Promise!vars
<1> QED
  BY <1>1, <1>3, <1>4, <1>5, <1>6, <1>7 DEF Next, Driver, Promise!vars

\* The InPlace sweep implements the safety part of Mttkrp: a process(n) that
\* returns has added every nonzero exactly once into Yhat[n], however the slab
\* was sorted for it.
THEOREM InPlaceImplementsMttkrp ==
  Spec => Promise!Init /\ [][Promise!Next]_(Promise!vars)
<1>1. Init => Promise!Init  BY PromiseInit
<1>2. IInv /\ [Next]_vars => [Promise!Next]_(Promise!vars)  BY PromiseStep
<1> QED BY <1>1, <1>2, Invariance, PTL DEF Spec
=============================================================================
