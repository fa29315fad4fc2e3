-------------------------- MODULE RemapSweepProofs --------------------------
(***************************************************************************)
(* Proofs about RemapSweep for every tensor, thread count, schedule and    *)
(* choice of kernels.                                                      *)
(***************************************************************************)
EXTENDS RemapSweepInv, FlycooProofs

-----------------------------------------------------------------------------
(* Typing. *)

LEMMA SidFacts ==
  \A n \in Mode : Shards(n) \subseteq Sid /\ \A s \in Shards(n) : s \in Nat
BY DEF Sid, Shards

LEMMA TypeInit == Init => TypeOK
<1> SUFFICES ASSUME Init PROVE TypeOK
  OBVIOUS
<1>1. mode \in Mode  BY ModeFacts DEF Init
<1>2. vals \in [Slot -> Elem] /\ scr \in [Slot -> Elem]
  BY DEF Init, Grouped, Bijection, Injection
<1> QED BY <1>1, <1>2 DEF Init, TypeOK, Phase

\* A sort of one shard keeps a slab a slab.
LEMMA SortedType ==
  ASSUME NEW n \in Mode, NEW s \in Shards(n),
         NEW src \in [Slot -> Elem], NEW dst \in [Slot -> Elem],
         NEW from \in Bijection(ShardRange(n, s), ShardRange(n, s))
  PROVE  [d \in Slot |-> IF d \in ShardRange(n, s) THEN src[from[d]] ELSE dst[d]]
           \in [Slot -> Elem]
<1>1. \A d \in ShardRange(n, s) : from[d] \in ShardRange(n, s)
  BY DEF Bijection, Injection
<1> QED BY <1>1, RangeOrder

\* A slot its owner has still to visit in the shard it is in.
LEMMA AheadShard ==
  ASSUME TypeOK, ThreadInv, NEW t \in Thread, NEW k \in ip[t] .. ends[t] - 1
  PROVE  /\ k \in Slot
         /\ \E s \in Shards(mode) : /\ Owner[mode][s] = t /\ s \notin pending[t]
                                   /\ k \in ShardRange(mode, s)
<1>1. ip[t] \in Nat /\ ends[t] \in Nat /\ mode \in Mode  BY DEF TypeOK
<1>2. ip[t] < ends[t]  BY <1>1
<1>3. PICK s \in Shards(mode) : InShard(t, s)  BY <1>2 DEF ThreadInv
<1>4. ShardBegin(mode, s) \in Nat /\ ShardEnd(mode, s) \in Nat
      /\ ShardRange(mode, s) \subseteq Slot
  BY <1>1, RangeOrder
<1>5. k \in ShardRange(mode, s)
  BY <1>1, <1>3, <1>4 DEF InShard, ShardRange
<1> QED BY <1>3, <1>4, <1>5 DEF InShard

LEMMA TypeStep == TypeOK /\ QuietInv /\ ThreadInv /\ [Next]_vars => TypeOK'
<1> SUFFICES ASSUME TypeOK, QuietInv, ThreadInv, [Next]_vars PROVE TypeOK'
  OBVIOUS
<1> USE DEF threadVars, driverVars
<1>1. CASE Begin
  BY <1>1 DEF Begin, TypeOK, Phase
<1>2. ASSUME NEW s \in unsorted, FiberShard(s) PROVE TypeOK'
  <2>1. PICK from \in Bijection(ShardRange(mode, s), ShardRange(mode, s)) :
           SortedInto(scr, vals, s, mode, from)
    BY <1>2 DEF FiberShard
  <2>2. scr' \in [Slot -> Elem]
    <3>1. mode \in Mode /\ s \in Shards(mode)
          /\ vals \in [Slot -> Elem] /\ scr \in [Slot -> Elem]
      BY DEF TypeOK
    <3>2. [d \in Slot |-> IF d \in ShardRange(mode, s)
                          THEN vals[from[d]] ELSE scr[d]] \in [Slot -> Elem]
      BY <3>1, SortedType
    <3> QED BY <2>1, <3>2 DEF SortedInto
  <2> QED BY <1>2, <2>2 DEF FiberShard, TypeOK
<1>3. ASSUME NEW s \in unsorted, LsdShard(s) PROVE TypeOK'
  <2>1. PICK from \in Bijection(ShardRange(mode, s), ShardRange(mode, s)) :
           SortedInto(scr, vals, s, SortMode(mode), from)
    BY <1>3 DEF LsdShard
  <2>2. scr' \in [Slot -> Elem]
    <3>1. mode \in Mode /\ s \in Shards(mode)
          /\ vals \in [Slot -> Elem] /\ scr \in [Slot -> Elem]
      BY DEF TypeOK
    <3>2. [d \in Slot |-> IF d \in ShardRange(mode, s)
                          THEN vals[from[d]] ELSE scr[d]] \in [Slot -> Elem]
      BY <3>1, SortedType
    <3> QED BY <2>1, <3>2 DEF SortedInto
  <2> QED BY <1>3, <2>2 DEF LsdShard, TypeOK
<1>4. ASSUME NEW s \in unsorted, MsdShard(s) PROVE TypeOK'
  <2>1. PICK from \in Bijection(ShardRange(mode, s), ShardRange(mode, s)) :
           SortedInto(vals, scr, s, mode, from)
    BY <1>4 DEF MsdShard
  <2>2. vals' \in [Slot -> Elem]
    <3>1. mode \in Mode /\ s \in Shards(mode)
          /\ scr \in [Slot -> Elem] /\ vals \in [Slot -> Elem]
      BY DEF TypeOK
    <3>2. [d \in Slot |-> IF d \in ShardRange(mode, s)
                          THEN scr[from[d]] ELSE vals[d]] \in [Slot -> Elem]
      BY <3>1, SortedType
    <3> QED BY <2>1, <3>2 DEF SortedInto
  <2> QED BY <1>4, <2>2 DEF MsdShard, TypeOK
<1>5. CASE FiberDone
  BY <1>5 DEF FiberDone, TypeOK, Phase
<1>6. CASE LsdDone
  BY <1>6 DEF LsdDone, TypeOK, Phase
<1>7. CASE MsdDone
  BY <1>7 DEF MsdDone, TypeOK, Phase
<1>8. CASE Launch
  <2>1. yhat' \in [Mode -> [Elem -> Nat]]
    BY <1>8 DEF Launch, Zeroed, CursorTemplate, ThreadShards, TypeOK
  <2>2. off' \in [Thread -> [Sid -> Nat]]
    <3>1. \A t \in Thread, s \in Sid : ThrOff(mode, t, s) \in Nat
      <4> SUFFICES ASSUME NEW t \in Thread, NEW s \in Sid
                   PROVE  ThrOff(mode, t, s) \in Nat
        OBVIOUS
      <4>1. Before(mode, t, s) \subseteq Elem  BY DEF Before
      <4> QED BY <4>1, FiniteElems DEF ThrOff
    <3> QED BY <1>8, <3>1 DEF Launch, Zeroed, CursorTemplate, ThreadShards
  <2>3. pending' \in [Thread -> SUBSET Shards(mode)]
    BY <1>8 DEF Launch, Zeroed, CursorTemplate, ThreadShards
  <2> QED BY <1>8, <2>1, <2>2, <2>3 DEF Launch, Zeroed, CursorTemplate, ThreadShards, TypeOK, Phase
<1>9. ASSUME NEW t \in Thread, TakeShard(t) PROVE TypeOK'
  <2>1. PICK s \in pending[t] :
           /\ pending' = [pending EXCEPT ![t] = @ \ {s}]
           /\ ip' = [ip EXCEPT ![t] = ShardBegin(mode, s)]
           /\ ends' = [ends EXCEPT ![t] = ShardEnd(mode, s)]
    BY <1>9 DEF TakeShard
  <2>2. s \in Shards(mode)  BY DEF TypeOK
  <2>3. ShardBegin(mode, s) \in Nat /\ ShardEnd(mode, s) \in Nat
    BY <2>2, RangeOrder DEF TypeOK
  <2> QED BY <1>9, <2>1, <2>3 DEF TakeShard, TypeOK
<1>10. ASSUME NEW t \in Thread, LoadRow(t) PROVE TypeOK'
  <2>1. stop' \in [Thread -> Nat]
    BY <1>10 DEF LoadRow, TypeOK
  <2>2. acc' \in [Thread -> [Elem -> Nat]]
    BY <1>10 DEF LoadRow, TypeOK
  <2> QED BY <1>10, <2>1, <2>2 DEF LoadRow, TypeOK
<1>11. ASSUME NEW t \in Thread, Accumulate(t) PROVE TypeOK'
  <2>1. vals[ip[t]] \in Elem /\ ip[t] \in Nat
    <3>1. ip[t] \in ip[t] .. ends[t] - 1
      BY <1>11 DEF Accumulate, ThreadInv, TypeOK
    <3>2. ip[t] \in Slot  BY <3>1, AheadShard
    <3> QED BY <3>2 DEF TypeOK
  <2> DEFINE e == vals[ip[t]]
             s == Shard(Succ(mode), e)
  <2>2. s \in Sid
    <3>1. Succ(mode) \in Mode  BY ModeFacts DEF TypeOK
    <3> QED BY <2>1, <3>1, ShardType, SidFacts
  <2>3. acc' \in [Thread -> [Elem -> Nat]]
    <3>1. acc' = [acc EXCEPT ![t][e] = @ + 1]  BY <1>11 DEF Accumulate
    <3> HIDE DEF e
    <3>2. e \in Elem  BY <2>1 DEF e
    <3> QED BY <3>1, <3>2 DEF TypeOK
  <2>4. off' \in [Thread -> [Sid -> Nat]]
    <3>1. off' = [off EXCEPT ![t][s] = @ + 1]  BY <1>11 DEF Accumulate
    <3> HIDE DEF s
    <3> QED BY <3>1, <2>2 DEF TypeOK
  <2>5. scr' \in [Slot -> Elem]
    <3>1. scr' = [scr EXCEPT ![off[t][s]] = e]  BY <1>11 DEF Accumulate
    <3> HIDE DEF s, e
    <3>2. e \in Elem  BY <2>1 DEF e
    <3> QED BY <3>1, <3>2 DEF TypeOK
  <2>6. ip' \in [Thread -> Nat]
    BY <1>11, <2>1 DEF Accumulate, TypeOK
  <2> QED BY <1>11, <2>3, <2>4, <2>5, <2>6 DEF Accumulate, TypeOK
<1>12. ASSUME NEW t \in Thread, StoreRow(t) PROVE TypeOK'
  <2>1. yhat' \in [Mode -> [Elem -> Nat]]
    BY <1>12 DEF StoreRow, TypeOK
  <2> QED BY <1>12, <2>1 DEF StoreRow, TypeOK
<1>13. CASE Join
  <2>1. mode' \in Mode  BY <1>13, ModeFacts DEF Join, TypeOK
  <2>2. unsorted' = {} /\ pending' = [t \in Thread |-> {}]
    BY <1>13 DEF Join, Finished, QuietInv, TypeOK
  <2>3. pending' \in [Thread -> SUBSET Shards(mode')]  BY <2>2
  <2> QED BY <1>13, <2>1, <2>2, <2>3 DEF Join, TypeOK, Phase
<1>14. CASE UNCHANGED vars
  BY <1>14 DEF vars, TypeOK
<1> QED
  BY <1>1, <1>2, <1>3, <1>4, <1>5, <1>6, <1>7, <1>8, <1>9, <1>10, <1>11,
     <1>12, <1>13, <1>14 DEF Next, Sort, Driver, Kernel

-----------------------------------------------------------------------------
(* The slabs. *)

\* Permuting a grouped slab within its shards leaves it grouped.
LEMMA CopyGrouped ==
  ASSUME NEW src, NEW dst \in [Slot -> Elem], mode \in Mode, Grouped(src, mode),
         \A s \in Shards(mode) : ShardCopy(dst, src, s)
  PROVE  Grouped(dst, mode)
<1>1. ASSUME NEW e \in Elem
      PROVE  \E d \in Slot : dst[d] = e /\ d \in ShardRange(mode, Shard(mode, e))
  <2>1. PICK k \in Slot : src[k] = e  BY GroupedFacts
  <2> DEFINE s == Shard(mode, e)
  <2>2. s \in Shards(mode) /\ k \in ShardRange(mode, s)
    BY <2>1, GroupedFacts
  <2>3. PICK from \in Bijection(ShardRange(mode, s), ShardRange(mode, s)) :
           \A d \in ShardRange(mode, s) : dst[d] = src[from[d]]
    BY <2>2 DEF ShardCopy
  <2>4. PICK d \in ShardRange(mode, s) : from[d] = k
    BY <2>2 DEF Bijection, Surjection
  <2>5. dst[d] = e /\ d \in Slot
    BY <2>1, <2>2, <2>3, <2>4, RangeOrder
  <2> QED BY <2>5, <2>4
<1> QED BY <1>1, OntoGrouped

\* Sorting shard s leaves what the other shards' slots hold alone.
LEMMA SortShard ==
  ASSUME mode \in Mode, NEW s \in Shards(mode), NEW src, NEW dst, NEW new,
         NEW from \in Bijection(ShardRange(mode, s), ShardRange(mode, s)),
         \A d \in Slot : new[d] = IF d \in ShardRange(mode, s)
                                  THEN src[from[d]] ELSE dst[d],
         NEW u \in Shards(mode), u = s \/ ShardCopy(dst, src, u)
  PROVE  ShardCopy(new, src, u)
<1>1. CASE u = s
  <2>1. \A d \in ShardRange(mode, s) : new[d] = src[from[d]]  BY RangeOrder
  <2> QED BY <1>1, <2>1 DEF ShardCopy
<1>2. CASE u # s
  <2>1. PICK f \in Bijection(ShardRange(mode, u), ShardRange(mode, u)) :
           \A d \in ShardRange(mode, u) : dst[d] = src[f[d]]
    BY <1>2 DEF ShardCopy
  <2>2. ASSUME NEW d \in ShardRange(mode, u) PROVE new[d] = dst[d]
    <3>1. d \in Slot  BY RangeOrder
    <3>2. d \notin ShardRange(mode, s)  BY <1>2, RangeDisjoint
    <3> QED BY <3>1, <3>2
  <2> QED BY <2>1, <2>2 DEF ShardCopy
<1> QED BY <1>1, <1>2

-----------------------------------------------------------------------------
(* Ownership: what a thread has to visit, and the row it holds, lie in     *)
(* super-shards of its own list.                                           *)

LEMMA SameRowOwner ==
  ASSUME NEW n \in Mode, NEW e \in Elem, NEW f \in Elem, Row[n][e] = Row[n][f]
  PROVE  OwnerOf(n, e) = OwnerOf(n, f)
BY DEF OwnerOf, Shard

LEMMA AheadOwned ==
  ASSUME TypeOK, ThreadInv, Grouped(vals, mode), NEW t \in Thread, NEW k \in Ahead(t)
  PROVE  k \in Slot /\ vals[k] \in Elem /\ OwnerOf(mode, vals[k]) = t
<1>1. k \in Slot /\ mode \in Mode /\ vals[k] \in Elem  BY DEF Ahead, TypeOK
<1>2. ASSUME NEW s \in Shards(mode), k \in ShardRange(mode, s), Owner[mode][s] = t
      PROVE  OwnerOf(mode, vals[k]) = t
  <2>1. Shard(mode, vals[k]) = s  BY <1>1, <1>2, GroupedFacts
  <2> QED BY <1>2, <2>1 DEF OwnerOf
<1>3. CASE k \in ip[t] .. ends[t] - 1
  BY <1>1, <1>2, <1>3, AheadShard
<1>4. CASE \E u \in pending[t] : k \in ShardRange(mode, u)
  <2>1. PICK u \in pending[t] : k \in ShardRange(mode, u)  BY <1>4
  <2>2. u \in Shards(mode) /\ Owner[mode][u] = t  BY DEF TypeOK, ThreadInv
  <2> QED BY <1>1, <1>2, <2>1, <2>2
<1> QED BY <1>1, <1>3, <1>4 DEF Ahead

LEMMA HeldOwned ==
  ASSUME TypeOK, ThreadInv, Grouped(vals, mode), NEW t \in Thread, at[t] = "run"
  PROVE  /\ stop[t] - 1 \in Slot
         /\ vals[stop[t] - 1] \in Elem
         /\ OwnerOf(mode, vals[stop[t] - 1]) = t
<1>1. mode \in Mode /\ stop[t] \in Nat /\ ends[t] \in Nat  BY DEF TypeOK
<1>2. PICK s \in Shards(mode) : InShard(t, s) /\ ShardBegin(mode, s) < stop[t]
  BY DEF ThreadInv
<1>3. stop[t] =< ends[t]  BY DEF ThreadInv
<1>4. ShardBegin(mode, s) \in Nat /\ ShardRange(mode, s) \subseteq Slot
  BY <1>1, RangeOrder
<1>5. stop[t] - 1 \in ShardRange(mode, s)
  BY <1>1, <1>2, <1>3, <1>4 DEF InShard, ShardRange
<1>6. Shard(mode, vals[stop[t] - 1]) = s
  BY <1>1, <1>5, GroupedFacts
<1> QED BY <1>1, <1>2, <1>4, <1>5, <1>6 DEF InShard, OwnerOf, TypeOK

\* Two threads that hold a row in registers hold different rows.
LEMMA HeldApart ==
  ASSUME TypeOK, ThreadInv, Grouped(vals, mode),
         NEW t \in Thread, NEW u \in Thread, t # u, at[t] = "run", at[u] = "run"
  PROVE  HeldRow(t) # HeldRow(u)
<1>1. mode \in Mode  BY DEF TypeOK
<1> QED BY <1>1, HeldOwned, SameRowOwner DEF HeldRow

\* No other thread holds the row of a nonzero t has still to visit.
LEMMA AheadApart ==
  ASSUME TypeOK, ThreadInv, Grouped(vals, mode),
         NEW t \in Thread, NEW k \in Ahead(t),
         NEW u \in Thread, at[u] = "run", HeldRow(u) = Row[mode][vals[k]]
  PROVE  t = u
<1>1. mode \in Mode  BY DEF TypeOK
<1> QED BY <1>1, HeldOwned, AheadOwned, SameRowOwner DEF HeldRow

-----------------------------------------------------------------------------
(* Progress: what is placed. *)

LEMMA PlacedType ==
  ASSUME TypeOK PROVE Placed \subseteq Elem
BY DEF Placed, TypeOK

\* A nonzero a thread has still to visit is not placed.
LEMMA AheadUnplaced ==
  ASSUME TypeOK, Grouped(vals, mode), NEW t \in Thread, NEW k \in Ahead(t)
  PROVE  vals[k] \notin Placed
<1>1. mode \in Mode /\ k \in Slot  BY DEF TypeOK, Ahead
<1>2. k \in Remaining  BY DEF Remaining
<1> QED BY <1>1, <1>2, GroupedFacts DEF Placed

\* What one thread has placed in one shard, as a share of what it must.
LEMMA PlacedByFacts ==
  ASSUME TypeOK, NEW t \in Thread, NEW s \in Shards(Succ(mode))
  PROVE  /\ PlacedBy(t, s) \subseteq Group(mode, t, s)
         /\ IsFiniteSet(PlacedBy(t, s))
         /\ Cardinality(PlacedBy(t, s)) \in Nat
         /\ Cardinality(PlacedBy(t, s)) =< Cardinality(Group(mode, t, s))
         /\ \A e \in Group(mode, t, s) \ Placed :
              Cardinality(PlacedBy(t, s)) + 1 =< Cardinality(Group(mode, t, s))
<1> DEFINE G == Group(mode, t, s)
           B == PlacedBy(t, s)
<1>1. B \subseteq G  BY DEF PlacedBy
<1>2. G \in SUBSET Elem  BY DEF Group
<1>3. IsFiniteSet(B) /\ Cardinality(B) \in Nat  BY <1>1, <1>2, FiniteElems
<1>4. Cardinality(B) =< Cardinality(G)  BY <1>1, <1>2, CardMonotone
<1>5. ASSUME NEW e \in G \ Placed PROVE Cardinality(B) + 1 =< Cardinality(G)
  <2>1. e \notin B  BY DEF PlacedBy
  <2>2. Cardinality(B \cup {e}) = Cardinality(B) + 1  BY <1>3, <2>1, FS_AddElement
  <2>3. B \cup {e} \in SUBSET G  BY <1>1
  <2> QED BY <1>2, <2>2, <2>3, CardMonotone
<1> QED BY <1>1, <1>3, <1>4, <1>5

-----------------------------------------------------------------------------
(* The steps outside the parallel pass. *)

\* No obligation on a thread that has finished.
LEMMA QuietThreads == TypeOK /\ (\A t \in Thread : Finished(t)) => ThreadInv
BY DEF ThreadInv, Finished, TypeOK

LEMMA QuietStep ==
  ASSUME TypeOK, TypeOK', QuietInv, phase # "kernel", UNCHANGED threadVars,
         phase' # "kernel", phase' \in {"idle", "zero"} => unsorted' = {}
  PROVE  QuietInv' /\ ThreadInv'
<1>1. (\A t \in Thread : Finished(t))'
  BY DEF QuietInv, Finished, threadVars
<1>2. QuietInv'  BY <1>1 DEF QuietInv
<1>3. ThreadInv'  BY <1>1, QuietThreads, PTL
<1> QED BY <1>2, <1>3

LEMMA BeginStep == IInv /\ TypeOK' /\ Begin => IInv'
<1> SUFFICES ASSUME IInv, TypeOK', Begin PROVE IInv'
  OBVIOUS
<1>1. /\ phase = "idle" /\ UNCHANGED threadVars /\ UNCHANGED <<mode, vals>>
      /\ phase' \in {"zero", "lsd", "fiber"}
      /\ phase' \in {"lsd", "fiber"} => unsorted' = Shards(mode)
      /\ phase' = "zero" => unsorted' = {}
  BY DEF Begin
<1>2. QuietInv' /\ ThreadInv'  BY <1>1, QuietStep DEF IInv
<1>3. Grouped(vals, mode)'  BY <1>1 DEF IInv, SortInv
<1>4. SortInv'  BY <1>1, <1>3 DEF SortInv
<1> QED BY <1>1, <1>2, <1>4 DEF IInv, YhatInv, CursorInv, ScratchInv

\* One shard is sorted, by either kind of pass.
LEMMA ShardStep ==
  ASSUME IInv, TypeOK', NEW s \in unsorted, FiberShard(s) \/ LsdShard(s) \/ MsdShard(s)
  PROVE  IInv'
<1>1. /\ mode \in Mode /\ s \in Shards(mode)
      /\ phase \in {"fiber", "lsd", "msd"}
      /\ UNCHANGED threadVars /\ UNCHANGED <<mode, phase>>
      /\ Shards(mode) \ unsorted' = (Shards(mode) \ unsorted) \cup {s}
  BY DEF IInv, TypeOK, FiberShard, LsdShard, MsdShard
<1>2. QuietInv' /\ ThreadInv'  BY <1>1, QuietStep DEF IInv
<1>3. SortInv'
  <2>1. ASSUME phase \in {"fiber", "lsd"} PROVE SortInv'
    <3>1. vals' = vals
      BY <2>1 DEF FiberShard, LsdShard, MsdShard
    <3>2. PICK from \in Bijection(ShardRange(mode, s), ShardRange(mode, s)) :
            scr' = [d \in Slot |-> IF d \in ShardRange(mode, s)
                                   THEN vals[from[d]] ELSE scr[d]]
      BY <2>1 DEF FiberShard, LsdShard, MsdShard, SortedInto
    <3>3. ASSUME NEW u \in Shards(mode) \ unsorted' PROVE ShardCopy(scr', vals, u)
      <4>1. u = s \/ ShardCopy(scr, vals, u)
        BY <1>1, <2>1 DEF IInv, SortInv
      <4>2. \A d \in Slot : scr'[d] = IF d \in ShardRange(mode, s)
                                       THEN vals[from[d]] ELSE scr[d]
        BY <3>2
      <4> QED BY <1>1, <4>1, <4>2, SortShard
    <3> QED BY <1>1, <2>1, <3>1, <3>3 DEF IInv, SortInv, ShardCopy
  <2>2. ASSUME phase = "msd" PROVE SortInv'
    <3>1. scr' = scr
      BY <2>2 DEF FiberShard, LsdShard, MsdShard
    <3>2. PICK from \in Bijection(ShardRange(mode, s), ShardRange(mode, s)) :
            vals' = [d \in Slot |-> IF d \in ShardRange(mode, s)
                                   THEN scr[from[d]] ELSE vals[d]]
      BY <2>2 DEF FiberShard, LsdShard, MsdShard, SortedInto
    <3>3. ASSUME NEW u \in Shards(mode) \ unsorted' PROVE ShardCopy(vals', scr, u)
      <4>1. u = s \/ ShardCopy(vals, scr, u)
        BY <1>1, <2>2 DEF IInv, SortInv
      <4>2. \A d \in Slot : vals'[d] = IF d \in ShardRange(mode, s)
                                       THEN scr[from[d]] ELSE vals[d]
        BY <3>2
      <4> QED BY <1>1, <4>1, <4>2, SortShard
    <3> QED BY <1>1, <2>2, <3>1, <3>3 DEF IInv, SortInv, ShardCopy
  <2> QED BY <1>1, <2>1, <2>2
<1> QED BY <1>1, <1>2, <1>3 DEF IInv, YhatInv, CursorInv, ScratchInv

\* A pass of the fiber sort ends with all shards done.
LEMMA SortedStep == IInv /\ TypeOK' /\ (FiberDone \/ LsdDone \/ MsdDone) => IInv'
<1> SUFFICES ASSUME IInv, TypeOK', FiberDone \/ LsdDone \/ MsdDone PROVE IInv'
  OBVIOUS
<1>0. mode \in Mode /\ vals \in [Slot -> Elem] /\ scr \in [Slot -> Elem]
  BY DEF IInv, TypeOK
<1>1. /\ phase \in {"fiber", "lsd", "msd"} /\ phase' \in {"zero", "msd"}
      /\ UNCHANGED threadVars /\ mode' = mode
      /\ phase' = "zero" => unsorted' = {}
  BY DEF FiberDone, LsdDone, MsdDone
<1>2. QuietInv' /\ ThreadInv'  BY <1>1, QuietStep DEF IInv
<1>3. SortInv'
  <2>1. CASE FiberDone
    <3>1. Grouped(scr, mode)
      BY <1>0, <2>1, CopyGrouped DEF FiberDone, IInv, SortInv
    <3> QED BY <2>1, <3>1 DEF FiberDone, SortInv
  <2>2. CASE LsdDone
    <3>1. Grouped(scr, mode)
      BY <1>0, <2>2, CopyGrouped DEF LsdDone, IInv, SortInv
    <3> QED BY <2>2, <3>1 DEF LsdDone, SortInv
  <2>3. CASE MsdDone
    <3>1. Grouped(vals, mode)
      BY <1>0, <2>3, CopyGrouped DEF MsdDone, IInv, SortInv
    <3> QED BY <2>3, <3>1 DEF MsdDone, SortInv
  <2> QED BY <2>1, <2>2, <2>3
<1> QED BY <1>1, <1>2, <1>3 DEF IInv, YhatInv, CursorInv, ScratchInv

-----------------------------------------------------------------------------
(* The barrier. *)

\* When every thread has finished, every nonzero is placed: once in Yhat,
\* and in the slots its destination shard has in the next mode.
LEMMA BarrierFacts ==
  IInv /\ phase = "kernel" /\ (\A t \in Thread : Finished(t)) =>
    /\ Grouped(scr, Succ(mode))
    /\ \A e \in Elem : yhat[mode][e] = 1
<1> SUFFICES ASSUME IInv, phase = "kernel", \A t \in Thread : Finished(t)
             PROVE  /\ Grouped(scr, Succ(mode))
                    /\ \A e \in Elem : yhat[mode][e] = 1
  OBVIOUS
<1>0. /\ TypeOK /\ mode \in Mode /\ Succ(mode) \in Mode
      /\ Grouped(vals, mode) /\ scr \in [Slot -> Elem]
  BY ModeFacts DEF IInv, TypeOK, SortInv
<1>1. Remaining = {}
  <2>1. \A t \in Thread : Ahead(t) = {}  BY <1>0 DEF Finished, Ahead, TypeOK
  <2> QED BY <2>1 DEF Remaining
<1>2. \A e \in Elem : e \in Placed
  BY <1>0, <1>1, GroupedFacts DEF Placed
<1>3. \A e \in Elem : yhat[mode][e] = 1
  BY <1>2 DEF IInv, YhatInv, Finished, Once
<1>4. ASSUME NEW e \in Elem
      PROVE  \E d \in Slot : /\ scr[d] = e
                             /\ d \in ShardRange(Succ(mode), Shard(Succ(mode), e))
  <2> DEFINE t == OwnerOf(mode, e)
             s == Shard(Succ(mode), e)
  <2>1. t \in Thread /\ s \in Shards(Succ(mode))
    <3>1. t \in Thread  BY <1>0, ShardType, OwnerAssumption DEF OwnerOf
    <3> QED BY <1>0, <3>1, ShardType
  <2>2. e \in Group(mode, t, s)  BY DEF Group
  <2> HIDE DEF t, s
  <2>3. PlacedBy(t, s) = Group(mode, t, s)
    BY <1>2 DEF PlacedBy, Group
  <2>4. off[t][s] = ThrEnd(mode, t, s)
    BY <2>1, <2>3 DEF IInv, CursorInv, ThrEnd
  <2>5. PICK d \in ThrOff(mode, t, s) .. off[t][s] - 1 : scr[d] = e
    BY <2>1, <2>2, <2>3 DEF IInv, ScratchInv
  <2>6. d \in ShardRange(Succ(mode), s)
    <3>1. /\ ThrOff(mode, t, s) \in Nat /\ ThrEnd(mode, t, s) \in Nat
          /\ ShardBegin(Succ(mode), s) =< ThrOff(mode, t, s)
          /\ ThrEnd(mode, t, s) =< ShardEnd(Succ(mode), s)
          /\ ShardBegin(Succ(mode), s) \in Nat /\ ShardEnd(Succ(mode), s) \in Nat
      BY <1>0, <2>1, ReserveInShard, GroupFacts, RangeOrder
    <3> QED BY <2>4, <2>5, <3>1 DEF ShardRange
  <2>7. d \in Slot  BY <1>0, <2>1, <2>6, RangeOrder
  <2> QED BY <2>5, <2>6, <2>7 DEF s
<1>5. Grouped(scr, Succ(mode))  BY <1>0, <1>4, OntoGrouped
<1> QED BY <1>3, <1>5

LEMMA JoinStep == IInv /\ TypeOK' /\ Join => IInv'
<1> SUFFICES ASSUME IInv, TypeOK', Join PROVE IInv'
  OBVIOUS
<1>1. /\ phase = "kernel" /\ phase' = "idle" /\ vals' = scr /\ mode' = Succ(mode)
      /\ UNCHANGED threadVars /\ unsorted' = unsorted
      /\ \A t \in Thread : Finished(t)
  BY DEF Join
<1>2. SortInv'
  <2>1. Grouped(scr, Succ(mode))  BY <1>1, BarrierFacts
  <2> QED BY <1>1, <2>1 DEF SortInv
<1>3. (\A t \in Thread : Finished(t))'  BY <1>1 DEF Finished, threadVars
<1>4. QuietInv'  BY <1>1, <1>3 DEF IInv, QuietInv
<1>5. ThreadInv'  BY <1>3, QuietThreads, PTL
<1> QED BY <1>1, <1>2, <1>4, <1>5 DEF IInv, YhatInv, CursorInv, ScratchInv

-----------------------------------------------------------------------------
(* The parallel pass. *)

\* At the fork every slot is on some thread's list, so nothing is placed.
LEMMA LaunchStep == IInv /\ TypeOK' /\ Launch => IInv'
<1> SUFFICES ASSUME IInv, TypeOK', Launch PROVE IInv'
  OBVIOUS
<1>0. /\ mode \in Mode /\ mode' = mode /\ vals' = vals
      /\ phase' = "kernel" /\ unsorted' = {}
      /\ Grouped(vals, mode)
      /\ \A t \in Thread : at'[t] = "row" /\ ip'[t] = ends'[t]
  BY DEF IInv, TypeOK, Launch, Zeroed, CursorTemplate, ThreadShards, SortInv, QuietInv, Finished
<1>1. \A t \in Thread :
        pending'[t] = {s \in Shards(mode) : Owner[mode][s] = t /\ ShardRange(mode, s) # {}}
  BY DEF Launch, Zeroed, CursorTemplate, ThreadShards
<1>2. Placed' = {}
  <2>1. ASSUME NEW k \in Slot PROVE k \in Remaining'
    <3>1. PICK s \in Shards(mode) : k \in ShardRange(mode, s)
      BY <1>0, GroupedFacts
    <3>2. PICK t \in Thread : t = Owner[mode][s]  BY <1>0, OwnerAssumption
    <3>3. s \in pending'[t]  BY <1>1, <3>1, <3>2
    <3>4. k \in Ahead(t)'  BY <1>0, <3>1, <3>3 DEF Ahead
    <3> QED BY <3>4 DEF Remaining
  <2> QED BY <2>1 DEF Placed
<1>3. SortInv' /\ QuietInv'  BY <1>0 DEF SortInv, QuietInv
<1>4. ThreadInv'
  <2>1. \A t \in Thread : ip'[t] \in Nat  BY DEF TypeOK
  <2> QED BY <1>0, <1>1, <2>1 DEF ThreadInv
<1>5. YhatInv'
  <2>1. ASSUME NEW e \in Elem PROVE yhat'[mode][e] = 0
    <3>1. Row[mode][e] \in ZeroedRows(mode)
      <4>1. Row[mode][e] \in Touched(mode)  BY DEF Touched
      <4>2. Row[mode][e] \in 0 .. ModeSize[mode] - 1  BY <1>0, TensorAssumption
      <4> QED BY <4>1, <4>2 DEF ZeroedRows
    <3>2. yhat \in [Mode -> [Elem -> Nat]]  BY DEF IInv, TypeOK
    <3> QED BY <1>0, <3>1, <3>2 DEF Launch, Zeroed, CursorTemplate, ThreadShards
  <2> QED BY <1>0, <1>2, <2>1 DEF YhatInv, Once
<1>6. ASSUME NEW t \in Thread, NEW s \in Shards(Succ(mode))
      PROVE  /\ PlacedBy(t, s)' = {} /\ off'[t][s] = ThrOff(mode, t, s)
             /\ ThrOff(mode, t, s) \in Nat
  <2>1. s \in Sid  BY <1>0, ModeFacts, SidFacts
  <2>2. ThrOff(mode, t, s) \in Nat  BY <1>0, GroupFacts
  <2> QED BY <1>2, <2>1, <2>2 DEF PlacedBy, Launch, Zeroed, CursorTemplate, ThreadShards
<1>7. CursorInv'
  BY <1>0, <1>6, FS_EmptySet DEF CursorInv
<1>8. ScratchInv'
  BY <1>0, <1>6 DEF ScratchInv
<1> QED BY <1>3, <1>4, <1>5, <1>7, <1>8 DEF IInv

\* Steps that leave no slot visited.
LEMMA SameProgress ==
  ASSUME mode' = mode, vals' = vals, \A t \in Thread : Ahead(t)' = Ahead(t)
  PROVE  /\ Placed' = Placed
         /\ \A t \in Thread, s \in Shards(Succ(mode)) : PlacedBy(t, s)' = PlacedBy(t, s)
         /\ \A e \in Elem : Once(e)' = Once(e)
<1>1. Placed' = Placed  BY DEF Placed, Remaining
<1> QED BY <1>1 DEF PlacedBy, Once

LEMMA TakeShardStep ==
  ASSUME IInv, TypeOK', NEW t \in Thread, TakeShard(t) PROVE IInv'
<1>1. PICK s \in pending[t] :
         /\ pending' = [pending EXCEPT ![t] = @ \ {s}]
         /\ ip' = [ip EXCEPT ![t] = ShardBegin(mode, s)]
         /\ ends' = [ends EXCEPT ![t] = ShardEnd(mode, s)]
  BY DEF TakeShard
<1>2. /\ phase = "kernel" /\ at[t] = "row" /\ ip[t] = ends[t]
      /\ UNCHANGED <<driverVars, vals, scr, yhat, off, stop, at, acc>>
  BY DEF TakeShard
<1>3. /\ mode \in Mode /\ s \in Shards(mode) /\ Owner[mode][s] = t
      /\ ShardBegin(mode, s) \in Nat /\ ShardEnd(mode, s) \in Nat
      /\ ShardBegin(mode, s) =< ShardEnd(mode, s)
  BY RangeOrder DEF IInv, TypeOK, ThreadInv
<1>4. /\ pending'[t] = pending[t] \ {s}
      /\ ip'[t] = ShardBegin(mode, s) /\ ends'[t] = ShardEnd(mode, s)
      /\ \A u \in Thread : u # t =>
           pending'[u] = pending[u] /\ ip'[u] = ip[u] /\ ends'[u] = ends[u]
  BY <1>1 DEF IInv, TypeOK
<1>5. \A u \in Thread : Ahead(u)' = Ahead(u)
  <2>1. Ahead(t)' = Ahead(t)
    <3>1. \A k \in Slot : k \notin ip[t] .. ends[t] - 1
      BY <1>2 DEF IInv, TypeOK
    <3>2. \A k : k \in ip'[t] .. ends'[t] - 1 <=> k \in ShardRange(mode, s)
      BY <1>4 DEF ShardRange
    <3> QED BY <1>2, <1>4, <3>1, <3>2 DEF Ahead, driverVars
  <2>2. ASSUME NEW u \in Thread, u # t PROVE Ahead(u)' = Ahead(u)
    BY <1>2, <1>4, <2>2 DEF Ahead, driverVars
  <2> QED BY <2>1, <2>2
<1>6. SortInv' /\ QuietInv'
  BY <1>2 DEF IInv, SortInv, QuietInv, driverVars, ShardCopy
<1>7. ThreadInv'
  <2>1. ASSUME NEW u \in Thread, NEW v \in Shards(mode), InShard(u, v), u # t
        PROVE  InShard(u, v)'
    BY <1>2, <1>4, <2>1 DEF InShard, driverVars
  <2>2. InShard(t, s)'
    BY <1>2, <1>3, <1>4 DEF InShard, driverVars
  <2> QED BY <1>2, <1>3, <1>4, <2>1, <2>2 DEF IInv, ThreadInv, driverVars
<1>8. YhatInv' /\ CursorInv' /\ ScratchInv'
  <2>1. /\ \A v \in Thread, w \in Shards(Succ(mode)) : PlacedBy(v, w)' = PlacedBy(v, w)
        /\ \A e \in Elem : Once(e)' = Once(e)
    BY <1>2, <1>5, SameProgress DEF driverVars
  <2>2. YhatInv'
    BY <1>2, <2>1 DEF IInv, YhatInv, HeldRow, driverVars
  <2>3. CursorInv'  BY <1>2, <2>1 DEF IInv, CursorInv, driverVars
  <2>4. ScratchInv'  BY <1>2, <2>1 DEF IInv, ScratchInv, driverVars
  <2> QED BY <2>2, <2>3, <2>4
<1> QED BY <1>6, <1>7, <1>8 DEF IInv

LEMMA LoadRowStep ==
  ASSUME IInv, TypeOK', NEW t \in Thread, LoadRow(t) PROVE IInv'
<1>1. /\ phase = "kernel" /\ at[t] = "row" /\ ip[t] < ends[t]
      /\ UNCHANGED <<driverVars, vals, scr, yhat, off, pending, ip, ends>>
      /\ at' = [at EXCEPT ![t] = "run"]
  BY DEF LoadRow
<1>2. PICK j \in ip[t] + 1 .. ends[t] : RunEnd(t, j) /\ stop' = [stop EXCEPT ![t] = j]
  BY DEF LoadRow
<1>3. /\ TypeOK /\ ThreadInv /\ Grouped(vals, mode) /\ mode \in Mode
      /\ ip[t] \in Nat /\ ends[t] \in Nat /\ j \in Nat
      /\ ip[t] < j /\ j =< ends[t]
  BY <1>1 DEF IInv, TypeOK, SortInv
<1>4. /\ at'[t] = "run" /\ stop'[t] = j
      /\ \A e \in Elem :
           acc'[t][e] = IF Row[mode][e] = OutRow(t) THEN yhat[mode][e] ELSE 0
      /\ \A u \in Thread : u # t =>
           at'[u] = at[u] /\ stop'[u] = stop[u] /\ acc'[u] = acc[u]
  <2>1. stop \in [Thread -> Nat] /\ at \in [Thread -> {"row", "run"}]
        /\ acc \in [Thread -> [Elem -> Nat]]
    BY <1>3 DEF TypeOK
  <2> QED BY <1>1, <1>2, <2>1 DEF LoadRow
<1>5. \A u \in Thread : Ahead(u)' = Ahead(u)
  BY <1>1 DEF Ahead, driverVars
<1>6. SortInv' /\ QuietInv'
  BY <1>1 DEF IInv, SortInv, QuietInv, driverVars, ShardCopy
<1>7. \A k \in ip[t] .. j - 1 : Row[mode][vals[k]] = OutRow(t)
  BY <1>2, <1>3 DEF RunEnd, OutRow
<1>8. HeldRow(t)' = OutRow(t)
  BY <1>1, <1>3, <1>4, <1>7 DEF HeldRow, driverVars
<1>9. \A u \in Thread : u # t => HeldRow(u)' = HeldRow(u)
  BY <1>1, <1>4 DEF HeldRow, driverVars
<1>10. ThreadInv'
  <2>1. ASSUME NEW u \in Thread, NEW v \in Shards(mode), InShard(u, v)
        PROVE  InShard(u, v)'
    BY <1>1, <2>1 DEF InShard, driverVars
  <2>2. PICK v \in Shards(mode) : InShard(t, v)
    BY <1>1, <1>3 DEF ThreadInv
  <2>3. ShardBegin(mode, v) < j
    BY <1>3, <2>2, RangeOrder DEF InShard
  <2>4. ASSUME NEW u \in Thread, u # t, at[u] = "run"
        PROVE  \E w \in Shards(mode) : InShard(u, w)' /\ ShardBegin(mode, w) < stop[u]
    BY <1>3, <2>1, <2>4 DEF ThreadInv
  <2>5. \A k \in ip[t] .. j - 1 : Row[mode][vals[k]] = Row[mode][vals[j - 1]]
    BY <1>3, <1>7
  <2>6. ASSUME NEW u \in Thread, u # t
        PROVE  /\ \A s \in pending'[u] : Owner[mode'][s] = u
               /\ ip'[u] =< ends'[u]
               /\ ip'[u] < ends'[u] => \E s \in Shards(mode') : InShard(u, s)'
               /\ at'[u] = "run" =>
                    /\ ip'[u] =< stop'[u] /\ stop'[u] =< ends'[u]
                    /\ \E s \in Shards(mode') : InShard(u, s)' /\ ShardBegin(mode', s) < stop'[u]
                    /\ \A k \in ip'[u] .. stop'[u] - 1 :
                         Row[mode'][vals'[k]] = Row[mode'][vals'[stop'[u] - 1]]
    BY <1>1, <1>3, <1>4, <2>1, <2>4, <2>6 DEF ThreadInv, driverVars
  <2>7. /\ \A s \in pending'[t] : Owner[mode'][s] = t
        /\ ip'[t] =< ends'[t]
        /\ InShard(t, v)' /\ ShardBegin(mode', v) < stop'[t] /\ v \in Shards(mode')
        /\ ip'[t] =< stop'[t] /\ stop'[t] =< ends'[t]
        /\ \A k \in ip'[t] .. stop'[t] - 1 :
             Row[mode'][vals'[k]] = Row[mode'][vals'[stop'[t] - 1]]
    BY <1>1, <1>3, <1>4, <2>1, <2>2, <2>3, <2>5 DEF ThreadInv, driverVars
  <2> QED BY <2>6, <2>7 DEF ThreadInv
<1>11. /\ \A v \in Thread, w \in Shards(Succ(mode)) : PlacedBy(v, w)' = PlacedBy(v, w)
       /\ \A e \in Elem : Once(e)' = Once(e)
  BY <1>1, <1>5, SameProgress DEF driverVars
<1>12. YhatInv'
  <2>0. ip[t] \in Ahead(t)
    <3>1. ip[t] \in ip[t] .. ends[t] - 1  BY <1>1, <1>3
    <3> QED BY <1>3, <3>1, AheadShard DEF Ahead
  <2>1. ASSUME NEW e \in Elem, Row[mode][e] = OutRow(t) PROVE acc'[t][e] = Once(e)
    <3>1. ASSUME NEW u \in Thread, at[u] = "run" PROVE HeldRow(u) # Row[mode][e]
      BY <1>1, <1>3, <2>0, <2>1, <3>1, AheadApart DEF OutRow
    <3>2. yhat[mode][e] = Once(e)  BY <1>1, <3>1 DEF IInv, YhatInv
    <3> QED BY <1>4, <2>1, <3>2
  <2>2. ASSUME NEW e \in Elem, NEW u \in Thread, at'[u] = "run", HeldRow(u)' = Row[mode][e]
        PROVE  acc'[u][e] = Once(e)
    <3>1. CASE u = t  BY <1>8, <2>1, <2>2, <3>1
    <3>2. CASE u # t
      BY <1>1, <1>4, <1>9, <2>2, <3>2 DEF IInv, YhatInv
    <3> QED BY <3>1, <3>2
  <2>3. ASSUME NEW e \in Elem,
               \A u \in Thread : at'[u] = "run" => HeldRow(u)' # Row[mode][e]
        PROVE  yhat[mode][e] = Once(e)
    <3>1. \A u \in Thread : at[u] = "run" => HeldRow(u) # Row[mode][e]
      BY <1>1, <1>4, <1>9, <2>3
    <3> QED BY <1>1, <3>1 DEF IInv, YhatInv
  <2> QED BY <1>1, <1>11, <2>2, <2>3 DEF YhatInv, driverVars
<1>13. CursorInv' /\ ScratchInv'
  BY <1>1, <1>11 DEF IInv, CursorInv, ScratchInv, driverVars
<1> QED BY <1>6, <1>10, <1>12, <1>13 DEF IInv

LEMMA StoreRowStep ==
  ASSUME IInv, TypeOK', NEW t \in Thread, StoreRow(t) PROVE IInv'
<1>1. /\ phase = "kernel" /\ at[t] = "run" /\ ip[t] = stop[t]
      /\ UNCHANGED <<driverVars, vals, scr, off, pending, ip, ends, stop, acc>>
      /\ at' = [at EXCEPT ![t] = "row"]
  BY DEF StoreRow
<1>2. /\ TypeOK /\ ThreadInv /\ Grouped(vals, mode) /\ mode \in Mode
  BY <1>1 DEF IInv, TypeOK, SortInv
<1>3. /\ at'[t] = "row" /\ \A u \in Thread : u # t => at'[u] = at[u]
      /\ \A e \in Elem : yhat'[mode][e] =
           IF Row[mode][e] = HeldRow(t) THEN acc[t][e] ELSE yhat[mode][e]
  <2>1. at \in [Thread -> {"row", "run"}] /\ yhat \in [Mode -> [Elem -> Nat]]
    BY <1>2 DEF TypeOK
  <2> QED BY <1>1, <1>2, <2>1 DEF StoreRow, HeldRow
<1>4. \A u \in Thread : Ahead(u)' = Ahead(u)
  BY <1>1 DEF Ahead, driverVars
<1>5. SortInv' /\ QuietInv'
  BY <1>1 DEF IInv, SortInv, QuietInv, driverVars, ShardCopy
<1>6. ThreadInv'
  <2>1. \A u \in Thread, v \in Shards(mode) : InShard(u, v)' <=> InShard(u, v)
    BY <1>1 DEF InShard, driverVars
  <2> QED BY <1>1, <1>2, <1>3, <2>1 DEF ThreadInv, driverVars
<1>7. /\ \A v \in Thread, w \in Shards(Succ(mode)) : PlacedBy(v, w)' = PlacedBy(v, w)
      /\ \A e \in Elem : Once(e)' = Once(e)
  BY <1>1, <1>4, SameProgress DEF driverVars
<1>8. YhatInv'
  <2>1. \A u \in Thread : HeldRow(u)' = HeldRow(u)
    BY <1>1 DEF HeldRow, driverVars
  <2>2. ASSUME NEW e \in Elem, Row[mode][e] = HeldRow(t) PROVE yhat'[mode][e] = Once(e)
    BY <1>1, <1>3, <2>2 DEF IInv, YhatInv
  <2>3. ASSUME NEW e \in Elem, Row[mode][e] # HeldRow(t),
               \A u \in Thread : at'[u] = "run" => HeldRow(u) # Row[mode][e]
        PROVE  yhat'[mode][e] = Once(e)
    <3>1. \A u \in Thread : at[u] = "run" => HeldRow(u) # Row[mode][e]
      BY <1>3, <2>3
    <3> QED BY <1>1, <1>3, <2>3, <3>1 DEF IInv, YhatInv
  <2>4. ASSUME NEW e \in Elem, NEW u \in Thread, at'[u] = "run", HeldRow(u) = Row[mode][e]
        PROVE  acc[u][e] = Once(e)
    BY <1>1, <1>3, <2>4 DEF IInv, YhatInv
  <2> QED BY <1>1, <1>7, <2>1, <2>2, <2>3, <2>4 DEF YhatInv, driverVars
<1>9. CursorInv' /\ ScratchInv'
  BY <1>1, <1>7 DEF IInv, CursorInv, ScratchInv, driverVars
<1> QED BY <1>5, <1>6, <1>8, <1>9 DEF IInv

\* One nonzero is placed: into the registers and into the scratch slab.
LEMMA AccumulateStep ==
  ASSUME IInv, TypeOK', NEW t \in Thread, Accumulate(t) PROVE IInv'
<1>0. PICK k, e, s : /\ k = ip[t] /\ e = vals[k] /\ s = Shard(Succ(mode), e)
                     /\ acc' = [acc EXCEPT ![t][e] = @ + 1]
                     /\ scr' = [scr EXCEPT ![off[t][s]] = e]
                     /\ off' = [off EXCEPT ![t][s] = @ + 1]
  BY DEF Accumulate
<1>1. /\ phase = "kernel" /\ at[t] = "run" /\ k < stop[t]
      /\ UNCHANGED <<driverVars, vals, yhat, pending, ends, stop, at>>
      /\ ip' = [ip EXCEPT ![t] = k + 1]
  BY <1>0 DEF Accumulate
<1>2. /\ TypeOK /\ ThreadInv /\ Grouped(vals, mode) /\ mode \in Mode
      /\ Succ(mode) \in Mode
      /\ k \in Nat /\ ends[t] \in Nat /\ stop[t] \in Nat /\ stop[t] =< ends[t]
  BY <1>0, <1>1, ModeFacts DEF IInv, TypeOK, SortInv, ThreadInv
<1>3. k \in Slot /\ k \in Ahead(t)
  <2>1. k \in ip[t] .. ends[t] - 1  BY <1>0, <1>1, <1>2
  <2>2. k \in Slot  BY <1>2, <2>1, AheadShard
  <2> QED BY <2>1, <2>2 DEF Ahead
<1>4. e \in Elem /\ OwnerOf(mode, e) = t /\ e \notin Placed
  BY <1>0, <1>2, <1>3, AheadOwned, AheadUnplaced
<1>5. s \in Shards(Succ(mode)) /\ s \in Sid /\ e \in Group(mode, t, s)
  <2>1. s \in Shards(Succ(mode))  BY <1>0, <1>2, <1>4, ShardType
  <2> QED BY <1>0, <1>2, <1>4, <2>1, SidFacts DEF Group
<1>6. HeldRow(t) = Row[mode][e]
  <2>1. k \in ip[t] .. stop[t] - 1  BY <1>0, <1>1, <1>2
  <2> QED BY <1>0, <1>1, <1>2, <2>1 DEF ThreadInv, HeldRow
<1>7. ip'[t] = k + 1 /\ \A u \in Thread : u # t => ip'[u] = ip[u]
  BY <1>1, <1>2 DEF TypeOK
<1>8. \A u \in Thread : HeldRow(u)' = HeldRow(u)
  BY <1>1 DEF HeldRow, driverVars

\* What is placed grows by e alone.
<1>9. Placed' = Placed \cup {e}
  <2>1. Ahead(t)' = Ahead(t) \ {k}
    <3>1. \A u \in pending[t] : k \notin ShardRange(mode, u)
      <4>1. PICK v \in Shards(mode) : InShard(t, v)
        BY <1>1, <1>2 DEF ThreadInv
      <4>2. k \in ShardRange(mode, v)
        BY <1>0, <1>1, <1>2, <4>1, RangeOrder DEF InShard, ShardRange
      <4>3. v \notin pending[t] /\ pending[t] \subseteq Shards(mode)
        BY <1>2, <4>1 DEF InShard, TypeOK
      <4> QED BY <1>2, <4>2, <4>3, RangeDisjoint
    <3>2. \A d : d \in ip'[t] .. ends'[t] - 1 <=> d \in ip[t] .. ends[t] - 1 /\ d # k
      BY <1>0, <1>1, <1>2, <1>7
    <3> QED BY <1>1, <3>1, <3>2 DEF Ahead, driverVars
  <2>2. ASSUME NEW u \in Thread, u # t PROVE Ahead(u)' = Ahead(u) /\ k \notin Ahead(u)
    <3>1. Ahead(u)' = Ahead(u)  BY <1>1, <1>7, <2>2 DEF Ahead, driverVars
    <3>2. k \notin Ahead(u)
      BY <1>0, <1>2, <1>4, <2>2, AheadOwned
    <3> QED BY <3>1, <3>2
  <2>3. Remaining' = Remaining \ {k}
    BY <2>1, <2>2 DEF Remaining
  <2> QED BY <1>0, <1>1, <1>3, <2>3 DEF Placed
<1>10. Once(e)' = 1 /\ Once(e) = 0 /\ \A f \in Elem : f # e => Once(f)' = Once(f)
  BY <1>4, <1>9 DEF Once
<1>11. PlacedBy(t, s)' = PlacedBy(t, s) \cup {e}
  BY <1>1, <1>5, <1>9 DEF PlacedBy, driverVars
<1>12. ASSUME NEW u \in Thread, NEW v \in Shards(Succ(mode)), u # t \/ v # s
       PROVE  PlacedBy(u, v)' = PlacedBy(u, v)
  <2>1. e \notin Group(mode, u, v)  BY <1>0, <1>4, <1>12 DEF Group
  <2> QED BY <1>1, <1>9, <2>1 DEF PlacedBy, driverVars

<1>13. SortInv' /\ QuietInv'
  BY <1>1 DEF IInv, SortInv, QuietInv, driverVars, ShardCopy
<1>14. ThreadInv'
  <2>1. ASSUME NEW u \in Thread, NEW v \in Shards(mode), InShard(u, v)
        PROVE  InShard(u, v)'
    <3>1. ShardBegin(mode, v) \in Nat  BY <1>2, RangeOrder
    <3>2. ip[u] \in Nat /\ ip'[u] >= ip[u]
      <4>1. ip[u] \in Nat  BY <1>2 DEF TypeOK
      <4>2. CASE u = t  BY <1>0, <1>2, <1>7, <4>1, <4>2
      <4>3. CASE u # t  BY <1>7, <4>1, <4>3
      <4> QED BY <4>1, <4>2, <4>3
    <3>3. ip'[u] \in Nat  BY DEF TypeOK
    <3> QED BY <1>1, <2>1, <3>1, <3>2, <3>3 DEF InShard, driverVars
  <2>2. ASSUME NEW u \in Thread, u # t
        PROVE  /\ \A v \in pending'[u] : Owner[mode'][v] = u
               /\ ip'[u] =< ends'[u]
               /\ ip'[u] < ends'[u] => \E v \in Shards(mode') : InShard(u, v)'
               /\ at'[u] = "run" =>
                    /\ ip'[u] =< stop'[u] /\ stop'[u] =< ends'[u]
                    /\ \E v \in Shards(mode') : InShard(u, v)' /\ ShardBegin(mode', v) < stop'[u]
                    /\ \A d \in ip'[u] .. stop'[u] - 1 :
                         Row[mode'][vals'[d]] = Row[mode'][vals'[stop'[u] - 1]]
    BY <1>1, <1>2, <1>7, <2>1, <2>2 DEF ThreadInv, driverVars
  <2>3. PICK v \in Shards(mode) : InShard(t, v) /\ ShardBegin(mode, v) < stop[t]
    BY <1>1, <1>2 DEF ThreadInv
  <2>4. InShard(t, v)'  BY <2>1, <2>3
  <2>5. /\ \A w \in pending'[t] : Owner[mode'][w] = t
        /\ ip'[t] =< stop'[t] /\ stop'[t] =< ends'[t] /\ ip'[t] =< ends'[t]
        /\ \A d \in ip'[t] .. stop'[t] - 1 :
             Row[mode'][vals'[d]] = Row[mode'][vals'[stop'[t] - 1]]
    BY <1>0, <1>1, <1>2, <1>7 DEF ThreadInv, driverVars
  <2> QED BY <1>1, <2>2, <2>3, <2>4, <2>5 DEF ThreadInv, driverVars
<1>15. YhatInv'
  <2>1. /\ acc'[t][e] = acc[t][e] + 1
        /\ \A u \in Thread, f \in Elem : u # t \/ f # e => acc'[u][f] = acc[u][f]
    <3>1. acc \in [Thread -> [Elem -> Nat]]  BY <1>2 DEF TypeOK
    <3> QED BY <1>0, <1>4, <3>1
  <2>2. ASSUME NEW f \in Elem, NEW u \in Thread, at[u] = "run", HeldRow(u) = Row[mode][f]
        PROVE  acc'[u][f] = Once(f)'
    <3>1. acc[u][f] = Once(f)  BY <1>1, <2>2 DEF IInv, YhatInv
    <3>2. CASE f # e  BY <1>10, <2>1, <3>1, <3>2
    <3>3. CASE f = e
      <4>1. u = t  BY <1>1, <1>2, <1>6, <2>2, <3>3, HeldApart
      <4> QED BY <1>10, <2>1, <3>1, <3>3, <4>1
    <3> QED BY <3>2, <3>3
  <2>3. ASSUME NEW f \in Elem,
               \A u \in Thread : at[u] = "run" => HeldRow(u) # Row[mode][f]
        PROVE  yhat[mode][f] = Once(f)'
    <3>1. f # e  BY <1>1, <1>6, <2>3
    <3> QED BY <1>1, <1>10, <2>3, <3>1 DEF IInv, YhatInv
  <2> QED BY <1>1, <1>8, <2>2, <2>3 DEF YhatInv, driverVars

\* The cursors and the slots behind them.
<1>16. /\ off'[t][s] = off[t][s] + 1
       /\ \A u \in Thread, v \in Sid : u # t \/ v # s => off'[u][v] = off[u][v]
  <2>1. off \in [Thread -> [Sid -> Nat]]  BY <1>2 DEF TypeOK
  <2> QED BY <1>0, <1>5, <2>1
<1>17. CursorInv'
  <2>1. Cardinality(PlacedBy(t, s)') = Cardinality(PlacedBy(t, s)) + 1
    <3>1. IsFiniteSet(PlacedBy(t, s))  BY <1>2, <1>5, PlacedByFacts
    <3>2. e \notin PlacedBy(t, s)  BY <1>4 DEF PlacedBy
    <3> QED BY <1>11, <3>1, <3>2, FS_AddElement
  <2>2. /\ off[t][s] = ThrOff(mode, t, s) + Cardinality(PlacedBy(t, s))
        /\ ThrOff(mode, t, s) \in Nat /\ Cardinality(PlacedBy(t, s)) \in Nat
    BY <1>1, <1>2, <1>5, GroupFacts, PlacedByFacts DEF IInv, CursorInv
  <2>3. off'[t][s] = ThrOff(mode, t, s) + Cardinality(PlacedBy(t, s)')
    BY <1>16, <2>1, <2>2
  <2>4. ASSUME NEW u \in Thread, NEW v \in Shards(Succ(mode)), u # t \/ v # s
        PROVE  off'[u][v] = ThrOff(mode, u, v) + Cardinality(PlacedBy(u, v)')
    <3>1. v \in Sid  BY <1>2, SidFacts
    <3>2. off[u][v] = ThrOff(mode, u, v) + Cardinality(PlacedBy(u, v))
      BY <1>1 DEF IInv, CursorInv
    <3> QED BY <1>12, <1>16, <2>4, <3>1, <3>2
  <2> QED BY <1>1, <2>3, <2>4 DEF CursorInv, driverVars
<1>18. /\ off[t][s] \in Slot
       /\ ThrOff(mode, t, s) =< off[t][s] /\ off[t][s] < ThrEnd(mode, t, s)
  <2>1. /\ off[t][s] = ThrOff(mode, t, s) + Cardinality(PlacedBy(t, s))
        /\ ThrOff(mode, t, s) \in Nat /\ Cardinality(PlacedBy(t, s)) \in Nat
        /\ Cardinality(PlacedBy(t, s)) + 1 =< Cardinality(Group(mode, t, s))
        /\ Cardinality(Group(mode, t, s)) \in Nat
    BY <1>1, <1>2, <1>4, <1>5, GroupFacts, PlacedByFacts DEF IInv, CursorInv
  <2>2. /\ ThrEnd(mode, t, s) =< ShardEnd(Succ(mode), s)
        /\ ShardEnd(Succ(mode), s) =< nnz
        /\ ShardEnd(Succ(mode), s) \in Nat
    BY <1>2, <1>5, ReserveInShard, RangeOrder
  <2> QED BY <2>1, <2>2, SlotFacts DEF ThrEnd, Slot
<1>19. ScratchInv'
  <2>0. scr \in [Slot -> Elem]  BY <1>2 DEF TypeOK
  <2>1. ASSUME NEW u \in Thread, NEW v \in Shards(Succ(mode)), NEW f \in PlacedBy(u, v)
        PROVE  \E d \in ThrOff(mode, u, v) .. off'[u][v] - 1 : scr'[d] = f
    <3>1. PICK d \in ThrOff(mode, u, v) .. off[u][v] - 1 : scr[d] = f
      BY <1>1 DEF IInv, ScratchInv
    <3>2. /\ ThrOff(mode, u, v) \in Nat /\ ThrEnd(mode, u, v) \in Nat
          /\ off[u][v] \in Nat /\ off[u][v] =< ThrEnd(mode, u, v)
      <4>1. /\ off[u][v] = ThrOff(mode, u, v) + Cardinality(PlacedBy(u, v))
            /\ ThrOff(mode, u, v) \in Nat /\ ThrEnd(mode, u, v) \in Nat
            /\ Cardinality(PlacedBy(u, v)) \in Nat
            /\ Cardinality(PlacedBy(u, v)) =< Cardinality(Group(mode, u, v))
            /\ Cardinality(Group(mode, u, v)) \in Nat
        BY <1>1, <1>2, GroupFacts, PlacedByFacts DEF IInv, CursorInv
      <4> QED BY <4>1 DEF ThrEnd
    <3>3. off'[u][v] \in Nat /\ off'[u][v] >= off[u][v]
      <4>1. v \in Sid  BY <1>2, SidFacts
      <4>2. off[t][s] \in Nat  BY <1>18, SlotFacts
      <4> QED BY <1>16, <3>2, <4>1, <4>2
    <3>4. d # off[t][s]
      <4>1. CASE <<u, v>> = <<t, s>>  BY <3>1, <3>2, <4>1
      <4>2. CASE <<u, v>> # <<t, s>>
        <5>1. ThrEnd(mode, u, v) =< ThrOff(mode, t, s) \/ ThrEnd(mode, t, s) =< ThrOff(mode, u, v)
          BY <1>2, <1>5, <4>2, ReserveDisjoint
        <5>2. /\ off[t][s] \in Nat
              /\ ThrOff(mode, t, s) \in Nat /\ ThrEnd(mode, t, s) \in Nat
          BY <1>2, <1>5, <1>18, SlotFacts, GroupFacts
        <5> QED BY <1>18, <3>1, <3>2, <5>1, <5>2
      <4> QED BY <4>1, <4>2
    <3>5. scr'[d] = f
      <4>1. d \in Slot
        <5>1. ThrEnd(mode, u, v) =< ShardEnd(Succ(mode), v)
              /\ ShardEnd(Succ(mode), v) \in Nat /\ ShardEnd(Succ(mode), v) =< nnz
          BY <1>2, ReserveInShard, RangeOrder
        <5> QED BY <3>1, <3>2, <5>1, SlotFacts DEF Slot
      <4> QED BY <1>0, <2>0, <3>1, <3>4, <4>1
    <3> QED BY <3>1, <3>2, <3>3, <3>5
  <2>2. \E d \in ThrOff(mode, t, s) .. off'[t][s] - 1 : scr'[d] = e
    <3>1. scr'[off[t][s]] = e  BY <1>0, <1>18, <2>0
    <3>2. off[t][s] \in Nat /\ ThrOff(mode, t, s) \in Nat
      BY <1>2, <1>5, <1>18, SlotFacts, GroupFacts
    <3> QED BY <1>16, <1>18, <3>1, <3>2
  <2>3. ASSUME NEW u \in Thread, NEW v \in Shards(Succ(mode)), NEW f \in PlacedBy(u, v)'
        PROVE  f \in PlacedBy(u, v) \/ (u = t /\ v = s /\ f = e)
    BY <1>11, <1>12
  <2>4. ASSUME NEW u \in Thread, NEW v \in Shards(Succ(mode)), NEW f \in PlacedBy(u, v)'
        PROVE  \E d \in ThrOff(mode, u, v) .. off'[u][v] - 1 : scr'[d] = f
    BY <2>1, <2>2, <2>3
  <2> QED BY <1>1, <2>4 DEF ScratchInv, driverVars
<1> QED BY <1>13, <1>14, <1>15, <1>17, <1>19 DEF IInv

-----------------------------------------------------------------------------
(* The invariant. *)

LEMMA InvInit == Init => IInv
<1> SUFFICES ASSUME Init PROVE IInv
  OBVIOUS
<1>1. TypeOK  BY TypeInit
<1>2. SortInv  BY DEF Init, SortInv
<1>3. \A t \in Thread : Finished(t)  BY DEF Init, Finished
<1>4. QuietInv  BY <1>3 DEF Init, QuietInv
<1>5. ThreadInv  BY <1>1, <1>3, QuietThreads
<1> QED BY <1>1, <1>2, <1>4, <1>5 DEF Init, IInv, YhatInv, CursorInv, ScratchInv

LEMMA InvStep == IInv /\ [Next]_vars => IInv'
<1> SUFFICES ASSUME IInv, [Next]_vars PROVE IInv'
  OBVIOUS
<1>0. TypeOK'  BY TypeStep DEF IInv
<1>1. CASE Begin  BY <1>0, <1>1, BeginStep
<1>2. CASE Sort  BY <1>0, <1>2, ShardStep DEF Sort
<1>3. CASE Driver
  BY <1>0, <1>3, SortedStep, LaunchStep, JoinStep DEF Driver
<1>4. ASSUME NEW t \in Thread, Kernel(t) PROVE IInv'
  BY <1>0, <1>4, TakeShardStep, LoadRowStep, AccumulateStep, StoreRowStep DEF Kernel
<1>5. CASE UNCHANGED vars
  <2> USE DEF vars, threadVars, driverVars
  <2>1. SortInv' /\ QuietInv'
    BY <1>5 DEF IInv, SortInv, ShardCopy, QuietInv, Finished
  <2>2. ThreadInv'  BY <1>5 DEF IInv, ThreadInv, InShard
  <2>3. (\A u \in Thread : Ahead(u)' = Ahead(u)) /\ mode' = mode /\ vals' = vals
    BY <1>5 DEF Ahead
  <2>4. /\ \A v \in Thread, w \in Shards(Succ(mode)) : PlacedBy(v, w)' = PlacedBy(v, w)
        /\ \A e \in Elem : Once(e)' = Once(e)
    BY <2>3, SameProgress
  <2>5. YhatInv'  BY <1>5, <2>4 DEF IInv, YhatInv, HeldRow
  <2>6. CursorInv' /\ ScratchInv'
    BY <1>5, <2>4 DEF IInv, CursorInv, ScratchInv
  <2> QED BY <1>0, <2>1, <2>2, <2>5, <2>6 DEF IInv
<1> QED BY <1>1, <1>2, <1>3, <1>4, <1>5 DEF Next

\* The inductive invariant holds of every execution: at every instant of a
\* parallel pass Yhat[mode] and the scratch slab are what Placed says.
THEOREM Invariance == Spec => []IInv
<1>1. Init => IInv  BY InvInit
<1>2. IInv /\ [Next]_vars => IInv'  BY InvStep
<1> QED BY <1>1, <1>2, PTL DEF Spec

\* The state keeps the shape the code gives it.
THEOREM TypeCorrect == Spec => []TypeOK
<1>1. IInv => TypeOK  BY DEF IInv
<1> QED BY <1>1, Invariance, PTL

\* Remap protocol: the slab a call walks is grouped by its mode's shards.
THEOREM SlabAlwaysGrouped == Spec => []SlabGrouped
<1>1. IInv => SlabGrouped  BY DEF IInv, SortInv, SlabGrouped
<1> QED BY <1>1, Invariance, PTL

\* The scatter without atomics loses nothing: at the barrier the scratch
\* slab holds every nonzero, grouped for the next mode.
THEOREM ScatterIsComplete == Spec => []ScatterComplete
<1>1. IInv => ScatterComplete  BY BarrierFacts DEF ScatterComplete
<1> QED BY <1>1, Invariance, PTL

\* No two threads ever scatter to one slot, nor outside the slab.
THEOREM NoScatterRace == Spec => []NoSlotRace
<1>1. ASSUME IInv, phase = "kernel",
             NEW t \in Thread, NEW s \in Shards(Succ(mode)), Unplaced(t, s) # {}
      PROVE  /\ off[t][s] \in Slot
             /\ ThrOff(mode, t, s) =< off[t][s] /\ off[t][s] < ThrEnd(mode, t, s)
  <2>0. TypeOK /\ Grouped(vals, mode) /\ mode \in Mode /\ Succ(mode) \in Mode
    BY <1>1, ModeFacts DEF IInv, TypeOK, SortInv
  <2>1. PICK e \in Group(mode, t, s), k \in Slot : vals[k] = e /\ k \in Ahead(t)
    BY <1>1 DEF Unplaced, Ahead
  <2>2. e \notin Placed  BY <2>0, <2>1, AheadUnplaced
  <2>3. /\ off[t][s] = ThrOff(mode, t, s) + Cardinality(PlacedBy(t, s))
        /\ ThrOff(mode, t, s) \in Nat /\ Cardinality(PlacedBy(t, s)) \in Nat
        /\ Cardinality(PlacedBy(t, s)) + 1 =< Cardinality(Group(mode, t, s))
        /\ Cardinality(Group(mode, t, s)) \in Nat
    BY <1>1, <2>0, <2>2, GroupFacts, PlacedByFacts DEF IInv, CursorInv
  <2>4. /\ ThrEnd(mode, t, s) =< ShardEnd(Succ(mode), s)
        /\ ShardEnd(Succ(mode), s) =< nnz /\ ShardEnd(Succ(mode), s) \in Nat
    BY <2>0, ReserveInShard, RangeOrder
  <2> QED BY <2>3, <2>4, SlotFacts DEF ThrEnd, Slot
<1>2. ASSUME IInv, phase = "kernel",
             NEW t \in Thread, NEW s \in Shards(Succ(mode)), Unplaced(t, s) # {},
             NEW u \in Thread, NEW v \in Shards(Succ(mode)), Unplaced(u, v) # {},
             <<t, s>> # <<u, v>>
      PROVE  off[t][s] # off[u][v]
  <2>0. mode \in Mode  BY <1>2 DEF IInv, TypeOK
  <2>1. ThrEnd(mode, t, s) =< ThrOff(mode, u, v) \/ ThrEnd(mode, u, v) =< ThrOff(mode, t, s)
    BY <1>2, <2>0, ReserveDisjoint
  <2>2. /\ ThrOff(mode, t, s) =< off[t][s] /\ off[t][s] < ThrEnd(mode, t, s)
        /\ ThrOff(mode, u, v) =< off[u][v] /\ off[u][v] < ThrEnd(mode, u, v)
        /\ off[t][s] \in Nat /\ off[u][v] \in Nat
    BY <1>1, <1>2, SlotFacts
  <2>3. /\ ThrOff(mode, t, s) \in Nat /\ ThrEnd(mode, t, s) \in Nat
        /\ ThrOff(mode, u, v) \in Nat /\ ThrEnd(mode, u, v) \in Nat
    BY <2>0, GroupFacts
  <2> QED BY <2>1, <2>2, <2>3
<1>3. IInv => NoSlotRace  BY <1>1, <1>2 DEF NoSlotRace
<1> QED BY <1>3, Invariance, PTL

\* No two threads ever have the same row of Yhat in registers.
THEOREM RowsExclusive == Spec => []RowExclusive
<1>1. ASSUME IInv PROVE RowExclusive
  <2> SUFFICES ASSUME NEW t \in Thread, NEW u \in Thread,
                      t # u, at[t] = "run", at[u] = "run"
               PROVE  HeldRow(t) # HeldRow(u)
    BY DEF RowExclusive, HeldRow
  <2>1. phase = "kernel"  BY <1>1 DEF IInv, QuietInv, Finished
  <2> QED BY <1>1, <2>1, HeldApart DEF IInv, SortInv
<1>2. IInv => RowExclusive  BY <1>1
<1> QED BY <1>2, Invariance, PTL

-----------------------------------------------------------------------------
(* Refinement. *)

LEMMA PromiseInit == Init => Promise!Init
BY ModeFacts DEF Init, Promise!Init, Promise!Mode, Mode

LEMMA PromiseStep == IInv /\ [Next]_vars => [Promise!Next]_(Promise!vars)
<1> SUFFICES ASSUME IInv, [Next]_vars PROVE [Promise!Next]_(Promise!vars)
  OBVIOUS
<1> DEFINE out == [n \in Mode |-> IF n = mode /\ phase # "idle"
                                  THEN "undefined" ELSE yhat[n]]
<1>0. mode \in Mode /\ yhat \in [Mode -> [Elem -> Nat]]  BY DEF IInv, TypeOK
<1>1. CASE Begin
  <2>1. /\ phase = "idle" /\ phase' # "idle" /\ UNCHANGED <<mode, yhat>>
    BY <1>1 DEF Begin
  <2>2. out' = [out EXCEPT ![mode] = "undefined"]  BY <1>0, <2>1
  <2>3. Promise!Call
    BY <2>1, <2>2 DEF Promise!Call, Promise!Undefined
  <2> QED BY <2>3 DEF Promise!Next
<1>2. ASSUME phase # "idle", phase' # "idle", mode' = mode,
             \A n \in Mode \ {mode} : yhat'[n] = yhat[n]
      PROVE  UNCHANGED Promise!vars
  <2>1. out' = out  BY <1>2
  <2> QED BY <1>2, <2>1 DEF Promise!vars
<1>3. CASE Sort
  BY <1>2, <1>3 DEF Sort, FiberShard, LsdShard, MsdShard
<1>4. CASE FiberDone \/ LsdDone \/ MsdDone
  BY <1>2, <1>4 DEF FiberDone, LsdDone, MsdDone
<1>5. CASE Launch
  BY <1>0, <1>2, <1>5 DEF Launch, Zeroed, CursorTemplate, ThreadShards
<1>6. ASSUME NEW t \in Thread, Kernel(t) PROVE UNCHANGED Promise!vars
  BY <1>0, <1>2, <1>6 DEF Kernel, TakeShard, LoadRow, Accumulate, StoreRow, driverVars
<1>7. CASE Join
  <2>1. /\ phase = "kernel" /\ phase' = "idle" /\ mode' = Succ(mode)
        /\ yhat' = yhat
        /\ \A e \in Elem : yhat[mode][e] = 1
    BY <1>7, BarrierFacts DEF Join
  <2>2. yhat[mode] = Promise!Exact  BY <1>0, <2>1 DEF Promise!Exact
  <2>3. out' = [out EXCEPT ![mode] = Promise!Exact]
    <3>1. out' = yhat  BY <1>0, <2>1
    <3>2. [out EXCEPT ![mode] = Promise!Exact] = yhat  BY <1>0, <2>2
    <3> QED BY <3>1, <3>2
  <2>4. Promise!Return
    BY <2>1, <2>3 DEF Promise!Return, Succ
  <2> QED BY <2>4 DEF Promise!Next
<1>8. CASE UNCHANGED vars
  BY <1>8 DEF vars, Promise!vars
<1> QED
  BY <1>1, <1>3, <1>2, <1>4, <1>5, <1>6, <1>7, <1>8 DEF Next, Driver, Promise!vars

\* The concurrent sweep implements the safety part of Mttkrp: a process(n)
\* that returns has added every nonzero exactly once into Yhat[n].
THEOREM SweepImplementsMttkrp ==
  Spec => Promise!Init /\ [][Promise!Next]_(Promise!vars)
<1>1. Init => Promise!Init  BY PromiseInit
<1>2. IInv /\ [Next]_vars => [Promise!Next]_(Promise!vars)  BY PromiseStep
<1> QED BY <1>1, <1>2, Invariance, PTL DEF Spec


-----------------------------------------------------------------------------
(* The order of the fiber sort. *)

LEMMA RowValues ==
  ASSUME NEW n \in Mode, NEW slab \in [Slot -> Elem], NEW m \in Mode
  PROVE  /\ SortMode(n) \in Mode
         /\ \A d \in Slot : Row[m][slab[d]] \in Nat
<1>1. SortMode(n) \in Mode  BY ModeFacts, ShapeAssumption DEF SortMode, Mode
<1>2. \A e \in Elem : Row[m][e] \in Nat  BY TensorAssumption
<1> QED BY <1>1, <1>2

\* The step of the loop that all three passes share: shard s comes out in
\* the order of the key, every other shard is as it was.
LEMMA SortedOrder ==
  ASSUME NEW n \in Mode, NEW m \in Mode, NEW s \in Shards(n),
         NEW src \in [Slot -> Elem], NEW dst \in [Slot -> Elem],
         NEW from \in Bijection(ShardRange(n, s), ShardRange(n, s)),
         StableOrder(from, ShardRange(n, s), src, Row[m]),
         NEW new, new = [d \in Slot |-> IF d \in ShardRange(n, s)
                                        THEN src[from[d]] ELSE dst[d]]
  PROVE  /\ \A c, d \in ShardRange(n, s) : c < d =>
              /\ Row[m][new[c]] =< Row[m][new[d]]
              /\ Row[m][new[c]] = Row[m][new[d]] => from[c] < from[d]
         /\ \A d \in ShardRange(n, s) :
              from[d] \in ShardRange(n, s) /\ new[d] = src[from[d]]
         /\ \A u \in Shards(n) \ {s} : \A d \in ShardRange(n, u) : new[d] = dst[d]
<1>1. ShardRange(n, s) \subseteq Slot  BY RangeOrder
<1>2. \A d \in ShardRange(n, s) : from[d] \in ShardRange(n, s) /\ new[d] = src[from[d]]
  BY <1>1 DEF Bijection, Injection
<1>3. ASSUME NEW c \in ShardRange(n, s), NEW d \in ShardRange(n, s), c < d
      PROVE  /\ Row[m][new[c]] =< Row[m][new[d]]
             /\ Row[m][new[c]] = Row[m][new[d]] => from[c] < from[d]
  <2>1. new[c] = src[from[c]] /\ new[d] = src[from[d]]
    BY <1>2
  <2>2. Row[m][src[from[c]]] \in Nat /\ Row[m][src[from[d]]] \in Nat
    BY <1>1, <1>2, RowValues
  <2>3. \/ Row[m][src[from[c]]] < Row[m][src[from[d]]]
        \/ Row[m][src[from[c]]] = Row[m][src[from[d]]] /\ from[c] < from[d]
    BY <1>3 DEF StableOrder
  <2> QED BY <2>1, <2>2, <2>3
<1>4. ASSUME NEW u \in Shards(n) \ {s}, NEW d \in ShardRange(n, u)
      PROVE  new[d] = dst[d]
  <2>1. d \in Slot  BY RangeOrder
  <2>2. d \notin ShardRange(n, s)  BY RangeDisjoint
  <2> QED BY <2>1, <2>2
<1> QED BY <1>2, <1>3, <1>4

\* A shard is in order after its own sort, and stays in order through
\* another shard's.
LEMMA ShardOrderStep ==
  ASSUME IInv, OrderInv, NEW s \in unsorted,
         FiberShard(s) \/ LsdShard(s) \/ MsdShard(s)
  PROVE  OrderInv'
<1>1. /\ mode \in Mode /\ s \in Shards(mode)
      /\ vals \in [Slot -> Elem] /\ scr \in [Slot -> Elem]
      /\ phase \in {"fiber", "lsd", "msd"}
      /\ UNCHANGED <<mode, phase>>
      /\ Shards(mode) \ unsorted' = (Shards(mode) \ unsorted) \cup {s}
  BY DEF IInv, TypeOK, FiberShard, LsdShard, MsdShard
<1>2. SweepOrder'  BY <1>1 DEF SweepOrder
<1>3. ASSUME FiberShard(s) PROVE PassOrder'
  <2>1. phase = "fiber"  BY <1>3 DEF FiberShard
  <2>2. PICK from \in Bijection(ShardRange(mode, s), ShardRange(mode, s)) :
          SortedInto(scr, vals, s, mode, from)
    BY <1>3 DEF FiberShard
  <2>3. ASSUME NEW u \in Shards(mode) \ unsorted'
        PROVE  KeyOrdered(scr', u, Row[mode])
    <3>1. CASE u = s
      BY <1>1, <2>2, <3>1, SortedOrder DEF SortedInto, KeyOrdered
    <3>2. CASE u # s
      <4>1. \A d \in ShardRange(mode, u) : scr'[d] = scr[d]
        BY <1>1, <2>2, <3>2, SortedOrder DEF SortedInto
      <4>2. KeyOrdered(scr, u, Row[mode])
        BY <1>1, <2>1, <3>2 DEF OrderInv, PassOrder
      <4> QED BY <4>1, <4>2 DEF KeyOrdered
    <3> QED BY <3>1, <3>2
  <2> QED BY <1>1, <2>1, <2>3 DEF OrderInv, PassOrder, KeyOrdered
<1>4. ASSUME LsdShard(s) PROVE PassOrder'
  <2>1. phase = "lsd"  BY <1>4 DEF LsdShard
  <2>2. PICK from \in Bijection(ShardRange(mode, s), ShardRange(mode, s)) :
          SortedInto(scr, vals, s, SortMode(mode), from)
    BY <1>4 DEF LsdShard
  <2>0. SortMode(mode) \in Mode  BY <1>1, RowValues
  <2>3. ASSUME NEW u \in Shards(mode) \ unsorted'
        PROVE  KeyOrdered(scr', u, Row[SortMode(mode)])
    <3>1. CASE u = s
      BY <1>1, <2>0, <2>2, <3>1, SortedOrder DEF SortedInto, KeyOrdered
    <3>2. CASE u # s
      <4>1. \A d \in ShardRange(mode, u) : scr'[d] = scr[d]
        BY <1>1, <2>0, <2>2, <3>2, SortedOrder DEF SortedInto
      <4>2. KeyOrdered(scr, u, Row[SortMode(mode)])
        BY <1>1, <2>1, <3>2 DEF OrderInv, PassOrder
      <4> QED BY <4>1, <4>2 DEF KeyOrdered
    <3> QED BY <3>1, <3>2
  <2>4. SortMode(mode)' = SortMode(mode)  BY <1>1 DEF SortMode
  <2> QED BY <1>1, <2>1, <2>3, <2>4 DEF PassOrder, KeyOrdered
<1>5. ASSUME MsdShard(s) PROVE PassOrder'
  <2>1. phase = "msd" /\ scr' = scr  BY <1>5 DEF MsdShard
  <2>2. PICK from \in Bijection(ShardRange(mode, s), ShardRange(mode, s)) :
          SortedInto(vals, scr, s, mode, from)
    BY <1>5 DEF MsdShard
  <2>3. ASSUME NEW u \in Shards(mode) \ unsorted'
        PROVE  KeyOrdered(vals', u, Row[mode]) /\ GatherOrdered(vals', u)
    <3>1. CASE u = s
      <4>1. KeyOrdered(scr, s, Row[SortMode(mode)])
        BY <1>1, <2>1 DEF OrderInv, PassOrder
      <4>2. /\ \A c, d \in ShardRange(mode, s) : c < d =>
                 /\ Row[mode][vals'[c]] =< Row[mode][vals'[d]]
                 /\ Row[mode][vals'[c]] = Row[mode][vals'[d]] => from[c] < from[d]
            /\ \A d \in ShardRange(mode, s) :
                 from[d] \in ShardRange(mode, s) /\ vals'[d] = scr[from[d]]
        BY <1>1, <2>2, SortedOrder DEF SortedInto
      <4>3. KeyOrdered(vals', s, Row[mode])  BY <4>2 DEF KeyOrdered
      <4>4. GatherOrdered(vals', s)  BY <4>1, <4>2 DEF KeyOrdered, GatherOrdered
      <4> QED BY <3>1, <4>3, <4>4
    <3>2. CASE u # s
      <4>1. \A d \in ShardRange(mode, u) : vals'[d] = vals[d]
        BY <1>1, <2>2, <3>2, SortedOrder DEF SortedInto
      <4>2. KeyOrdered(vals, u, Row[mode]) /\ GatherOrdered(vals, u)
        BY <1>1, <2>1, <3>2 DEF OrderInv, PassOrder
      <4> QED BY <4>1, <4>2 DEF KeyOrdered, GatherOrdered
    <3> QED BY <3>1, <3>2
  <2>4. SortMode(mode)' = SortMode(mode)  BY <1>1 DEF SortMode
  <2>5. \A u \in Shards(mode) : KeyOrdered(scr, u, Row[SortMode(mode)])
    BY <2>1 DEF OrderInv, PassOrder
  <2> QED BY <1>1, <2>1, <2>3, <2>4, <2>5 DEF PassOrder, KeyOrdered, GatherOrdered
<1> QED BY <1>2, <1>3, <1>4, <1>5 DEF OrderInv

\* A pass that has sorted every shard hands the order to the next phase:
\* through swap_buffers, into the second pass, or in place.
LEMMA PassDone ==
  ASSUME IInv, OrderInv, FiberDone \/ LsdDone \/ MsdDone
  PROVE  OrderInv'
<1>1. unsorted = {} /\ mode' = mode /\ SortMode(mode)' = SortMode(mode)
  BY DEF FiberDone, LsdDone, MsdDone, SortMode
<1>2. CASE FiberDone
  <2>1. /\ phase = "fiber" /\ phase' = "zero" /\ vals' = scr /\ mode \notin TwoPass
        /\ \A u \in Shards(mode) : KeyOrdered(scr, u, Row[mode])
    BY <1>1, <1>2 DEF FiberDone, OrderInv, PassOrder
  <2> QED BY <1>1, <2>1 DEF OrderInv, PassOrder, SweepOrder, KeyOrdered
<1>3. CASE LsdDone
  <2>1. /\ phase = "lsd" /\ phase' = "msd" /\ scr' = scr
        /\ unsorted' = Shards(mode)
        /\ \A u \in Shards(mode) : KeyOrdered(scr, u, Row[SortMode(mode)])
    BY <1>1, <1>3 DEF LsdDone, OrderInv, PassOrder
  <2> QED BY <1>1, <2>1 DEF OrderInv, PassOrder, SweepOrder, KeyOrdered
<1>4. CASE MsdDone
  <2>1. /\ phase = "msd" /\ phase' = "zero" /\ vals' = vals
        /\ \A u \in Shards(mode) :
             KeyOrdered(vals, u, Row[mode]) /\ GatherOrdered(vals, u)
    BY <1>1, <1>4 DEF MsdDone, OrderInv, PassOrder
  <2> QED BY <1>1, <2>1 DEF OrderInv, PassOrder, SweepOrder, KeyOrdered, GatherOrdered
<1> QED BY <1>2, <1>3, <1>4

\* From the sort to the barrier nobody writes the primary slab.
LEMMA SlabKept ==
  ASSUME OrderInv, UNCHANGED <<mode, vals>>, phase \in {"zero", "kernel"},
         phase' = "kernel"
  PROVE  OrderInv'
<1>1. SortMode(mode)' = SortMode(mode)  BY DEF SortMode
<1> QED BY <1>1 DEF OrderInv, PassOrder, SweepOrder, KeyOrdered, GatherOrdered

LEMMA SweepInvStep == SweepInv /\ [Next]_vars => SweepInv'
<1> SUFFICES ASSUME SweepInv, [Next]_vars PROVE SweepInv'
  OBVIOUS
<1>0. IInv /\ OrderInv /\ IInv'  BY InvStep DEF SweepInv
<1>1. CASE Begin
  <2>1. /\ phase' \in {"zero", "lsd", "fiber"} /\ mode' = mode
        /\ phase' \in {"lsd", "fiber"} => unsorted' = Shards(mode)
        /\ phase' = "fiber" => mode \notin TwoPass
        /\ phase' = "zero" => mode \notin Dense
    BY <1>1 DEF Begin
  <2>2. OrderInv'  BY <2>1 DEF OrderInv, PassOrder, SweepOrder
  <2> QED BY <1>0, <2>2 DEF SweepInv
<1>2. CASE Sort  BY <1>0, <1>2, ShardOrderStep DEF Sort, SweepInv
<1>3. CASE Driver
  <2>1. CASE FiberDone \/ LsdDone \/ MsdDone
    BY <1>0, <2>1, PassDone DEF SweepInv
  <2>2. CASE Launch
    BY <1>0, <2>2, SlabKept DEF Launch, SweepInv
  <2>3. CASE Join
    BY <1>0, <2>3 DEF Join, SweepInv, OrderInv, PassOrder, SweepOrder
  <2> QED BY <1>3, <2>1, <2>2, <2>3 DEF Driver
<1>4. ASSUME NEW t \in Thread, Kernel(t) PROVE SweepInv'
  <2>1. /\ phase = "kernel" /\ phase' = "kernel"
        /\ UNCHANGED <<mode, vals>>
    BY <1>4 DEF Kernel, TakeShard, LoadRow, Accumulate, StoreRow, driverVars
  <2> QED BY <1>0, <2>1, SlabKept DEF SweepInv
<1>5. CASE UNCHANGED vars
  <2>1. SortMode(mode)' = SortMode(mode)  BY <1>5 DEF SortMode, vars
  <2>2. OrderInv'
    BY <1>0, <1>5, <2>1
       DEF vars, OrderInv, PassOrder, SweepOrder, KeyOrdered, GatherOrdered
  <2> QED BY <1>0, <2>2 DEF SweepInv
<1> QED BY <1>1, <1>2, <1>3, <1>4, <1>5 DEF Next

\* The fiber sort of process(n), one pass or two, is done when the kernel
\* starts, and no thread undoes it: every shard of the slab the kernel walks
\* is in the order of its output rows at every instant of the call.
THEOREM OrderInvariance == Spec => []SweepInv
<1>1. Init => SweepInv
  BY InvInit DEF SweepInv, OrderInv, PassOrder, SweepOrder, Init
<1>2. SweepInv /\ [Next]_vars => SweepInv'  BY SweepInvStep
<1> QED BY <1>1, <1>2, PTL DEF Spec

\* The fiber kernel loads each row of Yhat once: while it runs, the nonzeros
\* of a row are next to each other in the slab and, after the two-pass sort,
\* in the order of the factor row that process_range_fiber_T gathers first.
THEOREM FibersContiguous == Spec => []FiberOrder
<1>1. ASSUME SweepInv, phase = "kernel", mode \in Dense,
             NEW c \in Slot, NEW d \in Slot, c < d,
             Row[mode][vals[c]] = Row[mode][vals[d]]
      PROVE  /\ \A k \in c .. d : Row[mode][vals[k]] = Row[mode][vals[c]]
             /\ mode \in TwoPass =>
                  Row[SortMode(mode)][vals[c]] =< Row[SortMode(mode)][vals[d]]
  <2>1. mode \in Mode /\ vals \in [Slot -> Elem] /\ Grouped(vals, mode)
    BY <1>1 DEF SweepInv, IInv, TypeOK, SortInv
  <2> DEFINE s == Shard(mode, vals[c])
  <2>2. Shard(mode, vals[d]) = s  BY <1>1 DEF Shard
  <2>3. s \in Shards(mode) /\ c \in ShardRange(mode, s) /\ d \in ShardRange(mode, s)
    BY <2>1, <2>2, GroupedFacts
  <2> HIDE DEF s
  <2>4. /\ KeyOrdered(vals, s, Row[mode])
        /\ mode \in TwoPass => GatherOrdered(vals, s)
    BY <1>1, <2>3 DEF SweepInv, OrderInv, SweepOrder
  <2>5. ASSUME NEW k \in c .. d
        PROVE  Row[mode][vals[k]] = Row[mode][vals[c]]
    <3>1. ShardBegin(mode, s) \in Nat /\ ShardEnd(mode, s) \in Nat
          /\ ShardRange(mode, s) \subseteq Slot
      BY <2>1, <2>3, RangeOrder
    <3>2. c \in Nat /\ d \in Nat  BY SlotFacts
    <3>3. k \in ShardRange(mode, s)
      BY <2>3, <3>1, <3>2 DEF ShardRange
    <3>4. /\ k # c => Row[mode][vals[c]] =< Row[mode][vals[k]]
          /\ k # d => Row[mode][vals[k]] =< Row[mode][vals[d]]
      BY <2>3, <2>4, <3>2, <3>3 DEF KeyOrdered
    <3>5. Row[mode][vals[k]] \in Nat /\ Row[mode][vals[c]] \in Nat
      BY <2>1, <3>1, <3>3, RowValues
    <3> QED BY <1>1, <3>4, <3>5
  <2>6. mode \in TwoPass =>
          Row[SortMode(mode)][vals[c]] =< Row[SortMode(mode)][vals[d]]
    BY <1>1, <2>3, <2>4 DEF GatherOrdered
  <2> QED BY <2>5, <2>6
<1>2. SweepInv => FiberOrder  BY <1>1 DEF FiberOrder
<1> QED BY <1>2, OrderInvariance, PTL
=============================================================================
