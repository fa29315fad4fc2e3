------------------------------- MODULE Flycoo -------------------------------
(***************************************************************************)
(* The static FLYCOO metadata that build_flycoo leaves in a Tensor: which  *)
(* super-shard a nonzero belongs to in each mode, the slab range of every  *)
(* super-shard, the thread that owns it, and the cursor template           *)
(* precomp_thr_off of the atomic-free remap.  The tables are written in    *)
(* closed form, as cardinalities of sets of nonzeros; module FlycooBuild   *)
(* models the code that fills them and checks that it computes these       *)
(* values.                                                                 *)
(***************************************************************************)
EXTENDS Integers, FiniteSets, Functions

CONSTANTS
  N,          \* num_modes
  P,          \* num_threads the plan is built for (precomp_num_threads)
  Elem,       \* the nonzeros of the tensor
  ModeSize,   \* ModeSize[n]: number of rows of mode n (mode_size)
  MN,         \* MN[n]: rows per super-shard of mode n (mn = 1 << mn_shift)
  Row,        \* Row[n][e]: the index of nonzero e in mode n, 0-based
  Owner       \* Owner[n][s]: the thread whose ss_list[n] holds shard s

Mode   == 0 .. N - 1
Thread == 0 .. P - 1

\* A super-shard count (mode_size + mn - 1) / mn.
NumShards(n) == (ModeSize[n] + MN[n] - 1) \div MN[n]
Shards(n)    == 0 .. NumShards(n) - 1

ASSUME ShapeAssumption ==
  /\ N \in Nat \ {0, 1}
  /\ P \in Nat \ {0}
  /\ Elem # {} /\ IsFiniteSet(Elem)

ASSUME TensorAssumption ==
  /\ ModeSize \in [Mode -> Nat \ {0}]
  /\ MN \in [Mode -> Nat \ {0}]
  /\ Row \in [Mode -> [Elem -> Nat]]
  /\ \A n \in Mode, e \in Elem : Row[n][e] < ModeSize[n]

ASSUME OwnerAssumption ==
  \A n \in Mode : Owner[n] \in [Shards(n) -> Thread]

nnz  == Cardinality(Elem)
Slot == 0 .. nnz - 1

Succ(n) == (n + 1) % N

\* sid = idx >> mn_shift[n].
Shard(n, e)   == Row[n][e] \div MN[n]
OwnerOf(n, e) == Owner[n][Shard(n, e)]

\* shard_begin / shard_end: every nonzero of a lower (not higher) shard.
ShardBegin(n, s) == Cardinality({e \in Elem : Shard(n, e) < s})
ShardEnd(n, s)   == Cardinality({e \in Elem : Shard(n, e) =< s})
ShardRange(n, s) == ShardBegin(n, s) .. ShardEnd(n, s) - 1

\* The nonzeros that thread t, working on mode n, sends to shard s of the
\* next mode, and those that go to slots below them.
Group(n, t, s)  == {e \in Elem : OwnerOf(n, e) = t /\ Shard(Succ(n), e) = s}
\* Mutant: the template forgets to add up the lower threads' counts.
BeforeShardOnly(n, t, s) == {e \in Elem : Shard(Succ(n), e) < s}

Before(n, t, s) == {e \in Elem : \/ Shard(Succ(n), e) < s
                                 \/ /\ Shard(Succ(n), e) = s
                                    /\ OwnerOf(n, e) < t}

\* precomp_thr_off[n][t * stride + s], and the first slot past the reserve.
ThrOff(n, t, s) == Cardinality(Before(n, t, s))
ThrEnd(n, t, s) == ThrOff(n, t, s) + Cardinality(Group(n, t, s))

\* A slab in the order process(n) expects: every nonzero once, shard by shard.
Grouped(slab, n) ==
  /\ slab \in Bijection(Slot, Elem)
  /\ \A d \in Slot : d \in ShardRange(n, Shard(n, slab[d]))

(***************************************************************************)
(* What a stable counting sort of the slots D of a slab by a key leaves:   *)
(* from is the slot a nonzero comes from.                                  *)
(***************************************************************************)
StableOrder(from, D, slab, key) ==
  /\ from \in Bijection(D, D)
  /\ \A c, d \in D : c < d =>
       \/ key[slab[from[c]]] < key[slab[from[d]]]
       \/ key[slab[from[c]]] = key[slab[from[d]]] /\ from[c] < from[d]
=============================================================================
