---------------------------- MODULE RemapSweepInv ----------------------------
(***************************************************************************)
(* The inductive invariant of RemapSweep.  Its centre is Placed: the       *)
(* nonzeros whose slot no thread has left to visit.  Yhat[mode] and the    *)
(* scratch slab are characterised by it at every instant of the pass.      *)
(***************************************************************************)
EXTENDS RemapSweep

\* The slots t has still to visit, and those some thread has.
Ahead(t)  == {k \in Slot : \/ k \in ip[t] .. ends[t] - 1
                           \/ \E u \in pending[t] : k \in ShardRange(mode, u)}
Remaining == UNION {Ahead(t) : t \in Thread}
Placed    == {vals[k] : k \in Slot \ Remaining}

PlacedBy(t, s) == Group(mode, t, s) \cap Placed

\* dst holds, in the slots of shard s, a permutation of what src holds there.
ShardCopy(dst, src, s) ==
  \E from \in Bijection(ShardRange(mode, s), ShardRange(mode, s)) :
    \A d \in ShardRange(mode, s) : dst[d] = src[from[d]]

SortInv ==
  /\ phase # "msd" => Grouped(vals, mode)
  /\ phase = "msd" =>
       /\ Grouped(scr, mode)
       /\ \A s \in Shards(mode) \ unsorted : ShardCopy(vals, scr, s)
  /\ phase \in {"fiber", "lsd"} =>
       \A s \in Shards(mode) \ unsorted : ShardCopy(scr, vals, s)

\* Outside the parallel region no thread has work left, and outside the
\* fiber sort no shard waits to be sorted.
QuietInv ==
  /\ phase # "kernel" => \A t \in Thread : Finished(t)
  /\ phase \in {"idle", "zero", "kernel"} => unsorted = {}

\* A thread is inside one shard that its list held and has no longer pending.
InShard(t, s) ==
  /\ s \in Shards(mode) \ pending[t]
  /\ Owner[mode][s] = t
  /\ ShardBegin(mode, s) =< ip[t]
  /\ ends[t] = ShardEnd(mode, s)

ThreadInv ==
  \A t \in Thread :
    /\ \A s \in pending[t] : Owner[mode][s] = t
    /\ ip[t] =< ends[t]
    /\ ip[t] < ends[t] => \E s \in Shards(mode) : InShard(t, s)
    /\ at[t] = "run" =>
         /\ ip[t] =< stop[t] /\ stop[t] =< ends[t]
         /\ \E s \in Shards(mode) : InShard(t, s) /\ ShardBegin(mode, s) < stop[t]
         /\ \A k \in ip[t] .. stop[t] - 1 :
              Row[mode][vals[k]] = Row[mode][vals[stop[t] - 1]]

\* The row t has in registers.
HeldRow(t) == Row[mode][vals[stop[t] - 1]]

Once(e) == IF e \in Placed THEN 1 ELSE 0

YhatInv ==
  phase = "kernel" => \A e \in Elem :
    /\ \A t \in Thread : at[t] = "run" /\ HeldRow(t) = Row[mode][e] =>
         acc[t][e] = Once(e)
    /\ (\A t \in Thread : at[t] = "run" => HeldRow(t) # Row[mode][e]) =>
         yhat[mode][e] = Once(e)

CursorInv ==
  phase = "kernel" => \A t \in Thread, s \in Shards(Succ(mode)) :
    off[t][s] = ThrOff(mode, t, s) + Cardinality(PlacedBy(t, s))

ScratchInv ==
  phase = "kernel" => \A t \in Thread, s \in Shards(Succ(mode)) :
    \A e \in PlacedBy(t, s) :
      \E d \in ThrOff(mode, t, s) .. off[t][s] - 1 : scr[d] = e

(* The inductive invariant: it says of every instant of a parallel pass    *)
(* which nonzeros are already in Yhat and in the scratch slab, and where.  *)
IInv == /\ TypeOK /\ SortInv /\ QuietInv /\ ThreadInv
        /\ YhatInv /\ CursorInv /\ ScratchInv


-----------------------------------------------------------------------------
(* The order the fiber sort leaves inside a shard.                         *)

\* The slots of shard s are in the order of a key.
KeyOrdered(slab, s, key) ==
  \A c, d \in ShardRange(mode, s) : c < d => key[slab[c]] =< key[slab[d]]

\* Within a row, the nonzeros are in the order of the gathered factor's row.
GatherOrdered(slab, s) ==
  \A c, d \in ShardRange(mode, s) :
    c < d /\ Row[mode][slab[c]] = Row[mode][slab[d]] =>
      Row[SortMode(mode)][slab[c]] =< Row[SortMode(mode)][slab[d]]

\* The first pass of the two orders the scratch slab by the gathered row;
\* the second, being stable, keeps that order within every output row.
PassOrder ==
  /\ phase = "fiber" =>
       /\ mode \notin TwoPass
       /\ \A s \in Shards(mode) \ unsorted : KeyOrdered(scr, s, Row[mode])
  /\ phase = "lsd" =>
       \A s \in Shards(mode) \ unsorted : KeyOrdered(scr, s, Row[SortMode(mode)])
  /\ phase = "msd" =>
       /\ \A s \in Shards(mode) : KeyOrdered(scr, s, Row[SortMode(mode)])
       /\ \A s \in Shards(mode) \ unsorted :
            KeyOrdered(vals, s, Row[mode]) /\ GatherOrdered(vals, s)

SweepOrder ==
  phase \in {"zero", "kernel"} /\ mode \in Dense =>
    \A s \in Shards(mode) :
      /\ KeyOrdered(vals, s, Row[mode])
      /\ mode \in TwoPass => GatherOrdered(vals, s)

OrderInv == PassOrder /\ SweepOrder

(* IInv together with the order: what the fiber kernel relies on as well.  *)
SweepInv == IInv /\ OrderInv
=============================================================================
