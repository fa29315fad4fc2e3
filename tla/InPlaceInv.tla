----------------------------- MODULE InPlaceInv -----------------------------
(***************************************************************************)
(* The inductive invariant of InPlaceSort.  While the columns are          *)
(* scattered it names the slot every nonzero goes to, and while classes    *)
(* are filled by swaps it says of every class which of its slots are       *)
(* final, and which shard each thread works in.                            *)
(***************************************************************************)
EXTENDS InPlaceSort

TypeInv ==
  /\ mode \in Mode /\ sorted \in Mode
  /\ phase \in {"idle", "serial", "scatter", "rows", "zero", "kernel"}
  /\ cols \in [Column -> [Slot -> Elem]] /\ scr \in [Slot -> Elem]
  /\ cnt \in [Sid -> Nat] /\ col \in 0 .. N + 1
  /\ off \in [Thread -> [Sid -> Nat]] /\ pos \in [Thread -> Nat]
  /\ todo \subseteq Shards(mode) /\ (phase # "rows" => todo = {})
  /\ beg \in [Thread -> [Class -> Nat]] /\ fin \in [Thread -> [Class -> Nat]]
  /\ pending \in [Thread -> SUBSET Sid] /\ yhat \in [Mode -> [Elem -> Nat]]

\* All columns hold the same permutation of the nonzeros.
Aligned == /\ cols[ValsColumn] \in Bijection(Slot, Elem)
           /\ \A c \in Column : cols[c] = cols[ValsColumn]

OrderInv ==
  /\ phase # "scatter" => Aligned
  /\ phase = "rows" => Grouped(cols[mode], mode)
  /\ phase \in {"idle", "zero", "kernel"} => Grouped(cols[mode], sorted)
  /\ phase \in {"zero", "kernel"} => sorted = mode

CountInv ==
  phase \in {"serial", "scatter", "rows"} =>
    \A s \in Shards(mode) : cnt[s] = ShardBegin(mode, s)

-----------------------------------------------------------------------------
(* The parallel pass 1. *)

\* The shard of the nonzero in each slot, and how many slots go before slot i
\* if its nonzero is in shard s: that is the slot the nonzero goes to.
SlotShard == [i \in Slot |-> ShardAt(i)]
Rank(key, i, s) ==
  Cardinality({j \in Slot : key[j] < s \/ (key[j] = s /\ j < i)})
Dest(i) == Rank(SlotShard, i, ShardAt(i))

CursorInv ==
  \A t \in Thread :
    /\ Lo(t) =< pos[t] /\ (Lo(t) < pos[t] => pos[t] =< Hi(t))
    /\ \A s \in Shards(mode) : off[t][s] = Rank(SlotShard, pos[t], s)

ColumnInv ==
  /\ col =< N
  /\ cols[mode] \in Bijection(Slot, Elem)
  /\ \A t \in Thread : \A i \in Lo(t) .. pos[t] - 1 :
       scr[Dest(i)] = cols[ColumnAt(col)][i]
  /\ \A c \in 0 .. N :
       IF c < col THEN \A i \in Slot : cols[ColumnAt(c)][Dest(i)] = cols[mode][i]
                  ELSE cols[ColumnAt(c)] = cols[mode]

ScatterInv == phase = "scatter" => CursorInv /\ ColumnInv

-----------------------------------------------------------------------------
(* The American-flag sorts. *)

ShardKey(n) == [e \in Elem |-> Shard(n, e)]
RowKey(n)   == [e \in Elem |-> Row[n][e] % MN[n]]

Members(n, s) == {e \in Elem : Shard(n, e) = s}

\* Where class k of the nonzeros E starts and ends, from slot first on.
ClassBegin(E, first, key, k) == first + Cardinality({e \in E : key[e] < k})
ClassEnd(E, first, key, k)   == first + Cardinality({e \in E : key[e] =< k})

\* A sort of E by key, whose cursors are b and f: every class of the slab is
\* filled from its start up to its cursor.
Filling(b, f, slab, E, first, key) ==
  \A k \in Class :
    /\ f[k] = ClassEnd(E, first, key, k)
    /\ ClassBegin(E, first, key, k) =< b[k] /\ b[k] =< f[k]
    /\ \A i \in ClassBegin(E, first, key, k) .. b[k] - 1 : key[slab[i]] = k

SerialInv ==
  /\ phase \notin {"serial", "rows"} => \A t \in Thread : Flagging(t) = {}
  /\ phase = "serial" =>
       /\ \A t \in Thread \ {0} : Flagging(t) = {}
       /\ Filling(beg[0], fin[0], cols[mode], Elem, 0, ShardKey(mode))

\* The rows of shard s of mode n are in order.
InOrder(slab, n, s) ==
  \A i, j \in ShardRange(n, s) : i < j => RowKey(n)[slab[i]] =< RowKey(n)[slab[j]]

\* Thread t sorts the rows of shard s.
RowJob(t, s) ==
  Filling(beg[t], fin[t], cols[mode], Members(mode, s), ShardBegin(mode, s), RowKey(mode))

\* job[t]: the shard thread t sorts, while it sorts one.
RowJobs(job) ==
  /\ \A t \in Thread : Flagging(t) # {} =>
       /\ job[t] \notin todo
       /\ RowJob(t, job[t])
       /\ \A u \in Thread \ {t} : Flagging(u) # {} => job[u] # job[t]
  /\ \A s \in Shards(mode) \ todo :
       (\A t \in Thread : Flagging(t) # {} => job[t] # s) => InOrder(cols[mode], mode, s)

RowsInv == phase = "rows" => \E job \in [Thread -> Shards(mode)] : RowJobs(job)

-----------------------------------------------------------------------------
\* A nonzero has been added once its shard is done.
KernelInv ==
  phase = "kernel" =>
    /\ \A t \in Thread : pending[t] \subseteq {s \in Shards(mode) : Owner[mode][s] = t}
    /\ \A e \in Elem :
         yhat[mode][e] = IF Shard(mode, e) \in pending[OwnerOf(mode, e)] THEN 0 ELSE 1

IInv == /\ TypeInv /\ OrderInv /\ CountInv /\ ScatterInv /\ SerialInv /\ RowsInv
        /\ KernelInv
=============================================================================
