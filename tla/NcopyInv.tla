------------------------------ MODULE NcopyInv ------------------------------
(***************************************************************************)
(* The inductive invariant of NcopyCsr's build: what is in a half scattered*)
(* copy, a half sorted one, a half copied one and a half written table of  *)
(* row pointers.                                                           *)
(***************************************************************************)
EXTENDS NcopyCsr

\* The remap reads copy mode - 1.  The slots t has still to move, and what
\* has been moved.
Ahead(t) == {k \in Slot : \/ k \in ip[t] .. ends[t] - 1
                          \/ \E u \in pending[t] : k \in ShardRange(mode - 1, u)}
Moved    == {copy[mode - 1][k] : k \in Slot \ UNION {Ahead(t) : t \in Thread}}

MovedBy(t, s) == Group(mode - 1, t, s) \cap Moved

\* A thread is inside one shard that its list held and has no longer pending.
InShard(t, s) ==
  /\ s \in Shards(mode - 1) \ pending[t]
  /\ Owner[mode - 1][s] = t
  /\ ShardBegin(mode - 1, s) =< ip[t]
  /\ ends[t] = ShardEnd(mode - 1, s)

MoverInv ==
  stage = "remap" => \A t \in Thread :
    /\ \A s \in pending[t] : s \in Shards(mode - 1) /\ Owner[mode - 1][s] = t
    /\ at[t] = "row" /\ row[t] = rowEnd[t]
    /\ ip[t] =< ends[t]
    /\ ip[t] < ends[t] => \E s \in Shards(mode - 1) : InShard(t, s)

\* What a thread has moved lies between the start of its range and its cursor.
RemapInv ==
  stage = "remap" =>
    /\ mode # 0
    /\ \A t \in Thread, s \in Shards(mode) :
         /\ off[t][s] = ThrOff(mode - 1, t, s) + Cardinality(MovedBy(t, s))
         /\ \A e \in MovedBy(t, s) :
              \E d \in ThrOff(mode - 1, t, s) .. off[t][s] - 1 : copy[mode][d] = e

-----------------------------------------------------------------------------
\* A slab in the order of its mode's rows.
InOrder(slab, n) ==
  \A c, d \in Slot : c < d => Row[n][slab[c]] =< Row[n][slab[d]]

\* tmp holds shard s of the copy in the order of its rows.
SortedShard(s) ==
  \E from \in Bijection(ShardRange(mode, s), ShardRange(mode, s)) :
    /\ \A d \in ShardRange(mode, s) : tmp[d] = copy[mode][from[d]]
    /\ \A c, d \in ShardRange(mode, s) : c < d => Row[mode][tmp[c]] =< Row[mode][tmp[d]]

SortInv ==
  /\ stage \in {"sort", "stripe"} => mode \in Dense
  /\ stage = "sort" =>
       todo \subseteq Shards(mode) /\ \A s \in Shards(mode) \ todo : SortedShard(s)
  /\ stage = "stripe" =>
       /\ todo \subseteq Thread /\ Grouped(tmp, mode) /\ InOrder(tmp, mode)
       /\ \A t \in Thread \ todo : \A d \in Slot :
            d \in StripeOf(t) => copy[mode][d] = tmp[d]
  /\ stage = "rowptr" => mode \in sorted /\ copy[mode] = tmp /\ InOrder(tmp, mode)

-----------------------------------------------------------------------------
\* The nonzeros of lower rows: what entry r of a row pointer is.
Below(n, r) == Cardinality({e \in Elem : Row[n][e] < r})

RowPtrSound ==
  \A n \in Mode : \A r \in 0 .. ModeSize[n] :
    rowptr[n][r] # Fresh => rowptr[n][r] = Below(n, r)

\* A thread inside the rows of a shard: the slot it is at is the first of
\* its row.
ScanInv ==
  stage = "rowptr" => \A t \in Thread :
    /\ pending[t] = {}
    /\ at[t] = "row" => ip[t] = ends[t] /\ row[t] = rowEnd[t]
    /\ at[t] # "row" => \E s \in Shards(mode) :
         /\ at[t] = "rows" /\ ip[t] = Below(mode, row[t])
         /\ RowLo(mode, s) =< row[t] /\ row[t] =< rowEnd[t]
         /\ rowEnd[t] = RowHi(mode, s) /\ ends[t] = ShardEnd(mode, s)

\* Every row of a shard that has been handed out is written, or a thread is
\* on its way to it.
ScannedInv ==
  stage = "rowptr" =>
    /\ todo \subseteq Shards(mode)
    /\ rowptr[mode][ModeSize[mode]] # Fresh
    /\ \A s \in Shards(mode) \ todo : \A r \in RowLo(mode, s) .. RowHi(mode, s) - 1 :
         \/ rowptr[mode][r] # Fresh
         \/ \E t \in Thread : at[t] = "rows" /\ row[t] =< r /\ r < rowEnd[t]

-----------------------------------------------------------------------------
\* Between the loops no thread has work left.
QuietInv ==
  stage \in {"sort", "stripe", "idle"} => \A t \in Thread : Finished(t)

\* process stays within the copy and the output.
KernelInv ==
  /\ DOMAIN yhat = Mode /\ \A n \in Mode : yhat[n] \in [Rows(n) -> [Elem -> Nat]]
  /\ stage = "kernel" => \A t \in Thread :
       /\ pending[t] \subseteq Shards(mode)
       /\ at[t] = "run" \/ ip[t] < ends[t] => ends[t] =< nnz
       /\ row[t] < rowEnd[t] => rowEnd[t] =< ModeSize[mode]

(* The inductive invariant. *)
IInv == /\ CopiesReady /\ MoverInv /\ RemapInv /\ SortInv
        /\ RowPtrSound /\ ScanInv /\ ScannedInv /\ QuietInv /\ KernelInv
-----------------------------------------------------------------------------
(* process(mode). *)

\* Row pointers are those of copies in row order.
OrderedInv ==
  /\ \A n \in csr : InOrder(copy[n], n)
  /\ stage = "remap" => csr = {}
  /\ stage \in {"sort", "stripe", "rowptr"} => \A n \in csr : n < mode

\* What thread t has still to add: the shards it has not begun, and what is
\* left of the rows or of the slots it is in.
Left(t) ==
  {e \in Elem :
     \/ Shard(mode, e) \in pending[t]
     \/ UseCsr /\ row[t] =< Row[mode][e] /\ Row[mode][e] < rowEnd[t]
     \/ ~ UseCsr /\ \E k \in ip[t] .. ends[t] - 1 : copy[mode][k] = e}

\* A thread is inside one shard of its list, and the row in its registers is
\* the row of every nonzero of the run.
Inside(t, s) ==
  /\ s \in Shards(mode) \ pending[t] /\ Owner[mode][s] = t
  /\ IF UseCsr THEN RowLo(mode, s) =< row[t] /\ rowEnd[t] = RowHi(mode, s)
               ELSE ShardBegin(mode, s) =< ip[t] /\ ends[t] = ShardEnd(mode, s)

Busy(t) == IF UseCsr THEN row[t] < rowEnd[t] ELSE ip[t] < ends[t]

RunSlots(t) == ip[t] .. stop[t] - 1

Server(t) ==
  /\ \A s \in pending[t] : Owner[mode][s] = t
  /\ Busy(t) => \E s \in Shards(mode) : Inside(t, s)
  /\ at[t] # "rows"
  /\ at[t] = "run" =>
       /\ Busy(t) /\ ip[t] < stop[t] /\ stop[t] =< ends[t]
       /\ UseCsr => ip[t] = Below(mode, row[t]) /\ stop[t] = Below(mode, row[t] + 1)
       /\ \A d \in RunSlots(t) : Row[mode][copy[mode][d]] = HeldRow(t)
       /\ acc[t] = yhat[mode][HeldRow(t)]

ServerInv == stage = "kernel" => \A t \in Thread : Server(t)

\* A nonzero is in no row but its own, and there once it has been added.
OutputInv ==
  /\ \A n \in Mode : \A r \in Rows(n) : \A e \in Elem :
       Row[n][e] # r => yhat[n][r][e] = 0
  /\ stage = "kernel" => \A e \in Elem :
       yhat[mode][Row[mode][e]][e] = IF e \in Left(OwnerOf(mode, e)) THEN 0 ELSE 1

\* Inductive relative to IInv.
ServeInv == OrderedInv /\ ServerInv /\ OutputInv
=============================================================================
