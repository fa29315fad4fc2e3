------------------------------ MODULE NcopyCsr ------------------------------
(***************************************************************************)
(* The NCopy layout.  decide_and_populate_layout builds one copy of the    *)
(* tensor per mode, each scattered from the one before by the threads of   *)
(* dyn_remap_shard_only_all; sorts the copies of the dense modes by row    *)
(* through a temporary slab; and builds their row pointers, a shard per    *)
(* thread, neighbours sharing an entry.  process(n) then reads copy n,     *)
(* through the row pointers if it has them, and neither sorts nor moves.   *)
(***************************************************************************)
EXTENDS Flycoo

CONSTANTS
  Dense,      \* the modes whose kernel_class is DenseFiber
  Fresh       \* what memory nobody has written to holds

ASSUME NcopyAssumption ==
  /\ Dense \subseteq Mode
  /\ Fresh \notin Elem /\ Fresh \notin Nat

VARIABLES
  env,        \* do_fs_pass, do_csr and do_compact, as DYN_NCOPY_FIBER_SORT,
              \* DYN_NCOPY_CSR and DYN_NCOPY_CSR_COMPACT leave them
  stage,      \* the step of the build, or of process, "idle" between calls
  mode,       \* the copy being built, or the mode of the (next) call
  copy,       \* copy[n]: the slab ncopy_vals[n] / ncopy_idx[n] point to
  tmp,        \* the sort temporary, ncopy_sort_vals / ncopy_sort_idx
  rowptr,     \* rowptr[n][r]: ncopy_rowptr[n]
  sorted,     \* the modes with ncopy_fiber_sorted
  csr,        \* the modes with ncopy_csr
  todo,       \* shards or stripes a parallel loop has still to hand out
  pending,    \* pending[t]: shards of ss_list[mode][t] that t has not begun
  off,        \* off[t][s]: thread t's cursor into shard s (work_off)
  ip,         \* ip[t]: the next slot thread t handles (i, k)
  ends,       \* ends[t]: the end of its slots (e)
  row,        \* row[t]: the row thread t handles (r, row)
  rowEnd,     \* rowEnd[t]: the end of its rows (row_hi, row_e)
  at,         \* what thread t is in: "row", "rows" of a shard, a "run" of slots
  stop,       \* stop[t]: the end of the run (i_end, j)
  acc,        \* acc[t]: the output row in t's registers
  yhat        \* yhat[n][r][e]: how often e is added into row r of Yhat[n]

work   == <<pending, off, ip, ends, row, rowEnd, at, stop, acc>>
tables == <<copy, tmp, rowptr, sorted, csr>>
vars   == <<env, stage, mode, tables, todo, work, yhat>>

Sid     == UNION {Shards(n) : n \in Mode}
Rows(n) == 0 .. ModeSize[n] - 1
Stage   == {"remap", "sort", "stripe", "rowptr", "idle", "kernel"}
Nothing == [e \in Elem |-> 0]

\* The rows of a super-shard; the last one is clipped.
RowLo(n, s) == s * MN[n]
RowHi(n, s) == IF (s + 1) * MN[n] > ModeSize[n] THEN ModeSize[n] ELSE (s + 1) * MN[n]

\* ss_list[n][t]: an empty shard is on no thread's list.
ThreadShards(n, t) ==
  {s \in Shards(n) : Owner[n][s] = t /\ ShardRange(n, s) # {}}

\* The lists are in decreasing size; std::sort leaves equal ones open.
Largest(n, s, S) ==
  \A u \in S : Cardinality(ShardRange(n, u)) =< Cardinality(ShardRange(n, s))

Finished(t) == at[t] = "row" /\ ip[t] = ends[t] /\ row[t] = rowEnd[t] /\ pending[t] = {}

-----------------------------------------------------------------------------
(* Populating copies 1 .. N-1. *)

Template(n) == [t \in Thread |-> [s \in Sid |-> ThrOff(n, t, s)]]
Lists(n)    == [t \in Thread |-> ThreadShards(n, t)]

\* Copy 0 is the primary slab, copy 1 the scratch slab with the tensor in
\* input order; copies 2 .. N-1 are new memory.
Init ==
  /\ env \in {v \in [sort : BOOLEAN, csr : BOOLEAN, compact : BOOLEAN] :
               (v.csr => v.sort) /\ (v.compact => v.csr)}
  /\ stage = "remap"
  /\ mode = 1
  /\ \E input \in Bijection(Slot, Elem), from \in Bijection(Slot, Slot) :
       /\ StableOrder(from, Slot, input, [e \in Elem |-> Shard(0, e)])
       /\ copy = [n \in Mode |->
            CASE n = 0 -> [d \in Slot |-> input[from[d]]]
              [] n = 1 -> input
              [] OTHER -> [d \in Slot |-> Fresh]]
  /\ Grouped(copy[0], 0)
  /\ tmp = [d \in Slot |-> Fresh]
  /\ rowptr = [n \in Mode |-> [r \in 0 .. ModeSize[n] |-> Fresh]]
  /\ sorted = {} /\ csr = {} /\ todo = {}
  /\ pending = Lists(0)
  /\ off = Template(0)
  /\ ip = [t \in Thread |-> 0]
  /\ ends = [t \in Thread |-> 0]
  /\ row = [t \in Thread |-> 0]
  /\ rowEnd = [t \in Thread |-> 0]
  /\ at = [t \in Thread |-> "row"]
  /\ stop = [t \in Thread |-> 0]
  /\ acc = [t \in Thread |-> Nothing]
  /\ yhat = [n \in Mode |-> [r \in Rows(n) |-> Nothing]]

TakeRemapShard(t) ==
  /\ stage = "remap" /\ ip[t] = ends[t]
  /\ \E s \in pending[t] :
       /\ Largest(mode - 1, s, pending[t])
       /\ pending' = [pending EXCEPT ![t] = @ \ {s}]
       /\ ip' = [ip EXCEPT ![t] = ShardBegin(mode - 1, s)]
       /\ ends' = [ends EXCEPT ![t] = ShardEnd(mode - 1, s)]
  /\ UNCHANGED <<env, stage, mode, tables, todo, off, row, rowEnd, at, stop, acc, yhat>>

(* One nonzero goes from copy mode - 1 to copy mode through t's cursor. *)
Move(t) ==
  /\ stage = "remap" /\ ip[t] < ends[t]
  /\ LET e == copy[mode - 1][ip[t]]
         s == Shard(mode, e)
     IN  /\ copy' = [copy EXCEPT ![mode][off[t][s]] = e]
         /\ off' = [off EXCEPT ![t][s] = @ + 1]
  /\ ip' = [ip EXCEPT ![t] = @ + 1]
  /\ UNCHANGED <<env, stage, mode, tmp, rowptr, sorted, csr, todo,
                 pending, ends, row, rowEnd, at, stop, acc, yhat>>

\* The dense modes from n on, in order, are sorted; then the build is over.
SortFrom(n) ==
  IF env.sort /\ \E k \in Dense : k >= n
  THEN LET k == CHOOSE i \in Dense : i >= n /\ \A j \in Dense : j >= n => i =< j
       IN  stage' = "sort" /\ mode' = k /\ todo' = Shards(k)
  ELSE stage' = "idle" /\ mode' = 0 /\ todo' = {}

\* Mutant: the cursors of the next copy start where the last one's ended.
RemapDoneStaleCursors ==
  /\ stage = "remap" /\ \A t \in Thread : Finished(t)
  /\ IF mode < N - 1
     THEN /\ mode' = mode + 1
          /\ pending' = Lists(mode)
          /\ UNCHANGED <<stage, todo, off>>
     ELSE SortFrom(0) /\ UNCHANGED <<pending, off>>
  /\ UNCHANGED <<env, tables, ip, ends, row, rowEnd, at, stop, acc, yhat>>

(* The region's barrier, and the set-up of the next copy's remap. *)
RemapDone ==
  /\ stage = "remap" /\ \A t \in Thread : Finished(t)
  /\ IF mode < N - 1
     THEN /\ mode' = mode + 1
          /\ pending' = Lists(mode)
          /\ off' = Template(mode)
          /\ UNCHANGED <<stage, todo>>
     ELSE SortFrom(0) /\ UNCHANGED <<pending, off>>
  /\ UNCHANGED <<env, tables, ip, ends, row, rowEnd, at, stop, acc, yhat>>

-----------------------------------------------------------------------------
(* The within-shard sort of a dense mode's copy, and its row pointers. *)

SortShard(s) ==
  /\ stage = "sort" /\ s \in todo
  /\ \E from \in Bijection(ShardRange(mode, s), ShardRange(mode, s)) :
       /\ StableOrder(from, ShardRange(mode, s), copy[mode], Row[mode])
       /\ tmp' = [d \in Slot |-> IF d \in ShardRange(mode, s)
                                 THEN copy[mode][from[d]] ELSE tmp[d]]
  /\ todo' = todo \ {s}
  /\ UNCHANGED <<env, stage, mode, copy, rowptr, sorted, csr, work, yhat>>

SortDone ==
  /\ stage = "sort" /\ todo = {}
  /\ stage' = "stripe"
  /\ todo' = Thread
  /\ UNCHANGED <<env, mode, tables, work, yhat>>

\* [lo, hi) of stripe t.
StripeOf(t) == (nnz * t) \div P .. (nnz * (t + 1)) \div P - 1

(* One stripe of the sorted slab back into the copy or, when it is being   *)
(* compacted, into the smaller slab that takes its place.                  *)
Stripe(t) ==
  /\ stage = "stripe" /\ t \in todo
  /\ copy' = [copy EXCEPT ![mode] =
       [d \in Slot |-> IF d \in StripeOf(t) THEN tmp[d] ELSE @[d]]]
  /\ todo' = todo \ {t}
  /\ UNCHANGED <<env, stage, mode, tmp, rowptr, sorted, csr, work, yhat>>

StripesDone ==
  /\ stage = "stripe" /\ todo = {}
  /\ sorted' = sorted \cup {mode}
  /\ IF env.csr
     THEN /\ stage' = "rowptr"
          /\ todo' = Shards(mode)
          /\ rowptr' = [rowptr EXCEPT ![mode][ModeSize[mode]] = nnz]
          /\ UNCHANGED mode
     ELSE SortFrom(mode + 1) /\ UNCHANGED rowptr
  /\ UNCHANGED <<env, copy, tmp, csr, work, yhat>>

\* ixn: compaction reads the sorted column from the temporary slab.
SortedSlab == IF env.compact THEN tmp ELSE copy[mode]

\* A thread of the team is handed the next shard.
TakeRowShard(t) ==
  /\ stage = "rowptr" /\ at[t] = "row"
  /\ \E s \in todo :
       /\ todo' = todo \ {s}
       /\ ip' = [ip EXCEPT ![t] = ShardBegin(mode, s)]
       /\ ends' = [ends EXCEPT ![t] = ShardEnd(mode, s)]
       /\ row' = [row EXCEPT ![t] = RowLo(mode, s)]
       /\ rowEnd' = [rowEnd EXCEPT ![t] = RowHi(mode, s)]
  /\ at' = [at EXCEPT ![t] = "rows"]
  /\ UNCHANGED <<env, stage, mode, tables, pending, off, stop, acc, yhat>>

\* Mutant: the scan stops before the last nonzero of the shard.
PastRowShort(slab, n, i, e, r) ==
  CHOOSE j \in i .. e : /\ \A d \in i .. j - 1 : Row[n][slab[d]] = r
                        /\ j < e - 1 => Row[n][slab[j]] # r
                        /\ j = e => i = e

\* while (i < e && ixn[i] == r) ++i.
PastRow(slab, n, i, e, r) ==
  CHOOSE j \in i .. e : /\ \A d \in i .. j - 1 : Row[n][slab[d]] = r
                        /\ j < e => Row[n][slab[j]] # r

WriteRowPtr(t) ==
  /\ stage = "rowptr" /\ at[t] = "rows" /\ row[t] < rowEnd[t]
  /\ rowptr' = [rowptr EXCEPT ![mode][row[t]] = ip[t]]
  /\ ip' = [ip EXCEPT ![t] = PastRow(SortedSlab, mode, @, ends[t], row[t])]
  /\ row' = [row EXCEPT ![t] = @ + 1]
  /\ UNCHANGED <<env, stage, mode, copy, tmp, sorted, csr, todo,
                 pending, off, ends, rowEnd, at, stop, acc, yhat>>

(* rowptr[row_hi] = i: also the first entry of the next shard's rows,      *)
(* which another thread writes at any time before or after.                *)
CloseRowPtr(t) ==
  /\ stage = "rowptr" /\ at[t] = "rows" /\ row[t] = rowEnd[t]
  /\ rowptr' = [rowptr EXCEPT ![mode][rowEnd[t]] = ip[t]]
  /\ at' = [at EXCEPT ![t] = "row"]
  /\ ip' = [ip EXCEPT ![t] = ends[t]]
  /\ UNCHANGED <<env, stage, mode, copy, tmp, sorted, csr, todo,
                 pending, off, ends, row, rowEnd, stop, acc, yhat>>

RowPtrDone ==
  /\ stage = "rowptr" /\ todo = {} /\ \A t \in Thread : at[t] = "row"
  /\ csr' = csr \cup {mode}
  /\ SortFrom(mode + 1)
  /\ UNCHANGED <<env, copy, tmp, rowptr, sorted, work, yhat>>

-----------------------------------------------------------------------------
(* process(mode) under NCopy. *)

\* use_fiber, use_fiber_csr.
UseFiber == mode \in Dense /\ mode \in sorted
UseCsr   == UseFiber /\ mode \in csr

\* zero_output_mode: every row, or only the touched ones.
Touched(n) == {Row[n][e] : e \in Elem}

ZeroedRows(n) ==
  IF Cardinality(Touched(n)) * 4 >= ModeSize[n] * 3 THEN Rows(n) ELSE Touched(n)

Zeroed == [yhat EXCEPT ![mode] =
  [r \in Rows(mode) |-> IF r \in ZeroedRows(mode) THEN Nothing ELSE @[r]]]

\* Mutant: the output keeps the last call's sums.
CallNoZero ==
  /\ stage = "idle"
  /\ stage' = "kernel"
  /\ pending' = Lists(mode)
  /\ UNCHANGED <<env, mode, tables, todo, off, ip, ends, row, rowEnd, at, stop, acc, yhat>>

(* process is called: zero Yhat[mode] and fork the team. *)
Call ==
  /\ stage = "idle"
  /\ stage' = "kernel"
  /\ yhat' = Zeroed
  /\ pending' = Lists(mode)
  /\ UNCHANGED <<env, mode, tables, todo, off, ip, ends, row, rowEnd, at, stop, acc>>

\* The CSR kernel is handed the shard's rows, the others its slots.
TakeShard(t) ==
  /\ stage = "kernel" /\ at[t] = "row" /\ ip[t] = ends[t] /\ row[t] = rowEnd[t]
  /\ \E s \in pending[t] :
       /\ Largest(mode, s, pending[t])
       /\ pending' = [pending EXCEPT ![t] = @ \ {s}]
       /\ IF UseCsr
          THEN /\ row' = [row EXCEPT ![t] = RowLo(mode, s)]
               /\ rowEnd' = [rowEnd EXCEPT ![t] = RowHi(mode, s)]
               /\ UNCHANGED <<ip, ends>>
          ELSE /\ ip' = [ip EXCEPT ![t] = ShardBegin(mode, s)]
               /\ ends' = [ends EXCEPT ![t] = ShardEnd(mode, s)]
               /\ UNCHANGED <<row, rowEnd>>
  /\ UNCHANGED <<env, stage, mode, tables, todo, off, at, stop, acc, yhat>>

\* if (i_beg == i_end) continue.
SkipRow(t) ==
  /\ stage = "kernel" /\ UseCsr /\ at[t] = "row" /\ row[t] < rowEnd[t]
  /\ rowptr[mode][row[t]] = rowptr[mode][row[t] + 1]
  /\ row' = [row EXCEPT ![t] = @ + 1]
  /\ UNCHANGED <<env, stage, mode, tables, todo,
                 pending, off, ip, ends, rowEnd, at, stop, acc, yhat>>

LoadCsrRow(t) ==
  /\ stage = "kernel" /\ UseCsr /\ at[t] = "row" /\ row[t] < rowEnd[t]
  /\ rowptr[mode][row[t]] # rowptr[mode][row[t] + 1]
  /\ ip' = [ip EXCEPT ![t] = rowptr[mode][row[t]]]
  /\ stop' = [stop EXCEPT ![t] = rowptr[mode][row[t] + 1]]
  /\ ends' = [ends EXCEPT ![t] = rowptr[mode][row[t] + 1]]
  /\ acc' = [acc EXCEPT ![t] = yhat[mode][row[t]]]
  /\ at' = [at EXCEPT ![t] = "run"]
  /\ UNCHANGED <<env, stage, mode, tables, todo, pending, off, row, rowEnd, yhat>>

\* The fiber kernel takes a run of slots of one row, the element kernel one.
RunEnd(t, j) ==
  LET RowAt(d) == Row[mode][copy[mode][d]] IN
  IF UseFiber
  THEN /\ \A d \in ip[t] .. j - 1 : RowAt(d) = RowAt(ip[t])
       /\ j < ends[t] => RowAt(j) # RowAt(ip[t])
  ELSE j = ip[t] + 1

LoadRow(t) ==
  /\ stage = "kernel" /\ ~UseCsr /\ at[t] = "row" /\ ip[t] < ends[t]
  /\ \E j \in ip[t] + 1 .. ends[t] :
       RunEnd(t, j) /\ stop' = [stop EXCEPT ![t] = j]
  /\ acc' = [acc EXCEPT ![t] = yhat[mode][Row[mode][copy[mode][ip[t]]]]]
  /\ at' = [at EXCEPT ![t] = "run"]
  /\ UNCHANGED <<env, stage, mode, tables, todo, pending, off, ip, ends, row, rowEnd, yhat>>

\* The output row t has in registers: named by the row loop, or read from
\* the nonzero.
HeldRow(t) == IF UseCsr THEN row[t] ELSE Row[mode][copy[mode][ip[t]]]

\* Registers plus the run's nonzeros, wherever those belong.
Summed(t) == [e \in Elem |->
  acc[t][e] + Cardinality({d \in ip[t] .. stop[t] - 1 : copy[mode][d] = e})]

(* The run is added in registers, which only t sees, and written back. *)
StoreRow(t) ==
  /\ stage = "kernel" /\ at[t] = "run"
  /\ yhat' = [yhat EXCEPT ![mode][HeldRow(t)] = Summed(t)]
  /\ ip' = [ip EXCEPT ![t] = stop[t]]
  /\ row' = [row EXCEPT ![t] = IF UseCsr THEN @ + 1 ELSE @]
  /\ at' = [at EXCEPT ![t] = "row"]
  /\ UNCHANGED <<env, stage, mode, tables, todo, pending, off, ends, rowEnd, stop, acc>>

\* The barrier.  No swap: the next mode has a copy of its own.
Return ==
  /\ stage = "kernel" /\ \A t \in Thread : Finished(t)
  /\ stage' = "idle"
  /\ mode' = Succ(mode)
  /\ UNCHANGED <<env, tables, todo, work, yhat>>

-----------------------------------------------------------------------------
Remap(t)  == TakeRemapShard(t) \/ Move(t)
RowPtr(t) == TakeRowShard(t) \/ WriteRowPtr(t) \/ CloseRowPtr(t)
Kernel(t) == TakeShard(t) \/ SkipRow(t) \/ LoadCsrRow(t) \/ LoadRow(t) \/ StoreRow(t)
Loop      == (\E s \in todo : SortShard(s)) \/ (\E t \in todo : Stripe(t))
Driver    == RemapDone \/ SortDone \/ StripesDone \/ RowPtrDone \/ Return

Next == Call \/ Loop \/ Driver \/ \E t \in Thread : Remap(t) \/ RowPtr(t) \/ Kernel(t)

\* As in RemapSweep: the team runs to its barrier, nobody has to call.
Fairness ==
  /\ WF_vars(Driver)
  /\ \A t \in Thread : WF_vars(Kernel(t))

Spec == Init /\ [][Next]_vars /\ Fairness

-----------------------------------------------------------------------------
(* The state has the shape the code gives it. *)
TypeOK ==
  /\ env \in [sort : BOOLEAN, csr : BOOLEAN, compact : BOOLEAN]
  /\ stage \in Stage
  /\ mode \in Mode
  /\ copy \in [Mode -> [Slot -> Elem \cup {Fresh}]]
  /\ tmp \in [Slot -> Elem \cup {Fresh}]
  /\ DOMAIN rowptr = Mode /\ \A n \in Mode : rowptr[n] \in [0 .. ModeSize[n] -> Nat \cup {Fresh}]
  /\ sorted \subseteq Dense /\ csr \subseteq sorted
  /\ todo \subseteq Nat
  /\ pending \in [Thread -> SUBSET Nat]
  /\ off \in [Thread -> [Sid -> Nat]]
  /\ ip \in [Thread -> Nat] /\ ends \in [Thread -> Nat] /\ stop \in [Thread -> Nat]
  /\ row \in [Thread -> Nat] /\ rowEnd \in [Thread -> Nat]
  /\ at \in [Thread -> {"row", "rows", "run"}]
  /\ acc \in [Thread -> [Elem -> Nat]]

(* Row pointers: when the build of a mode's row pointers is over, entry r  *)
(* counts the nonzeros of lower rows, for rows without nonzeros, empty     *)
(* shards and the end of the last, clipped shard alike.                    *)
RowPtrExact ==
  \A n \in csr : \A r \in 0 .. ModeSize[n] :
    rowptr[n][r] = Cardinality({e \in Elem : Row[n][e] < r})

(* The shared entry: two threads write the entry between two shards, in    *)
(* either order and without synchronisation; the second never changes it.  *)
RowPtrAgreed ==
  [][\A n \in Mode : \A r \in 0 .. ModeSize[n] :
       rowptr[n][r] # Fresh => rowptr[n][r]' = rowptr[n][r]]_rowptr

(* The copies: each that has been populated holds every nonzero once, in   *)
(* the shard order of its mode, though every copy but the first was        *)
(* scattered by P threads from the one before.  (While stripes of the      *)
(* sorted slab are copied back the copy is of two orders.)                 *)
CopiesGrouped ==
  \A n \in Mode :
    \/ stage = "remap" /\ n >= mode
    \/ stage = "stripe" /\ n = mode
    \/ Grouped(copy[n], n)

(* What process(k) relies on, whichever threads built it in which order.   *)
CopiesReady == TypeOK /\ CopiesGrouped /\ RowPtrExact

(* process under NCopy implements the same promise as the sweep under      *)
(* PingPong: a returned call has added every nonzero into its own row, and *)
(* into no other, exactly once.                                            *)
OutOf(n) == [e \in Elem |->
  IF \A r \in Rows(n) \ {Row[n][e]} : yhat[n][r][e] = 0
  THEN yhat[n][Row[n][e]][e] ELSE -1]

Promise == INSTANCE Mttkrp WITH
  turn <- IF stage \in {"idle", "kernel"} THEN mode ELSE 0,
  busy <- stage = "kernel",
  out  <- [n \in Mode |-> IF n = mode /\ stage = "kernel"
                          THEN "undefined" ELSE OutOf(n)]

ImplementsMttkrp == Promise!Spec
=============================================================================
