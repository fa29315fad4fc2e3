------------------------------- MODULE Morton -------------------------------
(***************************************************************************)
(* The Morton layout: build_morton_layout plans one bit mask per mode,     *)
(* packs each nonzero's rows into one key, and sorts keys and values with  *)
(* a parallel radix partition and a sort per bucket; the one-pass driver   *)
(* spmttkrp_all_modes_morton reads the rows back out of the keys.  A value *)
(* is the nonzero it belongs to, a mask the set of its bit positions.      *)
(***************************************************************************)
EXTENDS Integers, FiniteSets

CONSTANTS
  NumModes,    \* num_modes
  P,           \* num_threads
  nnz,         \* number of nonzeros
  Tensors,     \* records: size[n], mode_size; row[n][e], row of nonzero e
  KeyBits,     \* bits in a key (64)
  BucketBits,  \* kBucketBits
  Stale        \* what uninitialised outputs may hold

Modes  == 0 .. NumModes - 1
Thread == 0 .. P - 1
Slot   == 0 .. nnz - 1

ASSUME MortonAssumption ==
  /\ NumModes \in Nat \ {0} /\ P \in Nat \ {0} /\ nnz \in Nat \ {0}
  /\ KeyBits \in Nat /\ BucketBits \in 0 .. KeyBits /\ Stale \subseteq Nat /\ Stale # {}
  /\ \A T \in Tensors : \A n \in Modes :
       T.size[n] \in Nat \ {0} /\ T.row[n] \in [Slot -> 0 .. T.size[n] - 1]

VARIABLES
  size, row,  \* the tensor
  step,       \* the step of the build or of the driver; "idle" between calls
  layout,     \* T.layout
  soa,        \* the primary slab is there
  mask,       \* mask[n]: the bit positions of mode n
  keys, vals, \* the arrays of the new layout
  hist,       \* thist[t][bucket]
  cursor,     \* cursor[t][bucket]
  base,       \* bucket_base
  tbuf,       \* the (key, value) pairs between the two passes
  pos,        \* pos[t]: the nonzero thread t handles next
  todo,       \* threads, buckets or modes a parallel step has still to do
  ofibs,      \* ofibs[t][n][r][e]: how often thread t has added e to row r
  Yhat,       \* Yhat[n][r][e]: the same of Yhat[n]
  result      \* how the last call ended

tensor == <<size, row>>
sorting == <<hist, cursor, base, tbuf>>
stored == <<layout, soa, mask, keys, vals>>
outputs == <<ofibs, Yhat, result>>
mortonVars == <<tensor, step, stored, sorting, pos, todo, outputs>>

-----------------------------------------------------------------------------
\* 1 << k.
Pow2[k \in Nat] == IF k = 0 THEN 1 ELSE 2 * Pow2[k - 1]

\* f[0] + ... + f[k - 1], as a loop adds it up.
RunningSum(f, k) ==
  LET sum[i \in 0 .. k] == IF i = 0 THEN 0 ELSE sum[i - 1] + f[i - 1]
  IN  sum[k]

\* Mutant: the logarithm is rounded down.
CeilLog2Floor(v) ==
  IF v <= 1 THEN 1 ELSE CHOOSE b \in 1 .. v : Pow2[b] <= v /\ v < Pow2[b + 1]

\* ceil_log2_idx; a mode of one row has a bit, too.
CeilLog2(v) ==
  IF v <= 1 THEN 1 ELSE CHOOSE b \in 1 .. v : Pow2[b - 1] < v /\ v <= Pow2[b]

\* The bits of a word, and the word with given bits.
Position == 0 .. KeyBits - 1
Bits(x)  == {p \in Position : (x \div Pow2[p]) % 2 = 1}
Word(S)  == RunningSum([p \in Position |-> IF p \in S THEN Pow2[p] ELSE 0], KeyBits)

\* The bit of the row that position p of mask m stands for.
Rank(p, m) == Cardinality({q \in m : q < p})

Pdep(x, m) == Word({p \in m : Rank(p, m) \in Bits(x)})
Pext(k, m) == Word({Rank(p, m) : p \in m \cap Bits(k)})

\* The rows of nonzero i, or'ed into a key.
PackedKey(m, i) == Word(UNION {Bits(Pdep(row[n][i], m[n])) : n \in Modes})

BitsNeeded(sizes) == RunningSum([n \in Modes |-> CeilLog2(sizes[n])], NumModes)

(* Bit p of the key goes to the next mode, in turn, that has not all its   *)
(* bits; s has the modes' masks so far and the mode whose turn it is.      *)
Deal(s, p, sizes) ==
  LET open == {n \in Modes : Cardinality(s.mask[n]) < CeilLog2(sizes[n])}
      late == {n \in open : n >= s.next}
      from == IF late # {} THEN late ELSE open
      n    == CHOOSE k \in from : \A l \in from : k <= l
  IN  IF open = {} THEN s
      ELSE [next |-> n + 1, mask |-> [s.mask EXCEPT ![n] = @ \cup {p}]]

\* morton_build_plan.
BuildPlan(sizes) ==
  LET Dealt[p \in 0 .. KeyBits] ==
        IF p = 0 THEN [next |-> 0, mask |-> [n \in Modes |-> {}]]
        ELSE Deal(Dealt[p - 1], p - 1, sizes)
  IN  Dealt[KeyBits].mask

\* kNumBuckets.
Buckets == Pow2[BucketBits]
Bucket  == 0 .. Buckets - 1

\* Thread t's slice of the nonzeros, empty when it would begin behind them.
Per    == (nnz + P - 1) \div P
End(t) == IF nnz < t * Per + Per THEN nnz ELSE t * Per + Per
Slice(t) == t * Per .. End(t) - 1

BucketOf(k) == k \div Pow2[KeyBits - BucketBits]

-----------------------------------------------------------------------------
Zeros == [n \in Modes |-> [r \in 0 .. size[n] - 1 |-> [e \in Slot |-> 0]]]

(* A tensor loaded and built in place; `--layout morton' comes next. *)
MortonInit ==
  /\ \E T \in Tensors : size = T.size /\ row = T.row
  /\ step = "soa" /\ layout = "InPlace" /\ soa = TRUE
  /\ mask = [n \in Modes |-> {}]
  /\ keys = [i \in Slot |-> 0] /\ vals = [i \in Slot |-> 0]
  /\ hist = [t \in Thread |-> [b \in Bucket |-> 0]]
  /\ cursor = [t \in Thread |-> [b \in Bucket |-> 0]]
  /\ base = [b \in 0 .. Buckets |-> 0]
  /\ tbuf = [i \in Slot |-> [k |-> 0, v |-> 0]]
  /\ pos = [t \in Thread |-> 0] /\ todo = {}
  /\ ofibs = [t \in Thread |-> Zeros] /\ Yhat = Zeros /\ result = "none"

(* The plan fits a key and the new buffer is allocated: pass 1 packs the   *)
(* rows of each nonzero and copies the values; each iteration is its own.  *)
Pack ==
  /\ step = "soa" /\ soa /\ BitsNeeded(size) <= KeyBits
  /\ mask' = BuildPlan(size)
  /\ keys' = [i \in Slot |-> PackedKey(BuildPlan(size), i)]
  /\ vals' = [i \in Slot |-> i]
  /\ step' = "packed"
  /\ UNCHANGED <<tensor, layout, soa, sorting, pos, todo, outputs>>

(* No plan, or one of the two buffers cannot be allocated: the tensor is   *)
(* left as it is, and stays in place.                                      *)
Refuse ==
  /\ step \in {"soa", "packed"}
  /\ step' = "refused"
  /\ UNCHANGED <<tensor, stored, sorting, pos, todo, outputs>>

AllocTbuf ==
  /\ step = "packed"
  /\ step' = "count" /\ todo' = Thread
  /\ UNCHANGED <<tensor, stored, sorting, pos, outputs>>

(* (a) Thread t counts the buckets of its slice into its own histogram.    *)
CountBuckets(t) ==
  /\ step = "count" /\ t \in todo
  /\ hist' = [hist EXCEPT ![t] =
       [b \in Bucket |-> Cardinality({i \in Slice(t) : BucketOf(keys[i]) = b})]]
  /\ todo' = todo \ {t}
  /\ UNCHANGED <<tensor, step, stored, cursor, base, tbuf, pos, outputs>>

\* How many nonzeros go to bucket b.
Total(b) == RunningSum([t \in Thread |-> hist[t][b]], P)

\* Mutant: every thread begins at the base of the bucket.
OffsetsShared ==
  /\ step = "count" /\ todo = {}
  /\ base' = [b \in 0 .. Buckets |-> RunningSum([c \in Bucket |-> Total(c)], b)]
  /\ cursor' = [t \in Thread |-> [b \in Bucket |-> base'[b]]]
  /\ pos' = [t \in Thread |-> t * Per]
  /\ step' = "scatter"
  /\ UNCHANGED <<tensor, stored, hist, tbuf, todo, outputs>>

(* (b) One thread sums up: where each bucket begins, and where in it each  *)
(* thread may write, behind what the threads before it have there.         *)
Offsets ==
  /\ step = "count" /\ todo = {}
  /\ base' = [b \in 0 .. Buckets |-> RunningSum([c \in Bucket |-> Total(c)], b)]
  /\ cursor' = [t \in Thread |-> [b \in Bucket |->
                  base'[b] + RunningSum([u \in Thread |-> hist[u][b]], t)]]
  /\ pos' = [t \in Thread |-> t * Per]
  /\ step' = "scatter"
  /\ UNCHANGED <<tensor, stored, hist, tbuf, todo, outputs>>

(* (c) Thread t moves the next nonzero of its slice. *)
Scatter(t) ==
  /\ step = "scatter" /\ pos[t] < End(t)
  /\ LET i == pos[t]
         b == BucketOf(keys[i])
     IN  /\ tbuf' = [tbuf EXCEPT ![cursor[t][b]] = [k |-> keys[i], v |-> vals[i]]]
         /\ cursor' = [cursor EXCEPT ![t][b] = @ + 1]
  /\ pos' = [pos EXCEPT ![t] = @ + 1]
  /\ UNCHANGED <<tensor, step, stored, hist, base, todo, outputs>>

ScatterDone ==
  /\ step = "scatter" /\ \A t \in Thread : pos[t] >= End(t)
  /\ step' = "sort" /\ todo' = Bucket
  /\ UNCHANGED <<tensor, stored, sorting, pos, outputs>>

(* (d) A thread sorts a bucket nobody has taken; std::sort leaves equal    *)
(* keys in any order.                                                      *)
SortBucket(b) ==
  /\ step = "sort" /\ b \in todo
  /\ LET range == base[b] .. base[b + 1] - 1
     IN  \E f \in [range -> range] :
           /\ \A i, j \in range : i # j => f[i] # f[j]
           /\ \A i, j \in range : i < j => tbuf[f[i]].k <= tbuf[f[j]].k
           /\ tbuf' = [i \in Slot |-> IF i \in range THEN tbuf[f[i]] ELSE tbuf[i]]
  /\ todo' = todo \ {b}
  /\ UNCHANGED <<tensor, step, stored, hist, cursor, base, pos, outputs>>

(* (e) The pairs are split again; the tensor takes the new buffer and      *)
(* frees its slabs.                                                        *)
CommitLayout ==
  /\ step = "sort" /\ todo = {}
  /\ keys' = [i \in Slot |-> tbuf[i].k]
  /\ vals' = [i \in Slot |-> tbuf[i].v]
  /\ layout' = "Morton" /\ soa' = FALSE
  /\ step' = "idle"
  /\ UNCHANGED <<tensor, mask, sorting, pos, todo, outputs>>

-----------------------------------------------------------------------------
(* spmttkrp_all_modes_morton, called by cpals on a Morton tensor. *)
Call ==
  /\ step = "idle"
  /\ step' = "alloc"
  /\ UNCHANGED <<tensor, stored, sorting, pos, todo, outputs>>

Alloc ==
  /\ step = "alloc"
  /\ \E g \in Stale : ofibs' = [t \in Thread |-> [n \in Modes |->
                           [r \in 0 .. size[n] - 1 |-> [e \in Slot |-> g]]]]
  /\ step' = "zero" /\ todo' = Thread
  /\ UNCHANGED <<tensor, stored, sorting, pos, Yhat, result>>

(* No memory for ofibs: spmttkrp_all_modes_dynasor takes over, and, for    *)
(* want of the primary slab, the per-mode driver, which reads T.vals.      *)
FallBack ==
  /\ step = "alloc" /\ ~soa
  /\ step' = "crashed"
  /\ UNCHANGED <<tensor, stored, sorting, pos, todo, outputs>>

(* A. Thread t clears its private outputs. *)
Zero(t) ==
  /\ step = "zero" /\ t \in todo
  /\ ofibs' = [ofibs EXCEPT ![t] = Zeros]
  /\ todo' = todo \ {t}
  /\ UNCHANGED <<tensor, step, stored, sorting, pos, Yhat, result>>

ZeroDone ==
  /\ step = "zero" /\ todo = {}
  /\ pos' = [t \in Thread |-> t * Per]
  /\ step' = "kernel"
  /\ UNCHANGED <<tensor, stored, sorting, todo, outputs>>

(* B. The fused kernel: thread t reads the rows of the next nonzero out of *)
(* its key and adds it to them in each of its private outputs.             *)
Kernel(t) ==
  /\ step = "kernel" /\ pos[t] < End(t)
  /\ LET r(n) == Pext(keys[pos[t]], mask[n])
         e    == vals[pos[t]]
     IN  ofibs' = [ofibs EXCEPT ![t] =
                     [n \in Modes |-> [ofibs[t][n] EXCEPT ![r(n)][e] = @ + 1]]]
  /\ pos' = [pos EXCEPT ![t] = @ + 1]
  /\ UNCHANGED <<tensor, step, stored, sorting, todo, Yhat, result>>

KernelDone ==
  /\ step = "kernel" /\ \A t \in Thread : pos[t] >= End(t)
  /\ step' = "reduce" /\ todo' = Modes
  /\ UNCHANGED <<tensor, stored, sorting, pos, outputs>>

(* C. Yhat[n] becomes the sum of the private outputs, mode after mode; its *)
(* rows are shared out among the threads.                                  *)
Reduce(n) ==
  /\ step = "reduce" /\ n \in todo /\ \A m \in todo : n <= m
  /\ Yhat' = [Yhat EXCEPT ![n] = [r \in DOMAIN @ |-> [e \in Slot |->
                RunningSum([t \in Thread |-> ofibs[t][n][r][e]], P)]]]
  /\ todo' = todo \ {n}
  /\ UNCHANGED <<tensor, step, stored, sorting, pos, ofibs, result>>

Return ==
  /\ step = "reduce" /\ todo = {}
  /\ step' = "idle" /\ result' = "ok"
  /\ UNCHANGED <<tensor, stored, sorting, pos, todo, ofibs, Yhat>>

Build == \/ Pack \/ Refuse \/ AllocTbuf \/ Offsets \/ ScatterDone \/ CommitLayout
         \/ \E t \in Thread : CountBuckets(t) \/ Scatter(t)
         \/ \E b \in Bucket : SortBucket(b)

Driver == \/ Alloc \/ FallBack \/ ZeroDone \/ KernelDone \/ Return
          \/ \E t \in Thread : Zero(t) \/ Kernel(t)
          \/ \E n \in Modes : Reduce(n)

MortonNext == Build \/ Call \/ Driver

\* The threads of a call that has begun do not abandon it.
MortonSpec == MortonInit /\ [][MortonNext]_mortonVars /\ WF_mortonVars(Driver)

-----------------------------------------------------------------------------
(* Once the tensor has the Morton layout its keys ascend, and the slots    *)
(* hold each nonzero of the freed slabs once, with the key its rows can be *)
(* read back from.  The slabs are gone: what the threads' scatter lost or  *)
(* the masks cannot tell apart could not be had back.                      *)
ZOrder == layout = "Morton" =>
  /\ \A i \in 1 .. nnz - 1 : keys[i - 1] <= keys[i]
  /\ {vals[i] : i \in Slot} = Slot
  /\ \A i \in Slot, n \in Modes : Pext(keys[i], mask[n]) = row[n][vals[i]]

\* How often nonzero e is in Yhat[n], if it is in no row but its own.
Times(n, e) == IF \A r \in DOMAIN Yhat[n] : r # row[n][e] => Yhat[n][r][e] = 0
               THEN Yhat[n][row[n][e]][e] ELSE -1

\* What a caller sees: a call runs until it writes its outputs.
Stage == CASE step \in {"alloc", "zero", "kernel", "crashed"} -> "running"
           [] step = "reduce" -> "writing"
           [] OTHER -> "idle"
Output == [n \in Modes |-> IF step = "reduce" THEN "undefined"
                           ELSE [e \in Slot |-> Times(n, e)]]

Abstract == INSTANCE MttkrpAll WITH
  N <- NumModes, Elem <- Slot, stage <- Stage, out <- Output

(* A call leaves every Yhat[n] the sum of all contributions to it, each    *)
(* exactly once and in the row of its nonzero, as MttkrpAll promises; and  *)
(* it returns, unless it had to fall back.                                 *)
ImplementsMttkrpAll ==
  /\ Abstract!Init /\ [][Abstract!Next]_(Abstract!vars)
  /\ (step = "alloc") ~> (step \in {"idle", "crashed"})
=============================================================================
