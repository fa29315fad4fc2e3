---------------------------- MODULE FlycooBuild ----------------------------
(***************************************************************************)
(* build_flycoo, up to the layout decision: the team's two scans that sort *)
(* the tensor into mode-0 super-shards, the LPT schedule, the shard        *)
(* ranges, and the cursor table of the atomic-free remap.  Module Flycoo   *)
(* says in closed form what the tables must contain.                       *)
(***************************************************************************)
EXTENDS ShardGeometry, Sequences, SequencesExt, Functions

CONSTANTS
  N,          \* num_modes
  OMPT,       \* omp_get_max_threads(): the team of the preprocessing loops
  Jobs        \* the calls of build_flycoo: records of num_threads, mode_size
              \* and, for every mode, the sequence of the nonzeros' indices

Mode    == 0 .. N - 1
Worker  == 0 .. OMPT - 1
Succ(n) == (n + 1) % N

ASSUME TeamAssumption == N \in Nat \ {0} /\ OMPT \in Nat \ {0}

ASSUME JobAssumption ==
  \A j \in Jobs :
    /\ j.threads \in Nat \ {0}
    /\ j.size \in [Mode -> 1 .. Pow2[Bits] - 1]
    /\ j.row \in [Mode -> Seq(Nat)]
    /\ \A n \in Mode : /\ Len(j.row[n]) = Len(j.row[0])
                       /\ \A e \in DOMAIN j.row[n] : j.row[n][e] < j.size[n]

\* Modes so large that (mode_size + mn - 1) wraps would have too few shards.
NoWrap == \A j \in Jobs, n \in Mode : j.size[n] + kMaxRows =< Pow2[Bits]

\* Nonzeros are numbered from 1 in input order; 0 is what fresh memory holds.
Junk == 0

VARIABLES
  pc,         \* the step of build_flycoo
  P,          \* num_threads, fixed by Init like the tensor
  size,       \* mode_size
  row,        \* row[n][e]: the index of nonzero e in mode n
  mn,         \* T.mn
  vals, scr,  \* the slabs: the nonzero in each slot
  wcnt,       \* w_cnt[w][n][s]: worker w's histogram
  wbits,      \* w_bits[w][n]: rows worker w has seen
  scanned,    \* workers that are done with the current counting scan
  base,       \* base[w][s]: w's cursor into mode-0 shard s
  pos,        \* pos[w]: i in w's scan
  cnt,        \* count_flat[n][s]
  touched,    \* T.touched_bits[n]
  todo,       \* todo[n]: shards not yet given to a thread
  heap,       \* heap[n][t]: load of thread t
  ss_list,    \* ss_list[n][t]
  begin, end, \* T.shard_begin, T.shard_end
  tidOf,      \* tid_of_flat[n][s], -1 for a shard on no list
  whist,      \* w_hist[w][n][t][s]
  thrOff      \* T.precomp_thr_off[n][t][s]

Thread == 0 .. P - 1
Elem   == DOMAIN row[0]
nnz    == Len(row[0])
Slot   == 0 .. nnz - 1

job    == <<P, size, row>>
tables == <<cnt, touched, todo, heap, ss_list, begin, end, tidOf, whist, thrOff>>
vars == <<pc, job, mn, vals, scr, wcnt, wbits, scanned, base, pos, tables>>

Shards(n)   == 0 .. ShardsPerMode(size[n], mn[n]) - 1
Shard(n, e) == ShardOfRow(row[n][e], mn[n])

\* Worker w's contiguous chunk of the slots.
PerWorker     == (nnz + OMPT - 1) \div OMPT
ChunkBegin(w) == Min({w * PerWorker, nnz})
ChunkEnd(w)   == Min({ChunkBegin(w) + PerWorker, nnz})
Chunk(w)      == ChunkBegin(w) .. ChunkEnd(w) - 1

\* f[0] + ... + f[k - 1], as a loop that adds up a table computes it.
RunningSum(f, k) ==
  LET sum[i \in 0 .. k] == IF i = 0 THEN 0 ELSE sum[i - 1] + f[i - 1]
  IN  sum[k]

-----------------------------------------------------------------------------
(* The parsed tensor is in the primary slab; ensure_scratch commits the    *)
(* other one.                                                              *)
Init ==
  /\ pc = "shape"
  /\ \E j \in Jobs : P = j.threads /\ size = j.size /\ row = j.row
  /\ vals = [d \in Slot |-> d + 1]
  /\ scr = [d \in Slot |-> Junk]
  /\ mn = [n \in Mode |-> 0]
  /\ wcnt = [w \in Worker |-> <<>>]
  /\ wbits = [w \in Worker |-> <<>>]
  /\ scanned = {}
  /\ base = [w \in Worker |-> <<>>]
  /\ pos = [w \in Worker |-> 0]
  /\ cnt = <<>> /\ touched = <<>>
  /\ todo = <<>> /\ heap = <<>> /\ ss_list = <<>>
  /\ begin = <<>> /\ end = <<>> /\ tidOf = <<>>
  /\ whist = [w \in Worker |-> <<>>]
  /\ thrOff = <<>>

Shape ==
  /\ pc = "shape"
  /\ mn' = [n \in Mode |-> PickMN(size[n], P)]
  /\ pc' = "count"
  /\ UNCHANGED <<job, vals, scr, wcnt, wbits, scanned, base, pos, tables>>

(* Pass A: a worker reads its chunk and writes only its own histogram and  *)
(* bitmap, so its whole scan is one step.                                  *)
CountScan(w) ==
  /\ pc = "count" /\ w \notin scanned
  /\ wcnt' = [wcnt EXCEPT ![w] = [n \in Mode |-> [s \in Shards(n) |->
       Cardinality({i \in Chunk(w) : Shard(n, vals[i]) = s})]]]
  /\ wbits' = [wbits EXCEPT ![w] = [n \in Mode |-> {row[n][vals[i]] : i \in Chunk(w)}]]
  /\ scanned' = scanned \cup {w}
  /\ UNCHANGED <<pc, job, mn, vals, scr, base, pos, tables>>

Total(n, s) == RunningSum([w \in Worker |-> wcnt[w][n][s]], OMPT)

\* Mutant: every worker starts at the shard's base.
ShardMajorSharedBase(w, s) ==
  RunningSum([u \in Shards(0) |-> Total(0, u)], s)

\* Mutant: the later worker goes first.
ShardMajorLastFirst(w, s) ==
  RunningSum([u \in Shards(0) |-> Total(0, u)], s)
    + RunningSum([v \in Worker |-> wcnt[OMPT - 1 - v][0][s]], OMPT - 1 - w)

\* Shard-major, then by worker: where worker w puts its first nonzero of s.
ShardMajor(w, s) ==
  RunningSum([u \in Shards(0) |-> Total(0, u)], s)
    + RunningSum([v \in Worker |-> wcnt[v][0][s]], w)

Bases ==
  /\ pc = "count" /\ scanned = Worker
  /\ base' = [w \in Worker |-> [s \in Shards(0) |-> ShardMajor(w, s)]]
  /\ pos' = [w \in Worker |-> ChunkBegin(w)]
  /\ pc' = "scatter"
  /\ UNCHANGED <<job, mn, vals, scr, wcnt, wbits, scanned, tables>>

\* Pass B: worker w moves one nonzero to the scratch slab.
Scatter(w) ==
  /\ pc = "scatter" /\ pos[w] \in Chunk(w)
  /\ LET e == vals[pos[w]]
         s == Shard(0, e)
     IN  /\ scr' = [scr EXCEPT ![base[w][s]] = e]
         /\ base' = [base EXCEPT ![w][s] = @ + 1]
  /\ pos' = [pos EXCEPT ![w] = @ + 1]
  /\ UNCHANGED <<pc, job, mn, vals, wcnt, wbits, scanned, tables>>

Reduced == [n \in Mode |-> [s \in Shards(n) |-> Total(n, s)]]

Seen(n) == UNION {wbits[w][n] : w \in Worker}

\* The barrier, swap_buffers, and the reductions over workers.
Swap ==
  /\ pc = "scatter" /\ \A w \in Worker : pos[w] \notin Chunk(w)
  /\ vals' = scr /\ scr' = vals
  /\ cnt' = Reduced
  /\ touched' = [n \in Mode |-> Seen(n)]
  /\ todo' = [n \in Mode |-> Shards(n)]
  /\ heap' = [n \in Mode |-> [t \in Thread |-> 0]]
  /\ ss_list' = [n \in Mode |-> [t \in Thread |-> <<>>]]
  /\ pc' = "schedule"
  /\ UNCHANGED <<job, mn, wcnt, wbits, scanned, base, pos, begin, end, tidOf, whist, thrOff>>

-----------------------------------------------------------------------------
(* build_schedule_from_counts: the largest shard left goes to the least    *)
(* loaded thread, the lowest of several; std::sort leaves the order of     *)
(* equal shards open.                                                      *)

\* Mutant: std::priority_queue without std::greater pops the maximum.
HeapTopMax(n) ==
  CHOOSE t \in Thread : \A u \in Thread :
    heap[n][u] < heap[n][t] \/ (heap[n][u] = heap[n][t] /\ u =< t)

HeapTop(n) ==
  CHOOSE t \in Thread : \A u \in Thread :
    heap[n][t] < heap[n][u] \/ (heap[n][t] = heap[n][u] /\ t =< u)

Largest(n) == {s \in todo[n] : \A u \in todo[n] : cnt[n][u] =< cnt[n][s]}

\* The shards the loop skips.
Skipped(n) == {s \in todo[n] : cnt[n][s] = 0}

Assign(n) ==
  /\ pc = "schedule" /\ \A m \in 0 .. n - 1 : todo[m] = {}
  /\ \E s \in Largest(n) \ Skipped(n) :
       LET t == HeapTop(n)
       IN  /\ todo' = [todo EXCEPT ![n] = @ \ {s}]
           /\ ss_list' = [ss_list EXCEPT ![n][t] = Append(@, s)]
           /\ heap' = [heap EXCEPT ![n][t] = @ + cnt[n][s]]
  /\ UNCHANGED <<pc, job, mn, vals, scr, wcnt, wbits, scanned, base, pos,
                 cnt, touched, begin, end, tidOf, whist, thrOff>>

\* The empty shards are the last of the order; each is passed over.
SkipEmpty(n) ==
  /\ pc = "schedule" /\ \A m \in 0 .. n - 1 : todo[m] = {}
  /\ todo[n] # {} /\ todo[n] = Skipped(n)
  /\ todo' = [todo EXCEPT ![n] = {}]
  /\ UNCHANGED <<pc, job, mn, vals, scr, wcnt, wbits, scanned, base, pos,
                 cnt, touched, heap, ss_list, begin, end, tidOf, whist, thrOff>>

-----------------------------------------------------------------------------
(* build_remap_plan_from_counts. *)

OwnerIn(n, s) ==
  IF \E t \in Thread : Contains(ss_list[n][t], s)
  THEN CHOOSE t \in Thread : Contains(ss_list[n][t], s)
  ELSE -1

Ranges ==
  /\ pc = "schedule" /\ \A n \in Mode : todo[n] = {}
  /\ begin' = [n \in Mode |-> [s \in Shards(n) |-> RunningSum(cnt[n], s)]]
  /\ end'   = [n \in Mode |-> [s \in Shards(n) |-> RunningSum(cnt[n], s + 1)]]
  /\ tidOf' = [n \in Mode |-> [s \in Shards(n) |-> OwnerIn(n, s)]]
  /\ scanned' = {}
  /\ pc' = "hist"
  /\ UNCHANGED <<job, mn, vals, scr, wcnt, wbits, base, pos,
                 cnt, touched, todo, heap, ss_list, whist, thrOff>>

\* The scan that counts, for every mode, (owner, next shard) pairs; private
\* histograms again.
HistScan(w) ==
  /\ pc = "hist" /\ w \notin scanned
  /\ whist' = [whist EXCEPT ![w] =
       [n \in Mode |-> [t \in Thread |-> [s \in Shards(Succ(n)) |->
         Cardinality({i \in Chunk(w) : /\ tidOf[n][Shard(n, vals[i])] = t
                                        /\ Shard(Succ(n), vals[i]) = s})]]]]
  /\ scanned' = scanned \cup {w}
  /\ UNCHANGED <<pc, job, mn, vals, scr, wcnt, wbits, base, pos,
                 cnt, touched, todo, heap, ss_list, begin, end, tidOf, thrOff>>

Hist(n, t, s) == RunningSum([w \in Worker |-> whist[w][n][t][s]], OMPT)

\* Mutant: an inclusive prefix sum.
CursorInclusive(n, t, s) ==
  begin[Succ(n)][s] + RunningSum([u \in Thread |-> Hist(n, u, s)], t + 1)

Cursor(n, t, s) ==
  begin[Succ(n)][s] + RunningSum([u \in Thread |-> Hist(n, u, s)], t)

Cursors ==
  /\ pc = "hist" /\ scanned = Worker
  /\ thrOff' = [n \in Mode |-> [t \in Thread |->
                 [s \in Shards(Succ(n)) |-> Cursor(n, t, s)]]]
  /\ pc' = "done"
  /\ UNCHANGED <<job, mn, vals, scr, wcnt, wbits, scanned, base, pos,
                 cnt, touched, todo, heap, ss_list, begin, end, tidOf, whist>>

-----------------------------------------------------------------------------
Next ==
  \/ Shape \/ Bases \/ Swap \/ Ranges \/ Cursors
  \/ \E w \in Worker : CountScan(w) \/ Scatter(w) \/ HistScan(w)
  \/ \E n \in Mode : Assign(n) \/ SkipEmpty(n)

Spec == Init /\ [][Next]_vars

-----------------------------------------------------------------------------
Done == pc = "done"

(* The shards_per_mode comment "k_n = ceil(|I_n|/m_n)": the shard of every *)
(* row a mode may have is one of the mode's shards, and no shard is past   *)
(* the last row.                                                           *)
RowsCovered ==
  pc = "count" => \A n \in Mode :
    /\ \A r \in 0 .. size[n] - 1 : ShardOfRow(r, mn[n]) \in Shards(n)
    /\ (Cardinality(Shards(n)) - 1) * mn[n] < size[n]

(* pick_mn aims at four shards per thread and rounds up to a power of two: *)
(* two per thread remain for the LPT schedule to balance, unless the       *)
(* minimum shard size forbids it.                                          *)
TwoShardsPerThread ==
  pc = "count" => \A n \in Mode :
    size[n] >= 4 * kMinRows * P => Cardinality(Shards(n)) >= 2 * P

(* The shapes build_flycoo chooses, for every size and thread count.       *)
ShardsCover == RowsCovered /\ TwoShardsPerThread

(* Pass B needs no atomics: the cursors two workers are about to use point *)
(* to different slots of the slab, none of them written before.            *)
ScatterPrivate ==
  pc = "scatter" =>
    \A w \in Worker : pos[w] \in Chunk(w) =>
      LET d == base[w][Shard(0, vals[pos[w]])]
      IN  /\ d \in Slot /\ scr[d] = Junk
          /\ \A v \in Worker \ {w} : pos[v] \in Chunk(v) =>
               base[v][Shard(0, vals[pos[v]])] # d

\* The tables in closed form, for the tensor built and the owners chosen.
Plan == INSTANCE Flycoo WITH
  MN <- mn, Row <- row, ModeSize <- size,
  Owner <- [n \in Mode |-> [s \in Shards(n) |-> Max({tidOf[n][s], 0})]]

(* The slab ranges and the cursor table are the ones the sweep's           *)
(* correctness rests on: shard ranges tile the slab in shard order, and    *)
(* every (thread, next shard) has exactly the slots it will fill.          *)
PlanExact ==
  Done => \A n \in Mode :
    /\ \A s \in Shards(n) : /\ begin[n][s] = Plan!ShardBegin(n, s)
                            /\ end[n][s] = Plan!ShardEnd(n, s)
    /\ \A t \in Thread, s \in Shards(Succ(n)) : thrOff[n][t][s] = Plan!ThrOff(n, t, s)

(* The bitmap that lazy zeroing trusts: exactly the rows a kernel writes. *)
TouchedExact == Done => \A n \in Mode : touched[n] = {row[n][e] : e \in Elem}

\* The places of shard s in the schedule: a thread and a place on its list.
Entries(n, s) ==
  UNION {{<<t, k>> : k \in {j \in DOMAIN ss_list[n][t] : ss_list[n][t][j] = s}} : t \in Thread}

(* Every nonempty shard is on exactly one thread's list, once; a thread    *)
(* walks its shards in decreasing size.                                    *)
ScheduleExact ==
  Done => \A n \in Mode :
    /\ \A s \in Shards(n) :
         Cardinality(Entries(n, s)) = IF cnt[n][s] = 0 THEN 0 ELSE 1
    /\ \A t \in Thread : \A j, k \in DOMAIN ss_list[n][t] :
         j < k => cnt[n][ss_list[n][t][j]] >= cnt[n][ss_list[n][t][k]]

(* What the sweep reads: the plan, the bitmaps and the schedule, each      *)
(* summed up from what several workers counted.                            *)
TablesExact == PlanExact /\ TouchedExact /\ ScheduleExact

(* Longest-processing-time-first: the heaviest thread has at most          *)
(* 4/3 - 1/(3P) of the best possible schedule's heaviest load (Graham).    *)
Makespan(load) == Max({load[t] : t \in Thread})

Loaded(n) == {s \in Shards(n) : cnt[n][s] > 0}

LoadOf(n, f) == [t \in Thread |-> Cardinality({e \in Elem : f[Shard(n, e)] = t})]

LptBound ==
  Done => \A n \in Mode :
    LET best == Min({Makespan(LoadOf(n, f)) : f \in [Loaded(n) -> Thread]})
    IN  3 * P * Makespan(heap[n]) =< (4 * P - 1) * best

(* What the first process(0) finds: the slab stably partitioned into       *)
(* mode-0 shards, and the input order left in the scratch slab.            *)
Handover ==
  Done => LET from == [d \in Slot |-> CHOOSE c \in Slot : scr[c] = vals[d]]
          IN  /\ scr \in [Slot -> Elem] /\ vals \in [Slot -> Elem]
              /\ Plan!Grouped(vals, 0)
              /\ Plan!StableOrder(from, Slot, scr, [e \in Elem |-> Shard(0, e)])
=============================================================================
