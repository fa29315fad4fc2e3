----------------------------- MODULE InPlaceSort -----------------------------
(***************************************************************************)
(* SpmttkrpSweep::process under the InPlace layout: there is one slab, and *)
(* inplace_sort_slab_by_mode reorders it for every call.  Pass 1 groups    *)
(* it by shard, either serially (an American-flag sort that swaps whole    *)
(* nonzeros) or in parallel, column by column through one scratch column;  *)
(* pass 2 orders each shard of a fiber mode by row, shards in parallel.    *)
(* The kernel then reads the slab and scatters nothing.                    *)
(***************************************************************************)
EXTENDS Flycoo, FiniteSetsExt

CONSTANTS
  DenseClass  \* the modes n with kernel_class[n] = DenseFiber

ASSUME DenseClassAssumption == DenseClass \subseteq Mode

VARIABLES
  mode,     \* n of the running, or else of the next, process(n)
  phase,    \* the step of process the driver is in, "idle" between calls
  parallel, \* use_parallel: scratch there, big enough, and not switched off
  sorted,   \* T.inplace_sorted_mode
  cols,     \* cols[c][i]: the nonzero whose column c is in slot i
  scr,      \* the one scratch column, inplace_scr_raw
  cnt,      \* cnt[s]: first slot of shard s, as pass 1 counted it
  col,      \* how many columns pass 1 has scattered and copied back
  off,      \* off[t][s]: thread t's scatter cursor (thr_off)
  pos,      \* pos[t]: the slot t scatters next
  todo,     \* shards pass 2's dynamic loop has not handed out
  beg,      \* beg[t][k]: next slot of class k in t's American-flag sort
  fin,      \* fin[t][k]: end of class k there
  pending,  \* pending[t]: shards of ss_list[n][t] the kernel has not done
  yhat      \* yhat[n][e]: how often e is added into its row of Yhat[n]

sortVars == <<cols, scr, cnt, col, off, pos, todo, beg, fin>>
vars == <<mode, phase, parallel, sorted, cols, scr, cnt, col, off, pos, todo,
          beg, fin, pending, yhat>>

ValsColumn == N                   \* vals is one more column beside ix[0..N-1]
Column     == Mode \cup {ValsColumn}
Sid    == UNION {Shards(n) : n \in Mode}
Class  == Sid \cup UNION {0 .. MN[n] - 1 : n \in Mode}
NoFlag == [k \in Class |-> 0]

\* What the sort reads: the shard, and the row within its shard, of ixn[i].
ShardAt(i) == Shard(mode, cols[mode][i])
RowAt(i)   == Row[mode][cols[mode][i]] % MN[mode]

Init ==
  /\ mode = 0
  /\ phase = "idle"
  /\ parallel \in {FALSE, P > 1}
  /\ sorted = 0
  /\ \E slab \in Bijection(Slot, Elem) :
       /\ Grouped(slab, 0)
       /\ cols = [c \in Column |-> slab]
  /\ scr = [i \in Slot |-> CHOOSE e \in Elem : TRUE]  \* uninitialised
  /\ cnt = [s \in Sid |-> 0]
  /\ col = 0
  /\ off = [t \in Thread |-> [s \in Sid |-> 0]]
  /\ pos = [t \in Thread |-> nnz]
  /\ todo = {}
  /\ beg = [t \in Thread |-> NoFlag]
  /\ fin = [t \in Thread |-> NoFlag]
  /\ pending = [t \in Thread |-> {}]
  /\ yhat = [n \in Mode |-> [e \in Elem |-> 0]]

-----------------------------------------------------------------------------
\* An American-flag sort of the slots D by key begins: where each class
\* starts, and where it ends.
FlagStart(D, first, key(_)) ==
  [k \in Class |-> first + Cardinality({i \in D : key(i) < k})]
FlagEnd(D, first, key(_)) ==
  [k \in Class |-> first + Cardinality({i \in D : key(i) =< k})]

\* Mutant: the chunk is rounded down.
ChunkFloor == nnz \div P

\* The slots of the column that thread t counts and scatters.
ChunkSize == (nnz + P - 1) \div P
Lo(t) == t * ChunkSize
Hi(t) == Min({nnz, Lo(t) + ChunkSize})

\* thr_off0: after every lower shard, and the lower threads' part of this one.
Cursor0(t, s) ==
  Cardinality({i \in Slot : \/ ShardAt(i) < s
                            \/ /\ ShardAt(i) = s
                               /\ \E u \in 0 .. t - 1 : i \in Lo(u) .. Hi(u) - 1})

Cursors == [t \in Thread |-> [s \in Sid |-> Cursor0(t, s)]]

NeedsSort == nnz > 1 /\ NumShards(mode) > 1

(* process(mode) is called on a slab sorted for it: the sort is skipped. *)
BeginSorted ==
  /\ phase = "idle" /\ sorted = mode
  /\ phase' = "zero"
  /\ UNCHANGED <<mode, parallel, sorted, sortVars, pending, yhat>>

(* The sort's early return: one shard, or at most one nonzero. *)
BeginTrivial ==
  /\ phase = "idle" /\ sorted # mode /\ ~NeedsSort
  /\ phase' = "zero"
  /\ sorted' = mode
  /\ UNCHANGED <<mode, parallel, sortVars, pending, yhat>>

(* Path (a): count the shards and start the serial American-flag sort. *)
BeginSerial ==
  /\ phase = "idle" /\ sorted # mode /\ NeedsSort /\ ~parallel
  /\ phase' = "serial"
  /\ cnt' = [s \in Sid |-> Cardinality({i \in Slot : ShardAt(i) < s})]
  /\ beg' = [beg EXCEPT ![0] = FlagStart(Slot, 0, ShardAt)]
  /\ fin' = [fin EXCEPT ![0] = FlagEnd(Slot, 0, ShardAt)]
  /\ UNCHANGED <<mode, parallel, sorted, cols, scr, col, off, pos, todo, pending, yhat>>

(* Path (b): the team's histograms (each thread counts its own chunk, then *)
(* the barrier), the cursors made from them, and the first column.         *)
BeginParallel ==
  /\ phase = "idle" /\ sorted # mode /\ NeedsSort /\ parallel
  /\ phase' = "scatter"
  /\ cnt' = [s \in Sid |-> Cursor0(0, s)]
  /\ col' = 0
  /\ off' = Cursors
  /\ pos' = [t \in Thread |-> Lo(t)]
  /\ UNCHANGED <<mode, parallel, sorted, cols, scr, todo, beg, fin, pending, yhat>>

-----------------------------------------------------------------------------
\* Mutant: the index columns in their natural order.
ColumnInOrder(c) == IF c = 0 THEN ValsColumn ELSE c - 1

(* Path (b).  vals, the other index columns in turn, and ix[n] last, for   *)
(* the shards of the slots are looked up in it.                            *)
ColumnAt(c) ==
  IF c = 0 THEN ValsColumn
  ELSE IF c = N THEN mode
  ELSE IF c - 1 < mode THEN c - 1 ELSE c

Scatter(t) ==
  /\ phase = "scatter" /\ pos[t] < Hi(t)
  /\ LET s == ShardAt(pos[t])
     IN  /\ scr' = [scr EXCEPT ![off[t][s]] = cols[ColumnAt(col)][pos[t]]]
         /\ off' = [off EXCEPT ![t][s] = @ + 1]
  /\ pos' = [pos EXCEPT ![t] = @ + 1]
  /\ UNCHANGED <<mode, phase, parallel, sorted, cols, cnt, col, todo, beg, fin,
                 pending, yhat>>

Scattered == phase = "scatter" /\ \A t \in Thread : pos[t] >= Hi(t)

\* Pass 2 follows only in a fiber mode; otherwise the sort returns here.
Pass1Done ==
  IF mode \in DenseClass
  THEN phase' = "rows" /\ todo' = Shards(mode) /\ UNCHANGED sorted
  ELSE phase' = "zero" /\ sorted' = mode /\ UNCHANGED todo

(* Barrier, parallel copy of the scratch column back, barrier; then the    *)
(* next column with the cursors reset.                                     *)
CopyBack ==
  /\ Scattered
  /\ cols' = [cols EXCEPT ![ColumnAt(col)] = scr]
  /\ col' = col + 1
  /\ IF col = N
     THEN Pass1Done /\ UNCHANGED <<off, pos>>
     ELSE /\ off' = Cursors
          /\ pos' = [t \in Thread |-> Lo(t)]
          /\ UNCHANGED <<phase, sorted, todo>>
  /\ UNCHANGED <<mode, parallel, scr, cnt, beg, fin, pending, yhat>>

-----------------------------------------------------------------------------
(* One iteration of the American-flag loop: the nonzero at the front of    *)
(* the lowest unfinished class goes to the front of its own class.         *)
Flagging(t) == {k \in Class : beg[t][k] < fin[t][k]}

Swapped(i, j) ==
  [c \in Column |-> [cols[c] EXCEPT ![i] = cols[c][j], ![j] = cols[c][i]]]

Cycle(t, key(_)) ==
  /\ Flagging(t) # {}
  /\ LET i == beg[t][Min(Flagging(t))]
         k == key(i)
     IN  /\ cols' = Swapped(i, beg[t][k])
         /\ beg' = [beg EXCEPT ![t][k] = @ + 1]
  /\ UNCHANGED <<mode, phase, parallel, sorted, scr, cnt, col, off, pos, todo, fin,
                 pending, yhat>>

SerialCycle == phase = "serial" /\ Cycle(0, ShardAt)

SerialDone ==
  /\ phase = "serial" /\ Flagging(0) = {}
  /\ Pass1Done
  /\ UNCHANGED <<mode, parallel, cols, scr, cnt, col, off, pos, beg, fin, pending, yhat>>

\* Mutant: the last slot of the shard is left out.
ShardSlotsShort(s) ==
  cnt[s] .. (IF s + 1 \in Shards(mode) THEN cnt[s + 1] ELSE nnz) - 2

\* The slots of shard s, as counted.
ShardSlots(s) ==
  cnt[s] .. (IF s + 1 \in Shards(mode) THEN cnt[s + 1] ELSE nnz) - 1

\* Mutant: the loop's iterations are not shared out among the threads.
TakeRowsUnshared(t) ==
  /\ phase = "rows" /\ Flagging(t) = {}
  /\ \E s \in todo :
       IF Cardinality(ShardSlots(s)) =< 1
       THEN UNCHANGED <<beg, fin>>
       ELSE /\ beg' = [beg EXCEPT ![t] = FlagStart(ShardSlots(s), cnt[s], RowAt)]
            /\ fin' = [fin EXCEPT ![t] = FlagEnd(ShardSlots(s), cnt[s], RowAt)]
  /\ UNCHANGED <<mode, phase, parallel, sorted, cols, scr, cnt, col, off, pos, todo,
                 pending, yhat>>

(* Pass 2: a thread takes a shard from the dynamic loop, skips it when it  *)
(* has at most one nonzero, and sorts it by row.                           *)
TakeRows(t) ==
  /\ phase = "rows" /\ Flagging(t) = {}
  /\ \E s \in todo :
       /\ todo' = todo \ {s}
       /\ IF Cardinality(ShardSlots(s)) =< 1
          THEN UNCHANGED <<beg, fin>>
          ELSE /\ beg' = [beg EXCEPT ![t] = FlagStart(ShardSlots(s), cnt[s], RowAt)]
               /\ fin' = [fin EXCEPT ![t] = FlagEnd(ShardSlots(s), cnt[s], RowAt)]
  /\ UNCHANGED <<mode, phase, parallel, sorted, cols, scr, cnt, col, off, pos,
                 pending, yhat>>

RowCycle(t) == phase = "rows" /\ Cycle(t, RowAt)

RowsSorted == phase = "rows" /\ todo = {} /\ \A t \in Thread : Flagging(t) = {}

RowsDone ==
  /\ RowsSorted
  /\ phase' = "zero"
  /\ sorted' = mode
  /\ UNCHANGED <<mode, parallel, sortVars, pending, yhat>>

-----------------------------------------------------------------------------
(* Zero Yhat[mode] and fork the team; no cursor template is copied. *)
Launch ==
  /\ phase = "zero"
  /\ phase' = "kernel"
  /\ yhat' = [yhat EXCEPT ![mode] = [e \in Elem |-> 0]]
  /\ pending' = [t \in Thread |->
       {s \in Shards(mode) : Owner[mode][s] = t /\ ShardRange(mode, s) # {}}]
  /\ UNCHANGED <<mode, parallel, sorted, sortVars>>

\* A nonzero is added as often as a slot of the shard has all its columns.
Read(s, e) == Cardinality({i \in ShardRange(mode, s) : \A c \in Column : cols[c][i] = e})

(* Thread t does the next shard of its list; the kernel's own steps are    *)
(* those of RemapSweep without the scatter.                                *)
ProcessShard(t) ==
  /\ phase = "kernel"
  /\ \E s \in pending[t] :
       /\ \A u \in pending[t] :
            Cardinality(ShardRange(mode, u)) =< Cardinality(ShardRange(mode, s))
       /\ pending' = [pending EXCEPT ![t] = @ \ {s}]
       /\ yhat' = [yhat EXCEPT ![mode] = [e \in Elem |-> @[e] + Read(s, e)]]
  /\ UNCHANGED <<mode, phase, parallel, sorted, sortVars>>

(* The barrier; the slab stays where it is. *)
Join ==
  /\ phase = "kernel" /\ \A t \in Thread : pending[t] = {}
  /\ phase' = "idle"
  /\ mode' = Succ(mode)
  /\ UNCHANGED <<parallel, sorted, sortVars, pending, yhat>>

-----------------------------------------------------------------------------
Begin  == BeginSorted \/ BeginTrivial \/ BeginSerial \/ BeginParallel
Driver == SerialCycle \/ SerialDone \/ CopyBack \/ RowsDone \/ Launch \/ Join
Work(t) == Scatter(t) \/ TakeRows(t) \/ RowCycle(t) \/ ProcessShard(t)

Next == Begin \/ Driver \/ \E t \in Thread : Work(t)

\* The driver and every thread of the team keep running; the caller need not
\* call again.
Fairness == WF_vars(Driver) /\ \A t \in Thread : WF_vars(Work(t))

Spec == Init /\ [][Next]_vars /\ Fairness

-----------------------------------------------------------------------------
(* Atomic-free scatter of a column: the cursor of a nonzero still to be    *)
(* scattered is a slot, and no other thread's or shard's cursor is there.  *)
Left(t, s) == {i \in pos[t] .. Hi(t) - 1 : ShardAt(i) = s}

CursorsDisjoint ==
  \A t, u \in Thread : \A s, v \in Shards(mode) : Left(t, s) # {} =>
    /\ off[t][s] \in Slot
    /\ Left(u, v) # {} /\ <<t, s>> # <<u, v>> => off[t][s] # off[u][v]

(* Whenever the columns are not half way through the parallel pass 1, they *)
(* agree on which nonzero is in which slot, and every nonzero is in one:   *)
(* N + 1 separate column scatters, each through cursors that never meet,   *)
(* or many swaps by several threads, have applied the same permutation.    *)
ColumnsAligned ==
  IF phase = "scatter" THEN CursorsDisjoint
  ELSE /\ cols[ValsColumn] \in Bijection(Slot, Elem)
       /\ \A c \in Column : cols[c] = cols[ValsColumn]

(* Two threads that sort shards by row at the same time swap disjoint      *)
(* slots, and a swap never disturbs a finished class: the front of a       *)
(* nonzero's own class is inside the class and not before the nonzero.     *)
SwapsSafe ==
  phase \in {"serial", "rows"} =>
    LET key(i) == IF phase = "serial" THEN ShardAt(i) ELSE RowAt(i)
    IN  \A t \in Thread : Flagging(t) # {} =>
          LET i == beg[t][Min(Flagging(t))]
          IN  /\ beg[t][key(i)] \in i .. fin[t][key(i)] - 1
              /\ \A u \in Thread \ {t} : \A k \in Flagging(u) :
                   beg[u][k] # i /\ beg[u][k] # beg[t][key(i)]

(* What the kernel relies on: the slab it reads is grouped by the shards   *)
(* of its mode, whichever of the two paths sorted it or the sort was       *)
(* skipped; and a completed pass 2 has the rows of every shard in order.   *)
KernelOrder ==
  /\ phase \in {"zero", "kernel"} => Grouped(cols[mode], mode)
  /\ RowsSorted => \A i, j \in Slot : i < j =>
       Row[mode][cols[mode][i]] =< Row[mode][cols[mode][j]]

(* The InPlace sweep keeps the promise of Mttkrp too: every nonzero is     *)
(* added exactly once per call, and the sort and the call terminate.       *)
Promise == INSTANCE Mttkrp WITH
  turn <- mode,
  busy <- phase # "idle",
  out  <- [n \in Mode |-> IF n = mode /\ phase # "idle"
                          THEN "undefined" ELSE yhat[n]]

ImplementsMttkrp == Promise!Spec
=============================================================================
