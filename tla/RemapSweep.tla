----------------------------- MODULE RemapSweep -----------------------------
(***************************************************************************)
(* SpmttkrpSweep::process under the PingPong layout: the optional fiber    *)
(* sort, the zeroing of Yhat[n], and the parallel pass in which thread t   *)
(* walks the super-shards of ss_list[n][t], adds every nonzero into its    *)
(* row of Yhat[n] and scatters it to the scratch slab through a private    *)
(* cursor, with no atomics; the barrier; swap_buffers.                     *)
(***************************************************************************)
EXTENDS Flycoo

CONSTANTS
  Dense,      \* the modes that take the fiber kernel: kernel_class[n] is
              \* DenseFiber and DYN_FIBER_OFF is not set
  TwoPass     \* the modes whose fiber sort is the two-pass one:
              \* DYN_SECONDARY_SORT is set and I[w_sort] is small enough

ASSUME KernelAssumption == Dense \subseteq Mode /\ TwoPass \subseteq Mode

VARIABLES
  mode,       \* n of the running, or else of the next, process(n)
  phase,      \* the step of process the driver is in, "idle" between calls
  vals,       \* the slab T.vals / T.idx_buf point to: the nonzero in a slot
  scr,        \* the slab T.scr_vals / T.scr_idx point to
  unsorted,   \* shards the fiber sort's parallel loop has still to handle
  yhat,       \* yhat[n][e]: how often e is added into its row of Yhat[n]
  off,        \* off[t][s]: thread t's cursor into next-mode shard s (work_off_)
  pending,    \* pending[t]: shards of ss_list[n][t] that t has not begun
  ip,         \* ip[t]: slot of the nonzero t handles next (i)
  ends,       \* ends[t]: end of the shard t is in (e)
  stop,       \* stop[t]: end of the run of slots one row load serves (j)
  at,         \* at[t] = "run" while t holds a row of Yhat[n] in registers
  acc         \* acc[t][e]: the row in t's registers (acc / o)

driverVars == <<mode, phase, unsorted>>
threadVars == <<off, pending, ip, ends, stop, at, acc>>
vars == <<mode, phase, vals, scr, unsorted, yhat,
          off, pending, ip, ends, stop, at, acc>>

Sid   == UNION {Shards(n) : n \in Mode}
Phase == {"idle", "fiber", "lsd", "msd", "zero", "kernel"}

\* w_sort: the input factor the kernel gathers first.
SortMode(n) == IF n = 0 THEN 1 ELSE 0

\* dst after counting_sort_one_shard of src into it over shard s, by row.
SortedInto(dst, src, s, key, from) ==
  /\ StableOrder(from, ShardRange(mode, s), src, Row[key])
  /\ dst' = [d \in Slot |-> IF d \in ShardRange(mode, s)
                            THEN src[from[d]] ELSE dst[d]]

-----------------------------------------------------------------------------
(* The tensor as build_flycoo leaves it: input order in what is now the    *)
(* scratch slab, and its stable partition into mode-0 shards.              *)
Init ==
  /\ mode = 0
  /\ phase = "idle"
  /\ scr \in Bijection(Slot, Elem)
  /\ \E from \in Bijection(Slot, Slot) :
       /\ StableOrder(from, Slot, scr, [e \in Elem |-> Shard(0, e)])
       /\ vals = [d \in Slot |-> scr[from[d]]]
  /\ Grouped(vals, 0)
  /\ unsorted = {}
  /\ yhat = [n \in Mode |-> [e \in Elem |-> 0]]
  /\ off = [t \in Thread |-> [s \in Sid |-> 0]]
  /\ pending = [t \in Thread |-> {}]
  /\ ip = [t \in Thread |-> 0]
  /\ ends = [t \in Thread |-> 0]
  /\ stop = [t \in Thread |-> 0]
  /\ at = [t \in Thread |-> "row"]
  /\ acc = [t \in Thread |-> [e \in Elem |-> 0]]

(* process(mode) is called. *)
Begin ==
  /\ phase = "idle"
  /\ phase' = IF mode \notin Dense THEN "zero"
              ELSE IF mode \in TwoPass THEN "lsd" ELSE "fiber"
  /\ unsorted' = IF mode \in Dense THEN Shards(mode) ELSE {}
  /\ UNCHANGED <<mode, vals, scr, yhat, threadVars>>

-----------------------------------------------------------------------------
(* fiber_sort_shards.  The loop over shards is schedule(dynamic), so they  *)
(* complete in any order; each sort touches only its own slots.            *)
FiberShard(s) ==
  /\ phase = "fiber" /\ s \in unsorted
  /\ \E from \in Bijection(ShardRange(mode, s), ShardRange(mode, s)) :
       SortedInto(scr, vals, s, mode, from)
  /\ unsorted' = unsorted \ {s}
  /\ UNCHANGED <<mode, phase, vals, yhat, threadVars>>

\* The single-pass sort ends with swap_buffers.
FiberDone ==
  /\ phase = "fiber" /\ unsorted = {}
  /\ phase' = "zero"
  /\ vals' = scr /\ scr' = vals
  /\ UNCHANGED <<mode, unsorted, yhat, threadVars>>

\* Mutant: the first pass sorts by the output factor's row.
LsdShardOutput(s) ==
  /\ phase = "lsd" /\ s \in unsorted
  /\ \E from \in Bijection(ShardRange(mode, s), ShardRange(mode, s)) :
       SortedInto(scr, vals, s, mode, from)
  /\ unsorted' = unsorted \ {s}
  /\ UNCHANGED <<mode, phase, vals, yhat, threadVars>>

\* Two passes: by the gathered factor's row into scratch, then by the
\* output row back into the primary slab.  No swap.
LsdShard(s) ==
  /\ phase = "lsd" /\ s \in unsorted
  /\ \E from \in Bijection(ShardRange(mode, s), ShardRange(mode, s)) :
       SortedInto(scr, vals, s, SortMode(mode), from)
  /\ unsorted' = unsorted \ {s}
  /\ UNCHANGED <<mode, phase, vals, yhat, threadVars>>

LsdDone ==
  /\ phase = "lsd" /\ unsorted = {}
  /\ phase' = "msd"
  /\ unsorted' = Shards(mode)
  /\ UNCHANGED <<mode, vals, scr, yhat, threadVars>>

MsdShard(s) ==
  /\ phase = "msd" /\ s \in unsorted
  /\ \E from \in Bijection(ShardRange(mode, s), ShardRange(mode, s)) :
       SortedInto(vals, scr, s, mode, from)
  /\ unsorted' = unsorted \ {s}
  /\ UNCHANGED <<mode, phase, scr, yhat, threadVars>>

MsdDone ==
  /\ phase = "msd" /\ unsorted = {}
  /\ phase' = "zero"
  /\ UNCHANGED <<mode, vals, scr, unsorted, yhat, threadVars>>

-----------------------------------------------------------------------------
(* zero_output_mode: all rows when at least three quarters of them are     *)
(* touched, only the touched ones otherwise.                               *)
Touched(n) == {Row[n][e] : e \in Elem}

ZeroedRows(n) ==
  IF Cardinality(Touched(n)) * 4 >= ModeSize[n] * 3
  THEN 0 .. ModeSize[n] - 1
  ELSE Touched(n)

Zeroed == [yhat EXCEPT ![mode] =
  [e \in Elem |-> IF Row[mode][e] \in ZeroedRows(mode) THEN 0 ELSE yhat[mode][e]]]

CursorTemplate == [t \in Thread |-> [s \in Sid |-> ThrOff(mode, t, s)]]

\* ss_list[mode][t]: an empty shard is on no thread's list.
ThreadShards(t) ==
  {s \in Shards(mode) : Owner[mode][s] = t /\ ShardRange(mode, s) # {}}

\* Mutants: Yhat is not zeroed; the cursors keep the last call's value; a
\* thread's share ends one list too late.
LaunchNoZero ==
  /\ phase = "zero"
  /\ phase' = "kernel"
  /\ off' = CursorTemplate
  /\ pending' = [t \in Thread |-> ThreadShards(t)]
  /\ UNCHANGED <<mode, vals, scr, unsorted, yhat, ip, ends, stop, at, acc>>

LaunchStaleCursors ==
  /\ phase = "zero"
  /\ phase' = "kernel"
  /\ yhat' = Zeroed
  /\ pending' = [t \in Thread |-> ThreadShards(t)]
  /\ UNCHANGED <<mode, vals, scr, unsorted, off, ip, ends, stop, at, acc>>

LaunchSharedList ==
  /\ phase = "zero"
  /\ phase' = "kernel"
  /\ yhat' = Zeroed
  /\ off' = CursorTemplate
  /\ pending' = [t \in Thread |-> ThreadShards(t) \cup ThreadShards(t + 1)]
  /\ UNCHANGED <<mode, vals, scr, unsorted, ip, ends, stop, at, acc>>

(* Zero Yhat[mode], copy the cursor template, and fork the team. *)
Launch ==
  /\ phase = "zero"
  /\ phase' = "kernel"
  /\ yhat' = Zeroed
  /\ off' = CursorTemplate
  /\ pending' = [t \in Thread |-> ThreadShards(t)]
  /\ UNCHANGED <<mode, vals, scr, unsorted, ip, ends, stop, at, acc>>

-----------------------------------------------------------------------------
(* The parallel pass of thread t. *)

\* The thread's list has its shards in decreasing size; std::sort leaves the
\* order of equal ones open.
Largest(s, S) ==
  \A u \in S : Cardinality(ShardRange(mode, u)) =< Cardinality(ShardRange(mode, s))

TakeShard(t) ==
  /\ phase = "kernel" /\ at[t] = "row" /\ ip[t] = ends[t]
  /\ \E s \in pending[t] :
       /\ Largest(s, pending[t])
       /\ pending' = [pending EXCEPT ![t] = @ \ {s}]
       /\ ip' = [ip EXCEPT ![t] = ShardBegin(mode, s)]
       /\ ends' = [ends EXCEPT ![t] = ShardEnd(mode, s)]
  /\ UNCHANGED <<driverVars, vals, scr, yhat, off, stop, at, acc>>

OutRow(t) == Row[mode][vals[ip[t]]]

(* The fiber kernel loads a row of Yhat once for the whole run of slots    *)
(* that share it, the element kernel once per nonzero.                     *)
RunEnd(t, j) ==
  /\ j \in ip[t] + 1 .. ends[t]
  /\ IF mode \in Dense
     THEN /\ \A k \in ip[t] .. j - 1 : Row[mode][vals[k]] = OutRow(t)
          /\ j < ends[t] => Row[mode][vals[j]] # OutRow(t)
     ELSE j = ip[t] + 1

\* Mutant: the registers start at zero instead of the row's value.
LoadRowFresh(t) ==
  /\ phase = "kernel" /\ at[t] = "row" /\ ip[t] < ends[t]
  /\ \E j \in ip[t] + 1 .. ends[t] :
       RunEnd(t, j) /\ stop' = [stop EXCEPT ![t] = j]
  /\ acc' = [acc EXCEPT ![t] = [e \in Elem |-> 0]]
  /\ at' = [at EXCEPT ![t] = "run"]
  /\ UNCHANGED <<driverVars, vals, scr, yhat, off, pending, ip, ends>>

LoadRow(t) ==
  /\ phase = "kernel" /\ at[t] = "row" /\ ip[t] < ends[t]
  /\ \E j \in ip[t] + 1 .. ends[t] :
       RunEnd(t, j) /\ stop' = [stop EXCEPT ![t] = j]
  /\ acc' = [acc EXCEPT ![t] =
       [e \in Elem |-> IF Row[mode][e] = OutRow(t) THEN yhat[mode][e] ELSE 0]]
  /\ at' = [at EXCEPT ![t] = "run"]
  /\ UNCHANGED <<driverVars, vals, scr, yhat, off, pending, ip, ends>>

(* One nonzero: add it to the row in registers and scatter it through the  *)
(* cursor of the shard it has in the next mode.  The element kernel stores *)
(* the row before it scatters; no other thread can tell the two orders     *)
(* apart, since neither the row nor the slot is another thread's.          *)
Accumulate(t) ==
  /\ phase = "kernel" /\ at[t] = "run" /\ ip[t] < stop[t]
  /\ LET e == vals[ip[t]]
         s == Shard(Succ(mode), e)
     IN  /\ acc' = [acc EXCEPT ![t][e] = @ + 1]
         /\ scr' = [scr EXCEPT ![off[t][s]] = e]
         /\ off' = [off EXCEPT ![t][s] = @ + 1]
  /\ ip' = [ip EXCEPT ![t] = @ + 1]
  /\ UNCHANGED <<driverVars, vals, yhat, pending, ends, stop, at>>

(* Write the row back, whatever another thread did to it meanwhile. *)
StoreRow(t) ==
  /\ phase = "kernel" /\ at[t] = "run" /\ ip[t] = stop[t]
  /\ LET r == Row[mode][vals[ip[t] - 1]]
     IN  yhat' = [yhat EXCEPT ![mode] =
           [e \in Elem |-> IF Row[mode][e] = r THEN acc[t][e] ELSE yhat[mode][e]]]
  /\ at' = [at EXCEPT ![t] = "row"]
  /\ UNCHANGED <<driverVars, vals, scr, off, pending, ip, ends, stop, acc>>

Finished(t) == at[t] = "row" /\ ip[t] = ends[t] /\ pending[t] = {}

(* The implicit barrier at the end of the region, then swap_buffers. *)
Join ==
  /\ phase = "kernel" /\ \A t \in Thread : Finished(t)
  /\ phase' = "idle"
  /\ vals' = scr /\ scr' = vals
  /\ mode' = Succ(mode)
  /\ UNCHANGED <<unsorted, yhat, threadVars>>

-----------------------------------------------------------------------------
Sort   == \E s \in unsorted : FiberShard(s) \/ LsdShard(s) \/ MsdShard(s)
Kernel(t) == TakeShard(t) \/ LoadRow(t) \/ Accumulate(t) \/ StoreRow(t)
Driver == FiberDone \/ LsdDone \/ MsdDone \/ Launch \/ Join

Next == Begin \/ Sort \/ Driver \/ \E t \in Thread : Kernel(t)

\* Every thread of the team and the driver keep running; nothing obliges
\* the caller to call process again.
Fairness ==
  /\ WF_vars(Sort)
  /\ WF_vars(Driver)
  /\ \A t \in Thread : WF_vars(Kernel(t))

Spec == Init /\ [][Next]_vars /\ Fairness

-----------------------------------------------------------------------------
(* The state has the shape the code gives it. *)
TypeOK ==
  /\ mode \in Mode
  /\ phase \in Phase
  /\ vals \in [Slot -> Elem]
  /\ scr \in [Slot -> Elem]
  /\ unsorted \subseteq Shards(mode)
  /\ yhat \in [Mode -> [Elem -> Nat]]
  /\ off \in [Thread -> [Sid -> Nat]]
  /\ pending \in [Thread -> SUBSET Shards(mode)]
  /\ ip \in [Thread -> Nat]
  /\ ends \in [Thread -> Nat]
  /\ stop \in [Thread -> Nat]
  /\ at \in [Thread -> {"row", "run"}]
  /\ acc \in [Thread -> [Elem -> Nat]]

(* Remap protocol: whenever a call begins and while its kernel runs, the   *)
(* primary slab holds every nonzero once, grouped by the shards of the     *)
(* call's mode, although P threads wrote it without synchronisation during *)
(* the call before.  (Between the two passes of the two-pass fiber sort    *)
(* the scratch slab does.)                                                 *)
SlabGrouped == phase # "msd" => Grouped(vals, mode)

(* At the barrier the scattered slab is complete: stale nonzeros of the    *)
(* earlier pass are all overwritten and none is lost, so swap_buffers      *)
(* publishes the tensor grouped for the next mode.                         *)
ScatterComplete ==
  phase = "kernel" /\ (\A t \in Thread : Finished(t)) => Grouped(scr, Succ(mode))

(* Atomic-free scatter: a cursor that still has a nonzero to place points  *)
(* to a slot of the slab, and no two threads' cursors to the same one.     *)
Unplaced(t, s) == {e \in Group(mode, t, s) :
  \E k \in Slot : vals[k] = e /\ \/ k \in ip[t] .. ends[t] - 1
                                 \/ \E u \in pending[t] : k \in ShardRange(mode, u)}

NoSlotRace ==
  phase = "kernel" =>
    \A t, u \in Thread : \A s, v \in Shards(Succ(mode)) :
      Unplaced(t, s) # {} =>
        /\ off[t][s] \in Slot
        /\ Unplaced(u, v) # {} /\ <<t, s>> # <<u, v>> => off[t][s] # off[u][v]

(* Atomic-free accumulation: no two threads hold the same row of Yhat in   *)
(* registers, and none writes back a row another has changed since.        *)
RowExclusive ==
  \A t, u \in Thread : t # u /\ at[t] = "run" /\ at[u] = "run" =>
    Row[mode][vals[stop[t] - 1]] # Row[mode][vals[stop[u] - 1]]

(* The fiber kernel's one load per fiber: in a mode that takes it all      *)
(* nonzeros of a row are next to each other in the slab, and under the     *)
(* two-pass sort they are ordered by the row of the gathered factor.       *)
FiberOrder ==
  phase = "kernel" /\ mode \in Dense =>
    \A c, d \in Slot : c < d /\ Row[mode][vals[c]] = Row[mode][vals[d]] =>
      /\ \A k \in c .. d : Row[mode][vals[k]] = Row[mode][vals[c]]
      /\ mode \in TwoPass =>
           Row[SortMode(mode)][vals[c]] =< Row[SortMode(mode)][vals[d]]

(* The concurrent sweep implements the sequential promise of Mttkrp: when  *)
(* process(n) returns, every nonzero is in Yhat[n] exactly once, and the   *)
(* call returns if the threads keep running.                               *)
Promise == INSTANCE Mttkrp WITH
  turn <- mode,
  busy <- phase # "idle",
  out  <- [n \in Mode |-> IF n = mode /\ phase # "idle"
                          THEN "undefined" ELSE yhat[n]]

ImplementsMttkrp == Promise!Spec
=============================================================================
