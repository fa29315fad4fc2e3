--------------------------- MODULE FlycooBuildInv ---------------------------
(***************************************************************************)
(* The inductive invariant of FlycooBuild: after each step of build_flycoo,*)
(* what a worker has counted, where its nonzeros go, and which shards the  *)
(* schedule has placed.                                                    *)
(***************************************************************************)
EXTENDS FlycooBuild

\* The steps after swap_buffers.
Swapped == pc \in {"schedule", "hist", "done"}

ShapeInv ==
  /\ \E j \in Jobs : P = j.threads /\ size = j.size /\ row = j.row
  /\ pc \in {"shape", "count", "scatter", "schedule", "hist", "done"}
  /\ pc # "shape" => mn = [n \in Mode |-> PickMN(size[n], P)]
  /\ DOMAIN wcnt = Worker /\ DOMAIN wbits = Worker /\ DOMAIN base = Worker
  /\ DOMAIN pos = Worker /\ DOMAIN whist = Worker

\* The slab in input order: nonzero i + 1 is in slot i.
InputOrder == [d \in Slot |-> d + 1]

-----------------------------------------------------------------------------
\* A worker that has scanned its chunk has counted it.
Counted(w) ==
  /\ wcnt[w] = [n \in Mode |-> [s \in Shards(n) |->
                 Cardinality({i \in Chunk(w) : Shard(n, i + 1) = s})]]
  /\ wbits[w] = [n \in Mode |-> {row[n][i + 1] : i \in Chunk(w)}]

CountInv ==
  /\ pc = "shape" => scanned = {}
  /\ ~ Swapped => vals = InputOrder
  /\ pc \in {"shape", "count"} => scr = [d \in Slot |-> Junk]
  /\ pc = "count" => scanned \subseteq Worker /\ \A w \in scanned : Counted(w)
  /\ pc = "scatter" => \A w \in Worker : Counted(w)

-----------------------------------------------------------------------------
\* The slots whose nonzeros come before slot p of shard s in the stable
\* order by mode-0 shard, and the place of slot i's nonzero in that order.
Lower(s, p) == {j \in Slot : \/ Shard(0, j + 1) < s
                             \/ Shard(0, j + 1) = s /\ j < p}
Target(i)   == Cardinality(Lower(Shard(0, i + 1), i))

\* Every worker's cursors stand at the targets of the nonzeros it has next,
\* and it has filled the targets of those it has passed, and no others.
ScatterInv ==
  pc = "scatter" =>
    /\ scr \in [Slot -> Elem \cup {Junk}]
    /\ \A w \in Worker :
         /\ pos[w] \in ChunkBegin(w) .. ChunkEnd(w)
         /\ base[w] = [s \in Shards(0) |-> Cardinality(Lower(s, pos[w]))]
         /\ \A i \in Chunk(w) : scr[Target(i)] = IF i < pos[w] THEN i + 1 ELSE Junk

\* After the barrier every nonzero is at its target.
PartInv ==
  Swapped => /\ scr = InputOrder
             /\ vals \in [Slot -> Elem \cup {Junk}]
             /\ \A i \in Slot : vals[Target(i)] = i + 1

-----------------------------------------------------------------------------
ReducedInv ==
  Swapped =>
    /\ cnt = [n \in Mode |-> [s \in Shards(n) |-> Cardinality({e \in Elem : Shard(n, e) = s})]]
    /\ touched = [n \in Mode |-> {row[n][e] : e \in Elem}]

\* A shard is on one list, at one place, once it is no longer to do, unless
\* it is empty; what is to do is no larger than what has been placed.
PlacedOnce(n, t, k) ==
  LET s == ss_list[n][t][k]
  IN  /\ s \in Shards(n) \ todo[n] /\ cnt[n][s] > 0
      /\ \A u \in todo[n] : cnt[n][u] =< cnt[n][s]
      /\ \A v \in Thread : \A j \in DOMAIN ss_list[n][v] :
           /\ ss_list[n][v][j] = s => v = t /\ j = k
           /\ v = t /\ j < k => cnt[n][s] =< cnt[n][ss_list[n][v][j]]

ScheduleInv ==
  Swapped =>
    /\ DOMAIN todo = Mode /\ DOMAIN heap = Mode /\ DOMAIN ss_list = Mode
    /\ \A n \in Mode :
         /\ todo[n] \subseteq Shards(n)
         /\ heap[n] \in [Thread -> Nat]
         /\ ss_list[n] \in [Thread -> Seq(Nat)]
         /\ pc # "schedule" => todo[n] = {}
         /\ \A t \in Thread : \A k \in DOMAIN ss_list[n][t] : PlacedOnce(n, t, k)
         /\ \A s \in Shards(n) \ todo[n] : cnt[n][s] > 0 =>
              \E t \in Thread : \E k \in DOMAIN ss_list[n][t] : ss_list[n][t][k] = s

\* The nonzeros of the shards on thread t's list.
Assigned(n, t) ==
  {e \in Elem : \E k \in DOMAIN ss_list[n][t] : ss_list[n][t][k] = Shard(n, e)}

\* A thread's load is what has been assigned to it, and is within Graham's
\* bound of every schedule of all the shards.
Greedy(n) ==
  \A t \in Thread :
    /\ heap[n][t] = Cardinality(Assigned(n, t))
    /\ \A f \in [Loaded(n) -> Thread] :
         3 * P * heap[n][t] =< (4 * P - 1) * Makespan(LoadOf(n, f))

GreedyInv == Swapped => \A n \in Mode : Greedy(n)

-----------------------------------------------------------------------------
Spread(w) ==
  whist[w] = [n \in Mode |-> [t \in Thread |-> [s \in Shards(Succ(n)) |->
    Cardinality({i \in Chunk(w) : /\ tidOf[n][Shard(n, vals[i])] = t
                                  /\ Shard(Succ(n), vals[i]) = s})]]]

PlanInv ==
  /\ pc \in {"hist", "done"} =>
       /\ begin = [n \in Mode |-> [s \in Shards(n) |-> RunningSum(cnt[n], s)]]
       /\ end   = [n \in Mode |-> [s \in Shards(n) |-> RunningSum(cnt[n], s + 1)]]
       /\ tidOf = [n \in Mode |-> [s \in Shards(n) |-> OwnerIn(n, s)]]
       /\ scanned \subseteq Worker
       /\ \A w \in scanned : Spread(w)
  /\ pc = "done" =>
       /\ scanned = Worker
       /\ thrOff = [n \in Mode |-> [t \in Thread |->
                     [s \in Shards(Succ(n)) |-> Cursor(n, t, s)]]]

(* The inductive invariant. *)
BuildInv == /\ ShapeInv /\ CountInv /\ ScatterInv /\ PartInv
            /\ ReducedInv /\ ScheduleInv /\ PlanInv
=============================================================================
