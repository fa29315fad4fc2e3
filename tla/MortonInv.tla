------------------------------ MODULE MortonInv ------------------------------
(***************************************************************************)
(* The inductive invariant of module Morton: what holds of the plan, the   *)
(* histograms, the partition and the sorted buckets at each step of        *)
(* build_morton_layout, and of the private outputs at each step of the     *)
(* driver.                                                                 *)
(***************************************************************************)
EXTENDS Morton

BuildSteps  == {"soa", "packed", "count", "scatter", "sort", "refused"}
DriverSteps == {"idle", "alloc", "zero", "kernel", "reduce", "crashed"}

TensorInv ==
  /\ \A m \in Modes : size[m] \in Nat \ {0} /\ row[m] \in [Slot -> 0 .. size[m] - 1]
  /\ step \in BuildSteps \cup DriverSteps
  /\ layout = IF step \in BuildSteps THEN "InPlace" ELSE "Morton"
  /\ soa = (step \in BuildSteps)

\* From pass 1 to the end of the sort the arrays are as they were packed.
PackInv ==
  step \in {"packed", "count", "scatter", "sort"} =>
    /\ BitsNeeded(size) <= KeyBits
    /\ mask = BuildPlan(size)
    /\ keys = [i \in Slot |-> PackedKey(mask, i)]
    /\ vals = [i \in Slot |-> i]

\* The bucket of slot i, and the slots the stable partition puts before
\* slot i of bucket b.
BucketAt(i)  == BucketOf(keys[i])
Before(b, i) == {j \in Slot : BucketAt(j) < b \/ (BucketAt(j) = b /\ j < i)}
Target(i)    == Cardinality(Before(BucketAt(i), i))

Histogram(t) ==
  hist[t] = [b \in Bucket |-> Cardinality({i \in Slice(t) : BucketAt(i) = b})]

ArraysInv == DOMAIN hist = Thread /\ DOMAIN tbuf = Slot

CountInv ==
  step = "count" => todo \subseteq Thread /\ \A t \in Thread \ todo : Histogram(t)

BaseInv ==
  step \in {"scatter", "sort"} =>
    base = [b \in 0 .. Buckets |-> Cardinality({i \in Slot : BucketAt(i) < b})]

\* The slots thread t has gone past, at the beginning and in the end.
Positions ==
  \A t \in Thread : pos[t] \in Nat /\ t * Per <= pos[t] /\ (pos[t] <= t * Per \/ pos[t] <= End(t))

\* A thread's cursor of a bucket is the target of its next nonzero of it.
ScatterInv ==
  step = "scatter" =>
    /\ DOMAIN cursor = Thread /\ DOMAIN pos = Thread
    /\ Positions
    /\ \A t \in Thread :
         /\ cursor[t] = [b \in Bucket |-> Cardinality(Before(b, pos[t]))]
         /\ \A i \in Slice(t) : i < pos[t] => tbuf[Target(i)] = [k |-> keys[i], v |-> i]

BucketRange(b) == base[b] .. base[b + 1] - 1

\* tbuf holds each pair once, in the range of its bucket.
SortInv ==
  step = "sort" =>
    /\ todo \subseteq Bucket
    /\ \A i \in Slot : tbuf[i].v \in Slot /\ tbuf[i].k = keys[tbuf[i].v]
    /\ \A i, j \in Slot : tbuf[i].v = tbuf[j].v => i = j
    /\ \A i \in Slot : i \in BucketRange(BucketOf(tbuf[i].k))
    /\ \A b \in Bucket \ todo : \A i, j \in BucketRange(b) : i < j => tbuf[i].k <= tbuf[j].k

\* Thread t's private outputs when it has handled its slots before p.
Added(t, p) ==
  [m \in Modes |-> [r \in 0 .. size[m] - 1 |-> [e \in Slot |->
     IF r = row[m][e] /\ \E i \in Slice(t) : i < p /\ vals[i] = e THEN 1 ELSE 0]]]

ZeroInv == step = "zero" => \A t \in Thread \ todo : ofibs[t] = Zeros

KernelInv ==
  step = "kernel" =>
    DOMAIN pos = Thread /\ Positions /\ \A t \in Thread : ofibs[t] = Added(t, pos[t])

\* An output in which every nonzero is once, in its row.
Exact(m) == [r \in 0 .. size[m] - 1 |-> [e \in Slot |-> IF r = row[m][e] THEN 1 ELSE 0]]

ReduceInv ==
  step = "reduce" =>
    /\ todo \subseteq Modes
    /\ \A t \in Thread : ofibs[t] = Added(t, nnz)
    /\ \A m \in Modes \ todo : Yhat[m] = Exact(m)

OutputsInv ==
  /\ DOMAIN ofibs = Thread
  /\ DOMAIN Yhat = Modes /\ \A m \in Modes : DOMAIN Yhat[m] = 0 .. size[m] - 1

MortonInvariant ==
  /\ TensorInv /\ PackInv /\ ArraysInv /\ CountInv /\ BaseInv /\ ScatterInv /\ SortInv
  /\ ZOrder
  /\ OutputsInv /\ ZeroInv /\ KernelInv /\ ReduceInv

-----------------------------------------------------------------------------
\* The part of ImplementsMttkrpAll that is about single steps.
StepsAllowed == Abstract!Init /\ [][Abstract!Next]_(Abstract!vars)
=============================================================================
