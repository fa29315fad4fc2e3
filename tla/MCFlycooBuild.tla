--------------------------- MODULE MCFlycooBuild ---------------------------
(***************************************************************************)
(* Calls of build_flycoo: every tensor of a small shape, tensors with a    *)
(* load that LPT does not balance perfectly, and every mode size and       *)
(* number of threads that a narrow idx_t allows.                           *)
(***************************************************************************)
EXTENDS FlycooBuildInv, TLC

CONSTANTS
  MaxSize,    \* largest mode: Pow2[Bits] - kMaxRows, above which the sum in
              \* shards_per_mode wraps
  MaxThreads

Job(p, i, j, r, c) ==
  [threads |-> p, size |-> (0 :> i) @@ (1 :> j), row |-> (0 :> r) @@ (1 :> c)]

\* Every tensor with three nonzeros in 3 x 4 (repeated coordinates too).
SmallJobs == {Job(2, 3, 4, r, c) : r \in [1 .. 3 -> {0, 1, 2}], c \in [1 .. 3 -> {0, 2, 3}]}

\* Twelve nonzeros whose mode-0 shards hold 3, 3, 2, 2, 2 of them: for two
\* threads LPT's load is 7, the best is 6.
WideRow   == <<0, 2, 4, 6, 8, 1, 3, 5, 7, 9, 0, 3>>
WideJobs  == {Job(p, 10, 8, WideRow, <<7, 0, 1, 5, 4, 0, 0, 4, 1, 0, 7, 6>>) : p \in 1 .. 4}

\* The first and the last row of modes of every size.
ShapeJobs == {Job(p, i, MaxSize + 1 - i, <<0, i - 1>>, <<MaxSize - i, 0>>) :
                p \in 1 .. MaxThreads, i \in 1 .. MaxSize}

AllJobs == SmallJobs \cup WideJobs \cup ShapeJobs

\* The instance meets the hypothesis of the theorems about the tables.
ASSUME JobsDoNotWrap == NoWrap
=============================================================================
