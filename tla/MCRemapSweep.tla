---------------------------- MODULE MCRemapSweep ----------------------------
(***************************************************************************)
(* A tensor small enough for TLC, with the schedule the LPT heuristic      *)
(* gives its super-shards.  Mode 0 takes the single-pass fiber sort, mode  *)
(* 1 the two-pass one, mode 2 the element kernel.                          *)
(***************************************************************************)
EXTENDS RemapSweepInv, TLC

MCElem == 1 .. 5

\* Three modes, two threads.  In mode 0 three nonzeros share a row and the
\* higher shard is thread 0's, mode 1 has an empty shard and untouched rows,
\* in mode 2 a thread has two shards.
Row3 == (0 :> <<0, 2, 2, 1, 2>>) @@ (1 :> <<5, 1, 1, 1, 0>>) @@ (2 :> <<1, 2, 0, 0, 1>>)
ModeSize3 == (0 :> 3) @@ (1 :> 6) @@ (2 :> 3)
MN3 == (0 :> 2) @@ (1 :> 2) @@ (2 :> 1)
Owner3 == (0 :> (0 :> 1 @@ 1 :> 0))
       @@ (1 :> (0 :> 0 @@ 1 :> 0 @@ 2 :> 1))
       @@ (2 :> (0 :> 0 @@ 1 :> 1 @@ 2 :> 0))
=============================================================================
