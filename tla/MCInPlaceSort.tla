---------------------------- MODULE MCInPlaceSort ----------------------------
(***************************************************************************)
(* Five nonzeros, four modes, two threads: two fiber modes (one with an    *)
(* empty shard), a mode sorted by shard only, and one with a single shard, *)
(* which the sort returns from at once.                                    *)
(***************************************************************************)
EXTENDS InPlaceSort, TLC

MCElem == 1 .. 5
Row4 == (0 :> <<0, 2, 2, 1, 2>>) @@ (1 :> <<5, 1, 0, 1, 4>>)
     @@ (2 :> <<1, 2, 0, 0, 1>>) @@ (3 :> <<0, 1, 1, 0, 1>>)
ModeSize4 == (0 :> 3) @@ (1 :> 6) @@ (2 :> 3) @@ (3 :> 2)
MN4 == (0 :> 2) @@ (1 :> 2) @@ (2 :> 1) @@ (3 :> 2)
Owner4 == (0 :> (0 :> 1 @@ 1 :> 0)) @@ (1 :> (0 :> 0 @@ 1 :> 0 @@ 2 :> 1))
       @@ (2 :> (0 :> 0 @@ 1 :> 1 @@ 2 :> 0)) @@ (3 :> (0 :> 1))
=============================================================================
