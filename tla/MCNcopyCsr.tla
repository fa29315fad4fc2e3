----------------------------- MODULE MCNcopyCsr -----------------------------
(***************************************************************************)
(* A tensor small enough for TLC.  Modes 0 and 1 are dense: mode 0 has a   *)
(* row of three nonzeros and a shard cut off by the end of the mode, mode  *)
(* 1 an empty shard between two others and rows without nonzeros.          *)
(***************************************************************************)
EXTENDS NcopyCsr, TLC

MCElem == 1 .. 5

Row3 == (0 :> <<0, 2, 2, 1, 2>>) @@ (1 :> <<5, 1, 1, 1, 0>>) @@ (2 :> <<1, 2, 0, 0, 1>>)
ModeSize3 == (0 :> 3) @@ (1 :> 6) @@ (2 :> 3)
MN3 == (0 :> 2) @@ (1 :> 2) @@ (2 :> 1)
Owner3 == (0 :> (0 :> 1 @@ 1 :> 0))
       @@ (1 :> (0 :> 0 @@ 1 :> 0 @@ 2 :> 1))
       @@ (2 :> (0 :> 0 @@ 1 :> 1 @@ 2 :> 0))
=============================================================================
