----------------------------- MODULE MCAllModes -----------------------------
(***************************************************************************)
(* A two-mode tensor of five nonzeros whose rows do not fill a 64 B line,  *)
(* in core or read in chunks of three: the last chunk is short, and the    *)
(* four threads are more than it has nonzeros.                             *)
(***************************************************************************)
EXTENDS AllModesInv, TLC

Sizes2 == (0 :> 2) @@ (1 :> 3)
Row2 == (0 :> (0 :> 0 @@ 1 :> 1 @@ 2 :> 0 @@ 3 :> 0 @@ 4 :> 1))
     @@ (1 :> (0 :> 2 @@ 1 :> 1 @@ 2 :> 0 @@ 3 :> 2 @@ 4 :> 2))
=============================================================================
