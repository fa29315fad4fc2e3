----------------------------- MODULE MCJitCache -----------------------------
(***************************************************************************)
(* Two processes, one with two threads, and two kernels.                   *)
(***************************************************************************)
EXTENDS JitCache, TLC

CONSTANTS k1, k2, c1, c2, c3

MCProcOf == c1 :> "a" @@ c2 :> "a" @@ c3 :> "b"
MCAsks   == c1 :> {k1, k2} @@ c2 :> {k1} @@ c3 :> {k1}
MCStem   == k1 :> "n3" @@ k2 :> "n4"
=============================================================================
