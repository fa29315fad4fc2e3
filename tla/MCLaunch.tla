------------------------------ MODULE MCLaunch ------------------------------
(***************************************************************************)
(* Every command line of the options the launch looks at, on a machine     *)
(* where each layout fits at some moment and none at another.              *)
(***************************************************************************)
EXTENDS Decompose, TLC

Cli(layouts, oocs, cpals, kernels, flags) ==
  [layout : layouts, ooc : oocs, decompose : cpals, kernel : kernels,
   verify : flags, allModes : flags, compact : {"auto", "on"},
   runtime : {FALSE}, dnb : BOOLEAN, rank : {1, 4}]

AnyLayout == {"auto", "NCopy", "PingPong", "InPlace", "OutOfCore", "Morton"}

MCOptions ==
  Cli(AnyLayout, {"auto", "on", "off"}, {TRUE}, {"auto", "gs", "jacobi"}, {FALSE})
    \cup {o \in Cli(AnyLayout, {"auto", "on", "off"}, {FALSE}, {"auto"}, BOOLEAN) : o.rank = 1}
    \cup {[o EXCEPT !.runtime = TRUE] :
            o \in Cli({"auto", "NCopy"}, {"auto", "on"}, BOOLEAN, {"auto", "gs"}, BOOLEAN)}

MCEnvironments == [layout : {"auto", "PingPong", "OutOfCore"}, ooc : {"auto", "on"}]

MCTensors == {[dense |-> d, tiny |-> t] : d \in {"none", "raw"}, t \in {FALSE}}
               \cup {[dense |-> "some", tiny |-> TRUE]}

\* What the rest of a run depends on.  Once the decomposition has begun it
\* does not depend on how main came to call it, and the variables of main the
\* invariants speak of do not change.
MCView == IF phase = "start" THEN <<decomposeVars>> ELSE <<at, rc, vars>>
=============================================================================
