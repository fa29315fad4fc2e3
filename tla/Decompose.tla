------------------------------ MODULE Decompose ------------------------------
(***************************************************************************)
(* main up to cpals() and the call itself: Launch and CpAls composed.      *)
(* CpAls by itself begins with any kernel and any store; here it begins    *)
(* with those that the options, three plans and the loads have led to, and *)
(* main returns when the decomposition is done.  Until the call the        *)
(* variables of CpAls are as its Init has them.                            *)
(***************************************************************************)
EXTENDS Launch, CpAls

ASSUME SameTensor == N = NumModes

decomposeVars == <<launchVars, vars>>

DecomposeInit == LaunchInit /\ Init /\ store = "slab" /\ ~jacobi

\* ooc_enabled and the layout tell cpals where the nonzeros are.
StoreOf == IF ooc THEN "ooc" ELSE IF layout = "Morton" THEN "morton" ELSE "slab"

(* main calls cpals with the kernel of the compute plan. *)
Call ==
  /\ RunCpals
  /\ store' = StoreOf /\ jacobi' = (kernel = "jacobi")
  /\ UNCHANGED <<phase, n, iter, turn, y, yhat, gram, lambda, system, fit, failed>>

InCpals == at = "run" /\ Cpals

\* Every other step of main; it returns from cpals when cpals has.
Main ==
  /\ LaunchNext
  /\ at = "cpals" => at' # "run"
  /\ InCpals => phase = "done"
  /\ UNCHANGED vars

Als == InCpals /\ Next /\ UNCHANGED launchVars

DecomposeNext == Main \/ Call \/ Als

DecomposeSpec == DecomposeInit /\ [][DecomposeNext]_decomposeVars
=============================================================================
