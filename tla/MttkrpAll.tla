------------------------------ MODULE MttkrpAll ------------------------------
(***************************************************************************)
(* What a one-pass driver (spmttkrp_all_modes_dynasor, its out-of-core     *)
(* twin) promises CP-ALS: a call that succeeds leaves every Yhat[n] the    *)
(* sum of all contributions, each exactly once; a call that fails has not  *)
(* written to any Yhat[n].  Between Commit and Return all the outputs may  *)
(* hold anything.                                                          *)
(***************************************************************************)
EXTENDS Integers

CONSTANTS N, Elem

VARIABLES
  stage,    \* "idle", "running" (outputs still as they were), "writing"
  result,   \* how the last call ended
  out       \* out[n]: how often each nonzero has been added into its row of
            \* Yhat[n], or Undefined while the outputs are being written

Mode      == 0 .. N - 1
Undefined == "undefined"
Exact     == [e \in Elem |-> 1]

vars == <<stage, result, out>>

Init == /\ stage = "idle"
        /\ result = "none"
        /\ out = [n \in Mode |-> [e \in Elem |-> 0]]

Call == /\ stage = "idle"
        /\ stage' = "running"
        /\ UNCHANGED <<result, out>>

Commit == /\ stage = "running"
          /\ stage' = "writing"
          /\ out' = [n \in Mode |-> Undefined]
          /\ UNCHANGED result

Return == /\ stage = "writing"
          /\ stage' = "idle"
          /\ result' = "ok"
          /\ out' = [n \in Mode |-> Exact]

Fail == /\ stage = "running"
        /\ stage' = "idle"
        /\ result' = "failed"
        /\ UNCHANGED out

Next == Call \/ Commit \/ Return \/ Fail

\* A call comes to an end.
Spec == Init /\ [][Next]_vars /\ WF_vars(Commit \/ Return \/ Fail)
=============================================================================
