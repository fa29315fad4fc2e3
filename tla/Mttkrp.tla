------------------------------- MODULE Mttkrp -------------------------------
(***************************************************************************)
(* What SpmttkrpSweep promises its caller: process(n), called for n = 0,   *)
(* 1, ..., N-1, 0, ... in turn, leaves in Yhat[n] the sum of the           *)
(* contributions of all nonzeros, each exactly once.  While the call runs  *)
(* Yhat[n] may hold anything; the other outputs keep their value.          *)
(***************************************************************************)
EXTENDS Integers

CONSTANTS N, Elem

VARIABLES
  turn,   \* the mode of the running, or else of the next, process call
  busy,   \* a process call is running
  out     \* out[n]: how often each nonzero has been added into its row of
          \* Yhat[n], or Undefined while process(n) runs

Mode      == 0 .. N - 1
Undefined == "undefined"
Exact     == [e \in Elem |-> 1]

vars == <<turn, busy, out>>

Init == /\ turn = 0
        /\ busy = FALSE
        /\ out = [n \in Mode |-> [e \in Elem |-> 0]]

Call == /\ ~busy
        /\ busy' = TRUE
        /\ out' = [out EXCEPT ![turn] = Undefined]
        /\ UNCHANGED turn

Return == /\ busy
          /\ busy' = FALSE
          /\ out' = [out EXCEPT ![turn] = Exact]
          /\ turn' = (turn + 1) % N

Next == Call \/ Return

Spec == Init /\ [][Next]_vars /\ WF_vars(Return)
=============================================================================
