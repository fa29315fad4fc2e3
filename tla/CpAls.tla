-------------------------------- MODULE CpAls --------------------------------
(***************************************************************************)
(* cpals(): the alternating least squares loop over the modes.  A matrix   *)
(* is represented by where its content comes from: which update of which   *)
(* factor, scaled or not.  MTTKRP is what modules Mttkrp and MttkrpAll     *)
(* promise: a process(n) call leaves Yhat[n] computed from the factors as  *)
(* they are, a one-pass call leaves every Yhat so or, out of core, fails   *)
(* and leaves them as they were.  The arithmetic itself is left out.       *)
(***************************************************************************)
EXTENDS Integers

CONSTANTS
  N,          \* num_modes
  MaxIters,   \* opt.max_iters
  Kernels,    \* the values of opt.kernel considered: "gs", "jacobi"
  Stores      \* how the tensor is kept: "slab", "morton", "ooc"

ASSUME CpAlsAssumption ==
  /\ N \in Nat \ {0, 1} /\ MaxIters \in Nat \ {0}
  /\ Kernels \subseteq {"gs", "jacobi"}
  /\ Stores \subseteq {"slab", "morton", "ooc"}

Mode == 0 .. N - 1

VARIABLES
  store,      \* ooc_enabled, layout: where MTTKRP finds the nonzeros
  jacobi,     \* use_jacobi
  phase,      \* the step of the iteration the loop is in
  n,          \* the mode being updated
  iter,       \* iterations begun and completed before this one
  turn,       \* the mode the slab is arranged for (SpmttkrpSweep)
  y,          \* y[m]: content of F.Y[m]
  yhat,       \* yhat[m][k]: the Y[k] that Yhat[m] has been computed from
  gram,       \* gram[m]: the Y[m] that G[m] has been computed from
  lambda,     \* the Y[n] whose column norms lambda holds
  system,     \* the last solve: its mode, its Yhat and the Grams in V
  fit,        \* what the last fit has been computed from
  failed      \* an out-of-core pass of this iteration has failed

vars == <<store, jacobi, phase, n, iter, turn, y, yhat, gram, lambda, system,
          fit, failed>>

Phase   == {"start", "pass", "mttkrp", "solve", "scale", "gram", "fit", "done"}
Content == [update : Nat, scaled : BOOLEAN]
None    == "none"
Sources == [Mode -> Content]

\* Yhat as allocate leaves it, and after a process(n) call on the wrong slab.
Cleared == [m \in Mode |-> [update |-> -1, scaled |-> FALSE]]
Garbage == [m \in Mode |-> [update |-> -2, scaled |-> FALSE]]

(* The random factors, their Gram matrices, Yhat cleared by allocate.      *)
Init ==
  /\ store \in Stores
  /\ jacobi \in {k = "jacobi" : k \in Kernels}
  /\ phase = "start" /\ n = 0 /\ iter = 0 /\ turn = 0
  /\ y = [m \in Mode |-> [update |-> 0, scaled |-> FALSE]]
  /\ yhat = [m \in Mode |-> Cleared]
  /\ gram = y
  /\ lambda = None /\ system = None /\ fit = None
  /\ failed = FALSE

(* Backend selection: an out-of-core or a Morton tensor has no per-mode    *)
(* driver and is promoted to Jacobi.                                       *)
Start ==
  /\ phase = "start"
  /\ jacobi' = (jacobi \/ store # "slab")
  /\ phase' = IF jacobi' THEN "pass" ELSE "mttkrp"
  /\ UNCHANGED <<store, n, iter, turn, y, yhat, gram, lambda, system, fit, failed>>

(* Jacobi: one pass over the tensor computes every Yhat. *)
Pass ==
  /\ phase = "pass"
  /\ yhat' = [m \in Mode |-> y]
  /\ phase' = "solve"
  /\ UNCHANGED <<store, jacobi, n, iter, turn, y, gram, lambda, system, fit, failed>>

\* Mutant: a pass gives up after the reduction of the first output.
PassFailsHalfway ==
  /\ phase = "pass" /\ store = "ooc"
  /\ yhat' = [yhat EXCEPT ![0] = y]
  /\ failed' = TRUE
  /\ phase' = "solve"
  /\ UNCHANGED <<store, jacobi, n, iter, turn, y, gram, lambda, system, fit>>

(* The out-of-core driver fails and returns 0.0, which is added to the     *)
(* MTTKRP time; the iteration goes on with the Yhat there is.              *)
PassFails ==
  /\ phase = "pass" /\ store = "ooc"
  /\ failed' = TRUE
  /\ phase' = "solve"
  /\ UNCHANGED <<store, jacobi, n, iter, turn, y, yhat, gram, lambda, system, fit>>

(* Gauss-Seidel: process(n).  It is exact on a slab arranged for mode n.   *)
Process ==
  /\ phase = "mttkrp"
  /\ yhat' = [yhat EXCEPT ![n] = IF store = "slab" /\ turn = n THEN y ELSE Garbage]
  /\ turn' = (n + 1) % N
  /\ phase' = "solve"
  /\ UNCHANGED <<store, jacobi, n, iter, y, gram, lambda, system, fit, failed>>

(* V_n is the Hadamard product of the other modes' Grams; Y[n] becomes     *)
(* Yhat[n] V_n^-1.                                                         *)
Solve ==
  /\ phase = "solve"
  /\ system' = [mode |-> n, yhat |-> yhat[n], v |-> gram]
  /\ y' = [y EXCEPT ![n] = [update |-> iter + 1, scaled |-> FALSE]]
  /\ phase' = "scale"
  /\ UNCHANGED <<store, jacobi, n, iter, turn, yhat, gram, lambda, fit, failed>>

(* col_norms into lambda, col_scale_inv. *)
Scale ==
  /\ phase = "scale"
  /\ lambda' = [mode |-> n, of |-> y[n].update]
  /\ y' = [y EXCEPT ![n].scaled = TRUE]
  /\ phase' = "gram"
  /\ UNCHANGED <<store, jacobi, n, iter, turn, yhat, gram, system, fit, failed>>

\* The next mode of the pass, or the fit.
NextMode ==
  IF n + 1 < N
  THEN n' = n + 1 /\ phase' = IF jacobi THEN "solve" ELSE "mttkrp"
  ELSE n' = n /\ phase' = "fit"

\* Mutant: the last mode's Gram matrix is not refreshed, as no later mode of
\* this pass needs it.
RefreshNotLast ==
  /\ phase = "gram"
  /\ gram' = IF n + 1 < N THEN [gram EXCEPT ![n] = y[n]] ELSE gram
  /\ NextMode
  /\ UNCHANGED <<store, jacobi, iter, turn, y, yhat, lambda, system, fit, failed>>

\* Mutant: the Gram matrix is taken before the columns are scaled.
RefreshUnscaled ==
  /\ phase = "gram"
  /\ gram' = [gram EXCEPT ![n] = [y[n] EXCEPT !.scaled = FALSE]]
  /\ NextMode
  /\ UNCHANGED <<store, jacobi, iter, turn, y, yhat, lambda, system, fit, failed>>

(* G[n] = Y[n]^T Y[n]. *)
Refresh ==
  /\ phase = "gram"
  /\ gram' = [gram EXCEPT ![n] = y[n]]
  /\ NextMode
  /\ UNCHANGED <<store, jacobi, iter, turn, y, yhat, lambda, system, fit, failed>>

(* The fit from the last mode's Yhat, lambda and the Grams; convergence is *)
(* tested from the second iteration on.                                    *)
Fit ==
  /\ phase = "fit"
  /\ fit' = [yhat |-> yhat[N - 1], gram |-> gram, lambda |-> lambda, y |-> y]
  /\ iter' = iter + 1
  /\ \E converged \in BOOLEAN :
       /\ converged => iter > 0
       /\ phase' = IF iter' = MaxIters \/ converged THEN "done"
                   ELSE IF jacobi THEN "pass" ELSE "mttkrp"
  /\ n' = 0
  /\ failed' = FALSE
  /\ UNCHANGED <<store, jacobi, turn, y, yhat, gram, lambda, system>>

Next == \/ Start \/ Pass \/ PassFails \/ Process
        \/ Solve \/ Scale \/ Refresh \/ Fit

Spec == Init /\ [][Next]_vars

-----------------------------------------------------------------------------
(* The normal equations Y[n] V_n = Yhat[n] that are solved: V_n is of the  *)
(* other factors as they are now, under Jacobi too, where some of them are *)
(* already those of this iteration; and under Gauss-Seidel Yhat[n] is of   *)
(* the same factors, so that the equations are those of one least squares  *)
(* problem.                                                                *)
SystemConsistent ==
  phase = "scale" => \A m \in Mode \ {n} :
                       /\ system.v[m] = y[m]
                       /\ ~jacobi => system.yhat[m] = system.v[m]

(* The fit that decides on convergence is that of the model returned: the  *)
(* model norm and lambda belong to the current, scaled factors, whichever  *)
(* the kernel and whatever failed, and under Gauss-Seidel so does the      *)
(* inner product.                                                          *)
FitOfModel ==
  iter > 0 /\ phase \in {"mttkrp", "pass", "done"} /\ n = 0 =>
    /\ fit.gram = y
    /\ fit.lambda = [mode |-> N - 1, of |-> y[N - 1].update]
    /\ \A m \in Mode : y[m].scaled
    /\ ~jacobi => \A m \in Mode \ {N - 1} : fit.yhat[m] = y[m]

(* Jacobi: all the Yhat of an iteration come from one pass over the        *)
(* tensor, also when the last pass failed; and unless it failed, from the  *)
(* factors the iteration began with, those updated since included.         *)
OnePass ==
  jacobi /\ phase \in {"solve", "scale", "gram", "fit"} =>
    \A m \in Mode :
      /\ yhat[m] = yhat[0]
      /\ ~failed => yhat[m] = [k \in Mode |-> [update |-> iter, scaled |-> iter > 0]]
=============================================================================
