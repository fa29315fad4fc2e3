------------------------ MODULE CpAlsMortonJitProofs ------------------------
(***************************************************************************)
(* Three components the decomposition calls or is called by.               *)
(*   cpals, for every number of modes and iterations: the two sides of     *)
(* each solve, and of each fit, belong to the same factors.  The inductive *)
(* invariant says of every matrix, at every step of an iteration, which    *)
(* update it holds or was computed from.                                   *)
(*   The JIT, for any number of processes, threads, kernels and deaths: a  *)
(* process calls the compiler at most once for a kernel, its statistics    *)
(* add up, and it never hands out a kernel that was not asked for.         *)
(*   The Morton layout, for every tensor, team and key width: the bits of  *)
(* a key are dealt to the modes once, so that a row can be read back; the  *)
(* radix scatter puts every nonzero in a slot of its own, in its bucket,   *)
(* and the sorted buckets are in the order of the keys; a call of the      *)
(* driver adds every nonzero once to every output.                         *)
(***************************************************************************)
EXTENDS CpAls, JitCache, MortonInv, FiniteSetTheorems, WellFoundedInduction, TLAPS

-----------------------------------------------------------------------------
(* The decomposition. *)

\* A factor before and after its update in this iteration.
Old == [update |-> iter, scaled |-> iter > 0]
New == [update |-> iter + 1, scaled |-> TRUE]

TypeInv ==
  /\ store \in {"slab", "morton", "ooc"} /\ jacobi \in BOOLEAN /\ failed \in BOOLEAN
  /\ phase \in Phase /\ n \in Mode /\ iter \in Nat /\ turn \in Mode
  /\ y \in Sources /\ gram \in Sources
  /\ yhat \in [Mode -> [Mode -> [update : Int, scaled : BOOLEAN]]]

\* Where the loop can be, and with which backend.
LoopInv ==
  /\ phase \in {"start", "pass", "done"} => n = 0
  /\ phase = "start" => iter = 0
  /\ phase = "fit" => n = N - 1
  /\ phase = "pass" => jacobi
  /\ phase = "mttkrp" => ~jacobi
  /\ phase # "start" /\ ~jacobi => store = "slab"

\* Modes before n have been updated, those behind it have not.
FactorInv ==
  /\ \A m \in Mode : m # n => y[m] = IF m < n THEN New ELSE Old
  /\ y[n] = CASE phase = "scale" -> [update |-> iter + 1, scaled |-> FALSE]
              [] phase \in {"gram", "fit"} -> New
              [] OTHER -> Old

\* Every Gram matrix is of its factor, but for the one being updated.
GramInv == \A m \in Mode : m # n \/ phase \notin {"scale", "gram"} => gram[m] = y[m]

\* Gauss-Seidel: the slab is arranged for the mode that comes next.
TurnInv ==
  ~jacobi \/ phase = "start" =>
    /\ phase \in {"start", "mttkrp"} => turn = n
    /\ phase \in {"solve", "scale", "gram", "fit"} => turn = (n + 1) % N

\* Gauss-Seidel: Yhat[n] is of the other factors as they are.
YhatInv ==
  ~jacobi /\ phase \in {"solve", "scale", "gram", "fit"} =>
    \A m \in Mode : m # n => yhat[n][m] = y[m]

LambdaInv ==
  phase \in {"gram", "fit"} => lambda = [mode |-> n, of |-> iter + 1]

\* Jacobi: all of Yhat is of one pass, be it one before a failure.
PassInv == jacobi \/ phase = "start" => \A m \in Mode : yhat[m] = yhat[0]

IInv ==
  /\ TypeInv /\ LoopInv /\ FactorInv /\ GramInv /\ TurnInv /\ YhatInv /\ LambdaInv
  /\ PassInv /\ SystemConsistent /\ FitOfModel /\ OnePass

-----------------------------------------------------------------------------
LEMMA ModeFacts ==
  /\ N \in Nat /\ N > 1 /\ 0 \in Mode /\ N - 1 \in Mode
  /\ \A m \in Mode : m \in Nat /\ m < N
  /\ \A m \in Mode : m + 1 < N => m + 1 \in Mode /\ (m + 1) % N = m + 1
  /\ \A m \in Mode : ~(m + 1 < N) => m = N - 1 /\ (m + 1) % N = 0
<1>1. N \in Nat /\ N > 1
  BY CpAlsAssumption
<1> QED
  BY <1>1 DEF Mode

LEMMA UpTo ==
  ASSUME NEW a \in Nat, NEW b \in Nat
  PROVE  /\ a < b + 1 => a = b \/ (a # b /\ a < b)
         /\ a >= b + 1 => a # b /\ ~(a < b)
OBVIOUS

LEMMA SetScaled ==
  ASSUME NEW k \in Nat, NEW r, r = [update |-> k, scaled |-> FALSE]
  PROVE  [r EXCEPT !.scaled = TRUE] = [update |-> k, scaled |-> TRUE]
<1> DEFINE q == [r EXCEPT !.scaled = TRUE]
<1>1. r \in [update : Nat, scaled : BOOLEAN]
  OBVIOUS
<1>2. q \in [update : Nat, scaled : BOOLEAN] /\ q.update = k /\ q.scaled = TRUE
  BY <1>1
<1> HIDE DEF q
<1>3. q = [update |-> k, scaled |-> TRUE]
  BY <1>2
<1> QED
  BY <1>3 DEF q

LEMMA OldNew ==
  ASSUME iter \in Nat
  PROVE  /\ Old \in Content /\ New \in Content
         /\ iter = 0 => Old = [update |-> 0, scaled |-> FALSE]
<1>1. (iter > 0) \in BOOLEAN
  OBVIOUS
<1>2. iter = 0 => (iter > 0) = FALSE
  OBVIOUS
<1>3. iter = 0 => Old = [update |-> 0, scaled |-> FALSE]
  BY <1>2, Zenon DEF Old
<1>4. Old \in [update : Nat, scaled : BOOLEAN]
  BY <1>1, Zenon DEF Old
<1>5. iter + 1 \in Nat
  OBVIOUS
<1>6. New \in [update : Nat, scaled : BOOLEAN]
  BY <1>5, Zenon DEF New
<1> QED
  BY <1>3, <1>4, <1>6, Zenon DEF Content

\* What one iteration leaves is what the next one finds.
LEMMA NewIsOld ==
  ASSUME iter \in Nat, iter' = iter + 1
  PROVE  Old' = New
<1>1. (iter' > 0) = TRUE
  OBVIOUS
<1> QED
  BY <1>1, Zenon DEF Old, New

LEMMA InitInv == Init => IInv
<1> SUFFICES ASSUME Init PROVE IInv
  OBVIOUS
<1> USE ModeFacts
<1>1. TypeInv
  <2>1. y = [m \in Mode |-> [update |-> 0, scaled |-> FALSE]] /\ gram = y
        /\ [update |-> 0, scaled |-> FALSE] \in Content
    BY DEF Init, Content
  <2>2. y \in Sources /\ gram \in Sources
    BY <2>1 DEF Sources
  <2>3. [update |-> -1, scaled |-> FALSE] \in [update : Int, scaled : BOOLEAN]
    OBVIOUS
  <2>4. Cleared \in [Mode -> [update : Int, scaled : BOOLEAN]]
    BY <2>3 DEF Cleared
  <2>5. yhat \in [Mode -> [Mode -> [update : Int, scaled : BOOLEAN]]]
    BY <2>4 DEF Init
  <2>6. jacobi \in BOOLEAN
    BY DEF Init
  <2>7. store \in {"slab", "morton", "ooc"}
    BY CpAlsAssumption DEF Init
  <2> QED
    BY <2>2, <2>5, <2>6, <2>7 DEF Init, TypeInv, Phase
<1>2. LoopInv /\ TurnInv /\ YhatInv /\ LambdaInv /\ PassInv
  BY DEF Init, LoopInv, TurnInv, YhatInv, LambdaInv, PassInv
<1>3. FactorInv
  <2>1. Old = [update |-> 0, scaled |-> FALSE]
    BY OldNew DEF Init
  <2>2. \A m \in Mode : y[m] = Old
    BY <2>1 DEF Init
  <2>3. n = 0 /\ phase = "start" /\ \A m \in Mode : ~(m < n)
    BY DEF Init
  <2> QED
    BY <2>2, <2>3 DEF FactorInv
<1>4. GramInv
  BY DEF Init, GramInv
<1>5. SystemConsistent /\ FitOfModel /\ OnePass
  BY DEF Init, SystemConsistent, FitOfModel, OnePass
<1> QED
  BY <1>1, <1>2, <1>3, <1>4, <1>5 DEF IInv

LEMMA StartKeeps == IInv /\ Start => IInv'
<1> SUFFICES ASSUME IInv, Start PROVE IInv'
  OBVIOUS
<1> USE ModeFacts
<1>1. TypeInv'
  BY DEF IInv, TypeInv, Start, Phase
<1>2. LoopInv' /\ TurnInv' /\ YhatInv' /\ LambdaInv' /\ PassInv'
  BY DEF IInv, TypeInv, LoopInv, TurnInv, YhatInv, LambdaInv, PassInv, Start
<1>3. FactorInv' /\ GramInv'
  BY DEF IInv, TypeInv, FactorInv, GramInv, Old, New, Start
<1>4. SystemConsistent' /\ FitOfModel' /\ OnePass'
  BY DEF IInv, TypeInv, LoopInv, SystemConsistent, FitOfModel, OnePass, Start
<1> QED
  BY <1>1, <1>2, <1>3, <1>4 DEF IInv

LEMMA PassKeeps == IInv /\ Pass => IInv'
<1> SUFFICES ASSUME IInv, Pass PROVE IInv'
  OBVIOUS
<1> USE ModeFacts
<1>1. TypeInv'
  BY DEF IInv, TypeInv, Pass, Phase, Sources, Content
<1>2. jacobi /\ n = 0
  BY DEF IInv, LoopInv, Pass
<1>3. LoopInv' /\ TurnInv' /\ YhatInv' /\ LambdaInv' /\ PassInv'
  BY <1>2 DEF IInv, TypeInv, LoopInv, TurnInv, YhatInv, LambdaInv, PassInv, Pass
<1>4. FactorInv' /\ GramInv'
  BY DEF IInv, TypeInv, FactorInv, GramInv, Old, New, Pass
<1>5. y = [k \in Mode |-> Old]
  <2>1. y \in [Mode -> Content] /\ phase = "pass" /\ n = 0
    BY <1>2 DEF IInv, TypeInv, Sources, Pass
  <2>2. y[n] = Old
    BY <2>1 DEF IInv, FactorInv
  <2>3. \A m \in Mode : m # n => ~(m < n)
    BY <2>1
  <2>4. \A m \in Mode : y[m] = Old
    BY <2>2, <2>3 DEF IInv, FactorInv
  <2> QED
    BY <2>1, <2>4
<1>6. SystemConsistent' /\ FitOfModel' /\ OnePass'
  BY <1>2, <1>5 DEF SystemConsistent, FitOfModel, OnePass, Old, Pass
<1> QED
  BY <1>1, <1>3, <1>4, <1>6 DEF IInv

LEMMA PassFailsKeeps == IInv /\ PassFails => IInv'
<1> SUFFICES ASSUME IInv, PassFails PROVE IInv'
  OBVIOUS
<1> USE ModeFacts
<1>1. TypeInv'
  BY DEF IInv, TypeInv, PassFails, Phase
<1>2. jacobi
  BY DEF IInv, LoopInv, PassFails
<1>3. LoopInv' /\ TurnInv' /\ YhatInv' /\ LambdaInv' /\ PassInv'
  BY <1>2 DEF IInv, TypeInv, LoopInv, TurnInv, YhatInv, LambdaInv, PassInv, PassFails
<1>4. FactorInv' /\ GramInv'
  BY DEF IInv, TypeInv, FactorInv, GramInv, Old, New, PassFails
<1>5. SystemConsistent' /\ FitOfModel' /\ OnePass'
  BY <1>2, <1>3 DEF SystemConsistent, FitOfModel, OnePass, PassInv, PassFails
<1> QED
  BY <1>1, <1>3, <1>4, <1>5 DEF IInv

LEMMA ProcessKeeps == IInv /\ Process => IInv'
<1> SUFFICES ASSUME IInv, Process PROVE IInv'
  OBVIOUS
<1> USE ModeFacts
<1>1. ~jacobi /\ store = "slab" /\ turn = n /\ n \in Mode
  BY DEF IInv, TypeInv, LoopInv, TurnInv, Process
<1>2. yhat' = [yhat EXCEPT ![n] = y] /\ turn' = (n + 1) % N
  BY <1>1 DEF Process
<1>3. (n + 1) % N \in Mode
  BY <1>1
<1>4. TypeInv'
  BY <1>2, <1>3 DEF IInv, TypeInv, Process, Phase, Sources, Content
<1>5. LoopInv' /\ TurnInv' /\ LambdaInv' /\ PassInv'
  BY <1>1, <1>2 DEF IInv, TypeInv, LoopInv, TurnInv, LambdaInv, PassInv, Process
<1>6. YhatInv'
  BY <1>1, <1>2 DEF IInv, TypeInv, YhatInv, Process
<1>7. FactorInv' /\ GramInv'
  BY DEF IInv, TypeInv, FactorInv, GramInv, Old, New, Process
<1>8. SystemConsistent' /\ FitOfModel' /\ OnePass'
  BY <1>1 DEF SystemConsistent, FitOfModel, OnePass, Process
<1> QED
  BY <1>4, <1>5, <1>6, <1>7, <1>8 DEF IInv

LEMMA SolveKeeps == IInv /\ Solve => IInv'
<1> SUFFICES ASSUME IInv, Solve PROVE IInv'
  OBVIOUS
<1> USE ModeFacts
<1>1. TypeInv'
  BY DEF IInv, TypeInv, Solve, Phase, Sources, Content
<1>2. LoopInv' /\ TurnInv' /\ LambdaInv' /\ PassInv'
  BY DEF IInv, TypeInv, LoopInv, TurnInv, LambdaInv, PassInv, Solve
<1>3. y' = [y EXCEPT ![n] = [update |-> iter + 1, scaled |-> FALSE]]
      /\ y \in [Mode -> Content] /\ n \in Mode
  BY DEF IInv, TypeInv, Sources, Solve
<1>4. FactorInv'
  BY <1>3 DEF IInv, TypeInv, FactorInv, Old, New, Solve
<1>5. GramInv' /\ YhatInv'
  BY <1>3 DEF IInv, TypeInv, GramInv, YhatInv, Solve
<1>6. SystemConsistent'
  BY DEF IInv, TypeInv, GramInv, YhatInv, SystemConsistent, Solve
<1>7. FitOfModel' /\ OnePass'
  BY DEF IInv, FitOfModel, OnePass, Solve
<1> QED
  BY <1>1, <1>2, <1>4, <1>5, <1>6, <1>7 DEF IInv

LEMMA ScaleKeeps == IInv /\ Scale => IInv'
<1> SUFFICES ASSUME IInv, Scale PROVE IInv'
  OBVIOUS
<1> USE ModeFacts
<1>1. y[n] = [update |-> iter + 1, scaled |-> FALSE]
      /\ y \in [Mode -> Content] /\ n \in Mode
  BY DEF IInv, TypeInv, FactorInv, Sources, Scale
<1>2. y' = [y EXCEPT ![n] = New] /\ New \in Content
  <2>1. iter \in Nat /\ y' = [y EXCEPT ![n].scaled = TRUE]
    BY DEF IInv, TypeInv, Scale
  <2>2. [y[n] EXCEPT !.scaled = TRUE] = New
    <3>1. iter + 1 \in Nat
      BY <2>1
    <3> QED
      BY <1>1, <3>1, SetScaled, Zenon DEF New
  <2>3. y' = [y EXCEPT ![n] = [y[n] EXCEPT !.scaled = TRUE]]
    BY <2>1
  <2> QED
    BY <2>1, <2>2, <2>3, OldNew
<1>3. TypeInv'
  <2>1. y' \in Sources
    BY <1>1, <1>2 DEF Sources
  <2> QED
    BY <2>1 DEF IInv, TypeInv, Scale, Phase
<1>4. LoopInv' /\ TurnInv' /\ LambdaInv' /\ PassInv'
  BY <1>1 DEF IInv, TypeInv, LoopInv, TurnInv, LambdaInv, PassInv, Scale
<1>5. FactorInv'
  BY <1>1, <1>2 DEF IInv, TypeInv, FactorInv, Old, New, Scale
<1>6. GramInv' /\ YhatInv'
  BY <1>1, <1>2 DEF IInv, TypeInv, GramInv, YhatInv, Scale
<1>7. SystemConsistent' /\ FitOfModel' /\ OnePass'
  BY DEF IInv, SystemConsistent, FitOfModel, OnePass, Scale
<1> QED
  BY <1>3, <1>4, <1>5, <1>6, <1>7 DEF IInv

LEMMA RefreshKeeps == IInv /\ Refresh => IInv'
<1> SUFFICES ASSUME IInv, Refresh PROVE IInv'
  OBVIOUS
<1> USE ModeFacts
<1>1. /\ phase = "gram" /\ y[n] = New /\ n \in Mode /\ iter \in Nat
      /\ gram' = [gram EXCEPT ![n] = y[n]] /\ gram \in Sources /\ y \in Sources
      /\ UNCHANGED <<store, jacobi, iter, turn, y, yhat, lambda, system, fit, failed>>
  BY DEF IInv, TypeInv, FactorInv, Refresh
<1>2. \/ /\ n + 1 < N /\ n' = n + 1 /\ n' \in Mode
         /\ phase' = IF jacobi THEN "solve" ELSE "mttkrp"
      \/ n = N - 1 /\ n' = n /\ phase' = "fit"
  BY <1>1 DEF Refresh, NextMode
<1>3. TypeInv'
  BY <1>1, <1>2 DEF IInv, TypeInv, Phase, Sources, Content
<1>4. LoopInv' /\ TurnInv' /\ LambdaInv' /\ PassInv'
  BY <1>1, <1>2 DEF IInv, TypeInv, LoopInv, TurnInv, LambdaInv, PassInv
<1>5. FactorInv'
  <2>1. Old' = Old /\ New' = New /\ y' = y
    BY <1>1 DEF Old, New
  <2>2. \A m \in Mode : m # n => y[m] = IF m < n THEN New ELSE Old
    BY DEF IInv, FactorInv
  <2>3. CASE n + 1 < N /\ n' = n + 1 /\ phase' \in {"solve", "mttkrp"}
    <3>1. \A m \in Mode : m < n + 1 => y[m] = New
      <4>1. \A m \in Mode : m < n + 1 => m = n \/ (m # n /\ m < n)
        BY <1>1, UpTo
      <4> QED
        BY <1>1, <2>2, <4>1
    <3>2. \A m \in Mode : m >= n + 1 => y[m] = Old
      <4>1. \A m \in Mode : m >= n + 1 => m # n /\ ~(m < n)
        BY <1>1, UpTo
      <4> QED
        BY <2>2, <4>1
    <3>3. n' \in Mode /\ y[n'] = Old
      BY <2>3, <3>2, <1>1
    <3>4. \A m \in Mode : m # n' => y[m] = IF m < n' THEN New ELSE Old
      BY <2>3, <3>1, <3>2, <1>1
    <3> QED
      BY <2>1, <2>3, <3>3, <3>4 DEF FactorInv
  <2>4. CASE n' = n /\ phase' = "fit"
    BY <1>1, <2>1, <2>2, <2>4 DEF FactorInv
  <2> QED
    BY <1>2, <2>3, <2>4
<1>6. GramInv'
  BY <1>1, <1>2 DEF IInv, TypeInv, GramInv, Sources
<1>7. YhatInv'
  BY <1>1, <1>2 DEF IInv, TypeInv, YhatInv
<1>8. SystemConsistent' /\ FitOfModel' /\ OnePass'
  BY <1>1, <1>2 DEF IInv, SystemConsistent, FitOfModel, OnePass
<1> QED
  BY <1>3, <1>4, <1>5, <1>6, <1>7, <1>8 DEF IInv

LEMMA FitKeeps == IInv /\ Fit => IInv'
<1> SUFFICES ASSUME IInv, Fit PROVE IInv'
  OBVIOUS
<1> USE ModeFacts
<1>1. /\ n = N - 1 /\ n' = 0 /\ iter \in Nat /\ iter' = iter + 1
      /\ phase = "fit" /\ phase' \in {"done", "pass", "mttkrp"}
      /\ phase' = "pass" => jacobi
      /\ phase' = "mttkrp" => ~jacobi
      /\ UNCHANGED <<store, jacobi, turn, y, yhat, gram, lambda, system>>
  BY DEF IInv, TypeInv, LoopInv, Fit
<1>2. \A m \in Mode : y[m] = New
  <2>1. y[n] = New
    BY <1>1 DEF IInv, FactorInv
  <2>2. \A m \in Mode : m # n => m < n
    BY <1>1
  <2> QED
    BY <2>1, <2>2 DEF IInv, FactorInv
<1>3. y = gram
  <2>1. y \in [Mode -> Content] /\ gram \in [Mode -> Content]
    BY DEF IInv, TypeInv, Sources
  <2>2. \A m \in Mode : gram[m] = y[m]
    BY <1>1 DEF IInv, GramInv
  <2> QED
    BY <2>1, <2>2
<1>4. TypeInv'
  <2>1. failed' \in BOOLEAN /\ iter' \in Nat /\ n' \in Mode /\ phase' \in Phase
    <3>1. failed' = FALSE
      BY DEF Fit
    <3>2. phase' \in Phase
      BY <1>1 DEF Phase
    <3>3. iter' \in Nat
      BY <1>1
    <3> QED
      BY <1>1, <3>1, <3>2, <3>3
  <2> QED
    BY <1>1, <2>1 DEF IInv, TypeInv
<1>5. LoopInv' /\ TurnInv' /\ YhatInv' /\ LambdaInv' /\ PassInv'
  BY <1>1 DEF IInv, TypeInv, LoopInv, TurnInv, YhatInv, LambdaInv, PassInv
<1>6. FactorInv'
  <2>1. \A m \in Mode : y'[m] = Old'
    BY <1>1, <1>2, NewIsOld
  <2>2. \A m \in Mode : ~(m < n')
    BY <1>1
  <2> QED
    BY <1>1, <2>1, <2>2 DEF FactorInv
<1>7. GramInv'
  BY <1>1, <1>3 DEF GramInv
<1>8. FitOfModel'
  <2>1. fit' = [yhat |-> yhat[N - 1], gram |-> gram, lambda |-> lambda, y |-> y]
    BY DEF Fit
  <2>2. ~jacobi => \A m \in Mode \ {N - 1} : yhat[N - 1][m] = y[m]
    BY <1>1 DEF IInv, YhatInv
  <2>3. lambda = [mode |-> N - 1, of |-> y[N - 1].update]
    BY <1>1, <1>2 DEF IInv, LambdaInv, New
  <2>4. \A m \in Mode : y[m].scaled
    BY <1>2 DEF New
  <2>5. fit'.gram = y /\ fit'.lambda = lambda /\ fit'.yhat = yhat[N - 1]
    BY <2>1, <1>3
  <2>6. jacobi' = jacobi /\ y' = y
    BY <1>1
  <2> QED
    BY <2>2, <2>3, <2>4, <2>5, <2>6 DEF FitOfModel
<1>9. SystemConsistent' /\ OnePass'
  BY <1>1 DEF SystemConsistent, OnePass
<1> QED
  BY <1>4, <1>5, <1>6, <1>7, <1>8, <1>9 DEF IInv

LEMMA NextKeeps == IInv /\ [Next]_vars => IInv'
<1> SUFFICES ASSUME IInv, [Next]_vars PROVE IInv'
  OBVIOUS
<1>1. CASE Start
  BY <1>1, StartKeeps
<1>2. CASE Pass
  BY <1>2, PassKeeps
<1>3. CASE PassFails
  BY <1>3, PassFailsKeeps
<1>4. CASE Process
  BY <1>4, ProcessKeeps
<1>5. CASE Solve
  BY <1>5, SolveKeeps
<1>6. CASE Scale
  BY <1>6, ScaleKeeps
<1>7. CASE Refresh
  BY <1>7, RefreshKeeps
<1>8. CASE Fit
  BY <1>8, FitKeeps
<1>9. CASE UNCHANGED vars
  <2>1. UNCHANGED <<store, jacobi, phase, n, iter, turn, y, yhat, gram, lambda, system,
                    fit, failed>>
    BY <1>9 DEF vars
  <2>2. TypeInv' /\ LoopInv' /\ FactorInv' /\ GramInv' /\ TurnInv' /\ YhatInv' /\ LambdaInv'
        /\ PassInv'
    BY <2>1 DEF IInv, TypeInv, LoopInv, FactorInv, GramInv, TurnInv, YhatInv, LambdaInv,
                PassInv, Old, New
  <2>3. SystemConsistent' /\ OnePass'
    BY <2>1 DEF IInv, SystemConsistent, OnePass
  <2>4. FitOfModel'
    BY <2>1 DEF IInv, FitOfModel
  <2> QED
    BY <2>2, <2>3, <2>4 DEF IInv
<1> QED
  BY <1>1, <1>2, <1>3, <1>4, <1>5, <1>6, <1>7, <1>8, <1>9 DEF Next

LEMMA InvHolds == Spec => []IInv
BY InitInv, NextKeeps, PTL DEF Spec

(* The matrix of each solve is of the factors as they are, and under       *)
(* Gauss-Seidel so is the right-hand side, for every number of modes and   *)
(* iterations.                                                             *)
THEOREM SystemAlwaysConsistent == Spec => []SystemConsistent
<1>1. IInv => SystemConsistent
  BY DEF IInv
<1> QED
  BY <1>1, InvHolds, PTL

(* The model norm and lambda of the fit that decides on convergence are    *)
(* those of the model the caller gets, and under Gauss-Seidel so is the    *)
(* inner product.                                                          *)
THEOREM FitAlwaysOfModel == Spec => []FitOfModel
<1>1. IInv => FitOfModel
  BY DEF IInv
<1> QED
  BY <1>1, InvHolds, PTL

(* Under Jacobi an iteration works with the outputs of one pass over the   *)
(* tensor, whether passes fail or not.                                     *)
THEOREM AlwaysOnePass == Spec => []OnePass
<1>1. IInv => OnePass
  BY DEF IInv
<1> QED
  BY <1>1, InvHolds, PTL

-----------------------------------------------------------------------------
(* The JIT cache. *)

(* What a file can hold, though any process may truncate it or die while   *)
(* it is written: the kernel its name says, or something that is none.     *)
FilesNamed ==
  /\ src \in [Stems -> Key \cup {"absent", "empty", "short"}]
  /\ lib \in [Stems -> [by : Caller \cup {NoCaller},
                        has : Key \cup {"absent", "torn", "bare"}]]
  /\ \A s \in Stems : lib[s].has \in Key => Stem[lib[s].has] = s
  /\ \A s \in Stems : src[s] \in Key => Stem[src[s]] = s

\* A thread past the first look-up knows what it asks for, and has read
\* that kernel's source or none.
Asked == \A c \in Caller :
  /\ pc[c] # "idle" => want[c] \in Key
  /\ pc[c] \in {"link", "linking"} /\ got[c] \in Key => got[c] = want[c]

\* A kernel that is being settled is settled by nobody else meanwhile.
Unsettled == \A c \in Caller :
  pc[c] \in Held => memo[ProcOf[c]][want[c]] = "unknown"

Compiled == {"link", "linking", "load"}

\* A kernel the compiler has been called for is settled, or is being so.
ShellsPaid == \A p \in Proc, k \in Key :
  /\ shells[p][k] =< 1
  /\ \A c \in Caller :
       ProcOf[c] = p /\ pc[c] \in Held \ Compiled => shells[p][want[c]] = 0
  /\ memo[p][k] = "unknown" /\ shells[p][k] = 1
       => \E c \in Caller : lock[p] = c /\ want[c] = k /\ pc[c] \in Compiled

JitInv ==
  /\ TypeOK
  /\ FilesNamed
  /\ Asked
  /\ Unsettled
  /\ ShellsPaid

-----------------------------------------------------------------------------
LEMMA TypeInit == JitInit => TypeOK
BY KeyAssumption DEF JitInit, TypeOK, Stems, NoLib, Unknown, NoStats, Held

LEMMA JitInitInv == JitInit => JitInv
<1> SUFFICES ASSUME JitInit PROVE JitInv
  OBVIOUS
<1>1. TypeOK
  BY TypeInit
<1>2. FilesNamed
  BY <1>1, KeyAssumption DEF JitInit, FilesNamed, NoLib, TypeOK
<1>3. Asked /\ Unsettled
  BY DEF JitInit, Asked, Unsettled, Held
<1>4. ShellsPaid
  BY KeyAssumption DEF JitInit, ShellsPaid, Held
<1> QED
  BY <1>1, <1>2, <1>3, <1>4 DEF JitInv

StatsType == stats \in [Proc -> [compiled : Nat, cache_hits : Nat, failures : Nat]]

(* What is known of the thread that has the mutex. *)
LEMMA Holder ==
  ASSUME JitInv, NEW c \in Caller, pc[c] \in Held
  PROVE  /\ ProcOf[c] \in Proc /\ want[c] \in Key /\ Stem[want[c]] \in Stems
         /\ lock[ProcOf[c]] = c
         /\ memo[ProcOf[c]][want[c]] = "unknown"
         /\ shells[ProcOf[c]][want[c]] \in {0, 1}
         /\ pc[c] \notin Compiled => shells[ProcOf[c]][want[c]] = 0
         /\ \A d \in Caller : ProcOf[d] = ProcOf[c] /\ d # c => pc[d] \notin Held
<1>1. ProcOf[c] \in Proc /\ want[c] \in Key /\ Stem[want[c]] \in Stems
  BY KeyAssumption DEF JitInv, Asked, Held, Stems
<1>2. lock[ProcOf[c]] = c
  BY DEF JitInv, TypeOK
<1>3. memo[ProcOf[c]][want[c]] = "unknown"
  BY DEF JitInv, Unsettled
<1>4. /\ shells[ProcOf[c]][want[c]] \in {0, 1}
      /\ pc[c] \notin Compiled => shells[ProcOf[c]][want[c]] = 0
  <2>1. shells[ProcOf[c]][want[c]] \in Nat
    BY <1>1 DEF JitInv, TypeOK
  <2>2. shells[ProcOf[c]][want[c]] =< 1
    BY <1>1 DEF JitInv, ShellsPaid
  <2>3. pc[c] \notin Compiled => shells[ProcOf[c]][want[c]] = 0
    BY <1>1 DEF JitInv, ShellsPaid
  <2> QED
    BY <2>1, <2>2, <2>3
<1>5. \A d \in Caller : ProcOf[d] = ProcOf[c] /\ d # c => pc[d] \notin Held
  BY <1>2 DEF JitInv, TypeOK
<1> QED
  BY <1>1, <1>2, <1>3, <1>4, <1>5

(* The holder goes on and keeps the mutex. *)
LEMMA HolderGoesOn ==
  ASSUME JitInv, NEW c \in Caller, pc[c] \in Held, NEW there \in Held,
         GoTo(c, there), UNCHANGED <<memo, lock, want, kills>>,
         NEW g \in Key \cup {"absent", "empty"},
         got' = [got EXCEPT ![c] = g],
         there \in {"link", "linking"} /\ g \in Key => g = want[c],
         NEW v \in {0, 1}, there \notin Compiled => v = 0,
         shells' = [shells EXCEPT ![ProcOf[c]][want[c]] = v],
         FilesNamed', StatsType'
  PROVE  JitInv'
<1>0. /\ ProcOf[c] \in Proc /\ want[c] \in Key
      /\ lock[ProcOf[c]] = c
      /\ \A d \in Caller : ProcOf[d] = ProcOf[c] /\ d # c => pc[d] \notin Held
  BY Holder
<1>a. /\ pc' = [pc EXCEPT ![c] = there]
      /\ pc \in [Caller -> Held \cup {"idle", "lock"}]
      /\ shells \in [Proc -> [Key -> Nat]]
  BY DEF GoTo, JitInv, TypeOK
<1>1. TypeOK'
  <2>1. pc' \in [Caller -> Held \cup {"idle", "lock"}]
    BY <1>a
  <2>2. got' \in [Caller -> Key \cup {"absent", "empty"}]
    BY DEF JitInv, TypeOK
  <2>3. shells' \in [Proc -> [Key -> Nat]]
    BY <1>0, <1>a
  <2>4. \A d \in Caller : pc'[d] \in Held <=> lock'[ProcOf[d]] = d
    BY <1>0, <1>a DEF JitInv, TypeOK
  <2> QED
    BY <2>1, <2>2, <2>3, <2>4 DEF JitInv, TypeOK, FilesNamed, StatsType
<1>2. Asked'
  BY <1>0, <1>a DEF JitInv, Asked, TypeOK, Held
<1>3. Unsettled'
  BY <1>0, <1>a DEF JitInv, Unsettled
<1>4. ShellsPaid'
  <2> SUFFICES ASSUME NEW p \in Proc, NEW k \in Key
               PROVE  /\ shells'[p][k] =< 1
                      /\ \A d \in Caller :
                           ProcOf[d] = p /\ pc'[d] \in Held \ Compiled => shells'[p][want[d]] = 0
                      /\ memo[p][k] = "unknown" /\ shells'[p][k] = 1
                           => \E d \in Caller : lock[p] = d /\ want[d] = k /\ pc'[d] \in Compiled
    BY DEF ShellsPaid
  <2>0. /\ shells[p][k] =< 1
        /\ \A d \in Caller :
             ProcOf[d] = p /\ pc[d] \in Held \ Compiled => shells[p][want[d]] = 0
        /\ memo[p][k] = "unknown" /\ shells[p][k] = 1
             => \E d \in Caller : lock[p] = d /\ want[d] = k /\ pc[d] \in Compiled
    BY DEF JitInv, ShellsPaid
  <2>1. CASE p # ProcOf[c]
    <3>1. shells'[p] = shells[p]
      BY <2>1, <1>0, <1>a
    <3>2. \A d \in Caller : ProcOf[d] = p => pc'[d] = pc[d]
      BY <2>1, <1>a
    <3>3. lock[p] # NoCaller => ProcOf[lock[p]] = p
      BY DEF JitInv, TypeOK
    <3> QED
      BY <2>0, <3>1, <3>2, <3>3, KeyAssumption
  <2>2. CASE p = ProcOf[c] /\ k # want[c]
    <3>1. shells'[p][k] = shells[p][k] /\ shells'[p][want[c]] = v
      BY <2>2, <1>0, <1>a
    <3>2. \A d \in Caller : ProcOf[d] = p /\ pc'[d] \in Held => d = c
      BY <2>2, <1>0, <1>a
    <3>3. \A d \in Caller : lock[p] = d => d = c
      BY <2>2, <1>0
    <3> QED
      BY <2>0, <2>2, <3>1, <3>2, <3>3, <1>a
  <2>3. CASE p = ProcOf[c] /\ k = want[c]
    <3>1. shells'[p][k] = v
      BY <2>3, <1>0, <1>a
    <3>2. \A d \in Caller : ProcOf[d] = p /\ pc'[d] \in Held => d = c
      BY <2>3, <1>0, <1>a
    <3> QED
      BY <2>3, <3>1, <3>2, <1>0, <1>a
  <2> QED
    BY <2>1, <2>2, <2>3
<1> QED
  BY <1>1, <1>2, <1>3, <1>4 DEF JitInv

(* The holder answers, and releases the mutex. *)
LEMMA HolderSettles ==
  ASSUME JitInv, NEW c \in Caller, pc[c] \in Held,
         NEW fn \in Key \cup {"none"}, Settle(c, fn), UNCHANGED kills,
         NEW v \in {0, 1},
         shells' = [shells EXCEPT ![ProcOf[c]][want[c]] = v],
         FilesNamed', StatsType'
  PROVE  JitInv'
<1>0. /\ ProcOf[c] \in Proc /\ want[c] \in Key
      /\ lock[ProcOf[c]] = c
      /\ \A d \in Caller : ProcOf[d] = ProcOf[c] /\ d # c => pc[d] \notin Held
  BY Holder
<1>a. /\ pc' = [pc EXCEPT ![c] = "idle"]
      /\ want' = [want EXCEPT ![c] = NoKey]
      /\ got' = [got EXCEPT ![c] = "absent"]
      /\ memo' = [memo EXCEPT ![ProcOf[c]][want[c]] = fn]
      /\ lock' = [lock EXCEPT ![ProcOf[c]] = NoCaller]
      /\ pc \in [Caller -> Held \cup {"idle", "lock"}]
      /\ want \in [Caller -> Key \cup {NoKey}]
      /\ got \in [Caller -> Key \cup {"absent", "empty"}]
      /\ memo \in [Proc -> [Key -> Key \cup {"unknown", "none"}]]
      /\ lock \in [Proc -> Caller \cup {NoCaller}]
      /\ shells \in [Proc -> [Key -> Nat]]
  BY DEF Settle, Answer, GoTo, JitInv, TypeOK
<1>b. fn # "unknown" /\ "idle" \notin Held /\ NoCaller \notin Caller
  BY KeyAssumption DEF Held
<1>1. TypeOK'
  <2>1. /\ pc' \in [Caller -> Held \cup {"idle", "lock"}]
        /\ want' \in [Caller -> Key \cup {NoKey}]
        /\ got' \in [Caller -> Key \cup {"absent", "empty"}]
    BY <1>a
  <2>2. /\ memo' \in [Proc -> [Key -> Key \cup {"unknown", "none"}]]
        /\ lock' \in [Proc -> Caller \cup {NoCaller}]
    BY <1>a, <1>0
  <2>3. shells' \in [Proc -> [Key -> Nat]]
    BY <1>0, <1>a
  <2>4. \A d \in Caller : pc'[d] \in Held <=> lock'[ProcOf[d]] = d
    BY <1>0, <1>a, <1>b, KeyAssumption DEF JitInv, TypeOK
  <2>5. \A p \in Proc : lock'[p] # NoCaller => ProcOf[lock'[p]] = p
    BY <1>0, <1>a DEF JitInv, TypeOK
  <2> QED
    BY <2>1, <2>2, <2>3, <2>4, <2>5 DEF JitInv, TypeOK, FilesNamed, StatsType
<1>2. Asked'
  BY <1>a DEF JitInv, Asked
<1>3. Unsettled'
  <2> SUFFICES ASSUME NEW d \in Caller, pc'[d] \in Held
               PROVE  memo'[ProcOf[d]][want'[d]] = "unknown"
    BY DEF Unsettled
  <2>1. d # c /\ pc[d] \in Held /\ want'[d] = want[d] /\ ProcOf[d] # ProcOf[c]
    BY <1>a, <1>b, <1>0
  <2>2. memo'[ProcOf[d]] = memo[ProcOf[d]]
    BY <2>1, <1>a, <1>0, KeyAssumption
  <2> QED
    BY <2>1, <2>2 DEF JitInv, Unsettled
<1>4. ShellsPaid'
  <2> SUFFICES ASSUME NEW p \in Proc, NEW k \in Key
               PROVE  /\ shells'[p][k] =< 1
                      /\ \A d \in Caller :
                           ProcOf[d] = p /\ pc'[d] \in Held \ Compiled => shells'[p][want'[d]] = 0
                      /\ memo'[p][k] = "unknown" /\ shells'[p][k] = 1
                           => \E d \in Caller : lock'[p] = d /\ want'[d] = k /\ pc'[d] \in Compiled
    BY DEF ShellsPaid
  <2>0. /\ shells[p][k] =< 1
        /\ \A d \in Caller :
             ProcOf[d] = p /\ pc[d] \in Held \ Compiled => shells[p][want[d]] = 0
        /\ memo[p][k] = "unknown" /\ shells[p][k] = 1
             => \E d \in Caller : lock[p] = d /\ want[d] = k /\ pc[d] \in Compiled
    BY DEF JitInv, ShellsPaid
  <2>1. CASE p # ProcOf[c]
    <3>1. shells'[p] = shells[p] /\ memo'[p] = memo[p] /\ lock'[p] = lock[p]
      BY <2>1, <1>0, <1>a
    <3>2. \A d \in Caller : ProcOf[d] = p => pc'[d] = pc[d] /\ want'[d] = want[d]
      BY <2>1, <1>a
    <3>3. lock[p] # NoCaller => ProcOf[lock[p]] = p
      BY DEF JitInv, TypeOK
    <3> QED
      BY <2>0, <3>1, <3>2, <3>3, <1>b
  <2>2. CASE p = ProcOf[c]
    <3>1. \A d \in Caller : ProcOf[d] = p => pc'[d] \notin Held
      BY <2>2, <1>0, <1>a, <1>b
    <3>2. CASE k = want[c]
      <4>1. memo'[p][k] = fn /\ shells'[p][k] = v
        BY <2>2, <3>2, <1>0, <1>a
      <4> QED
        BY <3>1, <4>1, <1>b
    <3>3. CASE k # want[c]
      <4>1. memo'[p][k] = memo[p][k] /\ shells'[p][k] = shells[p][k]
        BY <2>2, <3>3, <1>0, <1>a
      <4>2. \A d \in Caller : lock[p] = d => d = c
        BY <2>2, <1>0
      <4> QED
        BY <2>0, <3>1, <3>3, <4>1, <4>2
    <3> QED
      BY <3>2, <3>3
  <2> QED
    BY <2>1, <2>2
<1> QED
  BY <1>1, <1>2, <1>3, <1>4 DEF JitInv

LEMMA Counted ==
  ASSUME JitInv, NEW c \in Caller, NEW f \in {"compiled", "cache_hits", "failures"}, Count(c, f)
  PROVE  StatsType'
<1>1. /\ stats \in [Proc -> [compiled : Nat, cache_hits : Nat, failures : Nat]]
      /\ ProcOf[c] \in Proc
  BY KeyAssumption DEF JitInv, TypeOK
<1>2. stats[ProcOf[c]] \in [compiled : Nat, cache_hits : Nat, failures : Nat]
  BY <1>1
<1>3. [stats[ProcOf[c]] EXCEPT ![f] = @ + 1]
        \in [compiled : Nat, cache_hits : Nat, failures : Nat]
  BY <1>2
<1>4. stats' = [stats EXCEPT ![ProcOf[c]] = [stats[ProcOf[c]] EXCEPT ![f] = @ + 1]]
  BY DEF Count
<1> QED
  BY <1>1, <1>3, <1>4 DEF StatsType

LEMMA NotCounted == ASSUME JitInv, UNCHANGED stats PROVE StatsType'
BY DEF JitInv, TypeOK, StatsType

LEMMA FilesKept == ASSUME JitInv, UNCHANGED files PROVE FilesNamed'
BY DEF JitInv, FilesNamed, files

LEMMA SameShells ==
  ASSUME JitInv, NEW p \in Proc, NEW k \in Key, UNCHANGED shells
  PROVE  shells' = [shells EXCEPT ![p][k] = shells[p][k]]
BY DEF JitInv, TypeOK

LEMMA SameGot ==
  ASSUME JitInv, NEW c \in Caller, UNCHANGED got
  PROVE  /\ got[c] \in Key \cup {"absent", "empty"}
         /\ got' = [got EXCEPT ![c] = got[c]]
BY DEF JitInv, TypeOK

LEMMA QueryInv == ASSUME JitInv, NEW c \in Caller, Query(c) PROVE JitInv'
<1>1. CASE UNCHANGED <<want, pc>>
  BY <1>1 DEF Query, files, JitInv, TypeOK, FilesNamed, Asked, Unsettled, ShellsPaid
<1>2. ASSUME NEW k \in Asks[c], want' = [want EXCEPT ![c] = k], GoTo(c, "lock") PROVE JitInv'
  <2>1. k \in Key /\ "lock" \notin Held /\ "idle" \notin Held
    BY KeyAssumption DEF Held
  <2>2. /\ UNCHANGED <<src, lib, memo, stats, lock, got, shells, kills>>
        /\ pc' = [pc EXCEPT ![c] = "lock"] /\ pc[c] = "idle"
    BY <1>2 DEF Query, files, GoTo, At
  <2>3. TypeOK'
    BY <1>2, <2>1, <2>2 DEF JitInv, TypeOK
  <2>4. FilesNamed'
    BY <2>2 DEF JitInv, FilesNamed
  <2>5. Asked'
    BY <1>2, <2>1, <2>2 DEF JitInv, TypeOK, Asked
  <2>6. Unsettled'
    BY <1>2, <2>1, <2>2 DEF JitInv, TypeOK, Unsettled
  <2>7. \A d \in Caller : pc[d] \in Held => pc'[d] = pc[d] /\ want'[d] = want[d]
    BY <1>2, <2>1, <2>2 DEF JitInv, TypeOK
  <2>8. \A d \in Caller : pc'[d] \in Held => pc[d] \in Held
    BY <2>1, <2>2 DEF JitInv, TypeOK
  <2>9. ShellsPaid'
    BY <2>1, <2>2, <2>7, <2>8 DEF JitInv, ShellsPaid, Compiled, Held
  <2> QED
    BY <2>3, <2>4, <2>5, <2>6, <2>9 DEF JitInv
<1> QED
  BY <1>1, <1>2 DEF Query

LEMMA LockInv == ASSUME JitInv, NEW c \in Caller, Lock(c) PROVE JitInv'
<1> DEFINE p == ProcOf[c]
<1>0. /\ p \in Proc /\ want[c] \in Key /\ pc[c] = "lock" /\ lock[p] = NoCaller
      /\ "lock" \notin Held /\ "idle" \notin Held /\ "exists" \in Held
      /\ NoCaller \notin Caller /\ "exists" \notin Compiled
      /\ \A d \in Caller : ProcOf[d] = p => pc[d] \notin Held
  BY KeyAssumption DEF Lock, At, JitInv, TypeOK, Asked, Held, Compiled
<1>f. FilesNamed'
  BY FilesKept DEF Lock
<1>1. CASE MyMemo(c) = "unknown"
  <2>1. /\ UNCHANGED <<src, lib, memo, stats, want, got, shells, kills>>
        /\ lock' = [lock EXCEPT ![p] = c]
        /\ pc' = [pc EXCEPT ![c] = "exists"]
        /\ memo[p][want[c]] = "unknown"
    BY <1>1 DEF Lock, files, GoTo, Proceed, MyMemo
  <2>2. TypeOK'
    BY <1>0, <2>1 DEF JitInv, TypeOK
  <2>3. Asked'
    BY <1>0, <2>1 DEF JitInv, TypeOK, Asked
  <2>4. Unsettled'
    BY <2>1 DEF JitInv, TypeOK, Unsettled
  <2>5. shells[p][want[c]] = 0
    <3>1. shells[p][want[c]] \in Nat /\ shells[p][want[c]] =< 1
      BY <1>0 DEF JitInv, TypeOK, ShellsPaid
    <3>2. shells[p][want[c]] # 1
      BY <1>0, <2>1 DEF JitInv, ShellsPaid
    <3> QED
      BY <3>1, <3>2
  <2>6. ShellsPaid'
    <3> SUFFICES ASSUME NEW q \in Proc, NEW k \in Key
                 PROVE  /\ shells[q][k] =< 1
                        /\ \A d \in Caller :
                             ProcOf[d] = q /\ pc'[d] \in Held \ Compiled => shells[q][want[d]] = 0
                        /\ memo[q][k] = "unknown" /\ shells[q][k] = 1
                             => \E d \in Caller : lock'[q] = d /\ want[d] = k /\ pc'[d] \in Compiled
      BY <2>1 DEF ShellsPaid
    <3>0. /\ shells[q][k] =< 1
          /\ \A d \in Caller :
               ProcOf[d] = q /\ pc[d] \in Held \ Compiled => shells[q][want[d]] = 0
          /\ memo[q][k] = "unknown" /\ shells[q][k] = 1
               => \E d \in Caller : lock[q] = d /\ want[d] = k /\ pc[d] \in Compiled
      BY DEF JitInv, ShellsPaid
    <3>1. \A d \in Caller : d # c => pc'[d] = pc[d]
      BY <2>1
    <3>2. CASE q = p
      BY <3>0, <3>1, <3>2, <2>5, <1>0
    <3>3. CASE q # p
      <4>1. lock'[q] = lock[q] /\ \A d \in Caller : ProcOf[d] = q => d # c
        BY <3>3, <2>1
      <4>2. \A d \in Caller : lock[q] = d => ProcOf[d] = q
        BY <1>0 DEF JitInv, TypeOK
      <4> QED
        BY <3>0, <3>1, <4>1, <4>2
    <3> QED
      BY <3>2, <3>3
  <2> QED
    BY <2>2, <2>3, <2>4, <2>6, <1>f DEF JitInv
<1>2. CASE MyMemo(c) # "unknown"
  <2>1. /\ UNCHANGED <<src, lib, memo, stats, lock, shells, kills>>
        /\ pc' = [pc EXCEPT ![c] = "idle"]
        /\ want' = [want EXCEPT ![c] = NoKey]
        /\ got' = [got EXCEPT ![c] = "absent"]
    BY <1>2 DEF Lock, files, GoTo, Answer
  <2>2. TypeOK'
    BY <1>0, <2>1 DEF JitInv, TypeOK
  <2>3. Asked'
    BY <2>1 DEF JitInv, TypeOK, Asked
  <2>4. \A d \in Caller : pc'[d] \in Held => d # c /\ pc'[d] = pc[d] /\ want'[d] = want[d]
    BY <1>0, <2>1 DEF JitInv, TypeOK
  <2>5. \A d \in Caller : pc[d] \in Held => d # c /\ pc'[d] = pc[d] /\ want'[d] = want[d]
    BY <1>0, <2>1 DEF JitInv, TypeOK
  <2>6. Unsettled'
    BY <2>1, <2>4 DEF JitInv, Unsettled
  <2>7. ShellsPaid'
    BY <2>1, <2>4, <2>5 DEF JitInv, ShellsPaid, Compiled, Held
  <2> QED
    BY <2>2, <2>3, <2>6, <2>7, <1>f DEF JitInv
<1> QED
  BY <1>1, <1>2

(* The holder goes on with its locals, and calls no compiler. *)
LEMMA HolderProceeds ==
  ASSUME JitInv, NEW c \in Caller, pc[c] \in Held, NEW there \in Held,
         Proceed(c, there), UNCHANGED <<memo, lock, shells, kills>>,
         there \in {"link", "linking"} /\ got[c] \in Key => got[c] = want[c],
         there \notin Compiled => pc[c] \notin Compiled,
         FilesNamed', StatsType'
  PROVE  JitInv'
<1>1. /\ ProcOf[c] \in Proc /\ want[c] \in Key
      /\ shells[ProcOf[c]][want[c]] \in {0, 1}
      /\ pc[c] \notin Compiled => shells[ProcOf[c]][want[c]] = 0
  BY Holder
<1>2. shells' = [shells EXCEPT ![ProcOf[c]][want[c]] = shells[ProcOf[c]][want[c]]]
  BY <1>1, SameShells
<1>3. /\ got[c] \in Key \cup {"absent", "empty"}
      /\ got' = [got EXCEPT ![c] = got[c]]
  BY SameGot DEF Proceed
<1>4. GoTo(c, there) /\ UNCHANGED <<memo, lock, want, kills>>
  BY DEF Proceed
<1>5. there \notin Compiled => shells[ProcOf[c]][want[c]] = 0
  BY <1>1
<1> QED
  BY <1>1, <1>2, <1>3, <1>4, <1>5, HolderGoesOn

LEMMA FileExistsInv == ASSUME JitInv, NEW c \in Caller, FileExists(c) PROVE JitInv'
<1>0. /\ pc[c] = "exists" /\ pc[c] \in Held /\ {"source", "load"} \subseteq Held
      /\ "exists" \notin Compiled /\ "source" \notin Compiled
  BY DEF FileExists, At, Held, Compiled
<1>1. FilesNamed'
  BY FilesKept DEF FileExists
<1>2. /\ shells[ProcOf[c]][want[c]] = 0
      /\ shells' = [shells EXCEPT ![ProcOf[c]][want[c]] = shells[ProcOf[c]][want[c]]]
  BY <1>0, Holder, SameShells DEF FileExists
<1>3. CASE lib[MyStem(c)].has = "absent"
  <2>1. StatsType'
    BY <1>3, NotCounted DEF FileExists
  <2> QED
    BY <1>0, <1>1, <1>2, <1>3, <2>1, HolderProceeds DEF FileExists
<1>4. CASE lib[MyStem(c)].has # "absent"
  <2>1. StatsType'
    BY <1>4, Counted DEF FileExists
  <2> QED
    BY <1>0, <1>1, <1>2, <1>4, <2>1, HolderProceeds DEF FileExists
<1> QED
  BY <1>3, <1>4

(* Only a holder that has called the compiler, or need not, gives up. *)
LEMMA GiveUpInv ==
  ASSUME JitInv, NEW c \in Caller, pc[c] \in Held, GiveUp(c), FilesNamed',
         NEW v \in {0, 1}, shells' = [shells EXCEPT ![ProcOf[c]][want[c]] = v],
         UNCHANGED kills
  PROVE  JitInv'
<1>1. StatsType'
  BY Counted DEF GiveUp
<1> QED
  BY <1>1, HolderSettles DEF GiveUp

LEMMA SourceWritten ==
  ASSUME JitInv, NEW c \in Caller, pc[c] \in Held, UNCHANGED lib,
         NEW text \in {want[c], "empty", "short"},
         src' = [src EXCEPT ![MyStem(c)] = text]
  PROVE  FilesNamed'
<1>1. want[c] \in Key /\ MyStem(c) = Stem[want[c]] /\ MyStem(c) \in Stems
  BY Holder DEF MyStem
<1>2. src \in [Stems -> Key \cup {"absent", "empty", "short"}]
  BY DEF JitInv, TypeOK
<1>3. src' \in [Stems -> Key \cup {"absent", "empty", "short"}]
  BY <1>1, <1>2
<1>4. \A s \in Stems : src'[s] \in Key => Stem[src'[s]] = s
  BY <1>1, <1>2, KeyAssumption DEF JitInv, FilesNamed
<1> QED
  BY <1>3, <1>4 DEF JitInv, FilesNamed

LEMMA OpenSourceInv == ASSUME JitInv, NEW c \in Caller, OpenSource(c) PROVE JitInv'
<1>0. /\ pc[c] = "source" /\ pc[c] \in Held /\ "fill" \in Held
      /\ "source" \notin Compiled /\ "fill" \notin Compiled
  BY DEF OpenSource, At, Held, Compiled
<1>2. /\ shells[ProcOf[c]][want[c]] = 0
      /\ shells' = [shells EXCEPT ![ProcOf[c]][want[c]] = shells[ProcOf[c]][want[c]]]
  BY <1>0, Holder, SameShells DEF OpenSource
<1>3. CASE GiveUp(c) /\ UNCHANGED src
  <2>1. FilesNamed'
    BY <1>3, FilesKept DEF OpenSource, files
  <2> QED
    BY <1>0, <1>2, <1>3, <2>1, GiveUpInv DEF OpenSource
<1>4. CASE /\ src' = [src EXCEPT ![MyStem(c)] = "empty"]
           /\ Proceed(c, "fill") /\ UNCHANGED <<memo, stats, lock>>
  <2>1. FilesNamed' /\ StatsType'
    BY <1>0, <1>4, SourceWritten, NotCounted DEF OpenSource
  <2> QED
    BY <1>0, <1>2, <1>4, <2>1, HolderProceeds DEF OpenSource
<1> QED
  BY <1>3, <1>4 DEF OpenSource

LEMMA FillSourceInv == ASSUME JitInv, NEW c \in Caller, FillSource(c) PROVE JitInv'
<1>0. /\ pc[c] = "fill" /\ pc[c] \in Held /\ "compile" \in Held
      /\ "fill" \notin Compiled /\ "compile" \notin Compiled
  BY DEF FillSource, At, Held, Compiled
<1>2. /\ shells[ProcOf[c]][want[c]] = 0
      /\ shells' = [shells EXCEPT ![ProcOf[c]][want[c]] = shells[ProcOf[c]][want[c]]]
  BY <1>0, Holder, SameShells DEF FillSource
<1>3. CASE src' = [src EXCEPT ![MyStem(c)] = "short"] /\ GiveUp(c)
  <2>1. FilesNamed'
    BY <1>0, <1>3, SourceWritten DEF FillSource
  <2> QED
    BY <1>0, <1>2, <1>3, <2>1, GiveUpInv DEF FillSource
<1>4. ASSUME NEW text \in {want[c], "short"},
             src' = [src EXCEPT ![MyStem(c)] = text],
             Proceed(c, "compile"), UNCHANGED <<memo, stats, lock>>
      PROVE  JitInv'
  <2>1. FilesNamed' /\ StatsType'
    BY <1>0, <1>4, SourceWritten, NotCounted DEF FillSource
  <2> QED
    BY <1>0, <1>2, <1>4, <2>1, HolderProceeds DEF FillSource
<1> QED
  BY <1>3, <1>4 DEF FillSource

LEMMA CompileInv == ASSUME JitInv, NEW c \in Caller, Compile(c) PROVE JitInv'
<1>0. /\ pc[c] = "compile" /\ pc[c] \in Held /\ "link" \in Held
      /\ "compile" \notin Compiled /\ "link" \in Compiled
  BY DEF Compile, At, Held, Compiled
<1>1. FilesNamed'
  BY FilesKept DEF Compile
<1>2. shells' = [shells EXCEPT ![ProcOf[c]][want[c]] = 1]
  <2>1. shells[ProcOf[c]][want[c]] = 0 /\ ProcOf[c] \in Proc /\ want[c] \in Key
    BY <1>0, Holder
  <2> QED
    BY <2>1 DEF Compile, JitInv, TypeOK
<1>3. CASE GiveUp(c)
  BY <1>0, <1>1, <1>2, <1>3, GiveUpInv DEF Compile
<1>4. CASE /\ src[MyStem(c)] # "short"
           /\ got' = [got EXCEPT ![c] = src[MyStem(c)]]
           /\ GoTo(c, "link") /\ UNCHANGED <<memo, stats, lock, want>>
  <2>1. StatsType'
    BY <1>4, NotCounted
  <2>2. /\ src[MyStem(c)] \in Key \cup {"absent", "empty"}
        /\ src[MyStem(c)] \in Key => src[MyStem(c)] = want[c]
    BY <1>0, <1>4, Holder, KeyAssumption DEF MyStem, JitInv, FilesNamed
  <2> QED
    BY <1>0, <1>1, <1>2, <1>4, <2>1, <2>2, HolderGoesOn DEF Compile
<1> QED
  BY <1>3, <1>4 DEF Compile

LEMMA LinkInv == ASSUME JitInv, NEW c \in Caller, Link(c) PROVE JitInv'
<1>0. /\ pc[c] = "link" /\ pc[c] \in Held /\ "linking" \in Held /\ "linking" \in Compiled
  BY DEF Link, At, Held, Compiled
<1>h. /\ MyStem(c) \in Stems /\ want[c] \in Key /\ ProcOf[c] \in Proc
      /\ shells[ProcOf[c]][want[c]] \in {0, 1}
  BY <1>0, Holder DEF MyStem
<1>1. FilesNamed'
  BY <1>h, KeyAssumption DEF Link, JitInv, FilesNamed
<1>2. shells' = [shells EXCEPT ![ProcOf[c]][want[c]] = shells[ProcOf[c]][want[c]]]
  BY <1>h, SameShells DEF Link
<1>3. StatsType'
  BY NotCounted DEF Link
<1>4. got[c] \in Key => got[c] = want[c]
  BY <1>0 DEF JitInv, Asked
<1> QED
  BY <1>0, <1>h, <1>1, <1>2, <1>3, <1>4, HolderProceeds DEF Link

LEMMA FinishedNamed ==
  ASSUME JitInv, NEW c \in Caller, pc[c] = "linking"
  PROVE  /\ Finished(c) \in [Stems -> [by : Caller \cup {NoCaller},
                                       has : Key \cup {"absent", "torn", "bare"}]]
         /\ \A s \in Stems : Finished(c)[s].has \in Key => Stem[Finished(c)[s].has] = s
<1>1. MyStem(c) \in Stems /\ MyStem(c) = Stem[want[c]]
  BY Holder DEF MyStem, Held
<1>2. /\ Linked(c) \in Key \cup {"absent", "torn", "bare"}
      /\ Linked(c) \in Key => Linked(c) = want[c]
  BY KeyAssumption DEF Linked, JitInv, TypeOK, Asked
<1>3. lib \in [Stems -> [by : Caller \cup {NoCaller},
                        has : Key \cup {"absent", "torn", "bare"}]]
  BY DEF JitInv, FilesNamed
<1>4. CASE lib[MyStem(c)].by = c
  <2>1. Finished(c) = [lib EXCEPT ![MyStem(c)] = [lib[MyStem(c)] EXCEPT !.has = Linked(c)]]
    BY <1>4 DEF Finished
  <2>2. [lib[MyStem(c)] EXCEPT !.has = Linked(c)]
          \in [by : Caller \cup {NoCaller}, has : Key \cup {"absent", "torn", "bare"}]
    BY <1>1, <1>2, <1>3
  <2>3. [lib[MyStem(c)] EXCEPT !.has = Linked(c)].has = Linked(c)
    BY <1>1, <1>3
  <2> QED
    BY <1>1, <1>2, <1>3, <2>1, <2>2, <2>3 DEF JitInv, FilesNamed
<1>5. CASE lib[MyStem(c)].by # c
  BY <1>3, <1>5 DEF Finished, JitInv, FilesNamed
<1> QED
  BY <1>4, <1>5

LEMMA LinkEndsInv == ASSUME JitInv, NEW c \in Caller, LinkEnds(c) PROVE JitInv'
<1>0. /\ pc[c] = "linking" /\ pc[c] \in Held /\ "load" \in Held /\ "load" \in Compiled
  BY DEF LinkEnds, At, Held, Compiled
<1>h. /\ MyStem(c) \in Stems /\ want[c] \in Key /\ ProcOf[c] \in Proc
      /\ shells[ProcOf[c]][want[c]] \in {0, 1}
  BY <1>0, Holder DEF MyStem
<1>1. FilesNamed'
  <2>1. CASE lib' = Finished(c)
    BY <1>0, <2>1, FinishedNamed DEF LinkEnds, JitInv, FilesNamed
  <2>2. CASE lib' = [lib EXCEPT ![MyStem(c)] = NoLib]
    BY <1>h, <2>2, KeyAssumption DEF LinkEnds, JitInv, FilesNamed, NoLib
  <2> QED
    BY <2>1, <2>2 DEF LinkEnds
<1>2. shells' = [shells EXCEPT ![ProcOf[c]][want[c]] = shells[ProcOf[c]][want[c]]]
  BY <1>h, SameShells DEF LinkEnds
<1>3. CASE GiveUp(c)
  BY <1>0, <1>h, <1>1, <1>2, <1>3, GiveUpInv DEF LinkEnds
<1>4. CASE Count(c, "compiled") /\ Proceed(c, "load") /\ UNCHANGED <<memo, lock>>
  <2>1. StatsType'
    BY <1>4, Counted
  <2> QED
    BY <1>0, <1>h, <1>1, <1>2, <1>4, <2>1, HolderProceeds DEF LinkEnds
<1> QED
  BY <1>3, <1>4 DEF LinkEnds

LEMMA LoadInv == ASSUME JitInv, NEW c \in Caller, Load(c) PROVE JitInv'
<1>0. /\ pc[c] = "load" /\ pc[c] \in Held
  BY DEF Load, At, Held
<1>h. /\ MyStem(c) \in Stems /\ want[c] \in Key /\ ProcOf[c] \in Proc
      /\ shells[ProcOf[c]][want[c]] \in {0, 1}
  BY <1>0, Holder DEF MyStem
<1>1. FilesNamed'
  BY FilesKept DEF Load
<1>2. shells' = [shells EXCEPT ![ProcOf[c]][want[c]] = shells[ProcOf[c]][want[c]]]
  BY <1>h, SameShells DEF Load
<1>3. CASE GiveUp(c)
  BY <1>0, <1>h, <1>1, <1>2, <1>3, GiveUpInv DEF Load
<1>4. CASE /\ lib[MyStem(c)].has \notin {"absent", "torn", "bare"}
           /\ Settle(c, lib[MyStem(c)].has) /\ UNCHANGED stats
  <2>1. StatsType'
    BY <1>4, NotCounted
  <2>2. lib[MyStem(c)].has \in Key
    BY <1>h, <1>4 DEF JitInv, FilesNamed
  <2> QED
    BY <1>0, <1>h, <1>1, <1>2, <1>4, <2>1, <2>2, HolderSettles DEF Load
<1> QED
  BY <1>3, <1>4 DEF Load

(* A death: the process starts anew, and the others see their files only. *)
LEMMA KillInv == ASSUME JitInv, NEW p \in Proc, Kill(p) PROVE JitInv'
<1>a. /\ memo' = [memo EXCEPT ![p] = Unknown]
      /\ stats' = [stats EXCEPT ![p] = NoStats]
      /\ lock' = [lock EXCEPT ![p] = NoCaller]
      /\ shells' = [shells EXCEPT ![p] = [k \in Key |-> 0]]
      /\ pc' = [c \in Caller |-> IF ProcOf[c] = p THEN "idle" ELSE pc[c]]
      /\ want' = [c \in Caller |-> IF ProcOf[c] = p THEN NoKey ELSE want[c]]
      /\ got' = [c \in Caller |-> IF ProcOf[c] = p THEN "absent" ELSE got[c]]
      /\ kills' = kills + 1 /\ UNCHANGED src
      /\ "idle" \notin Held /\ NoCaller \notin Caller
  BY KeyAssumption DEF Kill, Held
<1>1. FilesNamed'
  <2>1. CASE UNCHANGED lib
    BY <2>1, <1>a DEF JitInv, FilesNamed
  <2>2. ASSUME NEW c \in Caller, At(c, "linking"), lib' = Finished(c) PROVE FilesNamed'
    BY <2>2, <1>a, FinishedNamed DEF At, JitInv, FilesNamed
  <2> QED
    BY <2>1, <2>2 DEF Kill
<1>2. TypeOK'
  <2>1. /\ memo' \in [Proc -> [Key -> Key \cup {"unknown", "none"}]]
        /\ stats' \in [Proc -> [compiled : Nat, cache_hits : Nat, failures : Nat]]
        /\ lock' \in [Proc -> Caller \cup {NoCaller}]
        /\ shells' \in [Proc -> [Key -> Nat]]
        /\ kills' \in Nat
    BY <1>a DEF JitInv, TypeOK, Unknown, NoStats
  <2>2. /\ pc' \in [Caller -> Held \cup {"idle", "lock"}]
        /\ want' \in [Caller -> Key \cup {NoKey}]
        /\ got' \in [Caller -> Key \cup {"absent", "empty"}]
    BY <1>a DEF JitInv, TypeOK
  <2>3. \A c \in Caller : pc'[c] \in Held <=> lock'[ProcOf[c]] = c
    BY <1>a, KeyAssumption DEF JitInv, TypeOK
  <2>4. \A q \in Proc : lock'[q] # NoCaller => ProcOf[lock'[q]] = q
    BY <1>a DEF JitInv, TypeOK
  <2> QED
    BY <1>1, <2>1, <2>2, <2>3, <2>4 DEF TypeOK, FilesNamed
<1>3. Asked'
  BY <1>a DEF JitInv, Asked
<1>4. \A c \in Caller : pc'[c] \in Held =>
        ProcOf[c] # p /\ pc'[c] = pc[c] /\ want'[c] = want[c]
  BY <1>a
<1>5. \A q \in Proc : q # p =>
        /\ memo'[q] = memo[q] /\ shells'[q] = shells[q] /\ lock'[q] = lock[q]
        /\ \A c \in Caller : ProcOf[c] = q => pc'[c] = pc[c] /\ want'[c] = want[c]
  BY <1>a DEF JitInv, TypeOK
<1>6. Unsettled'
  BY <1>4, <1>5, KeyAssumption DEF JitInv, Unsettled
<1>7. ShellsPaid'
  <2> SUFFICES ASSUME NEW q \in Proc, NEW k \in Key
               PROVE  /\ shells'[q][k] =< 1
                      /\ \A d \in Caller :
                           ProcOf[d] = q /\ pc'[d] \in Held \ Compiled => shells'[q][want'[d]] = 0
                      /\ memo'[q][k] = "unknown" /\ shells'[q][k] = 1
                           => \E d \in Caller : lock'[q] = d /\ want'[d] = k /\ pc'[d] \in Compiled
    BY DEF ShellsPaid
  <2>1. CASE q = p
    BY <2>1, <1>a, <1>4 DEF JitInv, TypeOK
  <2>2. CASE q # p
    <3>1. lock[q] # NoCaller => ProcOf[lock[q]] = q
      BY DEF JitInv, TypeOK
    <3> QED
      BY <2>2, <3>1, <1>4, <1>5, <1>a DEF JitInv, ShellsPaid
  <2> QED
    BY <2>1, <2>2
<1> QED
  BY <1>1, <1>2, <1>3, <1>6, <1>7 DEF JitInv

LEMMA StepInv == JitInv /\ [JitNext]_jitVars => JitInv'
<1> SUFFICES ASSUME JitInv, [JitNext]_jitVars PROVE JitInv'
  OBVIOUS
<1>1. CASE UNCHANGED jitVars
  BY <1>1 DEF jitVars, files, JitInv, TypeOK, FilesNamed, Asked, Unsettled, ShellsPaid
<1>2. ASSUME NEW c \in Caller, Query(c) \/ Step(c) PROVE JitInv'
  BY <1>2, QueryInv, LockInv, FileExistsInv, OpenSourceInv, FillSourceInv,
     CompileInv, LinkInv, LinkEndsInv, LoadInv DEF Step
<1>3. ASSUME NEW p \in Proc, Kill(p) PROVE JitInv'
  BY <1>3, KillInv
<1> QED
  BY <1>1, <1>2, <1>3 DEF JitNext

LEMMA JitInvHolds == JitSpec => []JitInv
BY JitInitInv, StepInv, PTL DEF JitSpec

(* Type correctness, with the mutual exclusion of the mutex. *)
THEOREM JitTypeCorrect == JitSpec => []TypeOK
<1>1. JitInv => TypeOK
  BY DEF JitInv
<1> QED
  BY <1>1, JitInvHolds, PTL

(* One shell-out: a process calls the compiler at most once for a kernel,  *)
(* however many threads ask for it and whether or not it succeeds.         *)
THEOREM CompiledOnce == JitSpec => []OneShellOut
<1>1. JitInv => OneShellOut
  BY DEF JitInv, ShellsPaid, OneShellOut
<1> QED
  BY <1>1, JitInvHolds, PTL

-----------------------------------------------------------------------------
(* The refinement. *)

LEMMA SettleIsSettle ==
  ASSUME JitInv, NEW c \in Caller, pc[c] \in Held,
         NEW fn \in {want[c], "none"}, Settle(c, fn)
  PROVE  Table!Next
<1>1. ProcOf[c] \in Proc /\ want[c] \in Key /\ memo[ProcOf[c]][want[c]] = "unknown"
  BY Holder
<1>2. Table!Settle(ProcOf[c], want[c])
  BY <1>1 DEF Settle, Table!Settle
<1> QED
  BY <1>1, <1>2 DEF Table!Next

LEMMA HolderRefines ==
  ASSUME JitInv, NEW c \in Caller, Step(c)
  PROVE  Table!Next \/ UNCHANGED memo
<1>g. ASSUME pc[c] \in Held, GiveUp(c) PROVE Table!Next
  BY <1>g, SettleIsSettle DEF GiveUp
<1>1. CASE pc[c] \notin Held
  BY <1>1 DEF Step, Lock, FileExists, OpenSource, FillSource, Compile, Link,
     LinkEnds, Load, At, Held
<1>2. CASE pc[c] \in Held /\ Load(c)
  <2>1. CASE lib[MyStem(c)].has \in {"absent", "torn", "bare"}
    BY <1>2, <1>g, <2>1 DEF Load
  <2>2. CASE lib[MyStem(c)].has \notin {"absent", "torn", "bare"}
    <3>1. MyStem(c) = Stem[want[c]] /\ MyStem(c) \in Stems /\ want[c] \in Key
      BY <1>2, Holder DEF MyStem
    <3>2. lib[MyStem(c)].has = want[c]
      BY <2>2, <3>1, KeyAssumption DEF JitInv, FilesNamed
    <3> QED
      BY <1>2, <2>2, <3>2, SettleIsSettle DEF Load
  <2> QED
    BY <2>1, <2>2
<1>3. CASE pc[c] \in Held /\ ~Load(c)
  BY <1>3, <1>g DEF Step, Lock, FileExists, OpenSource, FillSource, Compile, Link, LinkEnds
<1> QED
  BY <1>1, <1>2, <1>3

LEMMA StepRefines == JitInv /\ [JitNext]_jitVars => [Table!Next]_memo
<1> SUFFICES ASSUME JitInv, [JitNext]_jitVars PROVE Table!Next \/ UNCHANGED memo
  OBVIOUS
<1>1. CASE UNCHANGED jitVars
  BY <1>1 DEF jitVars
<1>2. ASSUME NEW c \in Caller, Query(c) PROVE UNCHANGED memo
  BY <1>2 DEF Query
<1>3. ASSUME NEW c \in Caller, Step(c) PROVE Table!Next \/ UNCHANGED memo
  BY <1>3, HolderRefines
<1>4. ASSUME NEW p \in Proc, Kill(p) PROVE Table!Next
  <2>1. Table!Restart(p)
    BY <1>4 DEF Kill, Table!Restart, Table!Open, Unknown
  <2> QED
    BY <2>1 DEF Table!Next
<1> QED
  BY <1>1, <1>2, <1>3, <1>4 DEF JitNext

(* The refinement: whatever processes of the same build do to a directory  *)
(* that was empty at first, and whenever one dies, a request is settled    *)
(* once in a process's life, by the kernel that was asked for or by none.  *)
THEOREM JitImplements == JitSpec => ImplementsKernelTable
<1>1. JitInit => Table!Init
  BY DEF JitInit, Table!Init, Table!Open, Unknown
<1> QED
  BY <1>1, JitInvHolds, StepRefines, PTL DEF JitSpec, ImplementsKernelTable, Table!Spec

-----------------------------------------------------------------------------
(* The statistics. *)

\* A library that is about to be loaded has been counted.
Loading(p) == IF \E c \in Caller : lock[p] = c /\ pc[c] = "load" THEN 1 ELSE 0

Paid(p) == stats[p].compiled + stats[p].cache_hits

StatsPaid == \A p \in Proc :
  /\ stats[p].failures = Cardinality(Failed(p))
  /\ Paid(p) >= Cardinality(Served(p)) + Loading(p)
  /\ Paid(p) =< Cardinality(Served(p)) + Cardinality(Failed(p)) + Loading(p)

LEMMA FiniteKnown ==
  ASSUME NEW p \in Proc
  PROVE  /\ IsFiniteSet(Failed(p)) /\ Cardinality(Failed(p)) \in Nat
         /\ IsFiniteSet(Served(p)) /\ Cardinality(Served(p)) \in Nat
BY FS_Subset, FS_CardinalityType, KeyAssumption DEF Failed, Served

(* The two sets after an answer. *)
LEMMA KnownGrows ==
  ASSUME JitInv, NEW c \in Caller, pc[c] \in Held,
         NEW fn \in Key \cup {"none"}, Settle(c, fn)
  PROVE  LET p == ProcOf[c] IN
         /\ fn = "none" => /\ Cardinality(Failed(p)') = Cardinality(Failed(p)) + 1
                           /\ Served(p)' = Served(p)
         /\ fn \in Key => /\ Cardinality(Served(p)') = Cardinality(Served(p)) + 1
                          /\ Failed(p)' = Failed(p)
<1> DEFINE p == ProcOf[c]
           k == want[c]
<1>1. p \in Proc /\ k \in Key /\ memo[p][k] = "unknown"
  BY Holder
<1>2. \A l \in Key : memo'[p][l] = IF l = k THEN fn ELSE memo[p][l]
  BY <1>1 DEF Settle, JitInv, TypeOK
<1>3. "unknown" \notin Key /\ "none" \notin Key
  BY KeyAssumption
<1>4. CASE fn = "none"
  <2>1. Failed(p)' = Failed(p) \cup {k} /\ k \notin Failed(p)
    BY <1>1, <1>2, <1>4 DEF Failed
  <2>2. Served(p)' = Served(p)
    BY <1>1, <1>2, <1>3, <1>4 DEF Served
  <2> QED
    BY <1>1, <1>3, <1>4, <2>1, <2>2, FiniteKnown, FS_AddElement
<1>5. CASE fn \in Key
  <2>1. Served(p)' = Served(p) \cup {k} /\ k \notin Served(p)
    BY <1>1, <1>2, <1>3, <1>5 DEF Served
  <2>2. Failed(p)' = Failed(p)
    BY <1>1, <1>2, <1>3, <1>5 DEF Failed
  <2> QED
    BY <1>1, <1>3, <1>5, <2>1, <2>2, FiniteKnown, FS_AddElement
<1> QED
  BY <1>4, <1>5

(* A process is not affected by what the threads of another do. *)
LEMMA OtherProcess ==
  ASSUME JitInv, StatsPaid, NEW q \in Proc,
         memo'[q] = memo[q], stats'[q] = stats[q], lock'[q] = lock[q],
         \A d \in Caller : ProcOf[d] = q => (pc'[d] = "load" <=> pc[d] = "load")
  PROVE  /\ stats'[q].failures = Cardinality(Failed(q)')
         /\ Paid(q)' >= Cardinality(Served(q)') + Loading(q)'
         /\ Paid(q)' =< Cardinality(Served(q)') + Cardinality(Failed(q)') + Loading(q)'
<1>1. Failed(q)' = Failed(q) /\ Served(q)' = Served(q) /\ Paid(q)' = Paid(q)
  BY DEF Failed, Served, Paid
<1>2. lock[q] # NoCaller => ProcOf[lock[q]] = q
  BY DEF JitInv, TypeOK
<1>3. Loading(q)' = Loading(q)
  BY <1>2, KeyAssumption DEF Loading
<1> QED
  BY <1>1, <1>3 DEF StatsPaid

LEMMA StatsInit == JitInit => StatsPaid
<1> SUFFICES ASSUME JitInit, NEW p \in Proc
             PROVE  /\ stats[p].failures = Cardinality(Failed(p))
                    /\ Paid(p) >= Cardinality(Served(p)) + Loading(p)
                    /\ Paid(p) =< Cardinality(Served(p)) + Cardinality(Failed(p)) + Loading(p)
  BY DEF StatsPaid
<1>1. Failed(p) = {} /\ Served(p) = {}
  BY KeyAssumption DEF JitInit, Unknown, Failed, Served
<1>2. Loading(p) = 0
  BY KeyAssumption DEF JitInit, Loading
<1> QED
  BY <1>1, <1>2, FS_EmptySet DEF JitInit, NoStats, Paid

\* What a step of thread c that leaves the other processes alone must do.
OwnStats(p) ==
  /\ stats'[p].failures = Cardinality(Failed(p)')
  /\ Paid(p)' >= Cardinality(Served(p)') + Loading(p)'
  /\ Paid(p)' =< Cardinality(Served(p)') + Cardinality(Failed(p)') + Loading(p)'

LEMMA OnlyOwn ==
  ASSUME JitInv, StatsPaid, NEW c \in Caller,
         \A q \in Proc : q # ProcOf[c] =>
           memo'[q] = memo[q] /\ stats'[q] = stats[q] /\ lock'[q] = lock[q],
         \A d \in Caller : d # c => pc'[d] = pc[d],
         OwnStats(ProcOf[c])
  PROVE  StatsPaid'
<1> SUFFICES ASSUME NEW q \in Proc PROVE OwnStats(q)
  BY DEF StatsPaid, OwnStats
<1>1. CASE q = ProcOf[c]
  BY <1>1
<1>2. CASE q # ProcOf[c]
  BY <1>2, OtherProcess DEF OwnStats
<1> QED
  BY <1>1, <1>2

(* A step that neither counts nor answers, and does not begin a load. *)
LEMMA QuietStep ==
  ASSUME JitInv, StatsPaid, NEW c \in Caller, UNCHANGED <<memo, stats>>,
         NEW there, GoTo(c, there), there # "load", pc[c] # "load",
         \/ UNCHANGED lock
         \/ lock[ProcOf[c]] = NoCaller /\ lock' = [lock EXCEPT ![ProcOf[c]] = c]
  PROVE  StatsPaid'
<1> DEFINE p == ProcOf[c]
<1>1. p \in Proc /\ pc' = [pc EXCEPT ![c] = there]
  BY KeyAssumption DEF GoTo
<1>2. \A d \in Caller : (pc'[d] = "load" <=> pc[d] = "load") /\ (d # c => pc'[d] = pc[d])
  BY <1>1 DEF JitInv, TypeOK
<1>3. CASE UNCHANGED lock
  BY <1>2, <1>3, OtherProcess DEF StatsPaid
<1>4. CASE lock[p] = NoCaller /\ lock' = [lock EXCEPT ![p] = c]
  <2>1. Loading(p) = 0 /\ Loading(p)' = 0
    BY <1>1, <1>2, <1>4, KeyAssumption DEF Loading, JitInv, TypeOK
  <2>2. Failed(p)' = Failed(p) /\ Served(p)' = Served(p) /\ Paid(p)' = Paid(p)
    BY DEF Failed, Served, Paid
  <2>3. OwnStats(p)
    BY <1>1, <2>1, <2>2 DEF OwnStats, StatsPaid
  <2> QED
    BY <1>2, <1>4, <2>3, OnlyOwn DEF JitInv, TypeOK
<1> QED
  BY <1>3, <1>4

(* A load begins, and is counted as a compile or as a hit. *)
LEMMA LoadBegins ==
  ASSUME JitInv, StatsPaid, NEW c \in Caller, pc[c] \in Held, pc[c] # "load",
         UNCHANGED <<memo, lock>>, GoTo(c, "load"),
         NEW f \in {"compiled", "cache_hits"}, Count(c, f)
  PROVE  StatsPaid'
<1> DEFINE p == ProcOf[c]
<1>1. p \in Proc /\ lock[p] = c /\ pc' = [pc EXCEPT ![c] = "load"]
  BY Holder DEF GoTo
<1>2. Loading(p) = 0 /\ Loading(p)' = 1
  BY <1>1 DEF Loading, JitInv, TypeOK
<1>3. Failed(p)' = Failed(p) /\ Served(p)' = Served(p)
  BY DEF Failed, Served
<1>4. stats[p] \in [compiled : Nat, cache_hits : Nat, failures : Nat]
  BY <1>1 DEF JitInv, TypeOK
<1>5. stats'[p] = [stats[p] EXCEPT ![f] = @ + 1]
  BY <1>1 DEF Count, JitInv, TypeOK
<1>6. Paid(p) \in Nat /\ Paid(p)' = Paid(p) + 1 /\ stats'[p].failures = stats[p].failures
  BY <1>4, <1>5 DEF Paid
<1>7. OwnStats(p)
  BY <1>1, <1>2, <1>3, <1>6, FiniteKnown DEF OwnStats, StatsPaid
<1>8. \A q \in Proc : q # p => stats'[q] = stats[q]
  BY DEF Count, JitInv, TypeOK
<1> QED
  BY <1>1, <1>7, <1>8, OnlyOwn DEF JitInv, TypeOK

LEMMA Released ==
  ASSUME JitInv, NEW c \in Caller, pc[c] \in Held, NEW fn, Settle(c, fn)
  PROVE  /\ Loading(ProcOf[c]) = IF pc[c] = "load" THEN 1 ELSE 0
         /\ Loading(ProcOf[c])' = 0
         /\ \A q \in Proc : q # ProcOf[c] => memo'[q] = memo[q] /\ lock'[q] = lock[q]
         /\ \A d \in Caller : d # c => pc'[d] = pc[d]
<1>1. ProcOf[c] \in Proc /\ lock[ProcOf[c]] = c
  BY Holder
<1>2. /\ lock' = [lock EXCEPT ![ProcOf[c]] = NoCaller]
      /\ memo' = [memo EXCEPT ![ProcOf[c]][want[c]] = fn]
      /\ pc' = [pc EXCEPT ![c] = "idle"]
  BY DEF Settle, Answer, GoTo
<1>3. Loading(ProcOf[c]) = IF pc[c] = "load" THEN 1 ELSE 0
  BY <1>1 DEF Loading
<1>4. Loading(ProcOf[c])' = 0
  BY <1>1, <1>2, KeyAssumption DEF Loading, JitInv, TypeOK
<1> QED
  BY <1>1, <1>2, <1>3, <1>4 DEF JitInv, TypeOK

LEMMA FailureCounted ==
  ASSUME JitInv, StatsPaid, NEW c \in Caller, pc[c] \in Held, GiveUp(c)
  PROVE  StatsPaid'
<1> DEFINE p == ProcOf[c]
<1>1. p \in Proc
  BY Holder
<1>2. stats[p] \in [compiled : Nat, cache_hits : Nat, failures : Nat]
  BY <1>1 DEF JitInv, TypeOK
<1>3. stats'[p] = [stats[p] EXCEPT !.failures = @ + 1]
  BY <1>1 DEF GiveUp, Count, JitInv, TypeOK
<1>4. /\ Cardinality(Failed(p)') = Cardinality(Failed(p)) + 1
      /\ Served(p)' = Served(p)
  BY KnownGrows DEF GiveUp
<1>5. Paid(p) \in Nat /\ Paid(p)' = Paid(p) /\ stats'[p].failures = stats[p].failures + 1
  BY <1>2, <1>3 DEF Paid
<1>6. Loading(p) \in {0, 1} /\ Loading(p)' = 0
  BY Released DEF GiveUp
<1>7. OwnStats(p)
  BY <1>1, <1>4, <1>5, <1>6, FiniteKnown DEF OwnStats, StatsPaid
<1>8. \A q \in Proc : q # p => stats'[q] = stats[q]
  BY DEF GiveUp, Count, JitInv, TypeOK
<1> QED
  BY <1>7, <1>8, Released, OnlyOwn DEF GiveUp

LEMMA KernelCounted ==
  ASSUME JitInv, StatsPaid, NEW c \in Caller, pc[c] = "load",
         NEW fn \in Key, Settle(c, fn), UNCHANGED stats
  PROVE  StatsPaid'
<1> DEFINE p == ProcOf[c]
<1>0. pc[c] \in Held
  BY DEF Held
<1>1. p \in Proc
  BY <1>0, Holder
<1>2. /\ Cardinality(Served(p)') = Cardinality(Served(p)) + 1
      /\ Failed(p)' = Failed(p)
  BY <1>0, KnownGrows
<1>3. Loading(p) = 1 /\ Loading(p)' = 0
  BY <1>0, Released
<1>4. Paid(p) \in Nat /\ Paid(p)' = Paid(p)
  BY <1>1 DEF Paid, JitInv, TypeOK
<1>5. OwnStats(p)
  BY <1>1, <1>2, <1>3, <1>4, FiniteKnown DEF OwnStats, StatsPaid
<1> QED
  BY <1>0, <1>5, Released, OnlyOwn

LEMMA StatsStep == JitInv /\ StatsPaid /\ [JitNext]_jitVars => StatsPaid'
<1> SUFFICES ASSUME JitInv, StatsPaid, [JitNext]_jitVars PROVE StatsPaid'
  OBVIOUS
<1>1. CASE UNCHANGED jitVars
  BY <1>1 DEF jitVars, StatsPaid, Failed, Served, Paid, Loading
<1>g. ASSUME NEW c \in Caller, pc[c] \in Held, GiveUp(c) PROVE StatsPaid'
  BY <1>g, FailureCounted
<1>2. ASSUME NEW c \in Caller, Query(c) PROVE StatsPaid'
  <2>1. CASE UNCHANGED <<want, pc>>
    BY <1>2, <2>1 DEF Query, StatsPaid, Failed, Served, Paid, Loading
  <2>2. CASE GoTo(c, "lock")
    BY <1>2, <2>2, QuietStep DEF Query, At
  <2> QED
    BY <1>2, <2>1, <2>2 DEF Query
<1>3. ASSUME NEW c \in Caller, Lock(c) PROVE StatsPaid'
  <2>1. CASE MyMemo(c) = "unknown"
    BY <1>3, <2>1, QuietStep DEF Lock, At, Proceed
  <2>2. CASE MyMemo(c) # "unknown"
    BY <1>3, <2>2, QuietStep DEF Lock, At, Answer
  <2> QED
    BY <2>1, <2>2
<1>4. ASSUME NEW c \in Caller, FileExists(c) PROVE StatsPaid'
  <2>0. pc[c] = "exists" /\ pc[c] \in Held
    BY <1>4 DEF FileExists, At, Held
  <2>1. CASE Proceed(c, "source") /\ UNCHANGED stats
    BY <1>4, <2>0, <2>1, QuietStep DEF FileExists, Proceed
  <2>2. CASE Proceed(c, "load") /\ Count(c, "cache_hits")
    BY <1>4, <2>0, <2>2, LoadBegins DEF FileExists, Proceed
  <2> QED
    BY <1>4, <2>1, <2>2 DEF FileExists
<1>5. ASSUME NEW c \in Caller, OpenSource(c) PROVE StatsPaid'
  <2>0. pc[c] = "source" /\ pc[c] \in Held
    BY <1>5 DEF OpenSource, At, Held
  <2>1. CASE Proceed(c, "fill") /\ UNCHANGED <<memo, stats, lock>>
    BY <2>0, <2>1, QuietStep DEF Proceed
  <2> QED
    BY <1>5, <1>g, <2>0, <2>1 DEF OpenSource
<1>6. ASSUME NEW c \in Caller, FillSource(c) PROVE StatsPaid'
  <2>0. pc[c] = "fill" /\ pc[c] \in Held
    BY <1>6 DEF FillSource, At, Held
  <2>1. CASE Proceed(c, "compile") /\ UNCHANGED <<memo, stats, lock>>
    BY <2>0, <2>1, QuietStep DEF Proceed
  <2> QED
    BY <1>6, <1>g, <2>0, <2>1 DEF FillSource
<1>7. ASSUME NEW c \in Caller, Compile(c) PROVE StatsPaid'
  <2>0. pc[c] = "compile" /\ pc[c] \in Held
    BY <1>7 DEF Compile, At, Held
  <2>1. CASE GoTo(c, "link") /\ UNCHANGED <<memo, stats, lock>>
    BY <2>0, <2>1, QuietStep
  <2> QED
    BY <1>7, <1>g, <2>0, <2>1 DEF Compile
<1>8. ASSUME NEW c \in Caller, Link(c) PROVE StatsPaid'
  BY <1>8, QuietStep DEF Link, At, Proceed
<1>9. ASSUME NEW c \in Caller, LinkEnds(c) PROVE StatsPaid'
  <2>0. pc[c] = "linking" /\ pc[c] \in Held
    BY <1>9 DEF LinkEnds, At, Held
  <2>1. CASE Count(c, "compiled") /\ Proceed(c, "load") /\ UNCHANGED <<memo, lock>>
    BY <2>0, <2>1, LoadBegins DEF Proceed
  <2> QED
    BY <1>9, <1>g, <2>0, <2>1 DEF LinkEnds
<1>10. ASSUME NEW c \in Caller, Load(c) PROVE StatsPaid'
  <2>0. pc[c] = "load" /\ pc[c] \in Held
    BY <1>10 DEF Load, At, Held
  <2>1. CASE lib[MyStem(c)].has \in {"absent", "torn", "bare"}
    BY <1>10, <1>g, <2>0, <2>1 DEF Load
  <2>2. CASE lib[MyStem(c)].has \notin {"absent", "torn", "bare"}
    <3>1. MyStem(c) \in Stems
      BY <2>0, Holder DEF MyStem
    <3>2. lib[MyStem(c)].has \in Key
      BY <2>2, <3>1 DEF JitInv, FilesNamed
    <3> QED
      BY <1>10, <2>0, <2>2, <3>2, KernelCounted DEF Load
  <2> QED
    BY <2>1, <2>2
<1>11. ASSUME NEW p \in Proc, Kill(p) PROVE StatsPaid'
  <2>a. /\ memo' = [memo EXCEPT ![p] = Unknown]
        /\ stats' = [stats EXCEPT ![p] = NoStats]
        /\ lock' = [lock EXCEPT ![p] = NoCaller]
        /\ pc' = [c \in Caller |-> IF ProcOf[c] = p THEN "idle" ELSE pc[c]]
    BY <1>11 DEF Kill
  <2> SUFFICES ASSUME NEW q \in Proc PROVE OwnStats(q)
    BY DEF StatsPaid, OwnStats
  <2>1. CASE q = p
    <3>1. Failed(q)' = {} /\ Served(q)' = {}
      BY <2>1, <2>a, KeyAssumption DEF Unknown, Failed, Served, JitInv, TypeOK
    <3>2. Loading(q)' = 0
      BY <2>1, <2>a, KeyAssumption DEF Loading, JitInv, TypeOK
    <3>3. stats'[q] = NoStats
      BY <2>1, <2>a DEF JitInv, TypeOK
    <3> QED
      BY <3>1, <3>2, <3>3, FS_EmptySet DEF NoStats, Paid, OwnStats
  <2>2. CASE q # p
    <3>1. /\ memo'[q] = memo[q] /\ stats'[q] = stats[q] /\ lock'[q] = lock[q]
          /\ \A d \in Caller : ProcOf[d] = q => (pc'[d] = "load" <=> pc[d] = "load")
      BY <2>2, <2>a DEF JitInv, TypeOK
    <3> QED
      BY <3>1, OtherProcess DEF OwnStats
  <2> QED
    BY <2>1, <2>2
<1> QED
  BY <1>1, <1>2, <1>3, <1>4, <1>5, <1>6, <1>7, <1>8, <1>9, <1>10, <1>11 DEF JitNext, Step

(* The statistics add up: failures counts the kernels that fell back, and  *)
(* every kernel that did not was paid for by a compile or a hit.           *)
THEOREM StatsAddUp == JitSpec => []StatsTrue
<1>1. JitInv /\ StatsPaid => StatsTrue
  <2> SUFFICES ASSUME JitInv, StatsPaid, NEW p \in Proc
               PROVE  /\ stats[p].failures = Cardinality(Failed(p))
                      /\ Paid(p) >= Cardinality(Served(p))
                      /\ Paid(p) =< Cardinality(Served(p)) + Cardinality(Failed(p))
                                     + (IF lock[p] = NoCaller THEN 0 ELSE 1)
    BY DEF StatsTrue, Paid
  <2>1. Loading(p) =< (IF lock[p] = NoCaller THEN 0 ELSE 1) /\ Loading(p) \in {0, 1}
    BY KeyAssumption DEF Loading
  <2>2. Paid(p) \in Nat
    BY DEF Paid, JitInv, TypeOK
  <2> QED
    BY <2>1, <2>2, FiniteKnown DEF StatsPaid
<1> QED
  BY <1>1, StatsInit, StatsStep, JitInvHolds, PTL DEF JitSpec

-----------------------------------------------------------------------------
(* Induction over the naturals, stated for a set of numbers; the least     *)
(* element of a set, and the loops that add up a table.                    *)

LEMMA LessRel == \A x, z \in Nat : <<z, x>> \in OpToRel(<, Nat) <=> z < x
BY DEF OpToRel

LEMMA LeastElement ==
  ASSUME NEW S \in SUBSET Nat, S # {}
  PROVE  \E x \in S : \A z \in S : x =< z
<1>1. PICK R : IsWellFoundedOn(R, Nat) /\ \A x, z \in Nat : <<z, x>> \in R <=> z < x
  BY NatLessThanWellFounded, LessRel
<1>2. PICK x \in S : \A z \in S : ~ (<<z, x>> \in R)
  BY <1>1, WFMin
<1>3. ASSUME NEW z \in S PROVE ~ (z < x)
  BY <1>1, <1>2
<1>4. \A z \in S : x =< z
  BY <1>3
<1> QED BY <1>4

LEMMA SetInduction ==
  ASSUME NEW S, 0 \in S, \A k \in Nat : k \in S => k + 1 \in S
  PROVE  Nat \subseteq S
<1> SUFFICES ASSUME Nat \ S # {} PROVE FALSE
  OBVIOUS
<1>1. PICK x \in Nat \ S : \A z \in Nat \ S : x =< z
  BY LeastElement
<1>2. x # 0 /\ x - 1 \in Nat /\ x - 1 \in S
  BY <1>1
<1> QED BY <1>1, <1>2

\* A running sum is the table whose steps are the summands.
LEMMA SumIs ==
  ASSUME NEW k \in Nat, NEW f, NEW B, B[0] = 0,
         \A i \in 0 .. k : B[i] \in Nat,
         \A i \in 0 .. k - 1 : B[i + 1] = B[i] + f[i]
  PROVE  RunningSum(f, k) = B[k]
<1> DEFINE body(g) == [i \in 0 .. k |-> IF i = 0 THEN 0 ELSE g[i - 1] + f[i - 1]]
           F == [i \in 0 .. k |-> B[i]]
           sum == CHOOSE g : g = body(g)
<1>1. F = body(F)
  <2>1. ASSUME NEW i \in 0 .. k, i # 0 PROVE F[i] = F[i - 1] + f[i - 1]
    <3>1. i - 1 \in 0 .. k - 1 /\ i - 1 \in 0 .. k /\ (i - 1) + 1 = i
      BY <2>1
    <3> QED BY <3>1
  <2>2. F[0] = 0
    OBVIOUS
  <2> QED BY <2>1, <2>2
<1>2. sum = body(sum)
  <2> HIDE DEF F, body
  <2> QED BY <1>1
<1>3. RunningSum(f, k) = sum[k]
  BY DEF RunningSum
<1> HIDE DEF sum, F
<1>4. \A i \in 0 .. k : sum[i] = IF i = 0 THEN 0 ELSE sum[i - 1] + f[i - 1]
  BY <1>2
<1> HIDE DEF body
<1> DEFINE S == {i \in Nat : i =< k => sum[i] = B[i]}
<1>5. 0 \in S
  BY <1>4
<1>6. ASSUME NEW i \in Nat, i \in S PROVE i + 1 \in S
  <2> SUFFICES ASSUME i + 1 =< k PROVE sum[i + 1] = B[i + 1]
    OBVIOUS
  <2>1. i \in 0 .. k - 1 /\ i + 1 \in 0 .. k /\ i + 1 # 0 /\ (i + 1) - 1 = i
    OBVIOUS
  <2>2. sum[i + 1] = sum[i] + f[i]
    BY <1>4, <2>1
  <2>3. sum[i] = B[i]
    BY <1>6, <2>1
  <2> QED BY <2>1, <2>2, <2>3
<1>7. Nat \subseteq S
  <2> HIDE DEF S
  <2> QED BY <1>5, <1>6, SetInduction
<1> QED BY <1>3, <1>7

\* A set that grows from nothing in k steps; f counts what each adds.
Growing(S, f, k) ==
  /\ S[0] = {}
  /\ \A i \in 0 .. k : IsFiniteSet(S[i])
  /\ \A i \in 0 .. k - 1 : S[i] \subseteq S[i + 1] /\ f[i] = Cardinality(S[i + 1] \ S[i])

\* Adding up what each step adds to a growing set counts the set.
LEMMA SumCounts ==
  ASSUME NEW k \in Nat, NEW f, NEW S, Growing(S, f, k)
  PROVE  RunningSum(f, k) = Cardinality(S[k])
<1>0. /\ S[0] = {}
      /\ \A i \in 0 .. k : IsFiniteSet(S[i])
      /\ \A i \in 0 .. k - 1 : S[i] \subseteq S[i + 1] /\ f[i] = Cardinality(S[i + 1] \ S[i])
  BY DEF Growing
<1> DEFINE B == [i \in 0 .. k |-> Cardinality(S[i])]
<1>1. B[0] = 0
  BY <1>0, FS_EmptySet
<1>2. \A i \in 0 .. k : B[i] \in Nat
  BY <1>0, FS_CardinalityType
<1>3. ASSUME NEW i \in 0 .. k - 1 PROVE B[i + 1] = B[i] + f[i]
  <2>1. i \in 0 .. k /\ i + 1 \in 0 .. k
    OBVIOUS
  <2>2. IsFiniteSet(S[i]) /\ IsFiniteSet(S[i + 1]) /\ S[i] \subseteq S[i + 1]
    BY <1>0, <2>1
  <2>3. S[i] \cap (S[i + 1] \ S[i]) = {} /\ S[i] \cup (S[i + 1] \ S[i]) = S[i + 1]
    BY <2>2
  <2>4. IsFiniteSet(S[i + 1] \ S[i])
    BY <2>2, FS_Difference
  <2>5. Cardinality(S[i + 1]) = Cardinality(S[i]) + Cardinality(S[i + 1] \ S[i])
    <3>1. Cardinality(S[i] \cup (S[i + 1] \ S[i]))
            = Cardinality(S[i]) + Cardinality(S[i + 1] \ S[i])
                - Cardinality(S[i] \cap (S[i + 1] \ S[i]))
      BY <2>2, <2>4, FS_Union
    <3>2. Cardinality(S[i]) \in Nat /\ Cardinality(S[i + 1] \ S[i]) \in Nat
      BY <2>2, <2>4, FS_CardinalityType
    <3>3. Cardinality(S[i] \cap (S[i + 1] \ S[i])) = 0
      BY <2>3, FS_EmptySet
    <3>4. Cardinality(S[i] \cup (S[i + 1] \ S[i])) = Cardinality(S[i + 1])
      BY <2>3
    <3> HIDE DEF B
    <3> QED BY <3>1, <3>2, <3>3, <3>4
  <2> QED BY <1>0, <2>1, <2>5
<1> HIDE DEF B
<1>4. RunningSum(f, k) = B[k]
  BY <1>1, <1>2, <1>3, SumIs
<1> QED BY <1>4 DEF B


\* f counts the elements of D by their key, up to k; those of a key under k.
Tallied(f, D, key, k) ==
  /\ IsFiniteSet(D)
  /\ \A x \in D : key[x] \in Nat
  /\ \A s \in 0 .. k - 1 : f[s] = Cardinality({x \in D : key[x] = s})

Under(D, key, k) == {x \in D : key[x] < k}

LEMMA KeySum ==
  ASSUME NEW D, NEW key, NEW k \in Nat, NEW f, Tallied(f, D, key, k)
  PROVE  RunningSum(f, k) = Cardinality(Under(D, key, k))
<1> DEFINE S == [s \in 0 .. k |-> {x \in D : key[x] < s}]
<1>0. /\ IsFiniteSet(D)
      /\ \A x \in D : key[x] \in Nat
      /\ \A s \in 0 .. k - 1 : f[s] = Cardinality({x \in D : key[x] = s})
  BY DEF Tallied
<1>1. S[0] = {}
  BY <1>0
<1>2. ASSUME NEW s \in 0 .. k PROVE IsFiniteSet(S[s])
  <2>1. S[s] \in SUBSET D
    OBVIOUS
  <2> HIDE DEF S
  <2> QED BY <1>0, <2>1, FS_Subset
<1>3. ASSUME NEW s \in 0 .. k - 1
      PROVE  S[s] \subseteq S[s + 1] /\ f[s] = Cardinality(S[s + 1] \ S[s])
  <2>1. s \in 0 .. k /\ s + 1 \in 0 .. k /\ s \in Nat
    OBVIOUS
  <2>2. S[s] \subseteq S[s + 1]
    BY <1>0, <2>1
  <2>3. S[s + 1] \ S[s] = {x \in D : key[x] = s}
    BY <1>0, <2>1
  <2>4. f[s] = Cardinality({x \in D : key[x] = s})
    BY <1>0
  <2> QED BY <2>2, <2>3, <2>4
<1>4. RunningSum(f, k) = Cardinality(S[k])
  <2> HIDE DEF S
  <2>1. Growing(S, f, k)
    BY <1>1, <1>2, <1>3 DEF Growing
  <2> QED BY <2>1, SumCounts
<1>5. S[k] = Under(D, key, k)
  BY DEF Under
<1> QED BY <1>4, <1>5

\* The sum goes up by the next summand.
LEMMA SumSteps ==
  ASSUME NEW k \in Nat, NEW f, \A i \in 0 .. k - 1 : f[i] \in Nat
  PROVE  /\ RunningSum(f, 0) = 0
         /\ \A i \in 0 .. k : RunningSum(f, i) \in Nat
         /\ \A i \in 0 .. k - 1 : RunningSum(f, i + 1) = RunningSum(f, i) + f[i]
<1> DEFINE IsTable(B, j) == B[0] = 0 /\ \A i \in 0 .. j - 1 : B[i + 1] = B[i] + f[i]
           S == {j \in Nat : j =< k => \E B \in [0 .. j -> Nat] : IsTable(B, j)}
<1>1. 0 \in S
  <2>1. IsTable([i \in 0 .. 0 |-> 0], 0)
    OBVIOUS
  <2> QED BY <2>1
<1>2. ASSUME NEW j \in Nat, j \in S PROVE j + 1 \in S
  <2> SUFFICES ASSUME j + 1 =< k PROVE \E B \in [0 .. j + 1 -> Nat] : IsTable(B, j + 1)
    OBVIOUS
  <2>1. PICK B \in [0 .. j -> Nat] : IsTable(B, j)
    BY <1>2
  <2> DEFINE C == [i \in 0 .. j + 1 |-> IF i = j + 1 THEN B[j] + f[j] ELSE B[i]]
  <2>2. f[j] \in Nat /\ B[j] \in Nat
    BY <2>1
  <2>3. C \in [0 .. j + 1 -> Nat] /\ C[0] = 0
    BY <2>1, <2>2
  <2>4. ASSUME NEW i \in 0 .. (j + 1) - 1 PROVE C[i + 1] = C[i] + f[i]
    <3>1. CASE i = j
      BY <3>1
    <3>2. CASE i # j
      BY <2>1, <3>2
    <3> QED BY <3>1, <3>2
  <2> HIDE DEF C
  <2>5. IsTable(C, j + 1)
    BY <2>3, <2>4
  <2> HIDE DEF IsTable
  <2> QED BY <2>3, <2>5
<1>3. k \in S
  <2> HIDE DEF S
  <2> QED BY <1>1, <1>2, SetInduction
<1>4. PICK B \in [0 .. k -> Nat] : IsTable(B, k)
  BY <1>3
<1>5. ASSUME NEW j \in 0 .. k PROVE RunningSum(f, j) = B[j]
  <2>1. j \in Nat /\ B[0] = 0 /\ \A i \in 0 .. j : B[i] \in Nat
    BY <1>4
  <2>2. \A i \in 0 .. j - 1 : B[i + 1] = B[i] + f[i]
    BY <1>4
  <2> QED BY <2>1, <2>2, SumIs
<1>6. 0 \in 0 .. k /\ \A i \in 0 .. k - 1 : i \in 0 .. k /\ i + 1 \in 0 .. k
  OBVIOUS
<1>7. RunningSum(f, 0) = 0
  BY <1>4, <1>5, <1>6
<1>8. \A i \in 0 .. k : RunningSum(f, i) \in Nat
  BY <1>4, <1>5
<1>9. \A i \in 0 .. k - 1 : RunningSum(f, i + 1) = RunningSum(f, i) + f[i]
  BY <1>4, <1>5, <1>6
<1> QED BY <1>7, <1>8, <1>9

\* Equal summands, equal sums.
LEMMA SumEqual ==
  ASSUME NEW k \in Nat, NEW f, NEW g, \A i \in 0 .. k - 1 : g[i] \in Nat /\ f[i] = g[i]
  PROVE  RunningSum(f, k) = RunningSum(g, k)
<1> DEFINE B == [i \in 0 .. k |-> RunningSum(g, i)]
<1>1. /\ RunningSum(g, 0) = 0
      /\ \A i \in 0 .. k : RunningSum(g, i) \in Nat
      /\ \A i \in 0 .. k - 1 : RunningSum(g, i + 1) = RunningSum(g, i) + g[i]
  BY SumSteps
<1>2. B[0] = 0 /\ \A i \in 0 .. k : B[i] \in Nat
  BY <1>1
<1>3. ASSUME NEW i \in 0 .. k - 1 PROVE B[i + 1] = B[i] + f[i]
  <2>1. i \in 0 .. k /\ i + 1 \in 0 .. k
    OBVIOUS
  <2> QED BY <1>1, <2>1
<1>4. k \in 0 .. k
  OBVIOUS
<1>5. B[k] = RunningSum(g, k)
  BY <1>4
<1> HIDE DEF B
<1>6. RunningSum(f, k) = B[k]
  BY <1>2, <1>3, SumIs
<1> QED BY <1>5, <1>6

\* When no summand exceeds its bound but the sums are equal, so are they.
LEMMA SumsTight ==
  ASSUME NEW k \in Nat, NEW f, NEW g,
         \A i \in 0 .. k - 1 : f[i] \in Nat /\ g[i] \in Nat /\ f[i] =< g[i],
         RunningSum(g, k) =< RunningSum(f, k),
         NEW l \in 0 .. k - 1
  PROVE  f[l] = g[l]
<1> DEFINE A(j) == RunningSum(f, j)
           B(j) == RunningSum(g, j)
<1>1. /\ A(0) = 0 /\ \A i \in 0 .. k : A(i) \in Nat
      /\ \A i \in 0 .. k - 1 : A(i + 1) = A(i) + f[i]
  BY SumSteps
<1>2. /\ B(0) = 0 /\ \A i \in 0 .. k : B(i) \in Nat
      /\ \A i \in 0 .. k - 1 : B(i + 1) = B(i) + g[i]
  BY SumSteps
<1>3. A(k) \in Nat /\ B(k) \in Nat /\ B(k) =< A(k)
  BY <1>1, <1>2
<1> HIDE DEF A, B
<1> DEFINE S == {j \in Nat : j =< k => /\ A(j) =< B(j)
                                      /\ (l < j => A(j) + (g[l] - f[l]) =< B(j))}
<1>4. 0 \in S
  BY <1>1, <1>2
<1>5. ASSUME NEW j \in Nat, j \in S PROVE j + 1 \in S
  <2> SUFFICES ASSUME j + 1 =< k
               PROVE  /\ A(j + 1) =< B(j + 1)
                      /\ l < j + 1 => A(j + 1) + (g[l] - f[l]) =< B(j + 1)
    OBVIOUS
  <2>1. j \in 0 .. k - 1 /\ j \in 0 .. k
    OBVIOUS
  <2>2. f[j] \in Nat /\ g[j] \in Nat /\ f[j] =< g[j] /\ f[l] \in Nat /\ g[l] \in Nat
    BY <2>1
  <2>3. A(j) \in Nat /\ B(j) \in Nat /\ A(j + 1) = A(j) + f[j] /\ B(j + 1) = B(j) + g[j]
    BY <1>1, <1>2, <2>1
  <2>4. A(j) =< B(j) /\ (l < j => A(j) + (g[l] - f[l]) =< B(j))
    BY <1>5
  <2>5. A(j + 1) =< B(j + 1)
    BY <2>2, <2>3, <2>4
  <2>6. ASSUME l < j + 1 PROVE A(j + 1) + (g[l] - f[l]) =< B(j + 1)
    <3>1. CASE l = j
      BY <2>2, <2>3, <2>4, <3>1
    <3>2. CASE l < j
      BY <2>2, <2>3, <2>4, <3>2
    <3> QED BY <2>6, <3>1, <3>2
  <2> QED BY <2>5, <2>6
<1>6. k \in S
  <2> HIDE DEF S
  <2> QED BY <1>4, <1>5, SetInduction
<1>7. A(k) + (g[l] - f[l]) =< B(k)
  BY <1>6
<1>8. f[l] \in Nat /\ g[l] \in Nat /\ f[l] =< g[l]
  OBVIOUS
<1> QED BY <1>3, <1>7, <1>8

-----------------------------------------------------------------------------
(* Powers of two and the bits of a number. *)

LEMMA Pow2Def ==
  /\ Pow2[0] = 1
  /\ \A k \in Nat : Pow2[k] \in Nat \ {0} /\ Pow2[k + 1] = 2 * Pow2[k]
<1> DEFINE IsTable(f, k) == f[0] = 1 /\ \A j \in 0 .. k - 1 : f[j + 1] = 2 * f[j]
           S == {k \in Nat : \E f \in [0 .. k -> Nat \ {0}] : IsTable(f, k)}
           T(k) == CHOOSE f \in [0 .. k -> Nat \ {0}] : IsTable(f, k)
           F == [k \in Nat |-> T(k)[k]]
           body(g) == [k \in Nat |-> IF k = 0 THEN 1 ELSE 2 * g[k - 1]]
<1>1. 0 \in S
  <2> DEFINE f == [i \in 0 .. 0 |-> 1]
  <2>1. f \in [0 .. 0 -> Nat \ {0}] /\ IsTable(f, 0)
    OBVIOUS
  <2> HIDE DEF IsTable, f
  <2> QED BY <2>1
<1>2. ASSUME NEW k \in Nat, k \in S PROVE k + 1 \in S
  <2>1. PICK f \in [0 .. k -> Nat \ {0}] : IsTable(f, k)
    BY <1>2
  <2> DEFINE g == [i \in 0 .. k + 1 |-> IF i = k + 1 THEN 2 * f[k] ELSE f[i]]
  <2>2. 2 * f[k] \in Nat \ {0}
    BY <2>1
  <2>3. g \in [0 .. k + 1 -> Nat \ {0}] /\ g[0] = 1
    BY <2>1, <2>2
  <2>4. ASSUME NEW j \in 0 .. (k + 1) - 1 PROVE g[j + 1] = 2 * g[j]
    <3>1. CASE j = k
      BY <3>1
    <3>2. CASE j # k
      BY <2>1, <3>2
    <3> QED BY <3>1, <3>2
  <2> HIDE DEF g
  <2>5. IsTable(g, k + 1)
    BY <2>3, <2>4
  <2> HIDE DEF IsTable
  <2> QED BY <2>3, <2>5
<1>3. Nat \subseteq S
  <2> HIDE DEF S
  <2> QED BY <1>1, <1>2, SetInduction
<1>4. ASSUME NEW k \in Nat PROVE T(k) \in [0 .. k -> Nat \ {0}] /\ IsTable(T(k), k)
  <2>1. \E f \in [0 .. k -> Nat \ {0}] : IsTable(f, k)
    BY <1>3
  <2> HIDE DEF IsTable
  <2> QED BY <2>1
<1>5. ASSUME NEW k \in Nat PROVE T(k + 1)[k] = T(k)[k]
  <2> DEFINE a == T(k)
             b == T(k + 1)
             Q == {j \in Nat : j =< k => b[j] = a[j]}
  <2>1. IsTable(a, k) /\ IsTable(b, k + 1)
    <3> HIDE DEF T, IsTable
    <3> QED BY <1>4
  <2> HIDE DEF a, b
  <2>2. 0 \in Q
    BY <2>1
  <2>3. ASSUME NEW j \in Nat, j \in Q PROVE j + 1 \in Q
    BY <2>1, <2>3
  <2>4. k \in Q
    <3> HIDE DEF Q
    <3> QED BY <2>2, <2>3, SetInduction
  <2> QED BY <2>4 DEF a, b
<1>6. F = body(F)
  <2>1. ASSUME NEW k \in Nat, k # 0 PROVE F[k] = 2 * F[k - 1]
    <3>1. k - 1 \in Nat /\ (k - 1) + 1 = k /\ k - 1 \in 0 .. k - 1
      BY <2>1
    <3>2. IsTable(T(k), k)
      BY <1>4
    <3>3. T(k)[(k - 1) + 1] = 2 * T(k)[k - 1]
      BY <3>1, <3>2
    <3>4. T(k)[k - 1] = T(k - 1)[k - 1]
      <4> HIDE DEF T, IsTable
      <4>1. T((k - 1) + 1)[k - 1] = T(k - 1)[k - 1]
        BY <1>5, <3>1
      <4> QED BY <3>1, <4>1
    <3> HIDE DEF T, IsTable
    <3> QED BY <3>1, <3>3, <3>4
  <2>2. F[0] = 1
    BY <1>4
  <2> HIDE DEF T, IsTable
  <2> QED BY <2>1, <2>2
<1>7. Pow2 = CHOOSE g : g = body(g)
  BY DEF Pow2
<1> HIDE DEF F
<1>8. Pow2 = body(Pow2)
  <2> HIDE DEF body
  <2> QED BY <1>6, <1>7
<1>9. \A k \in Nat : Pow2[k] = IF k = 0 THEN 1 ELSE 2 * Pow2[k - 1]
  BY <1>8
<1>10. Pow2[0] = 1 /\ \A k \in Nat : Pow2[k + 1] = 2 * Pow2[k]
  BY <1>9
<1> DEFINE Q == {k \in Nat : Pow2[k] \in Nat \ {0}}
<1>11. 0 \in Q /\ \A k \in Nat : k \in Q => k + 1 \in Q
  BY <1>10
<1>12. Nat \subseteq Q
  <2> HIDE DEF Q
  <2> QED BY <1>11, SetInduction
<1> QED BY <1>10, <1>12

-----------------------------------------------------------------------------
LEMMA ProductMono == \A a, b, m \in Nat : a =< b => a * m \in Nat /\ b * m \in Nat /\ a * m =< b * m
OBVIOUS

\* Division, and the quotient of a number given as quotient and remainder.
LEMMA Division ==
  ASSUME NEW m \in Nat \ {0}, NEW x \in Nat
  PROVE  /\ x \div m \in Nat
         /\ m * (x \div m) \in Nat /\ m * (x \div m) =< x /\ x < m * (x \div m) + m
OBVIOUS

LEMMA QuotientIs ==
  ASSUME NEW m \in Nat \ {0}, NEW q \in Nat, NEW r \in Nat, r < m
  PROVE  (m * q + r) \div m = q
<1> DEFINE x == m * q + r
           d == x \div m
<1>1. m * q \in Nat /\ x \in Nat /\ m * q =< x /\ x < m * q + m /\ q * m = m * q
  OBVIOUS
<1>2. d \in Nat /\ m * d \in Nat /\ m * d =< x /\ x < m * d + m
  <2> HIDE DEF x
  <2> QED BY <1>1, Division
<1> HIDE DEF x, d
<1>3. d * m = m * d /\ (d + 1) * m = m * d + m /\ (q + 1) * m = m * q + m
  BY <1>1, <1>2
<1>4. ~ (d < q)
  <2> SUFFICES ASSUME d < q PROVE FALSE
    OBVIOUS
  <2>1. d + 1 \in Nat /\ d + 1 =< q
    BY <1>2
  <2>2. PICK c \in Nat : c = d + 1
    BY <2>1
  <2>3. c * m =< q * m
    <3>1. m \in Nat /\ c =< q
      BY <2>1, <2>2
    <3> QED BY <3>1, ProductMono, Zenon
  <2> QED BY <1>1, <1>2, <1>3, <2>2, <2>3
<1>5. ~ (q < d)
  <2> SUFFICES ASSUME q < d PROVE FALSE
    OBVIOUS
  <2>1. q + 1 \in Nat /\ q + 1 =< d
    BY <1>2
  <2>2. PICK c \in Nat : c = q + 1
    BY <2>1
  <2>3. c * m =< d * m
    <3>1. m \in Nat /\ d \in Nat /\ c =< d
      BY <1>2, <2>1, <2>2
    <3> QED BY <3>1, ProductMono, Zenon
  <2> QED BY <1>1, <1>2, <1>3, <2>2, <2>3
<1>6. d = q
  BY <1>2, <1>4, <1>5
<1> QED BY <1>6 DEF d, x

LEMMA Pow2Sum == \A i, j \in Nat : Pow2[i + j] = Pow2[i] * Pow2[j]
<1> SUFFICES ASSUME NEW i \in Nat PROVE \A j \in Nat : Pow2[i + j] = Pow2[i] * Pow2[j]
  OBVIOUS
<1> DEFINE S == {j \in Nat : Pow2[i + j] = Pow2[i] * Pow2[j]}
<1>1. 0 \in S
  BY Pow2Def
<1>2. ASSUME NEW j \in Nat, j \in S PROVE j + 1 \in S
  <2>1. i + (j + 1) = (i + j) + 1 /\ i + j \in Nat
    OBVIOUS
  <2>2. Pow2[i + (j + 1)] = 2 * Pow2[i + j] /\ Pow2[j + 1] = 2 * Pow2[j]
    BY <2>1, Pow2Def
  <2>3. Pow2[i + j] = Pow2[i] * Pow2[j]
    BY <1>2
  <2>4. Pow2[i] \in Nat /\ Pow2[j] \in Nat
    BY Pow2Def
  <2>5. \A a, b \in Nat : 2 * (a * b) = a * (2 * b)
    OBVIOUS
  <2> QED BY <2>2, <2>3, <2>4, <2>5
<1>3. Nat \subseteq S
  <2> HIDE DEF S
  <2> QED BY <1>1, <1>2, SetInduction
<1> QED BY <1>3

LEMMA Pow2Mono == \A i, j \in Nat : i =< j => Pow2[i] =< Pow2[j]
<1> SUFFICES ASSUME NEW i \in Nat, NEW j \in Nat, i =< j PROVE Pow2[i] =< Pow2[j]
  OBVIOUS
<1>1. j - i \in Nat /\ i + (j - i) = j
  OBVIOUS
<1>2. Pow2[j] = Pow2[i] * Pow2[j - i]
  BY <1>1, Pow2Sum
<1>3. Pow2[i] \in Nat /\ Pow2[j - i] \in Nat /\ 1 =< Pow2[j - i]
  BY <1>1, Pow2Def
<1>4. \A a, b \in Nat : 1 =< b => a =< a * b
  OBVIOUS
<1> QED BY <1>2, <1>3, <1>4

\* Adding a higher power of two leaves the bits below it.
LEMMA BitBelow ==
  ASSUME NEW x \in Nat, NEW k \in Nat, NEW p \in Nat, p < k
  PROVE  ((x + Pow2[k]) \div Pow2[p]) % 2 = (x \div Pow2[p]) % 2
<1> DEFINE P2 == Pow2[p]
           h  == Pow2[k - p - 1]
           q  == x \div P2
           r  == x - P2 * q
<1>1. k - p - 1 \in Nat /\ p + 1 \in Nat /\ (p + 1) + (k - p - 1) = k
  OBVIOUS
<1>2. P2 \in Nat \ {0} /\ h \in Nat /\ Pow2[p + 1] = 2 * P2
  BY <1>1, Pow2Def
<1>3. Pow2[k] = (2 * P2) * h
  BY <1>1, <1>2, Pow2Sum
<1>4. q \in Nat /\ P2 * q \in Nat /\ r \in Nat /\ r < P2 /\ x = P2 * q + r
  <2> HIDE DEF P2
  <2>1. q \in Nat /\ P2 * q \in Nat /\ P2 * q =< x /\ x < P2 * q + P2
    BY <1>2, Division
  <2> QED BY <1>2, <2>1
<1> HIDE DEF P2, h, q, r
<1>5. \A a, b, c \in Nat : a * b + (2 * a) * c = a * (b + 2 * c)
  OBVIOUS
<1>6. x + Pow2[k] = P2 * (q + 2 * h) + r
  BY <1>2, <1>3, <1>4, <1>5
<1>7. (x + Pow2[k]) \div P2 = q + 2 * h
  <2>1. q + 2 * h \in Nat
    BY <1>2, <1>4
  <2> QED BY <1>2, <1>4, <1>6, <2>1, QuotientIs
<1>8. (q + 2 * h) % 2 = q % 2
  BY <1>2, <1>4
<1> QED BY <1>7, <1>8 DEF P2, q

LEMMA Halved ==
  ASSUME NEW x \in Nat, NEW k \in Nat
  PROVE  x \div Pow2[k + 1] = (x \div Pow2[k]) \div 2
<1> DEFINE P2 == Pow2[k]
           q  == x \div P2
           r  == x - P2 * q
           h  == q \div 2
           c  == q % 2
<1>1. P2 \in Nat \ {0} /\ Pow2[k + 1] = 2 * P2
  BY Pow2Def
<1>2. q \in Nat /\ P2 * q \in Nat /\ r \in Nat /\ r < P2 /\ x = P2 * q + r
  <2> HIDE DEF P2
  <2>1. q \in Nat /\ P2 * q \in Nat /\ P2 * q =< x /\ x < P2 * q + P2
    BY <1>1, Division
  <2> QED BY <1>1, <2>1
<1> HIDE DEF P2, q, r
<1>3. h \in Nat /\ c \in {0, 1} /\ q = 2 * h + c
  BY <1>2
<1> HIDE DEF h, c
<1>4. \A a, b, d \in Nat : a * (2 * b + d) = (2 * a) * b + a * d
  OBVIOUS
<1>5. x = (2 * P2) * h + (P2 * c + r)
  <2>1. P2 * q = (2 * P2) * h + P2 * c
    BY <1>1, <1>3, <1>4
  <2>2. (2 * P2) * h \in Nat /\ P2 * c \in Nat
    BY <1>1, <1>3
  <2> QED BY <1>2, <2>1, <2>2
<1>6. P2 * c + r \in Nat /\ P2 * c + r < 2 * P2
  BY <1>1, <1>2, <1>3
<1>7. x \div (2 * P2) = h
  <2>1. 2 * P2 \in Nat \ {0}
    BY <1>1
  <2> QED BY <1>3, <1>5, <1>6, <2>1, QuotientIs
<1> QED BY <1>1, <1>7 DEF P2, q, h

LEMMA KeyBitsType == KeyBits \in Nat /\ BucketBits \in Nat /\ KeyBits - BucketBits \in Nat
BY MortonAssumption

\* The bits of the word with given bits.
LEMMA BitsOfWord ==
  ASSUME NEW S \in SUBSET Position
  PROVE  Word(S) \in Nat /\ Word(S) < Pow2[KeyBits] /\ Bits(Word(S)) = S
<1> DEFINE f    == [p \in Position |-> IF p \in S THEN Pow2[p] ELSE 0]
           W(k) == RunningSum(f, k)
           Q    == {k \in Nat : k =< KeyBits =>
                      /\ W(k) < Pow2[k]
                      /\ \A p \in 0 .. k - 1 : (W(k) \div Pow2[p]) % 2 = 1 <=> p \in S}
<1>0. KeyBits \in Nat /\ Position = 0 .. KeyBits - 1
  BY KeyBitsType DEF Position
<1>1. \A p \in Position : f[p] \in Nat /\ f[p] = IF p \in S THEN Pow2[p] ELSE 0
  BY <1>0, Pow2Def
<1>2. /\ W(0) = 0 /\ \A k \in 0 .. KeyBits : W(k) \in Nat
      /\ \A k \in 0 .. KeyBits - 1 : W(k + 1) = W(k) + f[k]
  <2> HIDE DEF f
  <2> QED BY <1>0, <1>1, SumSteps
<1> HIDE DEF f, W
<1>3. 0 \in Q
  BY <1>2, Pow2Def
<1>4. ASSUME NEW k \in Nat, k \in Q PROVE k + 1 \in Q
  <2> SUFFICES ASSUME k + 1 =< KeyBits
               PROVE  /\ W(k + 1) < Pow2[k + 1]
                      /\ \A p \in 0 .. (k + 1) - 1 : (W(k + 1) \div Pow2[p]) % 2 = 1 <=> p \in S
    OBVIOUS
  <2>1. k \in 0 .. KeyBits - 1 /\ k \in 0 .. KeyBits /\ k \in Position
    BY <1>0
  <2>2. /\ W(k) \in Nat /\ W(k) < Pow2[k]
        /\ \A p \in 0 .. k - 1 : (W(k) \div Pow2[p]) % 2 = 1 <=> p \in S
    BY <1>2, <1>4, <2>1
  <2>3. Pow2[k] \in Nat \ {0} /\ Pow2[k + 1] = 2 * Pow2[k]
    BY Pow2Def
  <2>4. W(k + 1) = W(k) + (IF k \in S THEN Pow2[k] ELSE 0)
    BY <1>1, <1>2, <2>1
  <2>5. W(k + 1) < Pow2[k + 1]
    BY <2>2, <2>3, <2>4
  <2>6. (W(k + 1) \div Pow2[k]) % 2 = 1 <=> k \in S
    <3>1. CASE k \in S
      <4>1. W(k + 1) = Pow2[k] * 1 + W(k)
        BY <2>2, <2>3, <2>4, <3>1
      <4>2. W(k + 1) \div Pow2[k] = 1
        BY <2>2, <2>3, <4>1, QuotientIs
      <4> QED BY <3>1, <4>2
    <3>2. CASE k \notin S
      <4>1. W(k + 1) = Pow2[k] * 0 + W(k)
        BY <2>2, <2>3, <2>4, <3>2
      <4>2. W(k + 1) \div Pow2[k] = 0
        BY <2>2, <2>3, <4>1, QuotientIs
      <4> QED BY <3>2, <4>2
    <3> QED BY <3>1, <3>2
  <2>7. ASSUME NEW p \in 0 .. k - 1 PROVE (W(k + 1) \div Pow2[p]) % 2 = 1 <=> p \in S
    <3>1. p \in Nat /\ p < k
      OBVIOUS
    <3>2. ((W(k) + Pow2[k]) \div Pow2[p]) % 2 = (W(k) \div Pow2[p]) % 2
      BY <2>2, <3>1, BitBelow
    <3>3. W(k + 1) = W(k) + Pow2[k] \/ W(k + 1) = W(k)
      BY <2>2, <2>4
    <3> QED BY <2>2, <3>2, <3>3
  <2>8. \A p \in 0 .. (k + 1) - 1 : p = k \/ p \in 0 .. k - 1
    OBVIOUS
  <2> QED BY <2>5, <2>6, <2>7, <2>8
<1>5. KeyBits \in Q
  <2> HIDE DEF Q
  <2> QED BY <1>0, <1>3, <1>4, SetInduction
<1>6. Word(S) = W(KeyBits)
  BY DEF Word, W, f
<1>7. W(KeyBits) \in Nat
  BY <1>0, <1>2
<1>8. /\ Word(S) < Pow2[KeyBits]
      /\ \A p \in Position : (Word(S) \div Pow2[p]) % 2 = 1 <=> p \in S
  BY <1>0, <1>5, <1>6
<1> QED BY <1>6, <1>7, <1>8 DEF Bits

\* The word with the bits of a number is the number.
LEMMA WordOfBits ==
  ASSUME NEW x \in Nat, x < Pow2[KeyBits]
  PROVE  Word(Bits(x)) = x
<1> DEFINE f    == [p \in Position |-> IF p \in Bits(x) THEN Pow2[p] ELSE 0]
           q(k) == x \div Pow2[k]
           B    == [k \in 0 .. KeyBits |-> x - Pow2[k] * q(k)]
<1>0. KeyBits \in Nat /\ Position = 0 .. KeyBits - 1
  BY KeyBitsType DEF Position
<1>1. \A k \in Nat : /\ Pow2[k] \in Nat \ {0} /\ Pow2[k + 1] = 2 * Pow2[k]
                     /\ q(k) \in Nat /\ Pow2[k] * q(k) \in Nat /\ Pow2[k] * q(k) =< x
  BY Pow2Def, Division
<1>2. \A k \in Nat : q(k + 1) = q(k) \div 2
  BY Halved
<1>3. q(0) = x
  <2>1. x = 1 * x + 0
    OBVIOUS
  <2>2. (1 * x + 0) \div 1 = x
    BY QuotientIs
  <2> QED BY <2>1, <2>2, Pow2Def
<1>4. q(KeyBits) = 0
  <2>1. PICK m \in Nat \ {0} : m = Pow2[KeyBits]
    BY <1>0, Pow2Def
  <2>2. (m * 0 + x) \div m = 0 /\ m * 0 + x = x
    BY <2>1, QuotientIs
  <2> QED BY <2>1, <2>2
<1>5. \A p \in Position : p \in Bits(x) <=> q(p) % 2 = 1
  BY DEF Bits
<1>6. \A p \in Position : f[p] = IF q(p) % 2 = 1 THEN Pow2[p] ELSE 0
  BY <1>5
<1> HIDE DEF q
<1>7. B[0] = 0 /\ B[KeyBits] = x
  <2>1. Pow2[0] * q(0) = x
    BY <1>3, Pow2Def
  <2>2. Pow2[KeyBits] * q(KeyBits) = 0
    <3>1. \A a \in Nat : a * 0 = 0
      OBVIOUS
    <3> QED BY <1>0, <1>1, <1>4, <3>1
  <2>3. 0 \in 0 .. KeyBits /\ KeyBits \in 0 .. KeyBits
    BY <1>0
  <2> QED BY <2>1, <2>2, <2>3
<1>8. ASSUME NEW k \in 0 .. KeyBits PROVE B[k] \in Nat
  <2>1. k \in Nat
    BY <1>0
  <2>2. PICK a : a = Pow2[k] * q(k)
    OBVIOUS
  <2>3. a \in Nat /\ a =< x /\ B[k] = x - a
    BY <1>1, <2>1, <2>2
  <2> QED BY <2>3
<1>9. ASSUME NEW k \in 0 .. KeyBits - 1 PROVE B[k + 1] = B[k] + f[k]
  <2>1. k \in Nat /\ k + 1 \in 0 .. KeyBits /\ k \in 0 .. KeyBits /\ k \in Position
    BY <1>0
  <2> DEFINE a == Pow2[k]
             b == q(k)
             c == q(k + 1)
  <2>2. a \in Nat \ {0} /\ b \in Nat /\ c \in Nat /\ Pow2[k + 1] = 2 * a /\ c = b \div 2
        /\ a * b \in Nat /\ a * b =< x /\ Pow2[k + 1] * c \in Nat /\ Pow2[k + 1] * c =< x
    BY <1>1, <1>2, <2>1
  <2>3. f[k] = IF b % 2 = 1 THEN a ELSE 0
    BY <1>6, <2>1
  <2>4. B[k + 1] = x - Pow2[k + 1] * c /\ B[k] = x - a * b
    BY <2>1
  <2> HIDE DEF a, b, c, f, B
  <2>5. b % 2 \in {0, 1} /\ b = 2 * c + (b % 2)
    <3> HIDE DEF a
    <3> QED BY <2>2
  <2>6. \A i, j, l \in Nat : i * (2 * j + l) = (2 * i) * j + i * l
    OBVIOUS
  <2>7. a * b = (2 * a) * c + a * (b % 2)
    BY <2>2, <2>5, <2>6
  <2>8. a * (b % 2) = f[k] /\ f[k] \in Nat
    BY <2>2, <2>3, <2>5
  <2> QED BY <2>2, <2>4, <2>7, <2>8
<1> HIDE DEF B, f
<1>10. RunningSum(f, KeyBits) = B[KeyBits]
  BY <1>0, <1>7, <1>8, <1>9, SumIs
<1> QED BY <1>7, <1>10 DEF Word, f

-----------------------------------------------------------------------------
(* The bit plan. *)

\* A mode has bits for all its rows.
LEMMA CeilLog2Holds ==
  ASSUME NEW v \in Nat \ {0}
  PROVE  CeilLog2(v) \in Nat \ {0} /\ v =< Pow2[CeilLog2(v)]
<1>1. CASE v =< 1
  <2>1. CeilLog2(v) = 1 /\ Pow2[0 + 1] = 2 * Pow2[0] /\ Pow2[0] = 1 /\ 0 + 1 = 1
    BY <1>1, Pow2Def DEF CeilLog2
  <2> QED BY <1>1, <2>1
<1>2. CASE ~ (v =< 1)
  <2> DEFINE Q == {k \in Nat : k < Pow2[k]}
             S == {b \in Nat : v =< Pow2[b]}
  <2>1. 0 \in Q /\ \A k \in Nat : k \in Q => k + 1 \in Q
    BY Pow2Def
  <2>2. v < Pow2[v]
    <3> HIDE DEF Q
    <3>1. v \in Q
      BY <2>1, SetInduction
    <3> QED BY <3>1 DEF Q
  <2>3. PICK b \in S : \A z \in S : b =< z
    <3>1. v \in S
      BY <2>2, Pow2Def
    <3> HIDE DEF S
    <3>2. S \in SUBSET Nat
      BY DEF S
    <3> QED BY <3>1, <3>2, LeastElement
  <2>4. b # 0 /\ b - 1 \in Nat /\ b =< v
    BY <1>2, <2>2, <2>3, Pow2Def
  <2>5. Pow2[b - 1] < v /\ v =< Pow2[b] /\ b \in 1 .. v
    <3>1. b - 1 \notin S
      BY <2>3, <2>4
    <3> QED BY <2>3, <2>4, <3>1, Pow2Def
  <2>6. CeilLog2(v) \in 1 .. v /\ v =< Pow2[CeilLog2(v)]
    BY <1>2, <2>5 DEF CeilLog2
  <2> QED BY <2>6
<1> QED BY <1>1, <1>2

LEMMA FiniteMask ==
  ASSUME NEW m \in SUBSET Position
  PROVE  IsFiniteSet(m) /\ Cardinality(m) \in 0 .. KeyBits /\ \A p \in m : p \in Nat
<1>1. KeyBits \in Nat /\ Position = 0 .. KeyBits - 1
  BY KeyBitsType DEF Position
<1>2. IsFiniteSet(Position) /\ Cardinality(Position) = KeyBits
  <2>1. 0 \in Int /\ KeyBits - 1 \in Int
    BY <1>1
  <2>2. IsFiniteSet(0 .. KeyBits - 1)
    BY <2>1, FS_Interval
  <2>3. Cardinality(0 .. KeyBits - 1) = IF 0 > KeyBits - 1 THEN 0 ELSE (KeyBits - 1) - 0 + 1
    BY <2>1, FS_Interval
  <2> QED BY <1>1, <2>2, <2>3
<1>3. IsFiniteSet(m) /\ Cardinality(m) =< KeyBits /\ Cardinality(m) \in Nat
  BY <1>2, FS_Subset, FS_CardinalityType
<1> QED BY <1>1, <1>3

\* A strictly smaller subset has fewer elements.
LEMMA FewerElements ==
  ASSUME NEW A, IsFiniteSet(A), NEW B \in SUBSET A, NEW x \in A, x \notin B
  PROVE  Cardinality(B) \in Nat /\ Cardinality(A) \in Nat /\ Cardinality(B) < Cardinality(A)
<1>1. IsFiniteSet(B) /\ Cardinality(B) =< Cardinality(A) /\ (Cardinality(A) = Cardinality(B) => A = B)
  BY FS_Subset
<1>2. Cardinality(B) \in Nat /\ Cardinality(A) \in Nat
  BY <1>1, FS_CardinalityType
<1> QED BY <1>1, <1>2

\* The positions of a mask are ranked from 0 on, without gaps.
LEMMA Ranks ==
  ASSUME NEW m \in SUBSET Position
  PROVE  {Rank(p, m) : p \in m} = 0 .. Cardinality(m) - 1
<1> DEFINE c == Cardinality(m)
           g == [p \in m |-> Rank(p, m)]
           B(p) == {z \in m : z < p}
<1>0. IsFiniteSet(m) /\ c \in Nat /\ \A p \in m : p \in Nat
  BY FiniteMask
<1>1. ASSUME NEW p \in m PROVE Rank(p, m) \in 0 .. c - 1
  <2>1. B(p) \in SUBSET m /\ p \notin B(p)
    BY <1>0
  <2>2. Cardinality(B(p)) \in Nat /\ Cardinality(B(p)) < c
    <3> HIDE DEF B
    <3> QED BY <1>0, <2>1, FewerElements
  <2> QED BY <1>0, <2>2 DEF Rank
<1>2. ASSUME NEW p \in m, NEW z \in m, p < z PROVE Rank(p, m) < Rank(z, m)
  <2>1. B(p) \in SUBSET B(z) /\ p \in B(z) /\ p \notin B(p) /\ B(z) \in SUBSET m
    BY <1>0, <1>2
  <2>2. IsFiniteSet(B(z))
    <3> HIDE DEF B
    <3> QED BY <1>0, <2>1, FS_Subset
  <2>3. Cardinality(B(p)) < Cardinality(B(z))
    <3> HIDE DEF B
    <3> QED BY <2>1, <2>2, FewerElements
  <2> QED BY <2>3 DEF Rank
<1>3. g \in [m -> 0 .. c - 1]
  BY <1>1
<1>4. \A p, z \in m : g[p] = g[z] => p = z
  <2> SUFFICES ASSUME NEW p \in m, NEW z \in m, g[p] = g[z] PROVE p = z
    OBVIOUS
  <2>1. Rank(p, m) = Rank(z, m) /\ Rank(p, m) \in Int
    BY <1>1
  <2>2. ~ (p < z) /\ ~ (z < p)
    BY <1>1, <1>2, <2>1
  <2> QED BY <1>0, <2>2
<1>5. IsFiniteSet(0 .. c - 1) /\ Cardinality(0 .. c - 1) = c
  <2>1. 0 \in Int /\ c - 1 \in Int
    BY <1>0
  <2>2. IsFiniteSet(0 .. c - 1)
    BY <2>1, FS_Interval
  <2>3. Cardinality(0 .. c - 1) = IF 0 > c - 1 THEN 0 ELSE (c - 1) - 0 + 1
    BY <2>1, FS_Interval
  <2> QED BY <1>0, <2>2, <2>3
<1> DEFINE D == 0 .. c - 1
<1>6. g \in Injection(m, D)
  <2> HIDE DEF g
  <2> QED BY <1>3, <1>4 DEF Injection, IsInjective
<1>7. g \in Surjection(m, D)
  <2> HIDE DEF g, D
  <2>1. Cardinality(m) = Cardinality(D)
    BY <1>5 DEF D
  <2>2. IsFiniteSet(D)
    BY <1>5 DEF D
  <2> QED BY <1>0, <1>6, <2>1, <2>2, FS_Injection
<1>8. \A d \in D : \E p \in m : g[p] = d
  <2> HIDE DEF g, D
  <2> QED BY <1>7 DEF Surjection
<1>9. \A d \in D : \E p \in m : Rank(p, m) = d
  BY <1>8
<1> QED BY <1>1, <1>9

\* After p bits: no bit is dealt twice and no mode has too many; all the
\* bits are dealt, or all the modes have theirs.
DealtInv(s, p, sizes) ==
  /\ s.next \in Nat
  /\ s.mask \in [Modes -> SUBSET (0 .. p - 1)]
  /\ \A j, m \in Modes : j # m => s.mask[j] \cap s.mask[m] = {}
  /\ \A m \in Modes : Cardinality(s.mask[m]) =< CeilLog2(sizes[m])
  /\ \/ \A b \in 0 .. p - 1 : \E m \in Modes : b \in s.mask[m]
     \/ \A m \in Modes : Cardinality(s.mask[m]) = CeilLog2(sizes[m])

LEMMA ModesFacts == NumModes \in Nat \ {0} /\ Modes \subseteq Nat /\ Modes = 0 .. NumModes - 1
BY MortonAssumption DEF Modes

LEMMA BitRange ==
  ASSUME NEW p \in Nat, NEW S \in SUBSET (0 .. p - 1)
  PROVE  IsFiniteSet(S) /\ Cardinality(S) \in Nat
<1>1. 0 \in Int /\ p - 1 \in Int
  OBVIOUS
<1>2. IsFiniteSet(0 .. p - 1)
  BY <1>1, FS_Interval
<1> QED BY <1>2, FS_Subset, FS_CardinalityType

LEMMA DealKeeps ==
  ASSUME NEW sizes, \A m \in Modes : sizes[m] \in Nat \ {0},
         NEW p \in Nat, NEW s, DealtInv(s, p, sizes)
  PROVE  DealtInv(Deal(s, p, sizes), p + 1, sizes)
<1> DEFINE open == {m \in Modes : Cardinality(s.mask[m]) < CeilLog2(sizes[m])}
           late == {m \in open : m >= s.next}
           from == IF late # {} THEN late ELSE open
           c    == CHOOSE k \in from : \A l \in from : k <= l
           M    == s.mask
           D    == [M EXCEPT ![c] = M[c] \cup {p}]
<1>1. /\ M \in [Modes -> SUBSET (0 .. p - 1)]
      /\ \A j, m \in Modes : j # m => M[j] \cap M[m] = {}
      /\ \A m \in Modes : Cardinality(M[m]) =< CeilLog2(sizes[m])
      /\ \/ \A b \in 0 .. p - 1 : \E m \in Modes : b \in M[m]
         \/ \A m \in Modes : Cardinality(M[m]) = CeilLog2(sizes[m])
  BY DEF DealtInv
<1>2. \A m \in Modes : IsFiniteSet(M[m]) /\ Cardinality(M[m]) \in Nat /\ CeilLog2(sizes[m]) \in Nat
  BY <1>1, BitRange, CeilLog2Holds
<1>3. 0 .. (p + 1) - 1 = (0 .. p - 1) \cup {p} /\ p \notin 0 .. p - 1
  OBVIOUS
<1>4. CASE open = {}
  <2>1. Deal(s, p, sizes) = s
    BY <1>4 DEF Deal
  <2>2. \A m \in Modes : Cardinality(M[m]) = CeilLog2(sizes[m])
    BY <1>1, <1>2, <1>4
  <2>3. M \in [Modes -> SUBSET (0 .. (p + 1) - 1)]
    BY <1>1, <1>3
  <2> QED BY <1>1, <2>1, <2>2, <2>3 DEF DealtInv
<1>5. CASE open # {}
  <2>1. Deal(s, p, sizes) = [next |-> c + 1, mask |-> D]
    BY <1>5 DEF Deal
  <2>2. c \in open
    <3>1. from # {} /\ from \in SUBSET Nat /\ from \subseteq open
      BY <1>5, ModesFacts
    <3>2. c \in from
      <4> HIDE DEF from
      <4>1. \E k \in from : \A l \in from : k <= l
        BY <3>1, LeastElement
      <4> QED BY <4>1
    <3> QED BY <3>1, <3>2
  <2>3. c \in Modes /\ c \in Nat /\ Cardinality(M[c]) < CeilLog2(sizes[c])
    BY <2>2, ModesFacts
  <2>0. Cardinality(M[c]) \in Nat /\ CeilLog2(sizes[c]) \in Nat
    BY <1>2, <2>3
  <2>4. ~ \A m \in Modes : Cardinality(M[m]) = CeilLog2(sizes[m])
    <3>1. Cardinality(M[c]) # CeilLog2(sizes[c])
      <4> HIDE DEF c, M
      <4> QED BY <2>3, <2>0
    <3> QED BY <2>3, <3>1
  <2> HIDE DEF open, late, from, c, M
  <2>5. D \in [Modes -> SUBSET (0 .. (p + 1) - 1)] /\ D[c] = M[c] \cup {p}
        /\ \A m \in Modes \ {c} : D[m] = M[m]
    BY <1>1, <1>3, <2>3
  <2> HIDE DEF D
  <2>6. \A j, m \in Modes : j # m => D[j] \cap D[m] = {}
    BY <1>1, <1>3, <2>3, <2>5
  <2>7. Cardinality(D[c]) = Cardinality(M[c]) + 1
    <3>1. p \notin M[c] /\ IsFiniteSet(M[c])
      BY <1>1, <1>2, <1>3, <2>3
    <3> QED BY <2>5, <3>1, FS_AddElement
  <2>8. \A m \in Modes : Cardinality(D[m]) =< CeilLog2(sizes[m])
    <3>1. Cardinality(D[c]) =< CeilLog2(sizes[c])
      BY <2>3, <2>7, <2>0
    <3> QED BY <1>1, <2>5, <3>1
  <2>9. ASSUME NEW b \in 0 .. (p + 1) - 1 PROVE \E m \in Modes : b \in D[m]
    <3>1. CASE b = p
      BY <2>3, <2>5, <3>1
    <3>2. CASE b \in 0 .. p - 1
      <4>1. PICK m \in Modes : b \in M[m]
        BY <1>1, <2>4, <3>2
      <4> QED BY <2>5, <4>1
    <3> QED BY <1>3, <3>1, <3>2
  <2> DEFINE r == [next |-> c + 1, mask |-> D]
  <2>10. r.next \in Nat /\ r.mask = D
    BY <2>3
  <2> HIDE DEF r
  <2>11. DealtInv(r, p + 1, sizes)
    BY <2>5, <2>6, <2>8, <2>9, <2>10 DEF DealtInv
  <2> QED BY <2>1, <2>11 DEF r
<1> QED BY <1>4, <1>5

\* The loop of the plan has a table, and the invariant holds at its end.
LEMMA PlanInv ==
  ASSUME NEW sizes, \A m \in Modes : sizes[m] \in Nat \ {0}
  PROVE  \E s : DealtInv(s, KeyBits, sizes) /\ BuildPlan(sizes) = s.mask
<1> DEFINE start == [next |-> 0, mask |-> [m \in Modes |-> {}]]
           IsTable(f, k) == f[0] = start /\ \A j \in 0 .. k - 1 : f[j + 1] = Deal(f[j], j, sizes)
           S == {k \in Nat : \E f : IsTable(f, k)}
           body(g) == [p \in 0 .. KeyBits |-> IF p = 0 THEN start ELSE Deal(g[p - 1], p - 1, sizes)]
           Dealt == CHOOSE g : g = body(g)
<1>0. KeyBits \in Nat
  BY KeyBitsType
<1>1. 0 \in S
  <2> HIDE DEF start
  <2>1. IsTable([i \in {0} |-> start], 0)
    OBVIOUS
  <2> QED BY <2>1
<1>2. ASSUME NEW k \in Nat, k \in S PROVE k + 1 \in S
  <2>1. PICK f : IsTable(f, k)
    BY <1>2
  <2> DEFINE g == [i \in 0 .. k + 1 |-> IF i = k + 1 THEN Deal(f[k], k, sizes) ELSE f[i]]
  <2> HIDE DEF start
  <2>2. g[0] = start
    BY <2>1
  <2>3. ASSUME NEW j \in 0 .. (k + 1) - 1 PROVE g[j + 1] = Deal(g[j], j, sizes)
    <3>1. CASE j = k
      BY <3>1
    <3>2. CASE j # k
      BY <2>1, <3>2
    <3> QED BY <3>1, <3>2
  <2> HIDE DEF g
  <2>4. IsTable(g, k + 1)
    BY <2>2, <2>3
  <2> HIDE DEF IsTable
  <2> QED BY <2>4
<1>3. PICK f : IsTable(f, KeyBits)
  <2> HIDE DEF S, IsTable
  <2>1. KeyBits \in S
    BY <1>0, <1>1, <1>2, SetInduction
  <2> QED BY <2>1 DEF S
<1> HIDE DEF start
<1> DEFINE F == [p \in 0 .. KeyBits |-> f[p]]
<1>4. F = body(F)
  <2>1. ASSUME NEW p \in 0 .. KeyBits, p # 0 PROVE F[p] = Deal(F[p - 1], p - 1, sizes)
    <3>1. p - 1 \in 0 .. KeyBits - 1 /\ p - 1 \in 0 .. KeyBits /\ (p - 1) + 1 = p
      BY <1>0, <2>1
    <3> QED BY <1>3, <3>1
  <2>2. F[0] = start
    BY <1>0, <1>3
  <2> QED BY <2>1, <2>2
<1>5. Dealt = body(Dealt)
  <2> HIDE DEF F, body
  <2> QED BY <1>4
<1>6. BuildPlan(sizes) = Dealt[KeyBits].mask
  BY DEF BuildPlan, start
<1> HIDE DEF Dealt, F
<1>7. \A p \in 0 .. KeyBits : Dealt[p] = IF p = 0 THEN start ELSE Deal(Dealt[p - 1], p - 1, sizes)
  BY <1>5
<1> HIDE DEF body
<1> DEFINE Q == {p \in Nat : p =< KeyBits => DealtInv(Dealt[p], p, sizes)}
<1>8. 0 \in Q
  <2>1. Dealt[0] = start
    BY <1>0, <1>7
  <2>2. start.next = 0 /\ start.mask = [m \in Modes |-> {}]
    BY DEF start
  <2>3. \A m \in Modes : Cardinality(start.mask[m]) = 0 /\ CeilLog2(sizes[m]) \in Nat
    BY <2>2, FS_EmptySet, CeilLog2Holds
  <2>4. start.next \in Nat /\ start.mask \in [Modes -> SUBSET (0 .. 0 - 1)]
    BY <2>2
  <2>5. \A j, m \in Modes : j # m => start.mask[j] \cap start.mask[m] = {}
    BY <2>2
  <2>6. \A m \in Modes : Cardinality(start.mask[m]) =< CeilLog2(sizes[m])
    BY <2>3
  <2>7. \A b \in 0 .. 0 - 1 : \E m \in Modes : b \in start.mask[m]
    OBVIOUS
  <2>8. DealtInv(start, 0, sizes)
    BY <2>4, <2>5, <2>6, <2>7 DEF DealtInv
  <2> QED BY <2>1, <2>8
<1>9. ASSUME NEW p \in Nat, p \in Q PROVE p + 1 \in Q
  <2> SUFFICES ASSUME p + 1 =< KeyBits PROVE DealtInv(Dealt[p + 1], p + 1, sizes)
    OBVIOUS
  <2>1. p + 1 \in 0 .. KeyBits /\ p + 1 # 0 /\ (p + 1) - 1 = p
    BY <1>0
  <2>2. Dealt[p + 1] = Deal(Dealt[p], p, sizes)
    BY <1>7, <2>1
  <2>3. DealtInv(Dealt[p], p, sizes)
    BY <1>0, <1>9
  <2> QED BY <2>2, <2>3, DealKeeps
<1>10. KeyBits \in Q
  <2> HIDE DEF Q
  <2> QED BY <1>0, <1>8, <1>9, SetInduction
<1>11. DealtInv(Dealt[KeyBits], KeyBits, sizes)
  BY <1>0, <1>10
<1> QED BY <1>6, <1>11

\* A plan that fits the key: every bit belongs to one mode at most, and a
\* mode has as many as its rows need.
Planned(M) ==
  /\ M \in [Modes -> SUBSET Position]
  /\ \A j, m \in Modes : j # m => M[j] \cap M[m] = {}
  /\ \A m \in Modes : Cardinality(M[m]) = CeilLog2(size[m])

LEMMA PlanFits ==
  ASSUME \A m \in Modes : size[m] \in Nat \ {0}, BitsNeeded(size) <= KeyBits
  PROVE  Planned(BuildPlan(size))
<1>0. KeyBits \in Nat /\ Position = 0 .. KeyBits - 1
  BY KeyBitsType DEF Position
<1>1. PICK s : DealtInv(s, KeyBits, size) /\ BuildPlan(size) = s.mask
  BY PlanInv
<1> DEFINE M == BuildPlan(size)
<1>2. /\ M \in [Modes -> SUBSET Position]
      /\ \A j, m \in Modes : j # m => M[j] \cap M[m] = {}
      /\ \A m \in Modes : Cardinality(M[m]) =< CeilLog2(size[m])
      /\ \/ \A b \in Position : \E m \in Modes : b \in M[m]
         \/ \A m \in Modes : Cardinality(M[m]) = CeilLog2(size[m])
  BY <1>0, <1>1 DEF DealtInv
<1> HIDE DEF M
<1>3. ASSUME \A b \in Position : \E m \in Modes : b \in M[m], NEW l \in Modes
      PROVE  Cardinality(M[l]) = CeilLog2(size[l])
  <2> DEFINE f == [m \in Modes |-> Cardinality(M[m])]
             g == [m \in Modes |-> CeilLog2(size[m])]
             S == [k \in 0 .. NumModes |-> {b \in Position : \E m \in 0 .. k - 1 : b \in M[m]}]
  <2>1. NumModes \in Nat /\ Modes = 0 .. NumModes - 1
    BY ModesFacts
  <2>2. \A m \in 0 .. NumModes - 1 : f[m] \in Nat /\ g[m] \in Nat /\ f[m] =< g[m]
    BY <1>2, <2>1, FiniteMask, CeilLog2Holds
  <2>3. S[0] = {}
    BY <2>1
  <2>4. ASSUME NEW k \in 0 .. NumModes PROVE IsFiniteSet(S[k])
    <3>1. S[k] \in SUBSET Position
      OBVIOUS
    <3> HIDE DEF S
    <3> QED BY <3>1, FiniteMask
  <2>5. ASSUME NEW k \in 0 .. NumModes - 1
        PROVE  S[k] \subseteq S[k + 1] /\ f[k] = Cardinality(S[k + 1] \ S[k])
    <3>1. k \in Modes /\ k \in 0 .. NumModes /\ k + 1 \in 0 .. NumModes
          /\ 0 .. (k + 1) - 1 = (0 .. k - 1) \cup {k} /\ k \notin 0 .. k - 1 /\ 0 .. k - 1 \subseteq Modes
      BY <2>1
    <3>2. S[k + 1] \ S[k] = M[k]
      <4>1. S[k + 1] = {b \in Position : \E m \in (0 .. k - 1) \cup {k} : b \in M[m]}
        BY <3>1
      <4>2. S[k] = {b \in Position : \E m \in 0 .. k - 1 : b \in M[m]}
        BY <3>1
      <4>3. \A m \in 0 .. k - 1 : M[m] \cap M[k] = {}
        BY <1>2, <3>1
      <4>4. M[k] \subseteq Position
        BY <1>2, <3>1
      <4> HIDE DEF S
      <4> QED BY <4>1, <4>2, <4>3, <4>4
    <3>3. S[k] \subseteq S[k + 1]
      BY <3>1
    <3> QED BY <3>1, <3>2, <3>3
  <2>6. S[NumModes] = Position
    BY <1>3, <2>1
  <2> HIDE DEF S, f, g
  <2>7. Growing(S, f, NumModes)
    BY <2>3, <2>4, <2>5 DEF Growing
  <2>8. RunningSum(f, NumModes) = Cardinality(Position)
    BY <2>1, <2>6, <2>7, SumCounts
  <2>9. Cardinality(Position) = KeyBits
    <3>1. 0 \in Int /\ KeyBits - 1 \in Int
      BY <1>0
    <3>2. Cardinality(0 .. KeyBits - 1) = IF 0 > KeyBits - 1 THEN 0 ELSE (KeyBits - 1) - 0 + 1
      BY <3>1, FS_Interval
    <3> QED BY <1>0, <3>2
  <2>10. RunningSum(g, NumModes) =< RunningSum(f, NumModes)
    BY <2>8, <2>9 DEF BitsNeeded, g
  <2>11. f[l] = g[l]
    BY <2>1, <2>2, <2>10, SumsTight
  <2> QED BY <2>11 DEF f, g
<1> QED BY <1>2, <1>3 DEF Planned, M

\* A number below a power of two has no bit from there on.
LEMMA BitsOfSmall ==
  ASSUME NEW k \in Nat, NEW x \in Nat, x < Pow2[k]
  PROVE  \A p \in Bits(x) : p < k
<1> SUFFICES ASSUME NEW p \in Bits(x), ~ (p < k) PROVE FALSE
  OBVIOUS
<1>1. p \in Nat /\ (x \div Pow2[p]) % 2 = 1
  BY KeyBitsType DEF Bits, Position
<1>2. Pow2[k] \in Nat /\ Pow2[p] \in Nat \ {0} /\ Pow2[k] =< Pow2[p]
  BY <1>1, Pow2Def, Pow2Mono
<1>3. PICK m \in Nat \ {0} : m = Pow2[p]
  BY <1>2
<1>4. (m * 0 + x) \div m = 0 /\ m * 0 + x = x
  BY <1>2, <1>3, QuotientIs
<1> QED BY <1>1, <1>3, <1>4

\* A mode's rows are read back from the key they were packed into.
LEMMA RoundTrip ==
  ASSUME NEW M, Planned(M), \A m \in Modes : size[m] \in Nat \ {0} /\ row[m] \in [Slot -> 0 .. size[m] - 1],
         NEW i \in Slot
  PROVE  /\ PackedKey(M, i) \in Nat /\ PackedKey(M, i) < Pow2[KeyBits]
         /\ \A m \in Modes : Pext(PackedKey(M, i), M[m]) = row[m][i]
<1> DEFINE D(m) == {p \in M[m] : Rank(p, M[m]) \in Bits(row[m][i])}
           U == UNION {Bits(Pdep(row[m][i], M[m])) : m \in Modes}
           key == PackedKey(M, i)
<1>1. /\ M \in [Modes -> SUBSET Position]
      /\ \A j, m \in Modes : j # m => M[j] \cap M[m] = {}
      /\ \A m \in Modes : Cardinality(M[m]) = CeilLog2(size[m])
  BY DEF Planned
<1>2. ASSUME NEW m \in Modes PROVE Bits(Pdep(row[m][i], M[m])) = D(m)
  <2>1. D(m) \in SUBSET Position
    BY <1>1
  <2>2. Pdep(row[m][i], M[m]) = Word(D(m))
    BY DEF Pdep
  <2> HIDE DEF D
  <2> QED BY <2>1, <2>2, BitsOfWord
<1>3. U = UNION {D(m) : m \in Modes}
  <2> HIDE DEF D
  <2> QED BY <1>2
<1>4. U \in SUBSET Position /\ \A m \in Modes : M[m] \cap U = D(m)
  <2>1. U \in SUBSET Position
    BY <1>1, <1>3
  <2>2. ASSUME NEW m \in Modes PROVE M[m] \cap U = D(m)
    <3>1. D(m) \subseteq M[m] /\ D(m) \subseteq U
      BY <1>3
    <3>2. ASSUME NEW p \in M[m], p \in U PROVE p \in D(m)
      <4>1. PICK j \in Modes : p \in D(j)
        <5> HIDE DEF U, D
        <5> QED BY <1>3, <3>2
      <4>2. p \in M[j]
        BY <4>1
      <4>3. j = m
        BY <1>1, <3>2, <4>2
      <4> QED BY <4>1, <4>3
    <3> HIDE DEF U, D
    <3> QED BY <3>1, <3>2
  <2> QED BY <2>1, <2>2
<1>5. key = Word(U)
  BY DEF PackedKey
<1> HIDE DEF U, key
<1>6. key \in Nat /\ key < Pow2[KeyBits] /\ Bits(key) = U
  BY <1>4, <1>5, BitsOfWord
<1>7. ASSUME NEW m \in Modes PROVE Pext(key, M[m]) = row[m][i]
  <2> DEFINE x == row[m][i]
             c == Cardinality(M[m])
  <2>1. M[m] \in SUBSET Position /\ c \in 0 .. KeyBits /\ KeyBits \in Nat
    BY <1>1, FiniteMask, KeyBitsType
  <2>2. x \in Nat /\ x < Pow2[c]
    <3>1. row[m][i] \in 0 .. size[m] - 1 /\ size[m] \in Nat \ {0}
      OBVIOUS
    <3>2. size[m] =< Pow2[c] /\ Pow2[c] \in Nat
      BY <1>1, <2>1, <3>1, CeilLog2Holds, Pow2Def
    <3> HIDE DEF c
    <3> QED BY <3>1, <3>2
  <2>3. \A p \in Bits(x) : p \in 0 .. c - 1
    <3>1. \A p \in Bits(x) : p \in Nat /\ p < c
      <4>1. c \in Nat
        BY <2>1
      <4>2. \A p \in Bits(x) : p \in Nat
        BY KeyBitsType DEF Bits, Position
      <4> HIDE DEF x, c
      <4> QED BY <2>2, <4>1, <4>2, BitsOfSmall
    <3> HIDE DEF x, c
    <3> QED BY <2>1, <3>1
  <2>4. {Rank(p, M[m]) : p \in M[m]} = 0 .. c - 1
    BY <2>1, Ranks
  <2>5. {Rank(p, M[m]) : p \in D(m)} = Bits(x)
    <3>1. ASSUME NEW r \in Bits(x) PROVE \E p \in D(m) : r = Rank(p, M[m])
      <4>1. PICK p \in M[m] : r = Rank(p, M[m])
        <5> HIDE DEF x, c
        <5> QED BY <2>3, <2>4, <3>1
      <4> QED BY <3>1, <4>1
    <3>2. \A p \in D(m) : Rank(p, M[m]) \in Bits(x)
      OBVIOUS
    <3> HIDE DEF D, x
    <3> QED BY <3>1, <3>2
  <2>6. Pext(key, M[m]) = Word({Rank(p, M[m]) : p \in D(m)})
    <3>1. M[m] \cap Bits(key) = D(m)
      <4> HIDE DEF D
      <4> QED BY <1>4, <1>6
    <3> HIDE DEF D
    <3> QED BY <3>1 DEF Pext
  <2>7. x < Pow2[KeyBits]
    <3>1. Pow2[c] =< Pow2[KeyBits] /\ Pow2[c] \in Nat /\ Pow2[KeyBits] \in Nat
      <4> HIDE DEF c
      <4>1. c \in Nat /\ c =< KeyBits
        BY <2>1
      <4> QED BY <2>1, <4>1, Pow2Mono, Pow2Def
    <3> HIDE DEF x, c
    <3> QED BY <2>2, <3>1
  <2> HIDE DEF x, c, D
  <2>8. Word(Bits(x)) = x
    BY <2>2, <2>7, WordOfBits
  <2> QED BY <2>5, <2>6, <2>8 DEF x
<1> QED BY <1>6, <1>7 DEF key

-----------------------------------------------------------------------------
(* The buckets of the keys. *)

LEMMA DivMono ==
  ASSUME NEW m \in Nat \ {0}, NEW x \in Nat, NEW z \in Nat, x =< z
  PROVE  x \div m =< z \div m
<1> DEFINE a == x \div m
           b == z \div m
<1>1. a \in Nat /\ m * a \in Nat /\ m * a =< x /\ b \in Nat /\ m * b \in Nat /\ z < m * b + m
  BY Division
<1> HIDE DEF a, b
<1>2. ~ (b < a)
  <2> SUFFICES ASSUME b < a PROVE FALSE
    OBVIOUS
  <2>1. PICK c : c = b + 1
    OBVIOUS
  <2>2. c \in Nat /\ c =< a /\ m \in Nat
    BY <1>1, <2>1
  <2>3. c * m =< a * m
    BY <1>1, <2>2, ProductMono, Zenon
  <2>4. c * m = m * b + m /\ a * m = m * a
    BY <1>1, <2>1
  <2> QED BY <1>1, <2>3, <2>4
<1>3. a =< b
  BY <1>1, <1>2
<1> QED BY <1>3 DEF a, b

LEMMA BucketsType == Buckets \in Nat \ {0} /\ Bucket = 0 .. Buckets - 1
BY KeyBitsType, Pow2Def DEF Buckets, Bucket

LEMMA BucketInRange ==
  ASSUME NEW x \in Nat, x < Pow2[KeyBits]
  PROVE  BucketOf(x) \in Bucket
<1> DEFINE m == Pow2[KeyBits - BucketBits]
           q == x \div m
<1>1. m \in Nat \ {0} /\ Buckets \in Nat \ {0}
  BY KeyBitsType, Pow2Def, BucketsType
<1>2. Pow2[KeyBits] = m * Buckets
  <2>1. (KeyBits - BucketBits) + BucketBits = KeyBits
    BY KeyBitsType
  <2> QED BY <2>1, KeyBitsType, Pow2Sum DEF Buckets
<1>3. BucketOf(x) = q
  BY DEF BucketOf
<1> HIDE DEF m
<1>4. q \in Nat /\ m * q \in Nat /\ m * q =< x
  BY <1>1, Division
<1> HIDE DEF q
<1>5. ~ (Buckets =< q)
  <2> SUFFICES ASSUME Buckets =< q PROVE FALSE
    OBVIOUS
  <2>1. m \in Nat /\ Buckets \in Nat
    BY <1>1
  <2>2. Buckets * m =< q * m
    BY <1>4, <2>1, ProductMono, Zenon
  <2>3. Buckets * m = m * Buckets /\ q * m = m * q /\ m * Buckets \in Nat
    BY <1>1, <1>4
  <2> QED BY <1>2, <1>4, <2>2, <2>3
<1> QED BY <1>1, <1>3, <1>4, <1>5, BucketsType

\* A key of a lower bucket is lower.
LEMMA BucketOrder ==
  ASSUME NEW x \in Nat, NEW z \in Nat, BucketOf(x) < BucketOf(z)
  PROVE  x < z
<1>1. Pow2[KeyBits - BucketBits] \in Nat \ {0}
  BY KeyBitsType, Pow2Def
<1>2. BucketOf(x) \in Nat /\ BucketOf(z) \in Nat
  BY <1>1, Division DEF BucketOf
<1>3. z =< x => BucketOf(z) =< BucketOf(x)
  BY <1>1, DivMono DEF BucketOf
<1> QED BY <1>2, <1>3

-----------------------------------------------------------------------------
(* The threads' slices tile the slots. *)

LEMMA SlotFacts ==
  /\ nnz \in Nat \ {0} /\ P \in Nat \ {0} /\ Per \in Nat /\ nnz =< P * Per
  /\ Slot = 0 .. nnz - 1 /\ Thread = 0 .. P - 1
  /\ \A i \in Slot : i \in Nat
  /\ \A D \in SUBSET Slot : IsFiniteSet(D) /\ Cardinality(D) \in Nat
  /\ Cardinality(Slot) = nnz
<1>1. nnz \in Nat \ {0} /\ P \in Nat \ {0} /\ Slot = 0 .. nnz - 1 /\ Thread = 0 .. P - 1
  BY MortonAssumption DEF Slot, Thread
<1>2. Per \in Nat /\ nnz =< P * Per
  <2> DEFINE c == nnz + P - 1
             q == c \div P
  <2>1. c \in Nat
    BY <1>1
  <2>2. q \in Nat /\ P * q \in Nat /\ c < P * q + P
    <3> HIDE DEF c
    <3> QED BY <1>1, <2>1, Division
  <2>3. Per = q
    BY DEF Per
  <2> HIDE DEF q
  <2> QED BY <1>1, <2>2, <2>3
<1>3. IsFiniteSet(Slot) /\ Cardinality(Slot) = nnz
  <2>1. 0 \in Int /\ nnz - 1 \in Int
    BY <1>1
  <2>2. IsFiniteSet(0 .. nnz - 1)
    BY <2>1, FS_Interval
  <2>3. Cardinality(0 .. nnz - 1) = IF 0 > nnz - 1 THEN 0 ELSE (nnz - 1) - 0 + 1
    BY <2>1, FS_Interval
  <2> QED BY <1>1, <2>2, <2>3
<1>4. ASSUME NEW D \in SUBSET Slot PROVE IsFiniteSet(D) /\ Cardinality(D) \in Nat
  BY <1>3, FS_Subset, FS_CardinalityType
<1>5. \A i \in Slot : i \in Nat
  BY <1>1
<1> QED BY <1>1, <1>2, <1>3, <1>4, <1>5

LEMMA SliceIs ==
  ASSUME NEW t \in Thread
  PROVE  /\ t \in Nat /\ t * Per \in Nat /\ End(t) \in Nat /\ End(t) =< nnz
         /\ (t + 1) * Per = t * Per + Per
         /\ Slice(t) \subseteq Slot
         /\ \A i \in Slot : i \in Slice(t) <=> t * Per <= i /\ i < (t + 1) * Per
         /\ \A i \in Slot : i \in Slice(t) <=> t * Per <= i /\ i < End(t)
<1>1. t \in Nat /\ Per \in Nat /\ nnz \in Nat /\ Slot = 0 .. nnz - 1
  BY SlotFacts
<1>2. PICK b : b = t * Per
  OBVIOUS
<1>3. b \in Nat /\ (t + 1) * Per = b + Per
  BY <1>1, <1>2
<1>4. End(t) = (IF nnz < b + Per THEN nnz ELSE b + Per) /\ Slice(t) = b .. End(t) - 1
  BY <1>2 DEF End, Slice
<1> QED BY <1>1, <1>2, <1>3, <1>4

LEMMA SliceOf ==
  ASSUME NEW i \in Slot
  PROVE  \E t \in Thread : i \in Slice(t)
<1> DEFINE S == {k \in Nat : i < k * Per}
<1>1. /\ i \in Nat /\ i < nnz /\ P \in Nat /\ P * Per \in Nat /\ nnz =< P * Per /\ nnz \in Nat
      /\ Thread = 0 .. P - 1
  BY SlotFacts
<1>2. P \in S
  BY <1>1
<1>3. PICK k \in S : \A z \in S : k =< z
  <2> HIDE DEF S
  <2>1. S \in SUBSET Nat
    BY DEF S
  <2> QED BY <1>2, <2>1, LeastElement
<1>4. k # 0 /\ k \in Nat /\ k =< P
  <2>1. 0 * Per = 0
    BY SlotFacts
  <2> QED BY <1>1, <1>2, <1>3, <2>1
<1>5. PICK t \in Thread : k = t + 1
  <2>1. k - 1 \in Thread /\ k = (k - 1) + 1
    BY <1>1, <1>4
  <2> QED BY <2>1
<1>6. t \in Nat /\ t \notin S
  BY <1>1, <1>3, <1>5
<1>7. t * Per \in Nat
  BY SliceIs
<1>8. t * Per =< i /\ i < (t + 1) * Per
  BY <1>1, <1>3, <1>5, <1>6, <1>7
<1> QED BY <1>8, SliceIs

\* What the threads before k have counted of a set of slots.
LEMMA SliceSum ==
  ASSUME NEW D \in SUBSET Slot, NEW k \in 0 .. P,
         NEW f, \A t \in Thread : f[t] = Cardinality(Slice(t) \cap D)
  PROVE  RunningSum(f, k) = Cardinality({i \in D : i < k * Per})
<1> DEFINE S == [j \in 0 .. k |-> {i \in D : i < j * Per}]
<1>1. P \in Nat /\ k \in Nat /\ k =< P /\ Thread = 0 .. P - 1 /\ Per \in Nat /\ \A i \in D : i \in Nat /\ i \in Slot
  BY SlotFacts
<1>2. S[0] = {}
  <2>1. 0 * Per = 0 /\ 0 \in 0 .. k
    BY <1>1
  <2> QED BY <1>1, <2>1
<1>3. ASSUME NEW j \in 0 .. k PROVE IsFiniteSet(S[j])
  <2>1. S[j] \in SUBSET Slot
    BY <1>1
  <2> HIDE DEF S
  <2> QED BY <2>1, SlotFacts
<1>4. ASSUME NEW j \in 0 .. k - 1
      PROVE  S[j] \subseteq S[j + 1] /\ f[j] = Cardinality(S[j + 1] \ S[j])
  <2>1. j \in Thread /\ j \in 0 .. k /\ j + 1 \in 0 .. k
    BY <1>1
  <2>2. PICK a, b : a = j * Per /\ b = (j + 1) * Per
    OBVIOUS
  <2>3. /\ a \in Nat /\ b = a + Per /\ Slice(j) \subseteq Slot
        /\ \A i \in Slot : i \in Slice(j) <=> a <= i /\ i < b
    BY <2>1, <2>2, SliceIs
  <2>4. S[j] = {i \in D : i < a} /\ S[j + 1] = {i \in D : i < b}
    BY <2>1, <2>2
  <2> HIDE DEF S
  <2>5. S[j] \subseteq S[j + 1]
    BY <1>1, <2>3, <2>4
  <2>6. S[j + 1] \ S[j] = Slice(j) \cap D
    BY <1>1, <2>3, <2>4
  <2> QED BY <2>1, <2>5, <2>6
<1>5. RunningSum(f, k) = Cardinality(S[k])
  <2> HIDE DEF S
  <2>1. Growing(S, f, k)
    BY <1>2, <1>3, <1>4 DEF Growing
  <2> QED BY <1>1, <2>1, SumCounts
<1> QED BY <1>1, <1>5

-----------------------------------------------------------------------------
(* The stable order by bucket. *)

\* Every key is in a bucket.
Bucketed == \A i \in Slot : BucketAt(i) \in Bucket

LEMMA BucketFacts ==
  ASSUME Bucketed
  PROVE  /\ Buckets \in Nat \ {0} /\ Bucket = 0 .. Buckets - 1
         /\ \A i \in Slot : BucketAt(i) \in Nat /\ BucketAt(i) \in Bucket /\ i \in Nat
BY BucketsType, SlotFacts DEF Bucketed

LEMMA BeforeSets ==
  ASSUME NEW b, NEW p
  PROVE  Before(b, p) \in SUBSET Slot /\ IsFiniteSet(Before(b, p)) /\ Cardinality(Before(b, p)) \in Nat
<1>1. Before(b, p) \in SUBSET Slot
  BY DEF Before
<1> QED BY <1>1, SlotFacts

LEMMA TargetOrder ==
  ASSUME Bucketed, NEW i \in Slot, NEW j \in Slot,
         BucketAt(i) < BucketAt(j) \/ (BucketAt(i) = BucketAt(j) /\ i < j)
  PROVE  Target(i) < Target(j)
<1> DEFINE a == BucketAt(i)
           b == BucketAt(j)
<1>1. a \in Nat /\ b \in Nat /\ \A c \in Slot : BucketAt(c) \in Nat /\ c \in Nat
  BY BucketFacts
<1>2. ASSUME NEW c \in Before(a, i) PROVE c \in Before(b, j)
  <2>1. c \in Slot /\ (BucketAt(c) < a \/ (BucketAt(c) = a /\ c < i))
    BY DEF Before
  <2>2. BucketAt(c) \in Nat /\ c \in Nat /\ i \in Nat /\ j \in Nat
    BY <1>1, <2>1
  <2>3. BucketAt(c) < b \/ (BucketAt(c) = b /\ c < j)
    BY <1>1, <2>1, <2>2
  <2> QED BY <2>1, <2>3 DEF Before
<1>3. i \in Before(b, j) /\ i \notin Before(a, i)
  BY <1>1 DEF Before
<1>4. Before(a, i) \in SUBSET Before(b, j) /\ IsFiniteSet(Before(b, j))
  BY <1>2, BeforeSets
<1>5. Cardinality(Before(a, i)) < Cardinality(Before(b, j))
  <2> HIDE DEF a, b
  <2> QED BY <1>3, <1>4, FewerElements
<1> QED BY <1>5 DEF Target

LEMMA TargetInjective ==
  ASSUME Bucketed, NEW i \in Slot, NEW j \in Slot, Target(i) = Target(j)
  PROVE  i = j
<1>1. Target(i) \in Nat /\ Target(j) \in Nat
  BY BeforeSets DEF Target
<1>2. i \in Nat /\ j \in Nat /\ BucketAt(i) \in Nat /\ BucketAt(j) \in Nat
  BY BucketFacts
<1>3. BucketAt(i) < BucketAt(j) \/ (BucketAt(i) = BucketAt(j) /\ i < j) => Target(i) < Target(j)
  BY TargetOrder
<1>4. BucketAt(j) < BucketAt(i) \/ (BucketAt(j) = BucketAt(i) /\ j < i) => Target(j) < Target(i)
  BY TargetOrder
<1> QED BY <1>1, <1>2, <1>3, <1>4

LEMMA TargetType ==
  ASSUME Bucketed, NEW i \in Slot
  PROVE  Target(i) \in Slot
<1> DEFINE b == BucketAt(i)
<1>1. Before(b, i) \in SUBSET Slot /\ i \notin Before(b, i) /\ Cardinality(Before(b, i)) \in Nat
  <2>1. Before(b, i) \in SUBSET Slot /\ Cardinality(Before(b, i)) \in Nat
    <3> HIDE DEF b
    <3> QED BY BeforeSets
  <2>2. i \notin Before(b, i)
    BY BucketFacts DEF Before
  <2> QED BY <2>1, <2>2
<1>2. IsFiniteSet(Slot) /\ Cardinality(Slot) = nnz /\ nnz \in Nat /\ Slot = 0 .. nnz - 1
  BY SlotFacts
<1>3. Cardinality(Before(b, i)) < nnz
  <2> HIDE DEF b
  <2> QED BY <1>1, <1>2, FewerElements
<1> QED BY <1>1, <1>2, <1>3 DEF Target

\* A one-to-one table of a finite set into itself reaches every element.
LEMMA Reaches ==
  ASSUME NEW S, IsFiniteSet(S), NEW g \in [S -> S], \A i, j \in S : g[i] = g[j] => i = j
  PROVE  \A d \in S : \E i \in S : g[i] = d
<1>1. g \in Injection(S, S)
  BY DEF Injection, IsInjective
<1>2. g \in Surjection(S, S)
  BY <1>1, FS_Injection
<1> QED BY <1>2 DEF Surjection

LEMMA TargetsAll ==
  ASSUME Bucketed, NEW d \in Slot
  PROVE  \E i \in Slot : Target(i) = d
<1> DEFINE g == [i \in Slot |-> Target(i)]
<1>1. g \in [Slot -> Slot]
  BY TargetType
<1>2. \A i, j \in Slot : g[i] = g[j] => i = j
  BY TargetInjective
<1>3. \E i \in Slot : g[i] = d
  <2> HIDE DEF g
  <2>1. IsFiniteSet(Slot)
    BY SlotFacts
  <2> QED BY <1>1, <1>2, <2>1, Reaches
<1> QED BY <1>3

\* The cursor of a bucket moves past the nonzero just placed.
LEMMA BeforeStep ==
  ASSUME Bucketed, NEW i \in Slot, NEW u \in Bucket
  PROVE  Cardinality(Before(u, i + 1))
           = IF BucketAt(i) = u THEN Cardinality(Before(u, i)) + 1 ELSE Cardinality(Before(u, i))
<1>1. u \in Nat /\ i \in Nat /\ \A c \in Slot : BucketAt(c) \in Nat /\ c \in Nat
  BY BucketFacts
<1>2. \A c \in Slot : c < i + 1 <=> c < i \/ c = i
  BY <1>1
<1>3. \A p : Before(u, p) = {c \in Slot : BucketAt(c) < u \/ (BucketAt(c) = u /\ c < p)}
  BY DEF Before
<1>4. CASE BucketAt(i) = u
  <2>1. Before(u, i + 1) = Before(u, i) \cup {i}
    BY <1>2, <1>3, <1>4
  <2>2. i \notin Before(u, i)
    BY <1>1, <1>3, <1>4
  <2>3. IsFiniteSet(Before(u, i))
    BY BeforeSets
  <2>4. Cardinality(Before(u, i) \cup {i}) = Cardinality(Before(u, i)) + 1
    BY <2>2, <2>3, FS_AddElement
  <2> QED BY <1>4, <2>1, <2>4
<1>5. CASE BucketAt(i) # u
  <2>1. Before(u, i + 1) = Before(u, i)
    BY <1>2, <1>3, <1>5
  <2> QED BY <1>5, <2>1
<1> QED BY <1>4, <1>5

-----------------------------------------------------------------------------
(* What the histograms add up to. *)

LEMMA ThreadSum ==
  ASSUME \A t \in Thread : Histogram(t), NEW b \in Bucket, NEW k \in 0 .. P
  PROVE  RunningSum([t \in Thread |-> hist[t][b]], k)
           = Cardinality({i \in Slot : BucketAt(i) = b /\ i < k * Per})
<1> DEFINE f == [t \in Thread |-> hist[t][b]]
           D == {i \in Slot : BucketAt(i) = b}
<1>1. D \in SUBSET Slot
  OBVIOUS
<1>2. ASSUME NEW t \in Thread PROVE f[t] = Cardinality(Slice(t) \cap D)
  <2>1. hist[t][b] = Cardinality({i \in Slice(t) : BucketAt(i) = b})
    BY DEF Histogram
  <2>2. Slice(t) \subseteq Slot
    BY SliceIs
  <2>3. {i \in Slice(t) : BucketAt(i) = b} = Slice(t) \cap D
    BY <2>2
  <2> QED BY <2>1, <2>3
<1>3. RunningSum(f, k) = Cardinality({i \in D : i < k * Per})
  <2> HIDE DEF f, D
  <2> QED BY <1>1, <1>2, SliceSum
<1>4. {i \in D : i < k * Per} = {i \in Slot : BucketAt(i) = b /\ i < k * Per}
  OBVIOUS
<1> QED BY <1>3, <1>4

LEMMA TotalIs ==
  ASSUME \A t \in Thread : Histogram(t), NEW b \in Bucket
  PROVE  Total(b) = Cardinality({i \in Slot : BucketAt(i) = b})
<1>1. P \in 0 .. P /\ \A i \in Slot : i < P * Per
  <2>1. /\ P \in Nat /\ nnz \in Nat /\ P * Per \in Nat /\ nnz =< P * Per
        /\ Slot = 0 .. nnz - 1
    BY SlotFacts
  <2> QED BY <2>1
<1>2. Total(b) = Cardinality({i \in Slot : BucketAt(i) = b /\ i < P * Per})
  BY <1>1, ThreadSum DEF Total
<1>3. {i \in Slot : BucketAt(i) = b /\ i < P * Per} = {i \in Slot : BucketAt(i) = b}
  BY <1>1
<1> QED BY <1>2, <1>3

LEMMA BaseIs ==
  ASSUME Bucketed, \A t \in Thread : Histogram(t), NEW b \in 0 .. Buckets
  PROVE  RunningSum([c \in Bucket |-> Total(c)], b) = Cardinality({i \in Slot : BucketAt(i) < b})
<1> DEFINE f == [c \in Bucket |-> Total(c)]
           K == [i \in Slot |-> BucketAt(i)]
<1>1. /\ b \in Nat /\ 0 .. b - 1 \subseteq Bucket /\ IsFiniteSet(Slot)
      /\ \A i \in Slot : K[i] \in Nat
  BY BucketFacts, SlotFacts
<1>2. ASSUME NEW c \in 0 .. b - 1 PROVE f[c] = Cardinality({i \in Slot : K[i] = c})
  <2>1. c \in Bucket
    BY <1>1
  <2>2. f[c] = Cardinality({i \in Slot : BucketAt(i) = c})
    BY <2>1, TotalIs
  <2> QED BY <2>2
<1>3. RunningSum(f, b) = Cardinality(Under(Slot, K, b))
  <2> HIDE DEF f, K
  <2>1. Tallied(f, Slot, K, b)
    BY <1>1, <1>2 DEF Tallied
  <2> QED BY <1>1, <2>1, KeySum
<1> QED BY <1>3 DEF Under

LEMMA OffsetIs ==
  ASSUME Bucketed, \A t \in Thread : Histogram(t), NEW b \in Bucket, NEW t \in Thread
  PROVE  RunningSum([c \in Bucket |-> Total(c)], b) + RunningSum([u \in Thread |-> hist[u][b]], t)
           = Cardinality(Before(b, t * Per))
<1> DEFINE A == {i \in Slot : BucketAt(i) < b}
           B == {i \in Slot : BucketAt(i) = b /\ i < t * Per}
<1>1. b \in 0 .. Buckets /\ t \in 0 .. P /\ b \in Nat
  BY BucketFacts, SlotFacts
<1>2. RunningSum([c \in Bucket |-> Total(c)], b) = Cardinality(A)
  BY <1>1, BaseIs
<1>3. RunningSum([u \in Thread |-> hist[u][b]], t) = Cardinality(B)
  BY <1>1, ThreadSum
<1>4. A \in SUBSET Slot /\ B \in SUBSET Slot /\ A \cap B = {} /\ A \cup B = Before(b, t * Per)
  BY <1>1, BucketFacts DEF Before
<1> HIDE DEF A, B
<1>5. IsFiniteSet(A) /\ IsFiniteSet(B) /\ Cardinality(A) \in Nat /\ Cardinality(B) \in Nat
  BY <1>4, SlotFacts
<1>6. Cardinality(A \cup B) = Cardinality(A) + Cardinality(B) - Cardinality(A \cap B)
  BY <1>5, FS_Union
<1>7. Cardinality(A \cap B) = 0
  BY <1>4, FS_EmptySet
<1>8. Cardinality(A \cup B) = Cardinality(Before(b, t * Per))
  BY <1>4
<1> QED BY <1>2, <1>3, <1>5, <1>6, <1>7, <1>8

\* The ranges of the buckets are in order, and a target is in the range of
\* its bucket.
LEMMA RangeFacts ==
  ASSUME Bucketed, base = [b \in 0 .. Buckets |-> Cardinality({i \in Slot : BucketAt(i) < b})]
  PROVE  /\ \A b \in Bucket : BucketRange(b) \subseteq Slot /\ base[b] \in Nat /\ base[b + 1] \in Nat
         /\ \A b, c \in Bucket : b < c => base[b + 1] =< base[c]
         /\ \A i \in Slot : Target(i) \in BucketRange(BucketAt(i))
<1> DEFINE L(b) == {i \in Slot : BucketAt(i) < b}
<1>0. Buckets \in Nat \ {0} /\ Bucket = 0 .. Buckets - 1 /\ nnz \in Nat /\ Slot = 0 .. nnz - 1
  BY BucketFacts, SlotFacts
<1>1. \A b \in 0 .. Buckets : base[b] = Cardinality(L(b))
  OBVIOUS
<1>2. \A b : L(b) \in SUBSET Slot
  OBVIOUS
<1>3. \A b, c \in Nat : b =< c => L(b) \subseteq L(c)
  BY BucketFacts
<1>4. \A b : IsFiniteSet(L(b)) /\ Cardinality(L(b)) \in Nat /\ Cardinality(L(b)) =< nnz
  <2> SUFFICES ASSUME NEW b PROVE IsFiniteSet(L(b)) /\ Cardinality(L(b)) \in Nat /\ Cardinality(L(b)) =< nnz
    OBVIOUS
  <2>1. L(b) \in SUBSET Slot /\ IsFiniteSet(Slot) /\ Cardinality(Slot) = nnz
    BY <1>2, SlotFacts
  <2> HIDE DEF L
  <2> QED BY <2>1, FS_Subset, FS_CardinalityType
<1>5. ASSUME NEW b \in Bucket PROVE BucketRange(b) \subseteq Slot /\ base[b] \in Nat /\ base[b + 1] \in Nat
  <2>1. b \in 0 .. Buckets /\ b + 1 \in 0 .. Buckets
    BY <1>0
  <2>2. base[b] \in Nat /\ base[b + 1] \in Nat /\ base[b + 1] =< nnz
    <3> HIDE DEF L
    <3> QED BY <1>1, <1>4, <2>1
  <2>3. PICK d : d = b + 1
    OBVIOUS
  <2>4. BucketRange(b) = base[b] .. base[d] - 1
    BY <2>3 DEF BucketRange
  <2>5. base[b] .. base[d] - 1 \subseteq 0 .. nnz - 1
    <3>1. base[b] \in Nat /\ base[d] \in Nat /\ base[d] =< nnz
      BY <2>2, <2>3
    <3>2. \A x, z \in Nat : z =< nnz => x .. z - 1 \subseteq 0 .. nnz - 1
      BY <1>0
    <3> HIDE DEF L
    <3> QED BY <3>1, <3>2
  <2> QED BY <1>0, <2>2, <2>4, <2>5
<1>6. ASSUME NEW b \in Bucket, NEW c \in Bucket, b < c PROVE base[b + 1] =< base[c]
  <2>1. b + 1 \in 0 .. Buckets /\ c \in 0 .. Buckets /\ b + 1 =< c /\ b + 1 \in Nat /\ c \in Nat
    BY <1>0, <1>6
  <2>2. PICK d : d = b + 1
    OBVIOUS
  <2>3. L(d) \subseteq L(c) /\ IsFiniteSet(L(c))
    BY <1>3, <1>4, <2>1, <2>2
  <2> HIDE DEF L
  <2>4. Cardinality(L(d)) =< Cardinality(L(c))
    BY <2>3, FS_Subset
  <2> QED BY <1>1, <2>1, <2>2, <2>4
<1>7. ASSUME NEW i \in Slot PROVE Target(i) \in BucketRange(BucketAt(i))
  <2>1. PICK b : b = BucketAt(i)
    OBVIOUS
  <2>2. /\ b \in Bucket /\ b \in Nat /\ b + 1 \in Nat /\ b \in 0 .. Buckets /\ b + 1 \in 0 .. Buckets
        /\ i \in Nat
    BY <1>0, <2>1, BucketFacts
  <2>3. Target(i) = Cardinality(Before(b, i)) /\ IsFiniteSet(Before(b, i)) /\ Cardinality(Before(b, i)) \in Nat
    BY <2>1, BeforeSets DEF Target
  <2>4. L(b) \subseteq Before(b, i)
    BY DEF Before
  <2>5. Before(b, i) \in SUBSET L(b + 1) /\ i \in L(b + 1) /\ i \notin Before(b, i)
    <3>1. \A j \in Slot : BucketAt(j) \in Nat /\ j \in Nat
      BY BucketFacts
    <3>2. \A j \in Slot : BucketAt(j) < b \/ BucketAt(j) = b => BucketAt(j) < b + 1
      BY <2>2, <3>1
    <3>3. Before(b, i) = {j \in Slot : BucketAt(j) < b \/ (BucketAt(j) = b /\ j < i)}
      BY DEF Before
    <3>4. i \in L(b + 1)
      BY <2>1, <3>2
    <3>5. i \notin Before(b, i)
      BY <2>1, <2>2, <3>3
    <3>6. Before(b, i) \subseteq L(b + 1)
      BY <3>2, <3>3
    <3> QED BY <3>4, <3>5, <3>6
  <2>6. PICK d : d = b + 1
    OBVIOUS
  <2> HIDE DEF L
  <2>7. Cardinality(L(b)) =< Cardinality(Before(b, i))
    BY <2>3, <2>4, FS_Subset
  <2>8. Cardinality(Before(b, i)) < Cardinality(L(d))
    <3>1. Before(b, i) \in SUBSET L(d) /\ i \in L(d) /\ i \notin Before(b, i) /\ IsFiniteSet(L(d))
      BY <1>4, <2>5, <2>6
    <3> QED BY <3>1, FewerElements
  <2>9. base[b] = Cardinality(L(b)) /\ base[d] = Cardinality(L(d))
    BY <1>1, <2>2, <2>6
  <2>10. Cardinality(L(b)) \in Nat /\ Cardinality(L(d)) \in Nat
    BY <1>4
  <2>11. Target(i) \in base[b] .. base[d] - 1
    BY <2>3, <2>7, <2>8, <2>9, <2>10
  <2> QED BY <2>1, <2>6, <2>11 DEF BucketRange
<1> QED BY <1>5, <1>6, <1>7

-----------------------------------------------------------------------------
(* The steps of the build. *)

PackedSteps == {"packed", "count", "scatter", "sort"}

LEMMA PackedFacts ==
  ASSUME MortonInvariant, step \in PackedSteps
  PROVE  /\ Planned(mask) /\ Bucketed
         /\ \A i \in Slot : vals[i] = i /\ keys[i] \in Nat
         /\ \A i \in Slot, m \in Modes : Pext(keys[i], mask[m]) = row[m][i]
<1>1. /\ \A m \in Modes : size[m] \in Nat \ {0} /\ row[m] \in [Slot -> 0 .. size[m] - 1]
      /\ BitsNeeded(size) <= KeyBits /\ mask = BuildPlan(size)
      /\ keys = [i \in Slot |-> PackedKey(mask, i)] /\ vals = [i \in Slot |-> i]
  BY DEF MortonInvariant, TensorInv, PackInv, PackedSteps
<1>2. Planned(mask)
  BY <1>1, PlanFits
<1>3. ASSUME NEW i \in Slot
      PROVE  keys[i] \in Nat /\ keys[i] < Pow2[KeyBits] /\ \A m \in Modes : Pext(keys[i], mask[m]) = row[m][i]
  <2>1. keys[i] = PackedKey(mask, i)
    BY <1>1
  <2> QED BY <1>1, <1>2, <2>1, RoundTrip
<1>4. Bucketed
  BY <1>3, BucketInRange DEF Bucketed, BucketAt
<1> QED BY <1>1, <1>2, <1>3, <1>4

LEMMA InitInvariant == MortonInit => MortonInvariant
<1> SUFFICES ASSUME MortonInit PROVE MortonInvariant
  OBVIOUS
<1>1. PICK T \in Tensors : size = T.size /\ row = T.row
  BY DEF MortonInit
<1>2. step = "soa" /\ layout = "InPlace" /\ soa = TRUE
  BY DEF MortonInit
<1>3. TensorInv
  BY <1>1, <1>2, MortonAssumption DEF TensorInv, BuildSteps
<1>4. OutputsInv
  BY DEF MortonInit, OutputsInv, Zeros
<1>6. ArraysInv
  BY DEF MortonInit, ArraysInv
<1>5. PackInv /\ CountInv /\ BaseInv /\ ScatterInv /\ SortInv /\ ZOrder /\ ZeroInv /\ KernelInv /\ ReduceInv
  BY <1>2 DEF PackInv, CountInv, BaseInv, ScatterInv, SortInv, ZOrder, ZeroInv, KernelInv, ReduceInv
<1> QED BY <1>3, <1>4, <1>5, <1>6 DEF MortonInvariant

\* A step of the build that leaves the outputs and the arrays alone.
LEMMA BuildFrame ==
  ASSUME MortonInvariant, step \in BuildSteps, step' \in BuildSteps,
         UNCHANGED <<tensor, layout, soa, outputs>>
  PROVE  /\ TensorInv' /\ OutputsInv' /\ ZOrder' /\ ZeroInv' /\ KernelInv' /\ ReduceInv'
         /\ step' # "count" => CountInv'
         /\ step' \notin {"scatter", "sort"} => BaseInv'
         /\ step' # "scatter" => ScatterInv'
         /\ step' # "sort" => SortInv'
         /\ step' \notin PackedSteps => PackInv'
<1>1. size' = size /\ row' = row /\ layout' = layout /\ soa' = soa /\ ofibs' = ofibs /\ Yhat' = Yhat
  BY DEF tensor, outputs
<1>2. TensorInv /\ OutputsInv /\ layout = "InPlace"
  BY DEF MortonInvariant, TensorInv
<1>3. TensorInv'
  BY <1>1, <1>2 DEF TensorInv
<1>4. OutputsInv'
  BY <1>1, <1>2 DEF OutputsInv
<1>5. ZOrder' /\ ZeroInv' /\ KernelInv' /\ ReduceInv'
  BY <1>1, <1>2 DEF ZOrder, ZeroInv, KernelInv, ReduceInv, BuildSteps
<1>6. /\ step' # "count" => CountInv'
      /\ step' \notin {"scatter", "sort"} => BaseInv'
      /\ step' # "scatter" => ScatterInv'
      /\ step' # "sort" => SortInv'
      /\ step' \notin PackedSteps => PackInv'
  BY DEF CountInv, BaseInv, ScatterInv, SortInv, PackInv, PackedSteps
<1> QED BY <1>3, <1>4, <1>5, <1>6

\* The packed arrays stay.
LEMMA PackedStays ==
  ASSUME MortonInvariant, step \in PackedSteps, UNCHANGED <<tensor, stored>>
  PROVE  /\ PackInv'
         /\ keys' = keys /\ vals' = vals /\ mask' = mask /\ layout' = layout /\ soa' = soa
         /\ \A i : BucketAt(i)' = BucketAt(i)
         /\ \A b, i : Before(b, i)' = Before(b, i)
         /\ \A i : Target(i)' = Target(i)
<1>1. size' = size /\ row' = row /\ keys' = keys /\ vals' = vals /\ mask' = mask /\ layout' = layout /\ soa' = soa
  BY DEF tensor, stored
<1>2. PackInv'
  BY <1>1 DEF MortonInvariant, PackInv, PackedSteps, PackedKey
<1>3. \A i : BucketAt(i)' = BucketAt(i)
  BY <1>1 DEF BucketAt
<1>4. \A b, i : Before(b, i)' = Before(b, i)
  BY <1>3 DEF Before
<1>5. \A i : Target(i)' = Target(i)
  BY <1>3, <1>4 DEF Target
<1> QED BY <1>1, <1>2, <1>3, <1>4, <1>5

LEMMA PackKeeps == ASSUME MortonInvariant, Pack PROVE MortonInvariant'
<1>1. step = "soa" /\ step' = "packed" /\ UNCHANGED <<tensor, layout, soa, sorting, pos, todo, outputs>>
  BY DEF Pack
<1>2. size' = size /\ row' = row
  BY <1>1 DEF tensor
<1>3. BitsNeeded(size) <= KeyBits /\ mask' = BuildPlan(size) /\ vals' = [i \in Slot |-> i]
      /\ keys' = [i \in Slot |-> PackedKey(BuildPlan(size), i)]
  BY DEF Pack
<1>4. PackInv'
  BY <1>2, <1>3 DEF PackInv, PackedKey
<1>5. ArraysInv'
  BY <1>1 DEF MortonInvariant, ArraysInv, sorting
<1> QED BY <1>1, <1>4, <1>5, BuildFrame DEF MortonInvariant, BuildSteps

LEMMA RefuseKeeps == ASSUME MortonInvariant, Refuse PROVE MortonInvariant'
<1>1. step \in {"soa", "packed"} /\ step' = "refused" /\ UNCHANGED <<tensor, stored, sorting, pos, todo, outputs>>
  BY DEF Refuse
<1>2. ArraysInv'
  BY <1>1 DEF MortonInvariant, ArraysInv, sorting
<1> QED BY <1>1, <1>2, BuildFrame DEF MortonInvariant, BuildSteps, PackedSteps, stored

LEMMA AllocTbufKeeps == ASSUME MortonInvariant, AllocTbuf PROVE MortonInvariant'
<1>1. step = "packed" /\ step' = "count" /\ todo' = Thread /\ UNCHANGED <<tensor, stored, sorting, pos, outputs>>
  BY DEF AllocTbuf
<1>2. ArraysInv'
  BY <1>1 DEF MortonInvariant, ArraysInv, sorting
<1>3. CountInv'
  BY <1>1 DEF CountInv
<1>4. PackInv'
  BY <1>1, PackedStays DEF PackedSteps
<1> QED BY <1>1, <1>2, <1>3, <1>4, BuildFrame DEF MortonInvariant, BuildSteps, stored

LEMMA CountKeeps == ASSUME MortonInvariant, NEW t \in Thread, CountBuckets(t) PROVE MortonInvariant'
<1>1. /\ step = "count" /\ step' = "count" /\ todo' = todo \ {t}
      /\ UNCHANGED <<tensor, stored, cursor, base, tbuf, pos, outputs>>
      /\ hist' = [hist EXCEPT ![t] =
                   [b \in Bucket |-> Cardinality({i \in Slice(t) : BucketAt(i) = b})]]
  BY DEF CountBuckets, BucketAt
<1>2. PackInv' /\ \A i : BucketAt(i)' = BucketAt(i)
  BY <1>1, PackedStays DEF PackedSteps
<1>3. DOMAIN hist = Thread /\ todo \subseteq Thread /\ \A u \in Thread \ todo : Histogram(u)
  BY <1>1 DEF MortonInvariant, ArraysInv, CountInv
<1>4. ArraysInv'
  BY <1>1 DEF MortonInvariant, ArraysInv
<1>5. ASSUME NEW u \in Thread \ todo' PROVE Histogram(u)'
  <2>1. CASE u = t
    BY <1>1, <1>2, <1>3, <2>1 DEF Histogram
  <2>2. CASE u # t
    <3>1. hist'[u] = hist[u] /\ Histogram(u)
      BY <1>1, <1>3, <2>2
    <3> QED BY <1>2, <3>1 DEF Histogram
  <2> QED BY <2>1, <2>2
<1>6. CountInv'
  BY <1>1, <1>3, <1>5 DEF CountInv
<1> QED BY <1>1, <1>2, <1>4, <1>6, BuildFrame DEF MortonInvariant, BuildSteps, stored

LEMMA OffsetsKeeps == ASSUME MortonInvariant, Offsets PROVE MortonInvariant'
<1>1. /\ step = "count" /\ todo = {} /\ step' = "scatter"
      /\ UNCHANGED <<tensor, stored, hist, tbuf, todo, outputs>>
      /\ base' = [b \in 0 .. Buckets |-> RunningSum([c \in Bucket |-> Total(c)], b)]
      /\ cursor' = [t \in Thread |-> [b \in Bucket |->
                      base'[b] + RunningSum([u \in Thread |-> hist[u][b]], t)]]
      /\ pos' = [t \in Thread |-> t * Per]
  BY DEF Offsets
<1>2. PackInv' /\ (\A i : BucketAt(i)' = BucketAt(i)) /\ (\A b, i : Before(b, i)' = Before(b, i))
      /\ (\A i : Target(i)' = Target(i)) /\ keys' = keys
  BY <1>1, PackedStays DEF PackedSteps
<1>3. Bucketed /\ \A t \in Thread : Histogram(t)
  BY <1>1, PackedFacts DEF MortonInvariant, CountInv, PackedSteps
<1>4. ArraysInv'
  BY <1>1 DEF MortonInvariant, ArraysInv
<1>5. BaseInv'
  <2>1. \A b \in 0 .. Buckets : base'[b] = Cardinality({i \in Slot : BucketAt(i) < b})
    BY <1>1, <1>3, BaseIs
  <2>2. base' = [b \in 0 .. Buckets |-> Cardinality({i \in Slot : BucketAt(i) < b})]
    BY <1>1, <2>1
  <2> QED BY <1>2, <2>2 DEF BaseInv
<1>6. ScatterInv'
  <2>1. ASSUME NEW t \in Thread
        PROVE  /\ cursor'[t] = [b \in Bucket |-> Cardinality(Before(b, t * Per))]
               /\ t * Per \in Nat /\ pos'[t] = t * Per
    <3>1. \A b \in Bucket : b \in 0 .. Buckets
      BY BucketsType
    <3>2. ASSUME NEW b \in Bucket
          PROVE  base'[b] + RunningSum([u \in Thread |-> hist[u][b]], t) = Cardinality(Before(b, t * Per))
      <4>1. base'[b] = RunningSum([c \in Bucket |-> Total(c)], b)
        BY <1>1, <3>1
      <4> QED BY <1>3, <4>1, OffsetIs
    <3>3. cursor'[t] = [b \in Bucket |-> base'[b] + RunningSum([u \in Thread |-> hist[u][b]], t)]
      BY <1>1
    <3> QED BY <1>1, <3>2, <3>3, SliceIs
  <2>2. DOMAIN cursor' = Thread /\ DOMAIN pos' = Thread
    BY <1>1
  <2>3. Positions'
    <3> SUFFICES ASSUME NEW t \in Thread
                 PROVE  pos'[t] \in Nat /\ t * Per <= pos'[t] /\ pos'[t] <= t * Per
      BY DEF Positions
    <3>1. PICK a \in Nat : a = t * Per
      BY <2>1
    <3>2. pos'[t] = a
      BY <2>1, <3>1
    <3> QED BY <3>1, <3>2
  <2>4. \A t \in Thread : cursor'[t] = [b \in Bucket |-> Cardinality(Before(b, pos'[t]))]
    BY <2>1
  <2>5. \A t \in Thread : \A i \in Slice(t) : ~ (i < pos'[t])
    <3> SUFFICES ASSUME NEW t \in Thread, NEW i \in Slice(t) PROVE ~ (i < pos'[t])
      OBVIOUS
    <3>1. PICK a \in Nat : a = t * Per
      BY <2>1
    <3>2. i \in Slot /\ i \in Nat /\ a <= i
      BY <3>1, SliceIs, SlotFacts
    <3>3. pos'[t] = a
      BY <2>1, <3>1
    <3> QED BY <3>1, <3>2, <3>3
  <2> QED BY <1>2, <2>2, <2>3, <2>4, <2>5 DEF ScatterInv
<1>7. step \in BuildSteps /\ step' \in BuildSteps /\ step' # "count" /\ step' # "sort"
      /\ UNCHANGED <<tensor, layout, soa, outputs>>
  BY <1>1 DEF BuildSteps, stored
<1> QED BY <1>2, <1>4, <1>5, <1>6, <1>7, BuildFrame DEF MortonInvariant

\* A thread at its next nonzero of a sweep over its slice.
LEMMA AtSlot ==
  ASSUME Positions, NEW t \in Thread, pos[t] < End(t)
  PROVE  pos[t] \in Slice(t) /\ pos[t] \in Slot /\ pos[t] \in Nat
<1>1. pos[t] \in Nat /\ t * Per <= pos[t]
  BY DEF Positions
<1>2. End(t) \in Nat /\ End(t) =< nnz /\ nnz \in Nat /\ Slot = 0 .. nnz - 1
  BY SliceIs, SlotFacts
<1>3. pos[t] \in Slot
  BY <1>1, <1>2
<1> QED BY <1>1, <1>3, SliceIs

LEMMA PositionStep ==
  ASSUME Positions, DOMAIN pos = Thread, NEW t \in Thread, pos[t] < End(t),
         pos' = [pos EXCEPT ![t] = pos[t] + 1]
  PROVE  Positions' /\ DOMAIN pos' = Thread
<1>1. ASSUME NEW u \in Thread
      PROVE  pos'[u] \in Nat /\ u * Per <= pos'[u] /\ (pos'[u] <= u * Per \/ pos'[u] <= End(u))
  <2>1. CASE u = t
    <3>1. PICK a \in Nat : a = t * Per
      BY SliceIs
    <3>2. pos[t] \in Nat /\ a <= pos[t] /\ pos'[t] = pos[t] + 1 /\ End(t) \in Nat
      BY <3>1, SliceIs DEF Positions
    <3> QED BY <2>1, <3>1, <3>2
  <2>2. CASE u # t
    <3>1. pos'[u] = pos[u]
      BY <2>2
    <3> QED BY <3>1 DEF Positions
  <2> QED BY <2>1, <2>2
<1>2. Positions'
  BY <1>1 DEF Positions
<1> QED BY <1>2

\* A thread that is past its slice has handled all of it.
LEMMA PastSlice ==
  ASSUME Positions, NEW t \in Thread, ~ (pos[t] < End(t))
  PROVE  \A i \in Slice(t) : i < pos[t]
<1> SUFFICES ASSUME NEW i \in Slice(t) PROVE i < pos[t]
  OBVIOUS
<1>1. pos[t] \in Nat /\ End(t) \in Nat /\ i \in Slot
  BY SliceIs DEF Positions
<1>2. i \in Nat /\ i < End(t)
  BY <1>1, SliceIs, SlotFacts
<1> QED BY <1>1, <1>2

LEMMA ScatterKeeps == ASSUME MortonInvariant, NEW t \in Thread, Scatter(t) PROVE MortonInvariant'
<1> DEFINE i == pos[t]
           b == BucketAt(i)
<1>1. /\ step = "scatter" /\ step' = "scatter" /\ pos[t] < End(t)
      /\ UNCHANGED <<tensor, stored, hist, base, todo, outputs>>
      /\ tbuf' = [tbuf EXCEPT ![cursor[t][b]] = [k |-> keys[i], v |-> vals[i]]]
      /\ cursor' = [cursor EXCEPT ![t][b] = cursor[t][b] + 1]
      /\ pos' = [pos EXCEPT ![t] = pos[t] + 1]
  BY DEF Scatter, BucketAt
<1>2. PackInv' /\ (\A j : BucketAt(j)' = BucketAt(j)) /\ (\A c, j : Before(c, j)' = Before(c, j))
      /\ (\A j : Target(j)' = Target(j)) /\ keys' = keys
  BY <1>1, PackedStays DEF PackedSteps
<1>3. Bucketed /\ \A j \in Slot : vals[j] = j
  BY <1>1, PackedFacts DEF PackedSteps
<1>4. /\ DOMAIN cursor = Thread /\ DOMAIN pos = Thread /\ DOMAIN tbuf = Slot /\ Positions
      /\ \A u \in Thread : cursor[u] = [c \in Bucket |-> Cardinality(Before(c, pos[u]))]
      /\ \A u \in Thread : \A j \in Slice(u) : j < pos[u] => tbuf[Target(j)] = [k |-> keys[j], v |-> j]
  BY <1>1 DEF MortonInvariant, ScatterInv, ArraysInv
<1>5. i \in Slice(t) /\ i \in Slot /\ i \in Nat /\ b \in Bucket
  BY <1>1, <1>3, <1>4, AtSlot, BucketFacts
<1>6. cursor[t][b] = Target(i) /\ Target(i) \in Slot
  BY <1>3, <1>4, <1>5, TargetType DEF Target
<1>7. Positions' /\ DOMAIN pos' = Thread
  BY <1>1, <1>4, PositionStep
<1>8. ASSUME NEW u \in Thread PROVE cursor'[u] = [c \in Bucket |-> Cardinality(Before(c, pos'[u]))]
  <2>1. CASE u = t
    <3>1. cursor'[t] = [cursor[t] EXCEPT ![b] = cursor[t][b] + 1] /\ pos'[t] = i + 1
      BY <1>1, <1>4
    <3>2. \A c \in Bucket : Cardinality(Before(c, i + 1))
            = IF b = c THEN Cardinality(Before(c, i)) + 1 ELSE Cardinality(Before(c, i))
      BY <1>3, <1>5, BeforeStep
    <3>3. cursor[t] = [c \in Bucket |-> Cardinality(Before(c, i))]
      BY <1>4
    <3> HIDE DEF b, i
    <3> QED BY <1>5, <2>1, <3>1, <3>2, <3>3
  <2>2. CASE u # t
    <3>1. cursor'[u] = cursor[u] /\ pos'[u] = pos[u]
      BY <1>1, <1>4, <2>2
    <3> QED BY <1>4, <3>1
  <2> QED BY <2>1, <2>2
<1>9. ASSUME NEW u \in Thread, NEW j \in Slice(u), j < pos'[u]
      PROVE  tbuf'[Target(j)] = [k |-> keys[j], v |-> j]
  <2>1. j \in Slot /\ j \in Nat
    BY SliceIs, SlotFacts
  <2>2. CASE j = i
    <3>1. tbuf'[Target(i)] = [k |-> keys[i], v |-> vals[i]]
      <4> HIDE DEF b, i
      <4> QED BY <1>1, <1>4, <1>6
    <3> QED BY <1>3, <1>5, <2>2, <3>1
  <2>3. CASE j # i
    <3>1. Target(j) # Target(i)
      BY <1>3, <1>5, <2>1, <2>3, TargetInjective
    <3>2. Target(j) \in Slot
      BY <1>3, <2>1, TargetType
    <3>3. tbuf'[Target(j)] = tbuf[Target(j)]
      BY <1>1, <1>4, <1>6, <3>1, <3>2
    <3>4. j < pos[u]
      <4>1. CASE u = t
        <5>1. pos'[t] = i + 1
          BY <1>1, <1>4
        <5> QED BY <1>5, <1>9, <2>1, <2>3, <4>1, <5>1
      <4>2. CASE u # t
        BY <1>1, <1>4, <1>9, <4>2
      <4> QED BY <4>1, <4>2
    <3> QED BY <1>4, <3>3, <3>4
  <2> QED BY <2>2, <2>3
<1>10. ScatterInv'
  <2>1. DOMAIN cursor' = Thread
    BY <1>1, <1>4
  <2>2. \A u \in Thread : cursor'[u] = [c \in Bucket |-> Cardinality(Before(c, pos'[u]))]
    BY <1>8
  <2>3. \A u \in Thread : \A j \in Slice(u) : j < pos'[u] => tbuf'[Target(j)] = [k |-> keys[j], v |-> j]
    BY <1>9
  <2> HIDE DEF b, i
  <2> QED BY <1>2, <1>7, <2>1, <2>2, <2>3 DEF ScatterInv
<1>11. ArraysInv' /\ BaseInv'
  <2>1. hist' = hist /\ DOMAIN hist = Thread /\ DOMAIN tbuf' = Slot /\ base' = base
    BY <1>1, <1>4 DEF MortonInvariant, ArraysInv
  <2>2. base = [c \in 0 .. Buckets |-> Cardinality({j \in Slot : BucketAt(j) < c})]
    BY <1>1 DEF MortonInvariant, BaseInv
  <2> QED BY <1>2, <2>1, <2>2 DEF ArraysInv, BaseInv
<1>12. step \in BuildSteps /\ step' \in BuildSteps /\ step' # "count" /\ step' # "sort"
       /\ UNCHANGED <<tensor, layout, soa, outputs>>
  BY <1>1 DEF BuildSteps, stored
<1> QED BY <1>2, <1>10, <1>11, <1>12, BuildFrame DEF MortonInvariant

LEMMA ScatterDoneKeeps == ASSUME MortonInvariant, ScatterDone PROVE MortonInvariant'
<1>1. /\ step = "scatter" /\ step' = "sort" /\ todo' = Bucket
      /\ UNCHANGED <<tensor, stored, sorting, pos, outputs>>
      /\ \A t \in Thread : pos[t] >= End(t)
  BY DEF ScatterDone
<1>2. PackInv' /\ (\A j : BucketAt(j)' = BucketAt(j)) /\ keys' = keys
  BY <1>1, PackedStays DEF PackedSteps
<1>3. Bucketed
  BY <1>1, PackedFacts DEF PackedSteps
<1>4. hist' = hist /\ base' = base /\ tbuf' = tbuf
  BY <1>1 DEF sorting
<1>5. base = [c \in 0 .. Buckets |-> Cardinality({j \in Slot : BucketAt(j) < c})]
  BY <1>1 DEF MortonInvariant, BaseInv
<1>6. ASSUME NEW i \in Slot PROVE tbuf[Target(i)] = [k |-> keys[i], v |-> i]
  <2>1. PICK t \in Thread : i \in Slice(t)
    BY SliceOf
  <2>2. Positions
    BY <1>1 DEF MortonInvariant, ScatterInv
  <2>3. pos[t] \in Nat /\ End(t) \in Nat
    BY <2>2, SliceIs DEF Positions
  <2>4. i < pos[t]
    BY <1>1, <2>1, <2>2, <2>3, PastSlice
  <2> QED BY <1>1, <2>1, <2>4 DEF MortonInvariant, ScatterInv
<1>7. ASSUME NEW d \in Slot
      PROVE  \E i \in Slot : d = Target(i) /\ tbuf[d].v = i /\ tbuf[d].k = keys[i]
                             /\ d \in BucketRange(BucketAt(i))
  <2>1. PICK i \in Slot : Target(i) = d
    BY <1>3, TargetsAll
  <2>2. Target(i) \in BucketRange(BucketAt(i))
    BY <1>3, <1>5, RangeFacts
  <2>3. tbuf[d] = [k |-> keys[i], v |-> i]
    BY <1>6, <2>1
  <2>4. tbuf[d].v = i /\ tbuf[d].k = keys[i]
    BY <2>3
  <2> QED BY <2>1, <2>2, <2>4
<1>8. SortInv'
  <2>1. \A d \in Slot : tbuf[d].v \in Slot /\ tbuf[d].k = keys[tbuf[d].v]
    BY <1>7
  <2>2. \A d, c \in Slot : tbuf[d].v = tbuf[c].v => d = c
    BY <1>7
  <2>3. \A d \in Slot : d \in BucketRange(BucketOf(tbuf[d].k))
    BY <1>7 DEF BucketAt
  <2>4. \A c : BucketRange(c)' = BucketRange(c)
    BY <1>4 DEF BucketRange
  <2> QED BY <1>1, <1>2, <1>4, <2>1, <2>2, <2>3, <2>4 DEF SortInv
<1>9. BaseInv' /\ ArraysInv'
  BY <1>2, <1>4, <1>5 DEF BaseInv, ArraysInv, MortonInvariant
<1>10. step \in BuildSteps /\ step' \in BuildSteps /\ step' # "count" /\ step' # "scatter"
       /\ UNCHANGED <<tensor, layout, soa, outputs>>
  BY <1>1 DEF BuildSteps, stored
<1> QED BY <1>2, <1>8, <1>9, <1>10, BuildFrame DEF MortonInvariant

\* A slot in the range of a lower bucket is a lower slot.
LEMMA RangeOrder ==
  ASSUME Bucketed, base = [b \in 0 .. Buckets |-> Cardinality({i \in Slot : BucketAt(i) < b})],
         NEW b \in Bucket, NEW c \in Bucket, NEW x \in BucketRange(b), NEW z \in BucketRange(c)
  PROVE  (b < c => x < z) /\ (x = z => b = c)
<1>1. \A d \in Bucket : BucketRange(d) \subseteq Slot /\ base[d] \in Nat /\ base[d + 1] \in Nat
  BY RangeFacts
<1>2. \A d, e \in Bucket : d < e => base[d + 1] =< base[e]
  BY RangeFacts
<1>3. b \in Nat /\ c \in Nat
  BY BucketsType
<1>4. x \in Slot /\ z \in Slot
  BY <1>1
<1>5. x \in Nat /\ z \in Nat
  BY <1>4, SlotFacts
<1>6. PICK b0, b1, c0, c1 : b0 = base[b] /\ b1 = base[b + 1] /\ c0 = base[c] /\ c1 = base[c + 1]
  OBVIOUS
<1>7. b0 \in Nat /\ b1 \in Nat /\ c0 \in Nat /\ c1 \in Nat
  BY <1>1, <1>6
<1>8. x \in b0 .. b1 - 1 /\ z \in c0 .. c1 - 1
  BY <1>6 DEF BucketRange
<1>9. (b < c => b1 =< c0) /\ (c < b => c1 =< b0)
  BY <1>2, <1>6
<1>10. (b < c => x < z) /\ (c < b => z < x)
  BY <1>5, <1>7, <1>8, <1>9
<1> QED BY <1>3, <1>5, <1>10

LEMMA SortKeeps == ASSUME MortonInvariant, NEW b \in Bucket, SortBucket(b) PROVE MortonInvariant'
<1> DEFINE range == BucketRange(b)
<1>1. /\ step = "sort" /\ step' = "sort" /\ b \in todo /\ todo' = todo \ {b}
      /\ UNCHANGED <<tensor, stored, hist, cursor, base, pos, outputs>>
  BY DEF SortBucket
<1>2. PICK f \in [range -> range] :
        /\ \A i, j \in range : i # j => f[i] # f[j]
        /\ \A i, j \in range : i < j => tbuf[f[i]].k <= tbuf[f[j]].k
        /\ tbuf' = [i \in Slot |-> IF i \in range THEN tbuf[f[i]] ELSE tbuf[i]]
  BY DEF SortBucket, BucketRange
<1>3. PackInv' /\ (\A j : BucketAt(j)' = BucketAt(j)) /\ keys' = keys
  BY <1>1, PackedStays DEF PackedSteps
<1>4. Bucketed
  BY <1>1, PackedFacts DEF PackedSteps
<1>5. base' = base /\ base = [c \in 0 .. Buckets |-> Cardinality({j \in Slot : BucketAt(j) < c})]
  BY <1>1 DEF MortonInvariant, BaseInv
<1>6. /\ todo \subseteq Bucket /\ DOMAIN tbuf = Slot
      /\ \A i \in Slot : tbuf[i].v \in Slot /\ tbuf[i].k = keys[tbuf[i].v]
      /\ \A i, j \in Slot : tbuf[i].v = tbuf[j].v => i = j
      /\ \A i \in Slot : i \in BucketRange(BucketOf(tbuf[i].k))
      /\ \A c \in Bucket \ todo : \A i, j \in BucketRange(c) : i < j => tbuf[i].k <= tbuf[j].k
  BY <1>1 DEF MortonInvariant, SortInv, ArraysInv
<1>7. \A c \in Bucket : BucketRange(c) \subseteq Slot
  BY <1>4, <1>5, RangeFacts
<1>8. \A i \in Slot : BucketOf(tbuf[i].k) \in Bucket
  BY <1>4, <1>6 DEF Bucketed, BucketAt
<1>10. range \subseteq Slot /\ \A i \in range : f[i] \in range /\ f[i] \in Slot /\ tbuf'[i] = tbuf[f[i]]
  BY <1>2, <1>7
<1>11. \A i \in Slot \ range : tbuf'[i] = tbuf[i]
  BY <1>2
<1> HIDE DEF range
<1>12. \A i \in Slot : tbuf'[i].v \in Slot /\ tbuf'[i].k = keys[tbuf'[i].v]
  BY <1>6, <1>10, <1>11
<1>13. \A i, j \in Slot : tbuf'[i].v = tbuf'[j].v => i = j
  BY <1>2, <1>6, <1>10, <1>11
<1>14. ASSUME NEW i \in Slot PROVE i \in BucketRange(BucketOf(tbuf'[i].k))
  <2>1. CASE i \in range
    <3>1. f[i] \in range /\ f[i] \in Slot /\ tbuf'[i] = tbuf[f[i]]
      BY <1>10, <2>1
    <3>2. PICK c \in Bucket : c = BucketOf(tbuf[f[i]].k)
      BY <1>8, <3>1
    <3>3. f[i] \in BucketRange(c)
      BY <1>6, <3>1, <3>2
    <3>4. c = b
      BY <1>4, <1>5, <3>1, <3>3, RangeOrder DEF range
    <3> QED BY <2>1, <3>1, <3>2, <3>4 DEF range
  <2>2. CASE i \notin range
    BY <1>6, <1>11, <2>2
  <2> QED BY <2>1, <2>2
<1>15. ASSUME NEW c \in Bucket \ todo', NEW i \in BucketRange(c), NEW j \in BucketRange(c), i < j
       PROVE  tbuf'[i].k <= tbuf'[j].k
  <2>1. CASE c = b
    BY <1>2, <1>10, <1>15, <2>1 DEF range
  <2>2. CASE c # b
    <3>1. i \notin range /\ j \notin range
      BY <1>4, <1>5, <2>2, RangeOrder DEF range
    <3>2. i \in Slot /\ j \in Slot /\ c \in Bucket \ todo
      BY <1>1, <1>7, <2>2
    <3> QED BY <1>6, <1>11, <1>15, <3>1, <3>2
  <2> QED BY <2>1, <2>2
<1>16. SortInv'
  <2>1. todo' \subseteq Bucket
    BY <1>1, <1>6
  <2>2. \A c \in Bucket \ todo' : \A i, j \in BucketRange(c) : i < j => tbuf'[i].k <= tbuf'[j].k
    BY <1>15
  <2>3. \A c : base'[c] .. base'[c + 1] - 1 = base[c] .. base[c + 1] - 1
    BY <1>5
  <2> QED BY <1>3, <1>12, <1>13, <1>14, <2>1, <2>2, <2>3 DEF SortInv, BucketRange
<1>17. BaseInv' /\ ArraysInv'
  <2>1. DOMAIN tbuf' = Slot /\ hist' = hist /\ DOMAIN hist = Thread
    BY <1>1, <1>2 DEF MortonInvariant, ArraysInv
  <2> QED BY <1>3, <1>5, <2>1 DEF BaseInv, ArraysInv
<1>18. step \in BuildSteps /\ step' \in BuildSteps /\ step' # "count" /\ step' # "scatter"
       /\ UNCHANGED <<tensor, layout, soa, outputs>>
  BY <1>1 DEF BuildSteps, stored
<1> QED BY <1>3, <1>16, <1>17, <1>18, BuildFrame DEF MortonInvariant

\* Sorted buckets, in the order of their ranges, are sorted pairs; each
\* nonzero is in one slot, with its key.
LEMMA Sorted ==
  ASSUME MortonInvariant, step = "sort", todo = {}
  PROVE  /\ \A i \in 1 .. nnz - 1 : tbuf[i - 1].k <= tbuf[i].k
         /\ {tbuf[i].v : i \in Slot} = Slot
         /\ \A i \in Slot, m \in Modes : Pext(tbuf[i].k, mask[m]) = row[m][tbuf[i].v]
<1>1. /\ Bucketed /\ \A i \in Slot : keys[i] \in Nat
      /\ \A i \in Slot, m \in Modes : Pext(keys[i], mask[m]) = row[m][i]
  <2>1. step \in PackedSteps
    BY DEF PackedSteps
  <2> QED BY <2>1, PackedFacts, Zenon
<1>2. base = [c \in 0 .. Buckets |-> Cardinality({j \in Slot : BucketAt(j) < c})]
  BY DEF MortonInvariant, BaseInv
<1>3. /\ \A i \in Slot : tbuf[i].v \in Slot /\ tbuf[i].k = keys[tbuf[i].v]
      /\ \A i, j \in Slot : tbuf[i].v = tbuf[j].v => i = j
      /\ \A i \in Slot : i \in BucketRange(BucketOf(tbuf[i].k))
      /\ \A c \in Bucket : \A i, j \in BucketRange(c) : i < j => tbuf[i].k <= tbuf[j].k
  BY DEF MortonInvariant, SortInv
<1>4. \A i \in Slot : BucketOf(tbuf[i].k) \in Bucket /\ tbuf[i].k \in Nat
  BY <1>1, <1>3 DEF Bucketed, BucketAt
<1>5. ASSUME NEW i \in 1 .. nnz - 1 PROVE tbuf[i - 1].k <= tbuf[i].k
  <2>1. PICK x : x = i - 1
    OBVIOUS
  <2>2. x \in Slot /\ i \in Slot /\ x < i
    BY <2>1, SlotFacts
  <2>3. PICK b \in Bucket, c \in Bucket : b = BucketOf(tbuf[x].k) /\ c = BucketOf(tbuf[i].k)
    BY <1>4, <2>2
  <2>4. x \in BucketRange(b) /\ i \in BucketRange(c)
    BY <1>3, <2>2, <2>3
  <2>5. b \in Nat /\ c \in Nat
    BY BucketsType
  <2>6. ~ (c < b)
    <3>1. c < b => i < x
      BY <1>1, <1>2, <2>4, RangeOrder
    <3> QED BY <2>1, <2>2, <3>1
  <2>7. CASE b = c
    BY <1>3, <2>1, <2>2, <2>4, <2>7
  <2>8. CASE b < c
    <3>1. tbuf[x].k < tbuf[i].k
      BY <1>4, <2>2, <2>3, <2>8, BucketOrder
    <3>2. tbuf[x].k \in Nat /\ tbuf[i].k \in Nat
      BY <1>4, <2>2
    <3> QED BY <2>1, <3>1, <3>2
  <2> QED BY <2>5, <2>6, <2>7, <2>8
<1>6. {tbuf[i].v : i \in Slot} = Slot
  <2> DEFINE g == [i \in Slot |-> tbuf[i].v]
  <2>1. g \in [Slot -> Slot] /\ \A i, j \in Slot : g[i] = g[j] => i = j
    BY <1>3
  <2>2. IsFiniteSet(Slot)
    BY SlotFacts
  <2>3. \A d \in Slot : \E i \in Slot : g[i] = d
    <3> HIDE DEF g
    <3> QED BY <2>1, <2>2, Reaches
  <2> QED BY <1>3, <2>3
<1>7. \A i \in Slot, m \in Modes : Pext(tbuf[i].k, mask[m]) = row[m][tbuf[i].v]
  BY <1>1, <1>3
<1> QED BY <1>5, <1>6, <1>7

LEMMA CommitKeeps == ASSUME MortonInvariant, CommitLayout PROVE MortonInvariant'
<1>1. /\ step = "sort" /\ todo = {} /\ step' = "idle" /\ layout' = "Morton" /\ soa' = FALSE
      /\ UNCHANGED <<tensor, mask, sorting, pos, todo, outputs>>
      /\ keys' = [i \in Slot |-> tbuf[i].k] /\ vals' = [i \in Slot |-> tbuf[i].v]
  BY DEF CommitLayout
<1>2. size' = size /\ row' = row /\ mask' = mask /\ hist' = hist /\ tbuf' = tbuf /\ ofibs' = ofibs /\ Yhat' = Yhat
  BY <1>1 DEF tensor, sorting, outputs
<1>3. ZOrder'
  <2>1. /\ \A i \in 1 .. nnz - 1 : tbuf[i - 1].k <= tbuf[i].k
        /\ {tbuf[i].v : i \in Slot} = Slot
        /\ \A i \in Slot, m \in Modes : Pext(tbuf[i].k, mask[m]) = row[m][tbuf[i].v]
    BY <1>1, Sorted, Zenon
  <2>2. \A i \in 1 .. nnz - 1 : i \in Slot /\ i - 1 \in Slot
    BY SlotFacts
  <2>3. \A i \in 1 .. nnz - 1 : keys'[i - 1] <= keys'[i]
    BY <1>1, <2>1, <2>2
  <2>4. {vals'[i] : i \in Slot} = Slot
    BY <1>1, <2>1
  <2>5. \A i \in Slot, m \in Modes : Pext(keys'[i], mask[m]) = row[m][vals'[i]]
    BY <1>1, <2>1
  <2> QED BY <1>2, <2>3, <2>4, <2>5 DEF ZOrder
<1>4. TensorInv' /\ ArraysInv' /\ OutputsInv'
  <2>1. TensorInv /\ ArraysInv /\ OutputsInv
    BY DEF MortonInvariant
  <2>2. step' \in DriverSteps /\ step' \notin BuildSteps
    BY <1>1 DEF BuildSteps, DriverSteps
  <2>3. TensorInv'
    <3>1. soa' = (step' \in BuildSteps)
      <4>1. (step' \in BuildSteps) = FALSE
        BY <2>2
      <4>2. soa' = FALSE
        BY <1>1
      <4> QED BY <4>1, <4>2
    <3>2. layout' = IF step' \in BuildSteps THEN "InPlace" ELSE "Morton"
      BY <1>1, <2>2
    <3>3. \A m \in Modes : size'[m] \in Nat \ {0} /\ row'[m] \in [Slot -> 0 .. size'[m] - 1]
      BY <1>2, <2>1 DEF TensorInv
    <3>4. step' \in BuildSteps \cup DriverSteps
      BY <2>2
    <3> QED BY <3>1, <3>2, <3>3, <3>4, Zenon DEF TensorInv
  <2>4. ArraysInv'
    BY <1>2, <2>1 DEF ArraysInv
  <2>5. OutputsInv'
    BY <1>2, <2>1 DEF OutputsInv
  <2> QED BY <2>3, <2>4, <2>5
<1>5. PackInv' /\ CountInv' /\ BaseInv' /\ ScatterInv' /\ SortInv' /\ ZeroInv' /\ KernelInv' /\ ReduceInv'
  BY <1>1 DEF PackInv, CountInv, BaseInv, ScatterInv, SortInv, ZeroInv, KernelInv, ReduceInv
<1> QED BY <1>3, <1>4, <1>5 DEF MortonInvariant

-----------------------------------------------------------------------------
(* The steps of the driver. *)

\* A step of the driver leaves the layout alone.
LEMMA DriverFrame ==
  ASSUME MortonInvariant, step \in DriverSteps, step' \in DriverSteps,
         UNCHANGED <<tensor, stored, sorting>>
  PROVE  /\ TensorInv' /\ PackInv' /\ ArraysInv' /\ CountInv' /\ BaseInv' /\ ScatterInv' /\ SortInv' /\ ZOrder'
         /\ size' = size /\ row' = row /\ keys' = keys /\ vals' = vals /\ mask' = mask
         /\ step' # "zero" => ZeroInv'
         /\ step' # "kernel" => KernelInv'
         /\ step' # "reduce" => ReduceInv'
<1>1. /\ size' = size /\ row' = row /\ keys' = keys /\ vals' = vals /\ mask' = mask
      /\ layout' = layout /\ soa' = soa /\ hist' = hist /\ tbuf' = tbuf
  BY DEF tensor, stored, sorting
<1>2. TensorInv /\ ArraysInv /\ ZOrder
  BY DEF MortonInvariant
<1>3. step \notin BuildSteps /\ step' \notin BuildSteps
  BY DEF BuildSteps, DriverSteps
<1>4. TensorInv'
  <2>1. (step' \in BuildSteps) = (step \in BuildSteps)
    BY <1>3
  <2> QED BY <1>1, <1>2, <2>1 DEF TensorInv
<1>5. ArraysInv' /\ ZOrder'
  BY <1>1, <1>2 DEF ArraysInv, ZOrder
<1>6. PackInv' /\ CountInv' /\ BaseInv' /\ ScatterInv' /\ SortInv'
  BY <1>3 DEF PackInv, CountInv, BaseInv, ScatterInv, SortInv, BuildSteps
<1>7. /\ step' # "zero" => ZeroInv'
      /\ step' # "kernel" => KernelInv'
      /\ step' # "reduce" => ReduceInv'
  BY DEF ZeroInv, KernelInv, ReduceInv
<1> QED BY <1>1, <1>4, <1>5, <1>6, <1>7

\* Each nonzero is in one slot, and its rows are in the key there.
LEMMA MortonLayout ==
  ASSUME MortonInvariant, step \in DriverSteps
  PROVE  /\ \A i \in Slot : vals[i] \in Slot
         /\ \A d \in Slot : \E i \in Slot : vals[i] = d
         /\ \A i, j \in Slot : vals[i] = vals[j] => i = j
         /\ \A i \in Slot, m \in Modes : Pext(keys[i], mask[m]) = row[m][vals[i]]
<1> DEFINE g == [i \in Slot |-> vals[i]]
<1>1. layout = "Morton"
  BY DEF MortonInvariant, TensorInv, BuildSteps, DriverSteps
<1>2. /\ {vals[i] : i \in Slot} = Slot
      /\ \A i \in Slot, m \in Modes : Pext(keys[i], mask[m]) = row[m][vals[i]]
  BY <1>1 DEF MortonInvariant, ZOrder
<1>3. (\A i \in Slot : vals[i] \in Slot) /\ \A d \in Slot : \E i \in Slot : vals[i] = d
  BY <1>2
<1>4. g \in Surjection(Slot, Slot)
  BY <1>3 DEF Surjection
<1>5. IsFiniteSet(Slot)
  BY SlotFacts
<1>6. g \in Injection(Slot, Slot)
  <2> HIDE DEF g
  <2> QED BY <1>4, <1>5, FS_Surjection
<1>7. \A i, j \in Slot : vals[i] = vals[j] => i = j
  <2>1. \A i, j \in Slot : g[i] = g[j] => i = j
    <3> HIDE DEF g
    <3> QED BY <1>6 DEF Injection, IsInjective
  <2> QED BY <2>1
<1> QED BY <1>2, <1>3, <1>7

LEMMA OutputsType ==
  ASSUME MortonInvariant
  PROVE  /\ \A m \in Modes : size[m] \in Nat \ {0} /\ row[m] \in [Slot -> 0 .. size[m] - 1]
         /\ DOMAIN ofibs = Thread
         /\ DOMAIN Yhat = Modes /\ \A m \in Modes : DOMAIN Yhat[m] = 0 .. size[m] - 1
BY DEF MortonInvariant, TensorInv, OutputsInv

LEMMA CallKeeps == ASSUME MortonInvariant, Call PROVE MortonInvariant'
<1>1. step = "idle" /\ step' = "alloc" /\ UNCHANGED <<tensor, stored, sorting, pos, todo, outputs>>
  BY DEF Call
<1>2. OutputsInv'
  BY <1>1 DEF MortonInvariant, OutputsInv, tensor, outputs
<1> QED BY <1>1, <1>2, DriverFrame DEF MortonInvariant, DriverSteps

LEMMA AllocKeeps == ASSUME MortonInvariant, Alloc PROVE MortonInvariant'
<1>1. /\ step = "alloc" /\ step' = "zero" /\ todo' = Thread
      /\ UNCHANGED <<tensor, stored, sorting, pos, Yhat, result>> /\ DOMAIN ofibs' = Thread
  BY DEF Alloc
<1>2. OutputsInv'
  BY <1>1 DEF MortonInvariant, OutputsInv, tensor
<1>3. ZeroInv'
  BY <1>1 DEF ZeroInv
<1> QED BY <1>1, <1>2, <1>3, DriverFrame DEF MortonInvariant, DriverSteps

LEMMA FallBackKeeps == ASSUME MortonInvariant, FallBack PROVE MortonInvariant'
<1>1. step = "alloc" /\ step' = "crashed" /\ UNCHANGED <<tensor, stored, sorting, pos, todo, outputs>>
  BY DEF FallBack
<1>2. OutputsInv'
  BY <1>1 DEF MortonInvariant, OutputsInv, tensor, outputs
<1> QED BY <1>1, <1>2, DriverFrame DEF MortonInvariant, DriverSteps

LEMMA ZeroKeeps == ASSUME MortonInvariant, NEW t \in Thread, Zero(t) PROVE MortonInvariant'
<1>1. /\ step = "zero" /\ step' = "zero" /\ todo' = todo \ {t} /\ ofibs' = [ofibs EXCEPT ![t] = Zeros]
      /\ UNCHANGED <<tensor, stored, sorting, pos, Yhat, result>>
  BY DEF Zero
<1>2. size' = size /\ Zeros' = Zeros
  BY <1>1 DEF tensor, Zeros
<1>3. OutputsInv'
  BY <1>1, <1>2 DEF MortonInvariant, OutputsInv
<1>4. ZeroInv'
  <2>1. DOMAIN ofibs = Thread /\ \A u \in Thread \ todo : ofibs[u] = Zeros
    BY <1>1 DEF MortonInvariant, OutputsInv, ZeroInv
  <2>2. \A u \in Thread \ todo' : ofibs'[u] = Zeros
    BY <1>1, <2>1
  <2> QED BY <1>2, <2>2 DEF ZeroInv
<1> QED BY <1>1, <1>3, <1>4, DriverFrame DEF MortonInvariant, DriverSteps

LEMMA ZeroDoneKeeps == ASSUME MortonInvariant, ZeroDone PROVE MortonInvariant'
<1>1. /\ step = "zero" /\ todo = {} /\ step' = "kernel" /\ pos' = [t \in Thread |-> t * Per]
      /\ UNCHANGED <<tensor, stored, sorting, todo, outputs>>
  BY DEF ZeroDone
<1>2. size' = size /\ row' = row /\ vals' = vals /\ ofibs' = ofibs
  BY <1>1 DEF tensor, stored, outputs
<1>3. OutputsInv'
  BY <1>1, <1>2 DEF MortonInvariant, OutputsInv, outputs
<1>4. ASSUME NEW t \in Thread
      PROVE  /\ pos'[t] \in Nat /\ t * Per <= pos'[t] /\ pos'[t] <= t * Per
             /\ \A i \in Slice(t) : ~ (i < pos'[t])
  <2>1. PICK a \in Nat : a = t * Per
    BY SliceIs
  <2>2. pos'[t] = a
    BY <1>1, <2>1
  <2>3. \A i \in Slice(t) : i \in Nat /\ a <= i
    BY <2>1, SliceIs, SlotFacts
  <2> QED BY <2>1, <2>2, <2>3
<1>5. Positions' /\ DOMAIN pos' = Thread
  BY <1>1, <1>4 DEF Positions
<1>6. ASSUME NEW t \in Thread PROVE ofibs'[t] = Added(t, pos'[t])
  <2>1. ofibs'[t] = Zeros
    BY <1>1, <1>2 DEF MortonInvariant, ZeroInv
  <2>2. \A m, r, e : (IF r = row[m][e] /\ \E i \in Slice(t) : i < pos'[t] /\ vals[i] = e THEN 1 ELSE 0) = 0
    BY <1>4
  <2> QED BY <2>1, <2>2 DEF Added, Zeros
<1>7. KernelInv'
  BY <1>2, <1>5, <1>6 DEF KernelInv, Added
<1> QED BY <1>1, <1>3, <1>7, DriverFrame DEF MortonInvariant, DriverSteps

LEMMA KernelNext ==
  ASSUME size' = size, row' = row, vals' = vals, Positions', DOMAIN pos' = Thread,
         \A t \in Thread : ofibs'[t] = Added(t, pos'[t])
  PROVE  KernelInv'
BY DEF KernelInv, Added

LEMMA ReduceNext ==
  ASSUME size' = size, row' = row, vals' = vals, todo' \subseteq Modes,
         \A t \in Thread : ofibs'[t] = Added(t, nnz),
         \A m \in Modes \ todo' : Yhat'[m] = Exact(m)
  PROVE  ReduceInv'
BY DEF ReduceInv, Added, Exact

LEMMA KernelKeeps == ASSUME MortonInvariant, NEW t \in Thread, Kernel(t) PROVE MortonInvariant'
<1> DEFINE i == pos[t]
           e == vals[i]
           Past(d, p) == \E j \in Slice(t) : j < p /\ vals[j] = d
<1>1. /\ step = "kernel" /\ step' = "kernel" /\ pos[t] < End(t)
      /\ pos' = [pos EXCEPT ![t] = pos[t] + 1]
      /\ UNCHANGED <<tensor, stored, sorting, todo, Yhat, result>>
      /\ ofibs' = [ofibs EXCEPT ![t] = [m \in Modes |->
            [ofibs[t][m] EXCEPT ![Pext(keys[i], mask[m])][e] = @ + 1]]]
  BY DEF Kernel
<1>2. DOMAIN pos = Thread /\ Positions /\ \A u \in Thread : ofibs[u] = Added(u, pos[u])
  BY <1>1 DEF MortonInvariant, KernelInv
<1>3. /\ (\A j \in Slot : vals[j] \in Slot)
      /\ (\A j, k \in Slot : vals[j] = vals[k] => j = k)
      /\ \A j \in Slot, m \in Modes : Pext(keys[j], mask[m]) = row[m][vals[j]]
  BY <1>1, MortonLayout DEF DriverSteps
<1>4. i \in Slice(t) /\ i \in Slot /\ i \in Nat /\ e \in Slot
  BY <1>1, <1>2, <1>3, AtSlot
<1>5. size' = size /\ row' = row /\ vals' = vals /\ Yhat' = Yhat
  BY <1>1 DEF tensor, stored
<1>6. \A m \in Modes : size[m] \in Nat \ {0} /\ row[m] \in [Slot -> 0 .. size[m] - 1]
  BY OutputsType
<1>7. DOMAIN ofibs = Thread
  BY OutputsType
<1>8. \A d : Past(d, i + 1) <=> Past(d, i) \/ d = e
  <2>1. \A j \in Slice(t) : j \in Nat /\ (j < i + 1 <=> j < i \/ j = i)
    BY <1>4, SliceIs, SlotFacts
  <2> QED BY <1>4, <2>1
<1>9. ~ Past(e, i)
  <2> SUFFICES ASSUME NEW j \in Slice(t), j < i, vals[j] = e PROVE FALSE
    OBVIOUS
  <2>1. j \in Slot
    BY SliceIs
  <2>2. j = i
    BY <1>3, <1>4, <2>1
  <2> QED BY <1>4, <2>2
<1>10. Positions' /\ DOMAIN pos' = Thread /\ pos'[t] = i + 1
  BY <1>1, <1>2, PositionStep
<1>11. ofibs'[t] = Added(t, i + 1)
  <2> DEFINE Cell(m, r, d, p) == IF r = row[m][d] /\ Past(d, p) THEN 1 ELSE 0
             G(m, p) == [r \in 0 .. size[m] - 1 |-> [d \in Slot |-> Cell(m, r, d, p)]]
             H(m) == [G(m, i) EXCEPT ![row[m][e]] = [G(m, i)[row[m][e]] EXCEPT ![e] = G(m, i)[row[m][e]][e] + 1]]
  <2>1. \A p : Added(t, p) = [m \in Modes |-> G(m, p)]
    BY DEF Added
  <2>2. ofibs[t] = [m \in Modes |-> G(m, i)]
    <3> HIDE DEF G, i
    <3> QED BY <1>2, <2>1 DEF i
  <2>3. \A m \in Modes : ofibs[t][m] = G(m, i) /\ Pext(keys[i], mask[m]) = row[m][e]
    <3> HIDE DEF G
    <3> QED BY <1>3, <1>4, <2>2
  <2>4. ofibs'[t] = [m \in Modes |-> H(m)]
    <3> HIDE DEF G, i, e
    <3>1. ofibs'[t] = [m \in Modes |-> [ofibs[t][m] EXCEPT ![Pext(keys[i], mask[m])][e] = @ + 1]]
      BY <1>1, <1>7
    <3>2. ASSUME NEW m \in Modes
          PROVE  [ofibs[t][m] EXCEPT ![Pext(keys[i], mask[m])][e] = @ + 1] = H(m)
      <4>1. PICK A, z : A = ofibs[t][m] /\ z = Pext(keys[i], mask[m])
        OBVIOUS
      <4>2. A = G(m, i) /\ z = row[m][e]
        BY <2>3, <4>1
      <4> QED BY <4>1, <4>2
    <3> HIDE DEF H
    <3> QED BY <3>1, <3>2
  <2>5. ASSUME NEW m \in Modes PROVE H(m) = G(m, i + 1)
    <3> DEFINE z == row[m][e]
    <3>1. z \in 0 .. size[m] - 1
      BY <1>4, <1>6
    <3>2. \A r \in 0 .. size[m] - 1, d \in Slot :
            Cell(m, r, d, i + 1) = IF r = z /\ d = e THEN Cell(m, z, e, i) + 1 ELSE Cell(m, r, d, i)
      <4> HIDE DEF Past, i, e
      <4> QED BY <1>8, <1>9
    <3> HIDE DEF Cell, i, e, z
    <3>3. G(m, i)[z] = [d \in Slot |-> Cell(m, z, d, i)]
      BY <3>1
    <3>4. G(m, i)[z][e] = Cell(m, z, e, i)
      BY <1>4, <3>3
    <3>5. H(m) = [G(m, i) EXCEPT ![z] = [G(m, i)[z] EXCEPT ![e] = Cell(m, z, e, i) + 1]]
      BY <3>4 DEF z
    <3>6. [G(m, i)[z] EXCEPT ![e] = Cell(m, z, e, i) + 1] = [d \in Slot |-> Cell(m, z, d, i + 1)]
      BY <1>4, <3>1, <3>2, <3>3
    <3>7. \A r \in 0 .. size[m] - 1 : r # z => [d \in Slot |-> Cell(m, r, d, i)] = [d \in Slot |-> Cell(m, r, d, i + 1)]
      BY <3>2
    <3>8. [G(m, i) EXCEPT ![z] = [d \in Slot |-> Cell(m, z, d, i + 1)]] = G(m, i + 1)
      BY <3>1, <3>7
    <3> QED BY <3>5, <3>6, <3>8
  <2> HIDE DEF G, H
  <2> QED BY <2>1, <2>4, <2>5
<1>12. ASSUME NEW u \in Thread PROVE ofibs'[u] = Added(u, pos'[u])
  <2>1. CASE u = t
    BY <1>10, <1>11, <2>1
  <2>2. CASE u # t
    <3>1. ofibs'[u] = ofibs[u] /\ pos'[u] = pos[u]
      <4> HIDE DEF i, e
      <4> QED BY <1>1, <1>2, <1>7, <2>2
    <3> QED BY <1>2, <3>1
  <2> QED BY <2>1, <2>2
<1> HIDE DEF i, e, Past
<1>13. KernelInv'
  BY <1>5, <1>10, <1>12, KernelNext
<1>14. OutputsInv'
  <2>1. DOMAIN ofibs' = Thread
    BY <1>1, <1>7
  <2> QED BY <1>5, <2>1, OutputsType DEF OutputsInv
<1>15. UNCHANGED <<tensor, stored, sorting>> /\ step \in DriverSteps /\ step' \in DriverSteps
       /\ step' # "zero" /\ step' # "reduce"
  BY <1>1 DEF DriverSteps
<1> QED BY <1>13, <1>14, <1>15, DriverFrame DEF MortonInvariant

LEMMA KernelDoneKeeps == ASSUME MortonInvariant, KernelDone PROVE MortonInvariant'
<1>1. /\ step = "kernel" /\ step' = "reduce" /\ todo' = Modes /\ \A t \in Thread : pos[t] >= End(t)
      /\ UNCHANGED <<tensor, stored, sorting, pos, outputs>>
  BY DEF KernelDone
<1>2. size' = size /\ row' = row /\ vals' = vals /\ ofibs' = ofibs /\ Yhat' = Yhat
  BY <1>1 DEF tensor, stored, outputs
<1>3. Positions /\ \A t \in Thread : ofibs[t] = Added(t, pos[t])
  BY <1>1 DEF MortonInvariant, KernelInv
<1>4. ASSUME NEW t \in Thread PROVE ofibs[t] = Added(t, nnz)
  <2>1. pos[t] \in Nat /\ End(t) \in Nat
    BY <1>3, SliceIs DEF Positions
  <2>2. ~ (pos[t] < End(t))
    BY <1>1, <2>1
  <2>3. \A i \in Slice(t) : i < pos[t]
    BY <1>3, <2>2, PastSlice
  <2>4. \A i \in Slice(t) : i < nnz
    BY SliceIs, SlotFacts
  <2>5. Added(t, pos[t]) = Added(t, nnz)
    BY <2>3, <2>4 DEF Added
  <2> QED BY <1>3, <2>5
<1>5. ReduceInv'
  <2>1. todo' \subseteq Modes /\ \A m \in Modes \ todo' : Yhat'[m] = Exact(m)
    BY <1>1
  <2>2. \A t \in Thread : ofibs'[t] = Added(t, nnz)
    BY <1>2, <1>4
  <2> QED BY <1>2, <2>1, <2>2, ReduceNext
<1>6. OutputsInv'
  BY <1>2 DEF MortonInvariant, OutputsInv
<1> QED BY <1>1, <1>5, <1>6, DriverFrame DEF MortonInvariant, DriverSteps

\* The threads' private outputs add up to every nonzero once, in its row.
LEMMA SumExact ==
  ASSUME MortonInvariant, step = "reduce", NEW m \in Modes, NEW r \in 0 .. size[m] - 1, NEW e \in Slot
  PROVE  RunningSum([t \in Thread |-> ofibs[t][m][r][e]], P) = IF r = row[m][e] THEN 1 ELSE 0
<1> DEFINE f == [t \in Thread |-> ofibs[t][m][r][e]]
           D == IF r = row[m][e] THEN {i \in Slot : vals[i] = e} ELSE {}
<1>1. /\ \A d \in Slot : \E i \in Slot : vals[i] = d
      /\ \A i, j \in Slot : vals[i] = vals[j] => i = j
  BY MortonLayout DEF DriverSteps
<1>2. PICK z \in Slot : vals[z] = e
  BY <1>1
<1>3. {i \in Slot : vals[i] = e} = {z}
  BY <1>1, <1>2
<1>4. D \in SUBSET Slot /\ \A i \in D : i = z /\ vals[i] = e /\ r = row[m][e]
  BY <1>3
<1>5. Cardinality(D) = IF r = row[m][e] THEN 1 ELSE 0
  BY <1>3, FS_EmptySet, FS_Singleton
<1>6. ASSUME NEW t \in Thread PROVE f[t] = Cardinality(Slice(t) \cap D)
  <2>1. f[t] = IF r = row[m][e] /\ \E i \in Slice(t) : i < nnz /\ vals[i] = e THEN 1 ELSE 0
    <3>1. ofibs[t] = Added(t, nnz)
      BY DEF MortonInvariant, ReduceInv
    <3>2. ofibs[t][m] = [x \in 0 .. size[m] - 1 |-> [d \in Slot |->
            IF x = row[m][d] /\ \E i \in Slice(t) : i < nnz /\ vals[i] = d THEN 1 ELSE 0]]
      BY <3>1 DEF Added
    <3>3. ofibs[t][m][r][e] = IF r = row[m][e] /\ \E i \in Slice(t) : i < nnz /\ vals[i] = e THEN 1 ELSE 0
      <4> HIDE DEF f, D
      <4> QED BY <3>2
    <3> QED BY <3>3
  <2>2. Slice(t) \subseteq Slot /\ \A i \in Slice(t) : i < nnz
    BY SliceIs, SlotFacts
  <2>3. CASE r = row[m][e] /\ z \in Slice(t)
    <3>1. Slice(t) \cap D = {z}
      BY <1>3, <2>3
    <3>2. f[t] = 1
      <4> HIDE DEF f
      <4> QED BY <1>2, <2>1, <2>2, <2>3
    <3> QED BY <3>1, <3>2, FS_Singleton
  <2>4. CASE ~ (r = row[m][e] /\ z \in Slice(t))
    <3>1. Slice(t) \cap D = {}
      BY <1>4, <2>4
    <3>2. f[t] = 0
      <4>1. \A i \in Slice(t) : vals[i] = e => i = z
        BY <1>1, <1>2, <2>2
      <4> HIDE DEF f
      <4> QED BY <2>1, <2>4, <4>1
    <3> QED BY <3>1, <3>2, FS_EmptySet
  <2> QED BY <2>3, <2>4
<1>7. P \in 0 .. P /\ \A i \in Slot : i < P * Per
  <2>1. /\ P \in Nat /\ nnz \in Nat /\ P * Per \in Nat /\ nnz =< P * Per
        /\ Slot = 0 .. nnz - 1
    BY SlotFacts
  <2> QED BY <2>1
<1>8. {i \in D : i < P * Per} = D
  BY <1>4, <1>7
<1>9. RunningSum(f, P) = Cardinality({i \in D : i < P * Per})
  <2> HIDE DEF f, D
  <2> QED BY <1>4, <1>6, <1>7, SliceSum
<1> QED BY <1>5, <1>8, <1>9

LEMMA ReduceKeeps == ASSUME MortonInvariant, NEW m \in Modes, Reduce(m) PROVE MortonInvariant'
<1>1. /\ step = "reduce" /\ step' = "reduce" /\ m \in todo /\ todo' = todo \ {m}
      /\ UNCHANGED <<tensor, stored, sorting, pos, ofibs, result>>
      /\ Yhat' = [Yhat EXCEPT ![m] = [r \in DOMAIN Yhat[m] |-> [e \in Slot |->
                    RunningSum([t \in Thread |-> ofibs[t][m][r][e]], P)]]]
  BY DEF Reduce
<1>2. size' = size /\ row' = row /\ vals' = vals /\ ofibs' = ofibs
  BY <1>1 DEF tensor, stored
<1>3. DOMAIN Yhat = Modes /\ \A j \in Modes : DOMAIN Yhat[j] = 0 .. size[j] - 1
  BY OutputsType
<1>4. Yhat'[m] = Exact(m)
  <2>1. Yhat'[m] = [r \in 0 .. size[m] - 1 |-> [e \in Slot |->
                      RunningSum([t \in Thread |-> ofibs[t][m][r][e]], P)]]
    BY <1>1, <1>3
  <2>2. \A r \in 0 .. size[m] - 1, e \in Slot :
          RunningSum([t \in Thread |-> ofibs[t][m][r][e]], P) = IF r = row[m][e] THEN 1 ELSE 0
    BY <1>1, SumExact
  <2> QED BY <2>1, <2>2 DEF Exact
<1>5. \A j \in Modes : j # m => Yhat'[j] = Yhat[j]
  BY <1>1, <1>3
<1>6. ReduceInv'
  <2>1. /\ todo \subseteq Modes /\ \A t \in Thread : ofibs[t] = Added(t, nnz)
        /\ \A j \in Modes \ todo : Yhat[j] = Exact(j)
    BY <1>1 DEF MortonInvariant, ReduceInv
  <2>2. \A j \in Modes \ todo' : Yhat'[j] = Exact(j)
    BY <1>1, <1>4, <1>5, <2>1
  <2>3. todo' \subseteq Modes
    BY <1>1, <2>1
  <2>4. \A t \in Thread : ofibs'[t] = Added(t, nnz)
    BY <1>2, <2>1
  <2> QED BY <1>2, <2>2, <2>3, <2>4, ReduceNext
<1>7. OutputsInv'
  <2>1. DOMAIN Yhat' = Modes /\ DOMAIN ofibs' = Thread
    BY <1>1, <1>2, <1>3, OutputsType
  <2>2. ASSUME NEW j \in Modes PROVE DOMAIN Yhat'[j] = 0 .. size[j] - 1
    <3>1. CASE j = m
      BY <1>4, <3>1 DEF Exact
    <3>2. CASE j # m
      BY <1>3, <1>5, <3>2
    <3> QED BY <3>1, <3>2
  <2> QED BY <1>2, <2>1, <2>2 DEF OutputsInv
<1>8. UNCHANGED <<tensor, stored, sorting>> /\ step \in DriverSteps /\ step' \in DriverSteps
      /\ step' # "zero" /\ step' # "kernel"
  BY <1>1 DEF DriverSteps
<1> QED BY <1>6, <1>7, <1>8, DriverFrame DEF MortonInvariant

LEMMA ReturnKeeps == ASSUME MortonInvariant, Return PROVE MortonInvariant'
<1>1. step = "reduce" /\ step' = "idle" /\ UNCHANGED <<tensor, stored, sorting, pos, todo, ofibs, Yhat>>
  BY DEF Return
<1>2. OutputsInv'
  BY <1>1 DEF MortonInvariant, OutputsInv, tensor
<1> QED BY <1>1, <1>2, DriverFrame DEF MortonInvariant, DriverSteps

LEMMA MortonNextKeeps == MortonInvariant /\ [MortonNext]_mortonVars => MortonInvariant'
<1> SUFFICES ASSUME MortonInvariant, [MortonNext]_mortonVars PROVE MortonInvariant'
  OBVIOUS
<1>1. CASE Build
  <2>1. CASE Pack
    BY <2>1, PackKeeps
  <2>2. CASE Refuse
    BY <2>2, RefuseKeeps
  <2>3. CASE AllocTbuf
    BY <2>3, AllocTbufKeeps
  <2>4. CASE Offsets
    BY <2>4, OffsetsKeeps
  <2>5. CASE ScatterDone
    BY <2>5, ScatterDoneKeeps
  <2>6. CASE CommitLayout
    BY <2>6, CommitKeeps
  <2>7. ASSUME NEW t \in Thread, CountBuckets(t) \/ Scatter(t) PROVE MortonInvariant'
    BY <2>7, CountKeeps, ScatterKeeps
  <2>8. ASSUME NEW b \in Bucket, SortBucket(b) PROVE MortonInvariant'
    BY <2>8, SortKeeps
  <2> QED BY <1>1, <2>1, <2>2, <2>3, <2>4, <2>5, <2>6, <2>7, <2>8 DEF Build
<1>2. CASE Call
  BY <1>2, CallKeeps
<1>3. CASE Driver
  <2>1. CASE Alloc
    BY <2>1, AllocKeeps
  <2>2. CASE FallBack
    BY <2>2, FallBackKeeps
  <2>3. CASE ZeroDone
    BY <2>3, ZeroDoneKeeps
  <2>4. CASE KernelDone
    BY <2>4, KernelDoneKeeps
  <2>5. CASE Return
    BY <2>5, ReturnKeeps
  <2>6. ASSUME NEW t \in Thread, Zero(t) \/ Kernel(t) PROVE MortonInvariant'
    BY <2>6, ZeroKeeps, KernelKeeps
  <2>7. ASSUME NEW m \in Modes, Reduce(m) PROVE MortonInvariant'
    BY <2>7, ReduceKeeps
  <2> QED BY <1>3, <2>1, <2>2, <2>3, <2>4, <2>5, <2>6, <2>7 DEF Driver
<1>4. CASE UNCHANGED mortonVars
  <2>1. /\ UNCHANGED <<size, row, step, layout, soa, mask, keys, vals, hist, cursor, base, tbuf, pos, todo>>
        /\ UNCHANGED <<ofibs, Yhat, result>>
    BY <1>4 DEF mortonVars, tensor, stored, sorting, outputs
  <2>2. TensorInv' /\ ArraysInv' /\ OutputsInv' /\ ZOrder'
    BY <2>1 DEF MortonInvariant, TensorInv, ArraysInv, OutputsInv, ZOrder
  <2>3. PackInv' /\ CountInv' /\ BaseInv'
    BY <2>1 DEF MortonInvariant, PackInv, CountInv, BaseInv, PackedKey, Histogram, BucketAt
  <2>4. ScatterInv'
    BY <2>1 DEF MortonInvariant, ScatterInv, Positions, Target, Before, BucketAt
  <2>5. SortInv'
    BY <2>1 DEF MortonInvariant, SortInv, BucketRange
  <2>6. ZeroInv' /\ KernelInv' /\ ReduceInv'
    <3>1. ZeroInv /\ KernelInv /\ ReduceInv
      BY DEF MortonInvariant
    <3>2. ZeroInv'
      BY <2>1, <3>1 DEF ZeroInv, Zeros
    <3>3. CASE step = "kernel"
      <4>1. Positions' /\ DOMAIN pos' = Thread
        BY <2>1, <3>1, <3>3 DEF KernelInv, Positions
      <4>2. \A t \in Thread : ofibs'[t] = Added(t, pos'[t])
        BY <2>1, <3>1, <3>3 DEF KernelInv
      <4>3. KernelInv'
        BY <2>1, <4>1, <4>2, KernelNext
      <4> QED BY <2>1, <3>2, <3>3, <4>3 DEF ReduceInv
    <3>4. CASE step = "reduce"
      <4>1. /\ todo' \subseteq Modes /\ \A t \in Thread : ofibs'[t] = Added(t, nnz)
            /\ \A m \in Modes \ todo' : Yhat'[m] = Exact(m)
        BY <2>1, <3>1, <3>4 DEF ReduceInv
      <4>2. ReduceInv'
        BY <2>1, <4>1, ReduceNext
      <4> QED BY <2>1, <3>2, <3>4, <4>2 DEF KernelInv
    <3>5. CASE step \notin {"kernel", "reduce"}
      BY <2>1, <3>2, <3>5 DEF KernelInv, ReduceInv
    <3> QED BY <3>3, <3>4, <3>5
  <2> QED BY <2>2, <2>3, <2>4, <2>5, <2>6 DEF MortonInvariant
<1> QED BY <1>1, <1>2, <1>3, <1>4 DEF MortonNext

(* At every step of build_morton_layout and of the driver, for every       *)
(* tensor, team and key width: the plan, the histograms, the partition,    *)
(* the sorted buckets and the private outputs are as MortonInv says.       *)
THEOREM MortonCorrect == MortonSpec => []MortonInvariant
<1>1. MortonInit => MortonInvariant
  BY InitInvariant
<1>2. MortonInvariant /\ [MortonNext]_mortonVars => MortonInvariant'
  BY MortonNextKeeps
<1> QED BY <1>1, <1>2, PTL DEF MortonSpec

(* The layout the radix sort leaves holds each nonzero of the freed slabs  *)
(* once, in the order of its keys, and its rows can be read back.          *)
THEOREM MortonZOrder == MortonSpec => []ZOrder
<1>1. MortonInvariant => ZOrder
  BY DEF MortonInvariant
<1> QED BY <1>1, MortonCorrect, PTL

-----------------------------------------------------------------------------
(* The driver against MttkrpAll. *)

LEMMA StageIs ==
  /\ step \in {"alloc", "zero", "kernel", "crashed"} => Stage = "running"
  /\ step = "reduce" => Stage = "writing"
  /\ step \in BuildSteps \cup {"idle"} => Stage = "idle"
BY DEF Stage, BuildSteps

LEMMA SameOutput ==
  ASSUME size' = size, row' = row, Yhat' = Yhat, step # "reduce", step' # "reduce"
  PROVE  Output' = Output
BY DEF Output, Times

LEMMA MortonInitAllowed == MortonInit => Abstract!Init
<1> SUFFICES ASSUME MortonInit PROVE Abstract!Init
  OBVIOUS
<1>1. step = "soa" /\ result = "none" /\ Yhat = Zeros
  BY DEF MortonInit
<1>2. Stage = "idle"
  BY <1>1, StageIs DEF BuildSteps
<1>3. ASSUME NEW m \in Modes, NEW e \in Slot PROVE Times(m, e) = 0
  <2>1. row[m][e] \in 0 .. size[m] - 1
    BY InitInvariant, OutputsType
  <2>2. \A r \in 0 .. size[m] - 1 : Yhat[m][r][e] = 0
    BY <1>1 DEF Zeros
  <2>3. DOMAIN Yhat[m] = 0 .. size[m] - 1
    BY <1>1 DEF Zeros
  <2> QED BY <2>1, <2>2, <2>3 DEF Times
<1>4. Output = [m \in Abstract!Mode |-> [e \in Slot |-> 0]]
  BY <1>1, <1>3 DEF Output, Abstract!Mode, Modes
<1> QED BY <1>1, <1>2, <1>4 DEF Abstract!Init

LEMMA MortonStepAllowed ==
  MortonInvariant /\ [MortonNext]_mortonVars => [Abstract!Next]_(Abstract!vars)
<1> SUFFICES ASSUME MortonInvariant, [MortonNext]_mortonVars PROVE [Abstract!Next]_(Abstract!vars)
  OBVIOUS
<1> USE DEF Abstract!vars
<1>1. CASE Build
  <2>1. /\ step \in BuildSteps /\ step' \in BuildSteps \cup {"idle"}
        /\ size' = size /\ row' = row /\ Yhat' = Yhat /\ result' = result
    BY <1>1 DEF Build, Pack, Refuse, AllocTbuf, Offsets, ScatterDone, CommitLayout, CountBuckets, Scatter,
                SortBucket, tensor, outputs, BuildSteps
  <2>2. Stage = "idle" /\ Stage' = "idle"
    BY <2>1, StageIs DEF Stage, BuildSteps
  <2>3. Output' = Output
    BY <2>1, SameOutput DEF BuildSteps
  <2> QED BY <2>1, <2>2, <2>3
<1>2. CASE Call
  <2>1. /\ step = "idle" /\ step' = "alloc"
        /\ size' = size /\ row' = row /\ Yhat' = Yhat /\ result' = result
    BY <1>2 DEF Call, tensor, outputs
  <2>2. Stage = "idle" /\ Stage' = "running"
    BY <2>1 DEF Stage
  <2>3. Output' = Output
    BY <2>1, SameOutput
  <2> QED BY <2>1, <2>2, <2>3 DEF Abstract!Next, Abstract!Call
<1>3. CASE Alloc \/ FallBack \/ ZeroDone \/ \E t \in Thread : Zero(t) \/ Kernel(t)
  <2>1. /\ step \in {"alloc", "zero", "kernel"} /\ step' \in {"zero", "kernel", "crashed"}
        /\ size' = size /\ row' = row /\ Yhat' = Yhat /\ result' = result
    BY <1>3 DEF Alloc, FallBack, ZeroDone, Zero, Kernel, tensor, outputs
  <2>2. Stage = "running" /\ Stage' = "running"
    BY <2>1 DEF Stage
  <2>3. Output' = Output
    BY <2>1, SameOutput
  <2> QED BY <2>1, <2>2, <2>3
<1>4. CASE KernelDone
  <2>1. step = "kernel" /\ step' = "reduce" /\ result' = result
    BY <1>4 DEF KernelDone, outputs
  <2>2. Stage = "running" /\ Stage' = "writing"
    BY <2>1 DEF Stage
  <2>3. Output' = [m \in Abstract!Mode |-> Abstract!Undefined]
    BY <2>1 DEF Output, Abstract!Mode, Abstract!Undefined, Modes
  <2> QED BY <2>1, <2>2, <2>3 DEF Abstract!Next, Abstract!Commit
<1>5. CASE \E m \in Modes : Reduce(m)
  <2>1. step = "reduce" /\ step' = "reduce" /\ result' = result
    BY <1>5 DEF Reduce
  <2>2. Stage' = Stage /\ Output' = Output
    BY <2>1 DEF Stage, Output
  <2> QED BY <2>1, <2>2
<1>6. CASE Return
  <2>1. /\ step = "reduce" /\ todo = {} /\ step' = "idle" /\ result' = "ok"
        /\ size' = size /\ row' = row /\ Yhat' = Yhat
    BY <1>6 DEF Return, tensor
  <2>2. Stage = "writing" /\ Stage' = "idle"
    BY <2>1 DEF Stage
  <2>3. ASSUME NEW m \in Modes, NEW e \in Slot PROVE Times(m, e) = 1
    <3>1. Yhat[m] = Exact(m)
      BY <2>1 DEF MortonInvariant, ReduceInv
    <3>2. row[m][e] \in 0 .. size[m] - 1
      BY OutputsType
    <3>3. DOMAIN Yhat[m] = 0 .. size[m] - 1
          /\ \A r \in 0 .. size[m] - 1 : Yhat[m][r][e] = IF r = row[m][e] THEN 1 ELSE 0
      BY <3>1 DEF Exact
    <3> QED BY <3>2, <3>3 DEF Times
  <2>4. \A m, e : Times(m, e)' = Times(m, e)
    BY <2>1 DEF Times
  <2>5. Output' = [m \in Abstract!Mode |-> Abstract!Exact]
    BY <2>1, <2>3, <2>4 DEF Output, Abstract!Mode, Abstract!Exact, Modes
  <2> QED BY <2>1, <2>2, <2>5 DEF Abstract!Next, Abstract!Return
<1>7. CASE UNCHANGED mortonVars
  <2>1. step' = step /\ size' = size /\ row' = row /\ Yhat' = Yhat /\ result' = result
    BY <1>7 DEF mortonVars, tensor, outputs
  <2>2. Stage' = Stage /\ Output' = Output
    BY <2>1 DEF Stage, Output, Times
  <2> QED BY <2>1, <2>2
<1> QED BY <1>1, <1>2, <1>3, <1>4, <1>5, <1>6, <1>7 DEF MortonNext, Driver

(* The driver only takes the steps MttkrpAll allows: a call that returns   *)
(* leaves every Yhat[n] the sum of all contributions, each once.           *)
THEOREM MortonImplements == MortonSpec => StepsAllowed
<1>1. MortonInit => Abstract!Init
  BY MortonInitAllowed
<1>2. MortonInvariant /\ [MortonNext]_mortonVars => [Abstract!Next]_(Abstract!vars)
  BY MortonStepAllowed
<1> QED BY <1>1, <1>2, MortonCorrect, PTL DEF MortonSpec, StepsAllowed
=============================================================================
