----------------------------- MODULE AllModesInv -----------------------------
(***************************************************************************)
(* The properties of the one-pass drivers.                                 *)
(***************************************************************************)
EXTENDS AllModes

(* Type invariant: of everything spmttkrp_all_modes_dynasor / _ooc keep.   *)
TypeOK ==
  /\ streaming \in BOOLEAN
  /\ phase \in Phase
  /\ result \in {"none", "ok", "failed"}
  /\ ofibs \in [Address -> [Slot -> Nat]]
  /\ zeroing \in SUBSET Thread
  /\ b \in Nat /\ got \in 0 .. nnz
  /\ buf \in [Slot -> Slot]
  /\ pos \in [Thread -> Nat]
  /\ mode \in Mode
  /\ added \in [Rows -> 0 .. P]
  /\ DOMAIN yhat = Mode
  /\ \A n \in Mode : yhat[n] \in [Cells(n) -> [Slot -> Nat]]

(* No two (thread, output, vector) triples share an address: the blocks    *)
(* the ofib_off table carves out of ofibs_raw are private, which is why    *)
(* the kernel needs no atomics.                                            *)
OfibsDisjoint ==
  \A t, u \in Thread, n, m \in Mode : \A k \in Cells(n), l \in Cells(m) :
    At(t, n, k) = At(u, m, l) => t = u /\ n = m /\ k = l

(* While the threads work on a chunk, every nonzero in it is in the slice  *)
(* of exactly one thread, and no slice reaches the stale tail of the       *)
(* buffer that a shorter last chunk leaves.                                *)
SlicesPartition ==
  phase = "kernel" =>
    /\ \A j \in 0 .. got - 1 :
         \E t \in Thread : /\ Begin(t) =< j /\ j < End(t)
                           /\ \A u \in Thread : Begin(u) =< j /\ j < End(u) => u = t
    /\ \A t \in Thread : \A j \in Slot : Begin(t) =< j /\ j < End(t) => j < got

-----------------------------------------------------------------------------
(* The inductive invariant.                                                *)

\* The buffer holds the chunk that starts at nonzero b.
ChunkLoaded ==
  /\ phase = "zero" => b = 0
  /\ phase \in {"read", "kernel"} => b < nnz
  /\ phase = "kernel" => /\ got = Lesser(nnz, b + Chunk) - b
                         /\ \A j \in 0 .. got - 1 : buf[j] = b + j

\* A thread's position does not leave its slice.
Positions ==
  phase = "kernel" =>
    \A t \in Thread : /\ Begin(t) =< pos[t]
                      /\ pos[t] > Begin(t) => pos[t] =< End(t)

\* The blocks cleared so far.
ClearedBlocks ==
  phase = "zero" =>
    \A t \in Thread \ zeroing : \A a \in Block(t) : ofibs[a] = [e \in Slot |-> 0]

Counting == phase \in {"read", "kernel", "reduce"}

\* Nonzero e has been added by thread t.
Did(t, e) == ofibs[At(t, 0, Row[0][e] * VC)][e] = 1

\* The nonzeros that some thread has gone past in this call.
Passed(e) ==
  \/ phase = "reduce"
  \/ e < b
  \/ phase = "kernel" /\ \E t \in Thread : Begin(t) =< e - b /\ e - b < pos[t]

\* A block counts a nonzero once in its own row of every output, or nowhere.
WholeNonzeros ==
  Counting =>
    \A t \in Thread, n \in Mode, e \in Slot : \A k \in Cells(n) :
      ofibs[At(t, n, k)][e] = IF k \in RowCells(Row[n][e]) /\ Did(t, e) THEN 1 ELSE 0

\* The nonzeros passed are counted by one thread, the others by none.
CountedOnce ==
  Counting =>
    \A e \in Slot :
      /\ Passed(e) <=> \E t \in Thread : Did(t, e)
      /\ \A t, u \in Thread : Did(t, e) /\ Did(u, e) => t = u

\* A row of the output being reduced holds the sum of the copies added so far.
PartialSums ==
  phase = "reduce" =>
    \A r \in RowsOf(mode), e \in Slot : added[r] > 0 =>
      \A k \in RowCells(r) :
        yhat[mode][k][e] =
          IF r = Row[mode][e] /\ \E t \in Thread : t < added[r] /\ Did(t, e)
          THEN 1 ELSE 0

\* The outputs before the current one are complete, those of a call that
\* succeeded all are, and a call that fails has touched none.
Outputs ==
  /\ phase = "reduce" => \A n \in Mode : n < mode => yhat[n] = ExactOut(n)
  /\ phase \notin {"reduce", "permode"} =>
       \/ \A n \in Mode : yhat[n] = ExactOut(n)
       \/ \A n \in Mode : yhat[n] = [k \in Cells(n) |-> [e \in Slot |-> 0]]
  /\ phase \notin {"reduce", "permode"} /\ result = "ok" =>
       \A n \in Mode : yhat[n] = ExactOut(n)

(* The invariant that shows the drivers correct; it implies what the       *)
(* refinement below needs at ChunkDone and at return.                      *)
IInv == /\ TypeOK
        /\ ChunkLoaded /\ Positions
        /\ ClearedBlocks /\ WholeNonzeros /\ CountedOnce
        /\ PartialSums /\ Outputs

-----------------------------------------------------------------------------
stage == CASE phase = "idle" -> "idle"
           [] phase \in {"permode", "reduce"} -> "writing"
           [] OTHER -> "running"

\* Nonzero e is counted c times in its row of Yhat[n] and in no other row.
Counted(n, e) ==
  LET c == yhat[n][Row[n][e] * VC][e]
  IN  IF \A k \in Cells(n) : yhat[n][k][e] = IF k \in RowCells(Row[n][e]) THEN c ELSE 0
      THEN c ELSE "smeared"

out == [n \in Mode |-> IF stage = "writing" THEN "undefined"
                       ELSE [e \in Slot |-> Counted(n, e)]]

Promise == INSTANCE MttkrpAll WITH Elem <- Slot

(* The driver implements MttkrpAll: a call ends, and either every Yhat[n]  *)
(* has every contribution once or none has been touched.                   *)
ImplementsMttkrpAll == Promise!Spec

(* The part of it that is about single steps. *)
StepsAllowed == Promise!Init /\ [][Promise!Next]_(Promise!vars)
=============================================================================
