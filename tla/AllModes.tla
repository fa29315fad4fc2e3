------------------------------ MODULE AllModes ------------------------------
(***************************************************************************)
(* The one-pass drivers: spmttkrp_all_modes_dynasor (in core) and          *)
(* spmttkrp_all_modes_ooc (streaming: the nonzeros come from a .dnb file   *)
(* in chunks).  Every thread adds its slice of the nonzeros into a private *)
(* copy of all N outputs (its block of ofibs), and a parallel reduction    *)
(* stores the sum of the copies in Yhat.  Memory is counted in SIMD        *)
(* vectors: an output row is VC of them, a 64 B line LineVec.              *)
(***************************************************************************)
EXTENDS Integers, FiniteSets

CONSTANTS
  N,          \* num_modes
  P,          \* num_threads
  nnz,        \* number of nonzeros; a nonzero is its position in the slab
  ModeSize,   \* ModeSize[n]: rows of mode n
  Row,        \* Row[n][e]: row of nonzero e in mode n
  VC,         \* vectors in an output row (rank_padded / DYN_SIMD_WIDTH)
  LineVec,    \* vectors in a 64 B line
  ChunkNnz,   \* chunk_nnz_: nonzeros a chunk holds
  Garbage     \* the counts an uninitialised ofibs block may hold

Mode   == 0 .. N - 1
Thread == 0 .. P - 1
Slot   == 0 .. nnz - 1

ASSUME SizeAssumption ==
  /\ N \in Nat \ {0} /\ P \in Nat \ {0} /\ nnz \in Nat \ {0}
  /\ VC \in Nat \ {0} /\ LineVec \in Nat \ {0}
  /\ ChunkNnz \in 1 .. nnz
  /\ Garbage \in SUBSET Nat /\ Garbage # {}

ASSUME TensorAssumption ==
  /\ ModeSize \in [Mode -> Nat \ {0}]
  /\ Row \in [Mode -> [Slot -> Nat]]
  /\ \A n \in Mode, e \in Slot : Row[n][e] < ModeSize[n]

\* The vectors of an output matrix, and those of one of its rows.
Cells(n)    == 0 .. ModeSize[n] * VC - 1
RowCells(r) == r * VC .. r * VC + VC - 1

\* bytes = (bytes + 63) & ~63.
RoundUp(x) == ((x + LineVec - 1) \div LineVec) * LineVec

\* ofib_off[n]: where the copy of output n starts in a thread's block.
OfibOff[n \in 0 .. N] ==
  IF n = 0 THEN 0 ELSE OfibOff[n - 1] + RoundUp(ModeSize[n - 1] * VC)

Stride        == OfibOff[N]
Block(t)      == t * Stride .. t * Stride + Stride - 1
At(t, n, k)   == t * Stride + OfibOff[n] + k
Address       == 0 .. P * Stride - 1

VARIABLES
  streaming,  \* the tensor is out of core (T.ooc_enabled)
  phase,    \* the step the driver is in, "idle" between calls
  result,   \* how the last call ended ("none" before the first)
  ofibs,    \* ofibs[a][e]: how often e has been added into the vector at a
  zeroing,  \* the threads whose memset is still to come
  b,        \* b: first nonzero of the current chunk
  got,      \* got: nonzeros in the current chunk
  buf,      \* buf[j]: the nonzero at position j of the slab or chunk buffer
            \* (a chunk buffer's positions from ChunkNnz on stay unused)
  pos,      \* pos[t]: the position thread t handles next (i)
  mode,     \* the mode whose output is being reduced
  added,    \* added[r]: copies added so far into row r of that output
  yhat      \* yhat[n][k][e]: how often e is counted in vector k of Yhat[n]

vars == <<streaming, phase, result, ofibs, zeroing, b, got, buf, pos, mode, added, yhat>>

Phase     == {"idle", "alloc", "permode", "zero", "read", "kernel", "reduce"}
RowsOf(n) == 0 .. ModeSize[n] - 1
Rows      == UNION {RowsOf(n) : n \in Mode}

\* What a pass of the driver handles at a time: a chunk, or the whole slab.
Chunk == IF streaming THEN ChunkNnz ELSE nnz

\* Counts an output matrix holds when every nonzero is in its row once.
ExactOut(n) ==
  [k \in Cells(n) |-> [e \in Slot |-> IF k \in RowCells(Row[n][e]) THEN 1 ELSE 0]]

\* per = (got + num_threads - 1) / num_threads; slice [t * per, (t+1) * per).
Per(g) == (g + P - 1) \div P

Lesser(x, y) == IF x < y THEN x ELSE y
Begin(t)     == t * Per(got)

End(t) == Lesser(got, Begin(t) + Per(got))

-----------------------------------------------------------------------------
(* Factors allocated and cleared, no pass made yet. *)
Init ==
  /\ streaming \in BOOLEAN
  /\ phase = "idle" /\ result = "none"
  /\ ofibs = [a \in Address |-> [e \in Slot |-> 0]]
  /\ zeroing = {}
  /\ b = 0 /\ got = 0
  /\ buf = [j \in Slot |-> 0]
  /\ pos = [t \in Thread |-> 0]
  /\ mode = 0
  /\ added = [r \in Rows |-> 0]
  /\ yhat = [n \in Mode |-> [k \in Cells(n) |-> [e \in Slot |-> 0]]]

Call ==
  /\ phase = "idle"
  /\ phase' = "alloc"
  /\ UNCHANGED <<streaming, result, ofibs, zeroing, b, got, buf, pos, mode, added, yhat>>

(* The stream opens and ofibs is allocated, not initialised. *)
Alloc ==
  /\ phase = "alloc"
  /\ phase' = "zero"
  /\ \E g \in Garbage : ofibs' = [a \in Address |-> [e \in Slot |-> g]]
  /\ zeroing' = Thread
  /\ b' = 0
  /\ UNCHANGED <<streaming, result, got, buf, pos, mode, added, yhat>>

(* Out of core: open, the chunk buffer or ofibs fails; the driver returns  *)
(* 0.0.                                                                    *)
Refuse ==
  /\ phase = "alloc" /\ streaming
  /\ phase' = "idle"
  /\ result' = "failed"
  /\ UNCHANGED <<streaming, ofibs, zeroing, b, got, buf, pos, mode, added, yhat>>

(* In core: no primary slab, a rank too large, or no memory for ofibs; the *)
(* per-mode driver does the work (module Mttkrp, a process call per mode). *)
FallBack ==
  /\ phase = "alloc" /\ ~streaming
  /\ phase' = "permode"
  /\ UNCHANGED <<streaming, result, ofibs, zeroing, b, got, buf, pos, mode, added, yhat>>

PerMode ==
  /\ phase = "permode"
  /\ phase' = "idle"
  /\ result' = "ok"
  /\ yhat' = [n \in Mode |-> ExactOut(n)]
  /\ UNCHANGED <<streaming, ofibs, zeroing, b, got, buf, pos, mode, added>>

\* Mutant: thread 0 leaves its block as it was allocated.
ZeroButFirst(t) ==
  /\ phase = "zero" /\ t \in zeroing
  /\ ofibs' = [a \in Address |-> IF t # 0 /\ a \in Block(t)
                                 THEN [e \in Slot |-> 0] ELSE ofibs[a]]
  /\ zeroing' = zeroing \ {t}
  /\ UNCHANGED <<streaming, phase, result, b, got, buf, pos, mode, added, yhat>>

(* A. Thread t clears its own block. *)
Zero(t) ==
  /\ phase = "zero" /\ t \in zeroing
  /\ ofibs' = [a \in Address |-> IF a \in Block(t) THEN [e \in Slot |-> 0]
                                 ELSE ofibs[a]]
  /\ zeroing' = zeroing \ {t}
  /\ UNCHANGED <<streaming, phase, result, b, got, buf, pos, mode, added, yhat>>

(* The end of the zeroing region; in core the slab is the only chunk. *)
Zeroed ==
  /\ phase = "zero" /\ zeroing = {}
  /\ IF streaming
     THEN /\ phase' = "read"
          /\ UNCHANGED <<got, buf, pos>>
     ELSE /\ phase' = "kernel"
          /\ got' = nnz
          /\ buf' = [j \in Slot |-> j]
          /\ pos' = [t \in Thread |-> t * Per(nnz)]
  /\ UNCHANGED <<streaming, result, ofibs, zeroing, b, mode, added, yhat>>

(* read_chunk(b): the first len positions of the buffer are overwritten,   *)
(* the rest keep what an earlier chunk left there.                         *)
ReadChunk ==
  /\ phase = "read"
  /\ LET len == Lesser(nnz, b + Chunk) - b
     IN  /\ got' = len
         /\ buf' = [j \in Slot |-> IF j < len THEN b + j ELSE buf[j]]
         /\ pos' = [t \in Thread |-> t * Per(len)]
  /\ phase' = "kernel"
  /\ UNCHANGED <<streaming, result, ofibs, zeroing, b, mode, added, yhat>>

(* A seek or a read of the chunk falls short: read_chunk returns 0 and the *)
(* driver gives up.                                                        *)
ReadFails ==
  /\ phase = "read"
  /\ phase' = "idle"
  /\ result' = "failed"
  /\ UNCHANGED <<streaming, ofibs, zeroing, b, got, buf, pos, mode, added, yhat>>

(* The counts once thread t has added nonzero e into row Row[n][e] of all  *)
(* its N outputs.                                                          *)
Scattered(t, e) ==
  [a \in Address |->
     IF \E n \in Mode : \E k \in RowCells(Row[n][e]) : a = At(t, n, k)
     THEN [ofibs[a] EXCEPT ![e] = @ + 1] ELSE ofibs[a]]

(* B. Thread t handles the next nonzero of its slice.  The blocks are      *)
(* private (OfibsDisjoint), so the order of the threads' loads and stores  *)
(* within a nonzero does not matter.                                       *)
Kernel(t) ==
  /\ phase = "kernel" /\ pos[t] < End(t)
  /\ ofibs' = Scattered(t, buf[pos[t]])
  /\ pos' = [pos EXCEPT ![t] = @ + 1]
  /\ UNCHANGED <<streaming, phase, result, zeroing, b, got, buf, mode, added, yhat>>

(* Every thread is through with the chunk (the end of the region). *)
ChunkDone ==
  /\ phase = "kernel" /\ \A t \in Thread : ~ (pos[t] < End(t))
  /\ b' = b + Chunk
  /\ phase' = IF b' < nnz THEN "read" ELSE "reduce"
  /\ mode' = 0
  /\ added' = [r \in Rows |-> 0]
  /\ UNCHANGED <<streaming, result, ofibs, zeroing, got, buf, pos, yhat>>

\* Mutant: copy 0 is added to what the last call left in Yhat.
ReduceRowAddsFirst(r) ==
  /\ phase = "reduce" /\ r \in RowsOf(mode) /\ added[r] < P
  /\ LET src(k) == ofibs[At(added[r], mode, k)]
     IN  yhat' = [yhat EXCEPT ![mode] =
           [k \in Cells(mode) |->
              IF k \notin RowCells(r) THEN @[k]
              ELSE [e \in Slot |-> @[k][e] + src(k)[e]]]]
  /\ added' = [added EXCEPT ![r] = @ + 1]
  /\ UNCHANGED <<streaming, phase, result, ofibs, zeroing, b, got, buf, pos, mode>>

(* C. The thread in charge of row r stores copy 0 there, then adds copy 1, *)
(* 2, ... of the output.                                                   *)
ReduceRow(r) ==
  /\ phase = "reduce" /\ r \in RowsOf(mode) /\ added[r] < P
  /\ LET src(k) == ofibs[At(added[r], mode, k)]
     IN  yhat' = [yhat EXCEPT ![mode] =
           [k \in Cells(mode) |->
              IF k \notin RowCells(r) THEN @[k]
              ELSE IF added[r] = 0 THEN src(k)
              ELSE [e \in Slot |-> @[k][e] + src(k)[e]]]]
  /\ added' = [added EXCEPT ![r] = @ + 1]
  /\ UNCHANGED <<streaming, phase, result, ofibs, zeroing, b, got, buf, pos, mode>>

(* The output of this mode is complete: the next mode, or return. *)
ModeDone ==
  /\ phase = "reduce"
  /\ \A r \in RowsOf(mode) : added[r] = P
  /\ IF mode + 1 < N
     THEN /\ mode' = mode + 1
          /\ added' = [r \in Rows |-> 0]
          /\ UNCHANGED <<phase, result>>
     ELSE /\ phase' = "idle"
          /\ result' = "ok"
          /\ UNCHANGED <<mode, added>>
  /\ UNCHANGED <<streaming, ofibs, zeroing, b, got, buf, pos, yhat>>

\* The steps of a call that has begun.
Step == \/ Alloc \/ Refuse \/ FallBack \/ PerMode \/ Zeroed
        \/ ReadChunk \/ ReadFails \/ ChunkDone \/ ModeDone
        \/ \E t \in Thread : Zero(t) \/ Kernel(t)
        \/ \E r \in Rows : ReduceRow(r)

Next == Call \/ Step

\* A running call is never abandoned by its threads.
Spec == Init /\ [][Next]_vars /\ WF_vars(Step)
=============================================================================
