--------------------------- MODULE ShardGeometry ---------------------------
(***************************************************************************)
(* How build_flycoo cuts the rows of a mode into super-shards: a power of  *)
(* two of rows per shard, so that the kernels find a row's shard by a      *)
(* shift, in the arithmetic of idx_t.                                      *)
(***************************************************************************)
EXTENDS Integers, FiniteSetsExt

CONSTANTS
  Bits,       \* width of idx_t (32)
  kMinRows,   \* 16
  kMaxRows    \* 16384

\* 1 << k.
Pow2[k \in 0 .. Bits] == IF k = 0 THEN 1 ELSE 2 * Pow2[k - 1]

ASSUME GeometryAssumption ==
  /\ Bits \in Nat \ {0}
  /\ kMinRows \in Nat \ {0} /\ kMinRows =< kMaxRows
  /\ \E k \in 0 .. Bits - 1 : kMaxRows = Pow2[k]

Wrap(x) == x % Pow2[Bits]

RoundUpPow2(x) == Min({p \in {Pow2[k] : k \in 0 .. Bits - 1} : p >= x})

Log2Pow2(x) == Min({k \in 0 .. Bits : Pow2[k] >= x})

PickMN(size, threads) ==
  LET wanted  == Max({1, size \div (4 * threads)})
      clamped == Min({Max({wanted, kMinRows}), kMaxRows})
  IN  IF size =< threads THEN 1 ELSE RoundUpPow2(Min({clamped, size}))

\* Mutant: floor instead of ceiling.
ShardsPerModeFloor(size, mn) == Max({1, size \div mn})

\* (mode_size + mn - 1) / mn in 32-bit arithmetic, and at least one.
ShardsPerMode(size, mn) == Max({1, Wrap(size + mn - 1) \div mn})

\* sid = idx >> mn_shift.
ShardOfRow(r, mn) == r \div Pow2[Log2Pow2(mn)]
=============================================================================
