------------------------------ MODULE MCMorton ------------------------------
(***************************************************************************)
(* Two modes, five nonzeros and four threads, of which the third has one   *)
(* nonzero and the last would begin behind them; keys of five bits in four *)
(* buckets.  Sizes that use all the bits, unequal sizes with a mode of one *)
(* row, sizes that do not fit, and each distribution over two buckets.     *)
(* Nonzeros with the same rows have the same key.                          *)
(***************************************************************************)
EXTENDS MortonInv, TLC, Sequences

Rows(a, b) == (0 :> [i \in Slot |-> a[i + 1]]) @@ (1 :> [i \in Slot |-> b[i + 1]])
Sizes(a, b) == (0 :> a) @@ (1 :> b)

MCTensors ==
  {[size |-> Sizes(5, 3), row |-> Rows(<<4, 0, 3, 4, 1>>, <<2, 1, 0, 2, 2>>)],
   [size |-> Sizes(3, 5), row |-> Rows(<<0, 2, 2, 1, 0>>, <<4, 3, 0, 1, 4>>)],
   [size |-> Sizes(1, 8), row |-> Rows(<<0, 0, 0, 0, 0>>, <<7, 5, 0, 5, 2>>)],
   [size |-> Sizes(5, 5), row |-> Rows(<<4, 0, 3, 4, 1>>, <<2, 1, 0, 2, 4>>)]}
    \cup {[size |-> Sizes(2, 8), row |-> [Rows(<<0, 1, 1, 0, 1>>, <<0, 0, 0, 0, 0>>) EXCEPT ![1] = r]] :
            r \in [Slot -> {1, 7}]}
=============================================================================
