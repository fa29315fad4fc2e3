----------------------------- MODULE KernelTable -----------------------------
(***************************************************************************)
(* What the JIT promises the drivers: in one life of a process a request   *)
(* for a kernel is settled once, by the kernel that was asked for or by    *)
(* "none" (use the baked one), and the answer never changes after that.    *)
(***************************************************************************)
CONSTANTS Proc, Key

VARIABLE table   \* table[p][k]: what process p knows of kernel k

Open == [k \in Key |-> "unknown"]

Init == table = [p \in Proc |-> Open]

Settle(p, k) ==
  /\ table[p][k] = "unknown"
  /\ \E fn \in {k, "none"} : table' = [table EXCEPT ![p][k] = fn]

Restart(p) == table' = [table EXCEPT ![p] = Open]

Next == \E p \in Proc : Restart(p) \/ \E k \in Key : Settle(p, k)

Spec == Init /\ [][Next]_table
=============================================================================
