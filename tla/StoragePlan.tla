----------------------------- MODULE StoragePlan -----------------------------
(***************************************************************************)
(* dyn_plan_storage: which layout a tensor gets, from the memory each      *)
(* would need, the memory there is and what the user asked for.  The       *)
(* program calls it three times in one launch, each time with other        *)
(* arguments and with the memory of that moment.  Bytes are small numbers. *)
(***************************************************************************)
EXTENDS Integers

CONSTANTS
  NumModes,     \* num_modes
  CopyBytes,    \* one copy of the tensor: values and one index column per mode
  ColumnBytes,  \* the value column alone
  FactorBytes,  \* 2 * sum_In * sizeof(value_t) for 16 columns of rank
  SlackBytes,   \* the 64 MiB of slack
  TotalBytes,   \* dyn_memory_total_bytes(), 0 if it is not known
  MinHeadroom   \* the 2 GiB floor of the headroom

ASSUME PlanAssumption ==
  /\ NumModes \in Nat \ {0}
  /\ {CopyBytes, ColumnBytes, FactorBytes} \subseteq Nat \ {0}
  /\ ColumnBytes < CopyBytes
  /\ {SlackBytes, TotalBytes, MinHeadroom} \subseteq Nat

InCore == {"NCopy", "PingPong", "InPlace"}

\* What --layout and DYN_LAYOUT can ask of the planner.  "Morton" is not
\* among them: it is an unknown word here, and an unknown word is "auto".
Planned == InCore \cup {"OutOfCore"}

TensorBytes(layout) == CASE layout = "NCopy"    -> NumModes * CopyBytes
                         [] layout = "PingPong" -> 2 * CopyBytes
                         [] layout = "InPlace"  -> CopyBytes + ColumnBytes

\* Factors and gram scratch, the sort temp of a DenseFiber mode, the slack.
\* Ranks are counted in units of 16 columns.
Overhead(rank, denseHint) ==
  FactorBytes * rank + (IF denseHint THEN CopyBytes ELSE 0) + SlackBytes

Need(layout, rank, denseHint) == TensorBytes(layout) + Overhead(rank, denseHint)

Larger(a, b) == IF a > b THEN a ELSE b

Headroom == Larger(MinHeadroom, IF TotalBytes > 0 THEN TotalBytes \div 4 ELSE MinHeadroom)

\* 70% of the available memory, or half of the total when the available is
\* not known, less the headroom.
Budget(avail) ==
  LET usable == IF avail > 0 THEN (7 * avail) \div 10 ELSE TotalBytes \div 2
  IN  Larger(0, usable - Headroom)

Known(word) == IF word \in Planned THEN word ELSE "auto"

\* The command line wins over the environment unless it says "auto".
LayoutAsked(cli, env) == IF Known(cli) # "auto" THEN Known(cli) ELSE Known(env)
OocAsked(cli, env)    == IF cli # "auto" THEN cli ELSE env

\* Mutant: NCopy is preferred whether or not it fits.
AutoLayoutGreedy(fits, oocMode) ==
  IF oocMode # "off" /\ "InPlace" \notin fits THEN "OutOfCore"
  ELSE IF NumModes < 2 THEN "PingPong" ELSE "NCopy"

AutoLayout(fits, oocMode) ==
  IF oocMode # "off" /\ "InPlace" \notin fits THEN "OutOfCore"
  ELSE IF NumModes < 2 THEN "PingPong"
  ELSE IF "NCopy" \in fits THEN "NCopy"
  ELSE IF "PingPong" \in fits THEN "PingPong"
  ELSE "InPlace"

(* The plan: its choice, the layouts that fit the budget, and whether an   *)
(* override made the choice.                                               *)
PlanStorage(avail, rank, denseHint, layoutAsked, oocMode) ==
  LET fits == {l \in InCore : Need(l, rank, denseHint) <= Budget(avail)}
      forced == layoutAsked # "auto" \/ oocMode = "on"
  IN  [choice |-> IF oocMode = "on" THEN "OutOfCore"
                  ELSE IF layoutAsked # "auto" THEN layoutAsked
                  ELSE AutoLayout(fits, oocMode),
       fits   |-> fits,
       forced |-> forced]
=============================================================================
