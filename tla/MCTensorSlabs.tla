---------------------------- MODULE MCTensorSlabs ----------------------------
(***************************************************************************)
(* The command lines of dynasor that make a difference to the slabs.       *)
(***************************************************************************)
EXTENDS SlabInv

Base == [layout |-> "PingPong", fiberSort |-> TRUE, csr |-> TRUE, compact |-> "auto",
         fiberOff |-> FALSE, driver |-> "cpals-gs", allModes |-> FALSE,
         verify |-> FALSE, save |-> FALSE, runtime |-> FALSE, ofibsFail |-> FALSE]

Drivers == {"cpals-gs", "cpals-jacobi", "mttkrp"}

\* At most one of DYN_FIBER_OFF, --all-modes and --verify at a time.
Switches == {x \in [1 .. 3 -> BOOLEAN] : Cardinality({i \in 1 .. 3 : x[i]}) =< 1}

CommandLines(layouts, sorts, compacts, saves) ==
  {[Base EXCEPT !.layout = l, !.fiberSort = s[1], !.csr = s[2], !.compact = c,
                !.driver = d, !.fiberOff = x[1], !.allModes = x[2],
                !.verify = x[3], !.save = w] :
     l \in layouts, s \in sorts, c \in compacts, d \in Drivers,
     x \in Switches, w \in saves}

Default == {<<TRUE, TRUE>>}
Sorts   == Default \cup {<<FALSE, TRUE>>, <<TRUE, FALSE>>}

\* --runtime with --cpals; without it a Morton file finds no driver.
Runtime == {[Base EXCEPT !.runtime = TRUE, !.driver = d, !.fiberOff = f] :
              d \in Drivers \ {"mttkrp"}, f \in BOOLEAN}

\* Every layout without a .dnp file; NCopy is not compacted.
SoundOptions ==
       CommandLines({"PingPong", "InPlace"}, Default, {"auto"}, {FALSE})
  \cup CommandLines({"NCopy"}, Sorts, {"off"}, {FALSE})

\* Processes that write a .dnp file and processes that load one.  PingPong is
\* written by no process here.
FileOptions ==
  {o \in CommandLines({"InPlace"}, Default, {"auto"}, {TRUE})
           \cup CommandLines({"NCopy"}, Sorts, {"off", "on"}, {TRUE}) :
     o.driver = "cpals-gs" /\ ~o.allModes /\ ~o.verify /\ ~o.fiberOff}
  \cup Runtime

\* Morton has no driver but cpals, and main refuses it with --verify.
MortonOptions ==
  {o \in CommandLines({"Morton"}, Default, {"auto"}, BOOLEAN) :
     ~o.verify /\ o.driver # "mttkrp"}

\* NCopy with the compaction that is the default, but for DYN_FIBER_OFF.
CompactOptions ==
  {o \in CommandLines({"NCopy"}, Default, {"auto", "on"}, BOOLEAN) :
     /\ ~o.fiberOff
     /\ o.compact = "on" => ~o.verify}

AllOptions == SoundOptions \cup FileOptions \cup MortonOptions \cup CompactOptions

AnyDensity(o) == SUBSET Mode

\* Compaction is not given a tensor with mode 0 dense and mode 1 not.
SoundDensity(o) ==
  IF o.layout = "NCopy" /\ o.compact # "off"
  THEN {d \in SUBSET Mode : 0 \in d => 1 \in d}
  ELSE SUBSET Mode

\* The command lines of run slabs are those of theorem EveryReadValid.
ASSUME AllOptionsSupported == \A o \in AllOptions : Supported(o, SoundDensity(o))
=============================================================================
