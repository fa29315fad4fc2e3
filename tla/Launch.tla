------------------------------- MODULE Launch -------------------------------
(***************************************************************************)
(* main, from the command line to the driver that runs: the plan before    *)
(* the load, the load or the streaming set-up, the flags passed on through *)
(* the environment, the plan after the load that populates the layout, the *)
(* Morton conversion, the plan of the kernel, and the dispatch of cpals    *)
(* and of the standalone benchmark.  What is decided where, on which       *)
(* measurement, and what the driver then finds, is the subject; the slabs  *)
(* themselves are those of TensorSlabs.                                    *)
(***************************************************************************)
EXTENDS StoragePlan

CONSTANTS
  Options,       \* the command lines: records of module MCLaunch
  Environments,  \* the values of DYN_LAYOUT and DYN_OOC at the start
  Tensors,       \* records: dense ("none", "some" or "raw": the copy that
                 \* lies in buf_raw is a DenseFiber one) and tiny (nnz < 1M)
  Others,        \* the bytes other processes may hold at a measurement
  Threads,       \* num_threads
  OfibsCap       \* the 8 GiB cap on the private outputs

DefaultRank == 4   \* rank_padded_est = 64 after the load

ASSUME LaunchAssumption ==
  /\ Options \subseteq [layout  : Planned \cup {"Morton", "auto"}, ooc : {"auto", "on", "off"},
                       decompose : BOOLEAN, kernel : {"auto", "gs", "jacobi"},
                       verify : BOOLEAN, allModes : BOOLEAN, compact : {"auto", "on", "off"},
                       runtime : BOOLEAN, dnb : BOOLEAN, rank : Nat \ {0}]
  /\ Environments \subseteq [layout : Planned \cup {"auto"}, ooc : {"auto", "on", "off"}]
  /\ Tensors \subseteq [dense : {"none", "some", "raw"}, tiny : BOOLEAN]
  /\ Others \subseteq Nat /\ Threads \in Nat \ {0} /\ OfibsCap \in Nat

VARIABLES
  at,        \* the step of main the process is at
  opt, env,  \* its command line and its environment
  tensor,    \* the tensor it is given
  layout,    \* T.layout
  ooc,       \* T.ooc_enabled
  held,      \* bytes of tensor the process has allocated
  primary,   \* T.vals and T.idx_buf are there
  plan,      \* the storage plan made last
  kernel,    \* opt.kernel of cpals: "gs" or "jacobi"
  driver,    \* the MTTKRP driver that runs
  rc         \* what main returns

inputs == <<opt, tensor>>
memory == <<layout, ooc, held, primary>>
launchVars == <<at, inputs, env, memory, plan, kernel, driver, rc>>

NoPlan == [choice |-> "none", fits |-> {}, forced |-> FALSE]

Cpals == opt.decompose

\* What other processes leave of the memory this one does not hold.
Measured == {Larger(0, TotalBytes - held - o) : o \in Others}

LaunchInit ==
  /\ at = "start"
  /\ opt \in Options /\ env \in Environments /\ tensor \in Tensors
  /\ layout = "PingPong" /\ ooc = FALSE /\ held = 0 /\ primary = FALSE
  /\ plan = NoPlan /\ kernel = "none" /\ driver = "none" /\ rc = 0

Return(code) ==
  /\ at' = "exited" /\ rc' = code
  /\ UNCHANGED <<inputs, env, memory, plan, kernel, driver>>

ReadOptions ==
  /\ at = "start"
  /\ at' = IF opt.runtime THEN "runtime" ELSE "plan"
  /\ UNCHANGED <<inputs, env, memory, plan, kernel, driver, rc>>

-----------------------------------------------------------------------------
(* --runtime: the .dnp file has the layout, whatever the options ask.      *)
RuntimeRefused ==
  /\ at = "runtime" /\ (opt.verify \/ opt.ooc = "on")
  /\ Return(7)

RuntimeUnreadable == at = "runtime" /\ Return(2)

LoadRuntime ==
  /\ at = "runtime" /\ ~(opt.verify \/ opt.ooc = "on")
  /\ \E l \in InCore \cup {"Morton"} :
       /\ layout' = l
       /\ held' = IF l = "Morton" THEN CopyBytes ELSE TensorBytes(l)
       /\ primary' = (l # "Morton")
  /\ at' = "setenv"
  /\ UNCHANGED <<inputs, env, ooc, plan, kernel, driver, rc>>

-----------------------------------------------------------------------------
(* The pre-load plan.  Without cpals --ooc is clamped to "off" and         *)
(* --layout ooc to "auto"; the environment is not clamped.                 *)
OocCli    == IF Cpals THEN opt.ooc ELSE "off"
LayoutCli == IF ~Cpals /\ opt.layout = "OutOfCore" THEN "auto" ELSE opt.layout

\* has_dense_fiber_hint: assumed before the load, known after it.
AssumedDense == TRUE
HasDense     == tensor.dense # "none"

\* A .dnb file is there: the header is read and the layout planned.
PlanFromHeader ==
  /\ at = "plan" /\ opt.dnb
  /\ \E avail \in Measured :
       plan' = PlanStorage(avail, opt.rank, AssumedDense,
                           LayoutAsked(LayoutCli, env.layout), OocAsked(OocCli, env.ooc))
  /\ at' = IF plan'.choice = "OutOfCore" THEN "stream" ELSE "load"
  /\ UNCHANGED <<inputs, env, memory, kernel, driver, rc>>

OocWithoutCache ==
  /\ at = "plan" /\ ~opt.dnb
  /\ OocCli = "on" \/ LayoutCli = "OutOfCore"
  /\ Return(2)

NoHeader ==
  /\ at = "plan" /\ ~opt.dnb
  /\ ~(OocCli = "on" \/ LayoutCli = "OutOfCore")
  /\ at' = "load"
  /\ UNCHANGED <<inputs, env, memory, plan, kernel, driver, rc>>

\* The norm is computed from the file, which may fail; nothing is loaded.
StreamSetUp ==
  /\ at = "stream"
  /\ layout' = "OutOfCore" /\ ooc' = TRUE
  /\ at' = "setenv"
  /\ UNCHANGED <<inputs, env, held, primary, plan, kernel, driver, rc>>

StreamFails == at = "stream" /\ Return(2)

LoadCoo ==
  /\ at = "load"
  /\ held' = CopyBytes /\ primary' = TRUE
  /\ at' = "setenv"
  /\ UNCHANGED <<inputs, env, layout, ooc, plan, kernel, driver, rc>>

LoadFails == at = "load" /\ Return(2)

-----------------------------------------------------------------------------
\* Mutant: --layout is not handed on, the preprocessor sees the caller's
\* DYN_LAYOUT.
PassLayoutNot == env.layout

(* --layout reaches build_flycoo through DYN_LAYOUT: as the user wrote it, *)
(* not as it was clamped, and "inplace" for morton.                        *)
PassLayout == CASE opt.layout = "Morton" -> "InPlace"
                [] opt.layout = "auto"   -> env.layout
                [] OTHER                 -> opt.layout

SetEnv ==
  /\ at = "setenv"
  /\ env' = [env EXCEPT !.layout = PassLayout]
  /\ at' = IF ooc \/ opt.runtime THEN "dispatch" ELSE "build"
  /\ UNCHANGED <<inputs, memory, plan, kernel, driver, rc>>

\* Whether the NCopy populate pass compacts the copy in buf_raw, which frees
\* the primary slab: "auto" is off under --verify and --all-modes.
Compacted == /\ tensor.dense = "raw"
             /\ \/ opt.compact = "on"
                \/ opt.compact = "auto" /\ ~opt.verify /\ ~opt.allModes

\* The plan's reason says DOES NOT FIT.
TooLarge(p) == p.choice = "InPlace" /\ ~p.forced /\ NumModes > 1 /\ "InPlace" \notin p.fits

(* build_flycoo: the scratch slab, then decide_and_populate_layout with    *)
(* the memory left now.  A choice other than PingPong and InPlace, be it   *)
(* OutOfCore, is populated as NCopy.                                       *)
BuildFlycoo ==
  /\ at = "build"
  /\ \E o \in Others :
       LET avail == Larger(0, TotalBytes - 2 * CopyBytes - o)
           p == PlanStorage(avail, DefaultRank, HasDense,
                            LayoutAsked("auto", env.layout), "off")
           populated == IF p.choice = "OutOfCore" THEN "NCopy" ELSE p.choice
       IN  /\ plan' = p
           /\ IF TooLarge(p)
              THEN /\ at' = "exited" /\ rc' = 2
                   /\ UNCHANGED memory
              ELSE /\ at' = "convert"
                   /\ layout' = p.choice
                   /\ held' = TensorBytes(populated)
                   /\ primary' = ~(populated = "NCopy" /\ Compacted)
                   /\ UNCHANGED <<ooc, rc>>
  /\ UNCHANGED <<inputs, env, kernel, driver>>

\* wants_morton: build_morton_layout, which may fail and leave InPlace.
Convert ==
  /\ at = "convert" /\ ~(opt.layout = "Morton" /\ opt.verify)
  /\ \/ UNCHANGED memory
     \/ /\ opt.layout = "Morton"
        /\ layout' = "Morton" /\ held' = CopyBytes /\ primary' = FALSE
        /\ UNCHANGED ooc
  /\ at' = "dispatch"
  /\ UNCHANGED <<inputs, env, plan, kernel, driver, rc>>

MortonVerify == at = "convert" /\ opt.layout = "Morton" /\ opt.verify /\ Return(7)

-----------------------------------------------------------------------------
\* spmttkrp_all_modes_dynasor and spmttkrp_dynasor at this rank.
Wide == (NumModes = 3 /\ opt.rank >= 4) \/ opt.rank >= 8

OfibsBytes == (FactorBytes * opt.rank * Threads) \div 2

Smaller(a, b) == IF a < b THEN a ELSE b

\* pick_auto_kernel.
AutoKernel(choice, avail) ==
  IF choice \in {"Morton", "OutOfCore"} \/ ooc THEN "jacobi"
  ELSE IF tensor.tiny \/ Wide \/ OfibsBytes >= Smaller(avail \div 4, OfibsCap)
       THEN "gs" ELSE "jacobi"

\* The user's Jacobi is taken; the user's Gauss-Seidel unless the plan's
\* layout, or a streamed tensor, forces Jacobi.
Kernel(choice, avail) ==
  CASE opt.kernel = "jacobi" -> "jacobi"
    [] opt.kernel = "gs"     -> IF choice \in {"Morton", "OutOfCore"} \/ ooc
                                THEN "jacobi" ELSE "gs"
    [] opt.kernel = "auto"   -> AutoKernel(choice, avail)

(* dyn_build_compute_plan: the storage is planned once more, with the      *)
(* memory left now, and only a Morton or OutOfCore tensor's layout         *)
(* replaces the plan's choice.                                             *)
ComputePlan ==
  /\ at = "dispatch" /\ Cpals
  /\ \E avail \in Measured :
       LET p == PlanStorage(avail, opt.rank, HasDense,
                            LayoutAsked(opt.layout, env.layout), OocAsked(opt.ooc, env.ooc))
           choice == IF layout \in {"Morton", "OutOfCore"} THEN layout ELSE p.choice
       IN  /\ plan' = [p EXCEPT !.choice = choice]
           /\ kernel' = Kernel(choice, avail)
  /\ at' = "cpals"
  /\ UNCHANGED <<inputs, env, memory, driver, rc>>

\* The norm is summed over T.vals, or over what stands for it.
NoNorm == ~ooc /\ ~primary /\ layout \notin {"NCopy", "Morton"}

CpalsFatal == at = "cpals" /\ NoNorm /\ Return(1)

\* SpmttkrpSweep::process by layout.
PerMode == CASE layout = "NCopy"   -> "ncopy"
             [] layout = "InPlace" -> "inplace"
             [] OTHER              -> "pingpong"

\* Mutant: the missing primary slab is not noticed.
AllModesBlind == IF Wide THEN {PerMode} ELSE {"allModes", PerMode}

\* spmttkrp_all_modes_dynasor: per mode without the primary slab, at a wide
\* rank, or when the private outputs cannot be allocated.
AllModes == IF ~primary \/ Wide THEN {PerMode} ELSE {"allModes", PerMode}

\* cpals promotes streamed and Morton tensors to Jacobi.
Jacobi == kernel = "jacobi" \/ ooc \/ layout = "Morton"

\* The drivers cpals may run.
CpalsDrivers == CASE ~Jacobi            -> {PerMode}
                  [] Jacobi /\ ooc      -> {"ooc"}
                  [] OTHER -> IF layout = "Morton" THEN {"morton"} \cup AllModes ELSE AllModes

RunCpals ==
  /\ at = "cpals" /\ ~NoNorm
  /\ driver' \in CpalsDrivers
  /\ at' = "run"
  /\ UNCHANGED <<inputs, env, memory, plan, kernel, rc>>

OocWithoutCpals == at = "dispatch" /\ ~Cpals /\ ooc /\ Return(6)

\* The standalone benchmark, after the reference under --verify.
RunBenchmark ==
  /\ at = "dispatch" /\ ~Cpals /\ ~ooc
  /\ driver' \in IF opt.allModes THEN AllModes ELSE {PerMode}
  /\ at' = "run"
  /\ UNCHANGED <<inputs, env, memory, plan, kernel, rc>>

Finish == at = "run" /\ Return(0)

LaunchNext ==
  \/ ReadOptions \/ RuntimeRefused \/ RuntimeUnreadable \/ LoadRuntime
  \/ PlanFromHeader \/ OocWithoutCache \/ NoHeader
  \/ StreamSetUp \/ StreamFails \/ LoadCoo \/ LoadFails
  \/ SetEnv \/ BuildFlycoo \/ Convert \/ MortonVerify
  \/ ComputePlan \/ CpalsFatal \/ RunCpals
  \/ OocWithoutCpals \/ RunBenchmark \/ Finish

LaunchSpec == LaunchInit /\ [][LaunchNext]_launchVars

-----------------------------------------------------------------------------
(* What this launch was asked: the command line, else DYN_LAYOUT.  SetEnv  *)
(* changes DYN_LAYOUT only when the command line speaks.                   *)
Asked == IF opt.layout # "auto" THEN opt.layout ELSE env.layout

\* Every variable keeps its type.
TypeOK ==
  /\ at \in {"start", "runtime", "plan", "stream", "load", "setenv", "build",
             "convert", "dispatch", "cpals", "run", "exited"}
  /\ opt \in Options /\ tensor \in Tensors
  /\ env \in [layout : Planned \cup {"auto"}, ooc : {"auto", "on", "off"}]
  /\ layout \in Planned \cup {"Morton"} /\ ooc \in BOOLEAN
  /\ held \in Nat /\ primary \in BOOLEAN
  /\ plan \in [choice : Planned \cup {"Morton", "none"}, fits : SUBSET InCore, forced : BOOLEAN]
  /\ kernel \in {"none", "gs", "jacobi"}
  /\ driver \in {"none", "ooc", "morton", "allModes", "ncopy", "inplace", "pingpong"}
  /\ rc \in {0, 1, 2, 6, 7}

\* The drivers that read the primary slab.
ReadsPrimary == driver \in {"allModes", "inplace", "pingpong"}

(* The two cases in which the code sends a driver to a primary slab that   *)
(* is not there: process() takes Morton for PingPong, and a tensor in      *)
(* memory whose layout word is OutOfCore was populated, and compacted, as  *)
(* NCopy.                                                                  *)
Stranded == /\ driver = "pingpong"
            /\ \/ layout = "Morton"
               \/ layout = "OutOfCore" /\ ~ooc /\ ~Cpals /\ Asked = "OutOfCore" /\ Compacted

(* A streamed tensor has layout OutOfCore, no byte of it is in memory, and *)
(* the streaming driver and no other runs on it.  On every layout a driver *)
(* that reads the primary slab has it, whatever was compacted for which    *)
(* flag, but for the two cases of Stranded; so has the reference under     *)
(* --verify, unless compaction was asked for; the drivers of the copies    *)
(* and of the keys run on tensors that have them.  The layout, the         *)
(* compaction and the driver are chosen at three places.  And when the     *)
(* planner picks Jacobi for a tensor whose primary slab is there, the      *)
(* all-modes driver does not turn it down for its rank.                    *)
DriverFitsTensor ==
  /\ ooc => layout = "OutOfCore" /\ held = 0 /\ ~primary
  /\ at = "run" =>
       /\ driver = "ooc" <=> ooc
       /\ driver = "ncopy" => layout = "NCopy"
       /\ driver = "morton" => layout = "Morton"
       /\ ReadsPrimary => primary \/ Stranded
       /\ opt.verify /\ ~Cpals /\ opt.compact # "on" => primary
  /\ at = "cpals" /\ opt.kernel = "auto" /\ kernel = "jacobi" /\ primary
       /\ plan.choice \in InCore => "allModes" \in AllModes

(* main's comment on the clamp: without cpals it keeps a run from crashing *)
(* on --layout ooc ("so a misconfigured --ooc on / --layout ooc doesn't    *)
(* crash at runtime"), that is, the driver finds the slab it reads.  The   *)
(* clamped word is a local copy, and PassLayout hands on the other: the    *)
(* tensor is populated and compacted as NCopy and driven as PingPong.      *)
ClampPreventsCrash ==
  at = "run" /\ ~opt.runtime /\ ~Cpals /\ opt.layout = "OutOfCore" /\ ReadsPrimary => primary

(* What the user asked for survives three plans, a clamp and a round trip  *)
(* through the environment: an in-core layout is the one that runs unless  *)
(* streaming was asked for too; a tensor asked for as OutOfCore has that   *)
(* layout and is streamed exactly for cpals, from a .dnb file; a tensor is *)
(* streamed only then, and not against --ooc off; the user's Jacobi is     *)
(* kept, and with streaming off the user's Gauss-Seidel is kept on in-core *)
(* layouts.                                                                *)
RequestKept ==
  /\ at = "run" /\ ~opt.runtime =>
       /\ Asked \in InCore => layout = Asked \/ OocAsked(opt.ooc, env.ooc) = "on"
       /\ Asked = "OutOfCore" => layout = "OutOfCore" /\ (ooc <=> Cpals /\ opt.dnb)
       /\ Asked = "Morton" => layout \in {"Morton", "InPlace", "OutOfCore"}
       /\ ooc => /\ Cpals /\ opt.dnb
                 /\ OocAsked(opt.ooc, env.ooc) = "off" => Asked \in {"OutOfCore", "Morton"}
  /\ at \in {"cpals", "run"} /\ Cpals =>
       /\ opt.kernel = "jacobi" => Jacobi
       /\ opt.kernel = "gs" /\ layout \in InCore /\ Asked # "OutOfCore"
            /\ OocAsked(opt.ooc, env.ooc) = "off" => ~Jacobi

(* A layout nobody forced fits the budget it was populated under, and is   *)
(* the fastest of those that fit; a tensor is streamed unasked only if no  *)
(* layout fits.  A tensor of one mode is not planned at all.               *)
PlanFits == NumModes > 1 =>
  /\ at = "convert" /\ ~plan.forced =>
       /\ layout \in plan.fits
       /\ \A l \in plan.fits : \/ l = layout \/ layout = "NCopy"
                               \/ l = "InPlace" /\ layout = "PingPong"
  /\ at = "stream" /\ ~plan.forced => plan.fits = {}
=============================================================================
