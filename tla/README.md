# Dynasor+ in TLA+

TLA+ models of Dynasor+, a C++17/OpenMP program that computes the MTTKRP
(matricised tensor times Khatri-Rao product) of a sparse tensor for every mode,
and the CP decomposition built on it. The program's central claim is that its
threads update shared matrices and re-sort the tensor *while they compute*,
without a lock or an atomic instruction. This project models why that is right,
checks the models on small instances with TLC, and proves the central results
for every tensor and every number of threads with TLAPS.

Paths below are relative to the repository; `preprocess` is
`src/dynasor_preprocess.cpp`, and so on.

- [1 The system](#1-the-system)
- [2 Modules](#2-modules)
- [3 How the models correspond to the code](#3-how-the-models-correspond-to-the-code)
- [4 Runs](#4-runs)
- [5 Proofs](#5-proofs)
- [6 Disagreements between code and documentation](#6-disagreements-between-code-and-documentation)
- [7 What is not modelled, and what could follow](#7-what-is-not-modelled-and-what-could-follow)

## 1 The system

A tensor is a list of nonzeros: a value and `N` row indices. `main` loads one
(text or binary cache), preprocesses it (`build_flycoo`), picks a memory layout,
and runs a driver: a plain MTTKRP sweep, or `cpals`, which alternates MTTKRP and
small dense solves.

| Component | State it keeps | Operations | Hard behaviour | What makes it correct |
|---|---|---|---|---|
| Text parsers (`io`) | byte ranges per thread, counts, offsets | `load_tns_mmap` (parallel), `load_tns_serial` (fallback) | ranges cut inside lines, empty ranges, a last line without newline | both give the same tensor; nothing stored outside the arrays |
| Binary cache `.dnb` (`io`) | two file names, modification times | `dnb_cache_is_fresh`, `load_dnb_tensor`, `save_dnb_tensor` | death between two system calls, unchecked flush, edits during a save | a load returns one whole version of the tensor |
| Preprocessor (`preprocess`) | shard counts, bitmaps, schedule `ss_list`, ranges, cursor table `precomp_thr_off` | `sort_and_count_all`, `build_schedule_from_counts`, `build_remap_plan_from_counts` | workers scatter through cursors computed from each other's counts; 32-bit index arithmetic | every table equals its definition; cursors never meet |
| Sweep (`dynasor`, `kernel`) | two slabs `vals`/`scr`, work cursors, `Yhat` | `process(n)`: fiber sort, zero, parallel kernel with scatter, `swap_buffers` | row updates and scatter without atomics; the slab of the next call is written by this one | every nonzero is added once; the slab is grouped for the next mode |
| In-place sort (`preprocess`) | one slab, one scratch column, `inplace_sorted_mode` | `inplace_sort_slab_by_mode` | columns move one after the other by the values of one of them; threads swap inside shards | all columns get the same permutation |
| One-pass drivers (`dynasor`, `ooc`) | private output copies `ofibs`, the chunk buffer | `spmttkrp_all_modes_dynasor`, `spmttkrp_all_modes_ooc` | uninitialised blocks, stale chunk tail, a read that fails half way | exact outputs, or untouched ones |
| Tensor memory (`common.h`, `io`, `preprocess`, `dnp`, `morton`) | raw owners, pointers carved out of them, layout flags | allocation, `swap_buffers`, relabelling to NCopy copies, compaction, `.dnp` save and load | owners and views separate after a swap | no leak, double free, use after free; flags tell the truth |
| CP-ALS (`cpals`) | factors, Gram matrices, `Yhat`, `lambda`, fit | `cpals` with Gauss-Seidel or Jacobi updates | matrices of different iterations side by side; failed passes | under Gauss-Seidel the two sides of a solve, and of the fit, belong to the same factors; under Jacobi the matrix of a solve, and the model norm, still do |
| NCopy copies and row pointers (`preprocess`, `kernel`) | one copy per mode, a sort temporary, `ncopy_rowptr`, three flags | `dyn_remap_shard_only_all`, the within-shard sort, the row-pointer build, `process(n)` over a copy | copy `n + 1` is scattered from copy `n` by threads with private cursors; neighbouring shards write one row pointer | every copy is grouped by its mode's shards; the row pointers equal their definition; a call adds every nonzero once |
| Memory planner and launch (`preprocess`, `io`, `main`) | the measured memory, `StoragePlan`, the environment, `T.layout` | `dyn_plan_storage` at three places, `decide_and_populate_layout`, `dyn_build_compute_plan`, dispatch | decisions taken at one moment and used at another; flags that travel through `setenv` | a driver finds the slab it reads, but for two combinations of options that no guard catches; what the user asked for is kept; an unforced layout fits its budget |
| Morton layout (`morton`) | bit masks, keys, values, histograms, cursors | `build_morton_layout`, `spmttkrp_all_modes_morton` | a parallel radix partition through cursors; rows recovered from keys | keys ordered, every nonzero kept, exact outputs |
| JIT cache (`jit`) | table of kernels, mutex, statistics; sources and libraries on disk | `dyn_jit_get_fiber_csr`, `dyn_jit_get_all_modes_morton` | threads that ask for one kernel at once; processes that share the directory and die in it | one compile per kernel and process; never a kernel that was not asked for; every request is answered |
| Linear algebra, SIMD wrappers, reference kernel, option parsing, tools | see section 7 | | | |

**Interaction.** The components share one `Tensor` and one `FactorMatrices`.
There are no long-lived threads: every parallel step is an OpenMP region that
forks a team and joins it, so a component hands over to the next at a barrier.
The interesting interleavings are *inside* a region, and the interesting
sequences are of regions: what `process(n)` leaves in the slabs is the input of
`process(n + 1)`. Processes meet only through files (`.dnb`, `.dnp`, and the JIT
directory).

`PROJECT.json` lists the components with their status, and under `hazards`
everything in this code that is hard to test, at its line, with the properties
that watch over it or the reason why none does.

## 2 Modules

    Mttkrp            abstract: what a process(n) call promises
     ^  ^
     |  +--- InPlaceSort --> InPlaceInv -----> Flycoo
     |       InPlaceProofs --> FlycooProofs
     |  +--- NcopyCsr --> NcopyInv ----------> Flycoo
     |       NcopyProofs --> FlycooProofs
     +------ RemapSweep --> RemapSweepInv ---> Flycoo    tables in closed form
                 RemapSweepProofs --> FlycooProofs
    ShardGeometry <-- FlycooBuild --INSTANCE--> Flycoo   tables as computed
                      FlycooBuild --> FlycooBuildInv --> BuildLaunchProofs
    MttkrpAll         abstract: what a one-pass call promises
     ^
     +------ AllModes --> AllModesInv --> DnbAllModesProofs
     +------ Morton --> MortonInv --> CpAlsMortonJitProofs
    CpAls             uses the promises of Mttkrp and MttkrpAll as its steps
     |                CpAls --> CpAlsMortonJitProofs
     +--- Decompose   Launch and CpAls composed: main and its call of cpals
    TensorSlabs       memory of one process, and of the next through a .dnp file
                      TensorSlabs --> SlabInv --> SlabProofs
    TnsText <-- DnbCache --> DnbAllModesProofs
    StoragePlan <-- Launch --> BuildLaunchProofs
    KernelTable       abstract: what the drivers see of the JIT
     ^
     +------ JitCache --> CpAlsMortonJitProofs

| Module | Models |
|---|---|
| `Flycoo` | shards, owners, and the closed form of the slab ranges and of the cursor table |
| `ShardGeometry` | `pick_mn`, `shards_per_mode`, with the wrap of `idx_t` |
| `FlycooBuild`, `FlycooBuildInv` | `build_flycoo` up to the layout decision, a worker's step at a time; it `INSTANCE`s `Flycoo` on the tables it has computed and compares; the inductive invariant |
| `Mttkrp`, `RemapSweep`, `RemapSweepInv` | the PingPong sweep; the promise; the inductive invariants of the pass and of the fiber sort's order |
| `InPlaceSort`, `InPlaceInv` | the InPlace sweep: both paths of the sort, then the kernel; the inductive invariant |
| `MttkrpAll`, `AllModes`, `AllModesInv` | the one-pass drivers in core and out of core |
| `CpAls` | the ALS loop, with matrices represented by their provenance |
| `TensorSlabs`, `SlabInv` | owners, views and contents of all slabs from parse to exit; the inductive invariant |
| `TnsText` | both text parsers as functions on token sequences |
| `DnbCache` | `load_coo_tensor` and its cache |
| `NcopyCsr`, `NcopyInv` | the NCopy layout: copies, sort, row pointers, and `process(n)` over them; the inductive invariants of the build and of `process` |
| `Morton`, `MortonInv` | the bit plan, keys, parallel sort, and the one-pass driver over the keys; the inductive invariant |
| `StoragePlan`, `Launch` | the memory planner; `main` from the options to the driver that runs |
| `Decompose` | the composition of `Launch` and `CpAls` |
| `KernelTable`, `JitCache` | what the JIT promises; its table, mutex and files |
| `FlycooProofs`, `RemapSweepProofs`, `InPlaceProofs`, `NcopyProofs`, `SlabProofs`, `BuildLaunchProofs`, `CpAlsMortonJitProofs`, `DnbAllModesProofs` | theorems and proofs; the last three hold the proofs of two or three components each |
| `MC...` | the instances TLC checks |

Definitions marked "Mutant" are plausible mistakes in the definition below them
(a dropped reset, an off-by-one, a swapped order). They are used by no
specification; substituting one for its original makes TLC report the property
that `PROJECT.json` pairs it with, which shows that the property depends on the
code being as it is.

## 3 How the models correspond to the code

`PROJECT.json` maps every definition to the lines it stands for. The ideas:

**A matrix is the multiset of what has been added to it.** The arithmetic of
MTTKRP is abstracted to counting: `yhat[n][e]` says how often nonzero `e` has
been added into its row of `Yhat[n]`. "The result is right" is then "every count
is 1"; a lost update, a row never zeroed and a nonzero visited twice are all
visible. Floating-point order is not.

**RemapSweep** has one action per step another thread can see: taking a shard
(`TakeShard`), reading the output row into registers (`LoadRow`), accumulating
and scattering one nonzero (`Accumulate`), writing the row back (`StoreRow`).
The row is read and written in different steps, so two threads on one row *would*
lose an update. The element kernel is the case in which a run is one nonzero
long, the fiber kernel serves a run of nonzeros of one row with one load. The
scatter writes `scr[off[t][s]]` through the thread's private cursor. `Join` is
the barrier with `swap_buffers`. A fiber sort (one action per shard, in any
order) comes first in `DenseFiber` modes, in its single-pass form, which swaps
slabs, or its two-pass form, which does not. Abstracted: the values, the SIMD
form, the prefetches, and the fact that `memset` zeroes in an order.

**FlycooBuild** interleaves the workers of both scans of `sort_and_count_all`
(the counting scan a worker at a time, because its writes are private; the
scatter a nonzero at a time) and of the histogram scan of the plan; the
schedule is the heap loop, an assignment at a time. `RunningSum` is the loop that
adds up a table, over shards or over workers; `Pow2` is the shift.

**InPlaceSort** keeps every column apart (`cols[c][i]`), because path (b) moves
them one by one, deciding by the column of the sorted mode. The flag sort swaps
whole nonzeros. Pass 2 hands out shards dynamically.

**AllModes** addresses memory in SIMD vectors, as the `ofib_off` table does, so
that overlapping blocks would be seen; fresh memory holds any value of
`Garbage`. A kernel step adds one nonzero to all `N` private outputs; the
reduction is a (row, thread) step at a time. A chunk read can fail. With too
little memory the in-core driver falls back to the per-mode driver.

**TensorSlabs** gives every `aligned_alloc` a new block number and tells raw
owners (`buf_raw`, `buf_scratch_raw`, `ncopy_raw[k]`, ...) from views (`vals`,
`scr_vals`, `ncopy_vals[k]`), as the code does. Of contents it keeps the sort
order and which index columns exist. A kill may come between any two steps; a
`.dnp` file may be written, torn, rejected, and loaded by a later process.

**CpAls** represents a matrix by where its content comes from (which update of
which factor, scaled or not; from which factors a `Yhat` was computed). MTTKRP
is one step, as the two abstract specifications promise.

**Decompose** runs `Launch` up to `main`'s call of `cpals`, hands over the kernel
and where the tensor is kept (`Call`), runs `CpAls`, and lets `main` return when it is
done. `CpAls` by itself begins with any kernel and any store, so its theorems cover
every call that can come about; run `launch` has those that do. (Its `.cfg` has a
view: once the decomposition has begun, states that differ only in how `main` came
to call it are one, because nothing later depends on that.)

**NcopyCsr** keeps a copy as the sequence of its nonzeros. A copy is scattered
from the one before a nonzero at a time (`TakeRemapShard`, `Move`), sorted per
shard into the temporary slab, copied back in stripes, and given its row
pointers a shard per thread (`TakeRowShard`, `WriteRowPtr`, `CloseRowPtr`): the
entry between two shards is written by both threads. Memory nobody has written
to holds `Fresh`, which is no index, so an entry read before it is written is
noticed. The kernel goes by rows (CSR), by runs (fiber) or by single nonzeros
(element), as `sorted` and `csr` say; the kernel text the JIT emits for CSR has
the same steps.

**Morton.** A mask is the set of its bit positions, and `Pdep` and `Pext`
compute what the instructions of those names, and the loops that stand in for
them, compute. The radix partition is a nonzero at a time per thread, the
offsets one step of one thread, a bucket's sort any order `std::sort` may leave.
A value is the nonzero it belongs to, so a value that loses its key is visible.
(`NumModes`, `Stale`, `MortonInit`: the names differ from other modules' because one
proof module extends `Morton`, `CpAls` and `JitCache`.)

**StoragePlan / Launch.** Bytes are small numbers and a rank is counted in units
of 16 columns, which keeps every comparison of the planner a comparison. What
other processes hold (`Others`) is chosen anew at every measurement. A step of
`Launch` is a decision of `main` or of a function it calls, with its exit code;
the slabs behind `primary` and `held` are the subject of `TensorSlabs`. (`at` is the
step, `NumModes` the number of modes; the names differ from the other modules'
because one proof module extends `Launch` and `FlycooBuild`.)

**JitCache** tells a library by what it holds (`absent`, `torn`, `bare`, a
kernel) and by whose linker made it, because a linker unlinks its output's name
before it writes: a process that is still linking then finishes a file without
a name. A killed process leaves what its compiler was writing, or an orphan
that finishes it. `Kill` is followed by a new process in its place. The file
names of distinct kernels are distinct by `KeyAssumption`; of a Morton kernel the
name has a 64-bit digest only, so this excludes a collision of digests. All
processes are of one build (the same compiler flags and headers, which the name
does not cover), the directory is empty when the first of them starts, and half a
library is taken not to load.

**TnsText / DnbCache.** A text is a sequence of tokens (characters of a line,
newline, blank, comment, a line no parser takes). The parsers are functions;
what they do is checked in every state for the text at hand. A file is an inode
with the pieces written so far; names point to inodes, so that a `remove` or a
`rename` under an open file is what it is on POSIX. The clock has the
granularity of `st_mtime` in seconds. `fclose` may lose the last piece
(its result is unchecked in the code).

## 4 Runs

Every run names its constants in its `.cfg`; nothing in a module is replaced.

| Run | Instance | Shows | Why the bound is enough |
|---|---|---|---|
| `sweep` | 5 nonzeros, 3 modes, 2 threads | `ScatterComplete`, `NoSlotRace`, `RowExclusive`, `FiberOrder`, the inductive `SweepInv`, and that the sweep implements `Mttkrp` (with liveness: a call returns) | one mode of each kind of kernel and fiber sort; a row with three nonzeros, an empty shard, untouched rows, a thread with two shards and one whose shards are out of order. The calls go round for ever, so errors that show one sweep later are reached. Theorems cover the rest |
| `flycoo_build` | every tensor of 3 nonzeros in 3 x 4 rows (repeated coordinates too), 12 nonzeros in unequal shards, every mode size and thread count up to 5 of a 7-bit `idx_t`; 3 workers | `ShardsCover`, `ScatterPrivate`, `TablesExact` (remap plan, touched rows, schedule), `LptBound` (Graham), `Handover` (the slab `process(0)` gets) | more workers than nonzeros in a chunk; loads that LPT does not balance perfectly; all shapes around powers of two. `MaxSize` is the largest size below the wrap of the 32-bit sum (see hazards) |
| `slabs` | 3 modes, all layouts, densities, drivers, and switches (at most one of `DYN_FIBER_OFF`, `--all-modes`, `--verify`) | `SlabsSound` (ownership, distinct blocks), `ReadsValid`, `FlagsTruthful`, `SteadyFootprint` | three modes are an odd number of swaps, a middle copy, and an end of the remap chain. Theorems cover the rest. The command lines and densities for which the code is known not to hold (`Supported`, section 5) are left out of this run: they are in the next one, in section 6, or in hazards with a note |
| `slabs_dangling` | mode 0 dense, mode 1 not | a disagreement (section 6): `CompactLeavesNoDangling` is violated | |
| `all_modes` | 2 modes, 5 nonzeros, 4 threads, chunks of 3 | `IInv`, and that the driver implements `MttkrpAll` (a call ends, all or nothing) | a short last chunk, threads without work, rows that do not fill a cache line, garbage in fresh memory. Theorems cover the rest |
| `inplace` | 5 nonzeros, 4 modes, 2 threads | `ColumnsAligned`, `SwapsSafe` (and disjoint cursors), `KernelOrder`, and `Mttkrp` implemented, with liveness | two fiber modes (one with an empty shard), one sorted by shard only, one with a single shard; either path may be taken at each call. Theorems cover the rest |
| `ncopy` | 5 nonzeros, 3 modes (2 dense), 2 threads, every setting of the three switches | `CopiesReady`, `RowPtrAgreed`, and `Mttkrp` implemented, with liveness | a row of three nonzeros, an empty shard between two others, a last shard cut off by the end of the mode, rows without nonzeros before, between and after others; threads that share a row pointer are in every order |
| `morton` | 2 modes, 5 nonzeros, 4 threads, keys of 5 bits, 4 buckets | `ZOrder`, and `MttkrpAll` implemented | plans that use all bits, that serve one mode longer than the other, that do not fit; a mode of one row; nonzeros with equal keys; a thread with a short and one with an empty slice; garbage in fresh outputs, a call without memory |
| `jit` | 2 processes, 3 threads, 2 kernels, 1 death | `OneShellOut`, `StatsTrue`, `KernelTable` implemented, `QueryReturns` | two threads of one process and one of another ask for the same kernel; any file may be half written, unlinked or left over (by these processes: the directory is empty at first) when another thread looks. Theorems cover any number of each |
| `launch` | 3 modes, 60 units of memory of which others hold 0, 6, 10 or 24; the options that interact, `DYN_LAYOUT`, `DYN_OOC`, and three kinds of tensor; 3 iterations of ALS | `DriverFitsTensor`, `RequestKept`, `PlanFits`; `SystemConsistent`, `FitOfModel`, `OnePass` | at the plan that populates the tensor the four amounts let each layout be the fastest that fits, and none fit; the amount is chosen anew at each of the plans. With three modes "already updated", "being updated" and "not yet updated" factors exist at once; convergence is first possible in the second iteration. Theorems cover the rest |
| `launch_clamp` | the instance of `launch` | a disagreement: `ClampPreventsCrash` is violated | |
| `dnb` | 5 texts, 3 parser threads, 1 process that loads again and again, 2 clock ticks | `MmapMatchesSerial`, `LoadedWhole`, `CrashLeavesNoTornCache`, `MissesOnlyEditsDuringSave` | ticks before and after an edit suffice for every order of two modification times; the texts make the ranges fall inside lines, on newlines, behind the last line and on comments |

The deadlock check is off where the program ends: in `flycoo_build`
(preprocessing is done), `launch` and `launch_clamp` (`main` has returned), and in `morton`, whose build may refuse the tensor.

**Fairness.** `RemapSweep` and `InPlaceSort` assume weak fairness of the driver
and of *each* thread: an OpenMP team runs to its barrier because the operating
system schedules every thread, and no thread waits for another inside a region.
`AllModes` assumes weak fairness of its steps other than the start of a new
call: within a call some enabled step is taken. `NcopyCsr` assumes weak fairness
of the driver and of each thread's kernel, `Morton` of the driver's steps
together, `JitCache` of each thread that is inside a request: it runs, the
compiler it waits for ends, and the mutex has at most one holder, who is such a
thread too. Nothing is assumed of the environment: nobody has to call, reads
need not succeed, compilers may fail, and builds (of copies, of keys) need not
be under way. The other specifications have no fairness; the properties checked
of them are safety.

**The `MissesOnlyEditsDuringSave` window.** The freshness test compares
modification times in whole seconds and takes `>=`; the property says exactly
which edits it can miss (those made after the text was read and no later than
the second in which the cache was written), and that it misses no other.

**Two processes.** `dnb` has one process at a time. With two that save at once,
TLC finds (on `DnbCache` with two members of `Proc`; no run of the project)
that neither `CrashLeavesNoTornCache` nor `LoadedWhole` holds: both use one name
for the temporary file, so the second `fopen(.., "wb")` truncates what the first
is writing or about to rename. The loader's length check rejects a file that is
short, but not one with a hole in its middle, nor one that holds the values of
one version and the indices of another of the same size.

## 5 Proofs

TLAPS proves for *all* values of the constants that satisfy the named
assumptions (`ShapeAssumption`, `TensorAssumption`, `OwnerAssumption`,
`KernelAssumption`; `SizeAssumption`, `TensorAssumption` of `AllModes`;
`CpAlsAssumption`; `KeyAssumption`; `PlanAssumption`, `LaunchAssumption`;
`MortonAssumption`; `IoAssumption`, `CacheAssumption`, `HoleAssumption`; `NcopyAssumption`;
`SlabAssumption`; `GeometryAssumption`, `TeamAssumption`, `JobAssumption`): any
number of modes, threads, nonzeros, any geometry, *any* assignment of shards to
threads, any choice of kernels and of dense modes; any number of iterations, processes and deaths;
any sizes, budgets and command lines; any width of `idx_t` or of a key, any team. TLC evaluates
the assumptions on the instances. That what the preprocessor computes is of the form
the sweeps assume is itself proved (`ShardsAlwaysCover`, `TablesAlwaysExact`,
`HandoverIsStable`).

| Module | Theorem | Establishes |
|---|---|---|
| `FlycooProofs` | `ReserveDisjoint` | the slots reserved for two (thread, next shard) pairs are disjoint |
| `RemapSweepProofs` | `Invariance`, `TypeCorrect` | `Spec => []IInv`, `Spec => []TypeOK` |
| | `SlabAlwaysGrouped`, `ScatterIsComplete`, `NoScatterRace`, `RowsExclusive` | the four safety properties of the parallel pass |
| | `OrderInvariance`, `FibersContiguous` | `Spec => []SweepInv`; the fibers are contiguous while the fiber kernel runs |
| | `SweepImplementsMttkrp` | every step is a step or a stutter of `Mttkrp` |
| `InPlaceProofs` | `Invariance` | `Spec => []IInv` for the in-place sweep |
| | `ColumnsStayAligned`, `SwapsAreSafe`, `KernelReadsInOrder` | the three safety properties of the in-place sweep |
| | `InPlaceImplementsMttkrp` | every step is a step or a stutter of `Mttkrp` |
| `DnbAllModesProofs` | `CopiesDisjoint` | the private copies carved out by `ofib_off` never overlap |
| | `AllModesCorrect`, `AllModesType`, `SlicesAlwaysPartition` | `[]IInv` and the safety properties |
| | `AllModesImplements` | every step is a step or a stutter of `MttkrpAll` |
| | `ParsersAlwaysAgree` | the parallel parser reads what the serial one reads, for every text and number of threads, and accepts every file of nonzero lines, each with its newline |
| | `LoadsAreWhole`, `CacheNeverTorn`, `OnlyEditsDuringSaveMissed` | the three properties of the cache, for one process that loads and dies any number of times |
| `CpAlsMortonJitProofs` | `SystemAlwaysConsistent`, `FitAlwaysOfModel`, `AlwaysOnePass` | the three properties of the decomposition |
| | `JitTypeCorrect`, `CompiledOnce`, `StatsAddUp` | types with the mutex's holder; one compile per kernel and process; the statistics add up to the table |
| | `JitImplements` | every step is a step or a stutter of `KernelTable` |
| | `MortonCorrect`, `MortonZOrder` | `MortonSpec => []MortonInvariant`; after the build every nonzero is there once, the keys ascend, the rows can be read back |
| | `MortonImplements` | every step of the build and of the driver is a step or a stutter of `MttkrpAll` |
| `BuildLaunchProofs` | `ShardsAlwaysCover` | the shards `pick_mn` chooses cover the rows and leave two per thread to schedule |
| | `ScatterNeedsNoAtomics` | no two workers of the parallel sort are about to fill one slot |
| | `TablesAlwaysExact`, `HandoverIsStable` | ranges, cursors, bitmaps and schedule are the closed forms; the slab is stably sorted by mode-0 shard |
| | `ScheduleWithinGraham` | the heaviest thread has at most 4/3 - 1/(3P) of the best schedule's heaviest load |
| | `LaunchTypeCorrect`, `DriverAlwaysFits`, `RequestAlwaysKept`, `PlanAlwaysFits` | the properties of the launch |
| `SlabProofs` | `Invariance` | `Spec => []IInv` for the memory of the tensor |
| | `SlabsAreSound`, `FlagsTellTheTruth`, `FootprintAsPlanned` | ownership and distinct blocks; the flags; the footprint of each layout |
| | `EveryReadValid` | no read of a freed, dropped or unsorted slab, for the command lines of `Supported` |
| `NcopyProofs` | `CopiesAlwaysReady`, `NeighboursAgree` | every populated copy is grouped, and row pointers are exact; the two writers of a shared entry agree |
| | `NcopyImplementsMttkrp` | every step of the build and of `process` is a step or a stutter of `Mttkrp` |

**The argument for the sweep.** `SlabGrouped` and `RowExclusive` are not
inductive: that the slab of the *next* call is complete depends on what each
thread has scattered so far in *this* one. The invariant `IInv`
(`RemapSweepInv`) is therefore about every instant of the pass. Its centre is
`Placed`, the nonzeros whose slot no thread has left to visit. `YhatInv` says
that a nonzero counts once in its row, or in the registers of the thread that
holds the row, exactly if it is in `Placed`. `CursorInv` says that a cursor has
advanced by the number of nonzeros of its group that are placed, and
`ScratchInv` that they lie below it in the scratch slab. Since
`ThrOff` reserves exactly as many slots as the group has nonzeros
(`ReserveDisjoint`, and the cardinality lemmas of `FlycooProofs`), cursors do
not meet, and at the barrier `Placed` is the whole tensor, so the scratch slab is
grouped for the next mode (`BarrierFacts`). `ThreadInv` ties a thread's slots to the
shards of its list; a row lies in one shard and a shard in one list, which gives
`RowExclusive`. `SortInv` says that the fiber sort has moved nonzeros only
inside their shards.

`OrderInv` adds where the order is. A single pass sorts into the scratch slab and
swaps; two passes sort into the scratch slab by the gathered row and back by the
output row, without a swap. `PassOrder` says of each pass which shards, of which
slab, are in which order: that the second pass keeps the first one's order within
a row is stability (`SortedOrder`: equal keys come from slots in the same order).
`SweepOrder` says that from the end of the sort to the barrier the order is in the
slab the kernel walks. A row lies in one shard, so slots with its nonzeros have
nothing else between them (`FibersContiguous`).

**The argument for the preprocessor.** `BuildInv` (`FlycooBuildInv`) says of each scan
what a worker has counted. `Counted` gives a worker's histogram as cardinalities over
its chunk; chunks tile the slab (`ChunksTile`, which needs the clipping by `min` when
there are more workers than nonzeros), so that a sum over workers is a cardinality over
the slab (`ChunkSum`) and a sum over shards one over the shards below (`KeySum`). Hence
`ShardMajorIs`: the cursor of worker `w` for shard `s` is the number of nonzeros that
come before slot `pos[w]`'s in the stable order, were that slot's nonzero of shard `s`
(`Lower`). `ScatterInv` keeps it so while the worker advances, and says which targets
hold what. `Target` is injective and onto the slab (`TargetsAll`), so cursors of two
workers differ, and after the barrier the slab is the stable order (`PartInv`). For the
schedule `PlacedOnce` says that a listed shard is no longer to do, is on no other
list, and is at least as large as what is still to do; when nothing is, every nonempty
shard has one owner. `Spread` does for the histograms of the remap plan what `Counted`
did for the sort, and the same two lemmas turn their sums into `ThrOff`.

`GreedyInv` carries Graham's bound: as soon as it is assigned, a thread's load `l` plus
the new shard's size `c` is within (4P - 1)/(3P) of `M`, the heaviest load of any
schedule `f` of all the shards. If `3c =< M`, averaging gives it (`PartsSum`): the least
loaded thread has at most a `P`-th of what has been placed, and `f` fits everything
into `P * M`. If `3c > M`, the load even stays within `M` (`LargeFits`): every placed
shard is at least as large as this one, so `f` has at most two of them on a thread, and
none beside a shard of `M - c` or more. Suppose `l + c > M`. Then the placed shards leave
no thread empty, and a shard alone on its thread is that large. Count a shard once, and
once more if it is alone: the placed ones make at least two for each of the `P` threads,
the new one makes one more, and `f` has at most two on each of as many threads.

The five theorems have the hypothesis `NoWrap`: `mode_size + kMaxRows` is at most
2^32. Without it `(mode_size + mn - 1)` may wrap in `shards_per_mode` and the mode has
too few shards (a hazard in `PROJECT.json`); a mode of that size has more than
4 294 950 912 rows. TLC evaluates on run `flycoo_build`, whose sizes reach the bound of
a 7-bit `idx_t`, that its calls meet the hypothesis (`JobsDoNotWrap`).

**The argument for the one-pass drivers.** `CountedOnce` and `WholeNonzeros` say
that a nonzero is in the block of exactly one thread, whole or not at all, as
soon as that thread's position has passed it; `ClearedBlocks` removes the
garbage before; `ChunkLoaded` keeps the stale tail of the buffer out of the
slices; `PartialSums` carries the reduction. `CopiesDisjoint` needs that offsets
grow with the mode; its proof is an induction over modes, stated for a *set* of
naturals so that no theorem with an operator parameter is needed.

**The argument for the in-place sweep.** The columns of a nonzero are in
different places while path (b) runs, so no slot has a nonzero to speak of.
`InPlaceInv` instead names, for every slot, where its nonzero is going: `Dest` is
the slot's class offset plus its `Rank` among the slots of the class, a
permutation of the slots (`RankOnto`). A column that has been moved is the old
one under that permutation, one that has not been is the old one, and the one in
motion lies in the slab or in the scratch column; the cursors of two threads meet
nowhere because ranks do not (`CursorsNeverMeet`). Path (a) keeps all columns
together, so it needs only that the nonzeros are some arrangement; `Filling` says
which slots of each class are final, and every swap leaves those alone. In the
row sorts `RowJobs` says which shards have been handed out: two threads are in
different shards, hence their swaps are of different slots. The kernel's part,
`KernelInv`, is that of the other sweeps.

**The argument for the memory.** `SlabsSound` says nothing of *which* pointer owns
a block, and no free or relabelling can be judged without it. `SlabInv` has a
part for each layout that lists the owners at each step (`Owned`): `Home(n)` is
the raw pointer that owns copy `n` before compaction, which depends on whether the
slabs were swapped (in the process that parsed the tensor) or never were (in one
that loaded the file), and `Packed` says which copies have left it. `Present`,
`Filled` and `Passed` follow the loop that fills the copies and the one that sorts
and compacts them. `FileInv` says that the flags in a complete `.dnp` file are true
of the slabs in it, which is what a later process starts from. `PassInv` is about
the drivers: under PingPong the slab is sorted for the mode `process` is called
for, and no driver meets a layout it cannot read.

`EveryReadValid` has a hypothesis, `AllSupported`, because without it the property
is false of the code. It leaves out: a Morton tensor, or a tensor loaded from a
file, for a driver other than CP-ALS or without memory for the private outputs
(`process` reads null columns); PingPong files (no scratch slab, section 6); compacted copies
with `DYN_FIBER_OFF` or with a reference run (they read the dropped columns);
compaction with mode 0 dense and mode 1 not (run `slabs_dangling`). TLC
evaluates that the command lines of run `slabs` satisfy it (`AllOptionsSupported`).
The other theorems about the memory have no hypothesis.

**The argument for the decomposition.** `CpAlsMortonJitProofs` says of every matrix, at
every step of an iteration, which update it holds: modes before `n` have been
updated in this iteration (`FactorInv`), every Gram matrix is of its factor but
for the one being updated (`GramInv`), and under Gauss-Seidel `Yhat[n]` is of the
other factors as they are (`YhatInv`), because the slab is always arranged for
the mode that comes next (`TurnInv`). Under Gauss-Seidel the two sides of a solve
then agree; under Jacobi the matrix of the solve is still of the factors as they are,
which are of two iterations, and the right-hand side is of the factors before. At the
end of an iteration `New` becomes `Old`, and `n` starts again; the norm and `lambda` of
the fit are then of the model as it is returned.

**The argument for the JIT cache.** `FilesNamed` is what survives everything
the processes of one build do to the files: a file holds the kernel its name says, or none. The
mutex makes `Unsettled` hold (a kernel being settled is settled by nobody else),
and `ShellsPaid` charges each call of the compiler to a settled kernel or to the
thread that is about to settle it, which gives `CompiledOnce`. `StatsPaid` does
the same for the counters; it counts table entries, so its proof is about
cardinalities.

**The argument for the Morton layout.** `ZOrder` speaks of the finished layout, when
the rows are gone; `MortonInvariant` follows the nonzeros there, in three parts.

*Reading back.* `PlanInv` follows the deal of bit positions: no position is given
twice, no mode gets more than `CeilLog2` of its size, and until all have theirs
every position is given. The positions are then as many as `BitsNeeded`, which fits
the key, and sums of the modes' counts that are bounded one by one and equal in total
are equal one by one (`SumsTight`), so each mode has all its bits (`PlanFits`). The
ranks of a mask's positions have no gaps (`Ranks`), so `Pext` finds bit `k` of a row where
`Pdep` put it; that a number is the sum of its bits is `WordOfBits`, and its converse
`BitsOfWord` needs that the modes' masks are disjoint. `RoundTrip` is the sum of these.

*Partition.* `Target(i)` is the number of nonzeros before `i` in the stable order by
bucket. As in the preprocessor, histograms sum up to cardinalities (`TotalIs`,
`BaseIs`, `OffsetIs`), a cursor is the target of the thread's next nonzero of its
bucket (`ScatterInv`, kept by `PositionStep`), and targets are injective and onto
(`TargetInjective`, `TargetsAll`), so nothing is overwritten and nothing left out.
A bucket's range is exactly the slots of its keys; a sort permutes inside it
(`SortInv`), and ranges ascend with buckets, which are the keys' high bits
(`BucketOrder`), so the whole array ascends (`Sorted`).

*Driver.* A thread's private outputs hold the nonzeros of the slots it has gone past
(`Added`); slices tile the slots, so over the threads every nonzero counts once
(`SumExact`), whatever the fresh memory held, because `ZeroInv` precedes.

**The argument for the launch.** There is no loop, but the properties relate
decisions made far apart: `TensorSteps` carries what is in memory, and that the
primary slab is missing only from a tensor that is streamed, from a Morton one, and
from one populated as NCopy (layout NCopy or, unclamped, OutOfCore) and compacted;
`WordsKept` is what is left of the user's words after `setenv`, in particular that the
layout is OutOfCore when the user asked for it; `Chosen` is why the kernel and the
driver are what they are. `DriverAlwaysFits` therefore has two exceptions, which
`Stranded` names: a driver that reads the primary slab has it unless the tensor is
Morton, or in memory and marked OutOfCore, compacted, and driven without `cpals`.

**The argument for the parsers.** The ranges of `load_tns_mmap` are cut between lines:
`Align` is monotone in the offset and its result is a newline or the end of the file,
so ranges ascend and cover the data (`ChunkStarts`), and a line that starts
in a range is found there as the serial parser finds it (`HeadsWithin`). In a range
that is as pass 1 counted it, a thread's offset is the number of data lines before the
range (`OffsetsAre`), so the k-th line it finds is line offset + k of the file (`NthIs`),
and offsets tile the tensor (`TofIs`). That is the half about accepted files. For the
other half, in a file of nonzero lines the map from a newline to the start of its line is
a bijection inside every range (`LinesHaveHeads`), so every count is met; such a file
ends with a newline. Of the texts nothing is
assumed but that they are sequences; the theorem needs neither `OneProcess` nor
an invariant of the cache beyond the texts' origin (`TextInv`).

**The argument for the cache.** The theorems on the cache take `OneProcess`, the only case in
which they hold (section 4). The pieces of a file are of one tensor
(`OneVersion`), for a file is truncated before it is written; the two names never
name one file (`TwoFiles`), so a writer never touches the cache; and what gets
the cache's name has been closed (`CacheClosed`). For the age of a cache, `Pasts`
says that nothing is newer than the clock, and `Contents` that a file whose text
was read at `r` holds the present tensor unless an edit came at `r` or later: an
edit the test misses therefore lies between the read and the last write.
`HoleAssumption` says that what was never written is no tensor.

**The argument for the NCopy build.** `NcopyInv` has a part for each loop. While
copy `mode` is filled, `Moved` plays the part of `Placed`: cursors have advanced
by, and the copy holds, what has been moved (`RemapInv`), and no two cursors
meet; a slab that holds every nonzero holds nothing else, neither `Fresh`
(`FullSlab`) nor anything twice (`OntoGrouped`). `SortInv` follows the sort shard by
shard and the copy-back stripe by stripe: sorted shards in shard order make a
slab in row order (`SortComplete`), and the stripes cover it (`StripesCover`). The row
pointers rest on one observation, `BelowSlots`: in such a slab the slots of rows
below `r` are exactly the first `Below(n, r)`, so a thread's position at the start
of row `r` *is* `Below(mode, r)` (`ScanInv`, `PastRowBelow`), at a shard's first row
because shard boundaries are row boundaries (`ShardBelow`), and at its clipped or
empty end for the same reason. Hence every value written, by whomever, is
`Below(mode, r)` (`RowPtrSound`), which is `NeighboursAgree`; `ScannedInv` says that
no row is left out.

For `process` over the finished copies `Left(t)` is what thread `t` has still to
add: shards it has not begun, and what remains of the rows (with row pointers) or
of the slots (without) it is in. `Server(t)` says which shard that is, and that a
thread holding a row in registers has loaded what `Yhat` holds of it and stands at
a run of slots of that row alone; with row pointers the run is the row because the
copy is in row order (`OrderedInv`, which the build must still establish before it
marks a table as complete). `OutputInv` is about single cells: a nonzero is in no
row but its own, and in its own exactly when it is no longer `Left` to its owner.
Adding a run is a sum over its slots, which picks out each nonzero of the row once
(`RunSum`), and rows of two threads differ because their shards do (`RowsApart`).
When every thread has returned nothing is left, so each row is the one `Mttkrp`
promises.

**What is only model-checked.** Every safety invariant and every action property of the
passing runs is stated by a theorem. What stays with TLC is the liveness half of the refinements
(a call returns), `QueryReturns`, and everything about ENABLED: out of the prover's reach.
Induction over data through the library's theorems with operator parameters, and
RECURSIVE operators, are not available to the prover; no module here declares one.

## 6 Disagreements between code and documentation

Two have a run of their own, whose property states what the documentation says
and which TLC refutes on the model of the code (`findings` in `PROJECT.json` has
the quotations):

- `slabs_dangling`: compacting NCopy copy 0 frees the slab `T.vals` points into
  when copy 1 is not compacted.
- `launch_clamp`: `--layout ooc` without `cpals` is clamped on a local copy
  (`main:457`) and exported unclamped (`main:592`). The tensor is marked OutOfCore,
  populated and compacted as NCopy, and driven as PingPong, on a primary slab that
  is gone; `main:440` says that the clamp keeps this from crashing.

Observed as well while modelling. The models have the code's behaviour in each
case, unless section 7 or a hazard's note says that the case is left out:

- **`.dnp`**: a PingPong file loaded with `--runtime` gets no scratch slab
  (`dnp:497`), which the sweep needs, though `dynasor_dnp.h:134` says that the
  tensor is ready for `spmttkrp_dynasor`.
- **CP-ALS**: under Jacobi the inner product of the fit is taken with a `Yhat` of
  the factors before the iteration (`cpals:333`), for which the identity of
  `dynasor_cpals.h:34` does not hold: `final_residual` is not `|| T - M ||`, and
  the fit that decides on convergence not the model's. The Gram product of a later
  mode holds matrices refreshed earlier in the same iteration (`cpals:298`), while
  `dynasor_cpals.h:64` suggests sub-problems of the snapshot alone. A failed out-of-core pass
  returns 0.0, which is taken for its time (`cpals:272`), and the iteration goes
  on with old outputs.
- **Text**: a last line without a newline that reaches back over the last
  thread's range is parsed but not counted (`io:1073`). The parallel parser takes
  lines with surplus tokens that the serial one rejects, and both differ on
  comments between the data (the parallel one then gives up and the serial one is
  used, which `dnb` covers).
- **Cache**: the out-of-core path opens a `.dnb` without the freshness test, and
  two writers of a `.dnb` share a temporary name, so that a torn cache can be
  loaded (section 4).
- **Kernels**: the element kernel selected by `DYN_FIBER_OFF` reads a column that
  compaction dropped; `--layout morton` without `--decompose cpals` runs a sweep
  on null columns.
- **Planner**: the plan after the load can still say OutOfCore (`DYN_LAYOUT=ooc`
  without a `.dnb`), contrary to `dynasor_common.h:198`; the tensor is then
  populated as NCopy, whatever the budget. `dyn_build_compute_plan` plans once
  more with the memory left after the load, so a Gauss-Seidel the user asked for
  can be overridden by a plan that no longer matters (`RequestKept` says when it
  is kept). For an NCopy tensor with a compacted primary slab it picks Jacobi,
  although the driver then falls back to per-mode passes, the case the comment at
  `preprocess:1268` wants to avoid. The plan before the load counts the rank
  asked for, the one after it a fixed 64 columns, so a launch may load a tensor
  and only then give up. `morton` is an unknown word to the planner. The clamp
  for the standalone benchmark compares `"ooc"` case-sensitively (`main:451`),
  the planner does not. A measured 0 bytes is taken for "not known".
- **JIT**: hits are documented as lock-free (`dynasor_jit.h:72`, `jit:430`) but
  take the mutex. A library's name does not cover the compiler flags or the
  headers, so it outlives both; half a library left by a killed compiler is never
  compiled again, its kernel is "none" in every later process; and a process that
  opens a source for writing can empty it under another's compiler, which gives
  a library without the entry symbol (`bare`). The last two yield no wrong kernel
  (`JitImplements`); a library that outlives the flags or headers it was built with
  may, which the model leaves out (section 3).
- **Morton**: `dynasor_morton.h:57` says the in-place scratch is freed with the
  slabs; the code keeps it. Buckets are the top 8 of 64 key bits, so for plans of
  up to 56 bits all keys are in bucket 0 and the sort after the partition is
  serial. Without memory for its private outputs the driver falls back to one
  that falls back to `process()`, which reads null columns; `Morton` ends the call
  there.

## 7 What is not modelled, and what could follow

| Part | Why not |
|---|---|
| Serial parser details (header, number syntax, buffer growth), option parsing (names of kernels, `DYN_CP_KERNEL`, `DYN_ALL_MODES`), reports | wording and formats; no property here depends on them |
| Dense linear algebra, SIMD wrappers, reference kernel | floating-point numerics; `Mttkrp` states what the reference kernel computes |
| The text of the kernels the JIT emits | `JitCache` is about which kernel is handed out; their loops are those of `NcopyCsr` and `Morton` |
| A JIT directory with libraries of an earlier build, or of other compiler flags | `JitCache` starts from an empty directory; nothing in a file's name tells such a library from a good one |
| Tools, generators, build files | no state of the program |
| An OpenMP team smaller than `num_threads`, memory exhaustion in `std::vector`, signals inside a region | outside the models: `P` threads are always there |
| Integer widths other than the shard geometry's (`nnz` beyond 2^31 in byte counts, say) | 64-bit arithmetic on sizes that fit |

Of what the runs check only liveness is unproved (section 5); what would come next are
parts of the table above, and an `OneProcess` that the code could enforce (section 4).

## Running

    tlc -workers 2 -config MCRemapSweep.cfg MCRemapSweep
    tlapm RemapSweepProofs.tla

The largest runs (`slabs` with 580 402 distinct states, `dnb` with 1 168 140,
`launch` with 253 193) take up to a minute; so do the larger proofs.
