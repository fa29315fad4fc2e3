----------------------------- MODULE TensorSlabs -----------------------------
(***************************************************************************)
(* Who owns the memory of a Tensor.  main builds the tensor and picks its  *)
(* layout, may write it to a .dnp file, runs a driver on it and exits; a   *)
(* later process may load the file with --runtime.  The model keeps the    *)
(* raw buffers and the pointers carved out of them apart, as the code      *)
(* does: buf_raw and its kin own a block, while vals / idx_buf, scr_vals / *)
(* scr_idx and ncopy_vals / ncopy_idx only point into one.  Of a block's   *)
(* content it keeps the order of the nonzeros and the index columns.       *)
(***************************************************************************)
EXTENDS Integers, FiniteSets, Functions

CONSTANTS
  N,          \* num_modes
  Options,    \* the command lines
  Densities(_)  \* the sets of DenseFiber modes of the tensors a command line
                \* is given

Mode    == 0 .. N - 1

Succ(n) == (n + 1) % N

\* What a command line and the environment say of the slabs.
CommandLine ==
  [layout : {"PingPong", "NCopy", "InPlace", "Morton"},
   fiberSort : BOOLEAN, csr : BOOLEAN, compact : {"off", "auto", "on"},
   fiberOff : BOOLEAN, driver : {"mttkrp", "cpals-gs", "cpals-jacobi"},
   allModes : BOOLEAN, verify : BOOLEAN, save : BOOLEAN, runtime : BOOLEAN,
   ofibsFail : BOOLEAN]   \* no memory for the private outputs

ASSUME SlabAssumption ==
  /\ N \in Nat \ {0, 1}
  /\ Options \subseteq CommandLine
  /\ \A o \in Options : Densities(o) \subseteq SUBSET Mode

VARIABLES
  pc,          \* the step of main the process is at
  opt,         \* its command line and environment
  dense,       \* the modes with kernel_class[n] = DenseFiber
  k,           \* the loop index of the step (a mode or a copy)
  heap,        \* heap[b]: order and columns of the live block b
  next,        \* blocks allocated by this process so far, plus one
  own,         \* own[h]: the block raw pointer h owns, Null if none
  vals, scr,   \* the blocks T.vals / T.idx_buf and T.scr_vals / T.scr_idx point into
  ncopy,       \* ncopy[n]: the block ncopy_vals[n] / ncopy_idx[n] point into
  layout,
  fiberSorted, \* the modes with ncopy_fiber_sorted[n]
  csr,         \* the modes with ncopy_csr[n]
  sortedMode,  \* inplace_sorted_mode
  dnp          \* the .dnp file

slabs == <<heap, next, own>>
views == <<vals, scr, ncopy>>
flags == <<layout, fiberSorted, csr, sortedMode>>
vars  == <<pc, opt, dense, k, slabs, views, flags, dnp>>

Null == 0

Raw == <<"raw", 0>>          Scratch == <<"scratch", 0>>
SortTemp == <<"sort", 0>>    InplaceScr == <<"inplace", 0>>
MortonBuf == <<"morton", 0>>
NCopyRaw(n) == <<"ncopy", n>>
Compact(n)  == <<"compact", n>>
Rowptr(n)   == <<"rowptr", n>>

Handle == {Raw, Scratch, SortTemp, InplaceScr, MortonBuf}
            \cup {NCopyRaw(n) : n \in Mode}
            \cup {Compact(n) : n \in Mode} \cup {Rowptr(n) : n \in Mode}

\* The order of a block's nonzeros: as parsed, grouped by the shards of a
\* mode, or by its rows (fibers).
Junk     == <<"junk", 0>>
Input    == <<"input", 0>>
Shard(n) == <<"shard", n>>
Fiber(n) == <<"fiber", n>>

Full(order) == [order |-> order, cols |-> Mode]
Bare(order) == [order |-> order, cols |-> {}]

NoOption == <<>>
NoFile   == [state |-> "absent"]
TornFile == [state |-> "torn"]

Live(b) == b \in DOMAIN heap

\* The blocks f, and b with this content.
With(f, b, content) ==
  [x \in DOMAIN f \cup {b} |-> IF x = b THEN content ELSE f[x]]

\* A new block for raw pointer h.
Alloc(h, content) ==
  /\ heap' = With(heap, next, content)
  /\ own' = [own EXCEPT ![h] = next]
  /\ next' = next + 1

Without(blocks) == Restrict(heap, DOMAIN heap \ blocks)

\* Mutant: the raw pointer of a freed block is not set to null.
ReleasedKept(h) == own

Released(h) == [own EXCEPT ![h] = Null]

Fresh == /\ heap = <<>> /\ next = 1 /\ own = [h \in Handle |-> Null]
         /\ vals = Null /\ scr = Null /\ ncopy = [n \in Mode |-> Null]
         /\ layout = "PingPong" /\ fiberSorted = {} /\ csr = {} /\ sortedMode = 0

-----------------------------------------------------------------------------
Init == /\ pc = "start"
        /\ opt = NoOption
        /\ dense = {}
        /\ k = 0
        /\ Fresh
        /\ dnp = NoFile

(* A process starts: on a tensor of whatever shape, or on a .dnp file. *)
Start ==
  /\ pc = "start"
  /\ opt' \in Options
  /\ IF opt'.runtime
     THEN pc' = "load" /\ dense' = {}
     ELSE pc' = "parse" /\ dense' \in Densities(opt')
  /\ UNCHANGED <<k, slabs, views, flags, dnp>>

\* The process ends, and the operating system takes its memory back.
Reset ==
  /\ pc' = "start"
  /\ heap' = <<>> /\ next' = 1 /\ own' = [h \in Handle |-> Null]
  /\ vals' = Null /\ scr' = Null /\ ncopy' = [n \in Mode |-> Null]
  /\ layout' = "PingPong" /\ fiberSorted' = {} /\ csr' = {} /\ sortedMode' = 0
  /\ k' = 0 /\ dense' = {} /\ opt' = NoOption

\* exit(1) when an allocation fails, exit(2) when the tensor does not fit,
\* or the process is killed.
Abort == pc # "start" /\ Reset /\ UNCHANGED dnp

-----------------------------------------------------------------------------
(* load_coo_tensor: allocate_elements, then the parser fills the slab. *)
Parse ==
  /\ pc = "parse"
  /\ Alloc(Raw, Full(Input))
  /\ vals' = next
  /\ pc' = "build"
  /\ UNCHANGED <<opt, dense, k, scr, ncopy, flags, dnp>>

EnsureScratch ==
  /\ pc = "build"
  /\ Alloc(Scratch, Full(Junk))
  /\ scr' = next
  /\ pc' = "partition"
  /\ UNCHANGED <<opt, dense, k, vals, ncopy, flags, dnp>>

\* sort_and_count_all: partition into the scratch slab, and swap_buffers.
SortAndCount ==
  /\ pc = "partition"
  /\ heap' = [heap EXCEPT ![scr] = Full(Shard(0))]
  /\ vals' = scr /\ scr' = vals
  /\ pc' = "layout"
  /\ UNCHANGED <<opt, dense, k, next, own, ncopy, flags, dnp>>

-----------------------------------------------------------------------------
(* decide_and_populate_layout. *)
Built == IF opt.save THEN "save" ELSE "ready"

PingPong ==
  /\ pc = "layout" /\ opt.layout = "PingPong"
  /\ layout' = "PingPong"
  /\ pc' = Built
  /\ UNCHANGED <<opt, dense, k, slabs, views, fiberSorted, csr, sortedMode, dnp>>

\* Mutant: the spare slab is taken for the one buf_scratch_raw owns.
SpareScratch == own[Scratch]

\* The slab vals does not point into.
Spare == IF vals = own[Scratch] THEN own[Raw] ELSE own[Scratch]

Kept == IF Spare = own[Raw] THEN own[Scratch] ELSE own[Raw]

\* Free the spare slab; the other becomes buf_raw.
InPlace ==
  /\ pc = "layout" /\ opt.layout \in {"InPlace", "Morton"}
  /\ layout' = "InPlace"
  /\ heap' = Without({Spare})
  /\ own' = [own EXCEPT ![Raw] = Kept, ![Scratch] = Null]
  /\ scr' = Null
  /\ pc' = "inplace"
  /\ UNCHANGED <<opt, dense, k, next, vals, ncopy, fiberSorted, csr, sortedMode, dnp>>

\* The column of sort scratch; without it the sort falls back to serial.
InPlaceScratch ==
  /\ pc = "inplace"
  /\ \/ Alloc(InplaceScr, Bare(Junk))
     \/ UNCHANGED slabs
  /\ pc' = IF opt.layout = "Morton" THEN "morton" ELSE Built
  /\ UNCHANGED <<opt, dense, k, views, flags, dnp>>

SoaSlabs == {own[Raw], own[Scratch]}

\* build_morton_layout: keys and values in a buffer of their own, then the
\* SoA slabs go.
Morton ==
  /\ pc = "morton"
  /\ heap' = With(Without(SoaSlabs), next, Bare(<<"morton", 0>>))
  /\ own' = [own EXCEPT ![MortonBuf] = next, ![Raw] = Null, ![Scratch] = Null]
  /\ next' = next + 1
  /\ vals' = Null /\ scr' = Null
  /\ layout' = "Morton"
  /\ pc' = Built
  /\ UNCHANGED <<opt, dense, k, ncopy, fiberSorted, csr, sortedMode, dnp>>

\* More than 64 index bits, or no memory: main stays on InPlace.
MortonFails ==
  /\ pc = "morton"
  /\ pc' = Built
  /\ UNCHANGED <<opt, dense, k, slabs, views, flags, dnp>>

-----------------------------------------------------------------------------
(* NCopy: copy 0 is the primary slab, copy 1 the scratch slab as the swap  *)
(* left them, copy n >= 2 a slab of its own.                               *)
NCopy ==
  /\ pc = "layout" /\ opt.layout = "NCopy"
  /\ layout' = "NCopy"
  /\ ncopy' = [ncopy EXCEPT ![0] = vals]
  /\ k' = 1
  /\ pc' = "slab"
  /\ UNCHANGED <<opt, dense, slabs, vals, scr, fiberSorted, csr, sortedMode, dnp>>

\* The slab copy 1 takes: where scr_vals points now.
Mate == scr

EnsureNCopySlab ==
  /\ pc = "slab"
  /\ IF k = 1
     THEN /\ ncopy' = [ncopy EXCEPT ![1] = Mate]
          /\ UNCHANGED slabs
     ELSE /\ Alloc(NCopyRaw(k), Full(Junk))
          /\ ncopy' = [ncopy EXCEPT ![k] = next]
  /\ pc' = "remap"
  /\ UNCHANGED <<opt, dense, k, vals, scr, flags, dnp>>

\* do_fs_pass, do_csr and do_compact.  main turns "auto" compaction off
\* under --verify and --all-modes.
FiberPass   == dense # {} /\ opt.fiberSort
CsrPass     == FiberPass /\ opt.csr
CompactPass == /\ CsrPass
               /\ \/ opt.compact = "on"
                  \/ /\ opt.compact = "auto"
                     /\ ~opt.verify /\ ~opt.allModes

\* dyn_remap_shard_only_all from copy k - 1.
Remap ==
  /\ pc = "remap"
  /\ heap' = [heap EXCEPT ![ncopy[k]] = Full(Shard(k))]
  /\ IF k < N - 1 THEN k' = k + 1 /\ pc' = "slab"
                  ELSE k' = 0 /\ pc' = IF FiberPass THEN "temp" ELSE Built
  /\ UNCHANGED <<opt, dense, next, own, views, flags, dnp>>

EnsureSortTemp ==
  /\ pc = "temp"
  /\ Alloc(SortTemp, Full(Junk))
  /\ pc' = "fiber"
  /\ UNCHANGED <<opt, dense, k, views, flags, dnp>>

SkipCopy ==
  /\ pc = "fiber" /\ k \in Mode \ dense
  /\ k' = k + 1
  /\ UNCHANGED <<pc, opt, dense, slabs, views, flags, dnp>>

FiberSortCopy ==
  /\ pc = "fiber" /\ k \in dense
  /\ heap' = [heap EXCEPT ![own[SortTemp]] = Full(Fiber(k))]
  /\ pc' = "place"
  /\ UNCHANGED <<opt, dense, k, next, own, views, flags, dnp>>

\* Mutant: the sorted copy is not copied back.
CopiedBackNot == heap

CopiedBack == [heap EXCEPT ![ncopy[k]] = Full(Fiber(k))]

(* The sorted copy goes back to its slab, and its row pointers are built. *)
CopyBack ==
  /\ pc = "place" /\ ~CompactPass
  /\ heap' = IF CsrPass THEN With(CopiedBack, next, Bare(<<"rowptr", k>>)) ELSE CopiedBack
  /\ own' = IF CsrPass THEN [own EXCEPT ![Rowptr(k)] = next] ELSE own
  /\ next' = IF CsrPass THEN next + 1 ELSE next
  /\ fiberSorted' = fiberSorted \cup {k}
  /\ csr' = IF CsrPass THEN csr \cup {k} ELSE csr
  /\ k' = k + 1 /\ pc' = "fiber"
  /\ UNCHANGED <<opt, dense, views, layout, sortedMode, dnp>>

\* The raw pointer whose block copy n occupies.
Backing(n) == IF n >= 2 THEN NCopyRaw(n)
              ELSE IF ncopy[n] = own[Raw] THEN Raw ELSE Scratch

(* ncopy_csr_compact_copy_k: a slab without column k, row pointers, and    *)
(* the old backing is freed.  Freeing buf_raw nulls vals, freeing          *)
(* buf_scratch_raw nulls scr, whichever of the two points into it.         *)
CompactCopy ==
  /\ pc = "place" /\ CompactPass
  /\ heap' = With(With(Without({own[Backing(k)]}),
                       next, [order |-> Fiber(k), cols |-> Mode \ {k}]),
                  next + 1, Bare(<<"rowptr", k>>))
  /\ own' = [Released(Backing(k)) EXCEPT ![Compact(k)] = next, ![Rowptr(k)] = next + 1]
  /\ next' = next + 2
  /\ vals' = IF Backing(k) = Raw THEN Null ELSE vals
  /\ scr'  = IF Backing(k) = Scratch THEN Null ELSE scr
  /\ ncopy' = [ncopy EXCEPT ![k] = next]
  /\ fiberSorted' = fiberSorted \cup {k} /\ csr' = csr \cup {k}
  /\ k' = k + 1 /\ pc' = "fiber"
  /\ UNCHANGED <<opt, dense, layout, sortedMode, dnp>>

\* Mutant: the sort temp outlives build_flycoo.
KeepSortTemp ==
  /\ pc = "fiber" /\ k = N
  /\ k' = 0 /\ pc' = Built
  /\ UNCHANGED <<opt, dense, slabs, views, flags, dnp>>

FreeSortTemp ==
  /\ pc = "fiber" /\ k = N
  /\ heap' = Without({own[SortTemp]})
  /\ own' = Released(SortTemp)
  /\ k' = 0 /\ pc' = Built
  /\ UNCHANGED <<opt, dense, next, views, flags, dnp>>

-----------------------------------------------------------------------------
(* save_dnp_tensor.  fopen("wb") has destroyed an older file by the time   *)
(* anything can fail.                                                      *)
Compacted == \E n \in Mode : own[Compact(n)] # Null

Image == [state |-> "complete", layout |-> layout, dense |-> dense,
          fiberSorted |-> fiberSorted, csr |-> csr, sortedMode |-> sortedMode,
          slab |-> IF layout = "NCopy"
                   THEN [n \in Mode |-> heap[ncopy[n]].order]
                   ELSE [n \in {0} |-> IF layout = "Morton" THEN <<"morton", 0>>
                                        ELSE heap[vals].order]]

Save ==
  /\ pc = "save" /\ ~Compacted
  /\ dnp' = Image
  /\ pc' = "ready"
  /\ UNCHANGED <<opt, dense, k, slabs, views, flags>>

\* A write error or a compacted tensor: the file is removed, main returns 8.
SaveRejected ==
  /\ pc = "save"
  /\ dnp' = NoFile
  /\ Reset

\* Killed while writing, or the last buffers are lost at the unchecked fclose.
SaveTorn ==
  /\ pc = "save" /\ ~Compacted
  /\ dnp' = TornFile
  /\ \/ Reset
     \/ pc' = "ready" /\ UNCHANGED <<opt, dense, k, slabs, views, flags>>

-----------------------------------------------------------------------------
(* load_dnp_tensor. *)
LoadFlags ==
  /\ dense' = dnp.dense
  /\ layout' = dnp.layout
  /\ fiberSorted' = dnp.fiberSorted
  /\ csr' = dnp.csr
  /\ sortedMode' = dnp.sortedMode

\* No file, a bad header, a short read: main returns 2.
LoadFails ==
  /\ pc = "load" /\ dnp.state # "complete"
  /\ Reset
  /\ UNCHANGED dnp

\* load_soa_slab: allocate_elements, and no ensure_scratch.
LoadSlab ==
  /\ pc = "load" /\ dnp.state = "complete" /\ dnp.layout \in {"PingPong", "InPlace"}
  /\ Alloc(Raw, Full(dnp.slab[0]))
  /\ vals' = next
  /\ LoadFlags
  /\ pc' = "ready"
  /\ UNCHANGED <<opt, k, scr, ncopy, dnp>>

LoadMorton ==
  /\ pc = "load" /\ dnp.state = "complete" /\ dnp.layout = "Morton"
  /\ Alloc(MortonBuf, Bare(dnp.slab[0]))
  /\ LoadFlags
  /\ pc' = "ready"
  /\ UNCHANGED <<opt, k, views, dnp>>

LoadedOwn ==
  [h \in Handle |-> CASE h = Raw -> 1
                      [] h = Scratch -> 2
                      [] h \in {NCopyRaw(n) : n \in 2 .. N - 1} -> h[2] + 1
                      [] h \in {Rowptr(n) : n \in dnp.csr} -> N + 1 + h[2]
                      [] OTHER -> Null]

\* load_ncopy_slabs: block n + 1 for copy n, then the row pointers.
LoadNCopy ==
  /\ pc = "load" /\ dnp.state = "complete" /\ dnp.layout = "NCopy"
  /\ heap' = [b \in 1 .. N \cup {N + 1 + n : n \in dnp.csr} |->
                 IF b =< N THEN Full(dnp.slab[b - 1]) ELSE Bare(<<"rowptr", b - N - 1>>)]
  /\ next' = 2 * N + 1
  /\ own' = LoadedOwn
  /\ vals' = 1 /\ scr' = 2
  /\ ncopy' = [n \in Mode |-> n + 1]
  /\ LoadFlags
  /\ pc' = "ready"
  /\ UNCHANGED <<opt, k, dnp>>

-----------------------------------------------------------------------------
(* What the next step of a driver dereferences. *)
Grouped(b, n) == Live(b) /\ heap[b].order \in {Shard(n), Fiber(n)}
Whole(b)      == Live(b) /\ heap[b].cols = Mode

\* SpmttkrpSweep::process: use_fiber and use_fiber_csr.
UseFiber(n) == /\ ~opt.fiberOff /\ n \in dense
               /\ layout = "NCopy" => n \in fiberSorted
UseCsr(n)   == UseFiber(n) /\ layout = "NCopy" /\ n \in csr

ProcessReads(n) ==
  CASE layout = "NCopy" /\ UseCsr(n) ->
         /\ Live(ncopy[n]) /\ heap[ncopy[n]].order = Fiber(n)
         /\ Mode \ {n} \subseteq heap[ncopy[n]].cols
         /\ Live(own[Rowptr(n)]) /\ heap[own[Rowptr(n)]].order = <<"rowptr", n>>
    [] layout = "NCopy" /\ ~UseCsr(n) -> Whole(ncopy[n]) /\ Grouped(ncopy[n], n)
    [] layout = "InPlace" -> Whole(vals) /\ (sortedMode = n => Grouped(vals, n))
    [] OTHER -> /\ Whole(vals) /\ Grouped(vals, n)
                /\ UseFiber(n) => Whole(scr)
                /\ scr # Null => Whole(scr) /\ scr # vals

\* The block ||T||^2 is summed over.
NormSource == IF vals # Null THEN vals
              ELSE IF layout = "NCopy" THEN ncopy[0]
              ELSE IF layout = "Morton" THEN own[MortonBuf] ELSE Null

AllModesReads == vals # Null => Whole(vals) /\ heap[vals].order # Junk

CanReadNext ==
  CASE pc = "norm"      -> Live(NormSource) /\ heap[NormSource].order # Junk
    [] pc = "process"   -> ProcessReads(k)
    [] pc = "allModes"  -> AllModesReads
    [] pc = "reference" -> Whole(vals) /\ heap[vals].order # Junk
    [] OTHER            -> TRUE

Cpals == opt.driver \in {"cpals-gs", "cpals-jacobi"}

\* cpals promotes a Morton tensor to Jacobi.
Pass == IF opt.driver = "cpals-jacobi" \/ (Cpals /\ layout = "Morton")
        THEN IF layout = "Morton" THEN "mortonPass" ELSE "allModes"
        ELSE IF opt.driver = "mttkrp" /\ opt.allModes THEN "allModes" ELSE "process"

\* main hands the tensor to cpals or to the standalone benchmark.
Drive ==
  /\ pc = "ready"
  /\ pc' = IF Cpals THEN "norm" ELSE IF opt.verify THEN "reference" ELSE Pass
  /\ UNCHANGED <<opt, dense, k, slabs, views, flags, dnp>>

\* tensor_frob_norm_sq, spmttkrp_reference: read only.
ReadOnce ==
  /\ pc \in {"norm", "reference"} /\ CanReadNext
  /\ pc' = Pass
  /\ UNCHANGED <<opt, dense, k, slabs, views, flags, dnp>>

After(n) == IF n < N - 1 THEN k' = n + 1 /\ pc' = "process"
                         ELSE k' = 0 /\ pc' = "passed"

ProcessNCopy ==
  /\ pc = "process" /\ layout = "NCopy" /\ CanReadNext
  /\ After(k)
  /\ UNCHANGED <<opt, dense, slabs, views, flags, dnp>>

ProcessInPlace ==
  /\ pc = "process" /\ layout = "InPlace" /\ CanReadNext
  /\ heap' = IF sortedMode = k THEN heap
             ELSE [heap EXCEPT ![vals].order = IF k \in dense THEN Fiber(k) ELSE Shard(k)]
  /\ sortedMode' = k
  /\ After(k)
  /\ UNCHANGED <<opt, dense, next, own, views, layout, fiberSorted, csr, dnp>>

(* The single-pass fiber sort swaps the slabs, the two-pass one does not;  *)
(* the kernel reads the one and scatters into the other, and swaps.  With  *)
(* no scratch slab the scatter is skipped and the swap is not.             *)
ProcessPingPong ==
  /\ pc = "process" /\ layout \in {"PingPong", "Morton"} /\ CanReadNext
  /\ \E src \in IF UseFiber(k) THEN {vals, scr} ELSE {vals} :
       LET dst == IF src = vals THEN scr ELSE vals
       IN  /\ heap' = [b \in DOMAIN heap |->
                CASE b = src /\ UseFiber(k) -> Full(Fiber(k))
                  [] b = dst -> Full(Shard(Succ(k)))
                  [] OTHER -> heap[b]]
           /\ vals' = dst /\ scr' = src
  /\ After(k)
  /\ UNCHANGED <<opt, dense, next, own, ncopy, flags, dnp>>

\* spmttkrp_all_modes_dynasor; per mode instead when the primary slab is
\* gone, for unfavourable ranks, or without memory for the private outputs.
AllModes ==
  /\ pc = "allModes" /\ CanReadNext
  /\ \/ vals # Null /\ pc' = "passed"
     \/ pc' = "process"
  /\ UNCHANGED <<opt, dense, k, slabs, views, flags, dnp>>

\* spmttkrp_all_modes_morton, which falls back to the driver above.
MortonPass ==
  /\ pc = "mortonPass"
  /\ pc' \in {"passed"} \cup (IF opt.ofibsFail THEN {"allModes"} ELSE {})
  /\ UNCHANGED <<opt, dense, k, slabs, views, flags, dnp>>

\* The next ALS iteration, which any of them may be the last of.
Iterate ==
  /\ pc = "passed" /\ Cpals
  /\ pc' = Pass
  /\ UNCHANGED <<opt, dense, k, slabs, views, flags, dnp>>

\* main returns: free_elements frees what each raw pointer owns.
Exit ==
  /\ pc = "passed"
  /\ Reset
  /\ UNCHANGED dnp

-----------------------------------------------------------------------------
Build == \/ Parse \/ EnsureScratch \/ SortAndCount
         \/ PingPong \/ InPlace \/ InPlaceScratch \/ Morton \/ MortonFails
         \/ NCopy \/ EnsureNCopySlab \/ Remap \/ EnsureSortTemp
         \/ SkipCopy \/ FiberSortCopy \/ CopyBack \/ CompactCopy \/ FreeSortTemp

File == \/ Save \/ SaveRejected \/ SaveTorn
        \/ LoadFails \/ LoadSlab \/ LoadMorton \/ LoadNCopy

Run == \/ Drive \/ ReadOnce \/ ProcessNCopy \/ ProcessInPlace \/ ProcessPingPong
       \/ AllModes \/ MortonPass \/ Iterate

Next == Start \/ Abort \/ Build \/ File \/ Run \/ Exit

Spec == Init /\ [][Next]_vars

-----------------------------------------------------------------------------
(* Every pointer is null or the number of a block allocated so far, every  *)
(* block has an order of the modes there are.                              *)
SlabTypeOK ==
  LET Block == 0 .. next - 1
  IN  /\ opt \in Options \cup {NoOption} /\ dense \subseteq Mode /\ k \in 0 .. N
      /\ own \in [Handle -> Block]
      /\ vals \in Block /\ scr \in Block /\ ncopy \in [Mode -> Block]
      /\ \A b \in DOMAIN heap :
           /\ b \in Block \ {Null} /\ heap[b].cols \subseteq Mode
           /\ heap[b].order \in {"junk", "input", "shard", "fiber", "rowptr", "morton"} \X Mode
      /\ layout \in {"PingPong", "NCopy", "InPlace", "Morton"}
      /\ fiberSorted \subseteq Mode /\ csr \subseteq Mode /\ sortedMode \in Mode

(* Every live block has exactly one raw pointer that owns it, and no raw   *)
(* pointer owns a freed block, at every step: free_elements, which frees   *)
(* what the raw pointers own, neither leaks a block nor frees one twice.   *)
Ownership ==
  /\ \A b \in DOMAIN heap : \E h \in Handle : own[h] = b
  /\ \A h \in Handle : own[h] # Null =>
       /\ Live(own[h])
       /\ \A g \in Handle \ {h} : own[g] # own[h]

(* The primary and the scratch slab are different blocks, and so are the   *)
(* copies: a remap never overwrites what it reads.                         *)
SlabsDistinct ==
  /\ vals # Null => vals # scr
  /\ \A m, n \in Mode : m # n /\ ncopy[m] # Null => ncopy[m] # ncopy[n]
  /\ \A n \in Mode : ncopy[n] # Null => ncopy[n] # own[SortTemp]

(* At every step of every process the memory is in order, and each kernel  *)
(* reads and writes blocks of its own.                                     *)
SlabsSound == SlabTypeOK /\ Ownership /\ SlabsDistinct

(* Whatever the kernels, the norm and the reference dereference next is a  *)
(* live block with the columns and in the order the code expects, through  *)
(* every swap, relabelling and free, and in a process that loaded a .dnp.  *)
(* It does not hold of every command line: Supported of SlabInv names the  *)
(* ones it is about.                                                       *)
ReadsValid == CanReadNext

(* ncopy_fiber_sorted, ncopy_csr and inplace_sorted_mode, which the        *)
(* dispatch in process trusts, tell the truth about the slabs.             *)
FlagsTruthful ==
  /\ \A n \in fiberSorted : Live(ncopy[n]) /\ heap[ncopy[n]].order = Fiber(n)
  /\ \A n \in csr : n \in fiberSorted /\ Live(own[Rowptr(n)])
  /\ layout = "InPlace" => Grouped(vals, sortedMode)

(* The footprint the planner charges a layout with is what the layout      *)
(* occupies when a driver runs: two slabs under PingPong, N copies under   *)
(* NCopy, one slab (and a column of sort scratch) under InPlace.           *)
Slabs == {b \in DOMAIN heap : heap[b].order[1] # "rowptr" /\ b # own[InplaceScr]}

SteadyFootprint ==
  pc \in {"norm", "reference", "process", "allModes", "mortonPass", "passed"} =>
    Cardinality(Slabs) =< (CASE layout = "NCopy" -> N
                             [] layout = "PingPong" -> 2
                             [] OTHER -> 1)

(* "k == 0 -> frees T.buf_raw; nulls T.vals / T.idx_buf[*]": once the      *)
(* copies are compacted, vals is null or points into a slab that is there. *)
CompactLeavesNoDangling ==
  pc \notin {"place", "fiber"} /\ vals # Null => Live(vals)
=============================================================================
