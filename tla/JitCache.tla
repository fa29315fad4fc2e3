------------------------------ MODULE JitCache ------------------------------
(***************************************************************************)
(* dyn_jit_get_fiber_csr and dyn_jit_get_all_modes_morton: a request for a *)
(* kernel is answered from the process's table, or else, under the mutex,  *)
(* from a library on disk, which is compiled if there is none.  The table  *)
(* is private to a process; the directory of sources and libraries is not, *)
(* and a process may die at any step.  Both functions have the same steps; *)
(* a key names the function and its arguments.                             *)
(*                                                                         *)
(* The directory starts empty and is used by processes of one build, with  *)
(* the same DYN_JIT_CXXFLAGS and headers: a file name holds the key, the   *)
(* instruction set and the compiler's version, and a library that outlives *)
(* other flags or headers is not modelled.                                 *)
(***************************************************************************)
EXTENDS Naturals, FiniteSets

CONSTANTS
  Proc,       \* processes that share the cache directory
  Caller,     \* threads that ask for kernels
  ProcOf,     \* ProcOf[c]: the process of thread c
  Asks,       \* Asks[c]: the kernels thread c asks for
  Key,        \* JitKey / JitAmMortonKey inside the supported grid
  Stem,       \* Stem[k]: the file name without its ending (key_stem)
  NoCaller,   \* the mutex is free
  NoKey,      \* a thread asks for nothing
  MaxKills    \* bound: deaths of processes

\* The file name distinguishes the keys: it spells out a JitKey; of a
\* JitAmMortonKey it has a 64-bit digest.
ASSUME KeyAssumption ==
  /\ IsFiniteSet(Key)
  /\ ProcOf \in [Caller -> Proc] /\ Asks \in [Caller -> SUBSET Key]
  /\ \A k, l \in Key : Stem[k] = Stem[l] => k = l
  /\ NoCaller \notin Caller /\ NoKey \notin Key
  /\ Key \cap {"unknown", "none", "absent", "empty", "short", "torn", "bare"} = {}
  /\ MaxKills \in Nat

VARIABLES
  src,        \* src[s]: what <stem>.cpp holds: a key's source, or less
  lib,        \* lib[s]: what <stem>.so holds, and whose linker made it
  memo,       \* memo[p][k]: g_cache / g_am_morton_cache
  stats,      \* stats[p]: g_stats
  lock,       \* lock[p]: holder of g_jit_mu
  pc,         \* pc[c]: where thread c is
  want,       \* want[c]: the key it asks for, while it does
  got,        \* got[c]: what its compiler has read
  shells,     \* history: shells[p][k] counts p's compiler calls for k
  kills

files == <<src, lib>>
jitVars == <<src, lib, memo, stats, lock, pc, want, got, shells, kills>>

Stems   == {Stem[k] : k \in Key}
NoLib   == [by |-> NoCaller, has |-> "absent"]
Unknown == [k \in Key |-> "unknown"]
NoStats == [compiled |-> 0, cache_hits |-> 0, failures |-> 0]

JitInit ==
  /\ src = [s \in Stems |-> "absent"]
  /\ lib = [s \in Stems |-> NoLib]
  /\ memo = [p \in Proc |-> Unknown]
  /\ stats = [p \in Proc |-> NoStats]
  /\ lock = [p \in Proc |-> NoCaller]
  /\ pc = [c \in Caller |-> "idle"]
  /\ want = [c \in Caller |-> NoKey]
  /\ got = [c \in Caller |-> "absent"]
  /\ shells = [p \in Proc |-> [k \in Key |-> 0]]
  /\ kills = 0

-----------------------------------------------------------------------------
At(c, here) == pc[c] = here
GoTo(c, there) == pc' = [pc EXCEPT ![c] = there]
Count(c, field) == stats' = [stats EXCEPT ![ProcOf[c]][field] = @ + 1]
MyMemo(c) == memo[ProcOf[c]][want[c]]

\* Mutant: key_stem leaves out TGT, and the kernels of two modes share a file.
MyStemNoTarget(c) == CHOOSE s \in Stems : TRUE

MyStem(c) == Stem[want[c]]

\* The call returns, and its locals are gone.
Answer(c) ==
  /\ GoTo(c, "idle")
  /\ want' = [want EXCEPT ![c] = NoKey]
  /\ got' = [got EXCEPT ![c] = "absent"]

\* The call goes on.
Proceed(c, there) == GoTo(c, there) /\ UNCHANGED <<want, got>>

\* The answer is remembered and the mutex released, in one step for all
\* other threads.
Settle(c, fn) ==
  /\ memo' = [memo EXCEPT ![ProcOf[c]][want[c]] = fn]
  /\ lock' = [lock EXCEPT ![ProcOf[c]] = NoCaller]
  /\ Answer(c)

\* Mutant: a failure is not remembered.
GiveUpForgetful(c) ==
  /\ Count(c, "failures")
  /\ lock' = [lock EXCEPT ![ProcOf[c]] = NoCaller]
  /\ Answer(c)
  /\ UNCHANGED memo

GiveUp(c) == Count(c, "failures") /\ Settle(c, "none")

(* The first look-up takes and releases the mutex; a request that it       *)
(* answers is over at once.                                                *)
Query(c) ==
  /\ At(c, "idle") /\ lock[ProcOf[c]] = NoCaller
  /\ \E k \in Asks[c] :
       IF memo[ProcOf[c]][k] = "unknown"
       THEN want' = [want EXCEPT ![c] = k] /\ GoTo(c, "lock")
       ELSE UNCHANGED <<want, pc>>
  /\ UNCHANGED <<files, memo, stats, lock, got, shells, kills>>

\* Mutant: no second look-up after the mutex has been taken again.
LockBlind(c) ==
  /\ At(c, "lock") /\ lock[ProcOf[c]] = NoCaller
  /\ lock' = [lock EXCEPT ![ProcOf[c]] = c] /\ Proceed(c, "exists")
  /\ UNCHANGED <<files, memo, stats, shells, kills>>

\* Between the two look-ups another thread may have settled the key.
Lock(c) ==
  /\ At(c, "lock") /\ lock[ProcOf[c]] = NoCaller
  /\ IF MyMemo(c) = "unknown"
     THEN lock' = [lock EXCEPT ![ProcOf[c]] = c] /\ Proceed(c, "exists")
     ELSE Answer(c) /\ UNCHANGED lock
  /\ UNCHANGED <<files, memo, stats, shells, kills>>

\* Any file of that name counts as a hit.
FileExists(c) ==
  /\ At(c, "exists")
  /\ IF lib[MyStem(c)].has = "absent"
     THEN Proceed(c, "source") /\ UNCHANGED stats
     ELSE Proceed(c, "load") /\ Count(c, "cache_hits")
  /\ UNCHANGED <<files, memo, lock, shells, kills>>

(* write_all: fopen truncates, fwrite reports a short write, fclose is not *)
(* asked whether the rest reached the disk.                                *)
OpenSource(c) ==
  /\ At(c, "source")
  /\ \/ /\ src' = [src EXCEPT ![MyStem(c)] = "empty"]
        /\ Proceed(c, "fill") /\ UNCHANGED <<memo, stats, lock>>
     \/ GiveUp(c) /\ UNCHANGED src
  /\ UNCHANGED <<lib, shells, kills>>

FillSource(c) ==
  /\ At(c, "fill")
  /\ \/ \E text \in {want[c], "short"} :
          /\ src' = [src EXCEPT ![MyStem(c)] = text]
          /\ Proceed(c, "compile") /\ UNCHANGED <<memo, stats, lock>>
     \/ src' = [src EXCEPT ![MyStem(c)] = "short"] /\ GiveUp(c)
  /\ UNCHANGED <<lib, shells, kills>>

(* compile_to_dll: the compiler reads the source.  Half a source does not  *)
(* compile, and other things may fail.                                     *)
Compile(c) ==
  /\ At(c, "compile")
  /\ shells' = [shells EXCEPT ![ProcOf[c]][want[c]] = @ + 1]
  /\ \/ /\ src[MyStem(c)] # "short"
        /\ got' = [got EXCEPT ![c] = src[MyStem(c)]]
        /\ GoTo(c, "link") /\ UNCHANGED <<memo, stats, lock, want>>
     \/ GiveUp(c)
  /\ UNCHANGED <<files, kills>>

\* The linker unlinks what has the name of its output and writes a new file.
Link(c) ==
  /\ At(c, "link")
  /\ lib' = [lib EXCEPT ![MyStem(c)] = [by |-> c, has |-> "torn"]]
  /\ Proceed(c, "linking")
  /\ UNCHANGED <<src, memo, stats, lock, shells, kills>>

\* An empty source compiles, to a library without the entry symbol.
Linked(c) == IF got[c] = "empty" THEN "bare" ELSE got[c]

\* The file is finished, unless another linker has unlinked it meanwhile.
Finished(c) ==
  IF lib[MyStem(c)].by = c THEN [lib EXCEPT ![MyStem(c)].has = Linked(c)] ELSE lib

\* rc == 0 && file_exists(dll); a linker that fails removes its output.
LinkEnds(c) ==
  /\ At(c, "linking")
  /\ \/ /\ lib' = Finished(c)
        /\ IF lib'[MyStem(c)].has = "absent"
           THEN GiveUp(c)
           ELSE Count(c, "compiled") /\ Proceed(c, "load") /\ UNCHANGED <<memo, lock>>
     \/ lib' = [lib EXCEPT ![MyStem(c)] = NoLib] /\ GiveUp(c)
  /\ UNCHANGED <<src, shells, kills>>

\* Mutant: half a library is taken for one that is being written.
LoadPolls(c) ==
  /\ At(c, "load")
  /\ LET has == lib[MyStem(c)].has
     IN  CASE has = "torn" -> UNCHANGED <<memo, stats, lock, pc, want, got>>
           [] has \in {"absent", "bare"} -> GiveUp(c)
           [] OTHER -> Settle(c, has) /\ UNCHANGED stats
  /\ UNCHANGED <<files, shells, kills>>

(* dlopen and dlsym: half a library is assumed not to load, and one        *)
(* without the entry symbol is of no use.                                  *)
Load(c) ==
  /\ At(c, "load")
  /\ LET has == lib[MyStem(c)].has
     IN  IF has \in {"absent", "torn", "bare"} THEN GiveUp(c)
         ELSE Settle(c, has) /\ UNCHANGED stats
  /\ UNCHANGED <<files, shells, kills>>

(* A process dies and is started again.  Its compilers die with it, and    *)
(* leave what they were writing, or finish as orphans.                     *)
Kill(p) ==
  /\ kills < MaxKills
  /\ kills' = kills + 1
  /\ memo' = [memo EXCEPT ![p] = Unknown]
  /\ stats' = [stats EXCEPT ![p] = NoStats]
  /\ lock' = [lock EXCEPT ![p] = NoCaller]
  /\ shells' = [shells EXCEPT ![p] = [k \in Key |-> 0]]
  /\ pc' = [c \in Caller |-> IF ProcOf[c] = p THEN "idle" ELSE pc[c]]
  /\ want' = [c \in Caller |-> IF ProcOf[c] = p THEN NoKey ELSE want[c]]
  /\ got' = [c \in Caller |-> IF ProcOf[c] = p THEN "absent" ELSE got[c]]
  /\ \/ UNCHANGED lib
     \/ \E c \in Caller : ProcOf[c] = p /\ At(c, "linking") /\ lib' = Finished(c)
  /\ UNCHANGED src

-----------------------------------------------------------------------------
Step(c) ==
  \/ Lock(c) \/ FileExists(c) \/ OpenSource(c) \/ FillSource(c)
  \/ Compile(c) \/ Link(c) \/ LinkEnds(c) \/ Load(c)

JitNext == (\E c \in Caller : Query(c) \/ Step(c)) \/ (\E p \in Proc : Kill(p))

\* A thread inside a request runs, and a compiler ends; nobody has to ask.
Fairness == \A c \in Caller : WF_jitVars(Step(c))

JitSpec == JitInit /\ [][JitNext]_jitVars /\ Fairness

-----------------------------------------------------------------------------
Held == {"exists", "source", "fill", "compile", "link", "linking", "load"}

(* The state has the shape the code gives it, and the mutex is held by     *)
(* exactly the thread that is past the second look-up.                     *)
TypeOK ==
  /\ src \in [Stems -> Key \cup {"absent", "empty", "short"}]
  /\ lib \in [Stems -> [by : Caller \cup {NoCaller},
                        has : Key \cup {"absent", "torn", "bare"}]]
  /\ memo \in [Proc -> [Key -> Key \cup {"unknown", "none"}]]
  /\ stats \in [Proc -> [compiled : Nat, cache_hits : Nat, failures : Nat]]
  /\ lock \in [Proc -> Caller \cup {NoCaller}]
  /\ pc \in [Caller -> Held \cup {"idle", "lock"}]
  /\ want \in [Caller -> Key \cup {NoKey}]
  /\ got \in [Caller -> Key \cup {"absent", "empty"}]
  /\ shells \in [Proc -> [Key -> Nat]]
  /\ kills \in Nat
  /\ \A c \in Caller : pc[c] \in Held <=> lock[ProcOf[c]] = c
  /\ \A p \in Proc : lock[p] # NoCaller => ProcOf[lock[p]] = p

(* One shell-out: however many threads ask, and whether it succeeded, a    *)
(* process calls the compiler at most once for a kernel (dynasor.cpp: "at  *)
(* most one shell-out compile which is memoized").                         *)
OneShellOut == \A p \in Proc, k \in Key : shells[p][k] =< 1

(* The statistics: failures counts the kernels that fell back to the baked *)
(* one, and every kernel that did not was either compiled or a hit.        *)
Served(p) == {k \in Key : memo[p][k] \in Key}
Failed(p) == {k \in Key : memo[p][k] = "none"}

StatsTrue == \A p \in Proc :
  LET paid == stats[p].compiled + stats[p].cache_hits
      open == IF lock[p] = NoCaller THEN 0 ELSE 1
  IN  /\ stats[p].failures = Cardinality(Failed(p))
      /\ paid >= Cardinality(Served(p))
      /\ paid =< Cardinality(Served(p)) + Cardinality(Failed(p)) + open

(* The drivers' view, however processes of the same build interleave their *)
(* reads, writes and deaths in the directory: a kernel is settled once in  *)
(* a process's life, and a pointer that is handed out is to the kernel     *)
(* that was asked for.                                                     *)
Table == INSTANCE KernelTable WITH table <- memo
ImplementsKernelTable == Table!Spec

(* The mutex is held over a compile: a thread that waits for it gets its   *)
(* answer nevertheless, or its process dies.                               *)
QueryReturns == \A c \in Caller : pc[c] # "idle" ~> pc[c] = "idle"
=============================================================================
