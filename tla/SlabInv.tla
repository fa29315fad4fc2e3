------------------------------- MODULE SlabInv -------------------------------
(***************************************************************************)
(* The inductive invariant of TensorSlabs.  At each step of main it names  *)
(* the raw pointers that own a block, says which of the blocks vals, scr   *)
(* and the copies point into, and in which order their nonzeros are.       *)
(***************************************************************************)
EXTENDS TensorSlabs

Building == {"start", "parse", "load", "build", "partition", "layout"}
Copying  == {"slab", "remap", "temp", "fiber", "place"}
Driving  == {"ready", "norm", "reference", "process", "allModes", "mortonPass", "passed"}

Order   == {"junk", "input", "shard", "fiber", "rowptr", "morton"} \X Mode
Content == [order : Order, cols : SUBSET Mode]

TypeInv ==
  /\ pc \in Building \cup {"inplace", "morton", "save"} \cup Copying \cup Driving
  /\ pc = "start" \/ opt \in Options
  /\ pc = "start" => opt = NoOption
  /\ dense \subseteq Mode /\ k \in 0 .. N
  /\ next \in Nat \ {0}
  /\ heap \in [DOMAIN heap -> Content] /\ DOMAIN heap \subseteq 1 .. next - 1
  /\ own \in [Handle -> 0 .. next - 1]
  /\ vals \in 0 .. next - 1 /\ scr \in 0 .. next - 1
  /\ ncopy \in [Mode -> 0 .. next - 1]
  /\ layout \in {"PingPong", "NCopy", "InPlace", "Morton"}
  /\ csr \subseteq fiberSorted /\ fiberSorted \subseteq dense /\ sortedMode \in Mode

LoopInv ==
  /\ pc \notin {"slab", "remap", "fiber", "place", "process"} => k = 0
  /\ pc \in {"slab", "remap"} => 1 =< k
  /\ pc \in {"slab", "remap", "place", "process"} => k < N
  /\ pc \in {"temp", "fiber", "place"} => FiberPass
  /\ pc = "place" => k \in dense

\* The raw pointers that own a block are those of S, and maybe those of T.
Owned(S, T) == \A h \in Handle : /\ h \in S => own[h] # Null
                                 /\ h \notin S \cup T => own[h] = Null

NoCopies == \A n \in Mode : ncopy[n] = Null

\* A block with all index columns, grouped for mode n.
Wide(b)      == heap[b].cols = Mode
Sorted(b, n) == heap[b].order \in {Shard(n), Fiber(n)} /\ Wide(b)

\* What the process has been given.
GivenInv ==
  pc \notin {"start", "load"} /\ ~ opt.runtime =>
    /\ dense \in Densities(opt)
    /\ layout \in {"PingPong", "NCopy"} /\ pc \notin Building => layout = opt.layout
    /\ layout = "Morton" \/ pc = "morton" => opt.layout = "Morton"
    /\ pc = "save" => opt.save

BuildInv ==
  pc \in Building =>
    /\ layout = "PingPong" /\ csr = {} /\ fiberSorted = {} /\ sortedMode = 0 /\ NoCopies
    /\ pc \in {"start", "parse", "load"} => Owned({}, {}) /\ vals = Null /\ scr = Null
    /\ pc = "build" => Owned({Raw}, {}) /\ vals = own[Raw] /\ scr = Null
    /\ pc \in {"partition", "layout"} => Owned({Raw, Scratch}, {}) /\ Wide(scr)
    /\ pc = "partition" => vals = own[Raw] /\ scr = own[Scratch]
    /\ pc = "layout" => vals = own[Scratch] /\ scr = own[Raw] /\ heap[vals].order = Shard(0)
    /\ pc \in {"build", "partition", "layout"} => Wide(vals)
    /\ pc = "load" => opt.runtime
    /\ pc \notin {"start", "load"} => ~ opt.runtime

\* A PingPong tensor of a .dnp file has no scratch slab.
PingPongInv ==
  layout = "PingPong" /\ pc \notin Building =>
    /\ pc \in {"save"} \cup Driving
    /\ Owned({Raw}, {Scratch}) /\ {vals, scr} = {own[Raw], own[Scratch]}
    /\ NoCopies /\ fiberSorted = {} /\ csr = {}
    /\ pc = "save" => Sorted(vals, 0) /\ Wide(scr)

InPlaceInv ==
  layout = "InPlace" =>
    /\ pc \in {"inplace", "morton", "save"} \cup Driving
    /\ pc \in {"inplace", "morton"} => ~ opt.runtime
    /\ Owned({Raw}, {InplaceScr}) /\ (pc = "inplace" => own[InplaceScr] = Null)
    /\ vals = own[Raw] /\ scr = Null /\ Sorted(vals, sortedMode)
    /\ NoCopies /\ fiberSorted = {} /\ csr = {}

MortonInv ==
  layout = "Morton" =>
    /\ pc \in {"save"} \cup Driving
    /\ Owned({MortonBuf}, {InplaceScr}) /\ vals = Null /\ scr = Null
    /\ heap[own[MortonBuf]].order = <<"morton", 0>>
    /\ NoCopies /\ fiberSorted = {} /\ csr = {}

-----------------------------------------------------------------------------
(* NCopy. *)

\* The raw pointer that owns copy n until it is compacted: the parsed slab
\* and the scratch slab have been swapped once, those of a file never.
Home(n) == CASE n = 0 -> IF opt.runtime THEN Raw ELSE Scratch
             [] n = 1 -> IF opt.runtime THEN Scratch ELSE Raw
             [] OTHER -> NCopyRaw(n)

\* The copies there are, those whose slab is filled, and those the fiber pass
\* is through with.
Present == IF pc = "slab" THEN 0 .. k - 1 ELSE IF pc = "remap" THEN 0 .. k ELSE Mode
Filled  == IF pc \in {"slab", "remap"} THEN 0 .. k - 1 ELSE Mode
Passed  == IF pc \in {"slab", "remap", "temp"} THEN {}
           ELSE IF pc \in {"fiber", "place"} THEN 0 .. k - 1 ELSE Mode

Packed(n) == own[Compact(n)] # Null

CopyInv ==
  /\ \A n \in Present : IF Packed(n) THEN ncopy[n] = own[Compact(n)] /\ own[Home(n)] = Null
                                     ELSE ncopy[n] = own[Home(n)] /\ own[Home(n)] # Null
  /\ \A n \in Mode \ Present : ncopy[n] = Null /\ (n >= 2 => own[NCopyRaw(n)] = Null)
  /\ \A n \in Filled :
       /\ heap[ncopy[n]].order = IF n \in fiberSorted THEN Fiber(n) ELSE Shard(n)
       /\ heap[ncopy[n]].cols = IF Packed(n) THEN Mode \ {n} ELSE Mode
  /\ \A n \in Mode :
       /\ Packed(n) <=> n \in dense \cap Passed /\ CompactPass /\ ~ opt.runtime
       /\ own[Rowptr(n)] # Null <=> n \in csr
       /\ n \in csr => heap[own[Rowptr(n)]].order = <<"rowptr", n>>

NCopyInv ==
  layout = "NCopy" =>
    /\ pc \in {"save"} \cup Copying \cup Driving
    /\ own[InplaceScr] = Null /\ own[MortonBuf] = Null
    /\ own[SortTemp] # Null <=> pc \in {"fiber", "place"}
    /\ pc \in {"slab", "remap"} => vals = own[Scratch] /\ scr = own[Raw] /\ scr # Null
    /\ CopyInv
    /\ ~ opt.runtime =>
         /\ fiberSorted = IF FiberPass THEN dense \cap Passed ELSE {}
         /\ csr = IF CsrPass THEN dense \cap Passed ELSE {}
         /\ vals = Null <=> Packed(1)
         /\ scr = Null <=> Packed(0)
         /\ pc \notin {"slab", "remap"} /\ vals # Null /\ scr # Null =>
              vals = ncopy[0] /\ scr = ncopy[1]
    /\ opt.runtime => pc \in Driving /\ vals = ncopy[0] /\ scr = ncopy[1]
-----------------------------------------------------------------------------
\* A complete .dnp file says of its slabs what they are.
FileInv ==
  /\ dnp.state \in {"absent", "torn", "complete"}
  /\ dnp.state = "complete" =>
       /\ dnp.layout \in {"PingPong", "NCopy", "InPlace", "Morton"}
       /\ dnp.csr \subseteq dnp.fiberSorted /\ dnp.fiberSorted \subseteq dnp.dense
       /\ dnp.dense \subseteq Mode /\ dnp.sortedMode \in Mode
       /\ dnp.layout # "NCopy" => dnp.fiberSorted = {}
       /\ dnp.layout = "PingPong" => dnp.slab[0] \in {Shard(0), Fiber(0)}
       /\ dnp.layout = "InPlace" =>
            dnp.slab[0] \in {Shard(dnp.sortedMode), Fiber(dnp.sortedMode)}
       /\ dnp.layout = "Morton" => dnp.slab[0] = <<"morton", 0>>
       /\ dnp.layout = "NCopy" => \A n \in Mode :
            dnp.slab[n] = IF n \in dnp.fiberSorted THEN Fiber(n) ELSE Shard(n)

IInv == /\ TypeInv /\ LoopInv /\ Ownership /\ GivenInv
        /\ BuildInv /\ PingPongInv /\ InPlaceInv /\ MortonInv /\ NCopyInv /\ FileInv

\* Copies 0 and 1 have no slab of their own: they take the primary and the
\* scratch slab over.
TakenOver == own[NCopyRaw(0)] = Null /\ own[NCopyRaw(1)] = Null

-----------------------------------------------------------------------------
(* The command lines for which every read is valid; the others are in the  *)
(* README.  Morton has one driver.  A PingPong file gets no scratch slab.  *)
(* The element kernel and the reference read the columns that compaction   *)
(* drops, and compacting copy 0 alone leaves vals dangling.                *)
Supported(o, densities) ==
  /\ o.layout = "Morton" \/ o.runtime =>
       o.driver \in {"cpals-gs", "cpals-jacobi"} /\ ~ o.verify /\ ~ o.ofibsFail
  /\ o.layout = "PingPong" => ~ o.save
  /\ o.layout = "NCopy" /\ o.compact # "off" =>
       /\ ~ o.fiberOff
       /\ o.compact = "on" => ~ o.verify
       /\ \A d \in densities : 0 \in d => 1 \in d

AllSupported == \A o \in Options : Supported(o, Densities(o))

\* Where a driver can be with each layout, and what the sweep left for the
\* mode it is at.
PassInv ==
  /\ layout = "Morton" => /\ Cpals /\ ~ opt.verify /\ ~ opt.ofibsFail
                          /\ pc \notin {"reference", "process", "allModes"}
  /\ pc = "mortonPass" => layout = "Morton"
  /\ pc = "reference" => opt.verify /\ ~ Cpals
  /\ dnp.state = "complete" => dnp.layout # "PingPong"
  /\ layout = "PingPong" /\ pc \notin Building =>
       /\ pc # "save" /\ vals # Null /\ scr # Null /\ Wide(scr)
       /\ Sorted(vals, IF pc = "process" THEN k ELSE 0)
=============================================================================
