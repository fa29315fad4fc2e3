----------------------------- MODULE SlabProofs -----------------------------
(***************************************************************************)
(* For every number of modes, every command line and every tensor, through *)
(* any number of processes, kills and .dnp files: no block of a tensor     *)
(* leaks, none is freed twice, the flags tell the truth, the footprint is  *)
(* what the planner charges; and with the command lines that are supported *)
(* every read is of a live block with the columns it needs.                *)
(***************************************************************************)
EXTENDS SlabInv, FiniteSetTheorems, TLAPS

-----------------------------------------------------------------------------
(* Raw pointers. *)

LEMMA Modes == N \in Nat /\ N >= 2 /\ 0 \in Mode /\ 1 \in Mode /\ Mode \subseteq Nat
BY SlabAssumption DEF Mode

\* The first i modes.
LEMMA Below ==
  ASSUME NEW i \in Nat, i =< N
  PROVE  0 .. i - 1 \subseteq Mode /\ \A n \in Mode : n < i <=> n \in 0 .. i - 1
BY Modes DEF Mode

LEMMA BelowNext ==
  ASSUME NEW i \in 1 .. N - 1
  PROVE  0 .. i \subseteq Mode /\ \A n \in Mode : n < i + 1 <=> n \in 0 .. i
<1>1. i + 1 \in Nat /\ i + 1 =< N /\ (i + 1) - 1 = i
  BY Modes
<1> QED
  BY <1>1, Below

LEMMA Handles ==
  /\ {Raw, Scratch, SortTemp, InplaceScr, MortonBuf} \subseteq Handle
  /\ Raw # Scratch /\ Raw # SortTemp /\ Raw # InplaceScr /\ Raw # MortonBuf
  /\ Scratch # SortTemp /\ Scratch # InplaceScr /\ Scratch # MortonBuf
  /\ SortTemp # InplaceScr /\ SortTemp # MortonBuf /\ InplaceScr # MortonBuf
BY DEF Handle, Raw, Scratch, SortTemp, InplaceScr, MortonBuf

LEMMA ModeHandles ==
  ASSUME NEW n \in Mode
  PROVE  /\ {NCopyRaw(n), Compact(n), Rowptr(n)} \subseteq Handle
         /\ {NCopyRaw(n), Compact(n), Rowptr(n)}
              \cap {Raw, Scratch, SortTemp, InplaceScr, MortonBuf} = {}
         /\ \A m \in Mode : /\ NCopyRaw(n) # Compact(m) /\ NCopyRaw(n) # Rowptr(m)
                            /\ Compact(n) # Rowptr(m)
                            /\ NCopyRaw(n) = NCopyRaw(m) => n = m
                            /\ Compact(n) = Compact(m) => n = m
                            /\ Rowptr(n) = Rowptr(m) => n = m
<1>1. {NCopyRaw(n), Compact(n), Rowptr(n)} \subseteq Handle
  BY DEF Handle
<1>2. {NCopyRaw(n), Compact(n), Rowptr(n)}
              \cap {Raw, Scratch, SortTemp, InplaceScr, MortonBuf} = {}
  BY DEF NCopyRaw, Compact, Rowptr, Raw, Scratch, SortTemp, InplaceScr, MortonBuf
<1>3. ASSUME NEW m \in Mode
      PROVE  /\ NCopyRaw(n) # Compact(m) /\ NCopyRaw(n) # Rowptr(m)
             /\ Compact(n) # Rowptr(m)
             /\ NCopyRaw(n) = NCopyRaw(m) => n = m
             /\ Compact(n) = Compact(m) => n = m
             /\ Rowptr(n) = Rowptr(m) => n = m
  BY DEF NCopyRaw, Compact, Rowptr
<1> QED
  BY <1>1, <1>2, <1>3

LEMMA HandleCases ==
  ASSUME NEW h \in Handle
  PROVE  \/ h \in {Raw, Scratch, SortTemp, InplaceScr, MortonBuf}
         \/ \E n \in Mode : h \in {NCopyRaw(n), Compact(n), Rowptr(n)}
BY DEF Handle

LEMMA Homes ==
  ASSUME NEW n \in Mode
  PROVE  /\ Home(n) \in Handle
         /\ Home(n) \notin {SortTemp, InplaceScr, MortonBuf}
         /\ \A m \in Mode : /\ Home(n) # Compact(m) /\ Home(n) # Rowptr(m)
                            /\ Home(n) = Home(m) => n = m
<1>1. Home(0) \in {Raw, Scratch} /\ Home(1) \in {Raw, Scratch} /\ Home(0) # Home(1)
  BY Handles DEF Home
<1>2. ASSUME NEW m \in Mode, m # 0, m # 1 PROVE Home(m) = NCopyRaw(m)
  BY <1>2 DEF Home
<1>3. Home(n) \in {Raw, Scratch} \/ Home(n) = NCopyRaw(n)
  BY <1>1, <1>2
<1>4. /\ Home(n) \in Handle
      /\ Home(n) \notin {SortTemp, InplaceScr, MortonBuf}
  BY <1>3, Handles, ModeHandles
<1>5. ASSUME NEW m \in Mode
      PROVE  Home(n) # Compact(m) /\ Home(n) # Rowptr(m)
  <2>1. {Compact(m), Rowptr(m)} \cap {Raw, Scratch} = {}
    BY ModeHandles
  <2>2. NCopyRaw(n) # Compact(m) /\ NCopyRaw(n) # Rowptr(m)
    BY ModeHandles
  <2> QED
    BY <1>3, <2>1, <2>2
<1>6. ASSUME NEW m \in Mode, Home(n) = Home(m)
      PROVE  n = m
  <2>1. NCopyRaw(n) \notin {Raw, Scratch} /\ NCopyRaw(m) \notin {Raw, Scratch}
    BY ModeHandles
  <2>2. NCopyRaw(n) = NCopyRaw(m) => n = m
    BY ModeHandles
  <2>3. CASE n \in {0, 1} /\ m \in {0, 1}
    BY <1>1, <1>6, <2>3
  <2>4. CASE n \in {0, 1} /\ m \notin {0, 1}
    BY <1>1, <1>2, <1>6, <2>1, <2>4
  <2>5. CASE n \notin {0, 1} /\ m \in {0, 1}
    BY <1>1, <1>2, <1>6, <2>1, <2>5
  <2>6. CASE n \notin {0, 1} /\ m \notin {0, 1}
    BY <1>2, <1>6, <2>2, <2>6
  <2> QED
    BY <2>3, <2>4, <2>5, <2>6
<1> QED
  BY <1>4, <1>5, <1>6

-----------------------------------------------------------------------------
(* Blocks come and go. *)

\* The blocks H, and the raw pointers O that own them, after m - 1 allocations.
Memory(H, O, m) ==
  /\ m \in Nat \ {0}
  /\ O \in [Handle -> 0 .. m - 1]
  /\ H \in [DOMAIN H -> Content] /\ DOMAIN H \subseteq 1 .. m - 1
  /\ \A b \in DOMAIN H : \E h \in Handle : O[h] = b
  /\ \A h \in Handle : O[h] # Null => /\ O[h] \in DOMAIN H
                                      /\ \A g \in Handle \ {h} : O[g] # O[h]

LEMMA MemoryNow == IInv => Memory(heap, own, next)
BY DEF IInv, TypeInv, Ownership, Live, Memory

LEMMA MemoryNext ==
  Memory(heap', own', next') =>
    /\ next' \in Nat \ {0}
    /\ heap' \in [DOMAIN heap' -> Content] /\ DOMAIN heap' \subseteq 1 .. next' - 1
    /\ own' \in [Handle -> 0 .. next' - 1]
    /\ Ownership'
BY DEF Ownership, Live, Memory

LEMMA WithFacts ==
  ASSUME NEW H, NEW b, NEW c
  PROVE  /\ DOMAIN With(H, b, c) = DOMAIN H \cup {b}
         /\ With(H, b, c)[b] = c
         /\ \A x \in DOMAIN H : x # b => With(H, b, c)[x] = H[x]
BY DEF With

LEMMA WithoutFacts ==
  ASSUME NEW H, NEW B
  PROVE  /\ DOMAIN Restrict(H, DOMAIN H \ B) = DOMAIN H \ B
         /\ \A x \in DOMAIN H \ B : Restrict(H, DOMAIN H \ B)[x] = H[x]
BY DEF Restrict

LEMMA Gains ==
  ASSUME NEW H, NEW O, NEW m, Memory(H, O, m),
         NEW h \in Handle, O[h] = Null, NEW c \in Content
  PROVE  Memory(With(H, m, c), [O EXCEPT ![h] = m], m + 1)
<1> DEFINE F == With(H, m, c)
           Q == [O EXCEPT ![h] = m]
<1>1. /\ m \in Nat \ {0} /\ O \in [Handle -> 0 .. m - 1]
      /\ H \in [DOMAIN H -> Content] /\ DOMAIN H \subseteq 1 .. m - 1
      /\ \A b \in DOMAIN H : \E g \in Handle : O[g] = b
      /\ \A i \in Handle : O[i] # Null => /\ O[i] \in DOMAIN H
                                          /\ \A g \in Handle \ {i} : O[g] # O[i]
  BY DEF Memory
<1>2. Q \in [Handle -> 0 .. m] /\ Q[h] = m /\ \A g \in Handle \ {h} : Q[g] = O[g]
  BY <1>1
<1>3. m \notin DOMAIN H /\ m # Null /\ \A g \in Handle : O[g] # m
  BY <1>1 DEF Null
<1>4. F = [x \in DOMAIN H \cup {m} |-> IF x = m THEN c ELSE H[x]]
  BY DEF With
<1>5. DOMAIN F = DOMAIN H \cup {m}
  BY <1>4
<1>6. F \in [DOMAIN F -> Content]
  BY <1>1, <1>4, <1>5
<1>7. DOMAIN F \subseteq 1 .. m
  BY <1>1, <1>5
<1>8. ASSUME NEW b \in DOMAIN F PROVE \E g \in Handle : Q[g] = b
  <2>1. CASE b = m
    BY <1>2, <2>1
  <2>2. CASE b # m
    <3>1. PICK g \in Handle : O[g] = b
      BY <1>1, <1>5, <2>2
    <3>2. g # h
      BY <1>1, <1>5, <2>2, <3>1 DEF Null
    <3> QED
      BY <1>2, <3>1, <3>2
  <2> QED
    BY <2>1, <2>2
<1>9. ASSUME NEW i \in Handle, Q[i] # Null
      PROVE  Q[i] \in DOMAIN F /\ \A g \in Handle \ {i} : Q[g] # Q[i]
  <2>1. CASE i = h
    BY <1>2, <1>3, <1>5, <2>1
  <2>2. CASE i # h
    BY <1>1, <1>2, <1>3, <1>5, <1>9, <2>2
  <2> QED
    BY <2>1, <2>2
<1>10. m + 1 \in Nat \ {0} /\ m + 1 - 1 = m
  BY <1>1
<1> HIDE DEF F, Q
<1> QED
  BY <1>2, <1>6, <1>7, <1>8, <1>9, <1>10 DEF Memory, F, Q

LEMMA Loses ==
  ASSUME NEW H, NEW O, NEW m, Memory(H, O, m), NEW h \in Handle
  PROVE  Memory(Restrict(H, DOMAIN H \ {O[h]}), [O EXCEPT ![h] = Null], m)
<1> DEFINE F == Restrict(H, DOMAIN H \ {O[h]})
           Q == [O EXCEPT ![h] = Null]
<1>1. /\ m \in Nat \ {0} /\ O \in [Handle -> 0 .. m - 1]
      /\ H \in [DOMAIN H -> Content] /\ DOMAIN H \subseteq 1 .. m - 1
      /\ \A b \in DOMAIN H : \E g \in Handle : O[g] = b
      /\ \A i \in Handle : O[i] # Null => /\ O[i] \in DOMAIN H
                                          /\ \A g \in Handle \ {i} : O[g] # O[i]
  BY DEF Memory
<1>2. Q \in [Handle -> 0 .. m - 1] /\ Q[h] = Null /\ \A g \in Handle \ {h} : Q[g] = O[g]
  BY <1>1 DEF Null
<1>3. DOMAIN F = DOMAIN H \ {O[h]} /\ F = [x \in DOMAIN H \ {O[h]} |-> H[x]]
  BY DEF Restrict
<1>4. F \in [DOMAIN F -> Content]
  <2>1. \A x \in DOMAIN H : H[x] \in Content
    BY <1>1
  <2>2. F \in [DOMAIN H \ {O[h]} -> Content]
    BY <1>3, <2>1
  <2> QED
    BY <1>3, <2>2
<1>5. ASSUME NEW b \in DOMAIN F PROVE \E g \in Handle : Q[g] = b
  BY <1>1, <1>2, <1>3
<1>6. ASSUME NEW i \in Handle, Q[i] # Null
      PROVE  Q[i] \in DOMAIN F /\ \A g \in Handle \ {i} : Q[g] # Q[i]
  <2>1. i # h /\ O[i] # Null /\ O[i] # O[h] /\ Q[i] = O[i]
    BY <1>1, <1>2, <1>6
  <2>2. O[i] \in DOMAIN F
    BY <1>1, <1>3, <2>1
  <2>3. ASSUME NEW g \in Handle \ {i} PROVE Q[g] # Q[i]
    <3>1. CASE g = h
      BY <1>2, <1>6, <3>1
    <3>2. CASE g # h
      BY <1>1, <1>2, <2>1, <3>2
    <3> QED
      BY <3>1, <3>2
  <2> QED
    BY <2>1, <2>2, <2>3
<1>7. DOMAIN F \subseteq 1 .. m - 1
  BY <1>1, <1>3
<1> HIDE DEF F, Q
<1> QED
  BY <1>1, <1>2, <1>4, <1>5, <1>6, <1>7 DEF Memory, F, Q

\* A slab is rewritten.
LEMMA Writes ==
  ASSUME NEW H, NEW O, NEW m, Memory(H, O, m), NEW b, NEW c \in Content
  PROVE  /\ Memory([H EXCEPT ![b] = c], O, m)
         /\ DOMAIN [H EXCEPT ![b] = c] = DOMAIN H
         /\ b \in DOMAIN H => [H EXCEPT ![b] = c][b] = c
         /\ \A x \in DOMAIN H : x # b => [H EXCEPT ![b] = c][x] = H[x]
<1> DEFINE F == [H EXCEPT ![b] = c]
<1>1. DOMAIN F = DOMAIN H
  OBVIOUS
<1>2. F \in [DOMAIN F -> Content]
  BY <1>1 DEF Memory
<1>3. \A x \in DOMAIN H : x # b => F[x] = H[x]
  OBVIOUS
<1>4. b \in DOMAIN H => F[b] = c
  OBVIOUS
<1> HIDE DEF F
<1>5. Memory(F, O, m)
  BY <1>1, <1>2 DEF Memory
<1> QED
  BY <1>1, <1>3, <1>4, <1>5 DEF F

\* The contents there are.
LEMMA Contents ==
  /\ Full(Junk) \in Content /\ Full(Input) \in Content /\ Bare(Junk) \in Content
  /\ Bare(<<"morton", 0>>) \in Content
  /\ \A n \in Mode : /\ Full(Shard(n)) \in Content /\ Full(Fiber(n)) \in Content
                     /\ Bare(<<"rowptr", n>>) \in Content
                     /\ [order |-> Fiber(n), cols |-> Mode \ {n}] \in Content
                     /\ Shard(n) # Junk /\ Fiber(n) # Junk /\ Shard(n) \in Order
                     /\ Fiber(n) \in Order
BY Modes DEF Content, Order, Full, Bare, Junk, Input, Shard, Fiber

-----------------------------------------------------------------------------
(* Processes start and end. *)

LEMMA EmptyMemory ==
  ASSUME NEW H, NEW O, H = <<>>, O = [h \in Handle |-> Null]
  PROVE  Memory(H, O, 1) /\ DOMAIN H = {} /\ \A h \in Handle : O[h] = Null
<1>1. DOMAIN H = {} /\ H \in [DOMAIN H -> Content]
  OBVIOUS
<1>2. O \in [Handle -> 0 .. 0] /\ \A h \in Handle : O[h] = Null
  BY DEF Null
<1> QED
  BY <1>1, <1>2 DEF Memory

LEMMA InitInv == Init => IInv
<1> SUFFICES ASSUME Init PROVE IInv
  OBVIOUS
<1>1. Memory(heap, own, next) /\ \A h \in Handle : own[h] = Null
  BY EmptyMemory DEF Init, Fresh
<1>2. TypeInv
  BY <1>1, Modes DEF TypeInv, Init, Fresh, Memory, Building, Null
<1>3. Ownership
  BY <1>1 DEF Memory, Ownership, Live
<1>4. BuildInv
  BY <1>1 DEF BuildInv, Init, Fresh, NoCopies, Owned
<1>5. FileInv
  BY DEF FileInv, Init, NoFile
<1> QED
  BY <1>2, <1>3, <1>4, <1>5
     DEF IInv, LoopInv, GivenInv, PingPongInv, InPlaceInv, MortonInv, NCopyInv, Init, Fresh,
         Building

LEMMA ResetInv == ASSUME IInv, Reset, FileInv' PROVE IInv'
<1>1. Memory(heap', own', 1) /\ \A h \in Handle : own'[h] = Null
  BY EmptyMemory DEF Reset
<1>2. Memory(heap', own', next')
  BY <1>1 DEF Reset
<1>3. TypeInv'
  BY <1>2, Modes DEF TypeInv, Reset, Memory, Building, Null
<1>4. Ownership'
  BY <1>2, MemoryNext
<1>5. BuildInv'
  BY <1>1 DEF BuildInv, Reset, NoCopies, Owned
<1> QED
  BY <1>3, <1>4, <1>5
     DEF IInv, LoopInv, GivenInv, PingPongInv, InPlaceInv, MortonInv, NCopyInv, Reset,
         Building

LEMMA FileKept == ASSUME IInv, UNCHANGED dnp PROVE FileInv'
BY DEF IInv, FileInv

LEMMA NoFileLeft == ASSUME dnp' \in {NoFile, TornFile} PROVE FileInv'
BY DEF FileInv, NoFile, TornFile

LEMMA StartKeeps == ASSUME IInv, Start PROVE IInv'
<1>1. /\ pc = "start" /\ opt' \in Options
      /\ \/ opt'.runtime /\ pc' = "load" /\ dense' = {}
         \/ ~ opt'.runtime /\ pc' = "parse" /\ dense' \in Densities(opt')
      /\ UNCHANGED <<k, heap, next, own, vals, scr, ncopy, layout, fiberSorted, csr, sortedMode, dnp>>
  BY DEF Start, slabs, views, flags
<1>2. dense' \subseteq Mode
  BY <1>1, SlabAssumption
<1>3. BuildInv /\ fiberSorted = {} /\ csr = {} /\ layout = "PingPong"
  BY <1>1 DEF IInv, BuildInv, Building
<1>4. TypeInv'
  BY <1>1, <1>2, <1>3 DEF IInv, TypeInv, Building
<1>5. Ownership'
  BY <1>1 DEF IInv, Ownership, Live
<1>6. BuildInv'
  BY <1>1, <1>3 DEF BuildInv, Building, NoCopies, Owned
<1>7. FileInv'
  BY <1>1, FileKept
<1>8. LoopInv' /\ GivenInv'
  BY <1>1, <1>3 DEF IInv, LoopInv, GivenInv, Building
<1> QED
  BY <1>1, <1>3, <1>4, <1>5, <1>6, <1>7, <1>8
     DEF IInv, PingPongInv, InPlaceInv, MortonInv, NCopyInv, Building

-----------------------------------------------------------------------------
(* The build up to the choice of a layout. *)

LEMMA NewBlock ==
  ASSUME IInv, NEW h \in Handle, own[h] = Null, NEW c \in Content, Alloc(h, c)
  PROVE  /\ Memory(heap', own', next')
         /\ next' = next + 1 /\ next \in Nat \ {0}
         /\ own'[h] = next /\ \A g \in Handle : g # h => own'[g] = own[g]
         /\ heap'[next] = c /\ \A b \in DOMAIN heap : heap'[b] = heap[b]
         /\ next \notin DOMAIN heap /\ \A g \in Handle : own[g] # next
<1>1. Memory(heap, own, next)
  BY MemoryNow
<1>2. /\ heap' = With(heap, next, c) /\ own' = [own EXCEPT ![h] = next]
      /\ next' = next + 1
  BY DEF Alloc
<1>3. Memory(heap', own', next')
  BY <1>1, <1>2, Gains
<1>4. /\ next \in Nat \ {0} /\ own \in [Handle -> 0 .. next - 1]
      /\ DOMAIN heap \subseteq 1 .. next - 1
  BY <1>1 DEF Memory
<1>5. own'[h] = next /\ \A g \in Handle : g # h => own'[g] = own[g]
  BY <1>2, <1>4
<1>6. next \notin DOMAIN heap /\ \A g \in Handle : own[g] # next
  BY <1>4
<1>7. heap'[next] = c /\ \A b \in DOMAIN heap : heap'[b] = heap[b]
  <2>1. heap' = [x \in DOMAIN heap \cup {next} |-> IF x = next THEN c ELSE heap[x]]
    BY <1>2 DEF With
  <2> QED
    BY <1>6, <2>1
<1> QED
  BY <1>2, <1>3, <1>4, <1>5, <1>6, <1>7

\* A raw pointer that is not null owns a live block.
LEMMA OwnedLives ==
  ASSUME IInv, NEW h \in Handle, own[h] # Null
  PROVE  own[h] \in DOMAIN heap /\ \A g \in Handle : g # h => own[g] # own[h]
BY DEF IInv, Ownership, Live

LEMMA ParseKeeps == ASSUME IInv, Parse PROVE IInv'
<1>1. /\ pc = "parse" /\ Alloc(Raw, Full(Input)) /\ vals' = next /\ pc' = "build"
      /\ UNCHANGED <<opt, dense, k, scr, ncopy, layout, fiberSorted, csr, sortedMode, dnp>>
  BY DEF Parse, flags
<1>2. /\ layout = "PingPong" /\ csr = {} /\ fiberSorted = {} /\ sortedMode = 0 /\ NoCopies
      /\ Owned({}, {}) /\ vals = Null /\ scr = Null /\ ~ opt.runtime /\ opt \in Options
  BY <1>1 DEF IInv, BuildInv, Building, TypeInv
<1>3. own[Raw] = Null
  BY <1>2, Handles DEF Owned
<1>4. /\ Memory(heap', own', next')
      /\ next' = next + 1 /\ next \in Nat \ {0}
      /\ own'[Raw] = next /\ \A g \in Handle : g # Raw => own'[g] = own[g]
      /\ heap'[next] = Full(Input)
  BY <1>1, <1>3, NewBlock, Handles, Contents
<1>5. TypeInv'
  <2>1. scr' \in 0 .. next' - 1 /\ ncopy' \in [Mode -> 0 .. next' - 1] /\ vals' \in 0 .. next' - 1
    BY <1>1, <1>4 DEF IInv, TypeInv
  <2> QED
    BY <1>1, <1>2, <1>4, <2>1, MemoryNext DEF IInv, TypeInv, Building
<1>6. Ownership'
  BY <1>4, MemoryNext
<1>7. BuildInv'
  <2>1. Owned({Raw}, {})'
    BY <1>2, <1>4, Handles DEF Owned, Null
  <2> QED
    BY <1>1, <1>2, <1>4, <2>1 DEF BuildInv, Building, NoCopies, Wide, Full
<1>8. FileInv'
  BY <1>1, FileKept
<1>9. LoopInv' /\ GivenInv'
  BY <1>1, <1>2 DEF IInv, LoopInv, GivenInv, Building
<1> QED
  BY <1>1, <1>2, <1>5, <1>6, <1>7, <1>8, <1>9
     DEF IInv, PingPongInv, InPlaceInv, MortonInv, NCopyInv, Building

LEMMA ScratchKeeps == ASSUME IInv, EnsureScratch PROVE IInv'
<1>1. /\ pc = "build" /\ Alloc(Scratch, Full(Junk)) /\ scr' = next /\ pc' = "partition"
      /\ UNCHANGED <<opt, dense, k, vals, ncopy, layout, fiberSorted, csr, sortedMode, dnp>>
  BY DEF EnsureScratch, flags
<1>2. /\ layout = "PingPong" /\ csr = {} /\ fiberSorted = {} /\ sortedMode = 0 /\ NoCopies
      /\ Owned({Raw}, {}) /\ vals = own[Raw] /\ Wide(vals) /\ ~ opt.runtime /\ opt \in Options
  BY <1>1 DEF IInv, BuildInv, Building, TypeInv
<1>3. own[Scratch] = Null /\ own[Raw] # Null
  BY <1>2, Handles DEF Owned
<1>4. /\ Memory(heap', own', next')
      /\ next' = next + 1 /\ next \in Nat \ {0}
      /\ own'[Scratch] = next /\ \A g \in Handle : g # Scratch => own'[g] = own[g]
      /\ heap'[next] = Full(Junk) /\ \A b \in DOMAIN heap : heap'[b] = heap[b]
  BY <1>1, <1>3, NewBlock, Handles, Contents
<1>5. TypeInv'
  <2>1. scr' \in 0 .. next' - 1 /\ ncopy' \in [Mode -> 0 .. next' - 1] /\ vals' \in 0 .. next' - 1
    BY <1>1, <1>4 DEF IInv, TypeInv
  <2> QED
    BY <1>1, <1>2, <1>4, <2>1, MemoryNext DEF IInv, TypeInv, Building
<1>6. Ownership'
  BY <1>4, MemoryNext
<1>7. BuildInv'
  <2>1. Owned({Raw, Scratch}, {})'
    BY <1>2, <1>4, Handles DEF Owned, Null
  <2>2. Wide(vals)' /\ Wide(scr)'
    BY <1>1, <1>2, <1>3, <1>4, OwnedLives, Handles DEF Wide, Full
  <2>3. vals' = own'[Raw] /\ scr' = own'[Scratch]
    BY <1>1, <1>2, <1>4, Handles
  <2> QED
    BY <1>1, <1>2, <2>1, <2>2, <2>3 DEF BuildInv, Building, NoCopies
<1>8. FileInv'
  BY <1>1, FileKept
<1>9. LoopInv' /\ GivenInv'
  BY <1>1, <1>2 DEF IInv, LoopInv, GivenInv, Building
<1> QED
  BY <1>1, <1>2, <1>5, <1>6, <1>7, <1>8, <1>9
     DEF IInv, PingPongInv, InPlaceInv, MortonInv, NCopyInv, Building

LEMMA SortKeeps == ASSUME IInv, SortAndCount PROVE IInv'
<1>1. /\ pc = "partition" /\ heap' = [heap EXCEPT ![scr] = Full(Shard(0))]
      /\ vals' = scr /\ scr' = vals /\ pc' = "layout"
      /\ UNCHANGED <<opt, dense, k, next, own, ncopy, layout, fiberSorted, csr, sortedMode, dnp>>
  BY DEF SortAndCount, flags
<1>2. /\ layout = "PingPong" /\ csr = {} /\ fiberSorted = {} /\ sortedMode = 0 /\ NoCopies
      /\ Owned({Raw, Scratch}, {}) /\ vals = own[Raw] /\ scr = own[Scratch] /\ Wide(vals)
      /\ ~ opt.runtime /\ opt \in Options
  BY <1>1 DEF IInv, BuildInv, Building, TypeInv
<1>3. /\ vals \in DOMAIN heap /\ scr \in DOMAIN heap /\ vals # scr
  BY <1>2, OwnedLives, Handles DEF Owned
<1>4. /\ Memory(heap', own', next')
      /\ heap'[scr] = Full(Shard(0)) /\ heap'[vals] = heap[vals]
  BY <1>1, <1>3, MemoryNow, Writes, Contents, Modes
<1>5. TypeInv'
  BY <1>1, <1>2, <1>4, MemoryNext DEF IInv, TypeInv, Building
<1>6. Ownership'
  BY <1>4, MemoryNext
<1>7. BuildInv'
  <2>1. Owned({Raw, Scratch}, {})'
    BY <1>1, <1>2 DEF Owned
  <2>2. Wide(vals)' /\ Wide(scr)' /\ heap'[vals'].order = Shard(0)
    BY <1>1, <1>2, <1>4 DEF Wide, Full
  <2>3. vals' = own'[Scratch] /\ scr' = own'[Raw]
    BY <1>1, <1>2
  <2> QED
    BY <1>1, <1>2, <2>1, <2>2, <2>3 DEF BuildInv, Building, NoCopies
<1>8. FileInv'
  BY <1>1, FileKept
<1>9. LoopInv' /\ GivenInv'
  BY <1>1, <1>2 DEF IInv, LoopInv, GivenInv, Building
<1> QED
  BY <1>1, <1>2, <1>5, <1>6, <1>7, <1>8, <1>9
     DEF IInv, PingPongInv, InPlaceInv, MortonInv, NCopyInv, Building

-----------------------------------------------------------------------------
(* PingPong, InPlace and Morton. *)

\* The slabs where a layout is chosen.
LEMMA AtLayout ==
  ASSUME IInv, pc = "layout"
  PROVE  /\ layout = "PingPong" /\ csr = {} /\ fiberSorted = {} /\ sortedMode = 0 /\ NoCopies
         /\ Owned({Raw, Scratch}, {}) /\ own[Raw] # Null /\ own[Scratch] # Null
         /\ vals = own[Scratch] /\ scr = own[Raw] /\ vals # scr
         /\ vals \in DOMAIN heap /\ scr \in DOMAIN heap
         /\ heap[vals].order = Shard(0) /\ Wide(vals) /\ Wide(scr)
         /\ ~ opt.runtime /\ opt \in Options
         /\ k = 0 /\ dense \in Densities(opt)
<1>1. /\ layout = "PingPong" /\ csr = {} /\ fiberSorted = {} /\ sortedMode = 0 /\ NoCopies
      /\ Owned({Raw, Scratch}, {}) /\ vals = own[Scratch] /\ scr = own[Raw]
      /\ heap[vals].order = Shard(0) /\ Wide(vals) /\ Wide(scr)
      /\ ~ opt.runtime /\ opt \in Options
  BY DEF IInv, BuildInv, Building, TypeInv
<1>2. own[Raw] # Null /\ own[Scratch] # Null
  BY <1>1, Handles DEF Owned
<1>3. vals \in DOMAIN heap /\ scr \in DOMAIN heap /\ vals # scr
  BY <1>1, <1>2, OwnedLives, Handles
<1>4. k = 0 /\ dense \in Densities(opt)
  BY <1>1 DEF IInv, LoopInv, GivenInv
<1> QED
  BY <1>1, <1>2, <1>3, <1>4

LEMMA PingPongKeeps == ASSUME IInv, PingPong PROVE IInv'
<1>1. /\ pc = "layout" /\ opt.layout = "PingPong" /\ layout' = "PingPong"
      /\ pc' = IF opt.save THEN "save" ELSE "ready"
      /\ UNCHANGED <<opt, dense, k, heap, next, own, vals, scr, ncopy, fiberSorted, csr,
                     sortedMode, dnp>>
  BY DEF PingPong, Built, slabs, views
<1>2. /\ layout = "PingPong" /\ csr = {} /\ fiberSorted = {} /\ NoCopies
      /\ Owned({Raw, Scratch}, {}) /\ vals = own[Scratch] /\ scr = own[Raw]
      /\ heap[vals].order = Shard(0) /\ Wide(vals) /\ Wide(scr) /\ k = 0 /\ dense \in Densities(opt) /\ ~ opt.runtime
  BY <1>1, AtLayout
<1>3. TypeInv'
  BY <1>1 DEF IInv, TypeInv, Building, Driving
<1>4. Ownership'
  BY <1>1 DEF IInv, Ownership, Live
<1>5. PingPongInv'
  BY <1>1, <1>2 DEF PingPongInv, Building, Driving, Owned, NoCopies, Sorted, Wide
<1>6. FileInv'
  BY <1>1, FileKept
<1>7. LoopInv' /\ GivenInv' /\ BuildInv'
  BY <1>1, <1>2 DEF LoopInv, GivenInv, BuildInv, Building
<1> QED
  BY <1>1, <1>3, <1>4, <1>5, <1>6, <1>7 DEF IInv, InPlaceInv, MortonInv, NCopyInv

LEMMA InPlaceKeeps == ASSUME IInv, InPlace PROVE IInv'
<1>1. /\ pc = "layout" /\ opt.layout \in {"InPlace", "Morton"} /\ layout' = "InPlace"
      /\ heap' = Without({Spare})
      /\ own' = [own EXCEPT ![Raw] = Kept, ![Scratch] = Null]
      /\ scr' = Null /\ pc' = "inplace"
      /\ UNCHANGED <<opt, dense, k, next, vals, ncopy, fiberSorted, csr, sortedMode, dnp>>
  BY DEF InPlace
<1>2. /\ layout = "PingPong" /\ csr = {} /\ fiberSorted = {} /\ sortedMode = 0 /\ NoCopies
      /\ Owned({Raw, Scratch}, {}) /\ own[Raw] # Null /\ own[Scratch] # Null
      /\ vals = own[Scratch] /\ scr = own[Raw] /\ vals # scr
      /\ vals \in DOMAIN heap /\ scr \in DOMAIN heap
      /\ heap[vals].order = Shard(0) /\ Wide(vals) /\ k = 0 /\ dense \in Densities(opt) /\ ~ opt.runtime
  BY <1>1, AtLayout
<1>3. Spare = own[Raw] /\ Kept = own[Scratch]
  BY <1>2 DEF Spare, Kept
<1>4. Memory(heap, own, next) /\ own \in [Handle -> 0 .. next - 1]
  BY MemoryNow DEF Memory
<1>5. /\ own'[Raw] = own[Scratch] /\ own'[Scratch] = Null
      /\ \A h \in Handle \ {Raw, Scratch} : own'[h] = own[h]
      /\ own' \in [Handle -> 0 .. next - 1]
  <2>1. own' = [own EXCEPT ![Raw] = own[Scratch], ![Scratch] = Null]
    BY <1>1, <1>3
  <2>2. own[Scratch] \in 0 .. next - 1 /\ Null \in 0 .. next - 1
    BY <1>4, Handles DEF Null, Memory
  <2> QED
    BY <1>4, <2>1, <2>2, Handles
<1>6. /\ DOMAIN heap' = DOMAIN heap \ {own[Raw]}
      /\ heap' = [x \in DOMAIN heap \ {own[Raw]} |-> heap[x]]
  BY <1>1, <1>3 DEF Without, Restrict
<1>7. Memory(heap', own', next')
  <2>1. heap' \in [DOMAIN heap' -> Content]
    <3>1. \A x \in DOMAIN heap : heap[x] \in Content
      BY <1>4 DEF Memory
    <3>2. heap' \in [DOMAIN heap \ {own[Raw]} -> Content]
      BY <1>6, <3>1
    <3> QED
      BY <1>6, <3>2
  <2>2. ASSUME NEW b \in DOMAIN heap' PROVE \E h \in Handle : own'[h] = b
    <3>1. PICK h \in Handle : own[h] = b
      BY <1>4, <1>6 DEF Memory
    <3>2. h # Raw
      BY <1>6, <3>1
    <3> QED
      BY <1>5, <3>1, <3>2, Handles
  <2>3. ASSUME NEW h \in Handle, own'[h] # Null
        PROVE  own'[h] \in DOMAIN heap' /\ \A g \in Handle \ {h} : own'[g] # own'[h]
    <3>1. h # Scratch
      BY <1>5, <2>3
    <3>2. CASE h = Raw
      <4>1. \A g \in Handle \ {Raw, Scratch} : own[g] # own[Scratch]
        BY <1>2, OwnedLives, Handles
      <4> QED
        BY <1>2, <1>5, <1>6, <3>2, <4>1
    <3>3. CASE h # Raw
      <4>1. own'[h] = own[h]
        BY <1>5, <3>1, <3>3
      <4>2. own[h] \in DOMAIN heap /\ \A g \in Handle : g # h => own[g] # own[h]
        BY <2>3, <4>1, OwnedLives
      <4>3. own[h] # own[Raw] /\ own[h] # own[Scratch]
        BY <3>1, <3>3, <4>2, Handles
      <4>4. ASSUME NEW g \in Handle \ {h} PROVE own'[g] # own[h]
        BY <1>5, <2>3, <4>1, <4>2, <4>3
      <4> QED
        BY <1>6, <4>1, <4>2, <4>3, <4>4
    <3> QED
      BY <3>2, <3>3
  <2> QED
    BY <1>1, <1>4, <1>5, <1>6, <2>1, <2>2, <2>3 DEF Memory
<1>8. TypeInv'
  <2>1. scr' \in 0 .. next' - 1
    BY <1>1, <1>4 DEF Memory, Null
  <2> QED
    BY <1>1, <1>2, <1>7, <2>1, MemoryNext DEF IInv, TypeInv, Building
<1>9. Ownership'
  BY <1>7, MemoryNext
<1>10. InPlaceInv'
  <2>1. Owned({Raw}, {InplaceScr})' /\ own'[InplaceScr] = Null
    BY <1>2, <1>5, Handles DEF Owned
  <2>2. Sorted(vals, sortedMode)'
    BY <1>1, <1>2, <1>6 DEF Sorted, Wide
  <2> QED
    BY <1>1, <1>2, <1>5, <2>1, <2>2 DEF InPlaceInv, NoCopies
<1>11. FileInv'
  BY <1>1, FileKept
<1>12. LoopInv' /\ GivenInv' /\ BuildInv'
  BY <1>1, <1>2 DEF LoopInv, GivenInv, BuildInv, Building
<1> QED
  BY <1>1, <1>8, <1>9, <1>10, <1>11, <1>12 DEF IInv, PingPongInv, MortonInv, NCopyInv

LEMMA InPlaceScratchKeeps == ASSUME IInv, InPlaceScratch PROVE IInv'
<1>1. /\ pc = "inplace"
      /\ pc' = IF opt.layout = "Morton" THEN "morton" ELSE IF opt.save THEN "save" ELSE "ready"
      /\ UNCHANGED <<opt, dense, k, vals, scr, ncopy, layout, fiberSorted, csr, sortedMode, dnp>>
  BY DEF InPlaceScratch, Built, views, flags
<1>2. layout = "InPlace"
  BY <1>1 DEF IInv, BuildInv, PingPongInv, MortonInv, NCopyInv, TypeInv, Building, Copying, Driving
<1>3. /\ Owned({Raw}, {InplaceScr}) /\ own[InplaceScr] = Null
      /\ vals = own[Raw] /\ scr = Null /\ Sorted(vals, sortedMode)
      /\ NoCopies /\ fiberSorted = {} /\ csr = {}
  BY <1>1, <1>2 DEF IInv, InPlaceInv
<1>4. /\ Memory(heap', own', next') /\ next' \in Nat /\ next =< next' /\ next \in Nat
      /\ \A g \in Handle : g # InplaceScr => own'[g] = own[g]
      /\ \A b \in DOMAIN heap : heap'[b] = heap[b]
  <2>1. CASE Alloc(InplaceScr, Bare(Junk))
    <3>1. /\ Memory(heap', own', next') /\ next' = next + 1 /\ next \in Nat \ {0}
          /\ \A g \in Handle : g # InplaceScr => own'[g] = own[g]
          /\ \A b \in DOMAIN heap : heap'[b] = heap[b]
      BY <1>3, <2>1, NewBlock, Handles, Contents
    <3> QED
      BY <3>1
  <2>2. CASE UNCHANGED slabs
    <3>1. heap' = heap /\ own' = own /\ next' = next
      BY <2>2 DEF slabs
    <3>2. Memory(heap, own, next)
      BY MemoryNow
    <3> QED
      BY <3>1, <3>2 DEF Memory
  <2> QED
    BY <2>1, <2>2 DEF InPlaceScratch
<1>5. TypeInv'
  <2>1. scr' \in 0 .. next' - 1 /\ ncopy' \in [Mode -> 0 .. next' - 1] /\ vals' \in 0 .. next' - 1
    BY <1>1, <1>4 DEF IInv, TypeInv
  <2> QED
    BY <1>1, <1>4, <2>1, MemoryNext DEF IInv, TypeInv, Building, Driving
<1>6. Ownership'
  BY <1>4, MemoryNext
<1>7. InPlaceInv'
  <2>1. own[Raw] # Null /\ own'[Raw] = own[Raw]
    BY <1>3, <1>4, Handles DEF Owned
  <2>2. Owned({Raw}, {InplaceScr})'
    BY <1>3, <1>4, <2>1 DEF Owned
  <2>3. vals \in DOMAIN heap
    BY <1>3, <2>1, OwnedLives, Handles
  <2>4. Sorted(vals, sortedMode)'
    BY <1>1, <1>3, <1>4, <2>3 DEF Sorted, Wide
  <2>5. ~ opt'.runtime
    BY <1>1, <1>2 DEF IInv, InPlaceInv
  <2> QED
    BY <1>1, <1>2, <1>3, <2>1, <2>2, <2>4, <2>5 DEF InPlaceInv, NoCopies, Driving
<1>8. FileInv'
  BY <1>1, FileKept
<1>9. LoopInv' /\ GivenInv' /\ BuildInv'
  BY <1>1, <1>2 DEF IInv, LoopInv, GivenInv, BuildInv, Building
<1> QED
  BY <1>1, <1>2, <1>5, <1>6, <1>7, <1>8, <1>9 DEF IInv, PingPongInv, MortonInv, NCopyInv

\* The slabs where the Morton layout is built.
LEMMA AtMorton ==
  ASSUME IInv, pc = "morton"
  PROVE  /\ layout = "InPlace" /\ Owned({Raw}, {InplaceScr}) /\ own[Raw] # Null
         /\ vals = own[Raw] /\ scr = Null /\ Sorted(vals, sortedMode)
         /\ NoCopies /\ fiberSorted = {} /\ csr = {}
<1>1. layout = "InPlace"
  BY DEF IInv, BuildInv, PingPongInv, MortonInv, NCopyInv, TypeInv, Building, Copying, Driving
<1>2. /\ Owned({Raw}, {InplaceScr})
      /\ vals = own[Raw] /\ scr = Null /\ Sorted(vals, sortedMode)
      /\ NoCopies /\ fiberSorted = {} /\ csr = {}
  BY <1>1 DEF IInv, InPlaceInv
<1> QED
  BY <1>1, <1>2, Handles DEF Owned

LEMMA MortonFailsKeeps == ASSUME IInv, MortonFails PROVE IInv'
<1>1. /\ pc = "morton" /\ pc' = IF opt.save THEN "save" ELSE "ready"
      /\ UNCHANGED <<opt, dense, k, heap, next, own, vals, scr, ncopy, layout, fiberSorted, csr,
                     sortedMode, dnp>>
  BY DEF MortonFails, Built, slabs, views, flags
<1>2. layout = "InPlace"
  BY <1>1, AtMorton
<1>3. TypeInv'
  BY <1>1 DEF IInv, TypeInv, Driving, Building
<1>4. Ownership'
  BY <1>1 DEF IInv, Ownership, Live
<1>5. InPlaceInv'
  BY <1>1, <1>2 DEF IInv, InPlaceInv, NoCopies, Owned, Sorted, Wide, Driving
<1>6. FileInv'
  BY <1>1, FileKept
<1>7. LoopInv' /\ GivenInv' /\ BuildInv'
  BY <1>1, <1>2 DEF IInv, LoopInv, GivenInv, BuildInv, Building
<1> QED
  BY <1>1, <1>2, <1>3, <1>4, <1>5, <1>6, <1>7 DEF IInv, PingPongInv, MortonInv, NCopyInv

LEMMA MortonKeeps == ASSUME IInv, Morton PROVE IInv'
<1>1. /\ pc = "morton"
      /\ heap' = With(Without({own[Raw], own[Scratch]}), next, Bare(<<"morton", 0>>))
      /\ own' = [own EXCEPT ![MortonBuf] = next, ![Raw] = Null, ![Scratch] = Null]
      /\ next' = next + 1 /\ vals' = Null /\ scr' = Null /\ layout' = "Morton"
      /\ pc' = IF opt.save THEN "save" ELSE "ready"
      /\ UNCHANGED <<opt, dense, k, ncopy, fiberSorted, csr, sortedMode, dnp>>
  BY DEF Morton, Built, SoaSlabs
<1>2. /\ layout = "InPlace" /\ Owned({Raw}, {InplaceScr}) /\ own[Raw] # Null
      /\ NoCopies /\ fiberSorted = {} /\ csr = {}
  BY <1>1, AtMorton
<1>3. own[Scratch] = Null /\ own[MortonBuf] = Null
  BY <1>2, Handles DEF Owned
<1>4. Memory(heap, own, next) /\ own \in [Handle -> 0 .. next - 1] /\ next \in Nat \ {0}
      /\ DOMAIN heap \subseteq 1 .. next - 1
  BY MemoryNow DEF Memory
<1> DEFINE H == Restrict(heap, DOMAIN heap \ {own[Raw]})
           O == [own EXCEPT ![Raw] = Null]
<1>5. Memory(H, O, next)
  BY <1>4, Loses, Handles
<1>6. O[MortonBuf] = Null /\ O \in [Handle -> 0 .. next - 1]
  BY <1>3, <1>4, Handles DEF Null
<1>7. Memory(With(H, next, Bare(<<"morton", 0>>)), [O EXCEPT ![MortonBuf] = next], next + 1)
  <2> HIDE DEF H, O
  <2> QED
    BY <1>5, <1>6, Gains, Handles, Contents
<1>8. heap' = With(H, next, Bare(<<"morton", 0>>))
  <2>1. DOMAIN heap \ {own[Raw], own[Scratch]} = DOMAIN heap \ {own[Raw]}
    BY <1>3, <1>4 DEF Null
  <2> QED
    BY <1>1, <2>1 DEF Without
<1>9. own' = [O EXCEPT ![MortonBuf] = next]
  BY <1>1, <1>3, <1>4, Handles DEF Null
<1>10. Memory(heap', own', next')
  BY <1>1, <1>7, <1>8, <1>9
<1>11. own'[MortonBuf] = next /\ own'[Raw] = Null /\ own'[Scratch] = Null
       /\ \A h \in Handle : h \notin {MortonBuf, Raw, Scratch} => own'[h] = own[h]
  BY <1>1, <1>4, Handles DEF Null
<1>12. TypeInv'
  <2>1. Null \in 0 .. next' - 1 /\ ncopy' \in [Mode -> 0 .. next' - 1]
    BY <1>1, <1>4 DEF IInv, TypeInv, Null
  <2> QED
    BY <1>1, <1>10, <2>1, MemoryNext DEF IInv, TypeInv, Building, Driving
<1>13. Ownership'
  BY <1>10, MemoryNext
<1>14. MortonInv'
  <2>1. Owned({MortonBuf}, {InplaceScr})'
    BY <1>2, <1>4, <1>11, Handles DEF Owned, Null
  <2>2. heap'[next].order = <<"morton", 0>>
    <3>1. heap' = [x \in DOMAIN H \cup {next} |->
                     IF x = next THEN Bare(<<"morton", 0>>) ELSE H[x]]
      BY <1>8 DEF With
    <3> HIDE DEF H
    <3> QED
      BY <3>1 DEF Bare
  <2> QED
    BY <1>1, <1>2, <1>11, <2>1, <2>2 DEF MortonInv, NoCopies, Driving
<1>15. FileInv'
  BY <1>1, FileKept
<1>16. LoopInv' /\ GivenInv' /\ BuildInv'
  BY <1>1, <1>2 DEF IInv, LoopInv, GivenInv, BuildInv, Building
<1> QED
  BY <1>1, <1>12, <1>13, <1>14, <1>15, <1>16 DEF IInv, PingPongInv, InPlaceInv, NCopyInv

-----------------------------------------------------------------------------
(* The copies are filled one from the other. *)

\* The slabs when i copies are filled and j have a slab.
Scattered(i, j) ==
  /\ \A n \in Mode : n < j => ncopy[n] = own[Home(n)] /\ own[Home(n)] # Null
  /\ \A n \in Mode : n < i => heap[ncopy[n]].order = Shard(n) /\ Wide(ncopy[n])
  /\ \A n \in Mode : n >= j => ncopy[n] = Null /\ (n >= 2 => own[NCopyRaw(n)] = Null)
  /\ \A n \in Mode : own[Compact(n)] = Null /\ own[Rowptr(n)] = Null
  /\ own[SortTemp] = Null /\ own[InplaceScr] = Null /\ own[MortonBuf] = Null
  /\ vals = own[Scratch] /\ scr = own[Raw] /\ vals # Null /\ scr # Null
  /\ fiberSorted = {} /\ csr = {} /\ ~ opt.runtime

\* Copies are made in a process that was given a tensor, not a file.
LEMMA AtCopying ==
  ASSUME IInv, pc \in Copying
  PROVE  /\ layout = "NCopy" /\ ~ opt.runtime /\ NCopyInv /\ opt \in Options
         /\ opt.layout = "NCopy" /\ dense \in Densities(opt) /\ dense \subseteq Mode
         /\ pc \notin {"start", "load"}
<1>1. layout = "NCopy"
  BY DEF IInv, BuildInv, PingPongInv, InPlaceInv, MortonInv, TypeInv, Building, Copying, Driving
<1>2. NCopyInv /\ ~ opt.runtime
  BY <1>1 DEF IInv, NCopyInv, Building, Copying, Driving
<1>3. pc # "start" /\ pc # "load" /\ pc \notin Building
  BY DEF Copying, Building
<1> QED
  BY <1>1, <1>2, <1>3 DEF IInv, TypeInv, GivenInv

LEMMA AtSlab ==
  ASSUME IInv, pc \in {"slab", "remap"}
  PROVE  /\ k \in 1 .. N - 1
         /\ pc = "slab" => Scattered(k, k)
         /\ pc = "remap" => Scattered(k, k + 1)
<1>1. k \in 1 .. N - 1 /\ N \in Nat
  BY Modes DEF IInv, TypeInv, LoopInv
<1>2. layout = "NCopy" /\ ~ opt.runtime /\ NCopyInv
  BY AtCopying DEF Copying
<1>3. /\ own[InplaceScr] = Null /\ own[MortonBuf] = Null /\ own[SortTemp] = Null
      /\ vals = own[Scratch] /\ scr = own[Raw] /\ scr # Null
      /\ CopyInv /\ fiberSorted = IF FiberPass THEN dense \cap Passed ELSE {}
      /\ csr = IF CsrPass THEN dense \cap Passed ELSE {}
      /\ vals = Null <=> Packed(1)
  BY <1>2 DEF NCopyInv
<1>4. Passed = {} /\ Filled = 0 .. k - 1
      /\ Present = IF pc = "slab" THEN 0 .. k - 1 ELSE 0 .. k
  BY DEF Passed, Filled, Present
<1>5. fiberSorted = {} /\ csr = {}
  BY <1>3, <1>4
<1>6. \A n \in Mode : ~ Packed(n) /\ own[Rowptr(n)] = Null
  BY <1>3, <1>4, <1>5 DEF CopyInv
<1>7. \A n \in Present : ncopy[n] = own[Home(n)] /\ own[Home(n)] # Null
  <2>1. Present \subseteq Mode
    BY <1>1, <1>4 DEF Mode
  <2> QED
    BY <1>3, <1>6, <2>1 DEF CopyInv
<1>8. \A n \in Filled : heap[ncopy[n]].order = Shard(n) /\ Wide(ncopy[n])
  <2>1. Filled \subseteq Mode
    BY <1>1, <1>4 DEF Mode
  <2> QED
    BY <1>3, <1>5, <1>6, <2>1 DEF CopyInv, Wide
<1>9. \A n \in Mode \ Present : ncopy[n] = Null /\ (n >= 2 => own[NCopyRaw(n)] = Null)
  BY <1>3 DEF CopyInv
<1>10. vals # Null
  BY <1>3, <1>6, Modes
<1>11. ASSUME NEW i \in {k}, NEW j \in {k, k + 1}, Present = 0 .. j - 1
       PROVE  Scattered(i, j)
  <2>1. \A n \in Mode : (n < j <=> n \in Present) /\ (n < i <=> n \in Filled)
    BY <1>1, <1>4, <1>11 DEF Mode
  <2>2. \A n \in Mode : n >= j => n \notin Present
    BY <1>1, <2>1, <1>11 DEF Mode
  <2>3. \A n \in Mode : n < j => ncopy[n] = own[Home(n)] /\ own[Home(n)] # Null
    BY <1>7, <2>1
  <2>4. \A n \in Mode : n < i => heap[ncopy[n]].order = Shard(n) /\ Wide(ncopy[n])
    BY <1>8, <2>1
  <2>5. \A n \in Mode : n >= j => ncopy[n] = Null /\ (n >= 2 => own[NCopyRaw(n)] = Null)
    BY <1>9, <2>2
  <2> QED
    BY <1>2, <1>3, <1>5, <1>6, <1>10, <2>3, <2>4, <2>5 DEF Scattered, Packed
<1>12. k + 1 - 1 = k
  BY <1>1
<1> QED
  BY <1>1, <1>4, <1>11, <1>12

LEMMA ScatteredNext ==
  ASSUME layout' = "NCopy", pc' \in {"slab", "remap"}, k' \in 1 .. N - 1,
         pc' = "slab" => Scattered(k, k)',
         pc' = "remap" => Scattered(k, k + 1)'
  PROVE  NCopyInv'
<1> DEFINE j == IF pc' = "slab" THEN k' ELSE k' + 1
<1>0. N \in Nat /\ k' \in 1 .. N - 1
  BY Modes
<1>1. k' \in Nat /\ 1 =< k' /\ k' =< N - 1 /\ N \in Nat /\ j \in Nat /\ j =< N
  <2>1. k' \in Nat /\ 1 =< k' /\ k' =< N - 1
    BY <1>0
  <2>2. j = k' \/ j = k' + 1
    OBVIOUS
  <2> HIDE DEF j
  <2> QED
    BY <1>0, <2>1, <2>2
<1>2. /\ \A n \in Mode : n < j => ncopy'[n] = own'[Home(n)'] /\ own'[Home(n)'] # Null
      /\ \A n \in Mode : n < k' => heap'[ncopy'[n]].order = Shard(n) /\ Wide(ncopy[n])'
      /\ \A n \in Mode : n >= j => ncopy'[n] = Null /\ (n >= 2 => own'[NCopyRaw(n)] = Null)
      /\ \A n \in Mode : own'[Compact(n)] = Null /\ own'[Rowptr(n)] = Null
      /\ own'[SortTemp] = Null /\ own'[InplaceScr] = Null /\ own'[MortonBuf] = Null
      /\ vals' = own'[Scratch] /\ scr' = own'[Raw] /\ vals' # Null /\ scr' # Null
      /\ fiberSorted' = {} /\ csr' = {} /\ ~ opt'.runtime
  <2>1. CASE pc' = "slab"
    BY <2>1 DEF Scattered
  <2>2. CASE pc' = "remap"
    BY <2>2 DEF Scattered
  <2> QED
    BY <2>1, <2>2
<1>3. Passed' = {}
  BY DEF Passed
<1>4. Present' = IF pc' = "slab" THEN 0 .. k' - 1 ELSE 0 .. k'
  BY DEF Present
<1>5. Filled' = 0 .. k' - 1
  BY DEF Filled
<1>6. \A n \in Mode : (n < j <=> n \in Present') /\ (n < k' <=> n \in Filled')
  <2>1. Present' = 0 .. j - 1
    BY <1>1, <1>4
  <2> HIDE DEF j
  <2> QED
    BY <1>1, <1>5, <2>1, Below
<1> HIDE DEF j
<1>7. Present' \subseteq Mode /\ Filled' \subseteq Mode
  <2>0. k' \in Nat /\ k' =< N
    BY <1>0
  <2>1. 0 .. k' - 1 \subseteq Mode
    BY <2>0, Below
  <2>3. 0 .. k' \subseteq Mode
    BY <1>0, BelowNext
  <2> QED
    BY <1>4, <1>5, <2>1, <2>3
<1>8. \A n \in Mode : n \notin Present' => n >= j
  BY <1>1, <1>6 DEF Mode
<1> HIDE DEF j
<1>9. \A n \in Mode : Packed(n)' <=> FALSE
  BY <1>2 DEF Packed
<1>10. CopyInv'
  <2>1. \A n \in Present' : IF Packed(n)' THEN ncopy'[n] = own'[Compact(n)] /\ own'[Home(n)'] = Null
                            ELSE ncopy'[n] = own'[Home(n)'] /\ own'[Home(n)'] # Null
    BY <1>2, <1>6, <1>7, <1>9
  <2>2. \A n \in Mode \ Present' : ncopy'[n] = Null /\ (n >= 2 => own'[NCopyRaw(n)] = Null)
    BY <1>2, <1>8
  <2>3. \A n \in Filled' :
          /\ heap'[ncopy'[n]].order = IF n \in fiberSorted' THEN Fiber(n) ELSE Shard(n)
          /\ heap'[ncopy'[n]].cols = IF Packed(n)' THEN Mode \ {n} ELSE Mode
    BY <1>2, <1>6, <1>7, <1>9 DEF Wide
  <2>4. \A n \in Mode :
          /\ Packed(n)' <=> n \in dense' \cap Passed' /\ CompactPass' /\ ~ opt'.runtime
          /\ own'[Rowptr(n)] # Null <=> n \in csr'
          /\ n \in csr' => heap'[own'[Rowptr(n)]].order = <<"rowptr", n>>
    BY <1>2, <1>3, <1>9
  <2> QED
    BY <2>1, <2>2, <2>3, <2>4 DEF CopyInv
<1>11. /\ fiberSorted' = IF FiberPass' THEN dense' \cap Passed' ELSE {}
       /\ csr' = IF CsrPass' THEN dense' \cap Passed' ELSE {}
       /\ vals' = Null <=> Packed(1)'
       /\ scr' = Null <=> Packed(0)'
  BY <1>2, <1>3, <1>9, Modes
<1> QED
  BY <1>2, <1>10, <1>11 DEF NCopyInv, Copying


\* What a step that builds the copies has to keep.
LEMMA CopiesKept ==
  ASSUME IInv, pc = "layout" \/ pc \in Copying, layout' = "NCopy", opt.layout = "NCopy",
         ~ opt.runtime, pc' \in {"save", "ready"} \cup Copying, pc' = "save" => opt.save,
         UNCHANGED <<opt, dense, dnp>>,
         TypeInv', LoopInv', Ownership', NCopyInv'
  PROVE  IInv'
<1>1. pc \notin {"start", "load"} /\ pc' \notin Building /\ opt' = opt /\ dense' = dense
  BY DEF Copying, Building
<1>2. dense \in Densities(opt)
  BY <1>1 DEF IInv, GivenInv
<1>3. pc' # "morton"
  BY DEF Copying
<1>4. GivenInv'
  BY <1>1, <1>2, <1>3 DEF GivenInv
<1>5. FileInv'
  BY FileKept
<1> QED
  BY <1>1, <1>4, <1>5 DEF IInv, BuildInv, PingPongInv, InPlaceInv, MortonInv

LEMMA NCopyKeeps == ASSUME IInv, NCopy PROVE IInv'
<1>1. /\ pc = "layout" /\ opt.layout = "NCopy" /\ layout' = "NCopy"
      /\ ncopy' = [ncopy EXCEPT ![0] = vals] /\ k' = 1 /\ pc' = "slab"
      /\ UNCHANGED <<opt, dense, heap, next, own, vals, scr, fiberSorted, csr, sortedMode, dnp>>
  BY DEF NCopy, slabs
<1>2. /\ csr = {} /\ fiberSorted = {} /\ sortedMode = 0 /\ NoCopies
      /\ Owned({Raw, Scratch}, {}) /\ own[Raw] # Null /\ own[Scratch] # Null
      /\ vals = own[Scratch] /\ scr = own[Raw]
      /\ heap[vals].order = Shard(0) /\ Wide(vals) /\ Wide(scr)
      /\ ~ opt.runtime /\ opt \in Options
  BY <1>1, AtLayout
<1>3. /\ ncopy \in [Mode -> 0 .. next - 1] /\ vals \in 0 .. next - 1
  BY DEF IInv, TypeInv
<1>4. ncopy'[0] = vals /\ \A n \in Mode : n # 0 => ncopy'[n] = Null
  BY <1>1, <1>2, <1>3, Modes DEF NoCopies
<1>5. k' \in 1 .. N - 1 /\ k' \in 0 .. N /\ k' < N /\ 1 =< k'
  BY <1>1, Modes
<1>6. TypeInv'
  <2>1. ncopy' \in [Mode -> 0 .. next' - 1]
    BY <1>1, <1>3
  <2> QED
    BY <1>1, <1>2, <1>5, <2>1 DEF IInv, TypeInv, Building, Copying
<1>7. LoopInv'
  BY <1>1, <1>5 DEF LoopInv
<1>8. Ownership'
  BY <1>1 DEF IInv, Ownership, Live
<1>9. Scattered(k, k)'
  <2>1. Home(0)' = Scratch
    BY <1>1, <1>2 DEF Home
  <2>2. \A n \in Mode : (n < 1 => n = 0) /\ (n >= 1 => n # 0)
    BY Modes DEF Mode
  <2>3. ASSUME NEW n \in Mode
        PROVE  own[Compact(n)] = Null /\ own[Rowptr(n)] = Null /\ own[NCopyRaw(n)] = Null
    <3>1. \A h \in Handle : h \notin {Raw, Scratch} => own[h] = Null
      BY <1>2 DEF Owned
    <3>2. /\ {NCopyRaw(n), Compact(n), Rowptr(n)} \subseteq Handle
          /\ {NCopyRaw(n), Compact(n), Rowptr(n)} \cap {Raw, Scratch} = {}
      BY ModeHandles
    <3> QED
      BY <3>1, <3>2
  <2>4. own[SortTemp] = Null /\ own[InplaceScr] = Null /\ own[MortonBuf] = Null
    BY <1>2, Handles DEF Owned
  <2> QED
    BY <1>1, <1>2, <1>4, <2>1, <2>2, <2>3, <2>4 DEF Scattered, Wide
<1>10. NCopyInv'
  BY <1>1, <1>5, <1>9, ScatteredNext
<1> QED
  BY <1>1, <1>2, <1>6, <1>7, <1>8, <1>10, CopiesKept DEF Copying

LEMMA SlabKeeps == ASSUME IInv, EnsureNCopySlab PROVE IInv'
<1>1. /\ pc = "slab" /\ pc' = "remap"
      /\ UNCHANGED <<opt, dense, k, vals, scr, layout, fiberSorted, csr, sortedMode, dnp>>
  BY DEF EnsureNCopySlab, flags
<1>2. k \in 1 .. N - 1 /\ Scattered(k, k)
  BY <1>1, AtSlab
<1>3. /\ layout = "NCopy" /\ ~ opt.runtime /\ opt.layout = "NCopy" /\ pc \in Copying
  BY <1>1, AtCopying DEF Copying
<1>4. /\ ncopy \in [Mode -> 0 .. next - 1] /\ vals \in 0 .. next - 1 /\ scr \in 0 .. next - 1
      /\ next \in Nat \ {0} /\ k \in Mode /\ N \in Nat
  <2>1. /\ ncopy \in [Mode -> 0 .. next - 1] /\ vals \in 0 .. next - 1 /\ scr \in 0 .. next - 1
        /\ next \in Nat \ {0}
    BY DEF IInv, TypeInv
  <2> QED
    BY <1>2, <2>1, Modes DEF Mode
<1>5. Home(k) = IF k = 1 THEN Raw ELSE NCopyRaw(k)
  BY <1>2, <1>3 DEF Home
<1>6. /\ Memory(heap', own', next') /\ next' \in Nat \ {0} /\ next =< next'
      /\ ncopy' \in [Mode -> 0 .. next' - 1]
      /\ \A n \in Mode : n # k => ncopy'[n] = ncopy[n]
      /\ ncopy'[k] = own'[Home(k)] /\ own'[Home(k)] # Null
      /\ \A h \in Handle : h # Home(k) => own'[h] = own[h]
      /\ k = 1 => own' = own
      /\ \A b \in DOMAIN heap : heap'[b] = heap[b]
  <2>1. CASE k = 1
    <3>1. /\ ncopy' = [ncopy EXCEPT ![1] = scr]
          /\ heap' = heap /\ own' = own /\ next' = next
      BY <2>1 DEF EnsureNCopySlab, Mate, slabs
    <3>2. Memory(heap', own', next')
      BY <3>1, MemoryNow
    <3>3. scr = own[Raw] /\ scr # Null
      BY <1>2 DEF Scattered
    <3> QED
      BY <1>4, <1>5, <2>1, <3>1, <3>2, <3>3
  <2>2. CASE k # 1
    <3>1. Alloc(NCopyRaw(k), Full(Junk)) /\ ncopy' = [ncopy EXCEPT ![k] = next]
      BY <2>2 DEF EnsureNCopySlab
    <3>2. k >= 2
      BY <1>2, <2>2, Modes
    <3>3. own[NCopyRaw(k)] = Null
      <4>1. k >= k
        BY <1>2
      <4> QED
        BY <1>2, <1>4, <3>2, <4>1 DEF Scattered
    <3>4. /\ Memory(heap', own', next') /\ next' = next + 1
          /\ own'[NCopyRaw(k)] = next
          /\ \A g \in Handle : g # NCopyRaw(k) => own'[g] = own[g]
          /\ \A b \in DOMAIN heap : heap'[b] = heap[b]
      BY <1>4, <3>1, <3>3, NewBlock, ModeHandles, Contents
    <3>5. ncopy' \in [Mode -> 0 .. next' - 1]
      BY <1>4, <3>1, <3>4
    <3>6. next # Null /\ next' \in Nat \ {0} /\ next =< next'
      BY <1>4, <3>4 DEF Null
    <3> QED
      BY <1>4, <1>5, <2>2, <3>1, <3>4, <3>5, <3>6
  <2> QED
    BY <2>1, <2>2
<1>7. TypeInv'
  <2>1. scr' \in 0 .. next' - 1 /\ vals' \in 0 .. next' - 1
    BY <1>1, <1>4, <1>6
  <2> QED
    BY <1>1, <1>6, <2>1, MemoryNext DEF IInv, TypeInv, Building, Copying
<1>8. LoopInv'
  BY <1>1 DEF IInv, LoopInv
<1>9. Ownership'
  BY <1>6, MemoryNext
<1>10. Scattered(k, k + 1)'
  <2>1. \A n \in Mode : (n < k + 1 <=> n < k \/ n = k) /\ (n >= k + 1 => n >= k /\ n # k)
    BY <1>2 DEF Mode
  <2>2. \A n \in Mode : Home(n)' = Home(n)
    BY <1>1 DEF Home
  <2>3. \A n \in Mode : n # k => own'[Home(n)] = own[Home(n)]
    BY <1>4, <1>6, Homes
  <2>4. ASSUME NEW n \in Mode, n < k + 1
        PROVE  ncopy'[n] = own'[Home(n)'] /\ own'[Home(n)'] # Null
    BY <1>2, <1>6, <2>1, <2>2, <2>3, <2>4 DEF Scattered
  <2>5. ASSUME NEW n \in Mode, n < k
        PROVE  heap'[ncopy'[n]].order = Shard(n) /\ heap'[ncopy'[n]].cols = Mode
    <3>1. n # k
      BY <1>2, <2>5
    <3>2. ncopy[n] = own[Home(n)] /\ own[Home(n)] # Null
      BY <1>2, <2>5 DEF Scattered
    <3>3. ncopy[n] \in DOMAIN heap
      BY <3>2, OwnedLives, Homes
    <3> QED
      BY <1>2, <1>6, <2>5, <3>1, <3>3 DEF Scattered, Wide
  <2>6. ASSUME NEW n \in Mode, n >= k + 1
        PROVE  ncopy'[n] = Null /\ (n >= 2 => own'[NCopyRaw(n)] = Null)
    <3>1. n >= k /\ n # k
      BY <2>1, <2>6
    <3>2. NCopyRaw(n) \in Handle /\ NCopyRaw(n) # Home(k)
      BY <1>4, <1>5, <3>1, Handles, ModeHandles
    <3> QED
      BY <1>2, <1>6, <3>1, <3>2 DEF Scattered
  <2>7. ASSUME NEW n \in Mode PROVE own'[Compact(n)] = Null /\ own'[Rowptr(n)] = Null
    <3>1. Compact(n) # Home(k) /\ Rowptr(n) # Home(k)
      BY <1>4, Homes
    <3> QED
      BY <1>2, <1>6, <3>1, ModeHandles DEF Scattered
  <2>8. own'[SortTemp] = Null /\ own'[InplaceScr] = Null /\ own'[MortonBuf] = Null
    <3>1. Home(k) \notin {SortTemp, InplaceScr, MortonBuf}
      BY <1>4, Homes
    <3> QED
      BY <1>2, <1>6, <3>1, Handles DEF Scattered
  <2>9. own'[Raw] = own[Raw] /\ own'[Scratch] = own[Scratch]
    <3>1. k # 1 => Home(k) # Raw /\ Home(k) # Scratch
      BY <1>4, <1>5, ModeHandles
    <3> QED
      BY <1>6, <3>1, Handles
  <2>10. k' = k
    BY <1>1
  <2> QED
    BY <1>1, <1>2, <2>4, <2>5, <2>6, <2>7, <2>8, <2>9, <2>10 DEF Scattered, Wide
<1>11. NCopyInv'
  <2>1. layout' = "NCopy" /\ k' \in 1 .. N - 1
    BY <1>1, <1>2, <1>3
  <2> QED
    BY <1>1, <1>10, <2>1, ScatteredNext
<1> QED
  BY <1>1, <1>3, <1>7, <1>8, <1>9, <1>11, CopiesKept DEF Copying


\* The slabs when the fiber pass is through with the copies of D.
Through(D) ==
  /\ \A n \in Mode :
       /\ IF Packed(n) THEN ncopy[n] = own[Compact(n)] /\ own[Home(n)] = Null
                       ELSE ncopy[n] = own[Home(n)] /\ own[Home(n)] # Null
       /\ heap[ncopy[n]].order = IF n \in fiberSorted THEN Fiber(n) ELSE Shard(n)
       /\ heap[ncopy[n]].cols = IF Packed(n) THEN Mode \ {n} ELSE Mode
       /\ Packed(n) <=> n \in D /\ CompactPass
       /\ own[Rowptr(n)] # Null <=> n \in csr
       /\ n \in csr => heap[own[Rowptr(n)]].order = <<"rowptr", n>>
  /\ own[InplaceScr] = Null /\ own[MortonBuf] = Null
  /\ fiberSorted = IF FiberPass THEN D ELSE {}
  /\ csr = IF CsrPass THEN D ELSE {}
  /\ vals = Null <=> Packed(1)
  /\ scr = Null <=> Packed(0)
  /\ vals # Null /\ scr # Null => vals = ncopy[0] /\ scr = ncopy[1]

LEMMA ThroughNow ==
  ASSUME IInv, pc \in {"temp", "fiber", "place"}
  PROVE  /\ Through(dense \cap Passed)
         /\ own[SortTemp] # Null <=> pc \in {"fiber", "place"}
<1>1. NCopyInv /\ layout = "NCopy" /\ ~ opt.runtime
  BY AtCopying DEF Copying
<1>2. Present = Mode /\ Filled = Mode
  BY DEF Present, Filled
<1>3. CopyInv
  BY <1>1 DEF NCopyInv
<1>4. /\ own[InplaceScr] = Null /\ own[MortonBuf] = Null
      /\ own[SortTemp] # Null <=> pc \in {"fiber", "place"}
      /\ fiberSorted = IF FiberPass THEN dense \cap Passed ELSE {}
      /\ csr = IF CsrPass THEN dense \cap Passed ELSE {}
      /\ vals = Null <=> Packed(1)
      /\ scr = Null <=> Packed(0)
      /\ vals # Null /\ scr # Null => vals = ncopy[0] /\ scr = ncopy[1]
  BY <1>1 DEF NCopyInv
<1>5. ASSUME NEW n \in Mode
      PROVE  /\ IF Packed(n) THEN ncopy[n] = own[Compact(n)] /\ own[Home(n)] = Null
                             ELSE ncopy[n] = own[Home(n)] /\ own[Home(n)] # Null
             /\ heap[ncopy[n]].order = IF n \in fiberSorted THEN Fiber(n) ELSE Shard(n)
             /\ heap[ncopy[n]].cols = IF Packed(n) THEN Mode \ {n} ELSE Mode
             /\ Packed(n) <=> n \in dense \cap Passed /\ CompactPass
             /\ own[Rowptr(n)] # Null <=> n \in csr
             /\ n \in csr => heap[own[Rowptr(n)]].order = <<"rowptr", n>>
  BY <1>1, <1>2, <1>3 DEF CopyInv
<1> QED
  BY <1>4, <1>5 DEF Through

LEMMA ThroughNext ==
  ASSUME layout' = "NCopy", pc' \in {"temp", "fiber", "place", "save", "ready"},
         ~ opt'.runtime, own'[SortTemp] # Null <=> pc' \in {"fiber", "place"},
         Through(dense \cap Passed)'
  PROVE  NCopyInv'
<1>1. Present' = Mode /\ Filled' = Mode
  BY DEF Present, Filled
<1>2. ASSUME NEW n \in Mode
      PROVE  /\ IF Packed(n)' THEN ncopy'[n] = own'[Compact(n)] /\ own'[Home(n)'] = Null
                              ELSE ncopy'[n] = own'[Home(n)'] /\ own'[Home(n)'] # Null
             /\ heap'[ncopy'[n]].order = IF n \in fiberSorted' THEN Fiber(n) ELSE Shard(n)
             /\ heap'[ncopy'[n]].cols = IF Packed(n)' THEN Mode \ {n} ELSE Mode
             /\ Packed(n)' <=> n \in dense' \cap Passed' /\ CompactPass'
             /\ own'[Rowptr(n)] # Null <=> n \in csr'
             /\ n \in csr' => heap'[own'[Rowptr(n)]].order = <<"rowptr", n>>
  BY DEF Through
<1>3. CopyInv'
  BY <1>1, <1>2 DEF CopyInv
<1>4. /\ own'[InplaceScr] = Null /\ own'[MortonBuf] = Null
      /\ fiberSorted' = IF FiberPass' THEN dense' \cap Passed' ELSE {}
      /\ csr' = IF CsrPass' THEN dense' \cap Passed' ELSE {}
      /\ vals' = Null <=> Packed(1)'
      /\ scr' = Null <=> Packed(0)'
      /\ vals' # Null /\ scr' # Null => vals' = ncopy'[0] /\ scr' = ncopy'[1]
  BY DEF Through
<1> QED
  BY <1>3, <1>4 DEF NCopyInv, Copying, Driving

LEMMA RemapKeeps == ASSUME IInv, Remap PROVE IInv'
<1>1. /\ pc = "remap" /\ heap' = [heap EXCEPT ![ncopy[k]] = Full(Shard(k))]
      /\ \/ k < N - 1 /\ k' = k + 1 /\ pc' = "slab"
         \/ ~ (k < N - 1) /\ k' = 0 /\ pc' = IF FiberPass THEN "temp" ELSE Built
      /\ UNCHANGED <<opt, dense, next, own, vals, scr, ncopy, layout, fiberSorted, csr,
                     sortedMode, dnp>>
  BY DEF Remap, views, flags
<1>2. k \in 1 .. N - 1 /\ Scattered(k, k + 1) /\ k \in Mode
  BY <1>1, AtSlab, Modes DEF Mode
<1>3. /\ layout = "NCopy" /\ ~ opt.runtime /\ opt.layout = "NCopy" /\ pc \in Copying
  BY <1>1, AtCopying DEF Copying
<1>4. ncopy[k] = own[Home(k)] /\ own[Home(k)] # Null
  BY <1>2 DEF Scattered
<1>5. ncopy[k] \in DOMAIN heap /\ \A n \in Mode : n < k => ncopy[n] # ncopy[k] /\ ncopy[n] \in DOMAIN heap
  <2>1. \A n \in Mode : n < k => n # k /\ ncopy[n] = own[Home(n)] /\ own[Home(n)] # Null
    BY <1>2 DEF Scattered
  <2>2. ASSUME NEW n \in Mode, n < k PROVE ncopy[n] # ncopy[k] /\ ncopy[n] \in DOMAIN heap
    <3>1. Home(n) # Home(k) /\ Home(n) \in Handle /\ Home(k) \in Handle
      BY <1>2, <2>1, <2>2, Homes
    <3> QED
      BY <1>4, <2>1, <2>2, <3>1, OwnedLives
  <2>3. ncopy[k] \in DOMAIN heap
    BY <1>2, <1>4, OwnedLives, Homes
  <2> QED
    BY <2>2, <2>3
<1>6. /\ Memory(heap', own', next') /\ heap'[ncopy[k]] = Full(Shard(k))
      /\ \A b \in DOMAIN heap : b # ncopy[k] => heap'[b] = heap[b]
  <2>1. Full(Shard(k)) \in Content
    BY <1>2, Contents
  <2> QED
    BY <1>1, <1>5, <2>1, MemoryNow, Writes
<1>7. pc' \in {"slab", "temp", "save", "ready"} /\ (pc' = "save" => opt.save)
  BY <1>1 DEF Built
<1>8. TypeInv'
  <2>1. k' \in 0 .. N
    BY <1>1, <1>2, Modes
  <2> QED
    BY <1>1, <1>6, <1>7, <2>1, MemoryNext DEF IInv, TypeInv, Building, Copying, Driving
<1>9. LoopInv'
  <2>1. CASE k < N - 1
    <3>1. pc' = "slab" /\ 1 =< k' /\ k' < N
      BY <1>1, <1>2, <2>1, Modes
    <3> QED
      BY <3>1 DEF LoopInv
  <2>2. CASE ~ (k < N - 1)
    <3>1. k' = 0 /\ pc' \in {"temp", "save", "ready"} /\ (pc' = "temp" => FiberPass)
      BY <1>1, <2>2 DEF Built
    <3>2. FiberPass' <=> FiberPass
      BY <1>1 DEF FiberPass
    <3> QED
      BY <3>1, <3>2 DEF LoopInv
  <2> QED
    BY <2>1, <2>2
<1>10. Ownership'
  BY <1>6, MemoryNext
<1>11. \A n \in Mode : n < k + 1 => heap'[ncopy[n]].order = Shard(n) /\ heap'[ncopy[n]].cols = Mode
  <2>1. \A n \in Mode : n < k + 1 => n < k \/ n = k
    BY <1>2 DEF Mode
  <2>2. heap'[ncopy[k]].order = Shard(k) /\ heap'[ncopy[k]].cols = Mode
    BY <1>6 DEF Full
  <2>3. \A n \in Mode : n < k => heap'[ncopy[n]].order = Shard(n) /\ heap'[ncopy[n]].cols = Mode
    BY <1>2, <1>5, <1>6 DEF Scattered, Wide
  <2> QED
    BY <2>1, <2>2, <2>3
<1>12. \A n \in Mode : Home(n)' = Home(n)
  BY <1>1 DEF Home
<1>13. CASE k < N - 1
  <2>1. k' = k + 1 /\ pc' = "slab" /\ k' \in 1 .. N - 1
    BY <1>1, <1>2, <1>13, Modes
  <2>2. Scattered(k, k)'
    BY <1>1, <1>2, <1>11, <1>12, <2>1 DEF Scattered, Wide
  <2>3. NCopyInv'
    BY <1>1, <1>3, <2>1, <2>2, ScatteredNext
  <2> QED
    BY <1>1, <1>3, <1>7, <1>8, <1>9, <1>10, <2>3, CopiesKept DEF Copying
<1>14. CASE ~ (k < N - 1)
  <2>1. k' = 0 /\ pc' = IF FiberPass THEN "temp" ELSE Built
    BY <1>1, <1>14
  <2>2. \A n \in Mode : n < k + 1
    BY <1>2, <1>14, Modes DEF Mode
  <2>3. /\ FiberPass' <=> FiberPass
        /\ CsrPass' => FiberPass
        /\ CompactPass' => FiberPass
    BY <1>1 DEF FiberPass, CsrPass, CompactPass
  <2>4. Passed' = IF pc' = "temp" THEN {} ELSE Mode
    BY <1>7, <2>1 DEF Passed, Built
  <2>5. \A n \in Mode : Packed(n)' <=> FALSE
    BY <1>1, <1>2 DEF Packed, Scattered
  <2>6. FiberPass => dense' \cap Passed' = {}
    BY <2>1, <2>4
  <2>7. Through(dense \cap Passed)'
    <3>1. ASSUME NEW n \in Mode
          PROVE  /\ ncopy'[n] = own'[Home(n)'] /\ own'[Home(n)'] # Null
                 /\ heap'[ncopy'[n]].order = IF n \in fiberSorted' THEN Fiber(n) ELSE Shard(n)
                 /\ heap'[ncopy'[n]].cols = Mode
                 /\ own'[Rowptr(n)] = Null /\ n \notin csr'
      BY <1>1, <1>2, <1>11, <1>12, <2>2 DEF Scattered
    <3>2. ASSUME NEW n \in Mode PROVE ~ (n \in dense' \cap Passed' /\ CompactPass')
      BY <2>3, <2>6
    <3>3. /\ own'[InplaceScr] = Null /\ own'[MortonBuf] = Null
          /\ fiberSorted' = {} /\ csr' = {} /\ vals' # Null /\ scr' # Null
          /\ vals' = own'[Scratch] /\ scr' = own'[Raw]
      BY <1>1, <1>2 DEF Scattered
    <3>4. Home(0)' = Scratch /\ Home(1)' = Raw
      BY <1>1, <1>3 DEF Home
    <3>5. vals' = ncopy'[0] /\ scr' = ncopy'[1]
      BY <3>1, <3>3, <3>4, Modes
    <3>6. /\ fiberSorted' = IF FiberPass' THEN dense' \cap Passed' ELSE {}
          /\ csr' = IF CsrPass' THEN dense' \cap Passed' ELSE {}
      BY <2>3, <2>6, <3>3
    <3> QED
      BY <2>5, <3>1, <3>2, <3>3, <3>5, <3>6, Modes DEF Through
  <2>8. NCopyInv'
    <3>1. pc' \in {"temp", "save", "ready"} /\ layout' = "NCopy" /\ ~ opt'.runtime
      BY <1>1, <1>3, <1>7, <2>1 DEF Built
    <3>2. own'[SortTemp] = Null
      BY <1>1, <1>2 DEF Scattered
    <3> QED
      BY <2>7, <3>1, <3>2, ThroughNext
  <2> QED
    BY <1>1, <1>3, <1>7, <1>8, <1>9, <1>10, <2>8, CopiesKept DEF Copying
<1> QED
  BY <1>13, <1>14


-----------------------------------------------------------------------------
(* The fiber pass. *)

\* The steps that touch no slab but the sort temp.
LEMMA AsideKeeps ==
  ASSUME IInv, pc \in {"temp", "fiber", "place"},
         pc' \in {"fiber", "place", "save", "ready"}, pc' = "save" => opt.save,
         UNCHANGED <<opt, dense, vals, scr, ncopy, layout, fiberSorted, csr, sortedMode, dnp>>,
         dense \cap Passed' = dense \cap Passed,
         Memory(heap', own', next'), next =< next', k' \in 0 .. N, LoopInv',
         \A h \in Handle : h # SortTemp =>
            own'[h] = own[h] /\ (own[h] # Null => heap'[own[h]] = heap[own[h]]),
         own'[SortTemp] # Null <=> pc' \in {"fiber", "place"}
  PROVE  IInv'
<1>1. /\ layout = "NCopy" /\ ~ opt.runtime /\ opt.layout = "NCopy" /\ pc \in Copying
  BY AtCopying DEF Copying
<1>2. Through(dense \cap Passed)
  BY ThroughNow
<1>3. next \in Nat /\ next' \in Nat
  BY MemoryNow DEF Memory
<1>4. TypeInv'
  <2>1. /\ scr' \in 0 .. next' - 1 /\ vals' \in 0 .. next' - 1
        /\ ncopy' \in [Mode -> 0 .. next' - 1]
    BY <1>3 DEF IInv, TypeInv
  <2> QED
    BY <1>1, <2>1, MemoryNext DEF IInv, TypeInv, Building, Copying, Driving
<1>5. Ownership'
  BY MemoryNext
<1>6. /\ FiberPass' <=> FiberPass
      /\ CsrPass' <=> CsrPass
      /\ CompactPass' <=> CompactPass
  BY DEF FiberPass, CsrPass, CompactPass
<1>7. ASSUME NEW n \in Mode
      PROVE  /\ Home(n)' = Home(n) /\ own'[Home(n)] = own[Home(n)]
             /\ own'[Compact(n)] = own[Compact(n)] /\ own'[Rowptr(n)] = own[Rowptr(n)]
             /\ heap'[ncopy[n]] = heap[ncopy[n]]
             /\ own[Rowptr(n)] # Null => heap'[own[Rowptr(n)]] = heap[own[Rowptr(n)]]
  <2>1. Home(n)' = Home(n)
    BY DEF Home
  <2>2. /\ Home(n) \in Handle \ {SortTemp} /\ Compact(n) \in Handle \ {SortTemp}
        /\ Rowptr(n) \in Handle \ {SortTemp}
    BY Homes, ModeHandles
  <2>3. \/ ncopy[n] = own[Compact(n)] /\ own[Compact(n)] # Null
        \/ ncopy[n] = own[Home(n)] /\ own[Home(n)] # Null
    BY <1>2 DEF Through, Packed
  <2> QED
    BY <2>1, <2>2, <2>3
<1>8. \A n \in Mode : Packed(n)' <=> Packed(n)
  BY <1>7 DEF Packed
<1>9. Through(dense \cap Passed)'
  <2>1. ASSUME NEW n \in Mode
        PROVE  /\ IF Packed(n)' THEN ncopy'[n] = own'[Compact(n)] /\ own'[Home(n)'] = Null
                                ELSE ncopy'[n] = own'[Home(n)'] /\ own'[Home(n)'] # Null
               /\ heap'[ncopy'[n]].order = IF n \in fiberSorted' THEN Fiber(n) ELSE Shard(n)
               /\ heap'[ncopy'[n]].cols = IF Packed(n)' THEN Mode \ {n} ELSE Mode
               /\ Packed(n)' <=> n \in dense \cap Passed /\ CompactPass
               /\ own'[Rowptr(n)] # Null <=> n \in csr'
               /\ n \in csr' => heap'[own'[Rowptr(n)]].order = <<"rowptr", n>>
    <3>1. /\ IF Packed(n) THEN ncopy[n] = own[Compact(n)] /\ own[Home(n)] = Null
                          ELSE ncopy[n] = own[Home(n)] /\ own[Home(n)] # Null
          /\ heap[ncopy[n]].order = IF n \in fiberSorted THEN Fiber(n) ELSE Shard(n)
          /\ heap[ncopy[n]].cols = IF Packed(n) THEN Mode \ {n} ELSE Mode
          /\ Packed(n) <=> n \in dense \cap Passed /\ CompactPass
          /\ own[Rowptr(n)] # Null <=> n \in csr
          /\ n \in csr => heap[own[Rowptr(n)]].order = <<"rowptr", n>>
      BY <1>2 DEF Through
    <3>2. ncopy'[n] = ncopy[n] /\ fiberSorted' = fiberSorted /\ csr' = csr
      OBVIOUS
    <3>3. Packed(n)' <=> Packed(n)
      BY <1>8
    <3> HIDE DEF Packed
    <3> QED
      BY <1>7, <3>1, <3>2, <3>3
  <2>2. /\ own'[InplaceScr] = Null /\ own'[MortonBuf] = Null
    BY <1>2, Handles DEF Through
  <2>3. /\ fiberSorted' = IF FiberPass THEN dense \cap Passed ELSE {}
        /\ csr' = IF CsrPass THEN dense \cap Passed ELSE {}
        /\ vals' = Null <=> Packed(1)
        /\ scr' = Null <=> Packed(0)
        /\ vals' # Null /\ scr' # Null => vals' = ncopy'[0] /\ scr' = ncopy'[1]
    BY <1>2 DEF Through
  <2>4. dense' \cap Passed' = dense \cap Passed
    OBVIOUS
  <2> QED
    BY <1>6, <1>8, <2>1, <2>2, <2>3, <2>4, Modes DEF Through
<1>10. NCopyInv'
  BY <1>1, <1>9, ThroughNext
<1> QED
  BY <1>1, <1>4, <1>5, <1>10, CopiesKept DEF Copying

LEMMA TempKeeps == ASSUME IInv, EnsureSortTemp PROVE IInv'
<1>1. /\ pc = "temp" /\ Alloc(SortTemp, Full(Junk)) /\ pc' = "fiber"
      /\ UNCHANGED <<opt, dense, k, vals, scr, ncopy, layout, fiberSorted, csr, sortedMode, dnp>>
  BY DEF EnsureSortTemp, views, flags
<1>2. own[SortTemp] = Null
  BY <1>1, ThroughNow
<1>3. /\ Memory(heap', own', next') /\ next' = next + 1 /\ next \in Nat \ {0}
      /\ own'[SortTemp] = next /\ \A g \in Handle : g # SortTemp => own'[g] = own[g]
      /\ \A b \in DOMAIN heap : heap'[b] = heap[b]
  BY <1>1, <1>2, NewBlock, Handles, Contents
<1>4. \A h \in Handle : h # SortTemp =>
            own'[h] = own[h] /\ (own[h] # Null => heap'[own[h]] = heap[own[h]])
  BY <1>3, OwnedLives
<1>5. k = 0 /\ FiberPass /\ N \in Nat
  BY <1>1, Modes DEF IInv, LoopInv
<1>6. Passed = {} /\ Passed' = {}
  BY <1>1, <1>5 DEF Passed
<1>7. LoopInv'
  BY <1>1, <1>5 DEF LoopInv, FiberPass
<1> QED
  BY <1>1, <1>3, <1>4, <1>5, <1>6, <1>7, AsideKeeps DEF Null

LEMMA SkipKeeps == ASSUME IInv, SkipCopy PROVE IInv'
<1>1. /\ pc = "fiber" /\ pc' = "fiber" /\ k \in Mode \ dense /\ k' = k + 1
      /\ UNCHANGED <<opt, dense, heap, next, own, vals, scr, ncopy, layout, fiberSorted, csr,
                     sortedMode, dnp>>
  BY DEF SkipCopy, slabs, views, flags
<1>2. FiberPass /\ N \in Nat
  BY <1>1, Modes DEF IInv, LoopInv
<1>3. k \in Nat /\ k + 1 \in 0 .. N
  BY <1>1, <1>2 DEF Mode
<1>4. Passed = 0 .. k - 1 /\ Passed' = 0 .. k
  <2>1. k' - 1 = k
    BY <1>1, <1>3
  <2>2. Passed' = 0 .. k' - 1
    BY <1>1 DEF Passed
  <2> QED
    BY <1>1, <2>1, <2>2 DEF Passed
<1>5. dense \cap Passed' = dense \cap Passed
  <2>1. 0 .. k = 0 .. k - 1 \cup {k}
    BY <1>3
  <2> QED
    BY <1>1, <1>4, <2>1
<1>6. Memory(heap', own', next') /\ next =< next'
  <2>1. Memory(heap, own, next)
    BY MemoryNow
  <2> QED
    BY <1>1, <2>1 DEF Memory
<1>7. LoopInv'
  BY <1>1, <1>2 DEF LoopInv, FiberPass
<1>8. own'[SortTemp] # Null
  BY <1>1, ThroughNow
<1> QED
  BY <1>1, <1>3, <1>5, <1>6, <1>7, <1>8, AsideKeeps

LEMMA FiberSortKeeps == ASSUME IInv, FiberSortCopy PROVE IInv'
<1>1. /\ pc = "fiber" /\ pc' = "place" /\ k \in dense
      /\ heap' = [heap EXCEPT ![own[SortTemp]] = Full(Fiber(k))]
      /\ UNCHANGED <<opt, dense, k, next, own, vals, scr, ncopy, layout, fiberSorted, csr,
                     sortedMode, dnp>>
  BY DEF FiberSortCopy, views, flags
<1>2. FiberPass /\ N \in Nat /\ k \in Mode /\ k \in 0 .. N /\ k < N
  <2>1. FiberPass /\ k \in Mode
    BY <1>1 DEF IInv, LoopInv, TypeInv
  <2> QED
    BY <2>1, Modes DEF Mode
<1>3. own[SortTemp] # Null
  BY <1>1, ThroughNow
<1>4. Memory(heap', own', next') /\ next =< next'
      /\ \A b \in DOMAIN heap : b # own[SortTemp] => heap'[b] = heap[b]
  <2>1. Memory(heap, own, next) /\ Full(Fiber(k)) \in Content
    BY <1>2, MemoryNow, Contents
  <2>2. Memory(heap', own, next) /\ \A b \in DOMAIN heap : b # own[SortTemp] => heap'[b] = heap[b]
    BY <1>1, <2>1, Writes
  <2> QED
    BY <1>1, <2>1, <2>2 DEF Memory
<1>5. \A h \in Handle : h # SortTemp =>
            own'[h] = own[h] /\ (own[h] # Null => heap'[own[h]] = heap[own[h]])
  BY <1>1, <1>4, OwnedLives, Handles
<1>6. Passed' = Passed
  BY <1>1 DEF Passed
<1>7. LoopInv'
  BY <1>1, <1>2 DEF LoopInv, FiberPass
<1> QED
  BY <1>1, <1>2, <1>3, <1>4, <1>5, <1>6, <1>7, AsideKeeps

LEMMA FreeTempKeeps == ASSUME IInv, FreeSortTemp PROVE IInv'
<1>1. /\ pc = "fiber" /\ k = N /\ k' = 0 /\ pc' = Built
      /\ heap' = Restrict(heap, DOMAIN heap \ {own[SortTemp]})
      /\ own' = [own EXCEPT ![SortTemp] = Null]
      /\ UNCHANGED <<opt, dense, next, vals, scr, ncopy, layout, fiberSorted, csr,
                     sortedMode, dnp>>
  BY DEF FreeSortTemp, Without, Released, views, flags
<1>2. pc' \in {"save", "ready"} /\ (pc' = "save" => opt.save)
  BY <1>1 DEF Built
<1>3. Memory(heap, own, next) /\ own[SortTemp] # Null
  BY <1>1, MemoryNow, ThroughNow
<1>4. Memory(heap', own', next') /\ next =< next'
  <2>1. Memory(heap', own', next)
    BY <1>1, <1>3, Loses, Handles
  <2>2. next \in Nat /\ next' = next
    BY <1>1, <1>3 DEF Memory
  <2> QED
    BY <2>1, <2>2
<1>5. own'[SortTemp] = Null /\ \A h \in Handle : h # SortTemp => own'[h] = own[h]
  BY <1>1, <1>3, Handles DEF Memory
<1>6. \A b \in DOMAIN heap : b # own[SortTemp] => heap'[b] = heap[b]
  BY <1>1 DEF Restrict
<1>7. \A h \in Handle : h # SortTemp =>
            own'[h] = own[h] /\ (own[h] # Null => heap'[own[h]] = heap[own[h]])
  BY <1>3, <1>5, <1>6, OwnedLives, Handles
<1>8. Passed = Mode /\ Passed' = Mode
  BY <1>1, <1>2 DEF Passed, Mode
<1>9. LoopInv'
  BY <1>1, <1>2 DEF LoopInv
<1>10. k' \in 0 .. N
  BY <1>1, Modes
<1> QED
  BY <1>1, <1>2, <1>4, <1>5, <1>7, <1>8, <1>9, <1>10, AsideKeeps


\* Where a sorted copy is put in its place.
LEMMA AtPlace ==
  ASSUME IInv, pc = "place"
  PROVE  /\ layout = "NCopy" /\ ~ opt.runtime /\ opt.layout = "NCopy"
         /\ k \in dense /\ k \in Mode /\ k \notin dense \cap Passed
         /\ FiberPass /\ Through(dense \cap Passed) /\ own[SortTemp] # Null
         /\ ~ Packed(k) /\ own[Rowptr(k)] = Null
         /\ ncopy[k] = own[Home(k)] /\ own[Home(k)] # Null /\ ncopy[k] \in DOMAIN heap
         /\ k' = k + 1 /\ pc' = "fiber" =>
              dense \cap Passed' = (dense \cap Passed) \cup {k} /\ k' \in 0 .. N
<1>1. /\ layout = "NCopy" /\ ~ opt.runtime /\ opt.layout = "NCopy" /\ dense \subseteq Mode
  BY AtCopying DEF Copying
<1>2. k \in dense /\ FiberPass /\ k \in Mode
  BY <1>1 DEF IInv, LoopInv
<1>3. Through(dense \cap Passed) /\ own[SortTemp] # Null
  BY ThroughNow
<1>4. k \in Nat /\ N \in Nat /\ k < N
  BY <1>2, Modes DEF Mode
<1>5. Passed = 0 .. k - 1
  BY DEF Passed
<1>6. k \notin dense \cap Passed
  BY <1>4, <1>5
<1>7. ~ Packed(k) /\ own[Rowptr(k)] = Null
  <2>1. k \notin csr
    BY <1>3, <1>6 DEF Through
  <2> QED
    BY <1>2, <1>3, <1>6, <2>1 DEF Through
<1>8. ncopy[k] = own[Home(k)] /\ own[Home(k)] # Null
  BY <1>2, <1>3, <1>7 DEF Through
<1>9. ncopy[k] \in DOMAIN heap
  BY <1>2, <1>8, OwnedLives, Homes
<1>10. ASSUME k' = k + 1, pc' = "fiber"
       PROVE  dense \cap Passed' = (dense \cap Passed) \cup {k} /\ k' \in 0 .. N
  <2>1. k' - 1 = k /\ k' \in 0 .. N
    BY <1>4, <1>10
  <2>2. Passed' = 0 .. k' - 1
    BY <1>10 DEF Passed
  <2>3. 0 .. k = (0 .. k - 1) \cup {k}
    BY <1>4
  <2> QED
    BY <1>2, <1>5, <2>1, <2>2, <2>3
<1> QED
  BY <1>1, <1>2, <1>3, <1>6, <1>7, <1>8, <1>9, <1>10

\* The other copies and row pointers have blocks of their own.
LEMMA Apart ==
  ASSUME IInv, pc = "place", NEW n \in Mode, n # k
  PROVE  /\ ncopy[n] # own[Home(k)] /\ ncopy[n] \in DOMAIN heap
         /\ own[Rowptr(n)] # own[Home(k)]
         /\ n \in csr => own[Rowptr(n)] \in DOMAIN heap
<1>1. /\ k \in Mode /\ own[Home(k)] # Null /\ Through(dense \cap Passed)
  BY AtPlace
<1>2. /\ Home(k) \in Handle /\ Home(n) \in Handle /\ Home(n) # Home(k)
      /\ Compact(n) \in Handle /\ Rowptr(n) \in Handle
      /\ Home(k) # Compact(n) /\ Home(k) # Rowptr(n)
  BY <1>1, Homes, ModeHandles
<1>3. \/ ncopy[n] = own[Compact(n)] /\ own[Compact(n)] # Null
      \/ ncopy[n] = own[Home(n)] /\ own[Home(n)] # Null
  BY <1>1 DEF Through, Packed
<1>4. \A g \in Handle : g # Home(k) => own[g] # own[Home(k)]
  BY <1>1, <1>2, OwnedLives
<1>5. n \in csr => own[Rowptr(n)] # Null
  BY <1>1 DEF Through
<1> QED
  BY <1>2, <1>3, <1>4, <1>5, OwnedLives

LEMMA CopyBackKeeps == ASSUME IInv, CopyBack PROVE IInv'
<1> DEFINE F == [heap EXCEPT ![ncopy[k]] = Full(Fiber(k))]
           R == Bare(<<"rowptr", k>>)
           D == dense \cap Passed
<1>1. /\ pc = "place" /\ ~ CompactPass
      /\ heap' = IF CsrPass THEN With(F, next, R) ELSE F
      /\ own' = IF CsrPass THEN [own EXCEPT ![Rowptr(k)] = next] ELSE own
      /\ next' = IF CsrPass THEN next + 1 ELSE next
      /\ fiberSorted' = fiberSorted \cup {k}
      /\ csr' = IF CsrPass THEN csr \cup {k} ELSE csr
      /\ k' = k + 1 /\ pc' = "fiber"
      /\ UNCHANGED <<opt, dense, vals, scr, ncopy, layout, sortedMode, dnp>>
  BY DEF CopyBack, CopiedBack, views
<1>2. /\ layout = "NCopy" /\ ~ opt.runtime /\ opt.layout = "NCopy"
      /\ k \in dense /\ k \in Mode /\ k \notin D
      /\ FiberPass /\ Through(D) /\ own[SortTemp] # Null
      /\ ~ Packed(k) /\ own[Rowptr(k)] = Null
      /\ ncopy[k] = own[Home(k)] /\ own[Home(k)] # Null /\ ncopy[k] \in DOMAIN heap
      /\ dense \cap Passed' = D \cup {k} /\ k' \in 0 .. N
  BY <1>1, AtPlace
<1>3. /\ Memory(heap, own, next) /\ Full(Fiber(k)) \in Content /\ R \in Content
      /\ own \in [Handle -> 0 .. next - 1] /\ next \in Nat \ {0}
      /\ DOMAIN heap \subseteq 1 .. next - 1
  BY <1>2, MemoryNow, Contents DEF Memory
<1>4. /\ Memory(F, own, next) /\ DOMAIN F = DOMAIN heap /\ F[ncopy[k]] = Full(Fiber(k))
      /\ \A b \in DOMAIN heap : b # ncopy[k] => F[b] = heap[b]
  BY <1>2, <1>3, Writes
<1>5. Rowptr(k) \in Handle /\ \A n \in Mode : n # k => Rowptr(n) # Rowptr(k)
  BY <1>2, ModeHandles
<1> HIDE DEF F
<1>6. /\ Memory(heap', own', next') /\ next' \in Nat \ {0} /\ next =< next'
      /\ \A h \in Handle : h # Rowptr(k) => own'[h] = own[h]
      /\ own'[Rowptr(k)] # Null <=> CsrPass
      /\ CsrPass => heap'[own'[Rowptr(k)]].order = <<"rowptr", k>>
      /\ heap'[ncopy[k]] = Full(Fiber(k))
      /\ \A b \in DOMAIN heap : b # ncopy[k] => heap'[b] = heap[b]
  <2>1. CASE CsrPass
    <3>1. heap' = With(F, next, R) /\ own' = [own EXCEPT ![Rowptr(k)] = next] /\ next' = next + 1
      BY <1>1, <2>1
    <3>2. Memory(heap', own', next')
      BY <1>2, <1>3, <1>4, <1>5, <3>1, Gains
    <3>3. heap' = [x \in DOMAIN F \cup {next} |-> IF x = next THEN R ELSE F[x]]
      BY <3>1 DEF With
    <3>4. next \notin DOMAIN heap
      BY <1>3
    <3>5. heap'[next] = R /\ \A b \in DOMAIN heap : heap'[b] = F[b]
      BY <1>4, <3>3, <3>4
    <3>6. own'[Rowptr(k)] = next /\ next # Null /\ \A h \in Handle : h # Rowptr(k) => own'[h] = own[h]
      BY <1>3, <1>5, <3>1 DEF Null
    <3>7. R.order = <<"rowptr", k>>
      BY DEF Bare
    <3>8. next' \in Nat \ {0} /\ next =< next'
      BY <1>3, <3>1
    <3> QED
      BY <1>2, <1>4, <2>1, <3>2, <3>5, <3>6, <3>7, <3>8
  <2>2. CASE ~ CsrPass
    <3>1. heap' = F /\ own' = own /\ next' = next
      BY <1>1, <2>2
    <3>2. Memory(heap', own', next')
      BY <1>4, <3>1
    <3> QED
      BY <1>2, <1>3, <1>4, <2>2, <3>1, <3>2
  <2> QED
    BY <2>1, <2>2
<1>7. TypeInv'
  <2>1. /\ scr' \in 0 .. next' - 1 /\ vals' \in 0 .. next' - 1
        /\ ncopy' \in [Mode -> 0 .. next' - 1]
    BY <1>1, <1>6 DEF IInv, TypeInv
  <2>2. csr \subseteq fiberSorted /\ fiberSorted \subseteq dense /\ dense \subseteq Mode /\ sortedMode \in Mode
    BY DEF IInv, TypeInv
  <2>3. csr' \subseteq fiberSorted' /\ fiberSorted' \subseteq dense' /\ dense' \subseteq Mode
    BY <1>1, <1>2, <2>2
  <2> QED
    BY <1>1, <1>2, <1>6, <2>1, <2>2, <2>3, MemoryNext DEF IInv, TypeInv, Copying, Building
<1>8. Ownership'
  BY <1>6, MemoryNext
<1>9. LoopInv'
  BY <1>1, <1>2 DEF LoopInv, FiberPass
<1>10. /\ FiberPass' /\ FiberPass
       /\ CsrPass' <=> CsrPass
       /\ CompactPass' <=> CompactPass
  BY <1>1, <1>2 DEF FiberPass, CsrPass, CompactPass
<1> HIDE DEF D, R
<1>11. ASSUME NEW n \in Mode
       PROVE  /\ own'[Home(n)'] = own[Home(n)] /\ Home(n) \in Handle
              /\ own'[Compact(n)] = own[Compact(n)]
              /\ Packed(n)' <=> Packed(n)
              /\ ~ Packed(n)
  <2>1. /\ Home(n) \in Handle /\ Compact(n) \in Handle /\ Home(n) # Rowptr(k)
        /\ Compact(n) # Rowptr(k)
    BY <1>2, Homes, ModeHandles
  <2>2. Home(n)' = Home(n)
    BY <1>1 DEF Home
  <2>3. ~ Packed(n)
    BY <1>1, <1>2 DEF Through
  <2> QED
    BY <1>6, <2>1, <2>2, <2>3 DEF Packed
<1>12. Through(dense \cap Passed)'
  <2>1. fiberSorted = D /\ csr = IF CsrPass THEN D ELSE {}
    BY <1>2 DEF Through
  <2>2. fiberSorted' = D \cup {k} /\ csr' = IF CsrPass THEN D \cup {k} ELSE {}
    BY <1>1, <2>1
  <2>3. ASSUME NEW n \in Mode
        PROVE  /\ ncopy'[n] = own'[Home(n)'] /\ own'[Home(n)'] # Null
               /\ heap'[ncopy'[n]].order = IF n \in fiberSorted' THEN Fiber(n) ELSE Shard(n)
               /\ heap'[ncopy'[n]].cols = Mode
               /\ own'[Rowptr(n)] # Null <=> n \in csr'
               /\ n \in csr' => heap'[own'[Rowptr(n)]].order = <<"rowptr", n>>
    <3>1. /\ ncopy[n] = own[Home(n)] /\ own[Home(n)] # Null
          /\ heap[ncopy[n]].order = IF n \in fiberSorted THEN Fiber(n) ELSE Shard(n)
          /\ heap[ncopy[n]].cols = Mode
          /\ own[Rowptr(n)] # Null <=> n \in csr
          /\ n \in csr => heap[own[Rowptr(n)]].order = <<"rowptr", n>>
      BY <1>2, <1>11 DEF Through
    <3>2. ncopy' = ncopy
      BY <1>1
    <3>3. CASE n = k
      <4>1. heap'[ncopy'[n]].order = Fiber(n) /\ heap'[ncopy'[n]].cols = Mode
        BY <1>6, <3>2, <3>3 DEF Full
      <4> QED
        BY <1>6, <1>11, <2>2, <3>1, <3>2, <3>3, <4>1
    <3>4. CASE n # k
      <4>1. /\ ncopy[n] # ncopy[k] /\ ncopy[n] \in DOMAIN heap
            /\ own[Rowptr(n)] # ncopy[k]
            /\ n \in csr => own[Rowptr(n)] \in DOMAIN heap
        BY <1>1, <1>2, <3>4, Apart
      <4>2. own'[Rowptr(n)] = own[Rowptr(n)]
        BY <1>5, <1>6, <3>4, ModeHandles
      <4>3. heap'[ncopy[n]] = heap[ncopy[n]] /\ (n \in csr => heap'[own[Rowptr(n)]] = heap[own[Rowptr(n)]])
        BY <1>6, <4>1
      <4>4. (n \in fiberSorted' <=> n \in fiberSorted) /\ (n \in csr' <=> n \in csr)
        BY <2>1, <2>2, <3>4
      <4> QED
        BY <1>11, <3>1, <3>2, <4>2, <4>3, <4>4
    <3> QED
      BY <3>3, <3>4
  <2>4. own'[InplaceScr] = Null /\ own'[MortonBuf] = Null
    <3>1. Rowptr(k) \notin {InplaceScr, MortonBuf}
      BY <1>2, ModeHandles
    <3> QED
      BY <1>2, <1>6, <3>1, Handles DEF Through
  <2>5. vals' # Null /\ scr' # Null /\ vals' = ncopy'[0] /\ scr' = ncopy'[1]
    BY <1>1, <1>2, <1>11, Modes DEF Through
  <2>6. dense' \cap Passed' = D \cup {k}
    BY <1>1, <1>2
  <2>7. \A n \in Mode : ~ Packed(n)'
    BY <1>11
  <2> QED
    BY <1>1, <1>10, <2>2, <2>3, <2>4, <2>5, <2>6, <2>7, Modes DEF Through
<1>13. NCopyInv'
  <2>1. own'[SortTemp] = own[SortTemp]
    <3>1. Rowptr(k) # SortTemp
      BY <1>2, ModeHandles
    <3> QED
      BY <1>6, <3>1, Handles
  <2> QED
    BY <1>1, <1>2, <1>12, <2>1, ThroughNext
<1> QED
  BY <1>1, <1>2, <1>7, <1>8, <1>9, <1>13, CopiesKept DEF Copying


\* Compaction frees the slab copy k has been in, and nulls the pointer of main
\* that the raw pointer goes with.
LEMMA BackingIsHome ==
  ASSUME IInv, pc = "place"
  PROVE  /\ Backing(k) = Home(k)
         /\ Backing(k) = Raw <=> k = 1
         /\ Backing(k) = Scratch <=> k = 0
<1>1. /\ ~ opt.runtime /\ k \in Mode /\ ncopy[k] = own[Home(k)] /\ own[Home(k)] # Null
  BY AtPlace
<1>2. k \in Nat
  BY <1>1, Modes
<1>3. CASE k >= 2
  <2>1. Backing(k) = NCopyRaw(k) /\ Home(k) = NCopyRaw(k) /\ k # 0 /\ k # 1
    BY <1>2, <1>3 DEF Backing, Home
  <2> QED
    BY <1>1, <2>1, ModeHandles
<1>4. CASE k = 1
  <2>1. Home(k) = Raw
    BY <1>1, <1>4 DEF Home
  <2>2. Backing(k) = Raw
    BY <1>1, <1>4, <2>1 DEF Backing
  <2> QED
    BY <1>4, <2>1, <2>2, Handles
<1>5. CASE k = 0
  <2>1. Home(k) = Scratch
    BY <1>1, <1>5 DEF Home
  <2>2. own[Raw] # own[Scratch]
    BY <1>1, <2>1, OwnedLives, Handles
  <2>3. Backing(k) = Scratch
    BY <1>1, <1>5, <2>1, <2>2 DEF Backing
  <2> QED
    BY <1>5, <2>1, <2>3, Handles
<1> QED
  BY <1>2, <1>3, <1>4, <1>5

LEMMA CompactKeeps == ASSUME IInv, CompactCopy PROVE IInv'
<1> DEFINE B == Home(k)
           H0 == Restrict(heap, DOMAIN heap \ {own[B]})
           O0 == [own EXCEPT ![B] = Null]
           P == [order |-> Fiber(k), cols |-> Mode \ {k}]
           R == Bare(<<"rowptr", k>>)
           H1 == With(H0, next, P)
           O1 == [O0 EXCEPT ![Compact(k)] = next]
           D == dense \cap Passed
<1>1. /\ pc = "place" /\ CompactPass
      /\ heap' = With(With(Without({own[Backing(k)]}), next, P), next + 1, R)
      /\ own' = [Released(Backing(k)) EXCEPT ![Compact(k)] = next, ![Rowptr(k)] = next + 1]
      /\ next' = next + 2
      /\ vals' = IF Backing(k) = Raw THEN Null ELSE vals
      /\ scr'  = IF Backing(k) = Scratch THEN Null ELSE scr
      /\ ncopy' = [ncopy EXCEPT ![k] = next]
      /\ fiberSorted' = fiberSorted \cup {k} /\ csr' = csr \cup {k}
      /\ k' = k + 1 /\ pc' = "fiber"
      /\ UNCHANGED <<opt, dense, layout, sortedMode, dnp>>
  BY DEF CompactCopy
<1>2. /\ layout = "NCopy" /\ ~ opt.runtime /\ opt.layout = "NCopy"
      /\ k \in dense /\ k \in Mode /\ k \notin D
      /\ FiberPass /\ Through(D) /\ own[SortTemp] # Null
      /\ ~ Packed(k) /\ own[Rowptr(k)] = Null
      /\ ncopy[k] = own[B] /\ own[B] # Null /\ ncopy[k] \in DOMAIN heap
      /\ dense \cap Passed' = D \cup {k} /\ k' \in 0 .. N
  BY <1>1, AtPlace
<1>3. Backing(k) = B /\ (Backing(k) = Raw <=> k = 1) /\ (Backing(k) = Scratch <=> k = 0)
  BY <1>1, BackingIsHome
<1>4. /\ Memory(heap, own, next) /\ P \in Content /\ R \in Content
      /\ own \in [Handle -> 0 .. next - 1] /\ next \in Nat \ {0}
      /\ DOMAIN heap \subseteq 1 .. next - 1
  BY <1>2, MemoryNow, Contents DEF Memory
<1>5. /\ B \in Handle /\ Compact(k) \in Handle /\ Rowptr(k) \in Handle
      /\ B # Compact(k) /\ B # Rowptr(k) /\ Compact(k) # Rowptr(k)
  BY <1>2, Homes, ModeHandles
<1>6. own[Compact(k)] = Null
  BY <1>2 DEF Packed
<1> HIDE DEF B
<1>7. /\ Memory(H0, O0, next) /\ O0 \in [Handle -> 0 .. next - 1]
      /\ O0[B] = Null /\ \A h \in Handle : h # B => O0[h] = own[h]
  <2>1. Memory(H0, O0, next)
    BY <1>4, <1>5, Loses
  <2>2. Null \in 0 .. next - 1
    BY <1>4 DEF Null
  <2> QED
    BY <1>4, <1>5, <2>1, <2>2
<1>8. DOMAIN H0 = DOMAIN heap \ {own[B]} /\ \A b \in DOMAIN heap : b # own[B] => H0[b] = heap[b]
  BY DEF Restrict
<1> HIDE DEF H0, O0
<1>9. Memory(H1, O1, next + 1)
  BY <1>4, <1>5, <1>6, <1>7, Gains
<1>10. /\ O1 \in [Handle -> 0 .. next] /\ O1[Compact(k)] = next
       /\ \A h \in Handle : h # Compact(k) => O1[h] = O0[h]
  BY <1>4, <1>5, <1>7
<1>11. H1 = [x \in DOMAIN H0 \cup {next} |-> IF x = next THEN P ELSE H0[x]]
  BY DEF With
<1>12. /\ DOMAIN H1 = DOMAIN H0 \cup {next} /\ H1[next] = P
       /\ \A b \in DOMAIN H0 : H1[b] = H0[b]
  <2>1. next \notin DOMAIN H0
    BY <1>4, <1>8
  <2> HIDE DEF P
  <2> QED
    BY <1>11, <2>1
<1> HIDE DEF H1, O1
<1>13. heap' = With(H1, next + 1, R) /\ own' = [O1 EXCEPT ![Rowptr(k)] = next + 1]
  BY <1>1, <1>3 DEF H0, O0, H1, O1, Without, Released
<1>14. Memory(heap', own', next')
  <2>1. O1[Rowptr(k)] = Null
    BY <1>2, <1>5, <1>7, <1>10
  <2>2. Memory(With(H1, next + 1, R), [O1 EXCEPT ![Rowptr(k)] = next + 1], (next + 1) + 1)
    BY <1>4, <1>5, <1>9, <2>1, Gains
  <2>3. next' = (next + 1) + 1
    BY <1>1, <1>4
  <2> QED
    BY <1>13, <2>2, <2>3
<1>15. /\ own'[Rowptr(k)] = next + 1 /\ own'[Compact(k)] = next /\ own'[B] = Null
       /\ \A h \in Handle : h \notin {B, Compact(k), Rowptr(k)} => own'[h] = own[h]
  BY <1>4, <1>5, <1>7, <1>10, <1>13
<1>16. /\ heap'[next + 1] = R /\ heap'[next] = P
       /\ \A b \in DOMAIN heap : b # own[B] => heap'[b] = heap[b]
  <2>1. heap' = [x \in DOMAIN H1 \cup {next + 1} |-> IF x = next + 1 THEN R ELSE H1[x]]
    BY <1>13 DEF With
  <2>2. next + 1 \notin DOMAIN H1 /\ next + 1 # next
    BY <1>4, <1>8, <1>12
  <2> HIDE DEF P, R
  <2>3. heap'[next + 1] = R /\ \A b \in DOMAIN H1 : heap'[b] = H1[b]
    BY <2>1, <2>2
  <2> QED
    BY <1>8, <1>12, <2>3
<1>17. next' \in Nat \ {0} /\ next =< next' /\ next < next' /\ next # Null /\ next + 1 # Null
  BY <1>1, <1>4 DEF Null
<1>18. P.order = Fiber(k) /\ P.cols = Mode \ {k} /\ R.order = <<"rowptr", k>>
  BY DEF Bare
<1> HIDE DEF P, R, D
<1>19. TypeInv'
  <2>1. /\ scr \in 0 .. next - 1 /\ vals \in 0 .. next - 1
        /\ ncopy \in [Mode -> 0 .. next - 1] /\ Null \in 0 .. next' - 1
    BY <1>4, <1>17 DEF IInv, TypeInv, Null
  <2>2. scr' \in 0 .. next' - 1 /\ vals' \in 0 .. next' - 1
    BY <1>1, <1>4, <1>17, <2>1
  <2>3. ncopy' \in [Mode -> 0 .. next' - 1]
    <3>1. next \in 0 .. next' - 1
      BY <1>1, <1>4
    <3>2. 0 .. next - 1 \subseteq 0 .. next' - 1
      BY <1>1, <1>4
    <3>3. ncopy \in [Mode -> 0 .. next' - 1]
      BY <2>1, <3>2
    <3> QED
      BY <1>1, <3>1, <3>3
  <2>4. csr \subseteq fiberSorted /\ fiberSorted \subseteq dense /\ dense \subseteq Mode /\ sortedMode \in Mode
    BY DEF IInv, TypeInv
  <2>5. csr' \subseteq fiberSorted' /\ fiberSorted' \subseteq dense' /\ dense' \subseteq Mode
    BY <1>1, <1>2, <2>4
  <2> QED
    BY <1>1, <1>2, <1>14, <1>17, <2>2, <2>3, <2>4, <2>5, MemoryNext
       DEF IInv, TypeInv, Copying, Building
<1>20. Ownership'
  BY <1>14, MemoryNext
<1>21. LoopInv'
  BY <1>1, <1>2 DEF LoopInv, FiberPass
<1>22. FiberPass' /\ FiberPass /\ CsrPass' /\ CsrPass /\ CompactPass'
  BY <1>1, <1>2 DEF FiberPass, CsrPass, CompactPass
<1>23. ncopy'[k] = next /\ \A n \in Mode : n # k => ncopy'[n] = ncopy[n]
  BY <1>1, <1>2 DEF IInv, TypeInv
<1>24. \A n \in Mode : Home(n)' = Home(n)
  BY <1>1 DEF Home
<1>25. \A n \in Mode : Packed(n)' <=> n = k \/ Packed(n)
  <2>1. \A n \in Mode : n # k => Compact(n) \in Handle /\ Compact(n) \notin {B, Compact(k), Rowptr(k)}
    BY <1>2, Homes, ModeHandles DEF B
  <2>2. own'[Compact(k)] # Null
    BY <1>15, <1>17
  <2>3. \A n \in Mode : n # k => own'[Compact(n)] = own[Compact(n)]
    BY <1>15, <2>1
  <2> QED
    BY <1>2, <2>2, <2>3 DEF Packed
<1>26. Through(dense \cap Passed)'
  <2>1. fiberSorted = D /\ csr = D
    BY <1>2, <1>22 DEF Through
  <2>2. fiberSorted' = D \cup {k} /\ csr' = D \cup {k}
    BY <1>1, <2>1
  <2>3. ASSUME NEW n \in Mode
        PROVE  /\ IF Packed(n)' THEN ncopy'[n] = own'[Compact(n)] /\ own'[Home(n)'] = Null
                                ELSE ncopy'[n] = own'[Home(n)'] /\ own'[Home(n)'] # Null
               /\ heap'[ncopy'[n]].order = IF n \in fiberSorted' THEN Fiber(n) ELSE Shard(n)
               /\ heap'[ncopy'[n]].cols = IF Packed(n)' THEN Mode \ {n} ELSE Mode
               /\ Packed(n)' <=> n \in D \cup {k}
               /\ own'[Rowptr(n)] # Null <=> n \in csr'
               /\ n \in csr' => heap'[own'[Rowptr(n)]].order = <<"rowptr", n>>
    <3>1. CASE n = k
      <4>1. ncopy'[n] = own'[Compact(n)] /\ own'[Home(n)'] = Null
        BY <1>15, <1>23, <1>24, <3>1 DEF B
      <4>2. heap'[ncopy'[n]].order = Fiber(n) /\ heap'[ncopy'[n]].cols = Mode \ {n}
        BY <1>16, <1>18, <1>23, <3>1
      <4>3. own'[Rowptr(n)] # Null /\ heap'[own'[Rowptr(n)]].order = <<"rowptr", n>>
        BY <1>15, <1>16, <1>17, <1>18, <3>1
      <4>4. Packed(n)' /\ n \in D \cup {k} /\ n \in csr' /\ n \in fiberSorted'
        BY <1>25, <2>2, <3>1
      <4> QED
        BY <4>1, <4>2, <4>3, <4>4
    <3>2. CASE n # k
      <4>1. /\ IF Packed(n) THEN ncopy[n] = own[Compact(n)] /\ own[Home(n)] = Null
                            ELSE ncopy[n] = own[Home(n)] /\ own[Home(n)] # Null
            /\ heap[ncopy[n]].order = IF n \in fiberSorted THEN Fiber(n) ELSE Shard(n)
            /\ heap[ncopy[n]].cols = IF Packed(n) THEN Mode \ {n} ELSE Mode
            /\ Packed(n) <=> n \in D
            /\ own[Rowptr(n)] # Null <=> n \in csr
            /\ n \in csr => heap[own[Rowptr(n)]].order = <<"rowptr", n>>
        BY <1>1, <1>2 DEF Through
      <4>2. /\ ncopy[n] # own[B] /\ ncopy[n] \in DOMAIN heap
            /\ own[Rowptr(n)] # own[B]
            /\ n \in csr => own[Rowptr(n)] \in DOMAIN heap
        BY <1>1, <3>2, Apart DEF B
      <4>3. /\ own'[Rowptr(n)] = own[Rowptr(n)] /\ own'[Compact(n)] = own[Compact(n)]
            /\ own'[Home(n)] = own[Home(n)]
        <5>1. /\ {Home(n), Compact(n), Rowptr(n)} \subseteq Handle
              /\ Home(n) \notin {B, Compact(k), Rowptr(k)}
              /\ Compact(n) \notin {B, Compact(k), Rowptr(k)}
              /\ Rowptr(n) \notin {B, Compact(k), Rowptr(k)}
          BY <1>2, <3>2, Homes, ModeHandles DEF B
        <5> QED
          BY <1>15, <5>1
      <4>4. heap'[ncopy[n]] = heap[ncopy[n]] /\ (n \in csr => heap'[own[Rowptr(n)]] = heap[own[Rowptr(n)]])
        BY <1>16, <4>2
      <4>5. /\ n \in fiberSorted' <=> n \in fiberSorted
            /\ n \in csr' <=> n \in csr
            /\ n \in D \cup {k} <=> n \in D
        BY <2>1, <2>2, <3>2
      <4>6. ncopy'[n] = ncopy[n] /\ Home(n)' = Home(n) /\ (Packed(n)' <=> Packed(n))
        BY <1>23, <1>24, <1>25, <3>2
      <4> QED
        BY <4>1, <4>3, <4>4, <4>5, <4>6
    <3> QED
      BY <3>1, <3>2
  <2>4. own'[InplaceScr] = Null /\ own'[MortonBuf] = Null
    <3>1. {B, Compact(k), Rowptr(k)} \cap {InplaceScr, MortonBuf} = {}
      BY <1>2, Homes, ModeHandles DEF B
    <3> QED
      BY <1>2, <1>15, <3>1, Handles DEF Through
  <2>5. /\ vals' = IF k = 1 THEN Null ELSE vals
        /\ scr' = IF k = 0 THEN Null ELSE scr
    BY <1>1, <1>3
  <2>6. /\ vals = Null <=> Packed(1)
        /\ scr = Null <=> Packed(0)
        /\ vals # Null /\ scr # Null => vals = ncopy[0] /\ scr = ncopy[1]
    BY <1>2 DEF Through
  <2>7. /\ vals' = Null <=> Packed(1)'
        /\ scr' = Null <=> Packed(0)'
        /\ vals' # Null /\ scr' # Null => vals' = ncopy'[0] /\ scr' = ncopy'[1]
    <3>1. CASE k = 0
      <4>1. Packed(0)' /\ (Packed(1)' <=> Packed(1)) /\ scr' = Null /\ vals' = vals
        BY <1>25, <2>5, <3>1, Modes
      <4> QED
        BY <2>6, <4>1
    <3>2. CASE k = 1
      <4>1. Packed(1)' /\ (Packed(0)' <=> Packed(0)) /\ scr' = scr /\ vals' = Null
        BY <1>25, <2>5, <3>2, Modes
      <4> QED
        BY <2>6, <4>1
    <3>3. CASE k # 0 /\ k # 1
      <4>1. /\ Packed(1)' <=> Packed(1)
            /\ Packed(0)' <=> Packed(0)
            /\ scr' = scr /\ vals' = vals /\ ncopy'[0] = ncopy[0] /\ ncopy'[1] = ncopy[1]
        BY <1>23, <1>25, <2>5, <3>3, Modes
      <4> QED
        BY <2>6, <4>1
    <3> QED
      BY <3>1, <3>2, <3>3
  <2>8. dense' \cap Passed' = D \cup {k}
    BY <1>1, <1>2
  <2> QED
    BY <1>22, <2>2, <2>3, <2>4, <2>7, <2>8 DEF Through
<1>27. NCopyInv'
  <2>1. own'[SortTemp] = own[SortTemp]
    <3>1. SortTemp \notin {B, Compact(k), Rowptr(k)}
      BY <1>2, Homes, ModeHandles DEF B
    <3> QED
      BY <1>15, <3>1, Handles
  <2> QED
    BY <1>1, <1>2, <1>26, <2>1, ThroughNext
<1> QED
  BY <1>1, <1>2, <1>19, <1>20, <1>21, <1>27, CopiesKept DEF Copying


-----------------------------------------------------------------------------
(* The drivers, and the file that is written. *)

\* The steps that leave the memory alone.
LEMMA ReadsKeep ==
  ASSUME IInv, pc \in {"save"} \cup Driving, pc' \in Driving,
         UNCHANGED <<opt, dense, heap, next, own, vals, scr, ncopy, layout, fiberSorted, csr,
                     sortedMode>>,
         k' \in 0 .. N, LoopInv', FileInv'
  PROVE  IInv'
<1>1. /\ pc \notin Building /\ pc' \notin Building \cup Copying
      /\ pc' \notin {"inplace", "morton", "save", "start", "load"}
      /\ pc \notin {"inplace", "morton", "start", "load"} \cup Copying
  BY DEF Building, Copying, Driving
<1>2. TypeInv'
  BY <1>1 DEF IInv, TypeInv
<1>3. Ownership'
  BY DEF IInv, Ownership, Live
<1>4. GivenInv'
  BY <1>1 DEF IInv, GivenInv
<1>5. BuildInv'
  BY <1>1 DEF BuildInv
<1>6. PingPongInv'
  BY <1>1 DEF IInv, PingPongInv, Owned, NoCopies
<1>7. InPlaceInv'
  BY <1>1 DEF IInv, InPlaceInv, Owned, NoCopies, Sorted, Wide
<1>8. MortonInv'
  BY <1>1 DEF IInv, MortonInv, Owned, NoCopies
<1>9. NCopyInv'
  <2>1. CASE layout = "NCopy"
    <3>1. NCopyInv
      BY DEF IInv
    <3>2. Present = Mode /\ Filled = Mode /\ Passed = Mode /\ Present' = Mode /\ Filled' = Mode
          /\ Passed' = Mode
      BY <1>1 DEF Present, Filled, Passed, Copying
    <3>3. CopyInv'
      <4>1. ASSUME NEW n \in Mode
            PROVE  /\ IF Packed(n) THEN ncopy[n] = own[Compact(n)] /\ own[Home(n)] = Null
                                   ELSE ncopy[n] = own[Home(n)] /\ own[Home(n)] # Null
                   /\ heap[ncopy[n]].order = IF n \in fiberSorted THEN Fiber(n) ELSE Shard(n)
                   /\ heap[ncopy[n]].cols = IF Packed(n) THEN Mode \ {n} ELSE Mode
                   /\ Packed(n) <=> n \in dense \cap Mode /\ CompactPass /\ ~ opt.runtime
                   /\ own[Rowptr(n)] # Null <=> n \in csr
                   /\ n \in csr => heap[own[Rowptr(n)]].order = <<"rowptr", n>>
        BY <2>1, <3>1, <3>2 DEF NCopyInv, CopyInv
      <4>2. /\ \A n \in Mode : Packed(n)' <=> Packed(n)
            /\ \A n \in Mode : Home(n)' = Home(n)
            /\ CompactPass' <=> CompactPass
        BY DEF Packed, Home, CompactPass, CsrPass, FiberPass
      <4> QED
        BY <3>2, <4>1, <4>2 DEF CopyInv
    <3>4. /\ own[InplaceScr] = Null /\ own[MortonBuf] = Null
          /\ own[SortTemp] # Null <=> pc \in {"fiber", "place"}
          /\ ~ opt.runtime =>
               /\ fiberSorted = IF FiberPass THEN dense \cap Mode ELSE {}
               /\ csr = IF CsrPass THEN dense \cap Mode ELSE {}
               /\ vals = Null <=> Packed(1)
               /\ scr = Null <=> Packed(0)
               /\ vals # Null /\ scr # Null => vals = ncopy[0] /\ scr = ncopy[1]
          /\ opt.runtime => vals = ncopy[0] /\ scr = ncopy[1]
      BY <1>1, <2>1, <3>1, <3>2 DEF NCopyInv, Copying
    <3>5. /\ FiberPass' <=> FiberPass
          /\ CsrPass' <=> CsrPass
          /\ Packed(0)' <=> Packed(0)
          /\ Packed(1)' <=> Packed(1)
      BY DEF Packed, CsrPass, FiberPass
    <3>6. own[SortTemp] = Null
      BY <1>1, <3>4 DEF Copying
    <3>7. pc' \notin {"fiber", "place", "slab", "remap"}
      BY <1>1 DEF Copying
    <3> QED
      BY <3>2, <3>3, <3>4, <3>5, <3>6, <3>7 DEF NCopyInv
  <2> QED
    BY <2>1 DEF NCopyInv
<1> QED
  BY <1>2, <1>3, <1>4, <1>5, <1>6, <1>7, <1>8, <1>9 DEF IInv

\* What is written is what the slabs are.
LEMMA ImageTrue == ASSUME IInv, pc = "save", dnp' = Image PROVE FileInv'
<1>1. /\ dnp'.state = "complete" /\ dnp'.layout = layout /\ dnp'.dense = dense
      /\ dnp'.fiberSorted = fiberSorted /\ dnp'.csr = csr /\ dnp'.sortedMode = sortedMode
      /\ layout = "NCopy" => \A n \in Mode : dnp'.slab[n] = heap[ncopy[n]].order
      /\ layout = "Morton" => dnp'.slab[0] = <<"morton", 0>>
      /\ layout \notin {"NCopy", "Morton"} => dnp'.slab[0] = heap[vals].order
  BY DEF Image
<1>2. /\ layout \in {"PingPong", "NCopy", "InPlace", "Morton"}
      /\ csr \subseteq fiberSorted /\ fiberSorted \subseteq dense /\ dense \subseteq Mode
      /\ sortedMode \in Mode /\ pc \notin Building
  BY DEF IInv, TypeInv, Building
<1>3. /\ layout = "PingPong" => fiberSorted = {} /\ Sorted(vals, 0)
      /\ layout = "InPlace" => fiberSorted = {} /\ Sorted(vals, sortedMode)
      /\ layout = "Morton" => fiberSorted = {}
  BY <1>2 DEF IInv, PingPongInv, InPlaceInv, MortonInv
<1>4. layout = "NCopy" => \A n \in Mode :
         heap[ncopy[n]].order = IF n \in fiberSorted THEN Fiber(n) ELSE Shard(n)
  BY DEF IInv, NCopyInv, CopyInv, Filled
<1> QED
  BY <1>1, <1>2, <1>3, <1>4 DEF FileInv, Sorted

LEMMA LoopAtReady ==
  ASSUME IInv, pc' \in Driving \ {"process"}, k' = 0
  PROVE  k' \in 0 .. N /\ LoopInv'
<1>1. k' \in 0 .. N
  BY Modes
<1> QED
  BY <1>1 DEF LoopInv, Driving

LEMMA FileKeeps == ASSUME IInv, Save \/ SaveRejected \/ SaveTorn \/ LoadFails PROVE IInv'
<1>1. ASSUME pc = "save", pc' = "ready", dnp' \in {Image, TornFile},
             UNCHANGED <<opt, dense, k, slabs, views, flags>>
      PROVE  IInv'
  <2>1. FileInv'
    BY <1>1, ImageTrue, NoFileLeft
  <2>2. k' = 0
    BY <1>1 DEF IInv, LoopInv
  <2>3. k' \in 0 .. N /\ LoopInv'
    BY <1>1, <2>2, LoopAtReady DEF Driving
  <2> QED
    BY <1>1, <2>1, <2>3, ReadsKeep DEF Driving, slabs, views, flags
<1>2. CASE Save
  BY <1>1, <1>2 DEF Save
<1>3. CASE SaveRejected
  BY <1>3, NoFileLeft, ResetInv DEF SaveRejected
<1>4. CASE SaveTorn
  BY <1>1, <1>4, NoFileLeft, ResetInv DEF SaveTorn
<1>5. CASE LoadFails
  BY <1>5, FileKept, ResetInv DEF LoadFails
<1> QED
  BY <1>2, <1>3, <1>4, <1>5

LEMMA PassIs == Pass \in {"mortonPass", "allModes", "process"}
BY DEF Pass

\* The steps of a driver that only read the tensor.
LEMMA DriversKeep ==
  ASSUME IInv, Drive \/ ReadOnce \/ ProcessNCopy \/ AllModes \/ MortonPass \/ Iterate
  PROVE  IInv'
<1>1. /\ pc \in Driving /\ pc' \in Driving
      /\ UNCHANGED <<opt, dense, heap, next, own, vals, scr, ncopy, layout, fiberSorted, csr,
                     sortedMode, dnp>>
      /\ pc = "process" => After(k)
      /\ pc # "process" => UNCHANGED k
  BY PassIs DEF Drive, ReadOnce, ProcessNCopy, AllModes, MortonPass, Iterate, Driving, slabs,
                views, flags, After
<1>2. FileInv'
  BY <1>1, FileKept
<1>3. k \in Nat /\ N \in Nat /\ N >= 2 /\ k < N
  BY <1>1, Modes DEF IInv, TypeInv, LoopInv, Driving
<1>4. k' \in 0 .. N /\ k' < N /\ (pc' # "process" => k' = 0)
  <2>1. CASE pc = "process"
    BY <1>1, <1>3, <2>1 DEF After
  <2>2. CASE pc # "process"
    <3>1. k = 0
      BY <1>1, <2>2 DEF IInv, LoopInv, Driving
    <3> QED
      BY <1>1, <1>3, <2>2, <3>1
  <2> QED
    BY <2>1, <2>2
<1>5. LoopInv'
  BY <1>1, <1>4 DEF LoopInv, Driving
<1> QED
  BY <1>1, <1>2, <1>4, <1>5, ReadsKeep


LEMMA AfterProcess ==
  ASSUME IInv, pc = "process", After(k)
  PROVE  /\ k \in Mode /\ pc' \in {"process", "passed"} /\ k' \in 0 .. N /\ LoopInv'
<1>1. k \in Nat /\ N \in Nat /\ k < N
  BY Modes DEF IInv, TypeInv, LoopInv
<1>2. \/ k < N - 1 /\ k' = k + 1 /\ pc' = "process"
      \/ k' = 0 /\ pc' = "passed"
  BY DEF After
<1>3. k' \in 0 .. N /\ (pc' = "process" => k' < N)
  BY <1>1, <1>2
<1>4. k \in Mode
  BY <1>1 DEF Mode
<1> QED
  BY <1>2, <1>3, <1>4 DEF LoopInv

LEMMA InPlaceProcessKeeps == ASSUME IInv, ProcessInPlace PROVE IInv'
<1>1. /\ pc = "process" /\ layout = "InPlace" /\ After(k)
      /\ heap' = IF sortedMode = k THEN heap
                 ELSE [heap EXCEPT ![vals].order = IF k \in dense THEN Fiber(k) ELSE Shard(k)]
      /\ sortedMode' = k
      /\ UNCHANGED <<opt, dense, next, own, vals, scr, ncopy, layout, fiberSorted, csr, dnp>>
  BY DEF ProcessInPlace, views
<1>2. /\ Owned({Raw}, {InplaceScr}) /\ vals = own[Raw] /\ scr = Null /\ Sorted(vals, sortedMode)
      /\ NoCopies /\ fiberSorted = {} /\ csr = {}
  BY <1>1 DEF IInv, InPlaceInv
<1>3. k \in Mode /\ pc' \in {"process", "passed"} /\ k' \in 0 .. N /\ LoopInv'
  BY <1>1, AfterProcess
<1>4. vals \in DOMAIN heap
  BY <1>2, OwnedLives, Handles DEF Owned
<1>5. Memory(heap, own, next) /\ heap[vals] \in Content
  BY <1>4, MemoryNow DEF Memory
<1>6. /\ Memory(heap', own', next')
      /\ heap'[vals].cols = heap[vals].cols
      /\ sortedMode # k => heap'[vals].order \in {Fiber(k), Shard(k)}
      /\ sortedMode = k => heap'[vals].order = heap[vals].order
  <2>1. CASE sortedMode = k
    <3>1. heap' = heap /\ own' = own /\ next' = next
      BY <1>1, <2>1
    <3> QED
      BY <1>5, <2>1, <3>1
  <2>2. CASE sortedMode # k
    <3> DEFINE o == IF k \in dense THEN Fiber(k) ELSE Shard(k)
               c == [heap[vals] EXCEPT !.order = o]
    <3>1. heap' = [heap EXCEPT ![vals] = c] /\ own' = own /\ next' = next
      BY <1>1, <2>2
    <3>2. c \in Content /\ c.cols = heap[vals].cols /\ c.order = o
      <4>1. o \in Order
        BY <1>3, Contents
      <4> HIDE DEF o
      <4> QED
        BY <1>5, <4>1 DEF Content
    <3>3. o \in {Fiber(k), Shard(k)}
      OBVIOUS
    <3> HIDE DEF o, c
    <3>4. Memory(heap', own, next) /\ heap'[vals] = c
      BY <1>4, <1>5, <3>1, <3>2, Writes
    <3> QED
      BY <2>2, <3>1, <3>2, <3>3, <3>4
  <2> QED
    BY <2>1, <2>2
<1>7. TypeInv'
  BY <1>1, <1>3, <1>6, MemoryNext DEF IInv, TypeInv, Building, Driving
<1>8. Ownership'
  BY <1>6, MemoryNext
<1>9. InPlaceInv'
  <2>1. Sorted(vals, sortedMode)'
    BY <1>1, <1>2, <1>6 DEF Sorted, Wide
  <2> QED
    BY <1>1, <1>2, <1>3, <2>1 DEF InPlaceInv, Owned, NoCopies, Driving
<1>10. FileInv'
  BY <1>1, FileKept
<1>11. GivenInv' /\ BuildInv'
  BY <1>1, <1>3 DEF IInv, GivenInv, BuildInv, Building
<1> QED
  BY <1>1, <1>3, <1>7, <1>8, <1>9, <1>10, <1>11 DEF IInv, PingPongInv, MortonInv, NCopyInv

LEMMA PingPongProcessKeeps == ASSUME IInv, ProcessPingPong PROVE IInv'
<1>1. /\ pc = "process" /\ layout \in {"PingPong", "Morton"} /\ ProcessReads(k) /\ After(k)
      /\ UNCHANGED <<opt, dense, next, own, ncopy, layout, fiberSorted, csr, sortedMode, dnp>>
  BY DEF ProcessPingPong, CanReadNext, flags
<1>2. layout = "PingPong"
  <2>1. vals \in DOMAIN heap
    BY <1>1 DEF ProcessReads, Whole, Live
  <2>2. layout = "Morton" => vals = Null
    BY DEF IInv, MortonInv
  <2> QED
    BY <1>1, <2>1, <2>2, MemoryNow DEF Memory, Null
<1>3. /\ Owned({Raw}, {Scratch}) /\ {vals, scr} = {own[Raw], own[Scratch]}
      /\ NoCopies /\ fiberSorted = {} /\ csr = {}
  BY <1>1, <1>2 DEF IInv, PingPongInv, Building
<1>4. PICK src \in IF UseFiber(k) THEN {vals, scr} ELSE {vals} :
         LET dst == IF src = vals THEN scr ELSE vals
         IN  /\ heap' = [b \in DOMAIN heap |->
                  CASE b = src /\ UseFiber(k) -> Full(Fiber(k))
                    [] b = dst -> Full(Shard(Succ(k)))
                    [] OTHER -> heap[b]]
             /\ vals' = dst /\ scr' = src
  BY DEF ProcessPingPong
<1>5. src \in {vals, scr} /\ scr' = src /\ vals' = IF src = vals THEN scr ELSE vals
  BY <1>4
<1>6. {vals', scr'} = {vals, scr}
  BY <1>5
<1>7. k \in Mode /\ pc' \in {"process", "passed"} /\ k' \in 0 .. N /\ LoopInv'
  BY <1>1, AfterProcess
<1>8. Full(Fiber(k)) \in Content /\ Full(Shard(Succ(k))) \in Content
  <2>1. Succ(k) \in Mode
    BY <1>7, Modes DEF Succ, Mode
  <2> QED
    BY <1>7, <2>1, Contents
<1>9. Memory(heap, own, next)
  BY MemoryNow
<1>10. Memory(heap', own', next')
  <2>1. DOMAIN heap' = DOMAIN heap
    BY <1>4
  <2>2. ASSUME NEW b \in DOMAIN heap PROVE heap'[b] \in Content
    <3>1. heap'[b] \in {Full(Fiber(k)), Full(Shard(Succ(k))), heap[b]}
      BY <1>4
    <3>2. heap[b] \in Content
      BY <1>9 DEF Memory
    <3> QED
      BY <1>8, <3>1, <3>2
  <2>3. heap' \in [DOMAIN heap' -> Content]
    <3>1. heap' = [b \in DOMAIN heap |-> heap'[b]]
      BY <1>4
    <3> QED
      BY <2>1, <2>2, <3>1
  <2> QED
    BY <1>1, <1>9, <2>1, <2>3 DEF Memory
<1>11. TypeInv'
  <2>1. vals' \in 0 .. next' - 1 /\ scr' \in 0 .. next' - 1
    BY <1>1, <1>5 DEF IInv, TypeInv
  <2> QED
    BY <1>1, <1>7, <1>10, <2>1, MemoryNext DEF IInv, TypeInv, Building, Driving
<1>12. Ownership'
  BY <1>10, MemoryNext
<1>13. PingPongInv'
  <2>1. {vals', scr'} = {own'[Raw], own'[Scratch]}
    BY <1>1, <1>3, <1>6
  <2> QED
    BY <1>1, <1>3, <1>7, <2>1 DEF PingPongInv, Owned, NoCopies, Driving
<1>14. FileInv'
  BY <1>1, FileKept
<1>15. GivenInv' /\ BuildInv'
  BY <1>1, <1>2, <1>7 DEF IInv, GivenInv, BuildInv, Building
<1> QED
  BY <1>1, <1>2, <1>7, <1>11, <1>12, <1>13, <1>14, <1>15
     DEF IInv, InPlaceInv, MortonInv, NCopyInv

-----------------------------------------------------------------------------
(* A process that loads a file. *)

LEMMA AtLoad ==
  ASSUME IInv, pc = "load", dnp.state = "complete"
  PROVE  /\ k = 0 /\ opt.runtime /\ opt \in Options
         /\ vals = Null /\ scr = Null /\ NoCopies /\ Owned({}, {})
         /\ dnp.csr \subseteq dnp.fiberSorted /\ dnp.fiberSorted \subseteq dnp.dense
         /\ dnp.dense \subseteq Mode /\ dnp.sortedMode \in Mode
<1>1. /\ k = 0 /\ opt.runtime /\ opt \in Options
      /\ vals = Null /\ scr = Null /\ NoCopies /\ Owned({}, {})
  BY DEF IInv, LoopInv, BuildInv, Building, TypeInv
<1> QED
  BY <1>1 DEF IInv, FileInv

LEMMA LoadSlabKeeps == ASSUME IInv, LoadSlab PROVE IInv'
<1>1. /\ pc = "load" /\ dnp.state = "complete" /\ dnp.layout \in {"PingPong", "InPlace"}
      /\ Alloc(Raw, Full(dnp.slab[0])) /\ vals' = next /\ pc' = "ready"
      /\ dense' = dnp.dense /\ layout' = dnp.layout /\ fiberSorted' = dnp.fiberSorted
      /\ csr' = dnp.csr /\ sortedMode' = dnp.sortedMode
      /\ UNCHANGED <<opt, k, scr, ncopy, dnp>>
  BY DEF LoadSlab, LoadFlags
<1>2. /\ k = 0 /\ opt.runtime /\ opt \in Options
      /\ vals = Null /\ scr = Null /\ NoCopies /\ Owned({}, {})
      /\ dnp.csr \subseteq dnp.fiberSorted /\ dnp.fiberSorted \subseteq dnp.dense
      /\ dnp.dense \subseteq Mode /\ dnp.sortedMode \in Mode
  BY <1>1, AtLoad
<1>3. /\ dnp.fiberSorted = {}
      /\ dnp.layout = "InPlace" =>
           dnp.slab[0] \in {Shard(dnp.sortedMode), Fiber(dnp.sortedMode)}
      /\ dnp.layout = "PingPong" => dnp.slab[0] \in {Shard(0), Fiber(0)}
  BY <1>1 DEF IInv, FileInv
<1>4. Full(dnp.slab[0]) \in Content
  BY <1>1, <1>2, <1>3, Contents, Modes
<1>5. own[Raw] = Null
  BY <1>2, Handles DEF Owned
<1>6. /\ Memory(heap', own', next') /\ next' = next + 1 /\ next \in Nat \ {0}
      /\ own'[Raw] = next /\ \A g \in Handle : g # Raw => own'[g] = own[g]
      /\ heap'[next] = Full(dnp.slab[0])
  BY <1>1, <1>4, <1>5, NewBlock, Handles
<1>7. TypeInv'
  <2>1. scr' \in 0 .. next' - 1 /\ ncopy' \in [Mode -> 0 .. next' - 1] /\ vals' \in 0 .. next' - 1
    BY <1>1, <1>6 DEF IInv, TypeInv
  <2> QED
    BY <1>1, <1>2, <1>6, <2>1, MemoryNext, Modes DEF TypeInv, Driving
<1>8. Ownership'
  BY <1>6, MemoryNext
<1>9. own'[Scratch] = Null /\ own'[Raw] # Null /\ \A h \in Handle : h # Raw => own'[h] = Null
  BY <1>2, <1>6, Handles DEF Owned, Null
<1>10. fiberSorted' = {} /\ csr' = {} /\ NoCopies'
  BY <1>1, <1>2, <1>3 DEF NoCopies
<1>11. PingPongInv'
  BY <1>1, <1>2, <1>6, <1>9, <1>10, Handles DEF PingPongInv, Owned, Driving
<1>12. InPlaceInv'
  <2>1. ASSUME layout' = "InPlace" PROVE Sorted(vals, sortedMode)'
    BY <1>1, <1>3, <1>6, <2>1 DEF Sorted, Wide, Full
  <2> QED
    BY <1>1, <1>2, <1>6, <1>9, <1>10, <2>1, Handles DEF InPlaceInv, Owned, Driving
<1>13. FileInv'
  BY <1>1, FileKept
<1>14. GivenInv' /\ BuildInv'
  BY <1>1, <1>2 DEF GivenInv, BuildInv, Building
<1>15. LoopInv'
  BY <1>1, <1>2, LoopAtReady DEF Driving
<1> QED
  BY <1>1, <1>7, <1>8, <1>11, <1>12, <1>13, <1>14, <1>15 DEF IInv, MortonInv, NCopyInv

LEMMA LoadMortonKeeps == ASSUME IInv, LoadMorton PROVE IInv'
<1>1. /\ pc = "load" /\ dnp.state = "complete" /\ dnp.layout = "Morton"
      /\ Alloc(MortonBuf, Bare(dnp.slab[0])) /\ pc' = "ready"
      /\ dense' = dnp.dense /\ layout' = dnp.layout /\ fiberSorted' = dnp.fiberSorted
      /\ csr' = dnp.csr /\ sortedMode' = dnp.sortedMode
      /\ UNCHANGED <<opt, k, vals, scr, ncopy, dnp>>
  BY DEF LoadMorton, LoadFlags, views
<1>2. /\ k = 0 /\ opt.runtime /\ opt \in Options
      /\ vals = Null /\ scr = Null /\ NoCopies /\ Owned({}, {})
      /\ dnp.csr \subseteq dnp.fiberSorted /\ dnp.fiberSorted \subseteq dnp.dense
      /\ dnp.dense \subseteq Mode /\ dnp.sortedMode \in Mode
  BY <1>1, AtLoad
<1>3. dnp.fiberSorted = {} /\ dnp.slab[0] = <<"morton", 0>>
  BY <1>1 DEF IInv, FileInv
<1>4. Bare(dnp.slab[0]) \in Content
  BY <1>3, Contents
<1>5. own[MortonBuf] = Null
  BY <1>2, Handles DEF Owned
<1>6. /\ Memory(heap', own', next') /\ next' = next + 1 /\ next \in Nat \ {0}
      /\ own'[MortonBuf] = next /\ \A g \in Handle : g # MortonBuf => own'[g] = own[g]
      /\ heap'[next] = Bare(dnp.slab[0])
  BY <1>1, <1>4, <1>5, NewBlock, Handles
<1>7. TypeInv'
  <2>1. scr' \in 0 .. next' - 1 /\ ncopy' \in [Mode -> 0 .. next' - 1] /\ vals' \in 0 .. next' - 1
    BY <1>1, <1>6 DEF IInv, TypeInv
  <2> QED
    BY <1>1, <1>2, <1>6, <2>1, MemoryNext, Modes DEF TypeInv, Driving
<1>8. Ownership'
  BY <1>6, MemoryNext
<1>9. own'[MortonBuf] # Null /\ \A h \in Handle : h # MortonBuf => own'[h] = Null
  BY <1>2, <1>6 DEF Owned, Null
<1>10. fiberSorted' = {} /\ csr' = {} /\ NoCopies'
  BY <1>1, <1>2, <1>3 DEF NoCopies
<1>11. MortonInv'
  <2>1. heap'[own'[MortonBuf]].order = <<"morton", 0>>
    BY <1>3, <1>6 DEF Bare
  <2> QED
    BY <1>1, <1>2, <1>9, <1>10, <2>1 DEF MortonInv, Owned, Driving
<1>12. FileInv'
  BY <1>1, FileKept
<1>13. GivenInv' /\ BuildInv'
  BY <1>1, <1>2 DEF GivenInv, BuildInv, Building
<1>14. LoopInv'
  BY <1>1, <1>2, LoopAtReady DEF Driving
<1> QED
  BY <1>1, <1>7, <1>8, <1>11, <1>12, <1>13, <1>14 DEF IInv, PingPongInv, InPlaceInv, NCopyInv


\* The raw pointers of a loaded NCopy tensor.
LEMMA LoadedOwns ==
  ASSUME dnp.csr \subseteq Mode
  PROVE  /\ LoadedOwn[Raw] = 1 /\ LoadedOwn[Scratch] = 2
         /\ LoadedOwn[SortTemp] = Null /\ LoadedOwn[InplaceScr] = Null
         /\ LoadedOwn[MortonBuf] = Null
         /\ \A n \in Mode :
              /\ LoadedOwn[NCopyRaw(n)] = IF n >= 2 THEN n + 1 ELSE Null
              /\ LoadedOwn[Compact(n)] = Null
              /\ LoadedOwn[Rowptr(n)] = IF n \in dnp.csr THEN N + 1 + n ELSE Null
<1> DEFINE A == {NCopyRaw(n) : n \in 2 .. N - 1}
           C == {Rowptr(n) : n \in dnp.csr}
<1>1. /\ {Raw, Scratch, SortTemp, InplaceScr, MortonBuf} \cap (A \cup C) = {}
  BY DEF Raw, Scratch, SortTemp, InplaceScr, MortonBuf, NCopyRaw, Rowptr
<1>2. LoadedOwn[Raw] = 1 /\ LoadedOwn[Scratch] = 2
  <2> HIDE DEF A, C
  <2> QED
    BY <1>1, Handles DEF LoadedOwn, A, C
<1>3. /\ LoadedOwn[SortTemp] = Null /\ LoadedOwn[InplaceScr] = Null
      /\ LoadedOwn[MortonBuf] = Null
  <2> HIDE DEF A, C
  <2> QED
    BY <1>1, Handles DEF LoadedOwn, A, C
<1>4. ASSUME NEW n \in Mode
      PROVE  LoadedOwn[NCopyRaw(n)] = IF n >= 2 THEN n + 1 ELSE Null
  <2>1. NCopyRaw(n) \in Handle /\ NCopyRaw(n) # Raw /\ NCopyRaw(n) # Scratch
    BY ModeHandles
  <2>2. NCopyRaw(n) \notin C
    BY DEF NCopyRaw, Rowptr
  <2>3. NCopyRaw(n) \in A <=> n >= 2
    BY Modes DEF NCopyRaw, Mode
  <2>4. NCopyRaw(n)[2] = n
    BY DEF NCopyRaw
  <2>5. LoadedOwn[NCopyRaw(n)] = CASE NCopyRaw(n) \in A -> NCopyRaw(n)[2] + 1
                                   [] NCopyRaw(n) \in C -> N + 1 + NCopyRaw(n)[2]
                                   [] OTHER -> Null
    BY <2>1 DEF LoadedOwn
  <2> HIDE DEF A, C
  <2> QED
    BY <2>2, <2>3, <2>4, <2>5
<1>5. ASSUME NEW n \in Mode PROVE LoadedOwn[Compact(n)] = Null
  <2>1. Compact(n) \in Handle /\ Compact(n) # Raw /\ Compact(n) # Scratch
    BY ModeHandles
  <2>2. Compact(n) \notin A /\ Compact(n) \notin C
    BY DEF NCopyRaw, Rowptr, Compact
  <2>3. LoadedOwn[Compact(n)] = CASE Compact(n) \in A -> Compact(n)[2] + 1
                                  [] Compact(n) \in C -> N + 1 + Compact(n)[2]
                                  [] OTHER -> Null
    BY <2>1 DEF LoadedOwn
  <2> HIDE DEF A, C
  <2> QED
    BY <2>2, <2>3
<1>6. ASSUME NEW n \in Mode
      PROVE  LoadedOwn[Rowptr(n)] = IF n \in dnp.csr THEN N + 1 + n ELSE Null
  <2>1. Rowptr(n) \in Handle /\ Rowptr(n) # Raw /\ Rowptr(n) # Scratch
    BY ModeHandles
  <2>2. Rowptr(n) \notin A
    BY DEF NCopyRaw, Rowptr
  <2>3. Rowptr(n) \in C <=> n \in dnp.csr
    BY DEF Rowptr
  <2>4. Rowptr(n)[2] = n
    BY DEF Rowptr
  <2>5. LoadedOwn[Rowptr(n)] = CASE Rowptr(n) \in A -> Rowptr(n)[2] + 1
                                 [] Rowptr(n) \in C -> N + 1 + Rowptr(n)[2]
                                 [] OTHER -> Null
    BY <2>1 DEF LoadedOwn
  <2> HIDE DEF A, C
  <2> QED
    BY <2>2, <2>3, <2>4, <2>5
<1> QED
  BY <1>2, <1>3, <1>4, <1>5, <1>6

LEMMA LoadNCopyKeeps == ASSUME IInv, LoadNCopy PROVE IInv'
<1> DEFINE Rows == {N + 1 + n : n \in dnp.csr}
<1>1. /\ pc = "load" /\ dnp.state = "complete" /\ dnp.layout = "NCopy"
      /\ heap' = [b \in 1 .. N \cup Rows |->
                    IF b =< N THEN Full(dnp.slab[b - 1]) ELSE Bare(<<"rowptr", b - N - 1>>)]
      /\ next' = 2 * N + 1 /\ own' = LoadedOwn
      /\ vals' = 1 /\ scr' = 2 /\ ncopy' = [n \in Mode |-> n + 1] /\ pc' = "ready"
      /\ dense' = dnp.dense /\ layout' = dnp.layout /\ fiberSorted' = dnp.fiberSorted
      /\ csr' = dnp.csr /\ sortedMode' = dnp.sortedMode
      /\ UNCHANGED <<opt, k, dnp>>
  BY DEF LoadNCopy, LoadFlags
<1>2. /\ k = 0 /\ opt.runtime /\ opt \in Options
      /\ dnp.csr \subseteq dnp.fiberSorted /\ dnp.fiberSorted \subseteq dnp.dense
      /\ dnp.dense \subseteq Mode /\ dnp.sortedMode \in Mode /\ dnp.csr \subseteq Mode
  <2>1. /\ k = 0 /\ opt.runtime /\ opt \in Options
        /\ dnp.csr \subseteq dnp.fiberSorted /\ dnp.fiberSorted \subseteq dnp.dense
        /\ dnp.dense \subseteq Mode /\ dnp.sortedMode \in Mode
    BY <1>1, AtLoad
  <2> QED
    BY <2>1
<1>3. \A n \in Mode : dnp.slab[n] = IF n \in dnp.fiberSorted THEN Fiber(n) ELSE Shard(n)
  BY <1>1 DEF IInv, FileInv
<1>4. N \in Nat /\ N >= 2 /\ Mode = 0 .. N - 1
  BY Modes DEF Mode
<1>5. /\ own'[Raw] = 1 /\ own'[Scratch] = 2
      /\ own'[SortTemp] = Null /\ own'[InplaceScr] = Null
      /\ own'[MortonBuf] = Null
      /\ \A n \in Mode : /\ own'[NCopyRaw(n)] = IF n >= 2 THEN n + 1 ELSE Null
                         /\ own'[Compact(n)] = Null
                         /\ own'[Rowptr(n)] = IF n \in dnp.csr THEN N + 1 + n ELSE Null
  BY <1>1, <1>2, LoadedOwns
<1>6. DOMAIN heap' = 1 .. N \cup Rows
  BY <1>1
<1>7. \A n \in Mode : n + 1 \in 1 .. N /\ heap'[n + 1] = Full(dnp.slab[n])
  <2>1. ASSUME NEW n \in Mode PROVE n + 1 \in 1 .. N /\ heap'[n + 1] = Full(dnp.slab[n])
    <3>1. n \in Int /\ n + 1 \in 1 .. N /\ n + 1 - 1 = n /\ n + 1 =< N
      BY <1>4
    <3> QED
      BY <1>1, <3>1
  <2> QED
    BY <2>1
<1>8. \A n \in dnp.csr : /\ N + 1 + n \in Rows /\ N + 1 + n > N
                         /\ heap'[N + 1 + n] = Bare(<<"rowptr", n>>)
  <2>1. ASSUME NEW n \in dnp.csr
        PROVE  N + 1 + n \in Rows /\ N + 1 + n > N /\ heap'[N + 1 + n] = Bare(<<"rowptr", n>>)
    <3>1. n \in Nat
      BY <1>2, <1>4
    <3>2. N + 1 + n \in Rows
      OBVIOUS
    <3>3. ~ (N + 1 + n =< N) /\ (N + 1 + n) - N - 1 = n /\ N + 1 + n > N
      BY <1>4, <3>1
    <3> HIDE DEF Rows
    <3> QED
      BY <1>1, <3>2, <3>3
  <2> QED
    BY <2>1
<1>9. ASSUME NEW h \in Handle
      PROVE  \/ own'[h] = Null
             \/ h = Raw /\ own'[h] = 1
             \/ h = Scratch /\ own'[h] = 2
             \/ \E n \in Mode : n >= 2 /\ h = NCopyRaw(n) /\ own'[h] = n + 1
             \/ \E n \in dnp.csr : h = Rowptr(n) /\ own'[h] = N + 1 + n
  <2>1. CASE h \in {Raw, Scratch, SortTemp, InplaceScr, MortonBuf}
    BY <1>5, <2>1
  <2>2. CASE \E n \in Mode : h \in {NCopyRaw(n), Compact(n), Rowptr(n)}
    <3>1. PICK n \in Mode : h \in {NCopyRaw(n), Compact(n), Rowptr(n)}
      BY <2>2
    <3> QED
      BY <1>5, <3>1
  <2> QED
    BY <2>1, <2>2, HandleCases
<1>10. Memory(heap', own', next')
  <2>1. next' \in Nat \ {0} /\ next' - 1 = 2 * N
    BY <1>1, <1>4
  <2>2. ASSUME NEW h \in Handle PROVE own'[h] \in 0 .. 2 * N
    <3>1. \A n \in Mode : n + 1 \in 0 .. 2 * N /\ N + 1 + n \in 0 .. 2 * N
      BY <1>4
    <3>2. Null \in 0 .. 2 * N /\ 1 \in 0 .. 2 * N /\ 2 \in 0 .. 2 * N
      BY <1>4 DEF Null
    <3> QED
      BY <1>2, <1>9, <3>1, <3>2
  <2>3. own' \in [Handle -> 0 .. next' - 1]
    <3>1. DOMAIN own' = Handle /\ own' = [h \in Handle |-> own'[h]]
      BY <1>1 DEF LoadedOwn
    <3> QED
      BY <2>1, <2>2, <3>1
  <2>4. ASSUME NEW b \in 1 .. N PROVE \E n \in Mode : b = n + 1
    <3>1. b - 1 \in Mode /\ b = (b - 1) + 1
      BY <1>4
    <3> QED
      BY <3>1
  <2>5. ASSUME NEW b \in DOMAIN heap'
        PROVE  heap'[b] \in Content /\ b \in 1 .. 2 * N /\ \E h \in Handle : own'[h] = b
    <3>1. CASE b \in 1 .. N
      <4>1. PICK n \in Mode : b = n + 1
        BY <2>4, <3>1
      <4>2. dnp.slab[n] \in {Fiber(n), Shard(n)}
        BY <1>3
      <4>3. heap'[b] \in Content
        BY <1>7, <4>1, <4>2, Contents
      <4>4. \E h \in Handle : own'[h] = b
        <5>1. CASE n >= 2
          BY <1>5, <4>1, <5>1, ModeHandles
        <5>2. CASE n = 0
          BY <1>5, <4>1, <5>2, Handles
        <5>3. CASE n = 1
          BY <1>5, <4>1, <5>3, Handles
        <5>4. n >= 2 \/ n = 0 \/ n = 1
          BY <1>4
        <5> QED
          BY <5>1, <5>2, <5>3, <5>4
      <4>5. b \in 1 .. 2 * N
        BY <1>4, <3>1
      <4> QED
        BY <4>3, <4>4, <4>5
    <3>2. CASE b \in Rows
      <4>1. PICK n \in dnp.csr : b = N + 1 + n
        BY <3>2
      <4>2. n \in Mode
        BY <1>2
      <4>3. heap'[b] \in Content
        BY <1>8, <4>1, <4>2, Contents
      <4>4. \E h \in Handle : own'[h] = b
        BY <1>5, <4>1, <4>2, ModeHandles
      <4>5. b \in 1 .. 2 * N
        BY <1>4, <4>1, <4>2
      <4> QED
        BY <4>3, <4>4, <4>5
    <3> QED
      BY <1>6, <3>1, <3>2
  <2>6. heap' \in [DOMAIN heap' -> Content]
    <3>1. heap' = [b \in DOMAIN heap' |-> heap'[b]]
      BY <1>1
    <3> QED
      BY <2>5, <3>1
  <2>7. ASSUME NEW h \in Handle, own'[h] # Null
        PROVE  own'[h] \in DOMAIN heap' /\ \A g \in Handle \ {h} : own'[g] # own'[h]
    <3>1. own'[h] \in DOMAIN heap'
      BY <1>2, <1>4, <1>6, <1>7, <1>8, <1>9, <2>7
    <3>2. ASSUME NEW g \in Handle, own'[g] = own'[h] PROVE g = h
      <4>1. CASE h = Raw /\ own'[h] = 1
        <5>1. own'[g] # Null
          BY <2>7, <3>2
        <5>2. \A n \in Mode : (n >= 2 => n + 1 # 1) /\ N + 1 + n # 1
          BY <1>4
        <5> QED
          BY <1>2, <1>9, <3>2, <4>1, <5>1, <5>2
      <4>2. CASE h = Scratch /\ own'[h] = 2
        <5>1. own'[g] # Null
          BY <2>7, <3>2
        <5>2. \A n \in Mode : (n >= 2 => n + 1 # 2) /\ N + 1 + n # 2
          BY <1>4
        <5> QED
          BY <1>2, <1>9, <3>2, <4>2, <5>1, <5>2
      <4>3. CASE \E n \in Mode : n >= 2 /\ h = NCopyRaw(n) /\ own'[h] = n + 1
        <5>1. PICK n \in Mode : n >= 2 /\ h = NCopyRaw(n) /\ own'[h] = n + 1
          BY <4>3
        <5>2. n + 1 # Null /\ n + 1 # 1 /\ n + 1 # 2
          BY <1>4, <5>1 DEF Null
        <5>3. \A m \in Mode : (m + 1 = n + 1 => m = n) /\ N + 1 + m # n + 1
          BY <1>4
        <5> QED
          BY <1>2, <1>9, <3>2, <5>1, <5>2, <5>3
      <4>4. CASE \E n \in dnp.csr : h = Rowptr(n) /\ own'[h] = N + 1 + n
        <5>1. PICK n \in dnp.csr : h = Rowptr(n) /\ own'[h] = N + 1 + n
          BY <4>4
        <5>2. n \in Mode /\ N + 1 + n # Null /\ N + 1 + n # 1 /\ N + 1 + n # 2
          BY <1>2, <1>4 DEF Null
        <5>3. \A m \in Mode : (N + 1 + m = N + 1 + n => m = n) /\ m + 1 # N + 1 + n
          BY <1>4, <5>2
        <5> QED
          BY <1>2, <1>9, <3>2, <5>1, <5>2, <5>3
      <4> QED
        BY <1>9, <2>7, <4>1, <4>2, <4>3, <4>4
    <3> QED
      BY <3>1, <3>2
  <2>8. DOMAIN heap' \subseteq 1 .. next' - 1
    BY <2>1, <2>5
  <2> QED
    BY <2>1, <2>3, <2>5, <2>6, <2>7, <2>8 DEF Memory
<1> HIDE DEF Rows
<1>11. TypeInv'
  <2>1. next' - 1 = 2 * N /\ 1 \in 0 .. 2 * N /\ 2 \in 0 .. 2 * N
    BY <1>1, <1>4
  <2>2. \A n \in Mode : n + 1 \in 0 .. 2 * N
    BY <1>4
  <2>3. ncopy' \in [Mode -> 0 .. next' - 1]
    BY <1>1, <2>1, <2>2
  <2>4. k' \in 0 .. N
    BY <1>1, <1>2, <1>4
  <2> QED
    BY <1>1, <1>2, <1>10, <2>1, <2>3, <2>4, MemoryNext DEF TypeInv, Driving
<1>12. Ownership'
  BY <1>10, MemoryNext
<1>13. NCopyInv'
  <2>1. ASSUME NEW n \in Mode
        PROVE  /\ ~ Packed(n)' /\ ncopy'[n] = own'[Home(n)'] /\ own'[Home(n)'] # Null
               /\ heap'[ncopy'[n]].order = IF n \in fiberSorted' THEN Fiber(n) ELSE Shard(n)
               /\ heap'[ncopy'[n]].cols = Mode
               /\ own'[Rowptr(n)] # Null <=> n \in csr'
               /\ n \in csr' => heap'[own'[Rowptr(n)]].order = <<"rowptr", n>>
    <3>1. ~ Packed(n)'
      BY <1>5 DEF Packed
    <3>2. ncopy'[n] = n + 1 /\ n + 1 # Null
      BY <1>1, <1>4 DEF Null
    <3>3. own'[Home(n)'] = n + 1
      <4>1. CASE n = 0
        BY <1>1, <1>2, <1>5, <4>1 DEF Home
      <4>2. CASE n = 1
        BY <1>1, <1>2, <1>5, <4>2 DEF Home
      <4>3. CASE n # 0 /\ n # 1
        <5>1. n >= 2 /\ Home(n)' = NCopyRaw(n)
          BY <1>4, <4>3 DEF Home
        <5> QED
          BY <1>5, <5>1
      <4> QED
        BY <4>1, <4>2, <4>3
    <3>4. /\ heap'[ncopy'[n]].order = IF n \in fiberSorted' THEN Fiber(n) ELSE Shard(n)
          /\ heap'[ncopy'[n]].cols = Mode
      <4>1. heap'[ncopy'[n]] = Full(dnp.slab[n])
        BY <1>7, <3>2
      <4>2. dnp.slab[n] = IF n \in dnp.fiberSorted THEN Fiber(n) ELSE Shard(n)
        BY <1>3
      <4>3. fiberSorted' = dnp.fiberSorted
        BY <1>1
      <4> QED
        BY <4>1, <4>2, <4>3 DEF Full
    <3>5. N + 1 + n # Null
      BY <1>4 DEF Null
    <3>6. own'[Rowptr(n)] # Null <=> n \in csr'
      BY <1>1, <1>5, <3>5
    <3>7. n \in csr' => heap'[own'[Rowptr(n)]].order = <<"rowptr", n>>
      <4>1. ASSUME n \in dnp.csr PROVE heap'[own'[Rowptr(n)]] = Bare(<<"rowptr", n>>)
        BY <1>5, <1>8, <4>1
      <4>2. csr' = dnp.csr
        BY <1>1
      <4> QED
        BY <4>1, <4>2 DEF Bare
    <3> QED
      BY <3>1, <3>2, <3>3, <3>4, <3>6, <3>7
  <2>2. Present' = Mode /\ Filled' = Mode
    BY <1>1 DEF Present, Filled
  <2>3. opt'.runtime
    BY <1>1, <1>2
  <2>4. CopyInv'
    BY <2>1, <2>2, <2>3 DEF CopyInv
  <2>5. ncopy'[0] = 1 /\ ncopy'[1] = 2
    BY <1>1, Modes
  <2> QED
    BY <1>1, <1>5, <2>3, <2>4, <2>5 DEF NCopyInv, Driving
<1>14. FileInv'
  BY <1>1, FileKept
<1>15. GivenInv' /\ BuildInv'
  BY <1>1, <1>2 DEF GivenInv, BuildInv, Building
<1>16. LoopInv'
  BY <1>1, <1>2, LoopAtReady DEF Driving
<1> QED
  BY <1>1, <1>11, <1>12, <1>13, <1>14, <1>15, <1>16 DEF IInv, PingPongInv, InPlaceInv, MortonInv

-----------------------------------------------------------------------------
LEMMA StutterKeeps == ASSUME IInv, UNCHANGED vars PROVE IInv'
<1>1. UNCHANGED <<pc, opt, dense, k, heap, next, own, vals, scr, ncopy, layout, fiberSorted, csr,
                  sortedMode, dnp>>
  BY DEF vars, slabs, views, flags
<1>2. TypeInv' /\ LoopInv' /\ Ownership'
  BY <1>1 DEF IInv, TypeInv, LoopInv, Ownership, Live, FiberPass
<1>3. GivenInv' /\ BuildInv' /\ FileInv'
  BY <1>1 DEF IInv, GivenInv, BuildInv, FileInv, Owned, NoCopies, Wide
<1>4. PingPongInv' /\ InPlaceInv' /\ MortonInv'
  BY <1>1 DEF IInv, PingPongInv, InPlaceInv, MortonInv, Owned, NoCopies, Sorted, Wide
<1>5. NCopyInv'
  <2>1. Present' = Present /\ Filled' = Filled /\ Passed' = Passed
    BY <1>1 DEF Present, Filled, Passed
  <2>2. /\ FiberPass' <=> FiberPass
        /\ CsrPass' <=> CsrPass
        /\ CompactPass' <=> CompactPass
        /\ Packed(0)' <=> Packed(0)
        /\ Packed(1)' <=> Packed(1)
        /\ \A n \in Mode : Packed(n)' <=> Packed(n)
        /\ \A n \in Mode : Home(n)' = Home(n)
    BY <1>1 DEF Packed, Home, CompactPass, CsrPass, FiberPass
  <2>3. Present \subseteq Mode /\ Filled \subseteq Mode
    <3>1. pc \in {"slab", "remap"} => k \in 1 .. N - 1
      BY Modes DEF IInv, TypeInv, LoopInv
    <3>2. k \in Nat /\ N \in Nat
      BY Modes DEF IInv, TypeInv
    <3> QED
      BY <3>1, <3>2, BelowNext, Below DEF Present, Filled
  <2>4. ASSUME CopyInv PROVE CopyInv'
    BY <1>1, <2>1, <2>2, <2>3, <2>4 DEF CopyInv
  <2>5. NCopyInv
    BY DEF IInv
  <2> QED
    BY <1>1, <2>1, <2>2, <2>4, <2>5 DEF NCopyInv
<1> QED
  BY <1>2, <1>3, <1>4, <1>5 DEF IInv

LEMMA NextKeeps == IInv /\ [Next]_vars => IInv'
<1> SUFFICES ASSUME IInv, [Next]_vars PROVE IInv'
  OBVIOUS
<1>1. CASE Start
  BY <1>1, StartKeeps
<1>2. CASE Abort \/ Exit
  BY <1>2, ResetInv, FileKept DEF Abort, Exit
<1>3. CASE Build
  BY <1>3, ParseKeeps, ScratchKeeps, SortKeeps, PingPongKeeps, InPlaceKeeps,
     InPlaceScratchKeeps, MortonKeeps, MortonFailsKeeps, NCopyKeeps, SlabKeeps, RemapKeeps,
     TempKeeps, SkipKeeps, FiberSortKeeps, CopyBackKeeps, CompactKeeps, FreeTempKeeps
     DEF Build
<1>4. CASE File
  BY <1>4, FileKeeps, LoadSlabKeeps, LoadMortonKeeps, LoadNCopyKeeps DEF File
<1>5. CASE Run
  BY <1>5, DriversKeep, InPlaceProcessKeeps, PingPongProcessKeeps DEF Run
<1>6. CASE UNCHANGED vars
  BY <1>6, StutterKeeps
<1> QED
  BY <1>1, <1>2, <1>3, <1>4, <1>5, <1>6 DEF Next

(* The inductive invariant holds in every process, whatever the command    *)
(* line and the tensor, and whenever a process before it was killed.       *)
THEOREM Invariance == Spec => []IInv
<1>1. Init => IInv
  BY InitInv
<1>2. IInv /\ [Next]_vars => IInv'
  BY NextKeeps
<1> QED
  BY <1>1, <1>2, PTL DEF Spec


-----------------------------------------------------------------------------
(* The copies, and vals and scr among them. *)

LEMMA CopyBlocks ==
  ASSUME IInv, layout = "NCopy", NEW n \in Mode, ncopy[n] # Null
  PROVE  \E h \in {Home(n), Compact(n)} : h \in Handle /\ own[h] = ncopy[n] /\ own[h] # Null
<1>1. CopyInv
  BY DEF IInv, NCopyInv
<1>2. n \in Present
  BY <1>1 DEF CopyInv
<1>3. Home(n) \in Handle /\ Compact(n) \in Handle
  BY Homes, ModeHandles
<1> QED
  BY <1>1, <1>2, <1>3 DEF CopyInv, Packed

LEMMA CopiesApart ==
  ASSUME IInv, layout = "NCopy", NEW m \in Mode, NEW n \in Mode, m # n, ncopy[m] # Null
  PROVE  ncopy[m] # ncopy[n]
<1>1. CASE ncopy[n] = Null
  BY <1>1
<1>2. CASE ncopy[n] # Null
  <2>1. PICK g \in {Home(m), Compact(m)} : g \in Handle /\ own[g] = ncopy[m] /\ own[g] # Null
    BY CopyBlocks
  <2>2. PICK h \in {Home(n), Compact(n)} : h \in Handle /\ own[h] = ncopy[n] /\ own[h] # Null
    BY <1>2, CopyBlocks
  <2>3. g # h
    BY Homes, ModeHandles
  <2> QED
    BY <2>1, <2>2, <2>3, OwnedLives
<1> QED
  BY <1>1, <1>2

\* A copy that is filled.
LEMMA FilledCopy ==
  ASSUME IInv, layout = "NCopy", pc \notin {"slab", "remap"}, NEW n \in Mode
  PROVE  /\ ncopy[n] # Null /\ ncopy[n] \in DOMAIN heap
         /\ heap[ncopy[n]].order = IF n \in fiberSorted THEN Fiber(n) ELSE Shard(n)
         /\ heap[ncopy[n]].cols = IF Packed(n) THEN Mode \ {n} ELSE Mode
<1>1. CopyInv /\ Present = Mode /\ Filled = Mode
  BY DEF IInv, NCopyInv, Present, Filled
<1>2. \/ ncopy[n] = own[Compact(n)] /\ own[Compact(n)] # Null
      \/ ncopy[n] = own[Home(n)] /\ own[Home(n)] # Null
  BY <1>1 DEF CopyInv, Packed
<1>3. ncopy[n] # Null /\ ncopy[n] \in DOMAIN heap
  BY <1>2, OwnedLives, Homes, ModeHandles
<1> QED
  BY <1>1, <1>3 DEF CopyInv

\* With the copies made, vals and scr are null or point to copies 0 and 1,
\* unless copy 0 alone is compacted.
LEMMA ViewsOfCopies ==
  ASSUME IInv, layout = "NCopy", pc \notin {"slab", "remap"}, vals # Null, scr # Null
  PROVE  vals = ncopy[0] /\ scr = ncopy[1]
BY DEF IInv, NCopyInv

LEMMA Apartness == ASSUME IInv PROVE SlabsDistinct
<1>1. layout # "NCopy" => NoCopies
  <2>1. layout \in {"PingPong", "InPlace", "Morton", "NCopy"}
    BY DEF IInv, TypeInv
  <2> QED
    BY <2>1 DEF IInv, BuildInv, PingPongInv, InPlaceInv, MortonInv
<1>2. ASSUME vals # Null PROVE vals # scr
  <2>1. CASE layout = "NCopy"
    <3>1. CASE pc \in {"slab", "remap"}
      <4>1. vals = own[Scratch] /\ scr = own[Raw]
        BY <2>1, <3>1 DEF IInv, NCopyInv
      <4> QED
        BY <1>2, <4>1, OwnedLives, Handles
    <3>2. CASE pc \notin {"slab", "remap"} /\ scr # Null
      <4>1. vals = ncopy[0] /\ scr = ncopy[1]
        BY <1>2, <2>1, <3>2, ViewsOfCopies
      <4> QED
        BY <1>2, <2>1, <4>1, CopiesApart, Modes
    <3> QED
      BY <1>2, <3>1, <3>2
  <2>2. CASE layout = "PingPong"
    <3>1. CASE pc \in Building
      <4>1. \/ vals = own[Raw] /\ scr = Null
            \/ vals = own[Raw] /\ scr = own[Scratch]
            \/ vals = own[Scratch] /\ scr = own[Raw]
        BY <1>2, <3>1 DEF IInv, BuildInv, Building
      <4> QED
        BY <1>2, <4>1, OwnedLives, Handles
    <3>2. CASE pc \notin Building
      <4>1. {vals, scr} = {own[Raw], own[Scratch]} /\ own[Raw] # Null
        BY <2>2, <3>2, Handles DEF IInv, PingPongInv, Owned
      <4>2. own[Raw] # own[Scratch]
        BY <4>1, OwnedLives, Handles
      <4> QED
        BY <4>1, <4>2
    <3> QED
      BY <3>1, <3>2
  <2>3. CASE layout = "InPlace"
    BY <1>2, <2>3 DEF IInv, InPlaceInv
  <2>4. CASE layout = "Morton"
    BY <1>2, <2>4 DEF IInv, MortonInv
  <2> QED
    BY <2>1, <2>2, <2>3, <2>4 DEF IInv, TypeInv
<1>3. ASSUME NEW m \in Mode, NEW n \in Mode, m # n, ncopy[m] # Null
      PROVE  ncopy[m] # ncopy[n]
  BY <1>1, <1>3, CopiesApart DEF NoCopies
<1>4. ASSUME NEW n \in Mode, ncopy[n] # Null PROVE ncopy[n] # own[SortTemp]
  <2>1. layout = "NCopy"
    BY <1>1, <1>4 DEF NoCopies
  <2>2. PICK h \in {Home(n), Compact(n)} : h \in Handle /\ own[h] = ncopy[n] /\ own[h] # Null
    BY <1>4, <2>1, CopyBlocks
  <2>3. h # SortTemp
    BY Homes, ModeHandles
  <2> QED
    BY <2>2, <2>3, OwnedLives, Handles
<1> QED
  BY <1>2, <1>3, <1>4 DEF SlabsDistinct

(* At every step of every process the memory of the tensor is in order:    *)
(* each live block has one raw pointer, vals and scr and the copies are    *)
(* different blocks, whatever was allocated, swapped, relabelled, freed by *)
(* ncopy_csr_compact_copy_k or loaded by load_dnp_tensor before.           *)
THEOREM SlabsAreSound == Spec => []SlabsSound
<1>1. IInv => SlabsSound
  <2> SUFFICES ASSUME IInv PROVE SlabsSound
    OBVIOUS
  <2>1. Ownership /\ SlabsDistinct
    BY Apartness DEF IInv
  <2>2. ASSUME NEW b \in DOMAIN heap
        PROVE  /\ b \in (0 .. next - 1) \ {Null} /\ heap[b].cols \subseteq Mode
               /\ heap[b].order \in {"junk", "input", "shard", "fiber", "rowptr", "morton"} \X Mode
    <3>1. heap[b] \in Content /\ b \in 1 .. next - 1 /\ next \in Nat
      BY DEF IInv, TypeInv
    <3> QED
      BY <3>1 DEF Content, Order, Null
  <2>3. /\ opt \in Options \cup {NoOption} /\ dense \subseteq Mode /\ k \in 0 .. N
        /\ own \in [Handle -> 0 .. next - 1]
        /\ vals \in 0 .. next - 1 /\ scr \in 0 .. next - 1 /\ ncopy \in [Mode -> 0 .. next - 1]
        /\ layout \in {"PingPong", "NCopy", "InPlace", "Morton"}
        /\ fiberSorted \subseteq Mode /\ csr \subseteq Mode /\ sortedMode \in Mode
    BY DEF IInv, TypeInv
  <2>4. SlabTypeOK
    BY <2>2, <2>3 DEF SlabTypeOK
  <2> QED
    BY <2>1, <2>4 DEF SlabsSound
<1> QED
  BY <1>1, Invariance, PTL

-----------------------------------------------------------------------------
(* The flags. *)

(* What process dispatches on is true of the slabs: a copy flagged fiber   *)
(* sorted is, a copy flagged csr has the row pointers of its mode, and the *)
(* one slab of InPlace is grouped for inplace_sorted_mode, in the process  *)
(* that built the tensor and in one that loaded the flags from the file.   *)
THEOREM FlagsTellTheTruth == Spec => []FlagsTruthful
<1>1. IInv => FlagsTruthful
  <2> SUFFICES ASSUME IInv PROVE FlagsTruthful
    OBVIOUS
  <2>1. fiberSorted # {} => layout = "NCopy" /\ pc \notin {"slab", "remap"}
    <3>1. layout # "NCopy" => fiberSorted = {}
      <4>1. layout \in {"PingPong", "InPlace", "Morton", "NCopy"}
        BY DEF IInv, TypeInv
      <4> QED
        BY <4>1 DEF IInv, BuildInv, PingPongInv, InPlaceInv, MortonInv
    <3>2. pc \in {"slab", "remap"} => fiberSorted = {}
      <4>1. ASSUME pc \in {"slab", "remap"} PROVE fiberSorted = {}
        BY <4>1, AtSlab DEF Scattered
      <4> QED
        BY <4>1
    <3> QED
      BY <3>1, <3>2
  <2>2. ASSUME NEW n \in fiberSorted
        PROVE  Live(ncopy[n]) /\ heap[ncopy[n]].order = Fiber(n)
    <3>1. n \in Mode /\ layout = "NCopy" /\ pc \notin {"slab", "remap"}
      BY <2>1 DEF IInv, TypeInv
    <3> QED
      BY <3>1, FilledCopy DEF Live
  <2>3. ASSUME NEW n \in csr
        PROVE  n \in fiberSorted /\ Live(own[Rowptr(n)]) /\ heap[own[Rowptr(n)]].order = <<"rowptr", n>>
    <3>1. n \in fiberSorted /\ n \in Mode
      BY DEF IInv, TypeInv
    <3>2. layout = "NCopy"
      BY <2>1, <3>1
    <3>3. own[Rowptr(n)] # Null /\ heap[own[Rowptr(n)]].order = <<"rowptr", n>>
      BY <3>1, <3>2 DEF IInv, NCopyInv, CopyInv
    <3> QED
      BY <3>1, <3>3, OwnedLives, ModeHandles DEF Live
  <2>4. layout = "InPlace" => Grouped(vals, sortedMode)
    <3>1. ASSUME layout = "InPlace" PROVE Grouped(vals, sortedMode)
      <4>1. vals = own[Raw] /\ own[Raw] # Null /\ Sorted(vals, sortedMode)
        BY <3>1, Handles DEF IInv, InPlaceInv, Owned
      <4>2. vals \in DOMAIN heap
        BY <4>1, OwnedLives, Handles
      <4> QED
        BY <4>1, <4>2 DEF Grouped, Sorted, Live
    <3> QED
      BY <3>1
  <2> QED
    BY <2>2, <2>3, <2>4 DEF FlagsTruthful
<1> QED
  BY <1>1, Invariance, PTL


-----------------------------------------------------------------------------
(* The footprint. *)

LEMMA TakenOverKept == IInv /\ TakenOver /\ [Next]_vars => TakenOver'
<1> SUFFICES ASSUME IInv, TakenOver, [Next]_vars PROVE TakenOver'
  OBVIOUS
<1> DEFINE X == {NCopyRaw(0), NCopyRaw(1)}
<1>1. /\ X \subseteq Handle /\ X \cap {Raw, Scratch, SortTemp, InplaceScr, MortonBuf} = {}
      /\ \A n \in Mode : /\ Compact(n) \notin X /\ Rowptr(n) \notin X
                         /\ n >= 2 => NCopyRaw(n) \notin X
  <2>1. \A n \in Mode : n >= 2 => n # 0 /\ n # 1
    BY Modes
  <2> QED
    BY <2>1, Modes, ModeHandles
<1>2. \A h \in X : own[h] = Null
  BY DEF TakenOver
<1> SUFFICES \A h \in X : own'[h] = Null
  BY DEF TakenOver
<1>3. own \in [Handle -> 0 .. next - 1] /\ k \in 0 .. N
  BY DEF IInv, TypeInv
<1> HIDE DEF X
<1>4. CASE UNCHANGED own
  BY <1>2, <1>4
<1>5. ASSUME NEW h \in Handle, h \notin X, NEW b, own' = [own EXCEPT ![h] = b]
      PROVE  \A g \in X : own'[g] = Null
  BY <1>1, <1>2, <1>3, <1>5
<1>6. CASE Reset
  BY <1>1, <1>6 DEF Reset
<1>7. CASE Build
  <2>1. CASE Parse \/ EnsureScratch \/ EnsureSortTemp \/ InPlaceScratch
    BY <1>1, <1>4, <1>5, <2>1, Handles DEF Parse, EnsureScratch, EnsureSortTemp, InPlaceScratch, Alloc, slabs
  <2>2. CASE SortAndCount \/ PingPong \/ MortonFails \/ NCopy \/ Remap \/ SkipCopy \/ FiberSortCopy
    BY <1>4, <2>2 DEF SortAndCount, PingPong, MortonFails, NCopy, Remap, SkipCopy, FiberSortCopy, slabs
  <2>3. CASE InPlace
    <3>1. own' = [own EXCEPT ![Raw] = Kept, ![Scratch] = Null]
      BY <2>3 DEF InPlace
    <3>2. Raw \notin X /\ Scratch \notin X
      BY <1>1
    <3> QED
      BY <1>1, <1>2, <1>3, <3>1, <3>2
  <2>4. CASE Morton
    <3>1. own' = [own EXCEPT ![MortonBuf] = next, ![Raw] = Null, ![Scratch] = Null]
      BY <2>4 DEF Morton
    <3>2. Raw \notin X /\ Scratch \notin X /\ MortonBuf \notin X
      BY <1>1
    <3> QED
      BY <1>1, <1>2, <1>3, <3>1, <3>2
  <2>5. CASE EnsureNCopySlab
    <3>1. k \in 1 .. N - 1
      BY <2>5, AtSlab DEF EnsureNCopySlab
    <3>2. CASE k = 1
      BY <1>4, <2>5, <3>2 DEF EnsureNCopySlab, slabs
    <3>3. CASE k # 1
      <4>1. own' = [own EXCEPT ![NCopyRaw(k)] = next]
        BY <2>5, <3>3 DEF EnsureNCopySlab, Alloc
      <4>2. k \in Mode /\ k >= 2
        BY <3>1, <3>3, Modes DEF Mode
      <4> QED
        BY <1>1, <1>5, <4>1, <4>2, ModeHandles
    <3> QED
      BY <3>2, <3>3
  <2>6. CASE CopyBack
    <3>1. k \in Mode /\ (own' = own \/ own' = [own EXCEPT ![Rowptr(k)] = next])
      BY <2>6, AtPlace DEF CopyBack
    <3> QED
      BY <1>1, <1>4, <1>5, <3>1, ModeHandles
  <2>7. CASE CompactCopy
    <3>1. /\ k \in Mode
          /\ own' = [[own EXCEPT ![Backing(k)] = Null] EXCEPT ![Compact(k)] = next, ![Rowptr(k)] = next + 1]
      BY <2>7, AtPlace DEF CompactCopy, Released
    <3>2. Compact(k) \notin X /\ Rowptr(k) \notin X
      BY <1>1, <3>1
    <3>3. ASSUME NEW g \in X PROVE own'[g] = Null
      <4>1. g \in Handle /\ own[g] = Null /\ g # Compact(k) /\ g # Rowptr(k)
        BY <1>1, <1>2, <3>2
      <4> QED
        BY <1>3, <3>1, <4>1
    <3> QED
      BY <3>3
  <2>8. CASE FreeSortTemp
    <3>1. own' = [own EXCEPT ![SortTemp] = Null]
      BY <2>8 DEF FreeSortTemp, Released
    <3> QED
      BY <1>1, <1>5, <3>1, Handles
  <2> QED
    BY <1>7, <2>1, <2>2, <2>3, <2>4, <2>5, <2>6, <2>7, <2>8 DEF Build
<1>8. CASE File
  <2>1. CASE Save \/ SaveRejected \/ SaveTorn \/ LoadFails
    BY <1>4, <1>6, <2>1 DEF Save, SaveRejected, SaveTorn, LoadFails, slabs
  <2>2. CASE LoadSlab \/ LoadMorton
    BY <1>1, <1>5, <2>2, Handles DEF LoadSlab, LoadMorton, Alloc
  <2>3. CASE LoadNCopy
    <3>1. dnp.csr \subseteq Mode /\ own' = LoadedOwn
      BY <2>3, AtLoad DEF LoadNCopy
    <3>2. own'[NCopyRaw(0)] = Null /\ own'[NCopyRaw(1)] = Null
      BY <3>1, LoadedOwns, Modes
    <3> QED
      BY <3>2 DEF X
  <2> QED
    BY <1>8, <2>1, <2>2, <2>3 DEF File
<1>9. CASE Run
  BY <1>4, <1>9 DEF Run, Drive, ReadOnce, ProcessNCopy, ProcessInPlace, ProcessPingPong, AllModes,
                    MortonPass, Iterate, slabs
<1>10. CASE Start \/ Abort \/ Exit
  BY <1>4, <1>6, <1>10 DEF Start, Abort, Exit, slabs
<1> QED
  BY <1>4, <1>7, <1>8, <1>9, <1>10 DEF Next, vars, slabs

LEMMA NoMoreThan ==
  ASSUME NEW S, NEW x, NEW y
  PROVE  /\ S \subseteq {x} => Cardinality(S) =< 1
         /\ S \subseteq {x, y} => Cardinality(S) =< 2
<1>1. IsFiniteSet({x}) /\ Cardinality({x}) = 1
  BY FS_Singleton
<1>2. IsFiniteSet({x, y}) /\ Cardinality({x, y}) =< 2
  <2>1. {x, y} = {x} \cup {y}
    OBVIOUS
  <2> QED
    BY <1>1, <2>1, FS_AddElement
<1>3. ASSUME S \subseteq {x} PROVE Cardinality(S) =< 1
  BY <1>1, <1>3, FS_Subset
<1>4. ASSUME S \subseteq {x, y} PROVE Cardinality(S) =< 2
  <2>1. Cardinality(S) =< Cardinality({x, y})
    BY <1>2, <1>4, FS_Subset
  <2>2. Cardinality(S) \in Nat /\ Cardinality({x, y}) \in Nat
    BY <1>2, <1>4, FS_Subset, FS_CardinalityType
  <2> QED
    BY <1>2, <2>1, <2>2
<1> QED
  BY <1>3, <1>4

LEMMA NCopySlabs ==
  ASSUME IInv, TakenOver, layout = "NCopy", pc \notin Copying
  PROVE  Cardinality(Slabs) =< N
<1> DEFINE T == {ncopy[n] : n \in Mode}
<1>1. Slabs \subseteq T
  <2>1. CopyInv /\ own[InplaceScr] = Null /\ own[MortonBuf] = Null /\ own[SortTemp] = Null
        /\ Present = Mode
    BY DEF IInv, NCopyInv, Copying, Present
  <2>2. ASSUME NEW b \in Slabs PROVE b \in T
    <3>1. b \in DOMAIN heap /\ heap[b].order[1] # "rowptr" /\ b # Null
      BY DEF Slabs, IInv, TypeInv, Null
    <3>2. PICK h \in Handle : own[h] = b
      BY <3>1 DEF IInv, Ownership
    <3>3. h \notin {SortTemp, InplaceScr, MortonBuf}
      BY <2>1, <3>1, <3>2
    <3>4. ASSUME NEW n \in Mode, h = Home(n) PROVE b \in T
      <4>1. ~ Packed(n) /\ ncopy[n] = own[Home(n)]
        BY <2>1, <3>1, <3>2, <3>4 DEF CopyInv
      <4> QED
        BY <3>2, <3>4, <4>1
    <3>5. CASE h \in {Raw, Scratch}
      <4>1. h = Home(0) \/ h = Home(1)
        BY <3>5 DEF Home
      <4> QED
        BY <3>4, <4>1, Modes
    <3>6. CASE \E n \in Mode : h \in {NCopyRaw(n), Compact(n), Rowptr(n)}
      <4>1. PICK n \in Mode : h \in {NCopyRaw(n), Compact(n), Rowptr(n)}
        BY <3>6
      <4>2. CASE h = NCopyRaw(n)
        <5>1. n # 0 /\ n # 1
          BY <3>1, <3>2, <4>2 DEF TakenOver
        <5>2. h = Home(n)
          BY <4>2, <5>1 DEF Home
        <5> QED
          BY <3>4, <5>2
      <4>3. CASE h = Compact(n)
        <5>1. Packed(n)
          BY <3>1, <3>2, <4>3 DEF Packed
        <5>2. ncopy[n] = own[Compact(n)]
          BY <2>1, <5>1 DEF CopyInv
        <5> QED
          BY <3>2, <4>3, <5>2
      <4>4. CASE h = Rowptr(n)
        <5>1. heap[b].order = <<"rowptr", n>>
          BY <2>1, <3>1, <3>2, <4>4 DEF CopyInv
        <5> QED
          BY <3>1, <5>1
      <4> QED
        BY <4>1, <4>2, <4>3, <4>4
    <3> QED
      BY <3>3, <3>5, <3>6, HandleCases
  <2> QED
    BY <2>2
<1>2. IsFiniteSet(Mode) /\ Cardinality(Mode) = N
  <2>1. N \in Nat /\ N >= 2 /\ N - 1 \in Int /\ 0 \in Int /\ ~ (0 > N - 1) /\ (N - 1) - 0 + 1 = N
    BY Modes
  <2> QED
    BY <2>1, FS_Interval DEF Mode
<1>3. IsFiniteSet(T) /\ Cardinality(T) =< N
  <2> DEFINE f == [n \in Mode |-> ncopy[n]]
  <2>1. f \in Surjection(Mode, T)
    BY DEF Surjection
  <2> HIDE DEF f, T
  <2> QED
    BY <1>2, <2>1, FS_Surjection
<1>4. Cardinality(Slabs) =< Cardinality(T)
  <2> HIDE DEF T
  <2> QED
    BY <1>1, <1>3, FS_Subset
<1>5. Cardinality(Slabs) \in Nat /\ Cardinality(T) \in Nat /\ N \in Nat
  <2> HIDE DEF T
  <2> QED
    BY <1>1, <1>3, FS_Subset, FS_CardinalityType, Modes
<1> HIDE DEF T
<1> QED
  BY <1>3, <1>4, <1>5

(* The footprint the memory planner charges a layout with is the footprint *)
(* of the layout: whenever a driver runs, PingPong holds at most two       *)
(* slabs, NCopy at most one per mode, InPlace and Morton one.  What the    *)
(* fiber pass, the compaction and decide_and_populate_layout no longer     *)
(* need has been freed by then.                                            *)
THEOREM FootprintAsPlanned == Spec => []SteadyFootprint
<1>1. IInv /\ TakenOver => SteadyFootprint
  <2> SUFFICES ASSUME IInv, TakenOver,
                      pc \in {"norm", "reference", "process", "allModes", "mortonPass", "passed"}
               PROVE  Cardinality(Slabs) =< (CASE layout = "NCopy" -> N
                             [] layout = "PingPong" -> 2
                             [] OTHER -> 1)
    BY DEF SteadyFootprint
  <2>1. pc \notin Building /\ pc \notin Copying
    BY DEF Building, Copying
  <2>2. ASSUME NEW S, NEW R, Owned(S, R), NEW b \in Slabs, \A h \in R : h = InplaceScr \/ h = Scratch
        PROVE  \E h \in S \cup {Scratch} : own[h] = b /\ (h = Scratch => h \in S \cup R)
    <3>1. b \in DOMAIN heap /\ b # Null /\ b # own[InplaceScr]
      BY DEF Slabs, IInv, TypeInv, Null
    <3>2. PICK h \in Handle : own[h] = b
      BY <3>1 DEF IInv, Ownership
    <3> QED
      BY <2>2, <3>1, <3>2 DEF Owned
  <2>3. CASE layout = "NCopy"
    BY <2>1, <2>3, NCopySlabs
  <2>4. CASE layout = "PingPong"
    <3>1. Owned({Raw}, {Scratch})
      BY <2>1, <2>4 DEF IInv, PingPongInv
    <3>2. Slabs \subseteq {own[Raw], own[Scratch]}
      BY <2>2, <3>1
    <3> QED
      BY <2>4, <3>2, NoMoreThan
  <2>5. CASE layout = "InPlace"
    <3>1. Owned({Raw}, {InplaceScr})
      BY <2>5 DEF IInv, InPlaceInv
    <3>2. Slabs \subseteq {own[Raw]}
      BY <2>2, <3>1, Handles
    <3> QED
      BY <2>5, <3>2, NoMoreThan
  <2>6. CASE layout = "Morton"
    <3>1. Owned({MortonBuf}, {InplaceScr})
      BY <2>6 DEF IInv, MortonInv
    <3>2. Slabs \subseteq {own[MortonBuf]}
      BY <2>2, <3>1, Handles
    <3> QED
      BY <2>6, <3>2, NoMoreThan
  <2> QED
    BY <2>3, <2>4, <2>5, <2>6 DEF IInv, TypeInv
<1>2. Init => TakenOver
  BY Modes, ModeHandles DEF Init, Fresh, TakenOver
<1> QED
  BY <1>1, <1>2, TakenOverKept, Invariance, PTL DEF Spec


-----------------------------------------------------------------------------
(* The reads, for the command lines that are supported. *)

LEMMA GivenOption ==
  ASSUME AllSupported, IInv, pc # "start"
  PROVE  /\ opt \in Options /\ Supported(opt, Densities(opt))
         /\ opt.driver \in {"mttkrp", "cpals-gs", "cpals-jacobi"}
         /\ opt.runtime => Cpals /\ ~ opt.verify /\ ~ opt.ofibsFail
         /\ opt.layout = "Morton" => Cpals /\ ~ opt.verify /\ ~ opt.ofibsFail
<1>1. opt \in Options
  BY DEF IInv, TypeInv
<1>2. Supported(opt, Densities(opt)) /\ opt \in CommandLine
  BY <1>1, SlabAssumption DEF AllSupported
<1> QED
  BY <1>1, <1>2 DEF Supported, Cpals, CommandLine

\* Copy 0 is where vals points whenever vals points anywhere.
LEMMA PrimaryCopy ==
  ASSUME AllSupported, IInv, layout = "NCopy", pc \in Driving, vals # Null
  PROVE  vals = ncopy[0] /\ ~ Packed(0)
<1>1. pc \notin Copying /\ pc \notin Building /\ pc # "start"
  BY DEF Driving, Copying, Building
<1>2. NCopyInv /\ CopyInv /\ Passed = Mode
  BY <1>1 DEF IInv, NCopyInv, Passed, Copying
<1>3. CASE opt.runtime
  BY <1>2, <1>3, Modes DEF NCopyInv, CopyInv
<1>4. CASE ~ opt.runtime
  <2>1. /\ vals = Null <=> Packed(1)
        /\ scr = Null <=> Packed(0)
        /\ vals # Null /\ scr # Null => vals = ncopy[0]
        /\ Packed(0) <=> 0 \in dense /\ CompactPass
        /\ Packed(1) <=> 1 \in dense /\ CompactPass
    BY <1>1, <1>2, <1>4, Modes DEF NCopyInv, CopyInv, Copying
  <2>2. CompactPass => opt.compact # "off"
    BY DEF CompactPass
  <2>3. dense \in Densities(opt) /\ opt.layout = "NCopy"
    BY <1>1, <1>4 DEF IInv, GivenInv, Driving
  <2>4. opt.compact # "off" => (0 \in dense => 1 \in dense)
    BY <1>1, <2>3, GivenOption DEF Supported
  <2> QED
    BY <2>1, <2>2, <2>4
<1> QED
  BY <1>3, <1>4

\* The primary slab, when a driver reads it as a whole.
LEMMA PrimarySlab ==
  ASSUME AllSupported, IInv, PassInv, pc \in Driving, vals # Null
  PROVE  /\ Whole(vals) /\ heap[vals].order # Junk /\ layout # "Morton"
<1>1. pc \notin {"slab", "remap"} /\ pc \notin Building
  BY DEF Driving, Building
<1>2. CASE layout = "NCopy"
  <2>1. vals = ncopy[0] /\ ~ Packed(0)
    BY <1>2, PrimaryCopy
  <2>2. /\ ncopy[0] \in DOMAIN heap /\ heap[ncopy[0]].order \in {Fiber(0), Shard(0)}
        /\ heap[ncopy[0]].cols = Mode
    BY <1>1, <1>2, <2>1, FilledCopy, Modes
  <2> QED
    BY <1>2, <2>1, <2>2, Contents, Modes DEF Whole, Live
<1>3. CASE layout = "InPlace"
  <2>1. vals = own[Raw] /\ Sorted(vals, sortedMode) /\ sortedMode \in Mode
    BY <1>3 DEF IInv, InPlaceInv, TypeInv
  <2>2. vals \in DOMAIN heap
    BY <2>1, OwnedLives, Handles
  <2> QED
    BY <1>3, <2>1, <2>2, Contents DEF Whole, Live, Sorted, Wide
<1>4. CASE layout = "PingPong"
  <2>1. \E n \in Mode : Sorted(vals, n)
    <3>1. Sorted(vals, IF pc = "process" THEN k ELSE 0)
      BY <1>1, <1>4 DEF PassInv
    <3>2. pc = "process" => k \in Mode
      <4>1. pc = "process" => k \in Nat /\ k < N
        BY Modes DEF IInv, TypeInv, LoopInv
      <4> QED
        BY <4>1, Modes DEF Mode
    <3> QED
      BY <3>1, <3>2, Modes
  <2>2. {vals, scr} = {own[Raw], own[Scratch]}
    BY <1>1, <1>4 DEF IInv, PingPongInv
  <2>3. vals \in DOMAIN heap
    BY <2>2, OwnedLives, Handles
  <2> QED
    BY <1>4, <2>1, <2>3, Contents DEF Whole, Live, Sorted, Wide
<1>5. CASE layout = "Morton"
  BY <1>5 DEF IInv, MortonInv
<1> QED
  BY <1>2, <1>3, <1>4, <1>5 DEF IInv, TypeInv

\* The slabs under PingPong.
LEMMA TwoSlabs ==
  ASSUME IInv, PassInv, layout = "PingPong", pc \in Driving
  PROVE  /\ vals # Null /\ scr # Null /\ vals # scr
         /\ vals \in DOMAIN heap /\ scr \in DOMAIN heap
         /\ Wide(vals) /\ Wide(scr)
<1>1. pc \notin Building
  BY DEF Driving, Building
<1>2. /\ {vals, scr} = {own[Raw], own[Scratch]} /\ Owned({Raw}, {Scratch})
      /\ vals # Null /\ scr # Null /\ Wide(scr) /\ Wide(vals)
  BY <1>1 DEF IInv, PingPongInv, PassInv, Sorted
<1>3. own[Raw] # Null
  BY <1>2, Handles DEF Owned
<1>4. own[Raw] # own[Scratch]
  BY <1>3, OwnedLives, Handles
<1>5. vals # scr /\ vals # Null
  BY <1>2, <1>3, <1>4
<1> QED
  BY <1>2, <1>5, OwnedLives, Handles

LEMMA ProcessValid ==
  ASSUME AllSupported, IInv, PassInv, pc = "process"
  PROVE  ProcessReads(k)
<1>1. k \in Mode
  <2>1. k \in Nat /\ k < N
    BY Modes DEF IInv, TypeInv, LoopInv
  <2> QED
    BY <2>1, Modes DEF Mode
<1>2. pc \in Driving /\ pc \notin Building /\ pc \notin Copying /\ pc # "start"
  BY DEF Driving, Building, Copying
<1>3. CASE layout = "NCopy"
  <2>1. NCopyInv /\ CopyInv /\ Passed = Mode
    BY <1>2, <1>3 DEF IInv, NCopyInv, Passed, Copying
  <2>2. /\ ncopy[k] \in DOMAIN heap
        /\ heap[ncopy[k]].order = IF k \in fiberSorted THEN Fiber(k) ELSE Shard(k)
        /\ heap[ncopy[k]].cols = IF Packed(k) THEN Mode \ {k} ELSE Mode
    BY <1>1, <1>2, <1>3, FilledCopy DEF Copying
  <2>3. CASE UseCsr(k)
    <3>1. k \in csr /\ k \in fiberSorted
      BY <1>3, <2>3 DEF UseCsr, UseFiber
    <3>2. own[Rowptr(k)] # Null /\ heap[own[Rowptr(k)]].order = <<"rowptr", k>>
      BY <1>1, <2>1, <3>1 DEF CopyInv
    <3>3. own[Rowptr(k)] \in DOMAIN heap
      BY <1>1, <3>2, OwnedLives, ModeHandles
    <3>4. Mode \ {k} \subseteq heap[ncopy[k]].cols
      BY <2>2
    <3> QED
      BY <1>3, <2>2, <2>3, <3>1, <3>2, <3>3, <3>4 DEF ProcessReads, Live
  <2>4. CASE ~ UseCsr(k)
    <3>1. ~ Packed(k)
      <4> SUFFICES ASSUME Packed(k) PROVE FALSE
        OBVIOUS
      <4>1. k \in dense /\ CompactPass /\ ~ opt.runtime
        BY <1>1, <2>1 DEF CopyInv
      <4>2. opt.compact # "off" /\ CsrPass /\ FiberPass
        BY <4>1 DEF CompactPass, CsrPass
      <4>3. k \in fiberSorted /\ k \in csr
        <5>1. /\ fiberSorted = IF FiberPass THEN dense \cap Passed ELSE {}
              /\ csr = IF CsrPass THEN dense \cap Passed ELSE {}
          BY <1>3, <2>1, <4>1 DEF NCopyInv
        <5> QED
          BY <1>1, <2>1, <4>1, <4>2, <5>1
      <4>4. opt.layout = "NCopy"
        BY <1>2, <1>3, <4>1 DEF IInv, GivenInv, Driving
      <4>5. ~ opt.fiberOff
        BY <1>2, <4>2, <4>4, GivenOption DEF Supported
      <4> QED
        BY <1>3, <2>4, <4>1, <4>3, <4>5 DEF UseCsr, UseFiber
    <3>2. Whole(ncopy[k]) /\ Grouped(ncopy[k], k)
      BY <2>2, <3>1 DEF Whole, Grouped, Live
    <3> QED
      BY <1>3, <2>4, <3>2 DEF ProcessReads
  <2> QED
    BY <2>3, <2>4
<1>4. CASE layout = "InPlace"
  <2>1. vals = own[Raw] /\ own[Raw] # Null /\ Sorted(vals, sortedMode)
    BY <1>4, Handles DEF IInv, InPlaceInv, Owned
  <2>2. vals \in DOMAIN heap
    BY <2>1, OwnedLives, Handles
  <2>3. Whole(vals) /\ (sortedMode = k => Grouped(vals, k))
    BY <2>1, <2>2 DEF Whole, Grouped, Live, Sorted, Wide
  <2> QED
    BY <1>4, <2>3 DEF ProcessReads
<1>5. CASE layout = "PingPong"
  <2>1. /\ vals # scr /\ vals \in DOMAIN heap /\ scr \in DOMAIN heap /\ Wide(vals) /\ Wide(scr)
    BY <1>2, <1>5, TwoSlabs
  <2>2. Sorted(vals, k)
    BY <1>2, <1>5 DEF PassInv
  <2>3. Whole(vals) /\ Whole(scr) /\ Grouped(vals, k)
    BY <2>1, <2>2 DEF Whole, Grouped, Live, Sorted, Wide
  <2> QED
    BY <1>5, <2>1, <2>3 DEF ProcessReads
<1>6. CASE layout = "Morton"
  BY <1>6 DEF PassInv
<1> QED
  BY <1>3, <1>4, <1>5, <1>6 DEF IInv, TypeInv

LEMMA ReadsAreValid == ASSUME AllSupported, IInv, PassInv PROVE ReadsValid
<1>1. CASE pc = "norm"
  <2>1. pc \in Driving
    BY <1>1 DEF Driving
  <2>2. CASE vals # Null
    BY <1>1, <2>1, <2>2, PrimarySlab DEF ReadsValid, CanReadNext, NormSource, Whole
  <2>3. CASE vals = Null
    <3>1. CASE layout = "NCopy"
      <4>1. ncopy[0] \in DOMAIN heap /\ heap[ncopy[0]].order \in {Fiber(0), Shard(0)}
        BY <1>1, <3>1, FilledCopy, Modes
      <4>2. NormSource = ncopy[0]
        BY <2>3, <3>1 DEF NormSource
      <4>3. heap[ncopy[0]].order # Junk
        BY <4>1, Contents, Modes
      <4> QED
        BY <1>1, <4>1, <4>2, <4>3 DEF ReadsValid, CanReadNext, Live
    <3>2. CASE layout = "Morton"
      <4>1. own[MortonBuf] # Null /\ heap[own[MortonBuf]].order = <<"morton", 0>>
        BY <3>2, Handles DEF IInv, MortonInv, Owned
      <4>2. own[MortonBuf] \in DOMAIN heap
        BY <4>1, OwnedLives, Handles
      <4>3. NormSource = own[MortonBuf] /\ <<"morton", 0>> # Junk
        BY <2>3, <3>2 DEF NormSource, Junk
      <4> QED
        BY <1>1, <4>1, <4>2, <4>3 DEF ReadsValid, CanReadNext, Live
    <3>3. CASE layout = "InPlace"
      <4>1. vals # Null
        BY <3>3, Handles DEF IInv, InPlaceInv, Owned
      <4> QED
        BY <2>3, <4>1
    <3>4. CASE layout = "PingPong"
      BY <2>1, <2>3, <3>4, TwoSlabs
    <3> QED
      BY <3>1, <3>2, <3>3, <3>4 DEF IInv, TypeInv
  <2> QED
    BY <2>2, <2>3
<1>2. CASE pc = "process"
  BY <1>2, ProcessValid DEF ReadsValid, CanReadNext
<1>3. CASE pc = "allModes"
  <2>1. pc \in Driving
    BY <1>3 DEF Driving
  <2>2. vals # Null => Whole(vals) /\ heap[vals].order # Junk
    BY <2>1, PrimarySlab
  <2> QED
    BY <1>3, <2>2 DEF ReadsValid, CanReadNext, AllModesReads
<1>4. CASE pc = "reference"
  <2>1. pc \in Driving /\ pc # "start" /\ pc \notin Copying /\ pc \notin Building
    BY <1>4 DEF Driving, Copying, Building
  <2>2. opt.verify /\ ~ Cpals
    BY <1>4 DEF PassInv
  <2>3. vals # Null
    <3>1. CASE layout = "NCopy"
      <4> SUFFICES ASSUME vals = Null PROVE FALSE
        OBVIOUS
      <4>1. ~ opt.runtime
        BY <2>1, <2>2, GivenOption
      <4>2. Packed(1)
        BY <2>1, <3>1, <4>1 DEF IInv, NCopyInv
      <4>3. CompactPass
        BY <3>1, <4>2, Modes DEF IInv, NCopyInv, CopyInv
      <4>4. opt.compact = "on"
        BY <2>2, <4>3 DEF CompactPass
      <4>5. opt.layout = "NCopy"
        BY <2>1, <3>1, <4>1 DEF IInv, GivenInv, Driving
      <4> QED
        BY <2>1, <2>2, <4>4, <4>5, GivenOption DEF Supported
    <3>2. CASE layout = "Morton"
      BY <1>4, <3>2 DEF PassInv
    <3>3. CASE layout = "InPlace"
      BY <3>3, Handles DEF IInv, InPlaceInv, Owned
    <3>4. CASE layout = "PingPong"
      BY <2>1, <3>4, TwoSlabs
    <3> QED
      BY <3>1, <3>2, <3>3, <3>4 DEF IInv, TypeInv
  <2> QED
    BY <1>4, <2>1, <2>3, PrimarySlab DEF ReadsValid, CanReadNext
<1>5. CASE pc \notin {"norm", "process", "allModes", "reference"}
  BY <1>5 DEF ReadsValid, CanReadNext
<1> QED
  BY <1>1, <1>2, <1>3, <1>4, <1>5


\* With every command line supported, the drivers find the tensor in a state
\* they can read.
LEMMA PassKept == AllSupported /\ IInv /\ IInv' /\ PassInv /\ [Next]_vars => PassInv'
<1> SUFFICES ASSUME AllSupported, IInv, IInv', PassInv, [Next]_vars PROVE PassInv'
  OBVIOUS
<1>1. ASSUME Reset, dnp' = dnp \/ dnp' \in {NoFile, TornFile} PROVE PassInv'
  BY <1>1 DEF PassInv, Reset, NoFile, TornFile, Building
<1>2. CASE UNCHANGED vars
  BY <1>2 DEF PassInv, vars, slabs, views, flags, Cpals, Sorted, Wide
<1>3. CASE Start
  <2>1. layout = "PingPong" /\ pc = "start"
    BY <1>3 DEF Start, IInv, BuildInv, Building
  <2>2. /\ pc' \in {"load", "parse"} /\ layout' = "PingPong" /\ dnp' = dnp
    BY <1>3, <2>1 DEF Start, flags
  <2> QED
    BY <2>2 DEF PassInv, Building
<1>4. CASE Abort \/ Exit \/ SaveRejected \/ LoadFails
  BY <1>1, <1>4 DEF Abort, Exit, SaveRejected, LoadFails
<1>5. CASE Save \/ SaveTorn
  <2>1. pc = "save" /\ layout # "PingPong"
    BY <1>5 DEF Save, SaveTorn, PassInv, Building
  <2>2. ASSUME pc' = "ready", UNCHANGED <<opt, dense, k, slabs, views, flags>>,
               dnp' \in {Image, TornFile}
        PROVE  PassInv'
    <3>1. layout' = layout /\ opt' = opt /\ (Cpals' <=> Cpals)
      BY <2>2 DEF flags, Cpals
    <3>2. dnp'.state = "complete" => dnp'.layout # "PingPong"
      BY <2>1, <2>2 DEF Image, TornFile
    <3> QED
      BY <2>1, <2>2, <3>1, <3>2 DEF PassInv
  <2> QED
    BY <1>1, <1>5, <2>2 DEF Save, SaveTorn
<1>6. CASE Build
  <2>1. /\ dnp' = dnp /\ opt' = opt /\ pc # "start"
        /\ pc' \in Building \cup {"inplace", "morton", "save", "ready"} \cup Copying
    BY <1>6 DEF Build, Parse, EnsureScratch, SortAndCount, PingPong, InPlace, InPlaceScratch,
       Morton, MortonFails, NCopy, EnsureNCopySlab, Remap, EnsureSortTemp, SkipCopy,
       FiberSortCopy, CopyBack, CompactCopy, FreeSortTemp, Building, Copying, Built
  <2>2. pc' \notin {"reference", "process", "allModes", "mortonPass"}
    BY <2>1 DEF Building, Copying
  <2>3. layout' = "Morton" => Cpals' /\ ~ opt'.verify /\ ~ opt'.ofibsFail
    <3>1. layout' = "Morton" => opt.layout = "Morton"
      <4>1. CASE Morton
        <5>1. pc = "morton" /\ ~ opt.runtime
          <6>1. pc = "morton" /\ layout = "InPlace"
            BY <4>1, AtMorton DEF Morton
          <6> QED
            BY <6>1 DEF IInv, InPlaceInv
        <5> QED
          BY <5>1 DEF IInv, GivenInv
      <4>2. CASE ~ Morton
        <5>1. layout' # "Morton"
          <6>1. layout # "Morton"
            BY <1>6, <4>2 DEF Build, IInv, MortonInv, Driving, Parse, EnsureScratch,
               SortAndCount, PingPong, InPlace, InPlaceScratch, MortonFails, NCopy,
               EnsureNCopySlab, Remap, EnsureSortTemp, SkipCopy, FiberSortCopy, CopyBack,
               CompactCopy, FreeSortTemp
          <6> QED
            BY <1>6, <4>2, <6>1 DEF Build, Parse, EnsureScratch,
               SortAndCount, PingPong, InPlace, InPlaceScratch, MortonFails, NCopy,
               EnsureNCopySlab, Remap, EnsureSortTemp, SkipCopy, FiberSortCopy, CopyBack,
               CompactCopy, FreeSortTemp, flags
        <5> QED
          BY <5>1
      <4> QED
        BY <4>1, <4>2
    <3> QED
      BY <2>1, <3>1, GivenOption DEF Cpals
  <2>4. layout' = "PingPong" /\ pc' \notin Building =>
          /\ pc' # "save" /\ vals' # Null /\ scr' # Null /\ Wide(scr)' /\ Sorted(vals, 0)'
    <3> SUFFICES ASSUME layout' = "PingPong", pc' \notin Building
                 PROVE  pc' # "save" /\ vals' # Null /\ scr' # Null /\ Wide(scr)' /\ Sorted(vals, 0)'
      OBVIOUS
    <3>1. pc' \in {"save"} \cup Driving
      BY DEF IInv, PingPongInv
    <3>2. PingPong
      <4>1. pc' \in {"save", "ready"}
        BY <2>1, <3>1 DEF Building, Copying, Driving
      <4>2. CASE InPlaceScratch \/ MortonFails
        <5>1. pc \in {"inplace", "morton"} /\ layout = "PingPong"
          BY <4>2 DEF InPlaceScratch, MortonFails, flags
        <5> QED
          BY <5>1 DEF IInv, PingPongInv, Building, Driving
      <4>3. CASE Remap \/ FreeSortTemp
        <5>1. pc \in Copying /\ layout = "PingPong"
          BY <4>3 DEF Remap, FreeSortTemp, flags, Copying
        <5> QED
          BY <5>1, AtCopying
      <4> QED
        BY <1>6, <4>1, <4>2, <4>3 DEF Build, Parse, EnsureScratch,
               SortAndCount, InPlace, Morton, NCopy,
               EnsureNCopySlab, EnsureSortTemp, SkipCopy, FiberSortCopy, CopyBack,
               CompactCopy
    <3>3. /\ pc = "layout" /\ opt.layout = "PingPong" /\ pc' = Built
          /\ UNCHANGED <<heap, vals, scr>>
      BY <3>2 DEF PingPong, slabs, views
    <3>4. /\ own[Raw] # Null /\ own[Scratch] # Null /\ vals = own[Scratch] /\ scr = own[Raw]
          /\ heap[vals].order = Shard(0) /\ Wide(vals) /\ Wide(scr)
      BY <3>3, AtLayout
    <3>5. ~ opt.save
      BY <3>3, GivenOption DEF Supported
    <3> QED
      BY <3>3, <3>4, <3>5 DEF Built, Sorted, Wide
  <2> QED
    BY <2>1, <2>2, <2>3, <2>4 DEF PassInv
<1>7. CASE LoadSlab \/ LoadMorton \/ LoadNCopy
  <2>1. /\ pc = "load" /\ dnp.state = "complete" /\ pc' = "ready" /\ layout' = dnp.layout
        /\ dnp' = dnp /\ opt' = opt
    BY <1>7 DEF LoadSlab, LoadMorton, LoadNCopy, LoadFlags
  <2>2. opt.runtime
    BY <2>1, AtLoad
  <2>3. Cpals' /\ ~ opt'.verify /\ ~ opt'.ofibsFail
    BY <2>1, <2>2, GivenOption DEF Cpals
  <2> QED
    BY <2>1, <2>3 DEF PassInv
<1>8. CASE ProcessPingPong
  <2>1. /\ pc = "process" /\ layout \in {"PingPong", "Morton"} /\ After(k)
        /\ UNCHANGED <<opt, layout, dnp>>
    BY <1>8 DEF ProcessPingPong, flags
  <2>2. layout = "PingPong" /\ pc \in Driving
    BY <2>1 DEF PassInv, Driving
  <2>3. /\ vals # Null /\ scr # Null /\ vals # scr
        /\ vals \in DOMAIN heap /\ scr \in DOMAIN heap
        /\ Wide(vals) /\ Wide(scr)
    BY <2>2, TwoSlabs
  <2>4. PICK src \in IF UseFiber(k) THEN {vals, scr} ELSE {vals} :
         LET dst == IF src = vals THEN scr ELSE vals
         IN  /\ heap' = [b \in DOMAIN heap |->
                  CASE b = src /\ UseFiber(k) -> Full(Fiber(k))
                    [] b = dst -> Full(Shard(Succ(k)))
                    [] OTHER -> heap[b]]
             /\ vals' = dst /\ scr' = src
    BY <1>8 DEF ProcessPingPong
  <2>5. /\ src \in {vals, scr} /\ scr' = src /\ vals' \in {vals, scr} /\ vals' # src
        /\ heap' = [b \in DOMAIN heap |->
                  CASE b = src /\ UseFiber(k) -> Full(Fiber(k))
                    [] b = vals' -> Full(Shard(Succ(k)))
                    [] OTHER -> heap[b]]
    BY <2>3, <2>4
  <2>6. heap'[vals'] = Full(Shard(Succ(k)))
    BY <2>3, <2>5
  <2>7. heap'[src] \in {Full(Fiber(k)), heap[src]}
    BY <2>3, <2>5
  <2>8. heap'[scr'].cols = Mode
    BY <2>3, <2>5, <2>7 DEF Full, Wide
  <2>9. /\ k \in Nat /\ N \in Nat /\ k < N
    BY <2>1, Modes DEF IInv, TypeInv, LoopInv
  <2>10. (IF pc' = "process" THEN k' ELSE 0) = Succ(k) /\ pc' \in {"process", "passed"}
    <3>1. CASE k < N - 1
      <4>1. k' = k + 1 /\ pc' = "process" /\ (k + 1) % N = k + 1
        BY <2>1, <2>9, <3>1 DEF After
      <4> QED
        BY <4>1 DEF Succ
    <3>2. CASE ~ (k < N - 1)
      <4>1. pc' = "passed" /\ (k + 1) % N = 0
        <5>1. k + 1 = N /\ N % N = 0
          BY <2>9, <3>2, Modes
        <5> QED
          BY <2>1, <3>2, <5>1 DEF After
      <4> QED
        BY <4>1 DEF Succ
    <3> QED
      BY <3>1, <3>2
  <2>11. Sorted(vals, IF pc = "process" THEN k ELSE 0)'
    BY <2>6, <2>10 DEF Sorted, Wide, Full
  <2>12. vals' # Null /\ scr' # Null
    BY <2>3, <2>5
  <2> QED
    BY <2>1, <2>2, <2>8, <2>10, <2>11, <2>12 DEF PassInv, Wide
<1>9. CASE Run /\ ~ ProcessPingPong
  <2>1. /\ pc \in Driving /\ pc' \in Driving /\ pc # "start"
        /\ UNCHANGED <<opt, layout, vals, scr, dnp>>
        /\ layout # "InPlace" => UNCHANGED heap
        /\ pc = "process" => layout \in {"NCopy", "InPlace"}
        /\ pc # "process" => UNCHANGED k
    BY <1>9, PassIs DEF Run, Drive, ReadOnce, ProcessNCopy, ProcessInPlace, AllModes, MortonPass,
       Iterate, Driving, slabs, views, flags, After
  <2>2. Cpals' <=> Cpals
    BY <2>1 DEF Cpals
  <2>3. layout = "Morton" => Pass = "mortonPass"
    BY DEF PassInv, Pass
  <2>4. Pass = "mortonPass" => layout = "Morton"
    BY DEF Pass
  <2>5. layout = "Morton" => pc' \notin {"reference", "process", "allModes"}
    <3> SUFFICES ASSUME layout = "Morton" PROVE pc' \notin {"reference", "process", "allModes"}
      OBVIOUS
    <3>1. Cpals /\ ~ opt.ofibsFail /\ pc \notin {"reference", "process", "allModes"}
      BY DEF PassInv
    <3> QED
      BY <1>9, <2>3, <3>1 DEF Run, Drive, ReadOnce, ProcessNCopy, ProcessInPlace, AllModes,
         MortonPass, Iterate
  <2>6. pc' = "mortonPass" => layout = "Morton"
    BY <1>9, <2>4 DEF Run, Drive, ReadOnce, ProcessNCopy, ProcessInPlace, AllModes,
         MortonPass, Iterate, After
  <2>7. pc' = "reference" => opt.verify /\ ~ Cpals
    <3>1. ASSUME pc' = "reference" PROVE Drive
      BY <1>9, <3>1, PassIs DEF Run, ReadOnce, ProcessNCopy, ProcessInPlace, AllModes,
         MortonPass, Iterate, After
    <3> QED
      BY <3>1, PassIs DEF Drive
  <2>8. layout = "PingPong" =>
          /\ vals' # Null /\ scr' # Null /\ Wide(scr)'
          /\ Sorted(vals, IF pc = "process" THEN k ELSE 0)'
    <3> SUFFICES ASSUME layout = "PingPong"
                 PROVE  /\ vals' # Null /\ scr' # Null /\ Wide(scr)'
                        /\ Sorted(vals, IF pc = "process" THEN k ELSE 0)'
      OBVIOUS
    <3>1. pc # "process" /\ k = 0 /\ pc \notin Building
      <4>1. pc # "process" /\ pc \notin {"slab", "remap", "fiber", "place"} /\ pc \notin Building
        BY <2>1 DEF Driving, Building
      <4> QED
        BY <4>1 DEF IInv, LoopInv
    <3>2. /\ vals # Null /\ scr # Null /\ Wide(scr) /\ Sorted(vals, 0)
      BY <3>1 DEF PassInv
    <3>3. (IF pc' = "process" THEN k' ELSE 0) = 0 /\ heap' = heap
      BY <2>1, <3>1
    <3> QED
      BY <2>1, <3>2, <3>3 DEF Sorted, Wide
  <2>9. pc' # "save"
    BY <2>1 DEF Driving
  <2> QED
    BY <2>1, <2>2, <2>5, <2>6, <2>7, <2>8, <2>9 DEF PassInv
<1>10. CASE Run
  BY <1>8, <1>9, <1>10
<1> QED
  BY <1>2, <1>3, <1>4, <1>5, <1>6, <1>7, <1>10 DEF Next, File

(* Every read of a kernel, of the norm and of the reference is of a live   *)
(* block with the columns and in the order the code expects, through every *)
(* swap, relabelling, free and file, if main is given only the command     *)
(* lines of Supported: the others (a Morton tensor without cpals, a        *)
(* PingPong .dnp file, compacted copies with DYN_FIBER_OFF or with mode 0  *)
(* dense and mode 1 not) make the code read what is not there.             *)
THEOREM EveryReadValid == ASSUME AllSupported PROVE Spec => []ReadsValid
<1>1. Init => PassInv
  BY DEF Init, Fresh, PassInv, NoFile, Building
<1>2. IInv /\ IInv' /\ PassInv /\ [Next]_vars => PassInv'
  BY PassKept
<1>3. IInv /\ PassInv => ReadsValid
  BY ReadsAreValid
<1> QED
  BY <1>1, <1>2, <1>3, Invariance, PTL DEF Spec
=============================================================================
