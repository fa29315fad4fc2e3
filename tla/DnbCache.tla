------------------------------ MODULE DnbCache ------------------------------
(***************************************************************************)
(* load_coo_tensor and the .dnb binary cache beside a .tns file: the       *)
(* freshness test by modification times, the bulk read that rejects a      *)
(* short file, the text parse, and save_dnb_tensor with its temporary      *)
(* file, remove and rename.  The user edits or deletes the .tns at any     *)
(* moment, writes fail, and a process may die between any two steps.       *)
(***************************************************************************)
EXTENDS TnsText, SequencesExt

CONSTANTS
  Proc,       \* processes that load this .tns
  Texts,      \* the contents the .tns may have
  MaxClock    \* bound: ticks of the file system's one-second clock

ASSUME CacheAssumption ==
  Texts # {} /\ Texts \subseteq Seq(STRING) /\ MaxClock \in Nat

\* What the parsers make of each text.
MmapOf   == [f \in Texts |-> Mmap(f)]
SerialOf == [f \in Texts |-> Serial(f)]
ParseOf  == [f \in Texts |-> Parse(f)]
Tensors  == {ParseOf[f].tensor : f \in {g \in Texts : ~ ParseOf[g].failed}}

Path  == {"dnb", "tmp"}
Inode == 0 .. Cardinality(Proc) + 1
NoFile == Cardinality(Proc) + 2
Hole   == <<"hole">>
Pieces == 3   \* the header, the values, the indices

\* What was never written is told from what was.
ASSUME HoleAssumption == Hole \notin Tensors

VARIABLES
  clock,    \* the current second
  tns,      \* the source: exists, text, mtime
  at,       \* at[path]: the inode a path names, or NoFile
  file,     \* file[i]: pieces written, mtime; when its text was read and
            \* whether its last flush fell short (not read by the code)
  pc,       \* pc[p]: the step of load_coo_tensor process p is in
  cached,   \* cached[p]: cache_on_success
  T,        \* T[p]: the tensor p has read: values and indices
  outcome,   \* outcome[p]: how p's last load ended
  readAt,   \* readAt[p]: when p read the text
  fp,       \* fp[p]: the inode p has open for writing, or NoFile
  offset    \* offset[p]: pieces p has written

procVars == <<pc, cached, T, outcome, readAt, fp, offset>>
dnbVars == <<clock, tns, at, file, procVars>>

NoTensor == [vals |-> <<>>, idx |-> <<>>]
Empty(m) == [pieces |-> <<>>, mtime |-> m, readAt |-> 0, short |-> FALSE]

DnbInit ==
  /\ clock = 0
  /\ \E f \in Texts : tns = [exists |-> TRUE, text |-> f, mtime |-> 0]
  /\ at = [x \in Path |-> NoFile]
  /\ file = [i \in Inode |-> Empty(0)]
  /\ pc = [p \in Proc |-> "idle"]
  /\ cached = [p \in Proc |-> TRUE]
  /\ T = [p \in Proc |-> NoTensor]
  /\ outcome = [p \in Proc |-> "none"]
  /\ readAt = [p \in Proc |-> 0]
  /\ fp = [p \in Proc |-> NoFile]
  /\ offset = [p \in Proc |-> 0]

-----------------------------------------------------------------------------
\* A file that has lost its name and its writer is gone.
Linked == {at[x] : x \in Path} \cup {fp[q] : q \in Proc}
FreeUnlinked ==
  file' = [i \in Inode |-> IF i \in {at'[x] : x \in Path} \cup {fp'[q] : q \in Proc}
                          THEN file[i] ELSE Empty(0)]

(* The environment. *)
Tick == /\ clock < MaxClock
        /\ clock' = clock + 1
        /\ UNCHANGED <<tns, at, file, procVars>>

Edit(f) == /\ f # tns.text \/ ~ tns.exists
           /\ tns' = [exists |-> TRUE, text |-> f, mtime |-> clock]
           /\ UNCHANGED <<clock, at, file, procVars>>

Delete == /\ tns.exists
          /\ tns' = [tns EXCEPT !.exists = FALSE]
          /\ UNCHANGED <<clock, at, file, procVars>>

\* The process dies; the kernel closes its files.
Crash(p) == /\ pc[p] # "idle"
            /\ pc' = [pc EXCEPT ![p] = "idle"]
            /\ T' = [T EXCEPT ![p] = NoTensor]
            /\ fp' = [fp EXCEPT ![p] = NoFile]
            /\ outcome' = [outcome EXCEPT ![p] = "none"]
            /\ UNCHANGED <<clock, tns, at, cached, readAt, offset>>
            /\ FreeUnlinked

-----------------------------------------------------------------------------
(* load_coo_tensor. *)
Start(p, c) ==
  /\ pc[p] = "idle"
  /\ cached' = [cached EXCEPT ![p] = c]
  /\ T' = [T EXCEPT ![p] = NoTensor]
  /\ outcome' = [outcome EXCEPT ![p] = "none"]
  /\ readAt' = [readAt EXCEPT ![p] = 0]
  /\ pc' = [pc EXCEPT ![p] = IF c THEN "stat" ELSE "parse"]
  /\ UNCHANGED <<clock, tns, at, file, fp, offset>>

Dnb == file[at["dnb"]]

\* Mutant: any cache that is there will do.
FreshIfThere == at["dnb"] # NoFile /\ Dnb.pieces # <<>>

\* dnb_cache_is_fresh: there, longer than a header, and not older than the
\* source; trusted when the source is gone.
Fresh ==
  /\ at["dnb"] # NoFile
  /\ Dnb.pieces # <<>>
  /\ tns.exists => Dnb.mtime >= tns.mtime

Stat(p) ==
  /\ pc[p] = "stat"
  /\ pc' = [pc EXCEPT ![p] = IF Fresh THEN "load" ELSE "parse"]
  /\ UNCHANGED <<clock, tns, at, file, cached, T, outcome, readAt, fp, offset>>

\* Mutant: the bulk read of the indices is not checked.
WholeHeader(f) == Len(f.pieces) >= 2 /\ f.pieces[1] # Hole

\* load_dnb_tensor accepts a file with a valid header and enough bytes.
Whole(f) == Len(f.pieces) = Pieces /\ f.pieces[1] # Hole

Piece(f, k) == IF k =< Len(f.pieces) THEN f.pieces[k] ELSE Hole

(* load_dnb_tensor: a file it rejects may have left T allocated and partly *)
(* filled; the text parse follows.                                         *)
LoadDnb(p) ==
  /\ pc[p] = "load"
  /\ IF at["dnb"] # NoFile /\ Whole(Dnb)
     THEN /\ T' = [T EXCEPT ![p] = [vals |-> Piece(Dnb, 2), idx |-> Piece(Dnb, 3)]]
          /\ outcome' = [outcome EXCEPT ![p] = "cache"]
          /\ readAt' = [readAt EXCEPT ![p] = Dnb.readAt]
          /\ pc' = [pc EXCEPT ![p] = "idle"]
     ELSE /\ T' = [T EXCEPT ![p] = IF at["dnb"] = NoFile THEN @
                     ELSE [vals |-> Piece(Dnb, 2), idx |-> Piece(Dnb, 3)]]
          /\ pc' = [pc EXCEPT ![p] = "parse"]
          /\ UNCHANGED <<outcome, readAt>>
  /\ UNCHANGED <<clock, tns, at, file, cached, fp, offset>>

(* The text parse, by either parser; T is freed or overwritten first. *)
ParseText(p) ==
  /\ pc[p] = "parse"
  /\ IF ~ tns.exists \/ ParseOf[tns.text].failed
     THEN /\ outcome' = [outcome EXCEPT ![p] = "failed"]
          /\ pc' = [pc EXCEPT ![p] = "idle"]
          /\ UNCHANGED <<T, readAt>>
     ELSE /\ T' = [T EXCEPT ![p] = [vals |-> ParseOf[tns.text].tensor,
                                    idx |-> ParseOf[tns.text].tensor]]
          /\ outcome' = [outcome EXCEPT ![p] = "text"]
          /\ readAt' = [readAt EXCEPT ![p] = clock]
          /\ pc' = [pc EXCEPT ![p] = IF cached[p] THEN "open" ELSE "idle"]
  /\ UNCHANGED <<clock, tns, at, file, cached, fp, offset>>

-----------------------------------------------------------------------------
(* save_dnb_tensor.  Its failures leave the load a success. *)
\* An empty tensor is not saved, and the temporary file may not open.
OpenFails(p) ==
  /\ pc[p] = "open"
  /\ pc' = [pc EXCEPT ![p] = "idle"]
  /\ UNCHANGED <<clock, tns, at, file, cached, T, outcome, readAt, fp, offset>>

\* Mutant: the cache is written in place.
OpenTmpInPlace(p) ==
  /\ pc[p] = "open" /\ T[p].vals # <<>>
  /\ \E i \in Inode :
       /\ IF at["dnb"] # NoFile THEN i = at["dnb"]
          ELSE i = Min(Inode \ Linked)
       /\ at' = [at EXCEPT !["dnb"] = i, !["tmp"] = i]
       /\ file' = [file EXCEPT ![i] = [Empty(clock) EXCEPT !.readAt = readAt[p]]]
       /\ fp' = [fp EXCEPT ![p] = i]
  /\ offset' = [offset EXCEPT ![p] = 0]
  /\ pc' = [pc EXCEPT ![p] = "write"]
  /\ UNCHANGED <<clock, tns, cached, T, outcome, readAt>>

\* fopen(tmp, "wb") truncates the file the name has, or makes a new one.
OpenTmp(p) ==
  /\ pc[p] = "open" /\ T[p].vals # <<>>
  /\ \E i \in Inode :
       /\ IF at["tmp"] # NoFile THEN i = at["tmp"]
          ELSE i = Min(Inode \ Linked)
       /\ at' = [at EXCEPT !["tmp"] = i]
       /\ file' = [file EXCEPT ![i] = [Empty(clock) EXCEPT !.readAt = readAt[p]]]
       /\ fp' = [fp EXCEPT ![p] = i]
  /\ offset' = [offset EXCEPT ![p] = 0]
  /\ pc' = [pc EXCEPT ![p] = "write"]
  /\ UNCHANGED <<clock, tns, cached, T, outcome, readAt>>

\* The k-th piece is written at its place, behind a hole if need be.
Put(f, k, x) ==
  [f EXCEPT !.mtime = clock,
            !.pieces = [j \in 1 .. Max({k, Len(@)}) |->
                          IF j = k THEN x
                          ELSE IF j =< Len(@) THEN @[j] ELSE Hole]]

Write(p) ==
  /\ pc[p] = "write" /\ offset[p] < Pieces
  /\ file' = [file EXCEPT ![fp[p]] =
       Put(@, offset[p] + 1, IF offset[p] = 2 THEN T[p].idx ELSE T[p].vals)]
  /\ offset' = [offset EXCEPT ![p] = @ + 1]
  /\ UNCHANGED <<clock, tns, at, pc, cached, T, outcome, readAt, fp>>

\* A short fwrite: close and remove the temporary file.
WriteFails(p) ==
  /\ pc[p] = "write" /\ offset[p] < Pieces
  /\ at' = [at EXCEPT !["tmp"] = NoFile]
  /\ fp' = [fp EXCEPT ![p] = NoFile]
  /\ pc' = [pc EXCEPT ![p] = "idle"]
  /\ UNCHANGED <<clock, tns, cached, T, outcome, readAt, offset>>
  /\ FreeUnlinked

\* fclose, unchecked: when its flush fails the last piece is short.
Close(p, short) ==
  /\ pc[p] = "write" /\ offset[p] = Pieces
  /\ file' = IF short THEN [file EXCEPT ![fp[p]].pieces = Front(@), ![fp[p]].short = TRUE]
              ELSE file
  /\ fp' = [fp EXCEPT ![p] = NoFile]
  /\ pc' = [pc EXCEPT ![p] = "remove"]
  /\ UNCHANGED <<clock, tns, at, cached, T, outcome, readAt, offset>>

RemoveDnb(p) ==
  /\ pc[p] = "remove"
  /\ at' = [at EXCEPT !["dnb"] = NoFile]
  /\ pc' = [pc EXCEPT ![p] = "rename"]
  /\ UNCHANGED <<clock, tns, cached, T, outcome, readAt, fp, offset>>
  /\ FreeUnlinked

(* The temporary file gets the cache's name. *)
Rename(p) ==
  /\ pc[p] = "rename" /\ at["tmp"] # NoFile
  /\ at' = [at EXCEPT !["dnb"] = at["tmp"], !["tmp"] = NoFile]
  /\ pc' = [pc EXCEPT ![p] = "idle"]
  /\ UNCHANGED <<clock, tns, cached, T, outcome, readAt, fp, offset>>
  /\ FreeUnlinked

(* The rename fails, and what the temporary name has is removed. *)
RenameFails(p) ==
  /\ pc[p] = "rename"
  /\ at' = [at EXCEPT !["tmp"] = NoFile]
  /\ pc' = [pc EXCEPT ![p] = "idle"]
  /\ UNCHANGED <<clock, tns, cached, T, outcome, readAt, fp, offset>>
  /\ FreeUnlinked

-----------------------------------------------------------------------------
Environment == Tick \/ Delete \/ \E f \in Texts : Edit(f)

Load(p) == Stat(p) \/ LoadDnb(p) \/ ParseText(p)
Save(p) == \/ OpenFails(p) \/ OpenTmp(p) \/ Write(p) \/ WriteFails(p)
           \/ Close(p, FALSE) \/ Close(p, TRUE)
           \/ RemoveDnb(p) \/ Rename(p) \/ RenameFails(p)

DnbNext == \/ Environment
        \/ \E p \in Proc : \/ \E c \in BOOLEAN : Start(p, c)
                           \/ Load(p) \/ Save(p) \/ Crash(p)

DnbSpec == DnbInit /\ [][DnbNext]_dnbVars

-----------------------------------------------------------------------------
\* The texts in which every line has a nonzero and its newline.
OnlyData ==
  {f \in Texts : /\ f # <<>> /\ f[Len(f)] = "nl"
                 /\ \A p \in Heads(f, 0, Len(f)) : f[p] \notin {"#", "bad"}
                 /\ \A j \in Newlines(f, 0, Len(f)) :
                      \E p \in Heads(f, 0, j) : Newlines(f, p, j) = {j}}

(* The parallel parser never disagrees with the serial one about a file    *)
(* that both accept, however the byte ranges fall on its lines; and it     *)
(* gives up no file that has only nonzero lines, each with its newline.    *)
MmapMatchesSerial ==
  /\ ~ MmapOf[tns.text].failed /\ ~ SerialOf[tns.text].failed
       => MmapOf[tns.text] = SerialOf[tns.text]
  /\ tns.text \in OnlyData => ~ MmapOf[tns.text].failed

(* What a load returns is one whole tensor the .tns has had: never one     *)
(* with a hole, a missing tail or the columns of two versions, although    *)
(* the cache read may be short and leave T half filled before the text     *)
(* parse.                                                                  *)
LoadedWhole ==
  \A p \in Proc : outcome[p] \in {"cache", "text"} =>
    T[p].vals \in Tensors /\ T[p].idx = T[p].vals

(* When the freshness test lets a cache through whose tensor is not the    *)
(* one in the .tns, the .tns was edited after the cached text was read and *)
(* no later than the second in which the cache was written; every other    *)
(* edit is seen.                                                           *)
MissesOnlyEditsDuringSave ==
  [][\A p \in Proc :
       /\ pc[p] = "stat" /\ pc'[p] = "load"
       /\ tns.exists /\ Whole(Dnb)
       /\ ParseOf[tns.text] # Read(Dnb.pieces[2])
       => Dnb.readAt =< tns.mtime /\ tns.mtime =< Dnb.mtime]_dnbVars

(* "A crash mid-write never leaves a truncated cache on disk": once no     *)
(* process is at work, finished or dead, there is under the cache's name a *)
(* complete file or none, unless the flush of an unchecked fclose fell     *)
(* short.                                                                  *)
CrashLeavesNoTornCache ==
  (\A p \in Proc : pc[p] = "idle") /\ at["dnb"] # NoFile => Dnb.short \/ Whole(Dnb)
=============================================================================
