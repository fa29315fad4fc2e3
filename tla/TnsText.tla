------------------------------- MODULE TnsText -------------------------------
(***************************************************************************)
(* The two parsers of a .tns text file: load_tns_serial, line by line, and *)
(* load_tns_mmap, whose threads count the lines of byte ranges aligned to  *)
(* line ends, and then parse each range to the offset the prefix sum of    *)
(* the counts gives it.  A file is a sequence of bytes: "nl" ends a line,  *)
(* "sp" is other white space, "#" opens a comment line, "bad" a line that  *)
(* lacks an index; any other byte opens the line of the nonzero it names,  *)
(* and "c" is a further byte of the line.                                  *)
(***************************************************************************)
EXTENDS Integers, Sequences, FiniteSetsExt

CONSTANT IoThreads   \* dyn_io_threads()

ASSUME IoAssumption == IoThreads \in Nat \ {0}

Fail == [failed |-> TRUE]
Read(s) == [failed |-> FALSE, tensor |-> s]

\* Where the bytes lo + 1 .. hi have the first byte of a line that is not
\* white space; a blank line has none.
Heads(f, lo, hi) ==
  {p \in lo + 1 .. hi :
     /\ f[p] \notin {"sp", "nl"}
     /\ \E j \in lo .. p - 1 : /\ j = lo \/ f[j] = "nl"
                               /\ \A k \in j + 1 .. p - 1 : f[k] = "sp"}

\* The k-th of a set of places.
Nth(S, k) == CHOOSE p \in S : Cardinality({q \in S : q =< p}) = k

\* The lines that are neither blank nor comments.
DataLines(f) == {p \in Heads(f, 0, Len(f)) : f[p] # "#"}

(* load_tns_serial: blank and comment lines are skipped wherever they are. *)
Serial(f) ==
  IF \E p \in DataLines(f) : f[p] = "bad" THEN Fail
  ELSE Read([i \in 1 .. Cardinality(DataLines(f)) |-> f[Nth(DataLines(f), i)]])

-----------------------------------------------------------------------------
(* load_tns_mmap.  The leading blank and comment lines are skipped, and    *)
(* the white space before the first nonzero.                               *)
DataStart(f) == Min(DataLines(f)) - 1

\* Mutant: a range starts where the byte count puts it.
AlignNot(f, pos) == pos

\* align_to_next_line: past the next newline at or after the offset.
Align(f, pos) ==
  LET nl == {p \in pos + 1 .. Len(f) : f[p] = "nl"}
  IN  IF nl = {} THEN Len(f) ELSE Min(nl)

ChunkStart(f, t) ==
  IF t = 0 THEN DataStart(f)
  ELSE IF t = IoThreads THEN Len(f)
  ELSE Align(f, DataStart(f) + ((Len(f) - DataStart(f)) * t) \div IoThreads)

\* The newlines among the bytes lo + 1 .. hi.
Newlines(f, lo, hi) == {p \in lo + 1 .. hi : f[p] = "nl"}

\* Pass 1: the newlines of the range, and a last line that has none.
LineCount(f, t) ==
  LET lo == ChunkStart(f, t)
      hi == ChunkStart(f, t + 1)
  IN  Cardinality(Newlines(f, lo, hi))
      + IF t = IoThreads - 1 /\ hi > lo /\ f[hi] # "nl" THEN 1 ELSE 0

Tof(f, t) ==
  LET tof[u \in 0 .. t] == IF u = 0 THEN 0 ELSE tof[u - 1] + LineCount(f, u - 1)
  IN  tof[t]

\* Pass 2: what thread t finds, and whether its range is as counted.
Parsed(f, t)  == Heads(f, ChunkStart(f, t), ChunkStart(f, t + 1))
ChunkOk(f, t) ==
  /\ \A p \in Parsed(f, t) : f[p] \notin {"bad", "#"}
  /\ Cardinality(Parsed(f, t)) = LineCount(f, t)

Mmap(f) ==
  IF Len(f) = 0 \/ DataLines(f) = {} THEN Fail
  ELSE IF \E t \in 0 .. IoThreads - 1 : ~ ChunkOk(f, t) THEN Fail
  ELSE Read([i \in 1 .. Tof(f, IoThreads) |->
         LET t == CHOOSE t \in 0 .. IoThreads - 1 :
                    Tof(f, t) < i /\ i =< Tof(f, t + 1)
         IN  f[Nth(Parsed(f, t), i - Tof(f, t))]])

\* load_coo_tensor: the parallel parser, and the serial one when it gives up.
Parse(f) == IF ~ Mmap(f).failed THEN Mmap(f) ELSE Serial(f)
=============================================================================
