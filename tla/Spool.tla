-------------------------------- MODULE Spool --------------------------------
(***************************************************************************)
(* The directory of JSONL files that the agent's writer, the ClickHouse     *)
(* uploader and the archiver share, with no lock between them: names, files *)
(* behind the names, their content, and the local date all three look at.   *)
(*                                                                          *)
(* A record is one line of two parts, written by one write() or by two: its *)
(* head, and its tail with the newline.  Sizes and offsets count parts.     *)
(***************************************************************************)
EXTENDS Integers, SequencesExt, FiniteSets

CONSTANTS
  MaxRecords,  \* records the agent writes (a bound)
  MaxDay,      \* days that pass (a bound)
  MaxIndex,    \* size-rotated chunks of a day (a bound)
  MaxInodes    \* files that exist at once; inode numbers are used again

ASSUME SpoolAssumption ==
  /\ MaxRecords \in Nat \ {0}
  /\ MaxDay \in Nat
  /\ MaxIndex \in Nat
  /\ MaxInodes \in Nat \ {0}

Records == 1 .. MaxRecords
Inodes == 1 .. MaxInodes
NoInode == 0

\* stem-DAY.jsonl (index 0) and stem-DAY-000N.jsonl
Paths == (0 .. MaxDay) \X (0 .. MaxIndex)
Day(p) == p[1]
Index(p) == p[2]

Parts == Records \X {"head", "tail"}

VARIABLES
  today,  \* the local date
  dir,    \* path -> inode
  data    \* inode -> content

spoolVars == <<today, dir, data>>

SpoolInit ==
  /\ today = 0
  /\ dir = [p \in Paths |-> NoInode]
  /\ data = [i \in Inodes |-> <<>>]

SpoolTypeOK ==
  /\ today \in 0 .. MaxDay
  /\ dir \in [Paths -> Inodes \union {NoInode}]
  /\ data \in [Inodes -> Seq(Parts)]

Exists(p) == dir[p] # NoInode
Size(p) == IF Exists(p) THEN Len(data[dir[p]]) ELSE 0
Unused == {i \in Inodes : \A p \in Paths : dir[p] # i}

-----------------------------------------------------------------------------
(* Lines *)

\* Where lines of c end, read from offset `from`: after a newline, or at the
\* end of the file.
LineEnds(c, from) ==
  {i \in from + 1 .. Len(c) : c[i][2] = "tail" \/ i = Len(c)}

\* The record of the line that ends at i is intact: its head is where the
\* line starts, and its tail follows.
Intact(c, from, i) ==
  /\ i >= from + 2
  /\ c[i][2] = "tail"
  /\ c[i - 1] = <<c[i][1], "head">>
  /\ i - 2 = from \/ c[i - 2][2] = "tail"

IntactEnds(c, from) == {i \in LineEnds(c, from) : Intact(c, from, i)}

-----------------------------------------------------------------------------

Midnight ==
  /\ today < MaxDay
  /\ today' = today + 1
  /\ UNCHANGED <<dir, data>>
=============================================================================
