-------------------------------- MODULE Writer --------------------------------
(***************************************************************************)
(* writer_jsonl.c: every record first makes sure that the right file is     *)
(* open, by local day and by size, then is appended and flushed.  Midnight, *)
(* the uploader and the archiver may come between these steps, and the      *)
(* agent may be killed at any of them.                                      *)
(***************************************************************************)
EXTENDS Spool

CONSTANTS
  MaxSize,       \* --json-max-file-size-mb in parts; 0 switches size rotation off
  Torn,          \* TRUE iff a line may take two write() calls
  MaxAgentKills, \* bounds
  MaxOpenFails

ASSUME WriterAssumption ==
  /\ MaxSize \in Nat
  /\ Torn \in BOOLEAN
  /\ MaxAgentKills \in Nat
  /\ MaxOpenFails \in Nat

VARIABLES
  wpc,         \* where jsonl_writer_write_flow is
  wfp,         \* the inode behind writer->fp, NoInode for NULL
  wpath,       \* writer->active_path, of active_day and active_index
  aim,         \* day and wanted_index, while rotate_if_needed is at work
  starting,    \* it was called by jsonl_writer_open
  rec,         \* the record to write
  written,     \* records whose line is complete
  agentKills,
  openFails

writerVars == <<wpc, wfp, wpath, aim, starting, rec, written, agentKills, openFails>>

WriterInit ==
  /\ wpc = "off"
  /\ wfp = NoInode
  /\ wpath = <<0, 0>>
  /\ aim = <<0, 0>>
  /\ starting = FALSE
  /\ rec = 1
  /\ written = {}
  /\ agentKills = 0
  /\ openFails = 0

WriterTypeOK ==
  /\ wpc \in {"off", "ready", "choose", "open", "rotated", "half"}
  /\ wfp \in Inodes \union {NoInode}
  /\ wpath \in Paths
  /\ aim \in Paths
  /\ starting \in BOOLEAN
  /\ rec \in 1 .. MaxRecords + 1
  /\ written \subseteq Records
  /\ agentKills \in 0 .. MaxAgentKills
  /\ openFails \in 0 .. MaxOpenFails

-----------------------------------------------------------------------------
(* jsonl_writer_rotate_if_needed *)

\* get_local_day, at the start of each record and of the agent.
ReadDay ==
  /\ wpc = "off" \/ (wpc = "ready" /\ rec <= MaxRecords)
  /\ wpc' = "choose"
  /\ starting' = (wpc = "off")
  /\ aim' = <<today, 0>>
  /\ UNCHANGED <<spoolVars, wfp, wpath, rec, written, agentKills, openFails>>

\* A chunk that may still be written to, or does not exist yet.
\* (Mutant: the limit itself does not count as full.)
RoomOrFull(p) == Size(p) <= MaxSize
Room(p) == Size(p) < MaxSize

\* One round of choose_active_index, and its end.  Without size rotation there
\* is one file a day, and nobody looks at it.
NextIndex ==
  /\ wpc = "choose"
  /\ MaxSize > 0 /\ ~ Room(aim)
  /\ Index(aim) < MaxIndex
  /\ aim' = <<Day(aim), Index(aim) + 1>>
  /\ UNCHANGED <<spoolVars, wpc, wfp, wpath, starting, rec, written, agentKills, openFails>>
Chosen == wpc = "choose" /\ (MaxSize > 0 => Room(aim))

\* The open file is the wanted one.  Without size rotation nobody asks whether
\* its name still leads to it; with it, a second stat follows the one of Room,
\* and what happens between the two might as well happen before both.
Keeps == wfp # NoInode /\ wpath = aim /\ (MaxSize > 0 => Exists(aim) /\ Room(aim))

Keep ==
  /\ Chosen /\ Keeps
  /\ wpc' = "rotated"
  /\ aim' = <<0, 0>>
  /\ UNCHANGED <<spoolVars, wfp, wpath, starting, rec, written, agentKills, openFails>>

\* fclose
Close ==
  /\ Chosen /\ ~ Keeps
  /\ wpc' = "open"
  /\ wfp' = NoInode
  /\ UNCHANGED <<spoolVars, wpath, aim, starting, rec, written, agentKills, openFails>>

\* The record is next, or, at the start, the main loop.
Rotated ==
  /\ wpc' = IF starting THEN "ready" ELSE "rotated"
  /\ starting' = FALSE
  /\ wpath' = aim
  /\ aim' = <<0, 0>>

\* fopen(path, "a")
OpenOld ==
  /\ wpc = "open"
  /\ Exists(aim)
  /\ wfp' = dir[aim]
  /\ Rotated
  /\ UNCHANGED <<spoolVars, rec, written, agentKills, openFails>>
OpenNew ==
  /\ wpc = "open"
  /\ ~ Exists(aim)
  /\ \E i \in Unused :
       /\ wfp' = i
       /\ dir' = [dir EXCEPT ![aim] = i]
       /\ data' = [data EXCEPT ![i] = <<>>]
  /\ Rotated
  /\ UNCHANGED <<today, rec, written, agentKills, openFails>>

\* fopen fails: the record is dropped and the next one tries again; main gives
\* up, and is started again.
OpenFails ==
  /\ wpc = "open"
  /\ openFails < MaxOpenFails
  /\ openFails' = openFails + 1
  /\ wpc' = IF starting THEN "off" ELSE "ready"
  /\ rec' = IF starting THEN rec ELSE rec + 1
  /\ starting' = FALSE
  /\ aim' = <<0, 0>>
  /\ UNCHANGED <<spoolVars, wfp, wpath, written, agentKills>>

-----------------------------------------------------------------------------
(* The record *)

Put(parts) == data' = [data EXCEPT ![wfp] = @ \o parts]

\* The record is complete; the next one may come.
Done ==
  /\ wpc' = "ready"
  /\ written' = written \union {rec}
  /\ rec' = rec + 1

Write ==
  /\ wpc = "rotated"
  /\ Put(<< <<rec, "head">>, <<rec, "tail">> >>)
  /\ Done
  /\ UNCHANGED <<today, dir, wfp, wpath, aim, starting, agentKills, openFails>>

WriteHead ==
  /\ wpc = "rotated"
  /\ Torn
  /\ Put(<< <<rec, "head">> >>)
  /\ wpc' = "half"
  /\ UNCHANGED <<today, dir, wfp, wpath, aim, starting, rec, written, agentKills, openFails>>

WriteTail ==
  /\ wpc = "half"
  /\ Put(<< <<rec, "tail">> >>)
  /\ Done
  /\ UNCHANGED <<today, dir, wfp, wpath, aim, starting, agentKills, openFails>>

\* The agent goes away, by a kill or, between two records, by itself
\* (jsonl_writer_close).  A record it was about to complete is gone.
AgentStops ==
  /\ wpc # "off"
  /\ agentKills < MaxAgentKills
  /\ agentKills' = agentKills + 1
  /\ wpc' = "off"
  /\ wfp' = NoInode
  /\ rec' = IF wpc = "ready" \/ starting THEN rec ELSE rec + 1
  /\ starting' = FALSE
  /\ aim' = <<0, 0>>
  /\ UNCHANGED <<spoolVars, wpath, written, openFails>>

WriterStep ==
  \/ ReadDay
  \/ NextIndex
  \/ Keep
  \/ Close
  \/ OpenOld
  \/ OpenNew
  \/ OpenFails
  \/ Write
  \/ WriteHead
  \/ WriteTail
  \/ AgentStops
=============================================================================
