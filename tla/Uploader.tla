------------------------------- MODULE Uploader -------------------------------
(***************************************************************************)
(* if_flow_clickhouse_uploader.py: a pass walks over the JSONL files, sends *)
(* a bounded number of batches of each, cleans up behind itself if told to, *)
(* and saves how far it came.  Offsets live in memory until the pass ends;  *)
(* an error, or a kill, throws them away.                                   *)
(***************************************************************************)
EXTENDS Spool

CONSTANTS
  BatchLines,    \* IF_FLOW_UPLOADER_BATCH_LINES
  MaxBatches,    \* IF_FLOW_UPLOADER_MAX_BATCHES_PER_FILE
  MaxRetries,    \* IF_FLOW_UPLOADER_MAX_RETRIES
  DeleteSent,    \* IF_FLOW_UPLOADER_DELETE_SENT_ROTATED
  TruncateSent,  \* IF_FLOW_UPLOADER_TRUNCATE_SENT_ACTIVE
  MaxRefusals,   \* bounds: inserts that fail,
  MaxLostAcks,   \* inserts that succeed and time out,
  MaxUpKills     \* kills of the uploader

ASSUME UploaderAssumption ==
  /\ BatchLines \in Nat \ {0}
  /\ MaxBatches \in Nat \ {0}
  /\ MaxRetries \in Nat \ {0}
  /\ DeleteSent \in BOOLEAN
  /\ TruncateSent \in BOOLEAN
  /\ MaxRefusals \in Nat
  /\ MaxLostAcks \in Nat
  /\ MaxUpKills \in Nat

\* What is known of a file.  A file nothing is known of reads as all zero.
FileState == [inode : Inodes \union {NoInode}, offset : Nat, size : Nat]
Blank == [inode |-> NoInode, offset |-> 0, size |-> 0]

VARIABLES
  upc,       \* where run_once is
  saved,     \* the state file
  files,     \* files_state, the copy in memory
  listing,   \* paths this pass has not come to
  path,      \* the current one
  batches,   \* batches of it so far
  probe,     \* what read_batch got from stat: inode, size, and the offset to use
  batch,     \* the records of the current batch
  fresh,     \* new_file_state
  attempt,   \* failed attempts to insert the batch
  stored,    \* record -> times it was inserted (up to 2)
  refusals, lostAcks, upKills,
  aborted    \* 1 iff a pass has ended with an exception

passVars == <<files, listing, path, batches, probe, batch, fresh, attempt>>
upFaults == <<refusals, lostAcks, upKills, aborted>>
uploaderVars == <<upc, saved, passVars, stored, upFaults>>

FirstPath == <<0, 0>>

UploaderInit ==
  /\ upc = "idle"
  /\ saved = [p \in Paths |-> Blank]
  /\ files = [p \in Paths |-> Blank]
  /\ listing = {}
  /\ path = FirstPath
  /\ batches = 0
  /\ probe = Blank
  /\ batch = {}
  /\ fresh = Blank
  /\ attempt = 0
  /\ stored = [r \in Records |-> 0]
  /\ refusals = 0 /\ lostAcks = 0 /\ upKills = 0 /\ aborted = 0

UploaderTypeOK ==
  /\ upc \in {"idle", "next", "stat", "read", "insert", "check", "delete", "truncate"}
  /\ saved \in [Paths -> FileState]
  /\ files \in [Paths -> FileState]
  /\ listing \subseteq Paths
  /\ path \in Paths
  /\ batches \in 0 .. MaxBatches
  /\ probe \in FileState
  /\ batch \subseteq Records
  /\ fresh \in FileState
  /\ attempt \in 0 .. MaxRetries - 1
  /\ stored \in [Records -> 0 .. 2]
  /\ refusals \in Nat /\ lostAcks \in Nat /\ upKills \in Nat /\ aborted \in 0 .. 1

\* What run_once holds between two passes: nothing.
Forgotten ==
  /\ upc' = "idle"
  /\ files' = [p \in Paths |-> Blank]
  /\ listing' = {}
  /\ path' = FirstPath
  /\ batches' = 0
  /\ probe' = Blank
  /\ batch' = {}
  /\ fresh' = Blank
  /\ attempt' = 0

\* An exception leaves run_once: nothing is saved, the loop in main() goes on.
Abort ==
  /\ Forgotten
  /\ aborted' = 1
  /\ UNCHANGED saved

-----------------------------------------------------------------------------
(* The pass *)

\* sorted(): by day, the chunks of a day, then its plain file ('-' < '.').
Before(p, q) ==
  \/ Day(p) < Day(q)
  \/ Day(p) = Day(q) /\ Index(p) # 0 /\ (Index(q) = 0 \/ Index(p) < Index(q))

\* load_state, daily_jsonl_paths, prune_state_files
BeginPass ==
  /\ upc = "idle"
  /\ upc' = "next"
  /\ files' = [p \in Paths |-> IF Exists(p) THEN saved[p] ELSE Blank]
  /\ listing' = {p \in Paths : Exists(p)}
  /\ UNCHANGED <<spoolVars, saved, path, batches, probe, batch, fresh, attempt,
                 stored, upFaults>>

NextFile ==
  /\ upc = "next"
  /\ \E p \in listing :
       /\ \A q \in listing \ {p} : Before(p, q)
       /\ path' = p
       /\ listing' = listing \ {p}
  /\ batches' = 0
  /\ upc' = "stat"
  /\ UNCHANGED <<spoolVars, saved, files, probe, batch, fresh, attempt, stored,
                 upFaults>>

\* save_state replaces the state file in one step.
EndPass ==
  /\ upc = "next"
  /\ listing = {}
  /\ saved' = files
  /\ Forgotten
  /\ UNCHANGED <<spoolVars, stored, upFaults>>

\* Where read_batch starts.
\* (Mutant: at the beginning of the file.)
StartOver(st, inode, size) == 0
Start(st, inode, size) ==
  IF (st.inode # NoInode /\ st.inode # inode) \/ st.offset > size
    THEN 0 ELSE st.offset

\* os.stat of read_batch
Stat ==
  /\ upc = "stat"
  /\ batches < MaxBatches
  /\ Exists(path)
  /\ probe' = [inode |-> dir[path], size |-> Size(path),
               offset |-> Start(files[path], dir[path], Size(path))]
  /\ upc' = "read"
  /\ UNCHANGED <<spoolVars, saved, files, listing, path, batches, batch, fresh,
                 attempt, stored, upFaults>>

\* The offset after a batch: that of its last line if it is full, else the
\* end of the file, damaged lines and all.
ReadTo(c, from) ==
  LET good == IntactEnds(c, from)
      full == {i \in good : Cardinality({j \in good : j <= i}) = BatchLines}
  IN  IF full # {} THEN CHOOSE i \in full : TRUE
      ELSE IF Len(c) > from THEN Len(c) ELSE from

\* open and the loop of read_batch
Read ==
  /\ upc = "read"
  /\ Exists(path)
  /\ LET c == data[dir[path]]
         to == ReadTo(c, probe.offset)
         lines == {c[i][1] : i \in {j \in IntactEnds(c, probe.offset) : j <= to}}
         new == [inode |-> probe.inode, offset |-> to, size |-> probe.size]
     IN  \/ /\ lines = {}
            /\ files' = [files EXCEPT ![path] = new]
            /\ upc' = "check"
            /\ UNCHANGED <<batch, fresh>>
         \/ /\ lines # {}
            /\ batch' = lines
            /\ fresh' = new
            /\ upc' = "insert"
            /\ UNCHANGED files
  /\ UNCHANGED <<spoolVars, saved, listing, path, batches, probe, attempt, stored,
                 upFaults>>

\* The file is gone between the listing and stat, or between stat and open.
FileMissing ==
  /\ \/ upc = "stat" /\ batches < MaxBatches
     \/ upc \in {"read", "delete", "truncate"}
  /\ ~ Exists(path)
  /\ Abort
  /\ UNCHANGED <<spoolVars, stored, refusals, lostAcks, upKills>>

Store ==
  stored' = [r \in Records |->
    IF r \in batch /\ stored[r] < 2 THEN stored[r] + 1 ELSE stored[r]]

\* clickhouse_insert_with_retry returns.
Insert ==
  /\ upc = "insert"
  /\ Store
  /\ files' = [files EXCEPT ![path] = fresh]
  /\ batches' = batches + 1
  /\ batch' = {}
  /\ fresh' = Blank
  /\ attempt' = 0
  /\ upc' = "stat"
  /\ UNCHANGED <<spoolVars, saved, listing, path, probe, upFaults>>

\* An attempt raised: try again, or give up and leave the pass.
\* (Mutants: one retry too many; the batch counts as sent once its retries are
\* used up.)
RetryOnceMore ==
  \/ /\ attempt + 1 <= MaxRetries
     /\ attempt' = attempt + 1
     /\ UNCHANGED <<upc, saved, files, listing, path, batches, probe, batch, fresh,
                    aborted>>
  \/ attempt = MaxRetries /\ Abort
RetryOrSkip ==
  \/ /\ attempt + 1 < MaxRetries
     /\ attempt' = attempt + 1
     /\ UNCHANGED <<upc, saved, files, listing, path, batches, probe, batch, fresh,
                    aborted>>
  \/ /\ attempt + 1 = MaxRetries
     /\ files' = [files EXCEPT ![path] = fresh]
     /\ batches' = batches + 1
     /\ batch' = {}
     /\ fresh' = Blank
     /\ attempt' = 0
     /\ upc' = "stat"
     /\ UNCHANGED <<saved, listing, path, probe, aborted>>
RetryOrRaise ==
  \/ /\ attempt + 1 < MaxRetries
     /\ attempt' = attempt + 1
     /\ UNCHANGED <<upc, saved, files, listing, path, batches, probe, batch, fresh,
                    aborted>>
  \/ attempt + 1 = MaxRetries /\ Abort

\* The insert fails.
Refused ==
  /\ upc = "insert"
  /\ refusals < MaxRefusals
  /\ refusals' = refusals + 1
  /\ RetryOrRaise
  /\ UNCHANGED <<spoolVars, stored, lostAcks, upKills>>

\* The rows are stored, and the answer does not arrive in time.
LostAck ==
  /\ upc = "insert"
  /\ lostAcks < MaxLostAcks
  /\ lostAcks' = lostAcks + 1
  /\ Store
  /\ RetryOrRaise
  /\ UNCHANGED <<spoolVars, refusals, upKills>>

BatchesDone ==
  /\ upc = "stat"
  /\ batches = MaxBatches
  /\ upc' = "check"
  /\ UNCHANGED <<spoolVars, saved, passVars, stored, upFaults>>

-----------------------------------------------------------------------------
(* Clean-up *)

MayDelete == DeleteSent /\ (Day(path) # today \/ Index(path) # 0)
MayTruncate == TruncateSent /\ Day(path) = today /\ Index(path) = 0

\* The file on disk is the one that was fully sent.
\* (Mutant: its size is not compared.)
SentAnySize(st) == Exists(path) /\ (st.inode # NoInode => dir[path] = st.inode)
SentExactly(st) ==
  /\ Exists(path)
  /\ st.inode # NoInode => dir[path] = st.inode
  /\ st.offset = Size(path)

\* maybe_cleanup_uploaded_file, up to the stat of its two helpers.
Check ==
  /\ upc = "check"
  /\ LET st == files[path]
         go == st.size > 0 /\ st.offset = st.size /\ SentExactly(st)
     IN  \/ go /\ MayDelete /\ upc' = "delete"
         \/ go /\ ~ MayDelete /\ MayTruncate /\ upc' = "truncate"
         \/ ~ (go /\ (MayDelete \/ MayTruncate)) /\ upc' = "next"
  /\ UNCHANGED <<spoolVars, saved, passVars, stored, upFaults>>

\* os.remove
Delete ==
  /\ upc = "delete"
  /\ Exists(path)
  /\ dir' = [dir EXCEPT ![path] = NoInode]
  /\ files' = [files EXCEPT ![path] = Blank]
  /\ upc' = "next"
  /\ UNCHANGED <<today, data, saved, listing, path, batches, probe, batch, fresh,
                 attempt, stored, upFaults>>

\* open("r+") and truncate(0)
Truncate ==
  /\ upc = "truncate"
  /\ Exists(path)
  /\ data' = [data EXCEPT ![dir[path]] = <<>>]
  /\ files' = [files EXCEPT ![path] = [inode |-> files[path].inode, offset |-> 0, size |-> 0]]
  /\ upc' = "next"
  /\ UNCHANGED <<today, dir, saved, listing, path, batches, probe, batch, fresh,
                 attempt, stored, upFaults>>

UploaderKilled ==
  /\ upc # "idle"
  /\ upKills < MaxUpKills
  /\ upKills' = upKills + 1
  /\ Forgotten
  /\ UNCHANGED <<spoolVars, saved, stored, refusals, lostAcks, aborted>>

UploaderStep ==
  \/ BeginPass
  \/ NextFile
  \/ EndPass
  \/ Stat
  \/ Read
  \/ FileMissing
  \/ Insert
  \/ Refused
  \/ LostAck
  \/ BatchesDone
  \/ Check
  \/ Delete
  \/ Truncate
  \/ UploaderKilled
=============================================================================
