------------------------------- MODULE Pipeline -------------------------------
(***************************************************************************)
(* The way of a record from the agent to ClickHouse: the writer, the        *)
(* uploader and the archiver over one directory, each free to run between   *)
(* any two steps of the others.                                             *)
(***************************************************************************)
EXTENDS Writer, Uploader, Archiver

VARIABLES
  \* Days that midnight caught with the writer or the archiver in between asking
  \* for the date and using it: a file of theirs was created when they were over,
  \* or compressed before they were.
  late,
  \* Records that were written in one of the four ways that may cost them: to a
  \* file that somebody who had already looked at it was about to remove or
  \* truncate; in two parts, with the uploader reading in between; right behind
  \* the part of a line that a killed agent left; or to a file of a late day.
  exposed

pipelineVars == <<spoolVars, writerVars, uploaderVars, archiverVars, late, exposed>>

Init ==
  /\ SpoolInit
  /\ WriterInit
  /\ UploaderInit
  /\ ArchiverInit
  /\ late = {}
  /\ exposed = {}

\* Somebody is there to remove files of past days.
Cleans == DeleteSent \/ MaxArchives > 0

\* The writer's day has passed, and its file is not there, or not any more; the
\* archiver's day has passed, and the glob found files of the new one.
Overtaken ==
  {d \in 0 .. MaxDay :
     \/ /\ wpc \in {"choose", "open"} /\ d = Day(aim)
        /\ Cleans /\ d < today /\ ~ Exists(aim)
     \/ atoday < d /\ \E p \in alist : d = Day(p)}

\* Files that were looked at and are about to lose their content.
Condemned ==
  {dir[p] : p \in {q \in Paths : \/ upc \in {"delete", "truncate"} /\ q = path
                                 \/ apc = "unlink" /\ q = apath}}

\* What is about to happen to the record at hand.
Exposing ==
  \/ wpc \in {"rotated", "half"} /\ wfp \in Condemned
  \/ wpc = "half" /\ upc = "read" /\ dir[path] = wfp
  \/ /\ wpc = "rotated" /\ data[wfp] # <<>>
     /\ Last(data[wfp])[2] = "head"
  \/ wpc \in {"rotated", "half"} /\ Day(wpath) \in late

Note ==
  /\ late' = late \union Overtaken
  /\ exposed' = IF Exposing THEN exposed \union {rec} ELSE exposed

Next ==
  /\ \/ WriterStep /\ UNCHANGED <<uploaderVars, archiverVars>>
     \/ UploaderStep /\ UNCHANGED <<writerVars, archiverVars>>
     \/ ArchiverStep /\ UNCHANGED <<writerVars, uploaderVars>>
     \/ Midnight /\ UNCHANGED <<writerVars, uploaderVars, archiverVars>>
  /\ Note

Spec == Init /\ [][Next]_pipelineVars

\* The uploader's own steps.  It runs for ever (run_uploader_loop.sh, and
\* Restart=always): whatever happened, it takes its next step, and an insert
\* that is tried again and again succeeds at some time.
UploaderWork ==
  \/ BeginPass \/ NextFile \/ EndPass \/ Stat \/ Read \/ FileMissing
  \/ Insert \/ BatchesDone \/ Check \/ Delete \/ Truncate

FairSpec ==
  /\ Spec
  /\ WF_pipelineVars(UploaderWork /\ UNCHANGED <<writerVars, archiverVars>> /\ Note)

-----------------------------------------------------------------------------
(* Properties *)

TypeOK ==
  /\ SpoolTypeOK
  /\ WriterTypeOK
  /\ UploaderTypeOK
  /\ ArchiverTypeOK
  /\ late \subseteq 0 .. MaxDay
  /\ exposed \subseteq Records

Stored == {r \in Records : stored[r] > 0}

\* Lines of c that a reader who starts at 0 finds intact before offset o.
IntactBefore(c, o) == {c[i][1] : i \in {j \in IntactEnds(c, 0) : j <= o}}

\* What the state file says was sent was stored, whatever inserts failed or
\* timed out and whenever the uploader was killed: the saved offset of a file
\* never runs ahead of ClickHouse.  The exception is a record that was exposed:
\* a damaged line is stepped over, and so is one that is still being written.
OffsetMeansStored ==
  \A p \in Paths :
    Exists(p) /\ saved[p].inode = dir[p] =>
      IntactBefore(data[dir[p]], saved[p].offset) \subseteq Stored \union exposed

\* Nothing is sent twice but by an insert whose answer was lost, a pass that was
\* given up, a kill, or a file that came back after its day.
OnceWithoutFaults ==
  lostAcks = 0 /\ aborted = 0 /\ upKills = 0 /\ late = {} =>
    \A r \in Records : stored[r] <= 1

InFiles == UNION {RecordsIn(data[dir[p]]) : p \in {q \in Paths : Exists(q)}}
Archived == UNION {archived[d] : d \in 0 .. MaxDay}

\* A complete record can be found in ClickHouse, in an archive or in a file.
\* Clean-up and compression lose none but one that was written between their
\* last look at a file and its removal, or to a file of a day that midnight
\* overtook.  The exceptions are a pass that was
\* given up, or killed, after it had cleaned up: the state file then still has
\* the offset of the file that is gone, and a new file may get its inode.
LostOnlyInRace ==
  aborted = 0 /\ upKills = 0 =>
    written \subseteq Stored \union InFiles \union Archived \union exposed

\* What was archived stays in the archive of its day until that is older than
\* the retention allows: no later compression replaces it, but one of a file
\* that the writer made when its day was over, or of a day that was archived
\* while it lasted, because midnight came between asking for the date and using
\* it.
ArchivesKept ==
  \A d \in 0 .. MaxDay :
    archived[d] # gz[d] => d < today - RetentionDays \/ d \in late

\* A chunk is left as soon as it has reached its size: the last record may
\* pass the limit, and no other starts beyond it.
ChunksBounded ==
  MaxSize > 0 => \A p \in Paths : Exists(p) => Size(p) <= MaxSize + 1

\* Every complete record reaches ClickHouse, after finitely many faults, unless
\* its line was damaged or read half written.
EveryRecordArrives ==
  \A r \in Records : (r \in written) ~> (stored[r] > 0 \/ r \in exposed)

-----------------------------------------------------------------------------
(* What makes them inductive *)

\* A file has one name, of a day that has begun; without size rotation no name
\* has a number.
NamesApart ==
  \A p, q \in Paths : Exists(p) /\ dir[p] = dir[q] => p = q
NamesOfPast ==
  \A p \in Paths : Exists(p) => Day(p) <= today /\ (MaxSize = 0 => Index(p) = 0)

\* The open file has no name but the one it was opened by.
OpenByName ==
  \A p \in Paths : wfp # NoInode /\ dir[p] = wfp => p = wpath

\* The name of the open file leads to it or to nothing; to it, as long as
\* nobody removes files of its day.
WriterAt ==
  /\ wpc \in {"rotated", "half"} => rec <= MaxRecords /\ wfp # NoInode
  /\ wpc \in {"choose", "open"} => starting \/ rec <= MaxRecords
  /\ starting => wpc \in {"choose", "open"} /\ wfp = NoInode
  /\ wpc \in {"off", "open"} => wfp = NoInode
  /\ Day(wpath) <= today /\ Day(aim) <= today
  /\ MaxSize = 0 => Index(aim) = 0
  /\ wfp # NoInode => dir[wpath] \in {wfp, NoInode}
  /\ wfp # NoInode /\ (~ Cleans \/ (MaxSize = 0 /\ Day(wpath) = today /\ today \notin late))
       => dir[wpath] = wfp

\* Files hold the records before the current one, and its head if the writer is
\* in the middle of the line.
PartsOfPast ==
  \A i \in Inodes : \A j \in DOMAIN data[i] :
    \/ data[i][j][1] < rec
    \/ wpc = "half" /\ i = wfp /\ data[i][j] = <<rec, "head">>

PassAt ==
  /\ upc \in {"read", "insert"} => batches < MaxBatches
  /\ upc = "read" => probe.inode # NoInode
  /\ upc = "delete" => DeleteSent /\ (Day(path) < today \/ Index(path) # 0)
  /\ upc = "truncate" => TruncateSent

SizesBounded ==
  MaxSize > 0 =>
    /\ \A i \in Inodes : Len(data[i]) <= MaxSize + 1
    /\ wpc = "open" => Room(aim)
    /\ wpc = "rotated" => Len(data[wfp]) < MaxSize
    /\ wpc = "half" => Len(data[wfp]) <= MaxSize

\* A day is archived when it is over, and its file is then gone or just about
\* to go: there is nothing to compress a second time.
ArchiverAt ==
  /\ atoday <= today
  /\ apc # "idle" => MaxArchives > 0
  /\ \A p \in alist : Index(p) = 0 /\ Day(p) # atoday
  /\ apc \in {"idle", "list"} => alist = {}
  /\ apc = "unlink" => Day(apath) < today \/ Day(apath) \in late
  /\ \A d \in 0 .. MaxDay : archived[d] # {} =>
       /\ MaxArchives > 0
       /\ \/ d \in late
          \/ d < today /\ (Exists(<<d, 0>>) => apc = "unlink" /\ apath = <<d, 0>>)

\* No line of c before o is outside S, and none is split at o that is not in S,
\* now or once the writer, which is at record k, has gone on.
Sent(c, o, S, k) ==
  /\ o <= Len(c)
  /\ IntactBefore(c, o) \subseteq S
  /\ o > 0 /\ c[o][2] = "head" =>
       \/ c[o][1] \in S
       \/ c[o][1] < k /\ (o < Len(c) => c[o + 1] # <<c[o][1], "tail">>)

\* A file that was made when its day was over, or made again.
AllExposed(p) ==
  Day(p) \in late /\ Exists(p) /\ \A j \in DOMAIN data[dir[p]] : data[dir[p]][j][1] \in exposed

\* What is known of the file of p is blank, or of a file that is gone for good
\* unless its day is late, or no longer matters, or true.
Believed(st, p, S) ==
  \/ st.inode = NoInode /\ st.offset = 0
  \/ Cleans /\ ~ Exists(p) /\ (Day(p) < today \/ Day(p) \in late)
  \/ AllExposed(p)
  \/ Exists(p) /\ st.inode = dir[p] /\ Sent(data[dir[p]], st.offset, S, rec)

\* No pass was left before its end.
Calm == aborted = 0 /\ upKills = 0

\* The uploader removes no file whose name is used again.
Plain == ~ TruncateSent /\ (DeleteSent => MaxSize = 0)

Past == Stored \union exposed

SavedIsTrue ==
  Plain \/ (Calm /\ upc = "idle") => \A p \in Paths : Believed(saved[p], p, Past)
FilesAreTrue ==
  Plain \/ Calm => 
    /\ upc # "idle" => \A p \in Paths : Believed(files[p], p, Past)
    /\ upc = "read" => Believed(probe, path, Past)
    /\ upc = "insert" => Believed(fresh, path, Past \union batch)

\* Whoever is about to remove a file has sent, or archived, what it holds.
SentBeforeRemoval ==
  Calm =>
    /\ upc \in {"delete", "truncate"} /\ Exists(path) =>
         RecordsIn(data[dir[path]]) \subseteq Past
    /\ apc = "unlink" /\ Exists(apath) =>
         RecordsIn(data[dir[apath]]) \subseteq archived[Day(apath)] \union exposed

\* A record that is not exposed goes to a file that has a name, behind a
\* complete line.
LineInPlace ==
  wpc \in {"rotated", "half"} /\ rec \notin exposed /\ Day(wpath) \notin late =>
    /\ dir[wpath] = wfp
    /\ wpc = "half" =>
         LET c == data[wfp]
         IN  /\ Len(c) > 0 /\ c[Len(c)] = <<rec, "head">>
             /\ Len(c) = 1 \/ c[Len(c) - 1][2] = "tail"

\* No part is in two places.
PartsApart ==
  \A i, k \in Inodes : \A j \in DOMAIN data[i], l \in DOMAIN data[k] :
    data[i][j] = data[k][l] => i = k /\ j = l

\* Nothing that lies behind the offset of its file was sent.
Unsent(p, o) == \A j \in DOMAIN data[dir[p]] : j > o => stored[data[dir[p]][j][1]] = 0
SentOnce ==
  Calm /\ lostAcks = 0 /\ late = {} =>
    /\ \A r \in Records : stored[r] <= 1 /\ (stored[r] = 1 => r < rec)
    /\ \A p \in Paths : Exists(p) =>
         Unsent(p, IF upc = "idle" THEN saved[p].offset ELSE files[p].offset)
    /\ upc = "read" /\ Exists(path) => Unsent(path, probe.offset)
    /\ upc = "insert" =>
         /\ \A r \in batch : stored[r] = 0 /\ r < rec
         /\ \A p \in Paths : Exists(p) => \A j \in DOMAIN data[dir[p]] :
              data[dir[p]][j][1] \in batch => p = path /\ j <= fresh.offset
         /\ Exists(path) => Unsent(path, fresh.offset)

FilesInv ==
  /\ TypeOK /\ NamesApart /\ NamesOfPast /\ OpenByName /\ WriterAt /\ PartsOfPast /\ PassAt
  /\ SizesBounded /\ ArchiverAt /\ ArchivesKept

DeliveryInv ==
  /\ SavedIsTrue /\ FilesAreTrue
  /\ SentBeforeRemoval /\ LineInPlace /\ LostOnlyInRace
  /\ PartsApart /\ SentOnce

-----------------------------------------------------------------------------
(* What comments and documents say, and the code does not do *)

\* The uploader "resumes from the previous offset": where it starts to read,
\* all that lies before it in the file was sent.
ResumesWhereItStopped ==
  [][upc = "stat" /\ upc' = "read" =>
       IntactBefore(data[dir[path]], probe'.offset) \subseteq Stored]_pipelineVars
=============================================================================
