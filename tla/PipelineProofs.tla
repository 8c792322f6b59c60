----------------------------- MODULE PipelineProofs -----------------------------
(***************************************************************************)
(* Proofs about the files that the writer, the uploader and the archiver    *)
(* share: their names and sizes, and what the archiver keeps.               *)
(***************************************************************************)
EXTENDS Pipeline, ListLemmas

USE SpoolAssumption, WriterAssumption, UploaderAssumption, ArchiverAssumption

-----------------------------------------------------------------------------
(* Types *)

LEMMA PathParts ==
  ASSUME NEW p \in Paths
  PROVE  /\ Day(p) \in 0 .. MaxDay /\ Index(p) \in 0 .. MaxIndex
         /\ p = <<Day(p), Index(p)>>
  BY DEF Paths, Day, Index

LEMMA NoSuchInode == NoInode \notin Inodes
  BY DEF NoInode, Inodes

LEMMA PartsOfFile ==
  ASSUME NEW c \in Seq(Parts)
  PROVE  /\ Len(c) \in Nat /\ DOMAIN c = 1 .. Len(c)
         /\ \A j \in 1 .. Len(c) :
              c[j] \in Parts /\ c[j][1] \in Records /\ c[j][2] \in {"head", "tail"}
  <1>1. Len(c) \in Nat /\ DOMAIN c = 1 .. Len(c)
    BY LenProperties
  <1>2. \A j \in 1 .. Len(c) : c[j] \in Parts
    BY ElementOfSeq
  <1> QED
    BY <1>1, <1>2 DEF Parts

LEMMA ContentOf ==
  ASSUME SpoolTypeOK, NEW p \in Paths, Exists(p)
  PROVE  dir[p] \in Inodes /\ data[dir[p]] \in Seq(Parts) /\ Size(p) \in Nat
  BY NoSuchInode, LenProperties DEF SpoolTypeOK, Exists, Size

\* Where the lines of c end that are read from an offset.
LEMMA IntactPlaces ==
  ASSUME NEW c \in Seq(Parts), NEW from \in Nat, NEW i
  PROVE  i \in IntactEnds(c, from) <=>
           /\ i \in from + 2 .. Len(c)
           /\ c[i][2] = "tail" /\ c[i - 1] = <<c[i][1], "head">>
           /\ i - 2 = from \/ c[i - 2][2] = "tail"
  BY PartsOfFile DEF IntactEnds, LineEnds, Intact

LEMMA RecordsOfFile ==
  ASSUME NEW c \in Seq(Parts)
  PROVE  RecordsIn(c) \subseteq Records
  <1>1. \A i \in IntactEnds(c, 0) : i \in 1 .. Len(c)
    BY IntactPlaces, PartsOfFile
  <1> QED
    BY <1>1, PartsOfFile DEF RecordsIn

LEMMA WriterTypes ==
  ASSUME TypeOK, WriterAt, WriterStep
  PROVE  SpoolTypeOK' /\ WriterTypeOK'
  <1> USE DEF TypeOK, SpoolTypeOK, WriterTypeOK
  <1>1. <<today, 0>> \in Paths /\ <<0, 0>> \in Paths
    BY DEF Paths
  <1>2. ASSUME wpc \in {"rotated", "half"}, NEW k \in {"head", "tail"}
        PROVE  /\ <<rec, k>> \in Parts /\ wfp \in Inodes /\ rec \in Records
               /\ rec + 1 \in 1 .. MaxRecords + 1
    BY <1>2 DEF WriterAt, Parts, Records
  <1>3. ASSUME NEW parts \in Seq(Parts), wpc \in {"rotated", "half"}, Put(parts)
        PROVE  data' \in [Inodes -> Seq(Parts)]
    <2>1. wfp \in Inodes
      BY <1>2, <1>3
    <2>2. data[wfp] \o parts \in Seq(Parts)
      BY <2>1, <1>3, ConcatProperties
    <2> QED
      BY <2>1, <2>2, <1>3 DEF Put
  <1>4. CASE ReadDay \/ Keep \/ Close \/ OpenFails
    <2>1. rec' \in 1 .. MaxRecords + 1
      BY <1>4 DEF ReadDay, Keep, Close, OpenFails, WriterAt
    <2>2. CASE ReadDay
      BY <1>1, <2>1, <2>2 DEF ReadDay, spoolVars
    <2>3. CASE Keep
      BY <1>1, <2>1, <2>3 DEF Keep, spoolVars
    <2>4. CASE Close
      BY <1>1, <2>1, <2>4 DEF Close, spoolVars
    <2>5. CASE OpenFails
      <3>1. /\ wpc' \in {"off", "ready"} /\ starting' = FALSE /\ aim' = <<0, 0>>
            /\ openFails' \in 0 .. MaxOpenFails
            /\ UNCHANGED <<spoolVars, wfp, wpath, written, agentKills>>
        BY <2>5 DEF OpenFails
      <3> QED
        BY <1>1, <2>1, <3>1 DEF spoolVars
    <2> QED
      BY <1>4, <2>2, <2>3, <2>4, <2>5
  <1>5. CASE NextIndex
    <2>1. <<Day(aim), Index(aim) + 1>> \in Paths
      BY <1>5, PathParts DEF NextIndex, Paths
    <2> QED
      BY <1>5, <2>1 DEF NextIndex, spoolVars
  <1>6. CASE OpenOld \/ OpenNew
    <2>1. CASE OpenOld
      BY <1>1, <2>1, ContentOf DEF OpenOld, Rotated, spoolVars
    <2>2. CASE OpenNew
      <3>1. PICK i \in Unused : /\ wfp' = i
                                /\ dir' = [dir EXCEPT ![aim] = i]
                                /\ data' = [data EXCEPT ![i] = <<>>]
        BY <2>2 DEF OpenNew
      <3>2. <<>> \in Seq(Parts) /\ i \in Inodes
        BY EmptySeq DEF Unused
      <3> QED
        BY <1>1, <2>2, <3>1, <3>2 DEF OpenNew, Rotated
    <2> QED
      BY <1>6, <2>1, <2>2
  <1>7. CASE Write
    <2>1. << <<rec, "head">>, <<rec, "tail">> >> \in Seq(Parts)
      BY <1>2, <1>7 DEF Write
    <2> QED
      BY <2>1, <1>2, <1>3, <1>7 DEF Write, Done
  <1>8. CASE WriteHead
    <2>1. << <<rec, "head">> >> \in Seq(Parts)
      BY <1>2, <1>8 DEF WriteHead
    <2> QED
      BY <2>1, <1>2, <1>3, <1>8 DEF WriteHead
  <1>9. CASE WriteTail
    <2>1. << <<rec, "tail">> >> \in Seq(Parts)
      BY <1>2, <1>9 DEF WriteTail
    <2> QED
      BY <2>1, <1>2, <1>3, <1>9 DEF WriteTail, Done
  <1>10. CASE AgentStops
    <2>1. rec' \in 1 .. MaxRecords + 1
      BY <1>2, <1>10 DEF AgentStops, WriterAt
    <2>2. /\ wpc' = "off" /\ starting' = FALSE /\ aim' = <<0, 0>> /\ wfp' = NoInode
          /\ agentKills' \in 0 .. MaxAgentKills
          /\ UNCHANGED <<spoolVars, wpath, written, openFails>>
      BY <1>10 DEF AgentStops
    <2> QED
      BY <1>1, <2>1, <2>2 DEF spoolVars
  <1> QED
    BY <1>4, <1>5, <1>6, <1>7, <1>8, <1>9, <1>10 DEF WriterStep

\* Where a batch ends: at an intact line, or at the end of the file.
LEMMA ReadToEnd ==
  ASSUME NEW c \in Seq(Parts), NEW from \in Nat
  PROVE  /\ ReadTo(c, from) \in Nat
         /\ \/ ReadTo(c, from) \in IntactEnds(c, from)
            \/ ReadTo(c, from) = Len(c) /\ Len(c) > from
            \/ ReadTo(c, from) = from /\ from >= Len(c)
  <1> DEFINE full == {i \in IntactEnds(c, from) :
                        Cardinality({j \in IntactEnds(c, from) : j <= i}) = BatchLines}
  <1>1. Len(c) \in Nat
    BY PartsOfFile
  <1>2. \A i \in IntactEnds(c, from) : i \in Nat
    BY <1>1, IntactPlaces
  <1>3. ReadTo(c, from) = IF full # {} THEN CHOOSE i \in full : TRUE
                          ELSE IF Len(c) > from THEN Len(c) ELSE from
    BY DEF ReadTo
  <1>4. full # {} => (CHOOSE i \in full : TRUE) \in full
    OBVIOUS
  <1>5. full \subseteq IntactEnds(c, from)
    OBVIOUS
  <1> HIDE DEF full
  <1> QED
    BY <1>1, <1>2, <1>3, <1>4, <1>5

LEMMA BatchOfFile ==
  ASSUME NEW c \in Seq(Parts), NEW from \in Nat, NEW to
  PROVE  {c[i][1] : i \in {j \in IntactEnds(c, from) : j <= to}} \subseteq Records
  <1>1. \A i \in IntactEnds(c, from) : i \in 1 .. Len(c)
    BY IntactPlaces, PartsOfFile
  <1> QED
    BY <1>1, PartsOfFile

LEMMA StoreTypes ==
  ASSUME UploaderTypeOK, Store
  PROVE  stored' \in [Records -> 0 .. 2]
  BY DEF UploaderTypeOK, Store

LEMMA ForgottenTypes ==
  ASSUME UploaderTypeOK, Forgotten
  PROVE  /\ upc' \in {"idle"} /\ files' \in [Paths -> FileState] /\ listing' = {}
         /\ path' \in Paths /\ batches' \in 0 .. MaxBatches /\ probe' \in FileState
         /\ batch' = {} /\ fresh' \in FileState /\ attempt' \in 0 .. MaxRetries - 1
  <1>1. Blank \in FileState
    BY DEF Blank, FileState
  <1>2. FirstPath \in Paths
    BY DEF FirstPath, Paths
  <1> QED
    BY <1>1, <1>2 DEF Forgotten

LEMMA RetryTypes ==
  ASSUME UploaderTypeOK, upc = "insert", RetryOrRaise
  PROVE  /\ upc' \in {"insert", "idle"} /\ saved' \in [Paths -> FileState]
         /\ files' \in [Paths -> FileState] /\ listing' \subseteq Paths
         /\ path' \in Paths /\ batches' \in 0 .. MaxBatches /\ probe' \in FileState
         /\ batch' \subseteq Records /\ fresh' \in FileState
         /\ attempt' \in 0 .. MaxRetries - 1 /\ aborted' \in 0 .. 1
  BY ForgottenTypes DEF RetryOrRaise, Abort, UploaderTypeOK

LEMMA UploaderTypes ==
  ASSUME TypeOK, PassAt, UploaderStep
  PROVE  SpoolTypeOK' /\ UploaderTypeOK'
  <1> USE DEF TypeOK, UploaderTypeOK
  <1>0. Blank \in FileState
    BY DEF Blank, FileState
  <1>1. CASE BeginPass
    BY <1>0, <1>1 DEF BeginPass, spoolVars, upFaults, SpoolTypeOK
  <1>2. CASE NextFile
    BY <1>2 DEF NextFile, spoolVars, upFaults, SpoolTypeOK
  <1>3. CASE EndPass
    BY <1>3, ForgottenTypes DEF EndPass, spoolVars, upFaults, SpoolTypeOK
  <1>4. CASE Stat
    <2>1. Start(files[path], dir[path], Size(path)) \in Nat
      BY DEF Start, FileState
    <2>2. probe' \in FileState
      BY <1>4, <2>1, ContentOf DEF Stat, FileState
    <2> QED
      BY <1>4, <2>2 DEF Stat, spoolVars, upFaults, SpoolTypeOK
  <1>5. CASE Read
    <2> DEFINE c == data[dir[path]]
               to == ReadTo(c, probe.offset)
               new == [inode |-> probe.inode, offset |-> to, size |-> probe.size]
    <2>1. c \in Seq(Parts) /\ probe.offset \in Nat
      BY <1>5, ContentOf DEF Read, FileState
    <2>2. to \in Nat
      BY <2>1, ReadToEnd
    <2>3. new \in FileState
      BY <2>2 DEF FileState
    <2>4. {c[i][1] : i \in {j \in IntactEnds(c, probe.offset) : j <= to}} \subseteq Records
      BY <2>1, BatchOfFile
    <2>5. /\ files' \in [Paths -> FileState] /\ batch' \subseteq Records
          /\ fresh' \in FileState /\ upc' \in {"check", "insert"}
      BY <1>5, <2>3, <2>4 DEF Read
    <2> QED
      BY <1>5, <2>5 DEF Read, spoolVars, upFaults, SpoolTypeOK
  <1>6. CASE FileMissing
    BY <1>6, ForgottenTypes DEF FileMissing, Abort, spoolVars, SpoolTypeOK
  <1>7. CASE Insert
    <2>1. batches' \in 0 .. MaxBatches
      BY <1>7 DEF Insert, PassAt
    <2> QED
      BY <1>0, <1>7, <2>1, StoreTypes DEF Insert, spoolVars, upFaults, SpoolTypeOK
  <1>8. CASE Refused
    BY <1>8, RetryTypes DEF Refused, spoolVars, SpoolTypeOK
  <1>9. CASE LostAck
    BY <1>9, RetryTypes, StoreTypes DEF LostAck, spoolVars, SpoolTypeOK
  <1>10. CASE BatchesDone
    BY <1>10 DEF BatchesDone, spoolVars, passVars, upFaults, SpoolTypeOK
  <1>11. CASE Check
    BY <1>11 DEF Check, spoolVars, passVars, upFaults, SpoolTypeOK
  <1>12. CASE Delete
    BY <1>0, <1>12 DEF Delete, upFaults, SpoolTypeOK
  <1>13. CASE Truncate
    <2>1. [inode |-> files[path].inode, offset |-> 0, size |-> 0] \in FileState
      BY DEF FileState
    <2>2. <<>> \in Seq(Parts)
      BY EmptySeq
    <2> QED
      BY <1>13, <2>1, <2>2 DEF Truncate, upFaults, SpoolTypeOK
  <1>14. CASE UploaderKilled
    BY <1>14, ForgottenTypes DEF UploaderKilled, spoolVars, SpoolTypeOK
  <1> QED
    BY <1>1, <1>2, <1>3, <1>4, <1>5, <1>6, <1>7, <1>8, <1>9, <1>10, <1>11, <1>12,
       <1>13, <1>14 DEF UploaderStep

LEMMA ArchiverTypes ==
  ASSUME TypeOK, ArchiverStep
  PROVE  SpoolTypeOK' /\ ArchiverTypeOK'
  <1> USE DEF TypeOK, ArchiverTypeOK
  <1>0. <<0, 0>> \in Paths
    BY DEF Paths
  <1>1. CASE BeginArchive \/ ListFiles
    BY <1>1 DEF BeginArchive, ListFiles, spoolVars, SpoolTypeOK
  <1>2. CASE Compress
    <2>1. PICK p \in alist :
            /\ Exists(p)
            /\ apath' = p
            /\ alist' = alist \ {p}
            /\ gz' = [gz EXCEPT ![Day(p)] = RecordsIn(data[dir[p]])]
            /\ archived' = [archived EXCEPT ![Day(p)] = @ \union RecordsIn(data[dir[p]])]
      BY <1>2 DEF Compress
    <2>2. RecordsIn(data[dir[p]]) \subseteq Records
      BY <2>1, ContentOf, RecordsOfFile
    <2> QED
      BY <1>2, <2>1, <2>2, PathParts DEF Compress, spoolVars, SpoolTypeOK
  <1>3. CASE Unlink
    BY <1>3 DEF Unlink, SpoolTypeOK
  <1>4. CASE CompressFails
    BY <1>0, <1>4 DEF CompressFails, ArchiveEnds, spoolVars, SpoolTypeOK
  <1>5. CASE Expire
    BY <1>0, <1>5 DEF Expire, ArchiveEnds, spoolVars, SpoolTypeOK
  <1> QED
    BY <1>1, <1>2, <1>3, <1>4, <1>5 DEF ArchiverStep

LEMMA OthersStill ==
  ASSUME TypeOK
  PROVE  /\ UNCHANGED writerVars => WriterTypeOK'
         /\ UNCHANGED uploaderVars => UploaderTypeOK'
         /\ UNCHANGED archiverVars => ArchiverTypeOK'
         /\ UNCHANGED spoolVars => SpoolTypeOK'
  BY DEF TypeOK, spoolVars, SpoolTypeOK, writerVars, WriterTypeOK, uploaderVars, passVars,
         upFaults, UploaderTypeOK, archiverVars, ArchiverTypeOK

\* Only a record that is being written is ever exposed.
LEMMA ExposedStep ==
  ASSUME TypeOK, WriterAt, Note
  PROVE  /\ late \subseteq late' /\ late' \subseteq 0 .. MaxDay
         /\ exposed \subseteq exposed' /\ exposed' \subseteq Records
         /\ Exposing => rec \in exposed'
         /\ exposed' \subseteq exposed \union {rec}
  <1>1. Exposing => rec \in Records
    BY DEF Exposing, WriterAt, TypeOK, WriterTypeOK, Records
  <1>2. Overtaken \subseteq 0 .. MaxDay
    BY DEF Overtaken
  <1> QED
    BY <1>1, <1>2 DEF Note, TypeOK

LEMMA TypeStep ==
  ASSUME TypeOK, WriterAt, PassAt, [Next]_pipelineVars
  PROVE  TypeOK'
  <1>1. CASE WriterStep /\ UNCHANGED <<uploaderVars, archiverVars>> /\ Note
    BY <1>1, WriterTypes, OthersStill, ExposedStep DEF TypeOK
  <1>2. CASE UploaderStep /\ UNCHANGED <<writerVars, archiverVars>> /\ Note
    BY <1>2, UploaderTypes, OthersStill, ExposedStep DEF TypeOK
  <1>3. CASE ArchiverStep /\ UNCHANGED <<writerVars, uploaderVars>> /\ Note
    BY <1>3, ArchiverTypes, OthersStill, ExposedStep DEF TypeOK
  <1>4. CASE Midnight /\ UNCHANGED <<writerVars, uploaderVars, archiverVars>> /\ Note
    <2>1. SpoolTypeOK'
      BY <1>4 DEF Midnight, TypeOK, SpoolTypeOK
    <2> QED
      BY <1>4, <2>1, OthersStill, ExposedStep DEF TypeOK
  <1>5. CASE UNCHANGED pipelineVars
    BY <1>5, OthersStill DEF pipelineVars, TypeOK
  <1> QED
    BY <1>1, <1>2, <1>3, <1>4, <1>5 DEF Next

-----------------------------------------------------------------------------
(* What a step does to the directory *)

\* d is c with parts of record k behind it.
Grown(c, d, k) ==
  /\ d \in Seq(Parts)
  /\ Len(c) <= Len(d)
  /\ \A j \in 1 .. Len(c) : d[j] = c[j]
  /\ \A j \in Len(c) + 1 .. Len(d) : d[j][1] = k

Creates(p, i) ==
  /\ p = aim /\ ~ Exists(p) /\ (MaxSize = 0 => Index(p) = 0)
  /\ i \in Unused
  /\ dir' = [dir EXCEPT ![p] = i]
  /\ data' = [data EXCEPT ![i] = <<>>]
  /\ wpc = "open" /\ wpc' \in {"ready", "rotated"}
  /\ rec' = rec /\ wpath' = p /\ wfp' = i

Appends ==
  /\ dir' = dir
  /\ wpc \in {"rotated", "half"} /\ wfp \in Inodes
  /\ data' = [data EXCEPT ![wfp] = data'[wfp]]
  /\ Grown(data[wfp], data'[wfp], rec)

Removes(p) ==
  /\ Exists(p)
  /\ \/ Delete /\ p = path
     \/ Unlink /\ p = apath
  /\ dir' = [dir EXCEPT ![p] = NoInode]
  /\ data' = data

LEMMA SameGrown ==
  ASSUME NEW c \in Seq(Parts), NEW k
  PROVE  Grown(c, c, k)
  BY PartsOfFile DEF Grown

LEMMA ConcatGrown ==
  ASSUME NEW c \in Seq(Parts), NEW e \in Seq(Parts), NEW k,
         \A j \in 1 .. Len(e) : e[j][1] = k
  PROVE  Grown(c, c \o e, k)
  <1>1. /\ c \o e \in Seq(Parts)
        /\ Len(c \o e) = Len(c) + Len(e)
        /\ \A j \in 1 .. Len(c) + Len(e) :
             (c \o e)[j] = IF j <= Len(c) THEN c[j] ELSE e[j - Len(c)]
    BY ConcatProperties
  <1>2. Len(c) \in Nat /\ Len(e) \in Nat
    BY PartsOfFile
  <1> QED
    BY <1>1, <1>2 DEF Grown

\* What a line adds to the open file.
LEMMA PutEffect ==
  ASSUME TypeOK, WriterAt, wpc \in {"rotated", "half"}, NEW parts \in Seq(Parts),
         Put(parts)
  PROVE  /\ wfp \in Inodes /\ data[wfp] \in Seq(Parts)
         /\ data' = [data EXCEPT ![wfp] = data'[wfp]]
         /\ data'[wfp] = data[wfp] \o parts
  BY DEF TypeOK, SpoolTypeOK, WriterTypeOK, WriterAt, Put

LEMMA LineParts ==
  ASSUME TypeOK, WriterAt, wpc \in {"rotated", "half"}
  PROVE  /\ << <<rec, "head">> >> \in Seq(Parts)
         /\ << <<rec, "tail">> >> \in Seq(Parts)
         /\ << <<rec, "head">>, <<rec, "tail">> >> \in Seq(Parts)
  <1>1. <<rec, "head">> \in Parts /\ <<rec, "tail">> \in Parts
    BY DEF TypeOK, WriterTypeOK, WriterAt, Parts, Records
  <1> QED
    BY <1>1

LEMMA WriterEffect ==
  ASSUME TypeOK, WriterAt, WriterStep
  PROVE  /\ today' = today
         /\ rec' \in {rec, rec + 1}
         /\ \/ UNCHANGED <<dir, data>>
            \/ \E p \in Paths, i \in Unused : Creates(p, i)
            \/ Appends
  <1>1. CASE ReadDay \/ NextIndex \/ Keep \/ Close \/ OpenFails \/ AgentStops
    BY <1>1 DEF ReadDay, NextIndex, Keep, Close, OpenFails, AgentStops, spoolVars
  <1>2. CASE OpenOld
    BY <1>2 DEF OpenOld, spoolVars
  <1>3. CASE OpenNew
    <2>1. aim \in Paths
      BY DEF TypeOK, WriterTypeOK
    <2> QED
      BY <1>3, <2>1 DEF OpenNew, Rotated, Creates, WriterAt
  <1>5. ASSUME NEW parts \in Seq(Parts), \A j \in 1 .. Len(parts) : parts[j][1] = rec,
               wpc \in {"rotated", "half"}, Put(parts), dir' = dir
        PROVE  Appends
    <2>1. /\ wfp \in Inodes /\ data[wfp] \in Seq(Parts)
          /\ data' = [data EXCEPT ![wfp] = data'[wfp]]
          /\ data'[wfp] = data[wfp] \o parts
      BY <1>5, PutEffect
    <2>2. Grown(data[wfp], data[wfp] \o parts, rec)
      BY <1>5, <2>1, ConcatGrown
    <2> QED
      BY <1>5, <2>1, <2>2 DEF Appends
  <1>6. CASE Write
    <2>1. \A j \in 1 .. Len(<< <<rec, "head">>, <<rec, "tail">> >>) :
            << <<rec, "head">>, <<rec, "tail">> >>[j][1] = rec
      OBVIOUS
    <2> QED
      BY <1>5, <1>6, <2>1, LineParts DEF Write, Done
  <1>7. CASE WriteHead
    <2>1. \A j \in 1 .. Len(<< <<rec, "head">> >>) : << <<rec, "head">> >>[j][1] = rec
      OBVIOUS
    <2> QED
      BY <1>5, <1>7, <2>1, LineParts DEF WriteHead
  <1>8. CASE WriteTail
    <2>1. \A j \in 1 .. Len(<< <<rec, "tail">> >>) : << <<rec, "tail">> >>[j][1] = rec
      OBVIOUS
    <2> QED
      BY <1>5, <1>8, <2>1, LineParts DEF WriteTail, Done
  <1> QED
    BY <1>1, <1>2, <1>3, <1>6, <1>7, <1>8 DEF WriterStep

\* Midnight may have passed a file that is created.
LEMMA CreatedLate ==
  ASSUME TypeOK, WriterAt, Note, NEW p \in Paths, NEW i \in Unused, Creates(p, i)
  PROVE  Day(p) = today \/ Day(p) \in late' \/ ~ Cleans
  <1>1. Day(p) \in 0 .. MaxDay /\ Day(p) <= today /\ today \in Nat
    BY PathParts DEF TypeOK, SpoolTypeOK, WriterAt, Creates
  <1> QED
    BY <1>1 DEF Note, Overtaken, Creates

LEMMA UploaderEffect ==
  ASSUME TypeOK, UploaderStep
  PROVE  /\ today' = today
         /\ \/ UNCHANGED <<dir, data>>
            \/ Removes(path)
            \/ Truncate
  <1>1. CASE Delete
    BY <1>1 DEF Delete, Removes
  <1>2. CASE Truncate
    BY <1>2 DEF Truncate
  <1>3. CASE ~ Delete /\ ~ Truncate
    BY <1>3 DEF UploaderStep, BeginPass, NextFile, EndPass, Stat, Read, FileMissing,
           Insert, Refused, LostAck, BatchesDone, Check, UploaderKilled, spoolVars
  <1> QED
    BY <1>1, <1>2, <1>3

LEMMA ArchiverEffect ==
  ASSUME TypeOK, ArchiverStep
  PROVE  /\ today' = today
         /\ UNCHANGED <<dir, data>> \/ Removes(apath)
  BY DEF ArchiverStep, BeginArchive, ListFiles, Compress, Unlink, CompressFails, Expire, spoolVars,
         Removes

LEMMA DirectoryStep ==
  ASSUME TypeOK, WriterAt, [Next]_pipelineVars
  PROVE  /\ today' \in {today, today + 1} /\ today \in Nat
         /\ rec' \in {rec, rec + 1} /\ rec \in Nat
         /\ exposed \subseteq exposed' /\ late \subseteq late'
         /\ \/ UNCHANGED <<dir, data>>
            \/ /\ today' = today /\ rec' = rec
               /\ \E p \in Paths, i \in Unused :
                    /\ Creates(p, i)
                    /\ Day(p) = today \/ Day(p) \in late' \/ ~ Cleans
            \/ today' = today /\ Appends
            \/ today' = today /\ rec' = rec /\ \E p \in Paths : Removes(p)
            \/ today' = today /\ rec' = rec /\ Truncate
  <1>1. today \in Nat /\ rec \in Nat /\ path \in Paths /\ apath \in Paths
    BY DEF TypeOK, SpoolTypeOK, WriterTypeOK, UploaderTypeOK, ArchiverTypeOK
  <1>2. CASE WriterStep /\ UNCHANGED <<uploaderVars, archiverVars>> /\ Note
    <2>1. CASE UNCHANGED <<dir, data>> \/ Appends
      BY <1>1, <1>2, <2>1, WriterEffect, ExposedStep
    <2>2. ASSUME NEW p \in Paths, NEW i \in Unused, Creates(p, i)
          PROVE  /\ rec' = rec
                 /\ Day(p) = today \/ Day(p) \in late' \/ ~ Cleans
      BY <1>2, <2>2, CreatedLate DEF Creates
    <2> QED
      BY <1>1, <1>2, <2>1, <2>2, WriterEffect, ExposedStep
  <1>3. CASE UploaderStep /\ UNCHANGED <<writerVars, archiverVars>> /\ Note
    BY <1>1, <1>3, UploaderEffect, ExposedStep DEF writerVars
  <1>4. CASE ArchiverStep /\ UNCHANGED <<writerVars, uploaderVars>> /\ Note
    BY <1>1, <1>4, ArchiverEffect, ExposedStep DEF writerVars
  <1>5. CASE Midnight /\ UNCHANGED <<writerVars, uploaderVars, archiverVars>> /\ Note
    BY <1>1, <1>5, ExposedStep DEF Midnight, writerVars
  <1>6. CASE UNCHANGED pipelineVars
    BY <1>1, <1>6 DEF pipelineVars, spoolVars, writerVars
  <1> QED
    BY <1>2, <1>3, <1>4, <1>5, <1>6 DEF Next

-----------------------------------------------------------------------------
(* Names *)

\* Who is about to remove a file: not one of today's plain files, unless today
\* is late.
LEMMA RemovedIsPast ==
  ASSUME TypeOK, PassAt, ArchiverAt, NamesOfPast, NEW p \in Paths, Removes(p)
  PROVE  /\ Cleans
         /\ \/ Day(p) < today
            \/ MaxSize # 0 /\ Delete /\ p = path
            \/ Unlink /\ p = apath /\ Day(p) \in late
  <1>1. CASE Delete /\ p = path
    <2>1. upc = "delete" /\ Exists(p)
      BY <1>1 DEF Delete
    <2> QED
      BY <1>1, <2>1 DEF PassAt, NamesOfPast, Cleans
  <1>2. CASE Unlink /\ p = apath
    <2>1. apc = "unlink"
      BY <1>2 DEF Unlink
    <2> QED
      BY <1>2, <2>1 DEF ArchiverAt, Cleans
  <1> QED
    BY <1>1, <1>2 DEF Removes

LEMMA NamesStep ==
  ASSUME TypeOK, WriterAt, NamesApart, NamesOfPast, [Next]_pipelineVars
  PROVE  NamesApart' /\ NamesOfPast'
  <1>0. dir \in [Paths -> Inodes \union {NoInode}] /\ today \in Nat
    BY DEF TypeOK, SpoolTypeOK
  <1>1. today' \in {today, today + 1}
    BY DirectoryStep
  <1>2. \A p \in Paths : Day(p) \in Nat
    BY PathParts
  <1>3. CASE UNCHANGED dir
    BY <1>0, <1>1, <1>2, <1>3 DEF NamesApart, NamesOfPast, Exists
  <1>4. ASSUME NEW p \in Paths, NEW i \in Unused, Creates(p, i), today' = today
        PROVE  NamesApart' /\ NamesOfPast'
    <2>1. \A q \in Paths : dir[q] # i
      BY <1>4 DEF Unused
    <2>2. \A q \in Paths : dir'[q] = IF q = p THEN i ELSE dir[q]
      BY <1>0, <1>4 DEF Creates
    <2>3. NamesApart'
      BY <2>1, <2>2 DEF NamesApart, Exists
    <2>4. NamesOfPast'
      BY <1>2, <1>4, <2>2, <1>0 DEF NamesOfPast, Exists, Creates, WriterAt
    <2> QED
      BY <2>3, <2>4
  <1>5. ASSUME NEW p \in Paths, Removes(p), today' = today
        PROVE  NamesApart' /\ NamesOfPast'
    <2>1. \A q \in Paths : dir'[q] = IF q = p THEN NoInode ELSE dir[q]
      BY <1>0, <1>5 DEF Removes
    <2> QED
      BY <1>5, <2>1 DEF NamesApart, NamesOfPast, Exists
  <1>6. CASE Truncate
    BY <1>3, <1>6 DEF Truncate
  <1> QED
    BY <1>3, <1>4, <1>5, <1>6, DirectoryStep DEF Appends

LEMMA PassStep ==
  ASSUME TypeOK, NamesOfPast, PassAt, [Next]_pipelineVars
  PROVE  PassAt'
  <1>0. today \in Nat /\ path \in Paths /\ Day(path) \in Nat /\ batches \in 0 .. MaxBatches
        /\ DeleteSent \in BOOLEAN /\ TruncateSent \in BOOLEAN
    BY PathParts DEF TypeOK, SpoolTypeOK, UploaderTypeOK
  <1>1. today' \in {today, today + 1}
    BY <1>0 DEF Next, WriterStep, ReadDay, NextIndex, Keep, Close, OpenOld, OpenNew,
           OpenFails, Write, WriteHead, WriteTail, AgentStops, UploaderStep, BeginPass, NextFile, EndPass, Stat, Read,
           FileMissing, Insert, Refused, LostAck, BatchesDone, Check, Delete, Truncate,
           UploaderKilled, ArchiverStep, BeginArchive, ListFiles, Compress, Unlink,
           CompressFails, Expire, Midnight, spoolVars, pipelineVars
  <1>2. CASE UNCHANGED uploaderVars
    BY <1>0, <1>1, <1>2 DEF PassAt, uploaderVars, passVars
  <1>3. CASE Stat
    BY <1>3 DEF Stat, PassAt, Exists
  <1>4. CASE Check
    <2>1. upc' = "delete" => Exists(path) /\ MayDelete
      BY <1>4 DEF Check, SentExactly
    <2>2. upc' = "truncate" => MayTruncate
      BY <1>4 DEF Check
    <2>3. today' = today /\ path' = path /\ upc' \in {"delete", "truncate", "next"}
      BY <1>4 DEF Check, spoolVars, passVars
    <2> QED
      BY <1>0, <2>1, <2>2, <2>3 DEF PassAt, MayDelete, MayTruncate, NamesOfPast
  <1>5. CASE Read
    BY <1>5 DEF Read, PassAt
  <1>6. CASE Refused \/ LostAck
    BY <1>6 DEF Refused, LostAck, RetryOrRaise, Abort, Forgotten, PassAt
  <1>7. CASE BeginPass \/ NextFile \/ EndPass \/ FileMissing \/ Insert \/ BatchesDone
             \/ Delete \/ Truncate \/ UploaderKilled
    <2>1. upc' \notin {"read", "insert", "delete", "truncate"}
      BY <1>7 DEF BeginPass, NextFile, EndPass, FileMissing, Abort, Forgotten, Insert,
             BatchesDone, Delete, Truncate, UploaderKilled
    <2> QED
      BY <2>1 DEF PassAt
  <1> QED
    BY <1>2, <1>3, <1>4, <1>5, <1>6, <1>7
       DEF Next, UploaderStep, pipelineVars

LEMMA OpensOwn ==
  ASSUME TypeOK, WriterAt, OpenOld \/ OpenNew
  PROVE  /\ wfp' \in Inodes /\ dir'[wpath'] = wfp' /\ wpath' = aim /\ today' = today
         /\ wpc' = IF starting THEN "ready" ELSE "rotated"
         /\ aim' = <<0, 0>> /\ starting' = FALSE /\ rec' = rec /\ wpc = "open"
  <1>1. CASE OpenOld
    BY <1>1, ContentOf DEF OpenOld, Rotated, TypeOK, WriterTypeOK, spoolVars
  <1>2. CASE OpenNew
    <2>1. PICK i \in Unused : wfp' = i /\ dir' = [dir EXCEPT ![aim] = i]
      BY <1>2 DEF OpenNew
    <2> QED
      BY <1>2, <2>1 DEF OpenNew, Rotated, Unused, TypeOK, SpoolTypeOK, WriterTypeOK
  <1> QED
    BY <1>1, <1>2

LEMMA OpenByNameStep ==
  ASSUME TypeOK, WriterAt, OpenByName, NamesApart', [Next]_pipelineVars
  PROVE  OpenByName'
  <1> SUFFICES ASSUME NEW p \in Paths, wfp' # NoInode, dir'[p] = wfp'
               PROVE  p = wpath'
    BY DEF OpenByName
  <1>0. /\ dir \in [Paths -> Inodes \union {NoInode}]
        /\ aim \in Paths /\ path \in Paths /\ apath \in Paths
    BY DEF TypeOK, SpoolTypeOK, WriterTypeOK, UploaderTypeOK, ArchiverTypeOK
  <1>1. CASE OpenOld \/ OpenNew
    <2>1. dir'[wpath'] = wfp' /\ wpath' \in Paths
      BY <1>0, <1>1, OpensOwn
    <2> QED
      BY <2>1 DEF NamesApart, Exists
  <1>2. CASE wfp' = wfp /\ wpath' = wpath /\ dir'[p] \in {dir[p], NoInode}
    BY <1>2 DEF OpenByName
  <1>3. CASE WriterStep /\ ~ OpenOld /\ ~ OpenNew
    <2>1. dir' = dir /\ wfp' \in {wfp, NoInode} /\ wpath' = wpath
      BY <1>3 DEF WriterStep, ReadDay, NextIndex, Keep, Close, OpenFails, Write, WriteHead,
             WriteTail, Done, AgentStops, spoolVars
    <2> QED
      BY <1>2, <2>1
  <1>4. CASE UNCHANGED writerVars
    <2>1. wfp' = wfp /\ wpath' = wpath
      BY <1>4 DEF writerVars
    <2>2. CASE UploaderStep
      BY <1>0, <1>2, <2>1, <2>2, UploaderEffect DEF Removes, Truncate
    <2>3. CASE ArchiverStep
      BY <1>0, <1>2, <2>1, <2>3, ArchiverEffect DEF Removes
    <2>4. CASE dir' = dir
      BY <1>2, <2>1, <2>4
    <2>5. Midnight \/ UNCHANGED pipelineVars => dir' = dir
      BY DEF Midnight, pipelineVars, spoolVars
    <2>6. CASE WriterStep /\ ~ OpenOld /\ ~ OpenNew
      BY <1>3, <2>6
    <2> QED
      BY <1>1, <2>2, <2>3, <2>4, <2>5, <2>6 DEF Next
  <1> QED
    BY <1>1, <1>3, <1>4 DEF Next, pipelineVars

LEMMA WriterPlaceStep ==
  ASSUME TypeOK, WriterAt, NamesOfPast, PassAt, ArchiverAt, [Next]_pipelineVars
  PROVE  WriterAt'
  <1>0. /\ today \in Nat /\ today' \in {today, today + 1} /\ late \subseteq late'
        /\ rec \in 1 .. MaxRecords + 1 /\ wpath \in Paths /\ Day(wpath) \in Nat
        /\ aim \in Paths /\ Day(aim) \in Nat /\ starting \in BOOLEAN
        /\ dir \in [Paths -> Inodes \union {NoInode}]
        /\ wfp \in Inodes \union {NoInode}
    BY DirectoryStep, PathParts DEF TypeOK, SpoolTypeOK, WriterTypeOK
  <1>00. /\ Day(<<0, 0>>) = 0 /\ Index(<<0, 0>>) = 0
         /\ Day(<<today, 0>>) = today /\ Index(<<today, 0>>) = 0
    BY DEF Day, Index
  <1>1. CASE UNCHANGED <<wpc, rec, wfp, wpath, aim, starting, dir>>
    BY <1>0, <1>1 DEF WriterAt
  <1>2. ASSUME NEW p \in Paths, Removes(p),
               UNCHANGED <<wpc, rec, wfp, wpath, aim, starting, today>>
        PROVE  WriterAt'
    <2>1. Cleans /\ (Day(p) < today \/ MaxSize # 0 \/ Day(p) \in late)
      BY <1>2, RemovedIsPast
    <2>2. dir' = [dir EXCEPT ![p] = NoInode]
      BY <1>2 DEF Removes
    <2> QED
      BY <1>0, <1>2, <2>1, <2>2 DEF WriterAt
  <1>3. CASE OpenOld \/ OpenNew
    <2>1. /\ wfp' \in Inodes /\ dir'[wpath'] = wfp' /\ wpath' = aim /\ today' = today
          /\ wpc' = IF starting THEN "ready" ELSE "rotated"
          /\ aim' = <<0, 0>> /\ starting' = FALSE /\ rec' = rec /\ wpc = "open"
      BY <1>3, OpensOwn
    <2>2. Day(aim) <= today /\ (starting \/ rec <= MaxRecords)
      BY <2>1 DEF WriterAt
    <2> QED
      BY <1>0, <1>00, <2>1, <2>2, NoSuchInode DEF WriterAt
  <1>4. CASE ReadDay \/ NextIndex
    <2>1. CASE ReadDay
      <3>1. /\ wpc' = "choose" /\ aim' = <<today, 0>> /\ (starting' \/ rec <= MaxRecords)
            /\ UNCHANGED <<today, dir, wfp, wpath, rec>>
            /\ (starting' => wfp = NoInode)
        BY <2>1 DEF ReadDay, WriterAt, spoolVars
      <3> QED
        BY <1>0, <1>00, <3>1 DEF WriterAt
    <2>2. CASE NextIndex
      <3>1. Day(<<Day(aim), Index(aim) + 1>>) = Day(aim)
        BY DEF Day
      <3> QED
        BY <1>0, <2>2, <3>1 DEF NextIndex, WriterAt, spoolVars
    <2> QED
      BY <1>4, <2>1, <2>2
  <1>5. CASE Keep
    <2>1. /\ wpc = "choose" /\ wfp # NoInode /\ wpath = aim /\ wpc' = "rotated"
          /\ UNCHANGED <<today, dir, wfp, wpath, rec>> /\ aim' = <<0, 0>>
          /\ starting' = FALSE
      BY <1>5 DEF Keep, Chosen, Keeps, WriterAt, spoolVars
    <2>2. rec <= MaxRecords
      BY <2>1 DEF WriterAt
    <2> QED
      BY <1>0, <1>00, <2>1, <2>2 DEF WriterAt
  <1>6. CASE Close \/ OpenFails \/ AgentStops
    <2>1. CASE Close
      <3>1. /\ wpc = "choose" /\ wpc' = "open" /\ wfp' = NoInode
            /\ UNCHANGED <<today, dir, wpath, aim, starting, rec>>
        BY <2>1 DEF Close, Chosen, spoolVars
      <3> QED
        BY <1>0, <3>1 DEF WriterAt
    <2>2. CASE OpenFails \/ AgentStops
      <3>1. /\ wpc' \in {"off", "ready"} /\ wfp' = NoInode /\ aim' = <<0, 0>>
            /\ starting' = FALSE /\ UNCHANGED <<today, dir, wpath>>
        BY <2>2 DEF OpenFails, AgentStops, WriterAt, spoolVars
      <3> QED
        BY <1>0, <1>00, <3>1 DEF WriterAt
    <2> QED
      BY <1>6, <2>1, <2>2
  <1>7. CASE Write \/ WriteHead \/ WriteTail
    BY <1>0, <1>7 DEF Write, WriteHead, WriteTail, Done, WriterAt
  <1>8. CASE WriterStep
    BY <1>3, <1>4, <1>5, <1>6, <1>7, <1>8 DEF WriterStep
  <1>9. CASE UNCHANGED writerVars /\ (UploaderStep \/ ArchiverStep)
    <2>1. /\ UNCHANGED <<wpc, rec, wfp, wpath, aim, starting>>
          /\ path \in Paths /\ apath \in Paths
      BY <1>9 DEF writerVars, TypeOK, UploaderTypeOK, ArchiverTypeOK
    <2>2. CASE Truncate
      BY <1>1, <2>1, <2>2 DEF Truncate
    <2> QED
      BY <1>1, <1>2, <1>9, <2>1, <2>2, UploaderEffect, ArchiverEffect
  <1>10. CASE Midnight /\ UNCHANGED writerVars
    BY <1>1, <1>10 DEF Midnight, writerVars
  <1>11. CASE UNCHANGED pipelineVars
    BY <1>1, <1>11 DEF pipelineVars, spoolVars, writerVars
  <1> QED
    BY <1>8, <1>9, <1>10, <1>11 DEF Next

-----------------------------------------------------------------------------
(* Content and sizes *)

LEMMA ConcatAt ==
  ASSUME NEW c \in Seq(Parts), NEW e \in Seq(Parts)
  PROVE  /\ c \o e \in Seq(Parts)
         /\ Len(c) \in Nat /\ Len(c \o e) = Len(c) + Len(e)
         /\ \A j \in 1 .. Len(c) : (c \o e)[j] = c[j]
         /\ \A j \in 1 .. Len(e) : (c \o e)[Len(c) + j] = e[j]
  <1>1. /\ c \o e \in Seq(Parts)
        /\ Len(c \o e) = Len(c) + Len(e)
        /\ \A j \in 1 .. Len(c) + Len(e) :
             (c \o e)[j] = IF j <= Len(c) THEN c[j] ELSE e[j - Len(c)]
    BY ConcatProperties
  <1>2. Len(c) \in Nat /\ Len(e) \in Nat
    BY PartsOfFile
  <1> QED
    BY <1>1, <1>2

LEMMA WriteEffect ==
  ASSUME TypeOK, WriterAt, Write
  PROVE  /\ wfp \in Inodes /\ data[wfp] \in Seq(Parts) /\ data'[wfp] \in Seq(Parts)
         /\ \A i \in Inodes \ {wfp} : data'[i] = data[i]
         /\ Len(data[wfp]) \in Nat /\ Len(data'[wfp]) = Len(data[wfp]) + 2
         /\ \A j \in 1 .. Len(data[wfp]) : data'[wfp][j] = data[wfp][j]
         /\ data'[wfp][Len(data[wfp]) + 1] = <<rec, "head">>
         /\ data'[wfp][Len(data[wfp]) + 2] = <<rec, "tail">>
  <1> DEFINE e == << <<rec, "head">>, <<rec, "tail">> >>
  <1>1. Put(e) /\ wpc \in {"rotated", "half"}
    BY DEF Write
  <1>2. e \in Seq(Parts)
    BY <1>1, LineParts
  <1>3. Len(e) = 2 /\ e[1] = <<rec, "head">> /\ e[2] = <<rec, "tail">>
    OBVIOUS
  <1> HIDE DEF e
  <1>4. /\ wfp \in Inodes /\ data[wfp] \in Seq(Parts)
        /\ data' = [data EXCEPT ![wfp] = data'[wfp]]
        /\ data'[wfp] = data[wfp] \o e
    BY <1>1, <1>2, PutEffect
  <1>5. /\ data[wfp] \o e \in Seq(Parts)
        /\ Len(data[wfp]) \in Nat /\ Len(data[wfp] \o e) = Len(data[wfp]) + 2
        /\ \A j \in 1 .. Len(data[wfp]) : (data[wfp] \o e)[j] = data[wfp][j]
        /\ (data[wfp] \o e)[Len(data[wfp]) + 1] = <<rec, "head">>
        /\ (data[wfp] \o e)[Len(data[wfp]) + 2] = <<rec, "tail">>
    <2>1. /\ data[wfp] \o e \in Seq(Parts)
          /\ Len(data[wfp]) \in Nat /\ Len(data[wfp] \o e) = Len(data[wfp]) + Len(e)
          /\ \A j \in 1 .. Len(data[wfp]) : (data[wfp] \o e)[j] = data[wfp][j]
          /\ \A j \in 1 .. Len(e) : (data[wfp] \o e)[Len(data[wfp]) + j] = e[j]
      BY <1>2, <1>4, ConcatAt
    <2> QED
      BY <1>3, <2>1
  <1>6. data \in [Inodes -> Seq(Parts)]
    BY DEF TypeOK, SpoolTypeOK
  <1> QED
    BY <1>4, <1>5, <1>6

LEMMA WritePartEffect ==
  ASSUME TypeOK, WriterAt, wpc \in {"rotated", "half"}, NEW k \in {"head", "tail"},
         Put(<< <<rec, k>> >>)
  PROVE  /\ wfp \in Inodes /\ data[wfp] \in Seq(Parts) /\ data'[wfp] \in Seq(Parts)
         /\ \A i \in Inodes \ {wfp} : data'[i] = data[i]
         /\ Len(data[wfp]) \in Nat /\ Len(data'[wfp]) = Len(data[wfp]) + 1
         /\ \A j \in 1 .. Len(data[wfp]) : data'[wfp][j] = data[wfp][j]
         /\ data'[wfp][Len(data[wfp]) + 1] = <<rec, k>>
  <1> DEFINE e == << <<rec, k>> >>
  <1>1. e \in Seq(Parts)
    BY LineParts
  <1>2. Len(e) = 1 /\ e[1] = <<rec, k>>
    OBVIOUS
  <1> HIDE DEF e
  <1>3. Put(e)
    BY DEF e
  <1>4. /\ wfp \in Inodes /\ data[wfp] \in Seq(Parts)
        /\ data' = [data EXCEPT ![wfp] = data'[wfp]]
        /\ data'[wfp] = data[wfp] \o e
    BY <1>1, <1>3, PutEffect
  <1>5. /\ data[wfp] \o e \in Seq(Parts)
        /\ Len(data[wfp]) \in Nat /\ Len(data[wfp] \o e) = Len(data[wfp]) + 1
        /\ \A j \in 1 .. Len(data[wfp]) : (data[wfp] \o e)[j] = data[wfp][j]
        /\ (data[wfp] \o e)[Len(data[wfp]) + 1] = <<rec, k>>
    BY <1>1, <1>2, <1>4, ConcatAt
  <1>6. data \in [Inodes -> Seq(Parts)]
    BY DEF TypeOK, SpoolTypeOK
  <1> QED
    BY <1>4, <1>5, <1>6

\* The parts of a line: while nothing is written, all files keep theirs or lose
\* them together, and the writer is not in the middle of one.
LEMMA NothingWritten ==
  ASSUME TypeOK, WriterAt, [Next]_pipelineVars, ~ Write, ~ WriteHead, ~ WriteTail
  PROVE  /\ \A i \in Inodes : data'[i] = data[i] \/ data'[i] = <<>>
         /\ \/ UNCHANGED <<wpc, wfp, rec, aim>>
            \/ wpc' \in {"off", "ready", "choose", "open"} /\ rec' \in {rec, rec + 1}
            \/ (Keep \/ OpenOld \/ OpenNew) /\ wpc' = "rotated" /\ rec' = rec
  <1>1. ASSUME NEW p \in Paths, NEW i \in Unused, Creates(p, i)
        PROVE  \A k \in Inodes : data'[k] = data[k] \/ data'[k] = <<>>
    BY <1>1 DEF Creates, TypeOK, SpoolTypeOK
  <1>2. CASE WriterStep
    <2>1. \/ wpc' \in {"off", "ready", "choose", "open"} /\ rec' \in {rec, rec + 1}
          \/ (Keep \/ OpenOld \/ OpenNew) /\ wpc' = "rotated" /\ rec' = rec
      BY <1>2 DEF WriterStep, ReadDay, NextIndex, Keep, Chosen, Close, OpenOld, OpenNew,
             Rotated, OpenFails, AgentStops
    <2>2. UNCHANGED data \/ \E p \in Paths, i \in Unused : Creates(p, i)
      <3>1. CASE OpenNew
        BY <3>1 DEF OpenNew, Rotated, Creates, WriterAt, TypeOK, WriterTypeOK
      <3>2. CASE ~ OpenNew
        BY <1>2, <3>2 DEF WriterStep, ReadDay, NextIndex, Keep, Close, OpenOld, OpenFails,
               AgentStops, spoolVars
      <3> QED
        BY <3>1, <3>2
    <2> QED
      BY <1>1, <2>1, <2>2
  <1>3. CASE UNCHANGED writerVars /\ (UploaderStep \/ ArchiverStep \/ Midnight)
    <2>1. CASE Truncate
      BY <1>3, <2>1 DEF Truncate, TypeOK, SpoolTypeOK, writerVars
    <2> QED
      BY <1>3, <2>1, UploaderEffect, ArchiverEffect
         DEF Removes, Midnight, TypeOK, writerVars
  <1>4. CASE UNCHANGED pipelineVars
    BY <1>4 DEF pipelineVars, spoolVars, writerVars
  <1> QED
    BY <1>2, <1>3, <1>4 DEF Next

LEMMA PartsStep ==
  ASSUME TypeOK, TypeOK', WriterAt, PartsOfPast, [Next]_pipelineVars
  PROVE  PartsOfPast'
  <1> SUFFICES ASSUME NEW f \in Inodes, NEW n \in DOMAIN data'[f]
               PROVE  \/ data'[f][n][1] < rec'
                      \/ wpc' = "half" /\ f = wfp' /\ data'[f][n] = <<rec', "head">>
    BY DEF PartsOfPast
  <1>00. rec \in Nat /\ data \in [Inodes -> Seq(Parts)] /\ Records \subseteq Nat
    BY DEF TypeOK, SpoolTypeOK, WriterTypeOK, Records
  <1>0. /\ rec \in Nat /\ data \in [Inodes -> Seq(Parts)]
        /\ \A i \in Inodes : /\ Len(data[i]) \in Nat /\ DOMAIN data[i] = 1 .. Len(data[i])
                             /\ \A j \in 1 .. Len(data[i]) : data[i][j][1] \in Nat
    BY <1>00, PartsOfFile
  <1>1. n \in 1 .. Len(data'[f])
    BY PartsOfFile DEF TypeOK, SpoolTypeOK
  <1>2. CASE ~ Write /\ ~ WriteHead /\ ~ WriteTail
    <2>1. /\ \A i \in Inodes : data'[i] = data[i] \/ data'[i] = <<>>
          /\ \/ UNCHANGED <<wpc, wfp, rec, aim>>
             \/ wpc' \in {"off", "ready", "choose", "open"} /\ rec' \in {rec, rec + 1}
             \/ (Keep \/ OpenOld \/ OpenNew) /\ wpc' = "rotated" /\ rec' = rec
      BY <1>2, NothingWritten
    <2>2. wpc = "half" /\ ~ UNCHANGED <<wpc, wfp, rec>> => rec' = rec + 1
      BY <1>2 DEF Next, WriterStep, ReadDay, NextIndex, Keep, Close, Chosen, OpenOld,
             OpenNew, OpenFails, AgentStops, WriterAt, writerVars, pipelineVars
    <2>3. wpc = "half" => ~ Keep /\ ~ OpenOld /\ ~ OpenNew
      BY DEF Keep, Chosen, OpenOld, OpenNew
    <2> QED
      BY <1>0, <1>1, <2>1, <2>2, <2>3 DEF PartsOfPast
  <1>3. CASE Write
    <2>1. wpc = "rotated" /\ rec' = rec + 1 /\ wpc' = "ready"
      BY <1>3 DEF Write, Done
    <2>2. /\ wfp \in Inodes /\ \A i \in Inodes \ {wfp} : data'[i] = data[i]
          /\ Len(data[wfp]) \in Nat /\ Len(data'[wfp]) = Len(data[wfp]) + 2
          /\ \A j \in 1 .. Len(data[wfp]) : data'[wfp][j] = data[wfp][j]
          /\ data'[wfp][Len(data[wfp]) + 1] = <<rec, "head">>
          /\ data'[wfp][Len(data[wfp]) + 2] = <<rec, "tail">>
      BY <1>3, WriteEffect
    <2>3. \/ n \in 1 .. Len(data[f]) /\ data'[f][n] = data[f][n]
          \/ data'[f][n] = <<rec, "head">> \/ data'[f][n] = <<rec, "tail">>
      BY <1>0, <1>1, <2>2
    <2> QED
      BY <1>0, <2>1, <2>3 DEF PartsOfPast
  <1>4. CASE WriteHead
    <2>1. wpc = "rotated" /\ rec' = rec /\ wpc' = "half" /\ wfp' = wfp
          /\ Put(<< <<rec, "head">> >>)
      BY <1>4 DEF WriteHead
    <2>2. /\ wfp \in Inodes /\ \A i \in Inodes \ {wfp} : data'[i] = data[i]
          /\ Len(data[wfp]) \in Nat /\ Len(data'[wfp]) = Len(data[wfp]) + 1
          /\ \A j \in 1 .. Len(data[wfp]) : data'[wfp][j] = data[wfp][j]
          /\ data'[wfp][Len(data[wfp]) + 1] = <<rec, "head">>
      BY <2>1, WritePartEffect
    <2>3. \/ n \in 1 .. Len(data[f]) /\ data'[f][n] = data[f][n]
          \/ f = wfp /\ data'[f][n] = <<rec, "head">>
      BY <1>0, <1>1, <2>2
    <2> QED
      BY <1>0, <2>1, <2>3 DEF PartsOfPast
  <1>5. CASE WriteTail
    <2>1. wpc = "half" /\ rec' = rec + 1 /\ wpc' = "ready" /\ Put(<< <<rec, "tail">> >>)
      BY <1>5 DEF WriteTail, Done
    <2>2. /\ wfp \in Inodes /\ \A i \in Inodes \ {wfp} : data'[i] = data[i]
          /\ Len(data[wfp]) \in Nat /\ Len(data'[wfp]) = Len(data[wfp]) + 1
          /\ \A j \in 1 .. Len(data[wfp]) : data'[wfp][j] = data[wfp][j]
          /\ data'[wfp][Len(data[wfp]) + 1] = <<rec, "tail">>
      BY <2>1, WritePartEffect
    <2>3. \/ n \in 1 .. Len(data[f]) /\ data'[f][n] = data[f][n]
          \/ f = wfp /\ data'[f][n] = <<rec, "tail">>
      BY <1>0, <1>1, <2>2
    <2> QED
      BY <1>0, <2>1, <2>3 DEF PartsOfPast
  <1> QED
    BY <1>2, <1>3, <1>4, <1>5

LEMMA RoomStays ==
  ASSUME TypeOK, WriterAt, [Next]_pipelineVars, wpc = "open", wpc' = "open", aim' = aim,
         Room(aim)
  PROVE  Room(aim)'
  <1>0. /\ aim \in Paths /\ MaxSize \in Nat /\ data \in [Inodes -> Seq(Parts)]
        /\ dir \in [Paths -> Inodes \union {NoInode}]
        /\ ~ Write /\ ~ WriteHead /\ ~ WriteTail
    BY DEF TypeOK, SpoolTypeOK, WriterTypeOK, Write, WriteHead, WriteTail
  <1>1. dir'[aim] \in {dir[aim], NoInode}
    BY <1>0, DirectoryStep DEF Creates, Appends, Removes, Truncate
  <1>2. \A i \in Inodes : data'[i] = data[i] \/ data'[i] = <<>>
    BY <1>0, NothingWritten
  <1>3. Len(<<>>) = 0
    BY EmptySeq
  <1>4. (IF dir[aim] # NoInode THEN Len(data[dir[aim]]) ELSE 0) < MaxSize
    BY DEF Room, Size, Exists
  <1>5. CASE dir'[aim] = NoInode
    BY <1>0, <1>4, <1>5, ContentOf DEF Room, Size, Exists, TypeOK
  <1>6. CASE dir'[aim] # NoInode
    <2>1. dir'[aim] = dir[aim] /\ dir[aim] \in Inodes
      BY <1>0, <1>1, <1>6
    <2>2. Len(data'[dir'[aim]]) < MaxSize
      BY <1>0, <1>2, <1>3, <1>4, <1>6, <2>1, PartsOfFile
    <2> QED
      BY <2>2 DEF Room, Size, Exists
  <1> QED
    BY <1>5, <1>6

LEMMA SizesStep ==
  ASSUME TypeOK, TypeOK', WriterAt, SizesBounded, [Next]_pipelineVars
  PROVE  SizesBounded'
  <1> SUFFICES ASSUME MaxSize > 0
               PROVE  /\ \A i \in Inodes : Len(data'[i]) <= MaxSize + 1
                      /\ wpc' = "open" => Room(aim)'
                      /\ wpc' = "rotated" => Len(data'[wfp']) < MaxSize
                      /\ wpc' = "half" => Len(data'[wfp']) <= MaxSize
    BY DEF SizesBounded
  <1>0. /\ \A i \in Inodes : Len(data[i]) <= MaxSize + 1 /\ Len(data[i]) \in Nat
        /\ wpc = "open" => Room(aim)
        /\ wpc = "rotated" => Len(data[wfp]) < MaxSize
        /\ wpc = "half" => Len(data[wfp]) <= MaxSize
        /\ wpc \in {"rotated", "half"} => wfp \in Inodes
    BY PartsOfFile DEF SizesBounded, TypeOK, SpoolTypeOK, WriterTypeOK, WriterAt
  <1>1. CASE ~ Write /\ ~ WriteHead /\ ~ WriteTail
    <2>1. /\ \A i \in Inodes : data'[i] = data[i] \/ data'[i] = <<>>
          /\ \/ UNCHANGED <<wpc, wfp, rec, aim>>
             \/ wpc' \in {"off", "ready", "choose", "open"} /\ rec' \in {rec, rec + 1}
             \/ (Keep \/ OpenOld \/ OpenNew) /\ wpc' = "rotated" /\ rec' = rec
      BY <1>1, NothingWritten
    <2>2. ASSUME Keep \/ OpenOld \/ OpenNew
          PROVE  Len(data'[wfp']) < MaxSize
      <3>1. aim \in Paths /\ data \in [Inodes -> Seq(Parts)]
        BY DEF TypeOK, SpoolTypeOK, WriterTypeOK
      <3>2. CASE Keep
        <4>1. Exists(aim) /\ Room(aim) /\ wfp # NoInode /\ wpath = aim
          BY <3>2 DEF Keep, Keeps
        <4>2. dir[aim] = wfp
          BY <4>1 DEF WriterAt, Exists
        <4> QED
          BY <3>2, <4>1, <4>2 DEF Keep, Room, Size, spoolVars
      <3>3. CASE OpenOld
        <4>1. Exists(aim) /\ Room(aim) /\ wfp' = dir[aim] /\ data' = data
          BY <1>0, <3>3 DEF OpenOld, spoolVars
        <4> QED
          BY <4>1 DEF Room, Size
      <3>4. CASE OpenNew
        <4>1. PICK i \in Unused : wfp' = i /\ data' = [data EXCEPT ![i] = <<>>]
          BY <3>4 DEF OpenNew
        <4>2. i \in Inodes /\ Len(<<>>) = 0
          BY EmptySeq DEF Unused
        <4> QED
          BY <3>1, <4>1, <4>2
      <3> QED
        BY <2>2, <3>2, <3>3, <3>4
    <2>3. ASSUME wpc' = "open"
          PROVE  Room(aim)'
      <3>1. CASE wpc = "open" /\ aim' = aim
        BY <1>0, <2>3, <3>1, RoomStays
      <3>2. CASE Close
        <4>1. Room(aim) /\ UNCHANGED <<spoolVars, aim>>
          BY <3>2 DEF Close, Chosen
        <4> QED
          BY <4>1 DEF Room, Size, Exists, spoolVars
      <3>3. (wpc = "open" /\ aim' = aim) \/ Close
        BY <2>3 DEF Next, WriterStep, ReadDay, NextIndex, Keep, OpenOld, OpenNew, Rotated,
               OpenFails, Write, WriteHead, WriteTail, Done, AgentStops, writerVars,
               pipelineVars
      <3> QED
        BY <3>1, <3>2, <3>3
    <2>4. Len(<<>>) = 0
      BY EmptySeq
    <2> QED
      BY <1>0, <2>1, <2>2, <2>3, <2>4
  <1>2. CASE Write
    <2>1. /\ wfp \in Inodes /\ \A i \in Inodes \ {wfp} : data'[i] = data[i]
          /\ Len(data[wfp]) \in Nat /\ Len(data'[wfp]) = Len(data[wfp]) + 2
      BY <1>2, WriteEffect
    <2> QED
      BY <1>0, <1>2, <2>1 DEF Write, Done
  <1>3. CASE WriteHead
    <2>1. wpc = "rotated" /\ wpc' = "half" /\ wfp' = wfp /\ Put(<< <<rec, "head">> >>)
      BY <1>3 DEF WriteHead
    <2>2. /\ wfp \in Inodes /\ \A i \in Inodes \ {wfp} : data'[i] = data[i]
          /\ Len(data[wfp]) \in Nat /\ Len(data'[wfp]) = Len(data[wfp]) + 1
      BY <2>1, WritePartEffect
    <2> QED
      BY <1>0, <2>1, <2>2
  <1>4. CASE WriteTail
    <2>1. wpc = "half" /\ wpc' = "ready" /\ Put(<< <<rec, "tail">> >>)
      BY <1>4 DEF WriteTail, Done
    <2>2. /\ wfp \in Inodes /\ \A i \in Inodes \ {wfp} : data'[i] = data[i]
          /\ Len(data[wfp]) \in Nat /\ Len(data'[wfp]) = Len(data[wfp]) + 1
      BY <2>1, WritePartEffect
    <2> QED
      BY <1>0, <2>1, <2>2
  <1> QED
    BY <1>1, <1>2, <1>3, <1>4

-----------------------------------------------------------------------------
(* The archive *)

LEMMA PlainPath ==
  ASSUME NEW d \in 0 .. MaxDay
  PROVE  <<d, 0>> \in Paths /\ Day(<<d, 0>>) = d /\ Index(<<d, 0>>) = 0
  BY DEF Paths, Day, Index

LEMMA PlainIs ==
  ASSUME NEW p \in Paths, Index(p) = 0
  PROVE  p = <<Day(p), 0>>
  BY PathParts

LEMMA StillPast ==
  ASSUME NEW d \in Int, NEW a \in Int, NEW b \in Int, NEW r \in Int, d < a - r, a <= b
  PROVE  d < b - r
  OBVIOUS

\* What ArchiverAt says of the archive of day d.
ArchivedOnce(d) ==
  archived[d] # {} =>
    /\ MaxArchives > 0
    /\ \/ d \in late
       \/ d < today /\ (Exists(<<d, 0>>) => apc = "unlink" /\ apath = <<d, 0>>)

\* What it says of the script.
ScriptAt ==
  /\ atoday <= today
  /\ apc # "idle" => MaxArchives > 0
  /\ \A p \in alist : Index(p) = 0 /\ Day(p) # atoday
  /\ apc \in {"idle", "list"} => alist = {}
  /\ apc = "unlink" => Day(apath) < today \/ Day(apath) \in late

LEMMA ArchiverParts == ArchiverAt <=> ScriptAt /\ \A d \in 0 .. MaxDay : ArchivedOnce(d)
  BY DEF ArchiverAt, ScriptAt, ArchivedOnce

LEMMA ArchiverStays ==
  ASSUME FilesInv, UNCHANGED archiverVars, today' \in Nat, today <= today',
         late \subseteq late',
         \A p \in Paths :
           Exists(p)' => Exists(p) \/ Day(p) = today \/ Day(p) \in late' \/ ~ Cleans
  PROVE  ArchiverAt' /\ ArchivesKept'
  <1>0. /\ today \in Nat /\ atoday \in Nat /\ RetentionDays \in Nat /\ alist \subseteq Paths
        /\ apath \in Paths /\ \A p \in Paths : Day(p) \in Nat
    BY PathParts DEF FilesInv, TypeOK, SpoolTypeOK, ArchiverTypeOK
  <1>1. /\ atoday' = atoday /\ alist' = alist /\ apc' = apc /\ apath' = apath
        /\ archived' = archived /\ gz' = gz
    BY DEF archiverVars
  <1>2. ArchivesKept'
    <2>1. \A d \in 0 .. MaxDay :
            archived[d] # gz[d] => d < today - RetentionDays \/ d \in late
      BY DEF ArchivesKept, FilesInv
    <2>2. ASSUME NEW d \in 0 .. MaxDay, archived'[d] # gz'[d], d \notin late'
          PROVE  d < today' - RetentionDays
      <3>1. d \in Int /\ d < today - RetentionDays /\ today <= today' /\ today' \in Nat
        BY <1>0, <1>1, <2>1, <2>2
      <3>2. PICK b \in Nat : b = today'
        BY <3>1
      <3>3. b \in Int /\ today \in Int /\ RetentionDays \in Int
        BY <1>0
      <3>4. d < b - RetentionDays
        BY <3>1, <3>2, <3>3, StillPast, Zenon
      <3> QED
        BY <3>2, <3>4
    <2> QED
      BY <2>2 DEF ArchivesKept
  <1>3. ASSUME NEW d \in 0 .. MaxDay
        PROVE  ArchivedOnce(d)'
    <2>1. ArchivedOnce(d)
      BY ArchiverParts DEF FilesInv
    <2>2. CASE archived[d] = {} \/ d \in late
      BY <1>1, <2>1, <2>2 DEF ArchivedOnce
    <2>3. CASE archived[d] # {} /\ d \notin late
      <3>1. /\ MaxArchives > 0 /\ d < today
            /\ Exists(<<d, 0>>) => apc = "unlink" /\ apath = <<d, 0>>
        BY <2>1, <2>3 DEF ArchivedOnce
      <3>2. d \in late' \/ (Exists(<<d, 0>>)' => Exists(<<d, 0>>))
        BY <1>0, <3>1, PlainPath DEF Cleans
      <3>3. d < today'
        BY <1>0, <3>1
      <3> QED
        BY <1>1, <3>1, <3>2, <3>3 DEF ArchivedOnce
    <2> QED
      BY <2>2, <2>3
  <1>4. ScriptAt'
    <2>1. ScriptAt
      BY ArchiverParts DEF FilesInv
    <2> QED
      BY <1>0, <1>1, <2>1 DEF ScriptAt
  <1>5. ArchiverAt' <=> ScriptAt' /\ \A d \in 0 .. MaxDay : ArchivedOnce(d)'
    BY DEF ArchiverAt, ScriptAt, ArchivedOnce
  <1> QED
    BY <1>2, <1>3, <1>4, <1>5

LEMMA ArchiveStep ==
  ASSUME FilesInv, [Next]_pipelineVars
  PROVE  ArchiverAt' /\ ArchivesKept'
  <1>0. /\ TypeOK /\ WriterAt /\ NamesOfPast /\ ArchivesKept /\ today \in Nat
        /\ dir \in [Paths -> Inodes \union {NoInode}]
        /\ atoday \in 0 .. MaxDay /\ RetentionDays \in Nat /\ alist \subseteq Paths
        /\ apath \in Paths /\ \A p \in Paths : Day(p) \in Nat
        /\ archived \in [0 .. MaxDay -> SUBSET Records]
        /\ gz \in [0 .. MaxDay -> SUBSET Records]
    BY PathParts DEF FilesInv, TypeOK, SpoolTypeOK, ArchiverTypeOK
  <1>00. ScriptAt /\ \A d \in 0 .. MaxDay : ArchivedOnce(d)
    BY ArchiverParts DEF FilesInv
  <1>01. ArchiverAt' <=> ScriptAt' /\ \A d \in 0 .. MaxDay : ArchivedOnce(d)'
    BY DEF ArchiverAt, ScriptAt, ArchivedOnce
  <1>1. /\ today' \in Nat /\ today <= today' /\ late \subseteq late'
        /\ \A p \in Paths :
             Exists(p)' => Exists(p) \/ Day(p) = today \/ Day(p) \in late' \/ ~ Cleans
    <2>0. today' \in Nat /\ today <= today' /\ late \subseteq late'
      BY <1>0, DirectoryStep
    <2>1. CASE UNCHANGED dir
      BY <1>0, <2>0, <2>1 DEF Exists
    <2>2. ASSUME NEW p \in Paths, NEW i \in Unused, Creates(p, i),
                 Day(p) = today \/ Day(p) \in late' \/ ~ Cleans
          PROVE  \A q \in Paths :
                   Exists(q)' => Exists(q) \/ Day(q) = today \/ Day(q) \in late' \/ ~ Cleans
      BY <1>0, <2>2 DEF Creates, Exists
    <2>3. ASSUME NEW p \in Paths, Removes(p)
          PROVE  \A q \in Paths : Exists(q)' => Exists(q)
      BY <1>0, <2>3 DEF Removes, Exists
    <2> QED
      BY <1>0, <2>0, <2>1, <2>2, <2>3, DirectoryStep DEF Appends, Truncate
  <1>2. CASE UNCHANGED archiverVars
    BY <1>1, <1>2, ArchiverStays
  <1>3. CASE BeginArchive \/ ListFiles
    <2>1. /\ today' = today /\ dir' = dir /\ gz' = gz /\ archived' = archived
          /\ apc # "unlink" /\ apc' # "unlink" /\ MaxArchives > 0 /\ atoday' <= today
          /\ alist' = {} \/ (atoday' = atoday /\ alist' = {p \in Paths : Archivable(p)})
          /\ apc' \in {"idle", "list"} => alist' = {}
      <3>1. CASE BeginArchive
        BY <1>0, <1>00, <3>1 DEF BeginArchive, ScriptAt, ArchiverTypeOK, TypeOK, spoolVars
      <3>2. CASE ListFiles
        BY <1>0, <1>00, <3>2 DEF ListFiles, ScriptAt, spoolVars
      <3> QED
        BY <1>3, <3>1, <3>2
    <2>2. ScriptAt'
      BY <1>0, <2>1 DEF ScriptAt, Archivable
    <2>3. \A d \in 0 .. MaxDay : ArchivedOnce(d)'
      BY <1>0, <1>00, <1>1, <2>1 DEF ArchivedOnce, Exists
    <2>4. ArchivesKept'
      BY <1>0, <1>1, <2>1 DEF ArchivesKept
    <2> QED
      BY <1>01, <2>2, <2>3, <2>4
  <1>4. CASE Compress /\ Note
    <2>1. PICK p \in alist :
            /\ Exists(p)
            /\ apath' = p
            /\ alist' = alist \ {p}
            /\ gz' = [gz EXCEPT ![Day(p)] = RecordsIn(data[dir[p]])]
            /\ archived' = [archived EXCEPT ![Day(p)] = @ \union RecordsIn(data[dir[p]])]
      BY <1>4 DEF Compress
    <2>2. /\ today' = today /\ dir' = dir /\ atoday' = atoday /\ apc' = "unlink"
          /\ apc = "compress"
      BY <1>4 DEF Compress, spoolVars
    <2>3. /\ p \in Paths /\ Index(p) = 0 /\ Day(p) # atoday /\ atoday <= today
          /\ MaxArchives > 0 /\ p = <<Day(p), 0>> /\ Day(p) \in 0 .. MaxDay
      BY <1>0, <1>00, <2>1, <2>2, PlainIs, PathParts DEF ScriptAt
    <2>4. Day(p) < today \/ Day(p) \in late'
      BY <1>0, <1>4, <2>1, <2>3 DEF Note, Overtaken
    <2>5. gz'[Day(p)] = archived'[Day(p)] \/ Day(p) \in late'
      <3>1. archived[Day(p)] = {} \/ Day(p) \in late
        BY <1>00, <2>1, <2>2, <2>3 DEF ArchivedOnce
      <3> QED
        BY <1>0, <1>1, <2>1, <2>3, <3>1
    <2>6. \A d \in 0 .. MaxDay : d # Day(p) => gz'[d] = gz[d] /\ archived'[d] = archived[d]
      BY <1>0, <2>1
    <2>7. ArchivesKept'
      BY <1>0, <1>1, <2>2, <2>5, <2>6 DEF ArchivesKept
    <2>8. ASSUME NEW d \in 0 .. MaxDay
          PROVE  ArchivedOnce(d)'
      <3>1. CASE d = Day(p)
        BY <2>1, <2>2, <2>3, <2>4, <3>1 DEF ArchivedOnce
      <3>2. CASE d # Day(p)
        BY <1>00, <1>1, <2>2, <2>6, <3>2 DEF ArchivedOnce, Exists
      <3> QED
        BY <3>1, <3>2
    <2>9. ScriptAt'
      BY <1>00, <2>1, <2>2, <2>3, <2>4 DEF ScriptAt
    <2> QED
      BY <1>01, <2>7, <2>8, <2>9
  <1>5. CASE Unlink
    <2>1. /\ today' = today /\ atoday' = atoday /\ apc' = "compress" /\ alist' = alist
          /\ archived' = archived /\ gz' = gz /\ dir' = [dir EXCEPT ![apath] = NoInode]
          /\ apc = "unlink"
      BY <1>5 DEF Unlink
    <2>2. ASSUME NEW d \in 0 .. MaxDay
          PROVE  ArchivedOnce(d)'
      <3>1. Exists(<<d, 0>>)' => Exists(<<d, 0>>) /\ apath # <<d, 0>>
        BY <1>0, <2>1, PlainPath DEF Exists
      <3> QED
        BY <1>00, <1>1, <2>1, <3>1 DEF ArchivedOnce
    <2>3. ScriptAt'
      BY <1>00, <2>1 DEF ScriptAt
    <2>4. ArchivesKept'
      BY <1>0, <1>1, <2>1 DEF ArchivesKept
    <2> QED
      BY <1>01, <2>2, <2>3, <2>4
  <1>6. CASE CompressFails \/ Expire
    <2>1. /\ today' = today /\ ArchiveEnds /\ archived' = archived /\ dir' = dir
          /\ apc = "unlink" => ~ Exists(apath)
          /\ gz' = gz \/ gz' = [d \in 0 .. MaxDay |-> IF Expired(d) THEN {} ELSE gz[d]]
      BY <1>6 DEF CompressFails, Expire, spoolVars
    <2>2. ArchivesKept'
      <3>1. \A d \in 0 .. MaxDay : gz'[d] = gz[d] \/ d < today - RetentionDays
        BY <1>0, <1>00, <2>1 DEF ScriptAt, Expired
      <3> QED
        BY <1>0, <1>1, <2>1, <3>1 DEF ArchivesKept
    <2>3. ScriptAt'
      BY <1>0, <2>1 DEF ArchiveEnds, ScriptAt
    <2>4. \A d \in 0 .. MaxDay : ArchivedOnce(d)'
      BY <1>00, <1>1, <2>1 DEF ArchivedOnce, Exists
    <2> QED
      BY <1>01, <2>2, <2>3, <2>4
  <1> QED
    BY <1>2, <1>3, <1>4, <1>5, <1>6 DEF Next, ArchiverStep, pipelineVars

LEMMA FilesInit ==
  ASSUME Init
  PROVE  FilesInv
  <1>0. /\ FirstPath \in Paths /\ <<0, 0>> \in Paths /\ Blank \in FileState
        /\ Day(<<0, 0>>) = 0 /\ Index(<<0, 0>>) = 0
        /\ 0 \in 0 .. MaxDay /\ <<>> \in Seq(Parts)
        /\ Len(<<>>) = 0 /\ DOMAIN <<>> = {}
    BY EmptySeq DEF FirstPath, Paths, Blank, FileState, Day, Index
  <1>1. /\ today = 0 /\ dir = [p \in Paths |-> NoInode] /\ data = [i \in Inodes |-> <<>>]
        /\ wpc = "off" /\ wfp = NoInode /\ wpath = <<0, 0>> /\ rec = 1
        /\ aim = <<0, 0>> /\ starting = FALSE
    BY DEF Init, SpoolInit, WriterInit
  <1>2. SpoolTypeOK
    BY <1>0, <1>1 DEF SpoolTypeOK
  <1>3. WriterTypeOK
    <2>1. 1 \in 1 .. MaxRecords + 1
      OBVIOUS
    <2>2. /\ wpc = "off" /\ wfp = NoInode /\ wpath = <<0, 0>> /\ aim = <<0, 0>>
          /\ starting \in BOOLEAN /\ rec = 1 /\ written = {} /\ agentKills = 0
          /\ openFails = 0
      BY DEF Init, WriterInit
    <2>3. agentKills \in 0 .. MaxAgentKills /\ openFails \in 0 .. MaxOpenFails
      BY <2>2
    <2> QED
      BY <1>0, <2>1, <2>2, <2>3 DEF WriterTypeOK
  <1>4. UploaderTypeOK
    BY <1>0 DEF Init, UploaderInit, UploaderTypeOK
  <1>5. ArchiverTypeOK
    BY <1>0 DEF Init, ArchiverInit, ArchiverTypeOK
  <1>6. TypeOK
    BY <1>2, <1>3, <1>4, <1>5 DEF Init, TypeOK
  <1>7. \A p \in Paths : ~ Exists(p)
    BY <1>1 DEF Exists
  <1>8. NamesApart /\ NamesOfPast
    BY <1>7 DEF NamesApart, NamesOfPast
  <1>11. OpenByName
    BY <1>1 DEF OpenByName
  <1>9. WriterAt /\ PartsOfPast /\ SizesBounded
    BY <1>0, <1>1 DEF WriterAt, PartsOfPast, SizesBounded
  <1>10. PassAt /\ ArchiverAt /\ ArchivesKept
    BY <1>1 DEF Init, UploaderInit, ArchiverInit, PassAt, ArchiverAt, ArchivesKept
  <1> QED
    BY <1>6, <1>8, <1>9, <1>10, <1>11 DEF FilesInv

LEMMA FilesStep ==
  ASSUME FilesInv, [Next]_pipelineVars
  PROVE  FilesInv'
  <1>1. TypeOK'
    BY TypeStep DEF FilesInv
  <1>2. NamesApart' /\ NamesOfPast'
    BY NamesStep DEF FilesInv
  <1>7. OpenByName'
    BY <1>2, OpenByNameStep DEF FilesInv
  <1>3. WriterAt'
    BY WriterPlaceStep DEF FilesInv
  <1>4. PassAt'
    BY PassStep DEF FilesInv
  <1>5. PartsOfPast' /\ SizesBounded'
    BY <1>1, PartsStep, SizesStep DEF FilesInv
  <1>6. ArchiverAt' /\ ArchivesKept'
    BY ArchiveStep
  <1> QED
    BY <1>1, <1>2, <1>3, <1>4, <1>5, <1>6, <1>7 DEF FilesInv

\* What holds of the shared directory whoever works on it, and where each of the
\* three is while it does.
THEOREM FilesCorrect == Spec => []FilesInv
  <1>1. FilesInv /\ [Next]_pipelineVars => FilesInv'
    BY FilesStep
  <1> QED
    BY FilesInit, <1>1, PTL DEF Spec

\* The variables of the writer, the uploader, the archiver and the directory keep
\* to their types: no path, inode or record appears that there is not.
THEOREM PipelineTypes == Spec => []TypeOK
  <1>1. FilesInv => TypeOK
    BY DEF FilesInv
  <1> QED
    BY FilesCorrect, <1>1, PTL

\* A chunk passes the size limit by one record at most, whatever the uploader and
\* the archiver remove or truncate while the writer has it open.
THEOREM ChunksCorrect == Spec => []ChunksBounded
  <1>1. ASSUME FilesInv
        PROVE  ChunksBounded
    BY <1>1, ContentOf DEF FilesInv, TypeOK, SizesBounded, ChunksBounded, Size
  <1> QED
    BY FilesCorrect, <1>1, PTL

\* No run of the archiver replaces the archive of a day, nor deletes it before its
\* time, unless midnight came between asking for the date and using it, for the
\* writer or for the archiver, and the day is one of the two around it.
THEOREM ArchivesCorrect == Spec => []ArchivesKept
  <1>1. FilesInv => ArchivesKept
    BY DEF FilesInv
  <1> QED
    BY FilesCorrect, <1>1, PTL
=============================================================================
