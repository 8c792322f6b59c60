----------------------------- MODULE DeliveryProofs -----------------------------
(***************************************************************************)
(* Proofs that a record on its way is neither lost nor sent twice: what the *)
(* offsets of the uploader stand for, and where a written record can be     *)
(* found.                                                                   *)
(***************************************************************************)
EXTENDS PipelineProofs

-----------------------------------------------------------------------------
(* Content *)

LEMMA IntactFromStart ==
  ASSUME NEW c \in Seq(Parts), NEW i
  PROVE  i \in IntactEnds(c, 0) <=>
           /\ i \in 2 .. Len(c)
           /\ c[i][2] = "tail" /\ c[i - 1] = <<c[i][1], "head">>
           /\ i - 2 = 0 \/ c[i - 2][2] = "tail"
  <1>1. 0 \in Nat /\ 0 + 2 = 2
    OBVIOUS
  <1> QED
    BY <1>1, IntactPlaces

\* What is appended changes nothing of what lies before.
LEMMA IntactGrown ==
  ASSUME NEW c \in Seq(Parts), NEW d, NEW k, Grown(c, d, k), NEW i \in 1 .. Len(c)
  PROVE  /\ i \in IntactEnds(c, 0) <=> i \in IntactEnds(d, 0)
         /\ d[i] = c[i]
  <1>1. /\ Len(c) \in Nat /\ Len(d) \in Nat /\ Len(c) <= Len(d) /\ d \in Seq(Parts)
        /\ \A j \in 1 .. Len(c) : d[j] = c[j]
    BY PartsOfFile DEF Grown
  <1>2. /\ i \in IntactEnds(c, 0) <=> /\ i \in 2 .. Len(c)
                                      /\ c[i][2] = "tail" /\ c[i - 1] = <<c[i][1], "head">>
                                      /\ i - 2 = 0 \/ c[i - 2][2] = "tail"
        /\ i \in IntactEnds(d, 0) <=> /\ i \in 2 .. Len(d)
                                      /\ d[i][2] = "tail" /\ d[i - 1] = <<d[i][1], "head">>
                                      /\ i - 2 = 0 \/ d[i - 2][2] = "tail"
    BY <1>1, IntactFromStart
  <1> QED
    BY <1>1, <1>2

LEMMA PlacesOfIntact ==
  ASSUME NEW c \in Seq(Parts), NEW from \in Nat, NEW i \in IntactEnds(c, from)
  PROVE  i \in from + 2 .. Len(c) /\ i \in 1 .. Len(c) /\ Len(c) \in Nat
  BY IntactPlaces, PartsOfFile

LEMMA RecordsGrown ==
  ASSUME NEW c \in Seq(Parts), NEW d, NEW k, Grown(c, d, k)
  PROVE  RecordsIn(c) \subseteq RecordsIn(d) /\ RecordsIn(d) \subseteq RecordsIn(c) \union {k}
  <1>1. /\ Len(c) \in Nat /\ Len(d) \in Nat /\ d \in Seq(Parts)
        /\ \A j \in Len(c) + 1 .. Len(d) : d[j][1] = k
    BY PartsOfFile DEF Grown
  <1>2. ASSUME NEW i \in IntactEnds(c, 0)
        PROVE  c[i][1] \in RecordsIn(d)
    <2>1. i \in IntactEnds(d, 0) /\ d[i] = c[i]
      BY <1>2, PlacesOfIntact, IntactGrown
    <2> QED
      BY <2>1 DEF RecordsIn
  <1>3. ASSUME NEW i \in IntactEnds(d, 0)
        PROVE  d[i][1] \in RecordsIn(c) \union {k}
    <2>1. i \in 1 .. Len(d)
      BY <1>1, PlacesOfIntact
    <2>2. CASE i \in 1 .. Len(c)
      <3>1. i \in IntactEnds(c, 0) /\ d[i] = c[i]
        BY <1>3, <2>2, IntactGrown
      <3> QED
        BY <3>1 DEF RecordsIn
    <2>3. CASE i \notin 1 .. Len(c)
      BY <1>1, <2>1, <2>3
    <2> QED
      BY <2>2, <2>3
  <1> QED
    BY <1>2, <1>3 DEF RecordsIn

LEMMA SentNone ==
  ASSUME NEW c \in Seq(Parts), NEW S, NEW k
  PROVE  Sent(c, 0, S, k)
  <1>1. IntactBefore(c, 0) = {}
    BY PlacesOfIntact DEF IntactBefore
  <1> QED
    BY <1>1, PartsOfFile DEF Sent

LEMMA SentAll ==
  ASSUME NEW c \in Seq(Parts), NEW S, NEW k, Sent(c, Len(c), S, k)
  PROVE  RecordsIn(c) \subseteq S
  <1>1. \A i \in IntactEnds(c, 0) : i <= Len(c)
    BY PlacesOfIntact
  <1> QED
    BY <1>1 DEF Sent, IntactBefore, RecordsIn

LEMMA SentGrown ==
  ASSUME NEW c \in Seq(Parts), NEW d, NEW k \in Int, NEW l \in Int, Grown(c, d, k), k <= l,
         NEW o \in Nat, NEW S, NEW T, S \subseteq T, Sent(c, o, S, k)
  PROVE  Sent(d, o, T, l)
  <1>1. /\ Len(c) \in Nat /\ Len(d) \in Nat /\ Len(c) <= Len(d) /\ d \in Seq(Parts)
        /\ \A j \in 1 .. Len(c) : d[j] = c[j]
        /\ \A j \in Len(c) + 1 .. Len(d) : d[j][1] = k
    BY PartsOfFile DEF Grown
  <1>2. o <= Len(c) /\ IntactBefore(c, o) \subseteq S
    BY DEF Sent
  <1>3. ASSUME NEW i \in IntactEnds(d, 0), i <= o
        PROVE  d[i][1] \in T
    <2>1. i \in 1 .. Len(c)
      BY <1>1, <1>2, <1>3, PlacesOfIntact
    <2>2. i \in IntactEnds(c, 0) /\ d[i] = c[i]
      BY <1>3, <2>1, IntactGrown
    <2> QED
      BY <1>2, <1>3, <2>2 DEF IntactBefore
  <1>4. IntactBefore(d, o) \subseteq T
    BY <1>3 DEF IntactBefore
  <1>5. ASSUME o > 0, d[o][2] = "head"
        PROVE  \/ d[o][1] \in T
               \/ d[o][1] < l /\ (o < Len(d) => d[o + 1] # <<d[o][1], "tail">>)
    <2>1. d[o] = c[o] /\ c[o] \in Parts /\ c[o][1] \in Nat
      BY <1>1, <1>2, <1>5, PartsOfFile DEF Records
    <2>2. \/ c[o][1] \in S
          \/ c[o][1] < k /\ (o < Len(c) => c[o + 1] # <<c[o][1], "tail">>)
      BY <1>5, <2>1 DEF Sent
    <2>3. CASE c[o][1] \in S
      BY <2>1, <2>3
    <2>4. CASE c[o][1] < k /\ (o < Len(c) => c[o + 1] # <<c[o][1], "tail">>)
      <3>1. c[o][1] < l
        BY <2>1, <2>4
      <3>2. ASSUME o < Len(d), d[o + 1] = <<d[o][1], "tail">>
            PROVE  FALSE
        <4>1. CASE o < Len(c)
          BY <1>1, <2>1, <2>4, <3>2, <4>1
        <4>2. CASE o = Len(c)
          <5>1. d[o + 1][1] = k
            BY <1>1, <3>2, <4>2
          <5> QED
            BY <2>1, <2>4, <3>2, <5>1
        <4> QED
          BY <1>1, <1>2, <4>1, <4>2
      <3> QED
        BY <2>1, <3>1, <3>2
    <2> QED
      BY <2>2, <2>3, <2>4
  <1> QED
    BY <1>1, <1>2, <1>4, <1>5 DEF Sent

\* A batch takes up where the one before ended: what lies before its end was sent
\* before or is in it, unless a line is cut that is still to be completed.
LEMMA SentRead ==
  ASSUME NEW c \in Seq(Parts), NEW o \in Nat, NEW S, NEW T, NEW k, Sent(c, o, S, k),
         S \subseteq T,
         \A i \in IntactEnds(c, o) : i <= ReadTo(c, o) => c[i][1] \in T,
         Len(c) > 0 /\ c[Len(c)][2] = "head" => c[Len(c)][1] \in T \/ c[Len(c)][1] < k
  PROVE  Sent(c, ReadTo(c, o), T, k) /\ ReadTo(c, o) >= o
  <1> DEFINE to == ReadTo(c, o)
  <1>1. /\ Len(c) \in Nat /\ o <= Len(c) /\ IntactBefore(c, o) \subseteq S
        /\ o > 0 /\ c[o][2] = "head" =>
             c[o][1] \in S \/ (o < Len(c) => c[o + 1] # <<c[o][1], "tail">>)
    BY PartsOfFile DEF Sent
  <1>2. to \in IntactEnds(c, o) \/ to = Len(c)
    BY <1>1, ReadToEnd
  <1>3. to \in o .. Len(c)
    BY <1>1, <1>2, PlacesOfIntact
  <1>4. \A i \in IntactEnds(c, o) : i <= to => c[i][1] \in T
    OBVIOUS
  <1> HIDE DEF to
  <1>5. ASSUME NEW i \in IntactEnds(c, 0), i <= to
        PROVE  c[i][1] \in T
    <2>1. /\ i \in 2 .. Len(c) /\ c[i][2] = "tail" /\ c[i - 1] = <<c[i][1], "head">>
          /\ i - 2 = 0 \/ c[i - 2][2] = "tail"
      BY <1>5, IntactPlaces
    <2>2. CASE i <= o
      BY <1>1, <1>5, <2>2 DEF IntactBefore
    <2>3. CASE i = o + 1
      <3>1. o > 0 /\ c[o] = <<c[i][1], "head">> /\ o < Len(c) /\ c[o + 1] = c[i]
        BY <1>1, <2>1, <2>3
      <3>2. c[i] = <<c[i][1], "tail">>
        BY <2>1, PartsOfFile DEF Parts
      <3> QED
        BY <1>1, <3>1, <3>2
    <2>4. CASE i >= o + 2
      <3>0. i \in o + 2 .. Len(c) /\ (i - 2 = o \/ c[i - 2][2] = "tail")
        BY <1>1, <2>1, <2>4
      <3>1. i \in IntactEnds(c, o)
        BY <2>1, <3>0, IntactPlaces
      <3> QED
        BY <1>4, <1>5, <3>1
    <2> QED
      BY <1>1, <2>1, <2>2, <2>3, <2>4
  <1>6. IntactBefore(c, to) \subseteq T
    BY <1>5 DEF IntactBefore
  <1>7. ASSUME to > 0, c[to][2] = "head"
        PROVE  c[to][1] \in T \/ (c[to][1] < k /\ to = Len(c))
    <2>1. to \notin IntactEnds(c, o)
      BY <1>7, IntactPlaces
    <2> QED
      BY <1>1, <1>2, <1>7, <2>1
  <1>8. Sent(c, to, T, k)
    BY <1>1, <1>3, <1>6, <1>7 DEF Sent
  <1> QED
    BY <1>1, <1>3, <1>8 DEF to

-----------------------------------------------------------------------------
(* What becomes of a file in a step *)

Kept(p) ==
  /\ dir[p] # NoInode /\ dir'[p] = dir[p]
  /\ Grown(data[dir[p]], data'[dir[p]], rec)
  /\ data'[dir[p]] # data[dir[p]] => wpc \in {"rotated", "half"} /\ wfp = dir[p]

Made(p) ==
  /\ dir[p] = NoInode /\ dir'[p] # NoInode /\ data'[dir'[p]] = <<>>
  /\ Day(p) = today \/ Day(p) \in late' \/ ~ Cleans
  /\ today' = today /\ rec' = rec

Emptied(p) ==
  /\ Truncate /\ p = path
  /\ dir[p] # NoInode /\ dir'[p] = dir[p] /\ data'[dir[p]] = <<>>

LEMMA Fate ==
  ASSUME FilesInv, [Next]_pipelineVars, NEW p \in Paths
  PROVE  \/ Kept(p)
         \/ Made(p)
         \/ Emptied(p)
         \/ Removes(p) /\ dir'[p] = NoInode
         \/ dir[p] = NoInode /\ dir'[p] = NoInode
  <1>0. /\ TypeOK /\ WriterAt /\ NamesApart
        /\ dir \in [Paths -> Inodes \union {NoInode}] /\ data \in [Inodes -> Seq(Parts)]
    BY DEF FilesInv, TypeOK, SpoolTypeOK
  <1>1. dir[p] # NoInode => Exists(p) /\ dir[p] \in Inodes /\ data[dir[p]] \in Seq(Parts)
    BY <1>0 DEF Exists
  <1>2. dir[p] # NoInode => Grown(data[dir[p]], data[dir[p]], rec)
    BY <1>1, SameGrown
  <1>3. CASE UNCHANGED <<dir, data>>
    BY <1>2, <1>3 DEF Kept
  <1>4. ASSUME NEW q \in Paths, NEW i \in Unused, Creates(q, i), today' = today, rec' = rec,
               Day(q) = today \/ Day(q) \in late' \/ ~ Cleans
        PROVE  Kept(p) \/ Made(p) \/ (dir[p] = NoInode /\ dir'[p] = NoInode)
    <2>1. i \in Inodes /\ dir[p] # i
      BY DEF Unused
    <2>2. /\ dir' = [dir EXCEPT ![q] = i] /\ data' = [data EXCEPT ![i] = <<>>]
          /\ dir[q] = NoInode
      BY <1>4 DEF Creates, Exists
    <2>3. CASE p = q
      BY <1>0, <1>4, <2>1, <2>2, <2>3, NoSuchInode DEF Made
    <2>4. CASE p # q /\ dir[p] # NoInode
      <3>1. dir'[p] = dir[p] /\ data'[dir[p]] = data[dir[p]]
        BY <1>0, <1>1, <2>1, <2>2, <2>4
      <3> QED
        BY <1>2, <2>4, <3>1 DEF Kept
    <2>5. CASE p # q /\ dir[p] = NoInode
      BY <1>0, <2>2, <2>5
    <2> QED
      BY <2>3, <2>4, <2>5
  <1>5. CASE Appends
    <2>1. CASE dir[p] # NoInode
      <3>1. dir'[p] = dir[p] /\ wpc \in {"rotated", "half"} /\ wfp \in Inodes
            /\ data' = [data EXCEPT ![wfp] = data'[wfp]]
            /\ Grown(data[wfp], data'[wfp], rec)
        BY <1>5 DEF Appends
      <3>2. CASE dir[p] = wfp
        BY <2>1, <3>1, <3>2 DEF Kept
      <3>3. CASE dir[p] # wfp
        <4>1. data'[dir[p]] = data[dir[p]]
          BY <1>0, <1>1, <2>1, <3>1, <3>3
        <4> QED
          BY <1>2, <2>1, <3>1, <4>1 DEF Kept
      <3> QED
        BY <3>2, <3>3
    <2>2. CASE dir[p] = NoInode
      BY <1>5, <2>2 DEF Appends
    <2> QED
      BY <2>1, <2>2
  <1>6. ASSUME NEW q \in Paths, Removes(q)
        PROVE  \/ Kept(p) \/ (Removes(p) /\ dir'[p] = NoInode)
               \/ (dir[p] = NoInode /\ dir'[p] = NoInode)
    <2>1. dir' = [dir EXCEPT ![q] = NoInode] /\ data' = data
      BY <1>6 DEF Removes
    <2> QED
      BY <1>0, <1>2, <1>6, <2>1 DEF Kept
  <1>7. CASE Truncate
    <2>1. /\ dir' = dir /\ data' = [data EXCEPT ![dir[path]] = <<>>] /\ Exists(path)
          /\ path \in Paths
      BY <1>0, <1>7 DEF Truncate, TypeOK, UploaderTypeOK
    <2>2. CASE dir[p] # NoInode /\ p = path
      BY <1>0, <1>1, <1>7, <2>1, <2>2 DEF Emptied
    <2>3. CASE dir[p] # NoInode /\ p # path
      <3>1. dir[p] # dir[path]
        BY <1>0, <1>1, <2>1, <2>3 DEF NamesApart
      <3>2. data'[dir[p]] = data[dir[p]]
        BY <1>0, <1>1, <2>1, <2>3, <3>1
      <3> QED
        BY <1>2, <2>1, <2>3, <3>2 DEF Kept
    <2> QED
      BY <2>1, <2>2, <2>3
  <1> QED
    BY <1>0, <1>3, <1>4, <1>5, <1>6, <1>7, DirectoryStep

\* What is known of a file stays true in every step but two: its truncation, and
\* the removal of a chunk of today.
LEMMA StillExposed ==
  ASSUME FilesInv, [Next]_pipelineVars, NEW p \in Paths, AllExposed(p), dir'[p] # NoInode
  PROVE  AllExposed(p)'
  <1>0. /\ TypeOK /\ WriterAt /\ OpenByName /\ exposed \subseteq exposed'
        /\ late \subseteq late' /\ dir[p] \in Inodes /\ data[dir[p]] \in Seq(Parts)
    <2>1. TypeOK /\ WriterAt /\ OpenByName
      BY DEF FilesInv
    <2> QED
      BY <2>1, DirectoryStep, ContentOf DEF AllExposed, TypeOK
  <1>1. CASE Kept(p)
    <2>1. dir'[p] = dir[p] /\ dir[p] # NoInode
      BY <1>1 DEF Kept
    <2>2. CASE data'[dir[p]] = data[dir[p]]
      BY <1>0, <2>1, <2>2 DEF AllExposed, Exists
    <2>3. CASE data'[dir[p]] # data[dir[p]]
      <3>1. wpc \in {"rotated", "half"} /\ wfp = dir[p] /\ p = wpath
        BY <1>0, <1>1, <2>1, <2>3 DEF Kept, OpenByName
      <3>2. Exposing
        BY <3>1 DEF Exposing, AllExposed
      <3>3. rec \in exposed'
        BY <1>0, <2>3, <3>2, ExposedStep DEF Next, pipelineVars, spoolVars
      <3>4. PICK d : d = data'[dir[p]]
        OBVIOUS
      <3>5. Grown(data[dir[p]], d, rec)
        BY <1>1, <3>4 DEF Kept
      <3>6. /\ d \in Seq(Parts) /\ DOMAIN d = 1 .. Len(d)
            /\ DOMAIN data[dir[p]] = 1 .. Len(data[dir[p]])
            /\ Len(d) \in Nat /\ Len(data[dir[p]]) \in Nat
            /\ \A j \in 1 .. Len(data[dir[p]]) : d[j] = data[dir[p]][j]
            /\ \A j \in Len(data[dir[p]]) + 1 .. Len(d) : d[j][1] = rec
        BY <1>0, <3>5, PartsOfFile DEF Grown
      <3>7. \A j \in DOMAIN d : d[j][1] \in exposed'
        <4>1. TAKE j \in DOMAIN d
        <4>2. CASE j \in 1 .. Len(data[dir[p]])
          BY <1>0, <3>6, <4>2 DEF AllExposed
        <4>3. CASE j \notin 1 .. Len(data[dir[p]])
          BY <3>3, <3>6, <4>1, <4>3
        <4> QED
          BY <4>2, <4>3
      <3> QED
        BY <1>0, <2>1, <3>4, <3>7 DEF AllExposed, Exists
    <2> QED
      BY <2>2, <2>3
  <1>2. CASE Emptied(p)
    <2>1. data'[dir'[p]] = <<>>
      BY <1>2 DEF Emptied
    <2>2. DOMAIN data'[dir'[p]] = {}
      BY <2>1
    <2> QED
      BY <1>0, <2>2 DEF AllExposed, Exists
  <1> QED
    BY <1>1, <1>2, Fate DEF Made, AllExposed, Exists

\* A file of exposed records holds no others.
LEMMA OnlyExposed ==
  ASSUME TypeOK, NEW p \in Paths, AllExposed(p)
  PROVE  /\ RecordsIn(data[dir[p]]) \subseteq exposed
         /\ \A o \in Nat : IntactBefore(data[dir[p]], o) \subseteq exposed
  <1>1. data[dir[p]] \in Seq(Parts) /\ DOMAIN data[dir[p]] = 1 .. Len(data[dir[p]])
    BY ContentOf, PartsOfFile DEF TypeOK, AllExposed
  <1>2. \A i \in IntactEnds(data[dir[p]], 0) : data[dir[p]][i][1] \in exposed
    BY <1>1, PlacesOfIntact DEF AllExposed
  <1> QED
    BY <1>2 DEF RecordsIn, IntactBefore

LEMMA StillBelieved ==
  ASSUME FilesInv, FilesInv', [Next]_pipelineVars, NEW p \in Paths,
         ~ Emptied(p), ~ (MaxSize # 0 /\ Delete /\ p = path),
         NEW st \in FileState, NEW S, NEW T, S \subseteq T, Believed(st, p, S)
  PROVE  Believed(st, p, T)'
  <1>0. /\ TypeOK /\ WriterAt /\ PassAt /\ ArchiverAt /\ NamesOfPast
        /\ dir \in [Paths -> Inodes \union {NoInode}] /\ data \in [Inodes -> Seq(Parts)]
        /\ today \in Nat /\ rec \in Nat /\ rec' \in Nat /\ rec <= rec'
        /\ today' \in Nat /\ today <= today' /\ Day(p) \in Nat /\ st.offset \in Nat
        /\ late \subseteq late'
    <2>1. /\ TypeOK /\ WriterAt /\ PassAt /\ ArchiverAt /\ NamesOfPast
          /\ dir \in [Paths -> Inodes \union {NoInode}] /\ data \in [Inodes -> Seq(Parts)]
      BY DEF FilesInv, TypeOK, SpoolTypeOK
    <2>2. /\ today' \in {today, today + 1} /\ today \in Nat
          /\ rec' \in {rec, rec + 1} /\ rec \in Nat
          /\ late \subseteq late'
      BY <2>1, DirectoryStep
    <2>3. Day(p) \in Nat /\ st.offset \in Nat
      BY PathParts DEF FileState
    <2> QED
      BY <2>1, <2>2, <2>3
  <1>1. CASE st.inode = NoInode /\ st.offset = 0
    BY <1>1 DEF Believed
  <1>2. CASE Cleans /\ ~ Exists(p) /\ (Day(p) < today \/ Day(p) \in late)
    <2>1. CASE dir'[p] = NoInode
      <3>1. Day(p) < today' \/ Day(p) \in late'
        BY <1>0, <1>2
      <3> QED
        BY <1>2, <2>1, <3>1 DEF Believed, Exists, Cleans
    <2>2. CASE dir'[p] # NoInode
      <3>1. Made(p)
        BY <1>2, <2>2, Fate DEF Kept, Removes, Exists, Emptied
      <3>2. Day(p) \in late' /\ data'[dir'[p]] = <<>>
        BY <1>0, <1>2, <3>1 DEF Made
      <3>3. DOMAIN data'[dir'[p]] = {}
        BY <3>2
      <3> QED
        BY <2>2, <3>2, <3>3 DEF Believed, AllExposed, Exists
    <2> QED
      BY <2>1, <2>2
  <1>4. CASE AllExposed(p)
    <2>1. CASE dir'[p] = NoInode
      <3>1. Removes(p)
        BY <1>4, <2>1, Fate DEF AllExposed, Exists, Kept, Made, Emptied
      <3>2. Cleans
        BY <1>0, <3>1, RemovedIsPast
      <3> QED
        BY <1>0, <1>4, <2>1, <3>2 DEF AllExposed, Believed, Exists, Cleans
    <2>2. CASE dir'[p] # NoInode
      <3>1. AllExposed(p)'
        BY <1>4, <2>2, StillExposed
      <3> QED
        BY <3>1 DEF Believed
    <2> QED
      BY <2>1, <2>2
  <1>3. CASE Exists(p) /\ st.inode = dir[p] /\ Sent(data[dir[p]], st.offset, S, rec)
    <2>1. dir[p] # NoInode /\ dir[p] \in Inodes /\ data[dir[p]] \in Seq(Parts)
      BY <1>0, <1>3 DEF Exists
    <2>2. CASE Kept(p)
      <3>1. dir'[p] = dir[p]
        BY <2>2 DEF Kept
      <3>2. PICK d : d = data'[dir[p]]
        OBVIOUS
      <3>3. PICK l \in Int : l = rec'
        BY <1>0
      <3>4. Grown(data[dir[p]], d, rec)
        BY <2>2, <3>2 DEF Kept
      <3>5. Sent(d, st.offset, T, l)
        BY <1>0, <1>3, <2>1, <3>3, <3>4, SentGrown
      <3> QED
        BY <1>3, <2>1, <3>1, <3>2, <3>3, <3>5 DEF Believed, Exists
    <2>3. CASE Removes(p) /\ dir'[p] = NoInode
      <3>1. Cleans /\ (Day(p) < today \/ Day(p) \in late)
        BY <1>0, <2>3, RemovedIsPast
      <3>2. Day(p) < today' \/ Day(p) \in late'
        BY <1>0, <3>1
      <3> QED
        BY <2>3, <3>1, <3>2 DEF Believed, Exists, Cleans
    <2> QED
      BY <2>1, <2>2, <2>3, Fate DEF Made
  <1> QED
    BY <1>1, <1>2, <1>3, <1>4 DEF Believed

-----------------------------------------------------------------------------
(* What the uploader believes *)

LEMMA HistoryStep ==
  ASSUME FilesInv, [Next]_pipelineVars
  PROVE  /\ Past \subseteq Past'
         /\ Calm' => Calm
         /\ \A r \in Records : stored[r] <= stored'[r]
         /\ \A d \in 0 .. MaxDay : archived[d] \subseteq archived'[d]
         /\ exposed \subseteq exposed' /\ late \subseteq late'
  <1>0. /\ TypeOK /\ WriterAt /\ exposed \subseteq exposed' /\ late \subseteq late'
        /\ stored \in [Records -> 0 .. 2] /\ aborted \in 0 .. 1 /\ upKills \in Nat
        /\ archived \in [0 .. MaxDay -> SUBSET Records]
    <2>1. TypeOK /\ WriterAt
      BY DEF FilesInv
    <2>2. exposed \subseteq exposed' /\ late \subseteq late'
      BY <2>1, DirectoryStep
    <2> QED
      BY <2>1, <2>2 DEF TypeOK, UploaderTypeOK, ArchiverTypeOK
  <1>2. Store => \A r \in Records : stored[r] <= stored'[r] /\ stored'[r] \in 0 .. 2
    BY <1>0 DEF Store
  <1>3. \A r \in Records : stored[r] <= stored'[r] /\ stored'[r] \in 0 .. 2
    <2>1. CASE UNCHANGED stored
      BY <1>0, <2>1
    <2>2. CASE Insert \/ LostAck
      BY <1>2, <2>2 DEF Insert, LostAck
    <2> QED
      BY <2>1, <2>2
         DEF Next, UploaderStep, BeginPass, NextFile, EndPass, Stat, Read, FileMissing,
             Refused, BatchesDone, Check, Delete, Truncate, UploaderKilled, uploaderVars,
             pipelineVars
  <1>4. Calm' => Calm
    <2>1. CASE UNCHANGED <<aborted, upKills>>
      BY <2>1 DEF Calm
    <2>2. CASE aborted' = 1
      BY <2>2 DEF Calm
    <2>3. CASE upKills' = upKills + 1
      BY <1>0, <2>3 DEF Calm
    <2> QED
      BY <2>1, <2>2, <2>3
         DEF Next, UploaderStep, BeginPass, NextFile, EndPass, Stat, Read, FileMissing,
             Insert, Refused, LostAck, RetryOrRaise, Abort, BatchesDone, Check, Delete,
             Truncate, UploaderKilled, uploaderVars, upFaults, pipelineVars
  <1>5. Past \subseteq Past'
    <2>1. \A r \in Records : stored[r] > 0 => stored'[r] > 0
      BY <1>0, <1>3
    <2> QED
      BY <1>0, <2>1 DEF Past, Stored
  <1>6. \A d \in 0 .. MaxDay : archived[d] \subseteq archived'[d]
    <2>1. CASE UNCHANGED archived
      BY <2>1
    <2>2. CASE Compress
      BY <1>0, <2>2 DEF Compress
    <2> QED
      BY <2>1, <2>2 DEF Next, ArchiverStep, BeginArchive, ListFiles, Unlink, CompressFails, Expire,
             archiverVars, pipelineVars
  <1> QED
    BY <1>0, <1>3, <1>4, <1>5, <1>6

\* A file whose entry is not blank and whose offset is that of its end is sent.
LEMMA WholeIsSent ==
  ASSUME TypeOK, NEW p \in Paths, Exists(p), NEW st \in FileState, NEW S,
         exposed \subseteq S, Believed(st, p, S), st.offset = Size(p)
  PROVE  RecordsIn(data[dir[p]]) \subseteq S
  <1>1. data[dir[p]] \in Seq(Parts) /\ st.offset = Len(data[dir[p]])
    BY ContentOf DEF TypeOK, Size
  <1>2. CASE st.offset = 0
    <2>1. IntactEnds(data[dir[p]], 0) = {}
      <3>1. ASSUME NEW i \in IntactEnds(data[dir[p]], 0)
            PROVE  FALSE
        <4>1. 0 \in Nat /\ data[dir[p]] \in Seq(Parts) /\ Len(data[dir[p]]) = 0
          BY <1>1, <1>2
        <4>2. i \in 1 .. Len(data[dir[p]])
          BY <3>1, <4>1, PlacesOfIntact
        <4> QED
          BY <4>1, <4>2
      <3> QED
        BY <3>1
    <2> QED
      BY <2>1 DEF RecordsIn
  <1>3. CASE Sent(data[dir[p]], st.offset, S, rec)
    BY <1>1, <1>3, SentAll
  <1>4. CASE AllExposed(p)
    BY <1>4, OnlyExposed
  <1> QED
    BY <1>2, <1>3, <1>4 DEF Believed

LEMMA PassStates ==
  ASSUME TypeOK
  PROVE  /\ \A p \in Paths : saved[p] \in FileState /\ files[p] \in FileState
         /\ probe \in FileState /\ fresh \in FileState /\ path \in Paths
         /\ Blank \in FileState /\ Blank.inode = NoInode /\ Blank.offset = 0
         /\ \A st \in FileState : st.offset \in Nat
  BY DEF TypeOK, UploaderTypeOK, FileState, Blank

LEMMA SavedStep ==
  ASSUME FilesInv, FilesInv', [Next]_pipelineVars, SavedIsTrue, FilesAreTrue
  PROVE  SavedIsTrue'
  <1>0. TypeOK /\ PassAt
    BY DEF FilesInv
  <1> SUFFICES ASSUME Plain \/ (Calm' /\ upc' = "idle"), NEW p \in Paths
               PROVE  Believed(saved[p], p, Past)'
    BY DEF SavedIsTrue, Plain
  <1>1. Plain \/ Calm
    BY HistoryStep
  <1>2. ~ Emptied(p) /\ ~ (MaxSize # 0 /\ Delete /\ p = path)
    <2>1. CASE Plain
      BY <1>0, <2>1 DEF Plain, PassAt, Emptied, Truncate, Delete
    <2>2. CASE upc' = "idle"
      BY <2>2 DEF Emptied, Truncate, Delete
    <2> QED
      BY <2>1, <2>2
  <1>3. ASSUME NEW st \in FileState, Believed(st, p, Past), saved'[p] = st
        PROVE  Believed(saved[p], p, Past)'
    <2>1. PICK S : S = Past
      OBVIOUS
    <2>2. PICK T : T = Past'
      OBVIOUS
    <2>3. S \subseteq T /\ Believed(st, p, S)
      BY <1>3, <2>1, <2>2, HistoryStep
    <2>4. Believed(st, p, T)'
      BY <1>2, <2>3, StillBelieved
    <2> QED
      BY <1>3, <2>2, <2>4 DEF Believed
  <1>4. CASE saved' = files /\ upc # "idle"
    BY <1>0, <1>1, <1>3, <1>4, PassStates DEF FilesAreTrue
  <1>5. CASE saved' = saved /\ (Plain \/ upc = "idle")
    BY <1>0, <1>1, <1>3, <1>5, PassStates DEF SavedIsTrue
  <1>6. \/ saved' = files /\ upc # "idle"
        \/ saved' = saved /\ (Plain \/ upc = "idle")
    <2>1. CASE EndPass
      BY <2>1 DEF EndPass
    <2>2. CASE UNCHANGED uploaderVars
      BY <1>1, <2>2 DEF uploaderVars
    <2>3. CASE UploaderStep /\ ~ EndPass
      <3>1. saved' = saved
        BY <2>3 DEF UploaderStep, BeginPass, NextFile, Stat, Read, FileMissing, Insert,
               Refused, LostAck, RetryOrRaise, Abort, BatchesDone, Check, Delete, Truncate,
               UploaderKilled, passVars
      <3>2. upc' # "idle" \/ aborted' = 1 \/ upKills' = upKills + 1
        BY <2>3 DEF UploaderStep, BeginPass, NextFile, Stat, Read, FileMissing, Insert,
               Refused, LostAck, RetryOrRaise, Abort, BatchesDone, Check, Delete, Truncate,
               UploaderKilled
      <3>3. upKills \in Nat
        BY <1>0 DEF TypeOK, UploaderTypeOK
      <3> QED
        BY <3>1, <3>2, <3>3 DEF Calm
    <2> QED
      BY <2>1, <2>2, <2>3 DEF Next, pipelineVars
  <1> QED
    BY <1>4, <1>5, <1>6

\* What a batch leaves behind: all before its end was sent or is in it.
LEMMA ReadBelieved ==
  ASSUME FilesInv, [Next]_pipelineVars, Read, probe \in FileState,
         Believed(probe, path, Past), probe.inode # NoInode,
         NEW T, Past' \subseteq T,
         \A i \in IntactEnds(data[dir[path]], probe.offset) :
           i <= ReadTo(data[dir[path]], probe.offset) => data[dir[path]][i][1] \in T
  PROVE  /\ ReadTo(data[dir[path]], probe.offset) >= probe.offset
         /\ \/ AllExposed(path)
            \/ /\ Sent(data[dir[path]], ReadTo(data[dir[path]], probe.offset), T, rec)
               /\ probe.inode = dir[path]
  <1> DEFINE c == data[dir[path]]
  <1>0. /\ TypeOK /\ WriterAt /\ PartsOfPast /\ path \in Paths /\ Exists(path)
        /\ upc = "read" /\ probe.offset \in Nat /\ Past \subseteq Past'
    BY HistoryStep DEF Read, FilesInv, TypeOK, UploaderTypeOK, FileState
  <1>1. c \in Seq(Parts) /\ dir[path] \in Inodes
    BY <1>0, ContentOf DEF TypeOK
  <1>8. ReadTo(c, probe.offset) >= probe.offset
    <2>1. Len(c) \in Nat
      BY <1>1, PartsOfFile
    <2>2. \A i \in IntactEnds(c, probe.offset) : i >= probe.offset
      BY <1>0, <1>1, <2>1, PlacesOfIntact
    <2> QED
      BY <1>0, <1>1, <2>1, <2>2, ReadToEnd
  <1> SUFFICES ASSUME ~ AllExposed(path)
               PROVE  Sent(c, ReadTo(c, probe.offset), T, rec) /\ probe.inode = dir[path]
    BY <1>8
  <1>2. probe.inode = dir[path] /\ Sent(c, probe.offset, Past, rec)
    BY <1>0 DEF Believed
  <1>3. ASSUME Len(c) > 0, c[Len(c)][2] = "head"
        PROVE  c[Len(c)][1] \in T \/ c[Len(c)][1] < rec
    <2>1. Len(c) \in DOMAIN c
      BY <1>1, <1>3, PartsOfFile
    <2>2. \/ c[Len(c)][1] < rec
          \/ wpc = "half" /\ dir[path] = wfp /\ c[Len(c)] = <<rec, "head">>
      BY <1>0, <1>1, <2>1 DEF PartsOfPast
    <2>3. CASE wpc = "half" /\ dir[path] = wfp /\ c[Len(c)] = <<rec, "head">>
      <3>1. Exposing
        BY <1>0, <2>3 DEF Exposing
      <3>2. Note
        BY <1>0 DEF Next, Read, pipelineVars, uploaderVars
      <3>3. rec \in exposed'
        BY <1>0, <3>1, <3>2, ExposedStep
      <3> QED
        BY <2>3, <3>3 DEF Past
    <2> QED
      BY <2>2, <2>3
  <1>4. PICK S : S = Past
    OBVIOUS
  <1>5. S \subseteq T /\ Sent(c, probe.offset, S, rec)
    BY <1>0, <1>2, <1>4
  <1>6. \A i \in IntactEnds(c, probe.offset) :
          i <= ReadTo(c, probe.offset) => c[i][1] \in T
    OBVIOUS
  <1> HIDE DEF c
  <1>7. Sent(c, ReadTo(c, probe.offset), T, rec) /\ ReadTo(c, probe.offset) >= probe.offset
    BY <1>0, <1>1, <1>3, <1>5, <1>6, SentRead
  <1> QED
    BY <1>2, <1>7 DEF c

\* What stat found, and what it makes of the entry.
LEMMA StatEffect ==
  ASSUME FilesInv, Stat, NEW S, Believed(files[path], path, S)
  PROVE  \/ AllExposed(path)
         \/ /\ probe'.offset = files[path].offset /\ probe'.inode = dir[path]
            /\ dir[path] # NoInode /\ Sent(data[dir[path]], files[path].offset, S, rec)
  <1>0. /\ TypeOK /\ Exists(path) /\ path \in Paths
        /\ probe' = [inode |-> dir[path], size |-> Size(path),
                     offset |-> Start(files[path], dir[path], Size(path))]
    BY DEF Stat, FilesInv, TypeOK, UploaderTypeOK
  <1>1. data[dir[path]] \in Seq(Parts) /\ Size(path) = Len(data[dir[path]])
        /\ Size(path) \in Nat
    BY <1>0, ContentOf DEF TypeOK, Size
  <1>2. CASE files[path].inode = NoInode /\ files[path].offset = 0
    BY <1>0, <1>1, <1>2, SentNone DEF Start, Exists
  <1>3. CASE files[path].inode = dir[path] /\ Sent(data[dir[path]], files[path].offset, S, rec)
    <2>1. files[path].offset <= Size(path) /\ files[path].offset \in Nat
      BY <1>0, <1>1, <1>3, PassStates DEF Sent
    <2> QED
      BY <1>0, <1>1, <1>3, <2>1 DEF Start, Exists
  <1> QED
    BY <1>0, <1>2, <1>3 DEF Believed

LEMMA FilesStepTrue ==
  ASSUME FilesInv, FilesInv', [Next]_pipelineVars, SavedIsTrue, FilesAreTrue,
         Plain \/ Calm', upc' # "idle", NEW p \in Paths
  PROVE  Believed(files[p], p, Past)'
  <1>0. /\ TypeOK /\ PassAt /\ Past \subseteq Past' /\ (Plain \/ Calm)
        /\ files \in [Paths -> FileState] /\ saved \in [Paths -> FileState]
    BY HistoryStep DEF FilesInv, TypeOK, UploaderTypeOK
  <1>1. ASSUME NEW st \in FileState, NEW S, S \subseteq Past', Believed(st, p, S),
               files'[p] = st, ~ (p = path /\ (Truncate \/ Delete))
        PROVE  Believed(files[p], p, Past)'
    <2>1. PICK T : T = Past'
      OBVIOUS
    <2>2. Believed(st, p, T)'
      BY <1>1, <2>1, StillBelieved DEF Emptied
    <2> QED
      BY <1>1, <2>1, <2>2 DEF Believed
  <1>2. CASE upc = "idle"
    <2>1. BeginPass
      BY <1>2 DEF Next, UploaderStep, NextFile, EndPass, Forgotten, Stat, Read, FileMissing,
             Abort, Insert, Refused, LostAck, BatchesDone, Check, Delete, Truncate,
             UploaderKilled, uploaderVars, pipelineVars
    <2>2. files'[p] = IF Exists(p) THEN saved[p] ELSE Blank
      BY <2>1 DEF BeginPass
    <2>3. ~ Truncate /\ ~ Delete
      BY <1>2 DEF Truncate, Delete
    <2>4. CASE Exists(p)
      <3>1. Believed(saved[p], p, Past)
        BY <1>0, <1>2 DEF SavedIsTrue
      <3> QED
        <4>1. PICK S : S = Past
          OBVIOUS
        <4>2. S \subseteq Past' /\ Believed(saved[p], p, S) /\ saved[p] \in FileState
          BY <1>0, <3>1, <4>1
        <4> QED
          BY <1>1, <2>2, <2>3, <2>4, <4>2
    <2>5. CASE ~ Exists(p)
      <3>1. files'[p].inode = NoInode /\ files'[p].offset = 0
        BY <1>0, <2>2, <2>5, PassStates
      <3> QED
        BY <3>1 DEF Believed
    <2> QED
      BY <2>4, <2>5
  <1>3. CASE upc # "idle"
    <2>0. Believed(files[p], p, Past)
      BY <1>0, <1>3 DEF FilesAreTrue
    <2>1. CASE files'[p] = files[p] /\ ~ (p = path /\ (Truncate \/ Delete))
      <3>1. PICK S : S = Past
        OBVIOUS
      <3>2. S \subseteq Past' /\ Believed(files[p], p, S) /\ files[p] \in FileState
        BY <1>0, <2>0, <3>1
      <3> QED
        BY <1>1, <2>1, <3>2
    <2>2. CASE Read /\ p = path /\ files'[p] # files[p]
      <3> DEFINE c == data[dir[path]]
                 to == ReadTo(c, probe.offset)
                 lines == {c[i][1] : i \in {j \in IntactEnds(c, probe.offset) : j <= to}}
      <3>1. /\ lines = {} /\ UNCHANGED <<dir, data>> /\ upc = "read" /\ Exists(path)
            /\ files' = [files EXCEPT ![path] =
                           [inode |-> probe.inode, offset |-> to, size |-> probe.size]]
        BY <2>2 DEF Read, spoolVars
      <3>2. \A i \in IntactEnds(c, probe.offset) : ~ (i <= to)
        BY <3>1
      <3>3. Believed(probe, path, Past) /\ probe \in FileState /\ probe.inode # NoInode
        BY <1>0, <3>1, PassStates DEF FilesAreTrue, PassAt
      <3>4. PICK T : T = Past'
        OBVIOUS
      <3>5. \A i \in IntactEnds(c, probe.offset) : i <= to => c[i][1] \in T
        BY <3>2
      <3> HIDE DEF lines
      <3>6. AllExposed(path) \/ (Sent(c, to, T, rec) /\ probe.inode = dir[path])
        BY <2>2, <3>1, <3>3, <3>4, <3>5, ReadBelieved
      <3>9. AllExposed(path) => AllExposed(p)'
        BY <2>2, <3>1, StillExposed DEF Exists
      <3>7. rec' = rec
        BY <2>2 DEF Next, pipelineVars, writerVars, Read, WriterStep, ReadDay, NextIndex, Keep,
               Close, OpenOld, OpenNew, Rotated, OpenFails, Write, WriteHead, WriteTail, AgentStops, uploaderVars
      <3>8. files'[p].inode = probe.inode /\ files'[p].offset = to
        BY <1>0, <2>2, <3>1
      <3> QED
        BY <2>2, <3>1, <3>4, <3>6, <3>7, <3>8, <3>9 DEF Believed, Exists
    <2>3. CASE Insert /\ p = path
      <3>1. /\ files'[p] = fresh /\ fresh \in FileState /\ upc = "insert"
            /\ stored \in [Records -> 0 .. 2] /\ Store /\ batch \subseteq Records
        <4>1. fresh \in FileState
          BY <1>0, PassStates
        <4> QED
          BY <1>0, <2>3, <4>1 DEF Insert, TypeOK, UploaderTypeOK
      <3>2. batch \subseteq Past'
        BY <3>1 DEF Past, Stored, Store
      <3>3. Believed(fresh, path, Past \union batch)
        BY <1>0, <3>1 DEF FilesAreTrue
      <3>4. PICK S : S = Past \union batch
        OBVIOUS
      <3>5. S \subseteq Past' /\ Believed(fresh, p, S)
        BY <1>0, <2>3, <3>2, <3>3, <3>4
      <3>6. ~ Truncate /\ ~ Delete
        BY <3>1 DEF Truncate, Delete
      <3> QED
        BY <1>1, <3>1, <3>5, <3>6
    <2>4. CASE Delete /\ p = path
      <3>1. files'[p] = Blank
        BY <1>0, <2>4 DEF Delete
      <3>2. files'[p].inode = NoInode /\ files'[p].offset = 0
        BY <1>0, <3>1, PassStates
      <3> QED
        BY <3>2 DEF Believed
    <2>5. CASE Truncate /\ p = path
      <3>1. /\ files'[p].inode = files[p].inode /\ files'[p].offset = 0
            /\ dir' = dir /\ data' = [data EXCEPT ![dir[path]] = <<>>] /\ Exists(path)
        BY <1>0, <2>5 DEF Truncate
      <3>2. data'[dir'[p]] = <<>>
        BY <1>0, <2>5, <3>1, ContentOf DEF TypeOK, SpoolTypeOK
      <3>3. PICK T : T = Past'
        OBVIOUS
      <3>4. PICK k : k = rec'
        OBVIOUS
      <3>5. Sent(<<>>, 0, T, k)
        BY EmptySeq, SentNone
      <3>6. AllExposed(p) => AllExposed(p)'
        BY <2>5, <3>1, StillExposed DEF Exists
      <3> QED
        BY <2>0, <2>5, <3>1, <3>2, <3>3, <3>4, <3>5, <3>6 DEF Believed, Exists
    <2>6. files'[p] = files[p] \/ Read \/ (p = path /\ (Insert \/ Delete \/ Truncate))
      BY <1>0, <1>3
         DEF Next, UploaderStep, BeginPass, NextFile, EndPass, Forgotten, Stat, FileMissing,
             Abort, Insert, Refused, LostAck, RetryOrRaise, BatchesDone, Check, Delete,
             Truncate, UploaderKilled, uploaderVars, passVars, pipelineVars
    <2>7. Read /\ p # path => files'[p] = files[p]
      BY <1>0 DEF Read
    <2> QED
      BY <2>1, <2>2, <2>3, <2>4, <2>5, <2>6, <2>7
  <1> QED
    BY <1>2, <1>3

LEMMA BelievedMore ==
  ASSUME NEW st, NEW p, NEW S, NEW T, S \subseteq T, Believed(st, p, S)
  PROVE  Believed(st, p, T)
  BY DEF Believed, Sent

LEMMA ProbeStepTrue ==
  ASSUME FilesInv, FilesInv', [Next]_pipelineVars, FilesAreTrue, Plain \/ Calm',
         upc' = "read"
  PROVE  Believed(probe, path, Past)'
  <1>0. /\ TypeOK /\ PassAt /\ Past \subseteq Past' /\ (Plain \/ Calm) /\ path \in Paths
        /\ probe \in FileState
    BY HistoryStep, PassStates DEF FilesInv
  <1>1. CASE Stat
    <2>1. Believed(files[path], path, Past)
      BY <1>0, <1>1 DEF Stat, FilesAreTrue
    <2>2. PICK T : T = Past'
      OBVIOUS
    <2>3. Believed(files[path], path, T)
      BY <1>0, <2>1, <2>2, BelievedMore
    <2>4. \/ AllExposed(path)
          \/ /\ probe'.offset = files[path].offset /\ probe'.inode = dir[path]
             /\ dir[path] # NoInode /\ Sent(data[dir[path]], files[path].offset, T, rec)
      BY <1>1, <2>3, StatEffect
    <2>5. UNCHANGED <<dir, data, path, rec>>
      <3>1. UNCHANGED <<dir, data, path>>
        BY <1>1 DEF Stat, spoolVars
      <3>2. UNCHANGED writerVars
        BY <1>1 DEF Stat, Next, WriterStep, ReadDay, NextIndex,
               Keep, Close, OpenOld, OpenNew, Rotated, OpenFails, Write, WriteHead,
               WriteTail, AgentStops, uploaderVars, pipelineVars
      <3> QED
        BY <3>1, <3>2 DEF writerVars
    <2>6. PICK p \in Paths : p = path
      BY <1>0
    <2>7. AllExposed(p) => AllExposed(p)'
      BY <2>5, <2>6, StillExposed DEF AllExposed, Exists
    <2>8. CASE AllExposed(p)
      BY <2>5, <2>6, <2>7, <2>8 DEF Believed, AllExposed, Exists
    <2>9. CASE ~ AllExposed(p)
      BY <2>2, <2>4, <2>5, <2>6, <2>9 DEF Believed, Exists
    <2> QED
      BY <2>8, <2>9
  <1>2. CASE ~ Stat
    <2>1. upc = "read" /\ probe' = probe /\ path' = path
      BY <1>2 DEF Next, UploaderStep, BeginPass, NextFile, EndPass, Forgotten, Read,
             FileMissing, Abort, Insert, Refused, LostAck, RetryOrRaise, BatchesDone, Check,
             Delete, Truncate, UploaderKilled, uploaderVars, passVars, pipelineVars
    <2>2. Believed(probe, path, Past) /\ ~ Emptied(path) /\ ~ Delete
      BY <1>0, <2>1 DEF FilesAreTrue, Emptied, Truncate, Delete
    <2>3. PICK S : S = Past
      OBVIOUS
    <2>4. PICK T : T = Past'
      OBVIOUS
    <2>5. PICK p \in Paths : p = path
      BY <1>0
    <2>6. PICK st \in FileState : st = probe
      BY <1>0
    <2>7. S \subseteq T /\ Believed(st, p, S) /\ ~ Emptied(p)
      BY <1>0, <2>2, <2>3, <2>4, <2>5, <2>6
    <2>8. Believed(st, p, T)'
      BY <2>2, <2>7, StillBelieved
    <2>9. probe' = st /\ path' = p
      BY <2>1, <2>5, <2>6
    <2> QED
      BY <2>4, <2>8, <2>9 DEF Believed, Exists
  <1> QED
    BY <1>1, <1>2

LEMMA FreshStepTrue ==
  ASSUME FilesInv, FilesInv', [Next]_pipelineVars, FilesAreTrue, Plain \/ Calm',
         upc' = "insert"
  PROVE  Believed(fresh, path, Past \union batch)'
  <1>0. /\ TypeOK /\ PassAt /\ Past \subseteq Past' /\ (Plain \/ Calm) /\ path \in Paths
        /\ probe \in FileState /\ fresh \in FileState
    BY HistoryStep, PassStates DEF FilesInv
  <1>1. CASE Read
    <2> DEFINE c == data[dir[path]]
               to == ReadTo(c, probe.offset)
               lines == {c[i][1] : i \in {j \in IntactEnds(c, probe.offset) : j <= to}}
    <2>1. /\ UNCHANGED <<dir, data, path, rec>> /\ upc = "read" /\ Exists(path)
          /\ batch' = lines
          /\ fresh' = [inode |-> probe.inode, offset |-> to, size |-> probe.size]
      <3>1. /\ UNCHANGED <<dir, data, path>> /\ upc = "read" /\ Exists(path)
            /\ batch' = lines
            /\ fresh' = [inode |-> probe.inode, offset |-> to, size |-> probe.size]
        BY <1>1 DEF Read, spoolVars
      <3>2. rec' = rec
        BY <1>1 DEF Next, pipelineVars, writerVars, Read, WriterStep, ReadDay, NextIndex, Keep,
               Close, OpenOld, OpenNew, Rotated, OpenFails, Write, WriteHead, WriteTail, AgentStops, uploaderVars
      <3> QED
        BY <3>1, <3>2
    <2>2. Believed(probe, path, Past) /\ probe.inode # NoInode
      BY <1>0, <2>1 DEF FilesAreTrue, PassAt
    <2>3. PICK T : T = Past' \union lines
      OBVIOUS
    <2>4. \A i \in IntactEnds(c, probe.offset) : i <= to => c[i][1] \in T
      BY <2>3
    <2>5. fresh'.inode = probe.inode /\ fresh'.offset = to
      BY <2>1
    <2>6. Past' \union batch' = T /\ Past' \subseteq T
      BY <2>1, <2>3
    <2> HIDE DEF lines
    <2>7. AllExposed(path) \/ (Sent(c, to, T, rec) /\ probe.inode = dir[path])
      BY <1>0, <1>1, <2>2, <2>4, <2>6, ReadBelieved
    <2>8. PICK p \in Paths : p = path
      BY <1>0
    <2>9. AllExposed(p) => AllExposed(p)'
      BY <2>1, <2>8, StillExposed DEF Exists
    <2>10. CASE AllExposed(p)
      BY <2>1, <2>8, <2>9, <2>10 DEF Believed, AllExposed, Exists
    <2>11. CASE ~ AllExposed(p)
      BY <2>1, <2>5, <2>6, <2>7, <2>8, <2>11 DEF Believed, Exists
    <2> QED
      BY <2>10, <2>11
  <1>2. CASE ~ Read
    <2>1. upc = "insert" /\ fresh' = fresh /\ path' = path /\ batch' = batch
      BY <1>2 DEF Next, UploaderStep, BeginPass, NextFile, EndPass, Forgotten, Stat,
             FileMissing, Abort, Insert, Refused, LostAck, RetryOrRaise, BatchesDone, Check,
             Delete, Truncate, UploaderKilled, uploaderVars, passVars, pipelineVars
    <2>2. Believed(fresh, path, Past \union batch) /\ ~ Emptied(path) /\ ~ Delete
      BY <1>0, <2>1 DEF FilesAreTrue, Emptied, Truncate, Delete
    <2>3. PICK S : S = Past \union batch
      OBVIOUS
    <2>4. PICK T : T = Past' \union batch
      OBVIOUS
    <2>5. PICK p \in Paths : p = path
      BY <1>0
    <2>6. PICK st \in FileState : st = fresh
      BY <1>0
    <2>7. S \subseteq T /\ Believed(st, p, S) /\ ~ Emptied(p)
      BY <1>0, <2>2, <2>3, <2>4, <2>5, <2>6
    <2>8. Believed(st, p, T)'
      BY <2>2, <2>7, StillBelieved
    <2>9. fresh' = st /\ path' = p /\ Past' \union batch' = T
      BY <2>1, <2>4, <2>5, <2>6
    <2> QED
      BY <2>8, <2>9 DEF Believed, Exists
  <1> QED
    BY <1>1, <1>2

LEMMA FilesTrueStep ==
  ASSUME FilesInv, FilesInv', [Next]_pipelineVars, SavedIsTrue, FilesAreTrue
  PROVE  FilesAreTrue'
  <1> SUFFICES ASSUME Plain \/ Calm'
               PROVE  /\ upc' # "idle" => \A p \in Paths : Believed(files[p], p, Past)'
                      /\ upc' = "read" => Believed(probe, path, Past)'
                      /\ upc' = "insert" => Believed(fresh, path, Past \union batch)'
    BY DEF FilesAreTrue, Plain
  <1> QED
    BY FilesStepTrue, ProbeStepTrue, FreshStepTrue

-----------------------------------------------------------------------------
(* Where a record can be found *)

LEMMA NothingInEmpty == RecordsIn(<<>>) = {}
  <1>1. PICK c \in Seq(Parts) : c = <<>> /\ Len(c) = 0
    BY EmptySeq
  <1>2. ASSUME NEW i \in IntactEnds(c, 0)
        PROVE  FALSE
    <2>1. 0 \in Nat /\ i \in IntactEnds(c, 0)
      BY <1>2
    <2>2. i \in 1 .. Len(c)
      BY <2>1, PlacesOfIntact
    <2> QED
      BY <1>1, <2>2
  <1>3. RecordsIn(c) = {}
    BY <1>2 DEF RecordsIn
  <1> QED
    BY <1>1, <1>3

LEMMA NoteTaken ==
  ASSUME FilesInv, [Next]_pipelineVars, Exposing
  PROVE  rec \in exposed' \/ UNCHANGED pipelineVars
  BY ExposedStep DEF FilesInv, Next

\* A record that is written to a file about to be removed is exposed; so all that
\* the file held when it was looked at, it still holds, and exposed records.
LEMMA CondemnedStep ==
  ASSUME FilesInv, [Next]_pipelineVars, NEW p \in Paths, NEW S,
         (upc \in {"delete", "truncate"} /\ p = path) \/ (apc = "unlink" /\ p = apath),
         dir[p] # NoInode => RecordsIn(data[dir[p]]) \subseteq S,
         dir'[p] # NoInode
  PROVE  RecordsIn(data'[dir'[p]]) \subseteq S \union exposed'
  <1>0. SpoolTypeOK
    BY DEF FilesInv, TypeOK
  <1>1. CASE Kept(p)
    <2>1. /\ dir[p] # NoInode /\ dir'[p] = dir[p] /\ data[dir[p]] \in Seq(Parts)
          /\ Grown(data[dir[p]], data'[dir[p]], rec)
      BY <1>0, <1>1, ContentOf DEF Kept, Exists
    <2>2. CASE data'[dir[p]] = data[dir[p]]
      BY <2>1, <2>2
    <2>3. CASE data'[dir[p]] # data[dir[p]]
      <3>1. wpc \in {"rotated", "half"} /\ wfp = dir[p]
        BY <1>1, <2>3 DEF Kept
      <3>2. Exposing
        BY <3>1 DEF Exposing, Condemned
      <3>3. rec \in exposed'
        BY <2>1, <2>3, <3>2, NoteTaken DEF pipelineVars, spoolVars
      <3>4. RecordsIn(data'[dir[p]]) \subseteq RecordsIn(data[dir[p]]) \union {rec}
        BY <2>1, RecordsGrown
      <3> QED
        BY <2>1, <3>3, <3>4
    <2> QED
      BY <2>2, <2>3
  <1>2. CASE Made(p)
    BY <1>2, NothingInEmpty DEF Made
  <1>3. CASE Emptied(p)
    BY <1>3, NothingInEmpty DEF Emptied
  <1> QED
    BY <1>1, <1>2, <1>3, Fate

LEMMA RemovalStep ==
  ASSUME FilesInv, FilesInv', [Next]_pipelineVars, FilesAreTrue, SentBeforeRemoval
  PROVE  SentBeforeRemoval'
  <1>0. /\ TypeOK /\ Past \subseteq Past' /\ path \in Paths /\ apath \in Paths
        /\ exposed \subseteq exposed'
        /\ \A d \in 0 .. MaxDay : archived[d] \subseteq archived'[d]
    BY HistoryStep DEF FilesInv, TypeOK, UploaderTypeOK, ArchiverTypeOK
  <1> SUFFICES ASSUME Calm'
               PROVE  /\ upc' \in {"delete", "truncate"} /\ dir'[path'] # NoInode =>
                           RecordsIn(data'[dir'[path']]) \subseteq Past'
                      /\ apc' = "unlink" /\ dir'[apath'] # NoInode =>
                           RecordsIn(data'[dir'[apath']])
                             \subseteq archived'[Day(apath')] \union exposed'
    BY DEF SentBeforeRemoval, Exists
  <1>1. Calm
    BY HistoryStep
  <1>2. ASSUME upc' \in {"delete", "truncate"}, dir'[path'] # NoInode
        PROVE  RecordsIn(data'[dir'[path']]) \subseteq Past'
    <2>1. CASE Check
      <3>1. /\ Exists(path) /\ files[path].offset = Size(path)
            /\ UNCHANGED <<dir, data, path>> /\ upc = "check"
        BY <1>2, <2>1 DEF Check, SentExactly, spoolVars, passVars
      <3>2. Believed(files[path], path, Past) /\ files[path] \in FileState
        BY <1>0, <1>1, <3>1, PassStates DEF FilesAreTrue
      <3>3. PICK S : S = Past
        OBVIOUS
      <3>5. exposed \subseteq S
        BY <3>3 DEF Past
      <3>4. RecordsIn(data[dir[path]]) \subseteq S
        BY <1>0, <3>1, <3>2, <3>3, <3>5, WholeIsSent
      <3> QED
        BY <1>0, <3>1, <3>3, <3>4
    <2>2. CASE ~ Check
      <3>1. upc \in {"delete", "truncate"} /\ path' = path
        BY <1>2, <2>2
           DEF Next, UploaderStep, BeginPass, NextFile, EndPass, Forgotten, Stat, Read,
               FileMissing, Abort, Insert, Refused, LostAck, RetryOrRaise, BatchesDone,
               Delete, Truncate, UploaderKilled, uploaderVars, passVars, pipelineVars
      <3>2. PICK S : S = Past
        OBVIOUS
      <3>3. PICK p \in Paths : p = path
        BY <1>0
      <3>4. dir[p] # NoInode => RecordsIn(data[dir[p]]) \subseteq S
        BY <1>1, <3>1, <3>2, <3>3 DEF SentBeforeRemoval, Exists
      <3>5. RecordsIn(data'[dir'[p]]) \subseteq S \union exposed'
        BY <1>2, <3>1, <3>3, <3>4, CondemnedStep
      <3> QED
        BY <1>0, <3>1, <3>2, <3>3, <3>5 DEF Past
    <2> QED
      BY <2>1, <2>2
  <1>3. ASSUME apc' = "unlink", dir'[apath'] # NoInode
        PROVE  RecordsIn(data'[dir'[apath']]) \subseteq archived'[Day(apath')] \union exposed'
    <2>1. CASE Compress
      <3>1. PICK p \in alist :
              /\ Exists(p)
              /\ apath' = p
              /\ archived' = [archived EXCEPT ![Day(p)] = @ \union RecordsIn(data[dir[p]])]
        BY <2>1 DEF Compress
      <3>2. UNCHANGED <<dir, data>>
        BY <2>1 DEF Compress, spoolVars
      <3>3. Day(p) \in 0 .. MaxDay /\ archived \in [0 .. MaxDay -> SUBSET Records]
        BY <1>0, PathParts DEF TypeOK, ArchiverTypeOK
      <3> QED
        BY <3>1, <3>2, <3>3
    <2>2. CASE ~ Compress
      <3>1. apc = "unlink" /\ apath' = apath
        BY <1>3, <2>2
           DEF Next, ArchiverStep, BeginArchive, ListFiles, Unlink, CompressFails, Expire,
               ArchiveEnds, archiverVars, pipelineVars
      <3>2. PICK S : S = archived[Day(apath)] \union exposed
        OBVIOUS
      <3>3. PICK p \in Paths : p = apath
        BY <1>0
      <3>4. dir[p] # NoInode => RecordsIn(data[dir[p]]) \subseteq S
        BY <1>1, <3>1, <3>2, <3>3 DEF SentBeforeRemoval, Exists
      <3>5. RecordsIn(data'[dir'[p]]) \subseteq S \union exposed'
        BY <1>3, <3>1, <3>3, <3>4, CondemnedStep
      <3>6. archived[Day(apath)] \subseteq archived'[Day(apath)]
        BY <1>0, PathParts
      <3> QED
        BY <1>0, <3>1, <3>2, <3>3, <3>5, <3>6
    <2> QED
      BY <2>1, <2>2
  <1> QED
    BY <1>2, <1>3

\* The writer between its steps: its file does not lose its name, nor its content,
\* without the record being exposed.
LEMMA InPlaceStays ==
  ASSUME FilesInv, [Next]_pipelineVars, LineInPlace, UNCHANGED <<wpc, wfp, wpath, rec>>,
         ~ WriterStep
  PROVE  LineInPlace'
  <1>0. /\ TypeOK /\ WriterAt /\ exposed \subseteq exposed' /\ wpath \in Paths
        /\ late \subseteq late'
        /\ dir \in [Paths -> Inodes \union {NoInode}] /\ data \in [Inodes -> Seq(Parts)]
    BY HistoryStep DEF FilesInv, TypeOK, SpoolTypeOK, WriterTypeOK
  <1> SUFFICES ASSUME wpc \in {"rotated", "half"}, rec \notin exposed',
                      Day(wpath) \notin late'
               PROVE  /\ dir'[wpath] = wfp /\ data'[wfp] = data[wfp]
    BY <1>0 DEF LineInPlace
  <1>1. dir[wpath] = wfp /\ wfp \in Inodes /\ wfp # NoInode
    BY <1>0 DEF LineInPlace, WriterAt, TypeOK, WriterTypeOK
  <1>2. wfp \notin Condemned \/ UNCHANGED pipelineVars
    BY NoteTaken DEF Exposing
  <1>3. CASE UNCHANGED pipelineVars
    BY <1>1, <1>3 DEF pipelineVars, spoolVars
  <1>4. CASE wfp \notin Condemned
    <2>1. CASE UploaderStep
      <3>1. CASE Removes(path) \/ Truncate
        <4>1. upc \in {"delete", "truncate"} \/ (apc = "unlink" /\ path = apath)
          BY <3>1 DEF Removes, Delete, Unlink, Truncate
        <4>2. wfp # dir[path] /\ path \in Paths
          BY <1>0, <1>4, <4>1 DEF Condemned, TypeOK, UploaderTypeOK
        <4> QED
          BY <1>0, <1>1, <3>1, <4>2 DEF Removes, Truncate
      <3> QED
        BY <1>1, <2>1, <3>1, UploaderEffect, <1>0
    <2>2. CASE ArchiverStep
      <3>1. CASE Removes(apath)
        <4>1. apc = "unlink" \/ (upc \in {"delete", "truncate"} /\ path = apath)
          BY <3>1 DEF Removes, Delete, Unlink
        <4>2. wfp # dir[apath] /\ apath \in Paths
          BY <1>0, <1>4, <4>1 DEF Condemned, TypeOK, ArchiverTypeOK
        <4> QED
          BY <1>0, <1>1, <3>1, <4>2 DEF Removes
      <3> QED
        BY <1>1, <2>2, <3>1, ArchiverEffect, <1>0
    <2>3. CASE Midnight
      BY <1>1, <2>3 DEF Midnight
    <2> QED
      BY <1>3, <2>1, <2>2, <2>3 DEF Next
  <1> QED
    BY <1>2, <1>3, <1>4

LEMMA InPlaceStep ==
  ASSUME FilesInv, FilesInv', [Next]_pipelineVars, LineInPlace
  PROVE  LineInPlace'
  <1>0. /\ TypeOK /\ WriterAt /\ exposed \subseteq exposed' /\ wpath \in Paths
        /\ late \subseteq late'
        /\ dir \in [Paths -> Inodes \union {NoInode}] /\ data \in [Inodes -> Seq(Parts)]
    BY HistoryStep DEF FilesInv, TypeOK, SpoolTypeOK, WriterTypeOK
  <1>1. CASE ~ WriterStep
    <2>1. UNCHANGED <<wpc, wfp, wpath, rec>>
      BY <1>1 DEF Next, writerVars, pipelineVars
    <2> QED
      BY <1>1, <2>1, InPlaceStays
  <1>2. CASE ReadDay \/ NextIndex \/ Close \/ OpenFails \/ AgentStops \/ Write \/ WriteTail
    <2>1. wpc' \in {"off", "ready", "choose", "open"}
      BY <1>2 DEF ReadDay, NextIndex, Chosen, Close, OpenFails, AgentStops, Write, WriteTail,
             Done
    <2> QED
      BY <2>1 DEF LineInPlace
  <1>3. CASE OpenOld \/ OpenNew
    <2>1. dir'[wpath'] = wfp' /\ wpc' # "half"
      BY <1>0, <1>3, OpensOwn
    <2> QED
      BY <2>1 DEF LineInPlace
  <1>5. CASE Keep
    <2>1. /\ wpc = "choose" /\ wpc' = "rotated" /\ wfp # NoInode /\ wpath = aim
          /\ MaxSize > 0 => Exists(aim)
          /\ UNCHANGED <<dir, wfp, wpath>>
      BY <1>5 DEF Keep, Chosen, Keeps, spoolVars
    <2> SUFFICES ASSUME Day(wpath) \notin late'
                 PROVE  dir[wpath] = wfp
      BY <2>1 DEF LineInPlace
    <2>2. CASE Exists(wpath)
      BY <1>0, <2>1, <2>2 DEF WriterAt, Exists
    <2>3. CASE ~ Exists(wpath)
      <3>1. MaxSize = 0
        BY <2>1, <2>3, WriterAssumption
      <3>2. Day(wpath) <= today /\ Day(wpath) \in 0 .. MaxDay /\ today \in Nat
        BY <1>0, PathParts DEF WriterAt, TypeOK, SpoolTypeOK
      <3>3. CASE Day(wpath) < today /\ Cleans
        <4>1. Day(wpath) \in Overtaken
          BY <2>1, <2>3, <3>2, <3>3 DEF Overtaken
        <4>2. Overtaken \subseteq late'
          BY <2>1 DEF Next, Note, pipelineVars, writerVars
        <4> QED
          BY <4>1, <4>2
      <3>4. CASE Day(wpath) = today \/ ~ Cleans
        BY <1>0, <2>1, <3>1, <3>4 DEF WriterAt
      <3> QED
        BY <3>2, <3>3, <3>4
    <2> QED
      BY <2>2, <2>3
  <1>4. CASE WriteHead
    <2> SUFFICES ASSUME rec' \notin exposed', Day(wpath') \notin late'
                 PROVE  /\ dir'[wpath'] = wfp'
                        /\ Len(data'[wfp']) > 0
                        /\ data'[wfp'][Len(data'[wfp'])] = <<rec', "head">>
                        /\ \/ Len(data'[wfp']) = 1
                           \/ data'[wfp'][Len(data'[wfp']) - 1][2] = "tail"
      BY DEF LineInPlace
    <2>1. /\ wpc = "rotated" /\ wpc' = "half" /\ UNCHANGED <<dir, wfp, wpath, rec>>
          /\ Put(<< <<rec, "head">> >>)
      BY <1>4 DEF WriteHead
    <2>2. /\ wfp \in Inodes /\ data[wfp] \in Seq(Parts)
          /\ Len(data[wfp]) \in Nat /\ Len(data'[wfp]) = Len(data[wfp]) + 1
          /\ \A j \in 1 .. Len(data[wfp]) : data'[wfp][j] = data[wfp][j]
          /\ data'[wfp][Len(data[wfp]) + 1] = <<rec, "head">>
      BY <1>0, <2>1, WritePartEffect
    <2>3. dir[wpath] = wfp
      BY <1>0, <2>1 DEF LineInPlace
    <2>4. ~ Exposing
      BY <2>1, NoteTaken DEF pipelineVars, writerVars
    <2>5. data[wfp] = <<>> \/ data[wfp][Len(data[wfp])][2] # "head"
      BY <2>1, <2>4 DEF Exposing, Last
    <2>6. CASE data[wfp] = <<>>
      BY <2>1, <2>2, <2>3, <2>6
    <2>7. CASE data[wfp] # <<>> /\ data[wfp][Len(data[wfp])][2] # "head"
      <3>1. Len(data[wfp]) > 0
        BY <2>2, <2>7, EmptySeq
      <3>2. data[wfp][Len(data[wfp])][2] = "tail"
        BY <2>2, <2>7, <3>1, PartsOfFile
      <3> QED
        BY <2>1, <2>2, <2>3, <3>1, <3>2
    <2> QED
      BY <2>5, <2>6, <2>7
  <1> QED
    BY <1>1, <1>2, <1>3, <1>4, <1>5 DEF WriterStep

\* The line that is completed is intact where it stands.
LEMMA CompletedLine ==
  ASSUME FilesInv, [Next]_pipelineVars, LineInPlace, Write \/ WriteTail, rec \notin exposed'
  PROVE  dir'[wpath] = wfp /\ wfp \in Inodes /\ rec \in RecordsIn(data'[wfp])
  <1>0. /\ TypeOK /\ WriterAt /\ exposed \subseteq exposed'
    BY HistoryStep DEF FilesInv
  <1>1. wpc \in {"rotated", "half"} /\ dir' = dir
    BY DEF Write, WriteTail
  <1>5. ~ Exposing
    BY <1>1, NoteTaken DEF pipelineVars, writerVars, Write, WriteTail, Done
  <1>6. Day(wpath) \notin late
    BY <1>1, <1>5 DEF Exposing
  <1>2. dir[wpath] = wfp
    BY <1>0, <1>1, <1>6 DEF LineInPlace
  <1>3. CASE Write
    <2>1. /\ wfp \in Inodes /\ data[wfp] \in Seq(Parts) /\ data'[wfp] \in Seq(Parts)
          /\ Len(data[wfp]) \in Nat /\ Len(data'[wfp]) = Len(data[wfp]) + 2
          /\ \A j \in 1 .. Len(data[wfp]) : data'[wfp][j] = data[wfp][j]
          /\ data'[wfp][Len(data[wfp]) + 1] = <<rec, "head">>
          /\ data'[wfp][Len(data[wfp]) + 2] = <<rec, "tail">>
      BY <1>0, <1>3, WriteEffect
    <2>2. ~ Exposing /\ wpc = "rotated"
      BY <1>3, NoteTaken DEF pipelineVars, writerVars, Write, Done
    <2>3. data[wfp] = <<>> \/ data[wfp][Len(data[wfp])][2] # "head"
      BY <2>2 DEF Exposing, Last
    <2>4. Len(data[wfp]) = 0 \/ data[wfp][Len(data[wfp])][2] = "tail"
      BY <2>1, <2>3, PartsOfFile
    <2>5. PICK d \in Seq(Parts) : d = data'[wfp]
      BY <2>1
    <2>6. PICK i \in Nat : i = Len(data[wfp]) + 2
      BY <2>1
    <2>7. /\ i \in 2 .. Len(d) /\ d[i] = <<rec, "tail">> /\ d[i - 1] = <<rec, "head">>
          /\ i - 2 = 0 \/ d[i - 2][2] = "tail"
      BY <2>1, <2>4, <2>5, <2>6
    <2>8. i \in IntactEnds(d, 0) /\ d[i][1] = rec
      BY <2>7, IntactFromStart
    <2> QED
      BY <1>1, <1>2, <2>1, <2>5, <2>8 DEF RecordsIn
  <1>4. CASE WriteTail
    <2>1. wpc = "half" /\ Put(<< <<rec, "tail">> >>)
      BY <1>4 DEF WriteTail
    <2>2. /\ wfp \in Inodes /\ data[wfp] \in Seq(Parts) /\ data'[wfp] \in Seq(Parts)
          /\ Len(data[wfp]) \in Nat /\ Len(data'[wfp]) = Len(data[wfp]) + 1
          /\ \A j \in 1 .. Len(data[wfp]) : data'[wfp][j] = data[wfp][j]
          /\ data'[wfp][Len(data[wfp]) + 1] = <<rec, "tail">>
      BY <1>0, <2>1, WritePartEffect
    <2>3. /\ Len(data[wfp]) > 0 /\ data[wfp][Len(data[wfp])] = <<rec, "head">>
          /\ Len(data[wfp]) = 1 \/ data[wfp][Len(data[wfp]) - 1][2] = "tail"
      BY <1>0, <1>6, <2>1 DEF LineInPlace
    <2>5. PICK d \in Seq(Parts) : d = data'[wfp]
      BY <2>2
    <2>6. PICK i \in Nat : i = Len(data[wfp]) + 1
      BY <2>2
    <2>9. PICK n \in Nat : n = Len(data[wfp])
      BY <2>2
    <2>10. /\ n > 0 /\ i = n + 1 /\ Len(d) = n + 1 /\ d[n + 1] = <<rec, "tail">>
           /\ \A j \in 1 .. n : d[j] = data[wfp][j]
      BY <2>2, <2>3, <2>5, <2>6, <2>9
    <2>14. data[wfp][n] = <<rec, "head">> /\ n \in 1 .. n
      BY <2>3, <2>9
    <2>15. \A j \in 1 .. n : d[j] = data[wfp][j]
      BY <2>10
    <2>11. d[n] = <<rec, "head">>
      BY <2>14, <2>15
    <2>12. n = 1 \/ d[n - 1][2] = "tail"
      <3>1. n = 1 \/ data[wfp][n - 1][2] = "tail"
        BY <2>3, <2>9
      <3>2. n = 1 \/ n - 1 \in 1 .. n
        BY <2>10
      <3> QED
        BY <2>15, <3>1, <3>2
    <2>13. i - 1 = n /\ i - 2 = n - 1
      BY <2>10
    <2>7. /\ i \in 2 .. Len(d) /\ d[i] = <<rec, "tail">> /\ d[i - 1] = <<rec, "head">>
          /\ i - 2 = 0 \/ d[i - 2][2] = "tail"
      BY <2>10, <2>11, <2>12, <2>13
    <2>8. i \in IntactEnds(d, 0) /\ d[i][1] = rec
      BY <2>7, IntactFromStart
    <2> QED
      BY <1>1, <1>2, <2>2, <2>5, <2>8 DEF RecordsIn
  <1> QED
    BY <1>3, <1>4

LEMMA LostStep ==
  ASSUME FilesInv, FilesInv', [Next]_pipelineVars, SentBeforeRemoval, LineInPlace,
         LostOnlyInRace
  PROVE  LostOnlyInRace'
  <1>0. /\ TypeOK /\ WriterAt /\ Past \subseteq Past' /\ exposed \subseteq exposed'
        /\ \A d \in 0 .. MaxDay : archived[d] \subseteq archived'[d]
        /\ written \subseteq Records /\ SpoolTypeOK
    BY HistoryStep DEF FilesInv, TypeOK, WriterTypeOK
  <1> SUFFICES ASSUME Calm', NEW r \in written'
               PROVE  r \in Past' \/ r \in Archived' \/ r \in InFiles'
    BY DEF LostOnlyInRace, Calm, Past
  <1>1. Calm /\ Archived \subseteq Archived'
    BY <1>0, HistoryStep DEF Archived
  <1>2. CASE r \in written
    <2>1. r \in Past \/ r \in Archived \/ r \in InFiles
      BY <1>1, <1>2 DEF LostOnlyInRace, Calm, Past
    <2>2. CASE r \in InFiles
      <3>1. PICK p \in Paths : Exists(p) /\ r \in RecordsIn(data[dir[p]])
        BY <2>2 DEF InFiles
      <3>2. data[dir[p]] \in Seq(Parts) /\ dir[p] # NoInode
        BY <1>0, <3>1, ContentOf DEF Exists
      <3>3. CASE Kept(p)
        <4>1. r \in RecordsIn(data'[dir[p]]) /\ dir'[p] = dir[p]
          BY <3>1, <3>2, <3>3, RecordsGrown DEF Kept
        <4> QED
          BY <3>2, <4>1 DEF InFiles, Exists
      <3>4. CASE Emptied(p)
        <4>1. upc \in {"delete", "truncate"} /\ p = path
          BY <3>4 DEF Emptied, Truncate
        <4> QED
          BY <1>0, <1>1, <3>1, <4>1 DEF SentBeforeRemoval
      <3>5. CASE Removes(p)
        <4>1. (upc \in {"delete", "truncate"} /\ p = path) \/ (apc = "unlink" /\ p = apath)
          BY <3>5 DEF Removes, Delete, Unlink
        <4>2. Day(p) \in 0 .. MaxDay
          BY PathParts
        <4> QED
          BY <1>0, <1>1, <3>1, <4>1, <4>2 DEF SentBeforeRemoval, Archived, Past
      <3> QED
        BY <3>2, <3>3, <3>4, <3>5, Fate DEF Made
    <2> QED
      BY <1>0, <1>1, <2>1, <2>2
  <1>3. CASE r \notin written
    <2>1. (Write \/ WriteTail) /\ r = rec
      BY <1>3 DEF Next, WriterStep, ReadDay, NextIndex,
               Keep, Close, OpenOld, OpenNew, Rotated, OpenFails, Write, WriteHead, WriteTail,
             AgentStops, Done, writerVars, pipelineVars
    <2>2. CASE rec \in exposed'
      BY <2>1, <2>2 DEF Past
    <2>3. CASE rec \notin exposed'
      <3>1. dir'[wpath] = wfp /\ wfp \in Inodes /\ rec \in RecordsIn(data'[wfp])
        BY <2>1, <2>3, CompletedLine
      <3>2. wpath \in Paths /\ wfp # NoInode
        BY <1>0, <3>1, NoSuchInode DEF TypeOK, WriterTypeOK
      <3> QED
        BY <2>1, <3>1, <3>2 DEF InFiles, Exists
    <2> QED
      BY <2>2, <2>3
  <1> QED
    BY <1>2, <1>3

-----------------------------------------------------------------------------
(* Nothing is sent twice *)

\* Where a part of a file comes from: it was there, or it is of the record at hand.
PartComes(i, j) ==
  \/ j \in DOMAIN data[i] /\ data'[i][j] = data[i][j]
  \/ /\ i = wfp /\ wpc = "rotated"
     /\ \/ j = Len(data[wfp]) + 1 /\ data'[i][j] = <<rec, "head">>
        \/ j = Len(data[wfp]) + 2 /\ data'[i][j] = <<rec, "tail">>
  \/ i = wfp /\ wpc = "half" /\ j = Len(data[wfp]) + 1 /\ data'[i][j] = <<rec, "tail">>

LEMMA PartsCome ==
  ASSUME FilesInv, FilesInv', [Next]_pipelineVars, NEW i \in Inodes,
         NEW j \in DOMAIN data'[i]
  PROVE  PartComes(i, j)
  <1>0. TypeOK /\ WriterAt /\ TypeOK'
    BY DEF FilesInv
  <1>1. data[i] \in Seq(Parts) /\ data'[i] \in Seq(Parts)
    BY <1>0 DEF TypeOK, SpoolTypeOK
  <1>2. /\ j \in 1 .. Len(data'[i]) /\ Len(data'[i]) \in Nat
        /\ DOMAIN data[i] = 1 .. Len(data[i]) /\ Len(data[i]) \in Nat
    BY <1>1, PartsOfFile
  <1>3. CASE ~ Write /\ ~ WriteHead /\ ~ WriteTail
    <2>1. data'[i] = data[i] \/ data'[i] = <<>>
      BY <1>0, <1>3, NothingWritten
    <2>2. Len(<<>>) = 0
      BY EmptySeq
    <2> QED
      BY <1>2, <2>1, <2>2 DEF PartComes
  <1>4. CASE Write
    <2>1. wpc = "rotated"
      BY <1>4 DEF Write
    <2>2. /\ \A k \in Inodes \ {wfp} : data'[k] = data[k]
          /\ Len(data[wfp]) \in Nat /\ Len(data'[wfp]) = Len(data[wfp]) + 2
          /\ \A k \in 1 .. Len(data[wfp]) : data'[wfp][k] = data[wfp][k]
          /\ data'[wfp][Len(data[wfp]) + 1] = <<rec, "head">>
          /\ data'[wfp][Len(data[wfp]) + 2] = <<rec, "tail">>
      BY <1>0, <1>4, WriteEffect
    <2> QED
      BY <1>2, <2>1, <2>2 DEF PartComes
  <1>5. CASE WriteHead
    <2>1. wpc = "rotated" /\ Put(<< <<rec, "head">> >>)
      BY <1>5 DEF WriteHead
    <2>2. /\ \A k \in Inodes \ {wfp} : data'[k] = data[k]
          /\ Len(data[wfp]) \in Nat /\ Len(data'[wfp]) = Len(data[wfp]) + 1
          /\ \A k \in 1 .. Len(data[wfp]) : data'[wfp][k] = data[wfp][k]
          /\ data'[wfp][Len(data[wfp]) + 1] = <<rec, "head">>
      BY <1>0, <2>1, WritePartEffect
    <2> QED
      BY <1>2, <2>1, <2>2 DEF PartComes
  <1>6. CASE WriteTail
    <2>1. wpc = "half" /\ Put(<< <<rec, "tail">> >>)
      BY <1>6 DEF WriteTail
    <2>2. /\ \A k \in Inodes \ {wfp} : data'[k] = data[k]
          /\ Len(data[wfp]) \in Nat /\ Len(data'[wfp]) = Len(data[wfp]) + 1
          /\ \A k \in 1 .. Len(data[wfp]) : data'[wfp][k] = data[wfp][k]
          /\ data'[wfp][Len(data[wfp]) + 1] = <<rec, "tail">>
      BY <1>0, <2>1, WritePartEffect
    <2> QED
      BY <1>2, <2>1, <2>2 DEF PartComes
  <1> QED
    BY <1>3, <1>4, <1>5, <1>6

LEMMA PartsApartStep ==
  ASSUME FilesInv, FilesInv', [Next]_pipelineVars, PartsApart
  PROVE  PartsApart'
  <1> SUFFICES ASSUME NEW i \in Inodes, NEW k \in Inodes,
                      NEW j \in DOMAIN data'[i], NEW l \in DOMAIN data'[k],
                      data'[i][j] = data'[k][l]
               PROVE  i = k /\ j = l
    BY DEF PartsApart
  <1>1. PartComes(i, j) /\ PartComes(k, l)
    BY PartsCome
  <1>2. rec \in Nat
    BY DEF FilesInv, TypeOK, WriterTypeOK
  <1>3. ASSUME NEW f \in Inodes, NEW n \in DOMAIN data[f]
        PROVE  /\ wpc = "rotated" => data[f][n] # <<rec, "head">> /\ data[f][n] # <<rec, "tail">>
               /\ wpc = "half" => data[f][n] # <<rec, "tail">>
    <2>1. data[f][n][1] < rec \/ (wpc = "half" /\ data[f][n] = <<rec, "head">>)
      BY DEF FilesInv, PartsOfPast
    <2>2. CASE data[f][n][1] < rec
      BY <1>2, <2>2
    <2>3. CASE wpc = "half" /\ data[f][n] = <<rec, "head">>
      BY <2>3
    <2> QED
      BY <2>1, <2>2, <2>3
  <1>4. CASE j \in DOMAIN data[i] /\ data'[i][j] = data[i][j]
    <2>2. data'[k][l] = data[i][j]
      BY <1>4
    <2>3. /\ wpc = "rotated" =>
               data'[k][l] # <<rec, "head">> /\ data'[k][l] # <<rec, "tail">>
          /\ wpc = "half" => data'[k][l] # <<rec, "tail">>
      BY <1>3, <1>4, <2>2
    <2>1. l \in DOMAIN data[k] /\ data'[k][l] = data[k][l]
      BY <1>1, <2>3 DEF PartComes
    <2>4. data[i][j] = data[k][l]
      BY <2>1, <2>2
    <2> QED
      BY <1>4, <2>1, <2>4 DEF PartsApart
  <1>5. CASE l \in DOMAIN data[k] /\ data'[k][l] = data[k][l]
    <2>2. data'[i][j] = data[k][l]
      BY <1>5
    <2>3. /\ wpc = "rotated" =>
               data'[i][j] # <<rec, "head">> /\ data'[i][j] # <<rec, "tail">>
          /\ wpc = "half" => data'[i][j] # <<rec, "tail">>
      BY <1>3, <1>5, <2>2
    <2>1. j \in DOMAIN data[i] /\ data'[i][j] = data[i][j]
      BY <1>1, <2>3 DEF PartComes
    <2>4. data[i][j] = data[k][l]
      BY <2>1, <2>2
    <2> QED
      BY <1>5, <2>1, <2>4 DEF PartsApart
  <1>6. <<rec, "head">> # <<rec, "tail">>
    OBVIOUS
  <1> QED
    BY <1>1, <1>4, <1>5, <1>6 DEF PartComes

\* What lies behind the offset stays unsent: new parts are of a record that was
\* never sent.
LEMMA UnsentStays ==
  ASSUME FilesInv, FilesInv', [Next]_pipelineVars, NEW p \in Paths, dir'[p] # NoInode,
         NEW o \in Nat,
         dir[p] # NoInode => \A j \in DOMAIN data[dir[p]] :
                               j > o => stored'[data[dir[p]][j][1]] = 0,
         rec \in Records => stored'[rec] = 0
  PROVE  \A j \in DOMAIN data'[dir'[p]] : j > o => stored'[data'[dir'[p]][j][1]] = 0
  <1>1. CASE dir[p] # NoInode /\ dir'[p] = dir[p]
    <2>1. dir[p] \in Inodes
      BY <1>1 DEF FilesInv, TypeOK, SpoolTypeOK
    <2>2. ASSUME NEW j \in DOMAIN data'[dir[p]], j > o
          PROVE  stored'[data'[dir[p]][j][1]] = 0
      <3>1. PartComes(dir[p], j)
        BY <2>1, PartsCome
      <3>2. wpc \in {"rotated", "half"} => rec \in Records
        BY DEF FilesInv, TypeOK, WriterTypeOK, WriterAt, Records
      <3> QED
        BY <1>1, <2>2, <3>1, <3>2 DEF PartComes
    <2> QED
      BY <1>1, <2>2
  <1>2. CASE Made(p) \/ Emptied(p)
    <2>1. data'[dir'[p]] = <<>>
      BY <1>2 DEF Made, Emptied
    <2>2. DOMAIN data'[dir'[p]] = {}
      BY <2>1
    <2> QED
      BY <2>2
  <1> QED
    BY <1>1, <1>2, Fate DEF Kept

\* While no pass is left before its end and no answer is lost.
LEMMA OnceFacts ==
  ASSUME FilesInv, [Next]_pipelineVars, SentOnce, Calm', lostAcks' = 0, late' = {}
  PROVE  /\ Calm /\ lostAcks = 0 /\ late = {} /\ ~ LostAck
         /\ stored \in [Records -> 0 .. 2]
         /\ rec \in Nat /\ rec' \in Nat /\ rec <= rec'
         /\ \A r \in Records : stored[r] <= 1 /\ (stored[r] = 1 => r < rec)
         /\ rec \in Records => stored[rec] = 0
         /\ ~ Insert => stored' = stored
  <1>1. Calm /\ TypeOK /\ WriterAt /\ late = {}
    BY HistoryStep DEF FilesInv
  <1>2. lostAcks \in Nat /\ stored \in [Records -> 0 .. 2]
    BY <1>1 DEF TypeOK, UploaderTypeOK
  <1>3. ~ LostAck
    BY <1>2 DEF LostAck
  <1>4. lostAcks' = lostAcks /\ (~ Insert => stored' = stored)
    BY <1>3 DEF Next, UploaderStep, BeginPass, NextFile, EndPass, Stat, Read, FileMissing,
           Insert, Refused, BatchesDone, Check, Delete, Truncate, UploaderKilled,
           uploaderVars, upFaults, pipelineVars
  <1>5. rec' \in {rec, rec + 1} /\ rec \in Nat
    BY <1>1, DirectoryStep
  <1>6. \A r \in Records : stored[r] <= 1 /\ (stored[r] = 1 => r < rec)
    BY <1>1, <1>4 DEF SentOnce
  <1>7. rec \in Records => stored[rec] = 0
    BY <1>2, <1>5, <1>6
  <1> QED
    BY <1>1, <1>2, <1>3, <1>4, <1>5, <1>6, <1>7

LEMMA StoredOnce ==
  ASSUME FilesInv, [Next]_pipelineVars, SentOnce, Calm', lostAcks' = 0, late' = {}
  PROVE  /\ \A r \in Records : stored'[r] <= 1 /\ (stored'[r] = 1 => r < rec')
         /\ rec \in Records => stored'[rec] = 0
  <1>1. /\ Calm /\ lostAcks = 0 /\ late = {} /\ stored \in [Records -> 0 .. 2]
        /\ rec \in Nat /\ rec' \in Nat /\ rec <= rec'
        /\ \A r \in Records : stored[r] <= 1 /\ (stored[r] = 1 => r < rec)
        /\ rec \in Records => stored[rec] = 0
        /\ ~ Insert => stored' = stored
    BY OnceFacts
  <1>2. Records \subseteq Nat
    BY DEF Records
  <1>3. CASE Insert
    <2>1. /\ \A r \in batch : stored[r] = 0 /\ r < rec
          /\ \A r \in Records :
               stored'[r] = IF r \in batch /\ stored[r] < 2 THEN stored[r] + 1 ELSE stored[r]
      BY <1>1, <1>3 DEF Insert, Store, SentOnce
    <2>2. \A r \in Records : /\ r \in batch => stored'[r] = 1 /\ r < rec
                             /\ r \notin batch => stored'[r] = stored[r]
      BY <2>1
    <2>3. rec \in Records => rec \notin batch
      BY <1>1, <2>1
    <2> QED
      BY <1>1, <1>2, <2>2, <2>3
  <1> QED
    BY <1>1, <1>2, <1>3

\* What a batch ends with: nothing behind it was sent.
LEMMA ReadUnsent ==
  ASSUME FilesInv, [Next]_pipelineVars, FilesAreTrue, SentOnce, Calm', lostAcks' = 0, late' = {}, Read
  PROVE  LET c == data[dir[path]]
         IN  /\ ReadTo(c, probe.offset) \in Nat /\ probe.offset \in Nat /\ c \in Seq(Parts)
             /\ \A j \in DOMAIN c : j > probe.offset => stored[c[j][1]] = 0
             /\ \A j \in DOMAIN c : j > ReadTo(c, probe.offset) => stored[c[j][1]] = 0
  <1> DEFINE c == data[dir[path]]
             T == Past' \union {c[i][1] : i \in IntactEnds(c, probe.offset)}
  <1>1. Calm /\ lostAcks = 0 /\ late = {} /\ TypeOK /\ upc = "read" /\ Exists(path)
    BY OnceFacts DEF FilesInv, Read
  <1>2. /\ probe \in FileState /\ probe.offset \in Nat /\ path \in Paths
        /\ probe.inode # NoInode /\ Believed(probe, path, Past)
    BY <1>1, PassStates DEF FilesAreTrue, FilesInv, PassAt
  <1>3. c \in Seq(Parts)
    BY <1>1, <1>2, ContentOf DEF TypeOK
  <1>4. \A j \in DOMAIN c : j > probe.offset => stored[c[j][1]] = 0
    BY <1>1 DEF SentOnce, Unsent
  <1>5. PICK S : S = T
    OBVIOUS
  <1>6. /\ Past' \subseteq S
        /\ \A i \in IntactEnds(c, probe.offset) : i <= ReadTo(c, probe.offset) => c[i][1] \in S
    BY <1>5
  <1> HIDE DEF T
  <1>7. ReadTo(c, probe.offset) >= probe.offset
    BY <1>2, <1>6, ReadBelieved
  <1>8. ReadTo(c, probe.offset) \in Nat
    BY <1>2, <1>3, ReadToEnd
  <1>9. DOMAIN c = 1 .. Len(c) /\ Len(c) \in Nat
    BY <1>3, PartsOfFile
  <1>10. ASSUME NEW j \in DOMAIN c, j > ReadTo(c, probe.offset)
         PROVE  stored[c[j][1]] = 0
    <2>1. j > probe.offset
      BY <1>2, <1>7, <1>8, <1>9, <1>10
    <2> QED
      BY <1>4, <2>1
  <1> QED
    BY <1>2, <1>3, <1>4, <1>8, <1>10

\* The offset of a file that the next pass, or the rest of this one, starts from.
LEMMA UnsentStep ==
  ASSUME FilesInv, FilesInv', [Next]_pipelineVars, FilesAreTrue, SentOnce, Calm',
         lostAcks' = 0, late' = {}, NEW p \in Paths, dir'[p] # NoInode, NEW o \in Nat,
         o = IF upc' = "idle" THEN saved'[p].offset ELSE files'[p].offset
  PROVE  \A j \in DOMAIN data'[dir'[p]] : j > o => stored'[data'[dir'[p]][j][1]] = 0
  <1>1. /\ Calm /\ lostAcks = 0 /\ late = {} /\ ~ LostAck /\ TypeOK
        /\ files \in [Paths -> FileState] /\ saved \in [Paths -> FileState]
        /\ ~ Insert => stored' = stored
    BY OnceFacts DEF FilesInv, TypeOK, UploaderTypeOK
  <1>2. rec \in Records => stored'[rec] = 0
    BY StoredOnce
  <1>3. dir[p] # NoInode =>
          \A j \in DOMAIN data[dir[p]] :
            j > (IF upc = "idle" THEN saved[p].offset ELSE files[p].offset)
              => stored[data[dir[p]][j][1]] = 0
    BY <1>1 DEF SentOnce, Unsent, Exists
  <1>4. ASSUME dir[p] # NoInode => \A j \in DOMAIN data[dir[p]] :
                                     j > o => stored'[data[dir[p]][j][1]] = 0
        PROVE  \A j \in DOMAIN data'[dir'[p]] : j > o => stored'[data'[dir'[p]][j][1]] = 0
    BY <1>2, <1>4, UnsentStays
  <1>5. CASE /\ o = IF upc = "idle" THEN saved[p].offset ELSE files[p].offset
             /\ ~ Insert
    BY <1>1, <1>3, <1>4, <1>5
  <1>6. CASE upc = "idle"
    <2>1. BeginPass \/ (UNCHANGED <<upc, saved>>)
      BY <1>6 DEF Next, UploaderStep, NextFile, EndPass, Stat, Read, FileMissing, Insert,
             Refused, LostAck, BatchesDone, Check, Delete, Truncate, UploaderKilled,
             uploaderVars, pipelineVars
    <2>2. ~ Insert
      BY <1>6 DEF Insert
    <2>3. CASE UNCHANGED <<upc, saved>>
      BY <1>5, <1>6, <2>2, <2>3
    <2>4. CASE BeginPass
      <3>1. files'[p] = (IF Exists(p) THEN saved[p] ELSE Blank) /\ upc' = "next"
        BY <2>4 DEF BeginPass
      <3>2. dir[p] # NoInode => o = saved[p].offset
        BY <3>1 DEF Exists
      <3> QED
        BY <1>1, <1>3, <1>4, <1>6, <2>2, <3>2
    <2> QED
      BY <2>1, <2>3, <2>4
  <1>7. CASE upc # "idle" /\ upc' = "idle"
    <2>1. EndPass \/ aborted' = 1 \/ upKills' = upKills + 1
      BY <1>1, <1>7
         DEF Next, UploaderStep, BeginPass, NextFile, Stat, Read, FileMissing,
             Insert, Refused, RetryOrRaise, Abort, BatchesDone, Check, Delete, Truncate,
             UploaderKilled, uploaderVars, passVars, pipelineVars
    <2>2. upKills \in Nat
      BY <1>1 DEF TypeOK, UploaderTypeOK
    <2>3. EndPass
      BY <2>1, <2>2 DEF Calm
    <2>4. saved' = files /\ ~ Insert
      BY <2>3 DEF EndPass, Insert
    <2> QED
      BY <1>5, <1>7, <2>4
  <1>8. CASE upc # "idle" /\ upc' # "idle"
    <2>1. o = files'[p].offset
      BY <1>8
    <2>2. CASE files'[p] = files[p] /\ ~ Insert
      BY <1>5, <1>8, <2>1, <2>2
    <2>3. CASE Insert
      <3>1. /\ upc = "insert" /\ files' = [files EXCEPT ![path] = fresh] /\ path \in Paths
            /\ \A r \in Records : r \notin batch => stored'[r] = stored[r]
        BY <1>1, <2>3 DEF Insert, Store, TypeOK, UploaderTypeOK
      <3>2. /\ dir[p] # NoInode => \A j \in DOMAIN data[dir[p]] :
                 data[dir[p]][j][1] \in batch => p = path /\ j <= fresh.offset
            /\ dir[path] # NoInode => \A j \in DOMAIN data[dir[path]] :
                 j > fresh.offset => stored[data[dir[path]][j][1]] = 0
        BY <1>1, <3>1 DEF SentOnce, Unsent, Exists
      <3>3. dir[p] # NoInode => \A j \in DOMAIN data[dir[p]] :
              data[dir[p]][j][1] \in Records /\ j \in Nat
        BY <1>1, ContentOf, PartsOfFile DEF TypeOK, Exists
      <3>4. fresh.offset \in Nat
        BY <1>1, PassStates
      <3>5. CASE p = path
        <4>1. o = fresh.offset
          BY <1>1, <2>1, <3>1, <3>5
        <4> QED
          BY <1>4, <3>1, <3>2, <3>3, <3>4, <3>5, <4>1
      <3>6. CASE p # path
        <4>1. o = files[p].offset
          BY <1>1, <2>1, <3>1, <3>6
        <4> QED
          BY <1>3, <1>4, <1>8, <3>1, <3>2, <3>3, <3>6, <4>1
      <3> QED
        BY <3>5, <3>6
    <2>4. CASE Read /\ p = path
      <3>1. /\ o = ReadTo(data[dir[p]], probe.offset) \/ files'[p] = files[p]
        BY <1>1, <2>1, <2>4 DEF Read
      <3>2. \A j \in DOMAIN data[dir[p]] : j > ReadTo(data[dir[p]], probe.offset)
              => stored[data[dir[p]][j][1]] = 0
        BY <2>4, ReadUnsent
      <3>3. ~ Insert
        BY <2>4 DEF Read, Insert
      <3> QED
        BY <1>1, <1>4, <2>2, <3>1, <3>2, <3>3
    <2>5. CASE Delete /\ p = path
      <3>1. dir'[p] = NoInode
        BY <1>1, <2>5 DEF Delete, TypeOK, SpoolTypeOK
      <3> QED
        BY <3>1
    <2>6. CASE Truncate /\ p = path
      <3>1. data'[dir'[p]] = <<>>
        BY <1>1, <2>6, ContentOf DEF Truncate, TypeOK, SpoolTypeOK
      <3>2. DOMAIN data'[dir'[p]] = {}
        BY <3>1
      <3> QED
        BY <3>2
    <2>7. files'[p] = files[p] \/ Insert \/ (p = path /\ (Read \/ Delete \/ Truncate))
      BY <1>1, <1>8
         DEF Next, UploaderStep, BeginPass, NextFile, EndPass, Forgotten, Stat, FileMissing,
             Abort, Read, Refused, RetryOrRaise, BatchesDone, Check, Delete,
             Truncate, UploaderKilled, uploaderVars, passVars, pipelineVars
    <2> QED
      BY <2>2, <2>3, <2>4, <2>5, <2>6, <2>7
  <1> QED
    BY <1>6, <1>7, <1>8

LEMMA ProbeUnsent ==
  ASSUME FilesInv, FilesInv', [Next]_pipelineVars, FilesAreTrue, SentOnce, Calm',
         lostAcks' = 0, late' = {}, upc' = "read", dir'[path'] # NoInode, NEW o \in Nat,
         o = probe'.offset
  PROVE  \A j \in DOMAIN data'[dir'[path']] :
           j > o => stored'[data'[dir'[path']][j][1]] = 0
  <1>1. /\ Calm /\ lostAcks = 0 /\ late = {} /\ TypeOK /\ path \in Paths
        /\ ~ Insert => stored' = stored
    BY OnceFacts DEF FilesInv, TypeOK, UploaderTypeOK
  <1>2. ~ Insert
    BY DEF Insert
  <1>3. rec \in Records => stored'[rec] = 0
    BY StoredOnce
  <1>4. PICK p \in Paths : p = path
    BY <1>1
  <1>5. path' = path
    BY DEF Next, UploaderStep, BeginPass, NextFile, EndPass, Forgotten, Stat, Read,
           FileMissing, Abort, Insert, Refused, LostAck, RetryOrRaise, BatchesDone, Check,
           Delete, Truncate, UploaderKilled, uploaderVars, passVars, pipelineVars
  <1>6. dir[p] # NoInode => \A j \in DOMAIN data[dir[p]] :
                              j > o => stored[data[dir[p]][j][1]] = 0
    <2>1. CASE Stat
      <3>1. upc = "stat" /\ Believed(files[path], path, Past)
        BY <1>1, <2>1 DEF Stat, FilesAreTrue
      <3>2. PICK S : S = Past
        OBVIOUS
      <3>3. Believed(files[path], path, S)
        BY <3>1, <3>2
      <3>4. probe'.offset = files[path].offset
        BY <1>1, <2>1, <3>3, StatEffect DEF AllExposed
      <3> QED
        BY <1>1, <1>4, <3>1, <3>4 DEF SentOnce, Unsent, Exists
    <2>2. CASE ~ Stat
      <3>1. upc = "read" /\ probe' = probe
        BY <2>2 DEF Next, UploaderStep, BeginPass, NextFile, EndPass, Forgotten, Read,
               FileMissing, Abort, Insert, Refused, LostAck, RetryOrRaise, BatchesDone,
               Check, Delete, Truncate, UploaderKilled, uploaderVars, passVars, pipelineVars
      <3> QED
        BY <1>1, <1>4, <3>1 DEF SentOnce, Unsent, Exists
    <2> QED
      BY <2>1, <2>2
  <1>7. dir'[p] # NoInode
    BY <1>4, <1>5
  <1>8. \A j \in DOMAIN data'[dir'[p]] : j > o => stored'[data'[dir'[p]][j][1]] = 0
    BY <1>1, <1>2, <1>3, <1>6, <1>7, UnsentStays
  <1> QED
    BY <1>4, <1>5, <1>8

\* A batch is of records that were not sent, whose parts lie in the current file
\* before the end of the batch.
LEMMA BatchRead ==
  ASSUME FilesInv, [Next]_pipelineVars, FilesAreTrue, PartsApart, SentOnce, Calm',
         lostAcks' = 0, late' = {}, Read,
         NEW i \in IntactEnds(data[dir[path]], probe.offset),
         i <= ReadTo(data[dir[path]], probe.offset)
  PROVE  LET r == data[dir[path]][i][1]
         IN  /\ r \in Records /\ stored[r] = 0 /\ r < rec
             /\ \A p \in Paths : dir[p] # NoInode => \A j \in DOMAIN data[dir[p]] :
                  data[dir[p]][j][1] = r =>
                    p = path /\ j <= ReadTo(data[dir[path]], probe.offset)
  <1> DEFINE c == data[dir[path]]
             to == ReadTo(c, probe.offset)
  <1>1. /\ probe.offset \in Nat /\ c \in Seq(Parts) /\ to \in Nat
        /\ \A j \in DOMAIN c : j > probe.offset => stored[c[j][1]] = 0
    BY ReadUnsent
  <1>2. /\ TypeOK /\ NamesApart /\ PartsOfPast /\ path \in Paths /\ dir[path] # NoInode
        /\ dir[path] \in Inodes
    BY ContentOf DEF Read, FilesInv, TypeOK, UploaderTypeOK, Exists
  <1>3. /\ i \in probe.offset + 2 .. Len(c) /\ c[i][2] = "tail"
        /\ c[i - 1] = <<c[i][1], "head">> /\ i <= to
    BY <1>1, IntactPlaces
  <1>4. DOMAIN c = 1 .. Len(c) /\ Len(c) \in Nat
    BY <1>1, PartsOfFile
  <1>5. i \in DOMAIN c /\ i - 1 \in DOMAIN c /\ i > probe.offset /\ i - 1 <= to
    BY <1>1, <1>3, <1>4
  <1> HIDE DEF to, c
  <1>6. c[i] \in Parts /\ c[i][1] \in Records
    BY <1>1, <1>4, <1>5, PartsOfFile
  <1>7. c[i] = <<c[i][1], "tail">>
    BY <1>3, <1>6 DEF Parts
  <1>8. c[i][1] < rec
    <2>1. c[i][1] < rec \/ c[i] = <<rec, "head">>
      BY <1>2, <1>5 DEF PartsOfPast, c
    <2>2. c[i] # <<rec, "head">>
      BY <1>3
    <2> QED
      BY <2>1, <2>2
  <1>9. ASSUME NEW p \in Paths, dir[p] # NoInode, NEW j \in DOMAIN data[dir[p]],
               data[dir[p]][j][1] = c[i][1]
        PROVE  p = path /\ j <= to
    <2>1. dir[p] \in Inodes /\ data[dir[p]] \in Seq(Parts)
      BY <1>2, <1>9, ContentOf DEF TypeOK, Exists
    <2>2. data[dir[p]][j] \in Parts
      BY <2>1, PartsOfFile
    <2>3. data[dir[p]][j] = c[i] \/ data[dir[p]][j] = c[i - 1]
      BY <1>3, <1>7, <1>9, <2>2 DEF Parts
    <2>4. dir[p] = dir[path] /\ (j = i \/ j = i - 1)
      BY <1>2, <1>5, <2>1, <2>3 DEF PartsApart, c
    <2>5. p = path
      BY <1>2, <1>9, <2>4 DEF NamesApart, Exists
    <2> QED
      BY <1>3, <1>5, <2>4, <2>5
  <1> QED
    BY <1>1, <1>5, <1>6, <1>8, <1>9 DEF to, c

LEMMA BatchUnsent ==
  ASSUME FilesInv, FilesInv', [Next]_pipelineVars, FilesAreTrue, PartsApart, SentOnce,
         Calm', lostAcks' = 0, late' = {}, upc' = "insert", NEW o \in Nat, o = fresh'.offset
  PROVE  /\ \A r \in batch' : stored'[r] = 0 /\ r < rec'
         /\ \A p \in Paths : dir'[p] # NoInode => \A j \in DOMAIN data'[dir'[p]] :
              data'[dir'[p]][j][1] \in batch' => p = path' /\ j <= o
         /\ dir'[path'] # NoInode => \A j \in DOMAIN data'[dir'[path']] :
              j > o => stored'[data'[dir'[path']][j][1]] = 0
  <1>1. /\ Calm /\ lostAcks = 0 /\ late = {} /\ TypeOK /\ path \in Paths /\ batch \subseteq Records
        /\ ~ Insert => stored' = stored
        /\ rec \in Nat /\ rec' \in Nat /\ rec <= rec'
    BY OnceFacts DEF FilesInv, TypeOK, UploaderTypeOK
  <1>2. stored' = stored
    BY <1>1 DEF Insert
  <1>3. CASE Read
    <2> DEFINE c == data[dir[path]]
               to == ReadTo(c, probe.offset)
    <2>1. /\ batch' = {c[i][1] : i \in {j \in IntactEnds(c, probe.offset) : j <= to}}
          /\ fresh' = [inode |-> probe.inode, offset |-> to, size |-> probe.size]
          /\ UNCHANGED <<dir, data, path>>
      BY <1>3 DEF Read, spoolVars
    <2>2. o = to
      BY <2>1
    <2>3. ASSUME NEW r \in batch'
          PROVE  /\ stored[r] = 0 /\ r < rec /\ r \in Records
                 /\ \A p \in Paths : dir[p] # NoInode => \A j \in DOMAIN data[dir[p]] :
                      data[dir[p]][j][1] = r => p = path /\ j <= to
      <3>1. PICK i \in IntactEnds(c, probe.offset) : i <= to /\ r = c[i][1]
        BY <2>1
      <3> QED
        BY <1>3, <3>1, BatchRead
    <2>4. \A j \in DOMAIN c : j > to => stored[c[j][1]] = 0
      BY <1>3, ReadUnsent
    <2>5. \A r \in batch' : r < rec'
      BY <1>1, <2>3 DEF Records
    <2> QED
      BY <1>2, <2>1, <2>2, <2>3, <2>4, <2>5
  <1>4. CASE ~ Read
    <2>1. upc = "insert" /\ fresh' = fresh /\ path' = path /\ batch' = batch
      BY <1>4 DEF Next, UploaderStep, BeginPass, NextFile, EndPass, Forgotten, Stat,
             FileMissing, Abort, Insert, Refused, LostAck, RetryOrRaise, BatchesDone, Check,
             Delete, Truncate, UploaderKilled, uploaderVars, passVars, pipelineVars
    <2>2. /\ \A r \in batch : stored[r] = 0 /\ r < rec
          /\ \A p \in Paths : dir[p] # NoInode => \A j \in DOMAIN data[dir[p]] :
               data[dir[p]][j][1] \in batch => p = path /\ j <= o
          /\ dir[path] # NoInode => \A j \in DOMAIN data[dir[path]] :
               j > o => stored[data[dir[path]][j][1]] = 0
      BY <1>1, <2>1 DEF SentOnce, Unsent, Exists
    <2>3. \A r \in batch : r < rec'
      <3>1. \A r \in batch : r \in Int /\ r < rec
        BY <1>1, <2>2 DEF Records
      <3> QED
        BY <1>1, <3>1
    <2>4. rec \notin batch
      BY <1>1, <2>2
    <2>5. ASSUME NEW p \in Paths, dir'[p] # NoInode, NEW j \in DOMAIN data'[dir'[p]],
                 data'[dir'[p]][j][1] \in batch
          PROVE  p = path /\ j <= o
      <3>1. CASE dir[p] # NoInode /\ dir'[p] = dir[p]
        <4>1. PartComes(dir[p], j)
          <5>1. dir[p] \in Inodes
            BY <1>1, <3>1 DEF TypeOK, SpoolTypeOK
          <5> QED
            BY <2>5, <3>1, <5>1, PartsCome
        <4> QED
          BY <2>2, <2>4, <2>5, <3>1, <4>1 DEF PartComes
      <3>2. CASE Made(p) \/ Emptied(p)
        <4>1. data'[dir'[p]] = <<>>
          BY <3>2 DEF Made, Emptied
        <4> QED
          BY <2>5, <4>1
      <3> QED
        BY <2>5, <3>1, <3>2, Fate DEF Kept
    <2>6. ASSUME dir'[path] # NoInode
          PROVE  \A j \in DOMAIN data'[dir'[path]] :
                   j > o => stored'[data'[dir'[path]][j][1]] = 0
      <3>1. rec \in Records => stored'[rec] = 0
        BY StoredOnce
      <3>2. PICK p \in Paths : p = path
        BY <1>1
      <3>3. /\ dir'[p] # NoInode
            /\ dir[p] # NoInode => \A j \in DOMAIN data[dir[p]] :
                 j > o => stored'[data[dir[p]][j][1]] = 0
        BY <1>2, <2>2, <2>6, <3>2
      <3>4. \A j \in DOMAIN data'[dir'[p]] : j > o => stored'[data'[dir'[p]][j][1]] = 0
        BY <3>1, <3>3, UnsentStays
      <3> QED
        BY <3>2, <3>4
    <2> QED
      BY <1>2, <2>1, <2>2, <2>3, <2>5, <2>6
  <1> QED
    BY <1>3, <1>4

LEMMA OnceStep ==
  ASSUME FilesInv, FilesInv', [Next]_pipelineVars, FilesAreTrue, PartsApart, SentOnce
  PROVE  SentOnce'
  <1> SUFFICES ASSUME Calm', lostAcks' = 0, late' = {}
               PROVE  /\ \A r \in Records : stored'[r] <= 1 /\ (stored'[r] = 1 => r < rec')
                      /\ \A p \in Paths : dir'[p] # NoInode =>
                           \A j \in DOMAIN data'[dir'[p]] :
                             j > (IF upc' = "idle" THEN saved'[p].offset ELSE files'[p].offset)
                               => stored'[data'[dir'[p]][j][1]] = 0
                      /\ upc' = "read" /\ dir'[path'] # NoInode =>
                           \A j \in DOMAIN data'[dir'[path']] :
                             j > probe'.offset => stored'[data'[dir'[path']][j][1]] = 0
                      /\ upc' = "insert" =>
                           /\ \A r \in batch' : stored'[r] = 0 /\ r < rec'
                           /\ \A p \in Paths : dir'[p] # NoInode =>
                                \A j \in DOMAIN data'[dir'[p]] :
                                  data'[dir'[p]][j][1] \in batch' =>
                                    p = path' /\ j <= fresh'.offset
                           /\ dir'[path'] # NoInode => \A j \in DOMAIN data'[dir'[path']] :
                                j > fresh'.offset => stored'[data'[dir'[path']][j][1]] = 0
    BY DEF SentOnce, Unsent, Exists
  <1>1. /\ saved' \in [Paths -> FileState] /\ files' \in [Paths -> FileState]
        /\ probe' \in FileState /\ fresh' \in FileState
    BY DEF FilesInv, TypeOK, UploaderTypeOK
  <1>2. \A st \in FileState : st.offset \in Nat
    BY DEF FileState
  <1>3. ASSUME NEW p \in Paths, dir'[p] # NoInode
        PROVE  \A j \in DOMAIN data'[dir'[p]] :
                 j > (IF upc' = "idle" THEN saved'[p].offset ELSE files'[p].offset)
                   => stored'[data'[dir'[p]][j][1]] = 0
    <2>1. PICK o \in Nat : o = IF upc' = "idle" THEN saved'[p].offset ELSE files'[p].offset
      BY <1>1, <1>2
    <2>2. \A j \in DOMAIN data'[dir'[p]] : j > o => stored'[data'[dir'[p]][j][1]] = 0
      BY <1>3, <2>1, UnsentStep
    <2> QED
      BY <2>1, <2>2
  <1>4. PICK o \in Nat : o = probe'.offset
    BY <1>1, <1>2
  <1>5. PICK u \in Nat : u = fresh'.offset
    BY <1>1, <1>2
  <1>6. \A r \in Records : stored'[r] <= 1 /\ (stored'[r] = 1 => r < rec')
    BY StoredOnce
  <1>7. upc' = "read" /\ dir'[path'] # NoInode =>
          \A j \in DOMAIN data'[dir'[path']] :
            j > o => stored'[data'[dir'[path']][j][1]] = 0
    BY <1>4, ProbeUnsent
  <1>8. upc' = "insert" =>
          /\ \A r \in batch' : stored'[r] = 0 /\ r < rec'
          /\ \A p \in Paths : dir'[p] # NoInode => \A j \in DOMAIN data'[dir'[p]] :
               data'[dir'[p]][j][1] \in batch' => p = path' /\ j <= u
          /\ dir'[path'] # NoInode => \A j \in DOMAIN data'[dir'[path']] :
               j > u => stored'[data'[dir'[path']][j][1]] = 0
    BY <1>5, BatchUnsent
  <1> QED
    BY <1>3, <1>4, <1>5, <1>6, <1>7, <1>8

-----------------------------------------------------------------------------
(* Theorems *)

LEMMA DeliveryInit ==
  ASSUME Init
  PROVE  DeliveryInv
  <1>1. /\ upc = "idle" /\ wpc = "off" /\ apc = "idle" /\ written = {}
        /\ lostAcks = 0 /\ rec = 1
        /\ dir = [p \in Paths |-> NoInode] /\ data = [i \in Inodes |-> <<>>]
        /\ saved = [p \in Paths |-> Blank] /\ stored = [r \in Records |-> 0]
    BY DEF Init, SpoolInit, WriterInit, UploaderInit, ArchiverInit
  <1>2. \A p \in Paths : ~ Exists(p)
    BY <1>1 DEF Exists
  <1>3. Blank.inode = NoInode /\ Blank.offset = 0
    BY DEF Blank
  <1>4. SavedIsTrue /\ FilesAreTrue
    BY <1>1, <1>3 DEF SavedIsTrue, FilesAreTrue, Believed
  <1>5. SentBeforeRemoval /\ LineInPlace /\ LostOnlyInRace
    BY <1>1 DEF SentBeforeRemoval, LineInPlace, LostOnlyInRace
  <1>6. PartsApart
    <2>1. \A i \in Inodes : DOMAIN data[i] = {}
      BY <1>1
    <2> QED
      BY <2>1 DEF PartsApart
  <1>7. SentOnce
    BY <1>1, <1>2 DEF SentOnce
  <1> QED
    BY <1>4, <1>5, <1>6, <1>7 DEF DeliveryInv

LEMMA DeliveryStep ==
  ASSUME FilesInv, FilesInv', DeliveryInv, [Next]_pipelineVars
  PROVE  DeliveryInv'
  <1> USE DEF DeliveryInv
  <1>1. SavedIsTrue'
    BY SavedStep
  <1>2. FilesAreTrue'
    BY FilesTrueStep
  <1>3. SentBeforeRemoval'
    BY RemovalStep
  <1>4. LineInPlace'
    BY InPlaceStep
  <1>5. LostOnlyInRace'
    BY LostStep
  <1>6. PartsApart'
    BY PartsApartStep
  <1>7. SentOnce'
    BY OnceStep
  <1> QED
    BY <1>1, <1>2, <1>3, <1>4, <1>5, <1>6, <1>7

\* The inductive invariant of delivery: what the uploader believes of a file,
\* where the writer is in it, what is gone before a file is removed, and that no
\* part of a line is in two places or behind an offset that was sent already.
THEOREM DeliveryCorrect == Spec => []DeliveryInv
  <1>1. Spec => []FilesInv
    BY FilesCorrect
  <1>2. Init => DeliveryInv
    BY DeliveryInit
  <1>3. FilesInv /\ FilesInv' /\ DeliveryInv /\ [Next]_pipelineVars => DeliveryInv'
    BY DeliveryStep
  <1> QED
    BY <1>1, <1>2, <1>3, PTL DEF Spec

\* Whatever fails, times out or is killed, the state file never says that a line
\* was sent which was not, if the uploader truncates nothing, and deletes only
\* without size rotation: no name is then used again for another file.  If it
\* does delete or truncate, that holds between passes as long as none was left
\* before its end.
THEOREM OffsetCorrect ==
  Spec => [](Plain \/ (Calm /\ upc = "idle") => OffsetMeansStored)
  <1>1. TypeOK /\ SavedIsTrue => (Plain \/ (Calm /\ upc = "idle") => OffsetMeansStored)
    <2> SUFFICES ASSUME TypeOK, SavedIsTrue, Plain \/ (Calm /\ upc = "idle"), NEW p \in Paths,
                        Exists(p), saved[p].inode = dir[p]
                 PROVE  IntactBefore(data[dir[p]], saved[p].offset) \subseteq Past
      BY DEF OffsetMeansStored, Past
    <2>1. Believed(saved[p], p, Past) /\ saved[p].offset \in Nat
      BY PassStates DEF SavedIsTrue
    <2>2. AllExposed(p) => IntactBefore(data[dir[p]], saved[p].offset) \subseteq Past
      BY <2>1, OnlyExposed DEF Past
    <2> QED
      BY <2>1, <2>2 DEF Believed, Sent, Exists
  <1> QED
    BY <1>1, PipelineTypes, DeliveryCorrect, PTL DEF DeliveryInv

\* As long as no pass was left before its end, a record whose line was written can
\* be found in ClickHouse, in a file or in an archive, whoever removes and truncates
\* files meanwhile; or it was written in one of the four ways that may cost it.
THEOREM LostCorrect == Spec => []LostOnlyInRace
  <1>1. DeliveryInv => LostOnlyInRace
    BY DEF DeliveryInv
  <1> QED
    BY <1>1, DeliveryCorrect, PTL

\* Without a lost answer, a pass that was given up, a kill or a day that midnight
\* overtook, no record is inserted twice, whatever inserts are refused and whichever files are rotated, removed,
\* truncated and made again under the same name or inode.
THEOREM OnceCorrect == Spec => []OnceWithoutFaults
  <1>1. SentOnce => OnceWithoutFaults
    BY DEF SentOnce, OnceWithoutFaults, Calm
  <1> QED
    BY <1>1, DeliveryCorrect, PTL DEF DeliveryInv
=============================================================================
