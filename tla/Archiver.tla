------------------------------- MODULE Archiver -------------------------------
(***************************************************************************)
(* if_flow_archive.sh, started once a day: compress the files of past days, *)
(* then delete archives past their retention.  It stops at the first        *)
(* command that fails (set -e).                                             *)
(***************************************************************************)
EXTENDS Spool

CONSTANTS
  RetentionDays,  \* --retention-days
  MaxArchives     \* times it is started (a bound)

ASSUME ArchiverAssumption == RetentionDays \in Nat /\ MaxArchives \in Nat

VARIABLES
  apc,       \* where the script is
  atoday,    \* TODAY
  alist,     \* the files the glob gave and the loop has not come to
  apath,     \* the file gzip works on
  gz,        \* day -> records in its archive
  archived,  \* day -> records that were ever in it
  archives   \* starts so far

archiverVars == <<apc, atoday, alist, apath, gz, archived, archives>>

ArchiverInit ==
  /\ apc = "idle"
  /\ atoday = 0
  /\ alist = {}
  /\ apath = <<0, 0>>
  /\ gz = [d \in 0 .. MaxDay |-> {}]
  /\ archived = [d \in 0 .. MaxDay |-> {}]
  /\ archives = 0

ArchiverTypeOK ==
  /\ apc \in {"idle", "list", "compress", "unlink"}
  /\ atoday \in 0 .. MaxDay
  /\ alist \subseteq Paths
  /\ apath \in Paths
  /\ gz \in [0 .. MaxDay -> SUBSET Records]
  /\ archived \in [0 .. MaxDay -> SUBSET Records]
  /\ archives \in 0 .. MaxArchives

\* TODAY
BeginArchive ==
  /\ apc = "idle"
  /\ archives < MaxArchives
  /\ archives' = archives + 1
  /\ atoday' = today
  /\ apc' = "list"
  /\ UNCHANGED <<spoolVars, alist, apath, gz, archived>>

\* The regular expression wants the day right before the extension, which
\* leaves out the chunks of size rotation.
\* (Mutant: TODAY is not compared.)
ArchivableAny(p) == Exists(p) /\ Index(p) = 0
Archivable(p) == Exists(p) /\ Index(p) = 0 /\ Day(p) # atoday

\* The glob, which the shell expands before the loop begins.
ListFiles ==
  /\ apc = "list"
  /\ alist' = {p \in Paths : Archivable(p)}
  /\ apc' = "compress"
  /\ UNCHANGED <<spoolVars, atoday, apath, gz, archived, archives>>

RecordsIn(c) == {c[i][1] : i \in IntactEnds(c, 0)}

\* gzip -f reads the file and writes the archive ...
Compress ==
  /\ apc = "compress"
  /\ \E p \in alist :
       /\ \A q \in alist : Day(p) <= Day(q)
       /\ Exists(p)
       /\ apath' = p
       /\ alist' = alist \ {p}
       /\ gz' = [gz EXCEPT ![Day(p)] = RecordsIn(data[dir[p]])]
       /\ archived' = [archived EXCEPT ![Day(p)] = @ \union RecordsIn(data[dir[p]])]
  /\ apc' = "unlink"
  /\ UNCHANGED <<spoolVars, atoday, archives>>

\* ... and unlinks it.
Unlink ==
  /\ apc = "unlink"
  /\ Exists(apath)
  /\ dir' = [dir EXCEPT ![apath] = NoInode]
  /\ apc' = "compress"
  /\ UNCHANGED <<today, data, atoday, alist, apath, gz, archived, archives>>

ArchiveEnds ==
  /\ apc' = "idle"
  /\ atoday' = 0
  /\ alist' = {}
  /\ apath' = <<0, 0>>

\* Somebody else removed the file first.
CompressFails ==
  /\ \/ apc = "compress" /\ \E p \in alist :
          ~ Exists(p) /\ \A q \in alist : Day(p) <= Day(q)
     \/ apc = "unlink" /\ ~ Exists(apath)
  /\ ArchiveEnds
  /\ UNCHANGED <<spoolVars, gz, archived, archives>>

\* The retention loop.
Expired(d) == d < atoday - RetentionDays

Expire ==
  /\ apc = "compress"
  /\ alist = {}
  /\ gz' = [d \in 0 .. MaxDay |-> IF Expired(d) THEN {} ELSE gz[d]]
  /\ ArchiveEnds
  /\ UNCHANGED <<spoolVars, archived, archives>>

ArchiverStep ==
  \/ BeginArchive
  \/ ListFiles
  \/ Compress
  \/ Unlink
  \/ CompressFails
  \/ Expire
=============================================================================
