# if_flow in TLA+

`if_flow` is a host agent in C that counts network traffic per flow and minute,
writes the counts as JSONL records, and ships them, with Python programs beside
it, to ClickHouse and to Wazuh. This directory holds TLA+ modules translated
from its source, the TLC runs that check them on small instances, and proofs
checked by TLAPS.

## 1. The system

| part | state | operations | who it meets |
|---|---|---|---|
| flow table (`src/flow_table.c`) | array of entries, one per (flow, minute); `len`, `cap`, `max_flows` | `touch`, `emit_ready`, `flush_older_than`, `init`, `free` | called by the main loop, calls back `flush_flow_entry` |
| main loop (`src/main.c`) | `g_stop`, `last_flush`, the wall clock | packet handler, turn of the loop, signal, last flush | pcap, the table, both attribution sources, the writer |
| eBPF tracker (`src/ebpf_tracker.c`, `bpf/if_flow.bpf.c`) | cache of (key, source) -> process with two TTLs; a kernel ring buffer | kprobe events, `poll`, `lookup` | kernel -> ring -> poll -> cache -> packet handler |
| /proc resolver (`src/resolver.c`) | cache of key -> identity; a direct-mapped cache of pid -> identity; `last_refresh` | `lookup`, `read_identity_by_pid` | packet handler; the kernel's sockets and processes change below it |
| JSONL writer (`src/writer_jsonl.c`) | open file, its day and index | `open`, `write_flow` with rotation, `close` | appends to files that the uploader and the archiver read and remove |
| uploader (`clickhouse_uploader/*.py`) | a state file of (inode, offset, size) per path | one pass over the files: batches, insert with retry, clean-up, save | reads the writer's files, fills ClickHouse |
| archiver (`scripts/if_flow_archive.sh`) | none | gzip of past days, deletion of old archives | the same files |
| Wazuh bridge (`wazuh_integration/*.py`) | a cursor over final records | query, match, append alerts, save | reads ClickHouse, appends to a file |
| classifier, parser, direction, configuration | none | pure functions of a packet or of the arguments | packet handler |

Hard behaviours: the table is compacted in place while it is reported; the agent
may be killed and restarted at any point and its clock may be set back; its caches are
refreshed by events that arrive late or not at all; three programs share the
directory of JSONL files without a lock; inserts are retried; the programs
save their progress after the fact.

What makes each part correct, in short: the table accounts for every packet
exactly once and a final record is the last word on its slot; an attribution is
never older than the lifetimes of the caches add up to; a record is written to
one file, uploaded at least once, and no file is removed or truncated before
what it holds was uploaded; every final record that matches a rule raises an
alert; a packet is accounted to its own conversation, under a name it had.

## 2. Plan

In the order of what matters most:

1. `FlowTable` (done): table, main loop, process life and clock; the
   abstract `FlowLedger` it implements; `FlowTableProofs`.
2. `Spool`, `Writer`, `Uploader`, `Archiver` and their composition `Pipeline`
   (done): rotation by day and size; passes, retries, clean-up, crash between
   insert and save; compression and retention. Still to come: an abstract
   at-least-once channel that the pipeline implements.
3. `Host`, `EbpfTracker`, `Resolver` and their composition `Attribution`
   (done): probes, ring, the three caches, pids and tuples that are used again.
4. `WazuhBridge` (done): cursor, late records, partial appends, crash between
   append and save.
5. `Classes`, `Payload` and `Packet` (done): the rules of the classifier, the
   two searches for a name, and the packet handler over them.
6. Proofs (done): every safety property of the table, the pipeline, the attribution,
   the bridge and the packet handler, each from an inductive invariant of its own (section 9).

`FlowTable` takes what `Packet` and `Attribution` find out as a free choice, and
`WazuhBridge` takes what `Pipeline` delivers as records that arrive in any order. So the
models meet at the interfaces the code has, and are checked one by one.

## 3. FlowTable

### Correspondence

`entries`, `cap` are `ft->entries[0 .. len-1]` and `ft->cap`. An entry keeps the
fields a property can tell apart: its slot (the flow, which fixes the direction,
and the minute), `packets`, `connections`, the owner (pid, process, command
line and workload, which are set together), whether a name is known, the class,
`last_emit`, `dirty`. Bytes are counted beside packets by the same two
statements and are left out; `first_seen` and `last_seen` are only formatted.

`pc` is the place in `main()`:

| pc | code |
|---|---|
| `top` | the `while (!g_stop)` test |
| `dispatch` | inside `pcap_dispatch`, which calls `packet_handler` up to 128 times |
| `emit` | `flow_table_emit_ready`, one entry per step (`idx`) |
| `flush` | `flow_table_flush_older_than`, one entry per step (`readIdx`, `writeIdx`) |
| `closing` | the same function, called after the loop |
| `done` | the process has exited; systemd starts it again |

The two scans are split per entry because a kill (`Crash`), a signal and the clock
may come between any two records, and because the array is inconsistent in
between: `Live` says which positions still stand for a count. A packet is one
step: `packet_handler` runs to its end between two reads of anything shared,
and its inputs (flow, attribution, SYN, name in the payload) are chosen
freely. Booleans of the C code are 0 and 1.

What the records of a slot say is kept in history variables (`updPackets`,
`finals`, `finPackets`, `finConns`, `idents`), together with what arrived
(`seen`), was turned away (`dropped`) and vanished with a process (`lost`). A
record counts as published when the callback is called; its way to the disk belongs to
the writer's model.

The clock is `CLOCK_REALTIME` in whole seconds; `Tick` moves it on at any
point and `StepBack` sets it back. `MinuteLen` is 2 in the runs, so that a minute
boundary may fall between any two steps.

### Properties

* `TypeOK`: types, and the capacity never passes `--max-flows`, clamped from the first
  allocation on.
* `UniqueSlots`, `Conservation`, `UpdatesBounded`: the accounting, at every
  intermediate state of the scans.
* `SingleFinal`, `FinalIsLast`: a final record is the last word on its slot, as
  long as nobody stops the agent gracefully or sets the clock back. Both
  conditions are needed; run `reopened` shows what a restart does, and a
  clock set back reopens minutes in the same way.
* `NothingLostOnExit`: the last flush empties the table, unless the clock went back.
* `OneIdentity`, `OneConnection`: what the records of one slot say together.
* `EveryCountCloses`, `StopEnds`: liveness.
* `ImplementsLedger`: `FlowTable` implements `FlowLedger`, a machine with no
  array, no scan and no loop: per slot, packets are counted, published, closed or lost.
  `Reopen` is false when the bounds allow no graceful exit and no backward step,
  and then a closed slot never counts again.

### Runs

| run | bounds | shows |
|---|---|---|
| `steady` | one TCP and one other flow, 2 processes, table of 2 growing from 1, 3 packets, clock 1..5 (3 minutes), 1 kill; SYNs and attributions in any order | the slots of two minutes meet at the bound of the table, which is reached by doubling, one flush compacts entries of two minutes, and a restart comes between the records of a slot |
| `faults` | 2 flows, table of 2 whose first capacity is clamped, 3 packets, clock 1..4, 1 graceful exit, 1 kill, 1 backward step, `realloc` may fail | every pair of faults, at every step of both scans |
| `live` | 1 flow, all faults once, fair scheduling | liveness; traffic stops at `QuietAt` so that the clock's bound is not what ends the behaviour |
| `reopened`, `named` | smallest instances | the two findings below |

Two slots at once, two flushes and one fault of each kind are enough: a step of the
table looks at one entry and one other index, and the properties are per slot. The
proofs remove the bounds for all but liveness.

Fairness (`FairSpec`): the loop's own steps are weakly fair, because the agent is one
thread that never blocks for long (`pcap_dispatch` is non-blocking, the
eBPF poll waits 5 ms); `Restart` is, because of `Restart=always`; the clock advances.
No fairness is assumed of packets, signals or kills.

### Findings

1. `FinalMeansClosed`: the last flush reports the minute that is still open as final, and
   the next process counts it again (`README.en.md:11`, `src/main.c:1156`).
2. `NamedFlowIsClassified`: the class is fixed by the first packet of the
   minute; a name learnt later does not change it (`src/flow_table.c:104`).

Seen while reading, with no run: `idle_timeout_sec` is documented as an eviction threshold
(`include/config.h:12`) and is never read, so that with a long `--flush-sec` idle
entries fill the table.

### Proofs

`FlowTableProofs` proves, for every value of the constants that satisfies the named
assumptions, `TypeOK`, `UniqueSlots`, `Conservation`, `UpdatesBounded`,
`SingleFinal`, `FinalIsLast`, `NothingLostOnExit` and `ImplementsLedger`.
The inductive invariant `IInv` adds to the properties: `IndexOK` (the write index
never passes the read index, and both are reset outside a flush; without it
`Live` means nothing), `BoundsKept`, `ClosedInPast` (slots with a final
record lie before the open minute and hold nothing; this is what makes
`SingleFinal` inductive) and `NoFutureEntry` (no entry is of a future minute; this is what
makes the last flush complete). `InvCorrect` proves `Spec => []IInv`, one step
per action. The central lemmas say how `Held` changes when an entry is
merged, appended, closed or slid forward. The ledger's theorem maps every action to
one step of the ledger or to a stutter; `Conservation` and `UpdatesBounded` are proved as
invariants over the same facts.

`FlowRecordProofs` adds what the records of a slot say together. `ConnectionCorrect` proves
`OneConnection`, and with it that a slot is credited with one connection at most as long as nobody
stops the agent gracefully or sets the clock back, since a slot then has one final record.
`IdentityCorrect` proves `OneIdentity` and `SoleOwner`: the identity that the live entry of a slot
has is the only one its records have named, half way through a compaction too.

Only model-checked: `EveryCountCloses` and `StopEnds`, which are liveness.

## 4. Pipeline

### Modules and correspondence

`Spool` is the directory the three programs share without a lock: `dir` maps
names to inodes, `data` inodes to content, `today` is the local date. A name is a
day and an index (`if_flow-DAY.jsonl`, `if_flow-DAY-0001.jsonl`). A record is a line of
two parts, and sizes and offsets count parts: that is enough to tell a line that is
complete from one whose end is missing, and an offset between lines from one
inside a line. Inode numbers are used again once no name leads to them, as file systems
do.

* `Writer` (`writer_jsonl.c`): `jsonl_writer_rotate_if_needed` is one step for each of its system
  calls: `ReadDay` asks for the date, `NextIndex` is a round of `choose_active_index`, `Keep` or
  `Close` follow from what it found, `OpenOld` and `OpenNew` are `fopen`. Midnight and the
  others may come between any two. The record itself is `Write`, or `WriteHead` and `WriteTail`
  when a line is longer than the stream's buffer (`Torn`). `OpenFails` drops
  the record, as the early return does. `AgentStops` is a kill or an exit.
* `Uploader` (`if_flow_clickhouse_uploader.py`): `upc` is the place in `run_once`.
  `Stat` and `Read` are the two looks of `read_batch`; `Insert`, `Refused` and `LostAck`
  are the three outcomes of one HTTP request; `Check` is the clean-up up to its own
  `stat`, `Delete` and `Truncate` what follows it. `FileMissing`, and `Refused` or
  `LostAck` on the last attempt, are the exceptions that leave the pass: what it knew is
  forgotten, and `saved`, the state file, is as it was. `UploaderKilled`
  does the same.
* `Archiver` (`if_flow_archive.sh`): one step sets `TODAY`, one expands the glob, one writes an
  archive, one unlinks the original; the script ends at the first command that fails.
* `Pipeline` interleaves them step by step and adds two history variables. `late` holds the days
  that midnight caught with the writer or the archiver between asking for the date and using it
  (`writer_jsonl.c:155` and `:175`, `if_flow_archive.sh:71` and `:85`). `exposed` holds the
  records written in one of four ways that may cost them: to a file after
  somebody's last look at it and before its removal; in two parts with the uploader reading
  between them; behind the half line a killed agent left; or to a file of a late day.

Abstracted: the text of a record; the limit of a batch in bytes, which only makes
batches shorter; statistics and dry runs; back-off delays; gzip killed in the middle of
its output; a date that goes back.

### Properties

* `OffsetMeansStored`: the saved offset of a file never runs ahead of ClickHouse.
  It is checked without truncation, whose saved offset may outlive the content (run
  `resumed`), and with lines in two parts; `exposed` records are excepted, because a line
  that is just being written counts as damaged and is stepped over.
* `OnceWithoutFaults`: duplicates come from a lost answer, an aborted pass, a kill or a file made
  again after its day only. The delivery is at least once, by design.
* `LostOnlyInRace`: with both clean-ups switched on, size rotation and the archiver,
  a complete record is in ClickHouse, in a file, was in an archive, or is in
  `exposed`. It excepts passes that were aborted or killed: what
  they deleted or truncated is not in the state file, and when a new file has
  the old inode number, the old offset hides its first records. TLC finds that with
  four records when the exception is dropped.
* `ChunksBounded`: a chunk passes its limit by less than a record.
* `ArchivesKept`: an archive is not replaced by a later compression and does
  not go before its retention is over, unless its day is `late`.
* `EveryRecordArrives`: liveness.

### Runs

| run | bounds | shows |
|---|---|---|
| `resume` | 2 records, each in a chunk of its own, lines in two parts, one kill of the agent, one failing `fopen`, batches of 1 and at most 1 per file and pass, 2 attempts; two refusals, one lost answer, one kill of the uploader, fair scheduling | the state file against every combination of faults, a path that waits behind one that fails, half lines, liveness |
| `clean` | 3 records, 2 days, 2 chunks a day of two records each, 2 inodes, deletion and truncation, two starts of the archiver with a retention of 1 day | the three programs' races for the same files and midnight at any step, chunks that are deleted and used again, archives that are made, and made again |
| `resumed` | 3 records, 1 file, truncation, one kill | the finding below |

Each hazard needs at most two files, two passes and one fault, which all of these
bounds hold: one record before the place of the fault and one behind it, and in
`clean` a third for the file that is recreated after it was emptied. Two days are one midnight,
which may come between any two steps.
The runs check deadlock as well: the uploader can always begin another pass.

Fairness (`FairSpec`): the uploader's own steps, one weak fairness for all of them, because
it is one thread in an endless loop and systemd restarts it
(`Restart=always`). No fairness of the writer, the archiver or midnight is
needed; failures are bounded by their constants, that is, ClickHouse
answers at some time.

### Findings

3. `ResumesWhereItStopped`: a kill between a truncation and the save leaves an offset for
   content that is gone (`if_flow_clickhouse_uploader.py:201`, `:398`).

The model shows more, which have no run of their own: midnight between `TODAY` and the glob lets
the archiver compress the file that the writer has just opened, though it "keeps the current day
untouched" (`README.en.md:284`), and the timer starts it at midnight (`OnCalendar=daily`); midnight
between the writer's date and its `fopen` makes a file of yesterday again, which the archiver's
next `gzip -f` puts in the place of yesterday's archive (`late`); a line that is half written when it
is read counts as damaged and is lost (`:320-325`, `exposed`); the writer can append
between `stat` and `truncate` (`:185-201`, `exposed`); the chunk the writer has open is
deleted like a closed one, against the comment at `:223` (`MayDelete`); an exception
leaves the pass for all later paths (`:357`, `:373`, `Abort`); size-rotated chunks are never
archived (`if_flow_archive.sh:87`, `Archivable`).

### Proofs

Two inductive invariants, at the end of `Pipeline`, carry the proofs.

`FilesInv` (`PipelineProofs`, theorem `FilesCorrect`) is about the directory. A file has one name
(`NamesApart`), of a day that has begun (`NamesOfPast`). The name the writer has leads to its
file, or to nothing once somebody removed it, and the file has no other name (`OpenByName`);
without size rotation nobody removes files of today, unless it is late (`WriterAt`): that is why
`Keeps` may trust the name. Files hold records before the current
one (`PartsOfPast`). A day that is not late is archived when it is over, and its file is then gone
or about to go (`ArchiverAt`), so that nothing is compressed twice: the writer makes a file of a day
that is over only if it asked for the date before midnight. `TypeOK`, `ChunksBounded` and `ArchivesKept` follow.

`DeliveryInv` (`DeliveryProofs`, theorem `DeliveryCorrect`) is about what happens to records.
Its heart is `Believed`: what the state file, the copy in memory, the
probe and the batch at hand say of a path is blank, or of a file that is gone and whose name
is never used again unless its day is late, or of a file of a late day that holds exposed records
only (`AllExposed`), or true, in the sense of `Sent`: no line before the offset is
outside ClickHouse (or the batch), and if the offset splits a line, its tail
cannot follow. `SentBeforeRemoval` carries what was seen at the last look to the removal,
`LineInPlace` says where the writer is in a line, `PartsApart` and `SentOnce` that
a part has one place and that nothing behind an offset was sent.

* `OffsetCorrect` proves `OffsetMeansStored` under `Plain`, the settings of run `resume`: no
  truncation, and deletion only without size rotation. Then no name is used for a second file but
  on late days, and the offset is true whatever fails and whoever is killed. With other settings it is proved
  between passes as long as none was left before its end (`Calm`); that more does not hold is
  what run `resumed` shows.
* `LostCorrect` and `OnceCorrect` prove `LostOnlyInRace` and `OnceWithoutFaults` as the runs
  check them, without further conditions.

Only model-checked: `EveryRecordArrives`, which is liveness.

## 5. Attribution

### Modules and correspondence

* `Host` is what the agent does not control: processes start with any free pid and any
  free tuple, and end. A process is its number; pids and tuples are used again. Nothing in
  the code looks at absolute time, so what is noted is an age that every tick raises up to the
  first value past all limits.
* `EbpfTracker` (`ebpf_tracker.c`, `if_flow.bpf.c`): `Connect` and `Datapath` are the
  probes with `submit_from_sock`, into a `ring` that drops what does not fit. `OnEvent` is
  `on_ebpf_event` with `ebpf_cache_put` (the order of `hints` is the array's), `Prune`
  the compaction, `Newest` the lookup.
* `Caches` is what the two growing arrays do alike: drop what is past its lifetime, and refuse
  what does not fit when `realloc` fails.
* `Resolver` (`resolver.c`): `known` is the cache of flows, `pids` the direct-mapped cache of
  pids; `PidSlots` says which pids share an entry. A scan is three steps,
  `ListSockets`, `FindOwner` or `NoOwner`, and `Remember`, because it reads
  `/proc/net`, then `/proc/*/fd`, then `/proc/PID/comm`.
* `Attribution` is lines 713-725 of `packet_handler` over both, with the polls between
  packets; `answer` is what the last packet was told.

### Properties and runs

* `HintsAreLatest`: against a map kept beside it (`latest`), the array holds exactly the
  last hint of every tuple and source within its lifetime.
* `PartiesAreRecent`: an answer names somebody who had a socket of that conversation, not longer
  ago than one lifetime and one turn of the agent. Hints of the datapath are excepted:
  they name the task that was current.
* `NamesAreRecent`: how stale a name can get along hint, pid and flow.

Run `caches`: one conversation with two ends, two processes and two pids that
share an entry, 2 events in a ring of 1, all lifetimes 1 tick (0 for the datapath),
an agent that lags by 1 tick, and `realloc` that may fail for an empty array
(the first arrays hold 4096 and 2048 entries). Two processes are enough for a
pid or a tuple to change hands once, and all properties speak of one change; ages
run past the sum of the lifetimes.
Run `hidden`: two conversations, the resolver alone.

### Finding

4. `RecentAnswersAreServed`: the lookup in the resolver's cache gives up at the first old
   entry, and entries are not in the order of their age (`resolver.c:165`, comment at 461).

Seen with no run: `ebpf_tracker_lookup` "favors the newest attribution" (`ebpf_tracker.c:249`)
by position, which an update in place does not change; on reception the probe of the datapath
names whatever process is running (`if_flow.bpf.c:98-103`); flows that start within
`refresh_sec` of a miss wait for the next scan (`resolver.c:468`).

### Proofs

`AttributionProofs` proves `TypeOK`, `HintsAreLatest`, `PartiesAreRecent` and `NamesAreRecent`, for
any number of hosts, tuples and pids, any lifetimes, any map of pids to slots. The
inductive invariant `IInv` bounds, place by place, how long ago what is noted there was so:
events in the ring (`EventsAreRecent`), hints (`HintsAreRecent`), what a scan has in hand
between its three steps (`ScanIsRecent`), the entries of the pids (`PidsAreRecent`) and of the
flows (`KnownAreRecent`, with one entry per flow, `KnownIsMap`). A bound of a cache is its
lifetime plus the bound of what is put into it, which is why the lifetimes of the answers add up;
`HintTtl` is the longer lifetime of the two sources of hints. For `HintsAreLatest`, an
update in place, an append and the compaction are each shown to do to the array what
the same event does to the map.

## 6. Wazuh bridge

`WazuhBridge` (`if_flow_wazuh_bridge.py`): `table` is ClickHouse, to which `Arrive` adds records
of any minute that has begun. The clock counts seconds, `MinuteLen` to the minute, and the cutoff
of a query without a cursor may fall within a minute (`Cutoff`). `Select` is `run_once` up to the append: the query with its
order and limit, the rules, the cursor that moves in memory. `AppendAlerts` and `Save`
follow; `QueryFails`, `AppendFails` (after any number of lines, and perhaps within one) and
`SaveFails` are the exceptions, which the loop survives and `--once` does not; `Kill` comes
anywhere. A tuple is the minute and one number for the other six fields.

* `PassedIsAlerted`: what the cursor has passed, in memory or on disk, has its alerts in the file.
* `RepeatsAreRestarts`: an alert is repeated at most once per end of the process between the move
  of the cursor and its save.
* `EveryAlertIsGiven`: liveness, of a bridge that is on again and again.

Records the order of the tuples hides (`Hidden`: stored after the cursor passed their place,
older than the first query, with the tuple of another one) and alerts whose append failed
under the loop (`dropped`) are excepted by name: the code does lose them.

Run `bridge`: 3 records (a flow that matches two rules, one that matches another, an update
record), batches of 2, 2 minutes of 2 seconds, a first query that goes back 0 minutes, so that
the cutoff falls on a minute and within one, 1 fault. A batch then may be full, or hold two records
of one minute or of two, and the fault falls on any step of it.

Fairness: a bridge that runs makes its next step, because the loop polls again after `poll_sec`.
`Start` is not fair: `run_wazuh_bridge_loop.sh` does not start the bridge again, and the unit file
that `install_systemd_layout.sh:277` copies is not in the repository. `EveryAlertIsGiven` therefore
speaks of behaviours in which the bridge is on infinitely often, because it goes on running or
because somebody runs it again and again (`--once`); of one that has ended for good it says
nothing. Failures are bounded by `MaxFaults`.

### Proofs

`WazuhBridgeProofs` proves `TypeOK`, `PassedIsAlerted` and `RepeatsAreRestarts`, for any records,
rules, batch size and number of failures. `IInv` adds: nothing is held when the bridge sleeps
(`NothingHeld`); the cursor on disk is not past the one in memory (`CursorsInOrder`); alerts are
of final records only, and those that are held are of records that the cursor has passed, each
once (`GivenIsFinal`); and `GivenAsRestarted` counts: an alert that will be given again was given
no more often than the process ended unsaved, any other at most once more. The lemma the steps
rest on is that a batch is a prefix, in the order of the tuples, of what is past the cursor, so
that the new cursor passes the records of the batch and no other, but those that share a tuple
(`Hidden`). Only model-checked: `EveryAlertIsGiven`, liveness.

## 7. Packets

`Classes` are the tables and rules of `main.c:125-435`, `Payload` is `parser.c`, and `Packet`
is `packet_handler` up to `flow_table_touch`, without attribution. The state is one
conversation, the list of local addresses, and what has been made of its packets so far; each
step is one frame, of either end, in any order and any number of times. A frame has the
lengths its headers declare and a captured length that may be shorter (`Pads`); its payload
is any part of the opener's request, or the first bytes of its ClientHello.

Text is a sequence of pieces ("Ho", "st:", blanks, line ends, words), so that a segment may end
within the word Host, but not within a piece. A ClientHello is a structure (lengths, extensions,
names) and the bytes it makes (`HelloBytes`), which may be cut at any of them; `ExtractSni` is the
parser's walk through these bytes, test by test (`Readable`) and loop by loop (`NameInExts`,
`NameIn`). What lies behind the captured bytes reads as zero. A later fragment has any flags, and
any header length, in the place of its own; that its bytes look like a request is left out.

* `OwnKey`: a packet is accounted to its own conversation; later fragments are not.
* `BothWaysAlike`: both directions of a conversation have one class and opposite directions,
  ICMP and multicast apart.
* `HostIsOwn`: the name an HTTP flow keeps is that of its Host line, unless a segment held a Host
  and not all of that line (`misled`).
* `SniIsWhole`: a segment with all of a ClientHello gives the first name that fits, as the structure
  says it (`FirstName`, over sets and sums of lengths, without bytes); less of it gives none.

Run `packet`: 23 conversations, of every link type, network header and kind of protocol; requests
with another header that ends in Host, a Host in the body, blanks, a name that is too long;
hellos of two extensions with other extensions and names before the one that counts, with an empty
name, one that is as long as the buffer, one longer than its extension, and extensions longer or
shorter than they are said to be, each cut at every byte; header lengths below, at and above the minimum;
captures cut at 31, 9 and 1 bytes. The sets hold one member of each case the code tells apart.
Some conversations the handler drops altogether, so the run may stop.

Seen with no run: a database connection whose payload holds "Host:" becomes `named_app`
(`main.c:429` before `:432`; `parser.c:104` wants the name for "otherwise generic" flows); tags
of VLANs and extension headers of IPv6 are dropped without a count (`main.c:613`, `:634`); the list
of local addresses is never read again (`local_ip.c:63` says so).

### Proofs

`PacketProofs` proves all properties but `SniIsWhole`, for any set of conversations, of captured lengths and
of local addresses, under `PacketAssumption`, which says what a conversation is: its addresses
are those of hosts, not of groups; protocols without ports have port 0; the Host line follows a
whole line end and has its own; `host` is what the text holds. Requests whose lines
end in a bare LF are therefore checked nowhere. TLC evaluates the assumption on the conversations
of the run.

* `CallInv` is what a single packet decides, and gives `OwnKey`. Behind it are lemmas on
  frames: where the handler looks for the transport header is where it lies.
* `ToldInv`: what was last told of an end is what every packet of that end without a
  name is told. `BothWaysAlike` compares the two ends then as one frame each.
* `HostInv`: the kept host is blank or that of the line. In any part of the text
  that holds the line and the line end before it, the first whole needle is the line's own
  (`WholeOfPart`), and the value behind it ends at the same piece (`ValueOfPart`); a part that cuts
  the line sets `misled`.

## 8. Seeded bugs

Some definitions are preceded by a variant marked "Mutant": the change a plausible bug would
make (a dropped clamp, a scan one entry short, a cutoff one minute off).
`PROJECT.json` pairs each with a property that it breaks.

## 9. Proved, checked, not modelled

Proved, for every value of the constants that satisfies the named assumptions: every safety
property that a passing run checks but `SniIsWhole`, with the type invariants, and that `FlowTable` implements
`FlowLedger`. `OffsetMeansStored` is proved under a hypothesis on the settings that run
`resume` satisfies (section 4).

| proofs | about | inductive invariants |
|---|---|---|
| `FlowTableProofs`, `FlowRecordProofs` | section 3, the ledger | `FlowTable!IInv`, `SoleOwner` |
| `PipelineProofs`, `DeliveryProofs` | section 4 | `FilesInv`, `DeliveryInv` |
| `AttributionProofs` | section 5 | `Attribution!IInv` |
| `WazuhBridgeProofs` | section 6 | `WazuhBridge!IInv` |
| `PacketProofs` | section 7 | `CallInv`, `ToldInv`, `HostInv` |

`ListLemmas` has what several of them need: lists and their places, how often a list holds an
entry, and that one without repeats is no longer than what it lists. The inductive invariants are
not in the configurations: TLC found them to hold on the runs' instances, and they are there for
the properties they imply.

Only model-checked: liveness (`EveryCountCloses`, `StopEnds`, `EveryRecordArrives`,
`EveryAlertIsGiven`) is out of the prover's reach. So is `SniIsWhole`: what the two loops of the
ClientHello parser compute needs an induction over the bytes, and the runs compare it with the
structure instead.

Left out for good: option parsing and formatting, the installation scripts, the database schema
and the dashboards, which keep no state of the program, and the selftest. Left out of parts
that are modelled: the sizes of the resolver's two arrays and sockets that several
processes share; the command line and the workload of a process, which travel with its name;
the batch limit in bytes, back-off delays and statistics of the uploader; gzip killed in the
middle of its output. `PROJECT.json` lists every part, and the hazards with the properties
that would catch them.
