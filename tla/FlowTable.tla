------------------------------ MODULE FlowTable ------------------------------
(***************************************************************************)
(* The capture agent's in-memory accounting: the flat array of flow_table.c *)
(* driven by the single-threaded loop of main().  Each turn of the loop     *)
(* dispatches a batch of packets into the table, streams "update" records   *)
(* for dirty entries, and every MinuteFlush seconds closes old minutes:     *)
(* their entries are emitted as "final" and squeezed out of the array in    *)
(* place.  SIGTERM only raises a flag; the loop notices it at its top and   *)
(* closes everything.  The process may also be killed between any two steps *)
(* and is started again by systemd (Restart=always) with an empty table.    *)
(*                                                                          *)
(* Time is CLOCK_REALTIME in whole seconds: it may be stepped back.  The    *)
(* emitted records are kept as one ledger per slot (a flow in a minute).    *)
(***************************************************************************)
EXTENDS Integers, Sequences, FiniteSets

CONSTANTS
  Flows,        \* (flow_key_t, direction) pairs; direction follows from the key
  Tcp,          \* those with key.proto = IPPROTO_TCP
  PortFirst,    \* those whose port or protocol decides the class, name or no name
  Unlisted,     \* those whose port or protocol no rule knows
  Names,        \* {0, 1} if a TCP payload may carry a TLS or HTTP name
  Procs,        \* process identities (pid, name, command line, workload)
  NoOwner,      \* pid = -1, attr_source = ATTR_SRC_UNKNOWN
  MaxFlows,     \* --max-flows
  InitialCap,   \* 4096 in the code
  MinuteLen,    \* 60 in the code
  MinuteFlush,  \* --minute-flush-sec
  StreamFlush,  \* --stream-flush-sec
  Batch,        \* 128 packets per pcap_dispatch
  AllocFails,   \* TRUE iff realloc may return NULL
  StartTime     \* wall clock when the agent first starts

\* Bounds of the model.
CONSTANTS
  MaxNow,       \* the clock stops here
  QuietAt,      \* no packet arrives and no clock is set back after this time
  MaxPackets,   \* packets captured in a behaviour
  MaxExits,     \* graceful exits
  MaxCrashes,   \* kills
  MaxStepBacks  \* backward clock steps

ASSUME SetsAssumption ==
  /\ Tcp \subseteq Flows
  /\ PortFirst \subseteq Flows
  /\ Unlisted \subseteq Flows
  /\ PortFirst \cap Unlisted = {}
  /\ Names \subseteq {0, 1}
  /\ NoOwner \notin Procs

ASSUME SizesAssumption ==
  /\ MaxFlows \in Nat \ {0}
  /\ InitialCap \in Nat \ {0}
  /\ MinuteLen \in Nat \ {0}
  /\ MinuteFlush \in Nat \ {0}
  /\ StreamFlush \in Nat \ {0}
  /\ Batch \in Nat \ {0}
  /\ AllocFails \in BOOLEAN

ASSUME BoundsAssumption ==
  /\ StartTime \in Nat \ {0}
  /\ MaxNow \in Nat
  /\ StartTime <= MaxNow
  /\ QuietAt \in Nat
  /\ MaxPackets \in Nat
  /\ MaxExits \in Nat
  /\ MaxCrashes \in Nat
  /\ MaxStepBacks \in Nat

\* minute_bucket_for: the start of the minute that holds time t.
Minute(t) == t - (t % MinuteLen)

Minutes == {Minute(t) : t \in 0 .. MaxNow}

\* What an entry accounts for: one flow in one minute.
Slots == Flows \X Minutes

Owners == Procs \union {NoOwner}

Classes == {"port_rule", "named_app", "other"}

\* flow_entry_t.  bytes follows packets; first_seen and last_seen are written
\* and never read; last_emit = 0 means never; named is 1 iff sni or host is
\* not empty.
Entry == [slot : Slots, packets : Nat \ {0}, connections : {0, 1}, owner : Owners,
          named : {0, 1}, class : Classes, last_emit : Nat, dirty : {0, 1}]

VARIABLES
  now,        \* CLOCK_REALTIME
  pc,         \* where main() is
  stop,       \* g_stop
  entries,    \* ft->entries[0 .. len - 1], indexed from 1
  cap,        \* ft->cap
  batch,      \* packets handled by the current pcap_dispatch
  loopNow,    \* the loop's local `now`, StartTime while it has no value
  lastFlush,  \* the loop's local last_flush
  idx,        \* the index of flow_table_emit_ready's scan
  readIdx,    \* flow_table_flush_older_than's read_idx ...
  writeIdx,   \* ... and write_idx
  cutoff      \* ... and its minute_bucket argument

loopVars == <<pc, batch, loopNow, lastFlush>>
tableVars == <<entries, cap>>
flushVars == <<readIdx, writeIdx, cutoff>>

\* What the outside world has seen and what only the model remembers.
VARIABLES
  arrived,    \* packets handed to flow_table_touch
  seen,       \* the same, per slot
  dropped,    \* per slot, packets the full table turned away
  lost,       \* per slot, counts freed without a final record
  updPackets, \* per slot, the packet count of the latest update record
  finals,     \* per slot, the number of final records
  finPackets, \* per slot, the packets those final records report
  finConns,   \* per slot, the effective connections they report
  idents,     \* per slot, the processes named by its records
  exits,      \* graceful exits so far
  crashes,    \* kills so far
  stepBacks   \* backward clock steps so far

outVars == <<updPackets, finals, finPackets, finConns, idents>>
faultVars == <<exits, crashes, stepBacks>>
countVars == <<arrived, seen, dropped>>
vars == <<now, stop, idx, lost, loopVars, tableVars, flushVars, outVars,
          faultVars, countVars>>

PCs == {"top", "dispatch", "emit", "flush", "closing", "done"}

Init ==
  /\ now = StartTime
  /\ pc = "top"
  /\ stop = 0
  /\ entries = <<>>
  /\ cap = 0
  /\ batch = 0
  /\ loopNow = StartTime
  /\ lastFlush = StartTime
  /\ idx = 1
  /\ readIdx = 1 /\ writeIdx = 1 /\ cutoff = 0
  /\ arrived = 0
  /\ seen = [s \in Slots |-> 0]
  /\ dropped = [s \in Slots |-> 0]
  /\ lost = [s \in Slots |-> 0]
  /\ updPackets = [s \in Slots |-> 0]
  /\ finals = [s \in Slots |-> 0]
  /\ finPackets = [s \in Slots |-> 0]
  /\ finConns = [s \in Slots |-> 0]
  /\ idents = [s \in Slots |-> {}]
  /\ exits = 0 /\ crashes = 0 /\ stepBacks = 0

-----------------------------------------------------------------------------
(* The table *)

\* The array positions that still stand for a count.  While a flush compacts
\* the array, those between the two indexes were emitted or moved already.
Live == {i \in 1 .. Len(entries) : i < writeIdx \/ i >= readIdx}

\* The packets that positions L of array a hold for slot s.
HeldIn(a, L, s) ==
  IF \E i \in L : a[i].slot = s
    THEN a[CHOOSE i \in L : a[i].slot = s].packets
    ELSE 0

Held(s) == HeldIn(entries, Live, s)

\* No two positions of L hold the same slot.
UniqueIn(a, L) == \A i, j \in L : a[i].slot = a[j].slot => i = j

\* classify_flow and its siblings for other protocols: a name in the payload
\* overrides all but the rules that come first.
Classify(f, named) ==
  IF named = 1 /\ f \notin PortFirst THEN "named_app"
  ELSE IF f \in Unlisted THEN "other" ELSE "port_rule"

\* An identity is learnt once and kept.
\* (Mutant: the latest one wins.)
LearnedLatest(old, new) == IF new = NoOwner THEN old ELSE new
Learned(old, new) == IF old = NoOwner THEN new ELSE old

\* A slot counts one connection, however many SYNs it sees.
\* (Mutant: every SYN counts.)
OpenedAgain(old, conn) == old + conn
Opened(old, conn) == IF old = 0 THEN conn ELSE old

\* flow_table_touch, an entry of this slot exists.
Merged(e, p, conn, named) ==
  [slot |-> e.slot,
   packets |-> e.packets + 1,
   connections |-> Opened(e.connections, conn),
   owner |-> Learned(e.owner, p),
   named |-> IF e.named = 0 THEN named ELSE e.named,
   class |-> e.class,
   last_emit |-> e.last_emit,
   dirty |-> 1]

\* flow_table_touch, the first packet of a slot.
Fresh(s, p, conn, named) ==
  [slot |-> s, packets |-> 1, connections |-> conn, owner |-> p,
   named |-> named, class |-> Classify(s[1], named), last_emit |-> 0,
   dirty |-> 1]

\* The array's next capacity: doubled, from InitialCap, clamped to MaxFlows.
\* (Mutant: not clamped.)
GrownCapUnclamped == IF cap = 0 THEN InitialCap ELSE 2 * cap
GrownCap ==
  LET wanted == IF cap = 0 THEN InitialCap ELSE 2 * cap
  IN  IF wanted > MaxFlows THEN MaxFlows ELSE wanted

\* The scan of flow_table_touch finds an entry of the slot.
\* (Mutant: the scan stops one entry short.)
KnownShort(s) == \E i \in 1 .. Len(entries) - 1 : entries[i].slot = s
Known(s) == \E i \in 1 .. Len(entries) : entries[i].slot = s

\* Only the first match is updated.
Update(s, p, conn, named) ==
  \E i \in 1 .. Len(entries) :
    /\ entries[i].slot = s
    /\ \A j \in 1 .. i - 1 : entries[j].slot # s
    /\ entries' = [entries EXCEPT ![i] = Merged(@, p, conn, named)]
    /\ UNCHANGED <<cap, dropped>>

Insert(s, p, conn, named) ==
  /\ ~ Known(s)
  /\ \/ Len(entries) < cap /\ UNCHANGED cap
     \/ Len(entries) = cap /\ cap # MaxFlows /\ cap' = GrownCap
  /\ entries' = Append(entries, Fresh(s, p, conn, named))
  /\ UNCHANGED dropped

\* The table is at its bound, or realloc failed: the packet is not counted.
Refuse(s) ==
  /\ ~ Known(s)
  /\ Len(entries) = cap
  /\ cap = MaxFlows \/ AllocFails
  /\ dropped' = [dropped EXCEPT ![s] = @ + 1]
  /\ UNCHANGED tableVars

Touch(s, p, conn, named) ==
  \/ Update(s, p, conn, named)
  \/ Insert(s, p, conn, named)
  \/ Refuse(s)

-----------------------------------------------------------------------------
(* The main loop *)

\* (Mutant: the loop does not look at the flag.)
StartDispatchAnyway ==
  /\ pc = "top"
  /\ pc' = "dispatch"
  /\ UNCHANGED <<now, stop, idx, lost, batch, loopNow, lastFlush, tableVars,
                 flushVars, outVars, faultVars, countVars>>

StartDispatch ==
  /\ pc = "top"
  /\ stop = 0
  /\ pc' = "dispatch"
  /\ UNCHANGED <<now, stop, idx, lost, batch, loopNow, lastFlush, tableVars, flushVars,
                 outVars, faultVars, countVars>>

\* packet_handler; conn is new_connection.  Every non-TCP packet opens a
\* connection, and only TCP payloads are searched for a name.
Packet(f, p, conn, named) ==
  LET s == <<f, Minute(now)>> IN
  /\ pc = "dispatch"
  /\ batch < Batch
  /\ arrived < MaxPackets
  /\ now <= QuietAt
  /\ f \notin Tcp => conn = 1
  /\ named = 1 => f \in Tcp
  /\ Touch(s, p, conn, named)
  /\ batch' = batch + 1
  /\ arrived' = arrived + 1
  /\ seen' = [seen EXCEPT ![s] = @ + 1]
  /\ UNCHANGED <<now, pc, stop, idx, lost, loopNow, lastFlush, flushVars,
                 outVars, faultVars>>

\* pcap_dispatch returns; the loop reads the clock and starts the update scan.
EndDispatch ==
  /\ pc = "dispatch"
  /\ pc' = "emit"
  /\ batch' = 0
  /\ loopNow' = now
  /\ UNCHANGED <<now, stop, idx, lost, lastFlush, tableVars, flushVars,
                 outVars, faultVars, countVars>>

Due(e) ==
  /\ e.dirty = 1
  /\ e.last_emit = 0 \/ loopNow - e.last_emit >= StreamFlush

Emitted(e) ==
  [slot |-> e.slot, packets |-> e.packets, connections |-> e.connections,
   owner |-> e.owner, named |-> e.named, class |-> e.class,
   last_emit |-> loopNow, dirty |-> 0]

NamedBy(e) == IF e.owner = NoOwner THEN {} ELSE {e.owner}

\* One turn of flow_table_emit_ready's scan.
EmitEntry ==
  /\ pc = "emit"
  /\ idx <= Len(entries)
  /\ idx' = idx + 1
  /\ LET e == entries[idx] IN
       \/ /\ Due(e)
          /\ updPackets' = [updPackets EXCEPT ![e.slot] = e.packets]
          /\ idents' = [idents EXCEPT ![e.slot] = @ \union NamedBy(e)]
          /\ entries' = [entries EXCEPT ![idx] = Emitted(@)]
       \/ /\ ~ Due(e)
          /\ UNCHANGED <<updPackets, idents, entries>>
  /\ UNCHANGED <<now, stop, lost, cap, loopVars, flushVars, finals, finPackets,
                 finConns, faultVars, countVars>>

BeginFlush(where, bucket) ==
  /\ pc' = where
  /\ cutoff' = bucket
  /\ UNCHANGED <<readIdx, writeIdx>>

\* The scan is over: flush when MinuteFlush seconds went by, else go round.
EndEmit ==
  /\ pc = "emit"
  /\ idx > Len(entries)
  /\ \/ /\ loopNow - lastFlush >= MinuteFlush
        /\ BeginFlush("flush", Minute(loopNow))
        /\ UNCHANGED loopNow
     \/ /\ loopNow - lastFlush < MinuteFlush
        /\ pc' = "top"
        /\ loopNow' = StartTime
        /\ UNCHANGED flushVars
  /\ idx' = 1
  /\ UNCHANGED <<now, stop, lost, batch, lastFlush, tableVars,
                 outVars, faultVars, countVars>>

\* flow_connections_effective of a final record: an attributed TCP flow whose
\* SYN was not captured still counts as one connection.
Effective(e) ==
  IF e.slot[1] \in Tcp /\ e.connections = 0 /\ e.owner # NoOwner
    THEN 1 ELSE e.connections

\* (Mutant: a final record reports only what no update has reported.)
EmitFinalDelta(e) ==
  /\ finals' = [finals EXCEPT ![e.slot] = @ + 1]
  /\ finPackets' = [finPackets EXCEPT ![e.slot] = @ + e.dirty * e.packets]
  /\ UNCHANGED <<finConns, idents, updPackets>>

EmitFinal(e) ==
  /\ finals' = [finals EXCEPT ![e.slot] = @ + 1]
  /\ finPackets' = [finPackets EXCEPT ![e.slot] = @ + e.packets]
  /\ finConns' = [finConns EXCEPT ![e.slot] = @ + Effective(e)]
  /\ idents' = [idents EXCEPT ![e.slot] = @ \union NamedBy(e)]
  /\ UNCHANGED updPackets

\* The entries a flush closes.
\* (Mutants: the open minute too; nothing but the minute just before.)
OldOrOpen(e) == e.slot[2] <= cutoff
OldByOne(e) == e.slot[2] = cutoff - MinuteLen
Old(e) == e.slot[2] < cutoff

\* What the compaction leaves of the array.
\* (Mutant: the last entry that was kept is cut off.)
KeptShort == SubSeq(entries, 1, writeIdx - 2)
Kept == SubSeq(entries, 1, writeIdx - 1)

\* The bound of the flush at exit: nothing of the open minute is left.
\* (Mutant: the open minute is not included.)
LastCutoffNow == Minute(now)
LastCutoff == Minute(now + MinuteLen)

\* One turn of flow_table_flush_older_than's loop.
FlushEntry ==
  /\ pc \in {"flush", "closing"}
  /\ readIdx <= Len(entries)
  /\ readIdx' = readIdx + 1
  /\ LET e == entries[readIdx] IN
       \/ /\ Old(e)
          /\ EmitFinal(e)
          /\ UNCHANGED <<entries, writeIdx>>
       \/ /\ ~ Old(e)
          /\ entries' = [entries EXCEPT ![writeIdx] = e]
          /\ writeIdx' = writeIdx + 1
          /\ UNCHANGED outVars
  /\ UNCHANGED <<now, stop, idx, lost, cap, cutoff, loopVars, faultVars,
                 countVars>>

EndFlush ==
  /\ pc = "flush"
  /\ readIdx > Len(entries)
  /\ entries' = Kept
  /\ readIdx' = 1 /\ writeIdx' = 1
  /\ lastFlush' = loopNow
  /\ cutoff' = 0
  /\ loopNow' = StartTime
  /\ pc' = "top"
  /\ UNCHANGED <<now, stop, idx, lost, cap, batch, outVars, faultVars,
                 countVars>>

-----------------------------------------------------------------------------
(* Leaving and restarting *)

\* The loop ends, on the flag or on a pcap error, and everything up to the
\* minute that is still open is flushed.
LeaveLoop ==
  /\ \/ pc = "top" /\ stop = 1
     \/ pc = "dispatch" /\ exits < MaxExits
  /\ BeginFlush("closing", LastCutoff)
  /\ exits' = exits + 1
  /\ batch' = 0
  /\ UNCHANGED <<now, stop, idx, lost, loopNow, lastFlush, tableVars, outVars,
                 crashes, stepBacks, countVars>>

\* Memory that goes away takes with it the counts that were not emitted.
Forget ==
  /\ lost' = [s \in Slots |-> lost[s] + Held(s)]
  /\ entries' = <<>>
  /\ cap' = 0
  /\ readIdx' = 1 /\ writeIdx' = 1 /\ cutoff' = 0

\* The last flush is over and flow_table_free releases what it kept.
EndClosing ==
  /\ pc = "closing"
  /\ readIdx > Len(entries)
  /\ Forget
  /\ pc' = "done"
  /\ UNCHANGED <<now, stop, idx, batch, loopNow, lastFlush, outVars, faultVars,
                 countVars>>

\* main() up to the loop.
Boot ==
  /\ pc' = "top"
  /\ stop' = 0
  /\ lastFlush' = now
  /\ loopNow' = StartTime
  /\ batch' = 0
  /\ idx' = 1

\* systemd starts the agent again.
Restart ==
  /\ pc = "done"
  /\ Boot
  /\ UNCHANGED <<now, lost, tableVars, flushVars, outVars, faultVars, countVars>>

\* The process is killed at any point, and started again.
Crash ==
  /\ pc # "done"
  /\ crashes < MaxCrashes
  /\ crashes' = crashes + 1
  /\ Forget
  /\ Boot
  /\ UNCHANGED <<now, outVars, exits, stepBacks, countVars>>

\* on_signal.
Signal ==
  /\ pc # "done"
  /\ stop = 0
  /\ exits < MaxExits
  /\ stop' = 1
  /\ UNCHANGED <<now, idx, lost, loopVars, tableVars, flushVars, outVars,
                 faultVars, countVars>>

-----------------------------------------------------------------------------
(* The clock *)

timeless == <<stop, idx, lost, loopVars, tableVars, flushVars, outVars,
              countVars>>

Tick ==
  /\ now < MaxNow
  /\ now' = now + 1
  /\ UNCHANGED <<timeless, faultVars>>

\* The administrator or NTP sets the clock back.
StepBack ==
  /\ stepBacks < MaxStepBacks
  /\ now <= QuietAt
  /\ stepBacks' = stepBacks + 1
  /\ now' \in StartTime .. now - 1
  /\ UNCHANGED <<timeless, exits, crashes>>

-----------------------------------------------------------------------------

SomePacket ==
  \E f \in Flows, p \in Owners, conn \in {0, 1}, named \in Names :
    Packet(f, p, conn, named)

LoopStep ==
  \/ StartDispatch \/ EndDispatch
  \/ EmitEntry \/ EndEmit
  \/ FlushEntry \/ EndFlush
  \/ pc = "top" /\ LeaveLoop
  \/ EndClosing

Next ==
  \/ SomePacket
  \/ StartDispatch
  \/ EndDispatch
  \/ EmitEntry
  \/ EndEmit
  \/ FlushEntry
  \/ EndFlush
  \/ LeaveLoop
  \/ EndClosing
  \/ Restart
  \/ Crash
  \/ Signal
  \/ Tick
  \/ StepBack

Spec == Init /\ [][Next]_vars

\* The kernel schedules the agent and its non-blocking dispatch returns, so the
\* loop always makes its next step; systemd restarts it; time passes.
FairSpec == Spec /\ WF_vars(LoopStep) /\ WF_vars(Restart) /\ WF_vars(Tick)

-----------------------------------------------------------------------------
(* Properties *)

\* Type invariant, in three parts: the loop, the table, the records.
LoopTypes ==
  /\ now \in StartTime .. MaxNow
  /\ pc \in PCs
  /\ stop \in {0, 1}
  /\ batch \in 0 .. Batch
  /\ loopNow \in StartTime .. MaxNow
  /\ lastFlush \in StartTime .. MaxNow
  /\ idx \in Nat \ {0}
  /\ arrived \in Nat
  /\ exits \in Nat /\ crashes \in Nat /\ stepBacks \in Nat

TableTypes ==
  /\ entries \in Seq(Entry)
  /\ cap \in 0 .. MaxFlows
  /\ readIdx \in Nat \ {0} /\ writeIdx \in Nat \ {0}
  /\ cutoff \in Nat

RecordTypes ==
  /\ seen \in [Slots -> Nat]
  /\ dropped \in [Slots -> Nat]
  /\ lost \in [Slots -> Nat]
  /\ updPackets \in [Slots -> Nat]
  /\ finals \in [Slots -> Nat]
  /\ finPackets \in [Slots -> Nat]
  /\ finConns \in [Slots -> Nat]
  /\ idents \in [Slots -> SUBSET Procs]

TypeOK == LoopTypes /\ TableTypes /\ RecordTypes

\* Each minute/flow pair has one entry, also half way through the in-place
\* compaction of flow_table_flush_older_than, where the array holds emitted
\* entries and second copies of the ones it slid to the front.
UniqueSlots == UniqueIn(entries, Live)

\* flow_table_touch, the streaming scan, the compaction, the last flush and a
\* kill between any two of their steps never count a packet twice or mislay
\* one: it is in the table, in a final record, turned away, or lost with the
\* memory of a process that went away.
Conservation ==
  \A s \in Slots : seen[s] = Held(s) + finPackets[s] + dropped[s] + lost[s]

\* A reader who keeps the latest update of a slot never holds more packets than
\* the agent finally reports, still holds, or lost in a kill.
UpdatesBounded ==
  \A s \in Slots : updPackets[s] <= finPackets[s] + Held(s) + lost[s]

\* While the clock runs forward and the agent is not stopped gracefully, a final
\* record is the slot's last word, kills and restarts included: one final per
\* minute and flow, and no packet is counted to the slot after it.
SingleFinal ==
  stepBacks = 0 /\ exits = 0 => \A s \in Slots : finals[s] <= 1

FinalIsLast ==
  [][stepBacks = 0 /\ exits = 0 =>
       \A s \in Slots : finals[s] > 0 => seen'[s] = seen[s]]_vars

\* As long as the clock never went back and no kill happened, stopping loses
\* nothing: the flush up to the next minute empties the table.
NothingLostOnExit ==
  stepBacks = 0 /\ crashes = 0 => \A s \in Slots : lost[s] = 0

\* The records of a slot, its updates and its final, never name two processes
\* (a later attribution fills a gap, it never replaces an identity that was
\* published), unless the slot was counted by two runs of the agent.
OneIdentity ==
  stepBacks = 0 /\ exits = 0 /\ crashes = 0 =>
    \A s \in Slots : Cardinality(idents[s]) <= 1

\* "We count one connection per unique 5-tuple": SYN retransmits, and the rule
\* that credits an attributed flow without SYN, never make a final record
\* report more than one.
OneConnection == \A s \in Slots : finConns[s] <= finals[s]

\* Every count reaches a final record or is lost with its process: no entry
\* stays in the table for ever, whatever the clock does.
EveryCountCloses == \A s \in Slots : (Held(s) > 0) ~> (Held(s) = 0)

\* SIGTERM ends the loop, whatever is being scanned or flushed.
StopEnds == (stop = 1) ~> (pc = "done" \/ stop = 0)

-----------------------------------------------------------------------------
(* What makes them inductive *)

\* The compaction never writes ahead of what it has read, nor past the array;
\* outside a flush there is nothing to skip.
IndexOK ==
  /\ writeIdx <= readIdx
  /\ readIdx <= Len(entries) + 1
  /\ pc \notin {"flush", "closing"} => readIdx = 1

\* What the fault counters say of the flags.
BoundsKept ==
  /\ MaxExits = 0 => exits = 0 /\ stop = 0
  /\ MaxStepBacks = 0 => stepBacks = 0

\* On a clock that runs forward, in a process nobody stopped, a flush only
\* closes minutes that are over, so a slot with a final record can neither be
\* in the table nor come back.
ClosedInPast ==
  stepBacks = 0 /\ exits = 0 =>
    /\ pc \notin {"closing", "done"}
    /\ loopNow <= now
    /\ pc = "flush" => cutoff <= Minute(now)
    /\ \A s \in Slots : finals[s] > 0 => s[2] < Minute(now) /\ Held(s) = 0

\* On a clock that runs forward no entry is of a future minute, so the last
\* flush, up to the next minute, keeps none.
NoFutureEntry ==
  stepBacks = 0 =>
    /\ \A s \in Slots : Held(s) > 0 => s[2] <= Minute(now)
    /\ pc = "closing" =>
         writeIdx = 1 /\ \A s \in Slots : Held(s) > 0 => s[2] < cutoff

\* What the records of a slot have named is what its entry names; a slot that
\* has no entry was closed, or has no record at all.
SoleOwner ==
  stepBacks = 0 /\ exits = 0 /\ crashes = 0 =>
    /\ \A i \in Live : idents[entries[i].slot] \subseteq NamedBy(entries[i])
    /\ \A s \in Slots : Held(s) = 0 /\ finals[s] = 0 => idents[s] = {}
    /\ \A s \in Slots : \E p \in Owners : idents[s] \subseteq {p}

IInv ==
  /\ TypeOK
  /\ IndexOK
  /\ UniqueSlots
  /\ BoundsKept
  /\ SingleFinal
  /\ ClosedInPast
  /\ NoFutureEntry
  /\ NothingLostOnExit

-----------------------------------------------------------------------------
(* What the documentation says, and the code does not do *)

\* README: final records are emitted "when a minute bucket closes", so a slot
\* that has one receives no packet any more.
FinalMeansClosed ==
  [][\A s \in Slots : finals[s] > 0 => seen'[s] = seen[s]]_vars

\* PORT_CLASSES.en.md: "stronger signals", a TLS SNI or an HTTP Host, "can
\* override plain port mapping": a flow with such a name is not left in the
\* class for traffic nothing is known of.
NamedFlowIsClassified ==
  \A i \in Live : entries[i].named = 1 => entries[i].class # "other"

-----------------------------------------------------------------------------
(* The accounting implements the ledger it promises. *)

HeldBySlot == [s \in Slots |-> Held(s)]

MayReopen == MaxExits > 0 \/ MaxStepBacks > 0

Ledger == INSTANCE FlowLedger WITH held <- HeldBySlot, Reopen <- MayReopen

\* Every step of the array, its scans and the process's life is one step of the
\* ledger or none; slots are reopened only after a graceful exit or a clock
\* that was set back.
ImplementsLedger == Ledger!LedgerSpec
=============================================================================
