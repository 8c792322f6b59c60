------------------------------ MODULE Attribution ------------------------------
(***************************************************************************)
(* How a packet gets its process: the eBPF hints first, the scan of /proc   *)
(* as the fallback (packet_handler in main.c), and the polling of the ring  *)
(* between packets.  The agent does one thing at a time; the host moves     *)
(* between any two of its steps.                                            *)
(***************************************************************************)
EXTENDS EbpfTracker, Resolver

CONSTANT MaxLag  \* ticks a turn of the agent may take, events in the ring included (a bound)

ASSUME AttributionAssumption == MaxLag \in Nat

VARIABLES
  useEbpf,  \* cfg.use_ebpf, after ebpf_tracker_open
  apc,      \* what the agent is at
  lag,      \* ticks since there was something to do
  answer    \* what the last step said of a packet

agentVars == <<useEbpf, apc, lag, answer>>
vars == <<life, trackerVars, resolverVars, agentVars>>

Silent == [from |-> "-", key |-> NoKey, pid |-> 0, process |-> NoName]
Unknown(k) == [from |-> "unknown", key |-> k, pid |-> -1, process |-> NoName]

\* ebpf_tracker_open may fail; the agent goes on without.
Init ==
  /\ HostInit
  /\ TrackerInit
  /\ ResolverInit
  /\ useEbpf \in BOOLEAN
  /\ apc = "idle"
  /\ lag = 0
  /\ answer = Silent

Busy == ring # <<>> \/ apc # "idle"

TurnGoesOn == lag' = IF ring = <<>> THEN 0 ELSE lag

Tick ==
  /\ Busy => lag < MaxLag
  /\ lag' = IF Busy THEN lag + 1 ELSE 0
  /\ HostTick
  /\ TrackerTick
  /\ ResolverTick
  /\ UNCHANGED <<useEbpf, apc>>

\* ip_local_out, ip_rcv and tcp_connect are probed only if the tracker is open.
HostStep ==
  /\ \/ Exit /\ UNCHANGED trackerVars
     \/ Accept
     \/ IF useEbpf THEN Connect \/ Datapath ELSE FALSE
  /\ UNCHANGED <<resolverVars, useEbpf, apc, lag>>

\* A packet with a hint.
FromHint(k) ==
  /\ apc = "idle"
  /\ useEbpf
  /\ \E i \in Newest(Hints(k)) :
     LET h == hints[i]
     IN  /\ answer' = [from |-> h.source, key |-> k, pid |-> h.pid,
                       process |-> NameOf(h.pid, h.process)]
         /\ KeepPid(h.pid, h.process)
  /\ UNCHANGED <<life, trackerVars, known, lastRefresh, scanVars, useEbpf, apc, lag>>

\* A packet the tracker has nothing for.
Unhinted(k) == apc = "idle" /\ (useEbpf => Hints(k) = {})

FromCache(k) ==
  /\ Unhinted(k)
  /\ \E i \in Newest(Known(k)) :
       answer' = [from |-> "proc", key |-> k, pid |-> known[i].pid,
                  process |-> known[i].process]
  /\ UNCHANGED <<life, trackerVars, resolverVars, useEbpf, apc, lag>>

NotNow(k) ==
  /\ Unhinted(k)
  /\ Known(k) = {}
  /\ Throttled
  /\ answer' = Unknown(k)
  /\ UNCHANGED <<life, trackerVars, resolverVars, useEbpf, apc, lag>>

Scan(k) ==
  /\ Unhinted(k)
  /\ Known(k) = {}
  /\ ~ Throttled
  /\ ListSockets(k)
  /\ apc' = "owners"
  /\ answer' = Silent
  /\ UNCHANGED <<life, trackerVars, useEbpf, lag>>

ScanOwners ==
  /\ apc = "owners"
  /\ \/ FindOwner /\ apc' = "name" /\ answer' = Silent /\ UNCHANGED lag
     \/ NoOwner /\ apc' = "idle" /\ answer' = Unknown(wanted) /\ TurnGoesOn
  /\ UNCHANGED <<life, trackerVars, useEbpf>>

ScanName ==
  /\ apc = "name"
  /\ Remember
  /\ answer' = [from |-> "proc", key |-> wanted, pid |-> found,
                process |-> NameOf(found, NoName)]
  /\ apc' = "idle"
  /\ TurnGoesOn
  /\ UNCHANGED <<life, trackerVars, useEbpf>>

\* ring_buffer__poll hands over the events one by one ...
Poll ==
  /\ apc = "idle"
  /\ useEbpf
  /\ apc' = "poll"
  /\ answer' = Silent
  /\ UNCHANGED <<life, trackerVars, resolverVars, useEbpf, lag>>

Consume ==
  /\ apc = "poll"
  /\ OnEvent
  /\ answer' = Silent
  /\ UNCHANGED <<life, resolverVars, useEbpf, apc, lag>>

\* ... and ends when there are none, or with an error.  Then the hints are
\* pruned (ebpf_tracker_poll).
PollEnds ==
  /\ apc = "poll"
  /\ hints' \in Prune(hints)
  /\ apc' = "idle"
  /\ TurnGoesOn
  /\ answer' = Silent
  /\ UNCHANGED <<life, ring, events, latest, resolverVars, useEbpf>>

Packet(k) == FromHint(k) \/ FromCache(k) \/ NotNow(k) \/ Scan(k)

Next ==
  \/ (Tick \/ HostStep) /\ answer' = Silent
  \/ \E k \in Keys : Packet(k)
  \/ ScanOwners
  \/ ScanName
  \/ Poll
  \/ Consume
  \/ PollEnds

Spec == Init /\ [][Next]_vars

-----------------------------------------------------------------------------
(* Properties *)

TypeOK ==
  /\ HostTypeOK
  /\ TrackerTypeOK
  /\ ResolverTypeOK
  /\ useEbpf \in BOOLEAN
  /\ apc \in {"idle", "owners", "name", "poll"}
  /\ lag \in 0 .. MaxLag
  /\ answer \in [from : {"-", "unknown", "proc"} \union Sources, key : Keys \union {NoKey},
                 pid : Pids \union {0, -1}, process : Names]

\* The cache of hints is a map: for each tuple and source that has a hint
\* within its lifetime, it holds the one stored last, once; in-place updates,
\* growth and compaction neither lose it nor leave another.
HintsAreLatest ==
  /\ \A i, j \in DOMAIN hints :
       hints[i].key = hints[j].key /\ hints[i].source = hints[j].source => i = j
  /\ {hints[i] : i \in {j \in DOMAIN hints : Fresh(hints[j])}} = latest

\* But for the hints of the datapath, which name the task that was current, an
\* answer names a process that had a socket of the packet's conversation, and
\* had it not longer ago than a turn and the lifetime of one cache.
Had(k, pid, ago) ==
  \E n \in Started : PidOf(n) = pid /\ SameConv(k, life[n].key) /\ life[n].gone <= ago
PartiesAreRecent ==
  /\ answer.from = "connect" => Had(answer.key, answer.pid, MaxLag + ConnectTtl)
  /\ answer.from = "proc" => Had(answer.key, answer.pid, MaxLag + ResolverTtl)

\* Stale names add up along the caches, and no further: a name is read late by
\* the turn, kept as a hint, then by pid, then by flow, and when it is given the
\* process it belongs to had ended at most that long ago.
MaxAge == MaxLag + HintTtl + PidTtl + ResolverTtl
NamesAreRecent ==
  answer.process \in Procs =>
    answer.process \in Started /\ life[answer.process].gone <= MaxAge

-----------------------------------------------------------------------------
(* What makes them inductive *)

\* Events and hints name a process by its pid and, where it connected, by its
\* socket; it had not ended when the turn began in which the event is consumed,
\* and so, as long as the hint lives, not longer ago than the hint is old.
NamesOwner(e) ==
  /\ PidOf(e.process) = e.pid
  /\ e.source = "connect" => life[e.process].key = e.key
EventsAreRecent ==
  \A i \in DOMAIN ring :
    \/ ring[i].pid = 0 \/ ring[i].process = Kernel
    \/ /\ ring[i].process \in Started /\ NamesOwner(ring[i])
       /\ life[ring[i].process].gone <= lag
HintsAreRecent ==
  \A i \in DOMAIN hints :
    /\ NamesOwner(hints[i])
    /\ Fresh(hints[i]) => life[hints[i].process].gone <= MaxLag + hints[i].age

\* What a scan has found so far is of the conversation it is for.
ScanIsRecent ==
  /\ apc \in {"owners", "name"} => wanted \in Keys
  /\ \A n \in listed : apc = "owners" /\ SameConv(wanted, life[n].key)
  /\ apc = "name" => found \in Pids /\ Had(wanted, found, lag)

\* The resolver's caches, entry by entry; the cache of flows is a map too.
PidsAreRecent ==
  \A s \in PidSlots :
    pids[s].process \in Started /\ pids[s].age <= PidTtl =>
      life[pids[s].process].gone <= MaxLag + HintTtl + pids[s].age
KnownIsMap ==
  \A i, j \in DOMAIN known : known[i].key = known[j].key => i = j
KnownAreRecent ==
  \A i \in DOMAIN known : Young(known[i]) =>
    /\ Had(known[i].key, known[i].pid, MaxLag + known[i].age)
    /\ known[i].process \in Started =>
         life[known[i].process].gone <= MaxLag + HintTtl + PidTtl + known[i].age

IInv ==
  /\ TypeOK
  /\ HintsAreLatest
  /\ EventsAreRecent /\ HintsAreRecent
  /\ ScanIsRecent
  /\ PidsAreRecent
  /\ KnownIsMap /\ KnownAreRecent
  /\ PartiesAreRecent /\ NamesAreRecent

-----------------------------------------------------------------------------
(* What a comment says, and the code does not do *)

\* "serve recent answers from the in-memory cache": what was stored within its
\* lifetime answers the next packet of the flow.
RecentAnswersAreServed ==
  \A i \in 1 .. Len(known) : Young(known[i]) => Known(known[i].key) # {}
=============================================================================
