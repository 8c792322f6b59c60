------------------------------ MODULE EbpfTracker ------------------------------
(***************************************************************************)
(* The eBPF side of attribution: the probes of if_flow.bpf.c, which note    *)
(* the task that is current when a socket connects or sends or receives,    *)
(* the ring buffer, and the cache of ebpf_tracker.c.                        *)
(***************************************************************************)
EXTENDS Host, Caches

CONSTANTS
  Probed,       \* conversations the probes report: IPv4, TCP or UDP, with a peer
  ConnectTtl,   \* --ebpf-ttl-sec
  DatapathTtl,  \* --datapath-ttl-sec
  WorkerPid,    \* the pid of a kernel thread
  UseDatapath,  \* --datapath
  RingSize,     \* events the ring buffer holds
  MaxEvents     \* events the probes submit (a bound)

ASSUME TrackerAssumption ==
  /\ Probed \subseteq Convs
  /\ ConnectTtl \in Nat /\ DatapathTtl \in Nat
  /\ WorkerPid \notin Pids \union {0}
  /\ UseDatapath \in BOOLEAN
  /\ RingSize \in Nat /\ MaxEvents \in Nat

Sources == {"connect", "datapath"}

\* Tasks that may be current in the datapath: user processes, the idle task,
\* which has pid 0, and worker threads of the kernel, known by their names.
Kernel == -2
Idle == -3
KernelTasks == {[pid |-> 0, process |-> Idle], [pid |-> WorkerPid, process |-> Kernel]}
Tasks == {[pid |-> PidOf(n), process |-> n] : n \in Alive} \union KernelTasks

VARIABLES
  ring,    \* events not consumed yet
  events,  \* events submitted so far
  hints,   \* tracker->entries
  latest   \* history: the last hint stored for each tuple and source, while it lasts

trackerVars == <<ring, events, hints, latest>>

\* entry_ttl_sec
Ttl(h) == IF h.source = "datapath" THEN DatapathTtl ELSE ConnectTtl
HintTtl == IF ConnectTtl < DatapathTtl THEN DatapathTtl ELSE ConnectTtl  \* the longer one

TrackerInit ==
  /\ ring = <<>>
  /\ events = 0
  /\ hints = <<>>
  /\ latest = {}

Events == [key : Keys, source : Sources, pid : Pids \union {0, WorkerPid},
           process : Started \union {Kernel, Idle}]
HintRecords == [key : Keys, source : Sources, pid : Pids, process : Started, age : Nat]
TrackerTypeOK ==
  /\ ring \in Seq(Events) /\ Len(ring) <= RingSize
  /\ events \in 0 .. MaxEvents
  /\ hints \in Seq(HintRecords) /\ Len(hints) <= Cardinality(Keys \X Sources)
  /\ \A i \in DOMAIN hints : hints[i].age <= Ttl(hints[i]) + 1

Aged(h) == [h EXCEPT !.age = Older(@, Ttl(h))]
TrackerTick ==
  /\ hints' = [i \in DOMAIN hints |-> Aged(hints[i])]
  /\ latest' = {h \in {Aged(l) : l \in latest} : h.age <= Ttl(h)}
  /\ UNCHANGED <<ring, events>>

-----------------------------------------------------------------------------
(* if_flow.bpf.c *)

\* submit_from_sock.  A full ring loses the event.
Submit(k, task, source) ==
  IF k[1] \in Probed /\ Len(ring) < RingSize
    THEN /\ events < MaxEvents
         /\ ring' = Append(ring, [key |-> k, source |-> source,
                                  pid |-> task.pid, process |-> task.process])
         /\ events' = events + 1
    ELSE UNCHANGED <<ring, events>>

\* kp_tcp_connect runs in the process that connects.
Connect ==
  /\ \E p \in Pids, k \in Keys :
       /\ Start(p, k)
       /\ Submit(k, [pid |-> p, process |-> Len(life')], "connect")
  /\ UNCHANGED <<hints, latest>>

\* An accepted socket has no connect event.
Accept ==
  /\ \E p \in Pids, k \in Keys : Start(p, k)
  /\ UNCHANGED trackerVars

\* kp_ip_local_out and kp_ip_rcv run in whatever task is current.
Datapath ==
  /\ UseDatapath
  /\ \E k \in Sockets, t \in Tasks : Submit(k, t, "datapath")
  /\ UNCHANGED <<life, hints, latest>>

-----------------------------------------------------------------------------
(* ebpf_tracker.c *)

\* ebpf_identity_usable
\* (Mutant: kernel threads are not left out.)
UsablePid(e) == e.pid # 0
Usable(e) == e.pid # 0 /\ e.process # Kernel

Fresh(h) == h.age <= Ttl(h)

\* ebpf_cache_prune
Prune(hs) == Pruned(hs, {i \in DOMAIN hs : Fresh(hs[i])})

\* The loop of ebpf_cache_put: the hint to update.
\* (Mutant: one of another process does not count.)
SameOwn(h, e) == h.source = e.source /\ h.key = e.key /\ h.pid = e.pid
Same(h, e) == h.source = e.source /\ h.key = e.key

Last(h) == {l \in latest : <<l.key, l.source>> # <<h.key, h.source>>} \union {h}

\* ebpf_cache_put: update in place, or append and prune.
Put(e) ==
  LET at == {i \in DOMAIN hints : Same(hints[i], e)}
      h == [key |-> e.key, source |-> e.source, pid |-> e.pid,
            process |-> e.process, age |-> 0]
  IN  \/ hints' \in Updated(hints, at, h) /\ latest' = Last(h)
      \/ at = {} /\ hints' \in Prune(Append(hints, h)) /\ latest' = Last(h)
      \/ at = {} /\ Len(hints) \in FullAt /\ UNCHANGED <<hints, latest>>

\* on_ebpf_event, for the next event of the ring.
OnEvent ==
  /\ ring # <<>>
  /\ ring' = Tail(ring)
  /\ \/ Usable(Head(ring)) /\ Put(Head(ring))
     \/ ~ Usable(Head(ring)) /\ UNCHANGED <<hints, latest>>
  /\ UNCHANGED events

\* ebpf_tracker_lookup: the hints that may answer, of which the newest does.
Hints(k) == {i \in DOMAIN hints : Fresh(hints[i]) /\ SameConv(k, hints[i].key)}
=============================================================================
