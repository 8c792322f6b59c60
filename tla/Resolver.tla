-------------------------------- MODULE Resolver --------------------------------
(***************************************************************************)
(* resolver.c: the fallback that looks for the owner of a socket in /proc,  *)
(* its cache of flows, and the cache of pids that both sources share.  A    *)
(* scan takes two snapshots, sockets and then owners, and reads the name of *)
(* the owner after that; the host does not stand still in between.          *)
(***************************************************************************)
EXTENDS Host, Caches

CONSTANTS
  Listed,       \* conversations /proc/net lists with both ends
  ResolverTtl,  \* --resolver-ttl-sec
  Refresh,      \* --resolver-refresh-sec
  PidTtl,       \* the 30 seconds of resolver_read_identity_by_pid
  PidSlots      \* pids that share an entry of g_pid_cache

ASSUME ResolverAssumption ==
  /\ Listed \subseteq Convs
  /\ ResolverTtl \in Nat /\ Refresh \in Nat /\ PidTtl \in Nat
  /\ UNION PidSlots = Pids
  /\ \A s, t \in PidSlots : s = t \/ s \intersect t = {}

\* A name that is not known: "", or the placeholder pid_N of a process that is
\* gone.
NoName == 0
Placeholder == -1
Names == Started \union {NoName, Placeholder}

VARIABLES
  known,        \* resolver->entries
  lastRefresh,  \* ticks since resolver->last_refresh
  pids,         \* g_pid_cache
  wanted,       \* the tuple a scan is for
  listed,       \* its sockets in the first snapshot, by owner
  found         \* the owner in the second one

scanVars == <<wanted, listed, found>>
resolverVars == <<known, lastRefresh, pids, scanVars>>

ResolverInit ==
  /\ known = <<>>
  /\ lastRefresh = Refresh
  /\ pids = [s \in PidSlots |-> [pid |-> 0, process |-> NoName, age |-> PidTtl + 1]]
  /\ wanted = NoKey
  /\ listed = {}
  /\ found = 0

KnownRecords == [key : Keys, pid : Pids, process : Names, age : 0 .. ResolverTtl + 1]
PidRecords == [pid : Pids \union {0}, process : Names, age : 0 .. PidTtl + 1]
ResolverTypeOK ==
  /\ known \in Seq(KnownRecords) /\ Len(known) <= Cardinality(Keys)
  /\ lastRefresh \in 0 .. Refresh
  /\ pids \in [PidSlots -> PidRecords]
  /\ \A s \in PidSlots : pids[s].pid \in s \union {0}
  /\ wanted \in Keys \union {NoKey}
  /\ listed \subseteq Started
  /\ found \in Pids \union {0}

ResolverTick ==
  /\ known' = [i \in DOMAIN known |-> [known[i] EXCEPT !.age = Older(@, ResolverTtl)]]
  /\ pids' = [s \in PidSlots |-> [pids[s] EXCEPT !.age = Older(@, PidTtl)]]
  /\ lastRefresh' = IF Refresh > 0 THEN Older(lastRefresh, Refresh - 1) ELSE 0
  /\ UNCHANGED scanVars

-----------------------------------------------------------------------------
(* Names *)

Slot(pid) == CHOOSE s \in PidSlots : pid \in s
Cached(pid) == pids[Slot(pid)].pid = pid /\ pids[Slot(pid)].age <= PidTtl

\* read_comm: the name of the process that has the pid now.
Comm(pid) ==
  IF \E n \in Alive : PidOf(n) = pid THEN CHOOSE n \in Alive : PidOf(n) = pid
  ELSE Placeholder

\* What resolver_read_identity_by_pid makes of a pid and the name it is given.
NameOf(pid, process) ==
  IF Cached(pid) THEN pids[Slot(pid)].process
  ELSE IF Comm(pid) = Placeholder /\ process # NoName THEN process
  ELSE Comm(pid)

\* The cache of pids after that.
\* (Mutant: a hit makes the entry young again.)
RenewPid(pid, process) ==
  pids' = [pids EXCEPT ![Slot(pid)] =
    [pid |-> pid, process |-> NameOf(pid, process), age |-> 0]]
KeepPid(pid, process) ==
  IF Cached(pid) THEN UNCHANGED pids
  ELSE pids' = [pids EXCEPT ![Slot(pid)] =
         [pid |-> pid, process |-> NameOf(pid, process), age |-> 0]]

-----------------------------------------------------------------------------
(* The cache of flows *)

Young(e) == e.age <= ResolverTtl

\* resolver_cache_get walks from the end and gives up at the first entry past
\* its lifetime.
\* (Mutant: lifetimes are not looked at.)
KnownAnyAge(k) == {i \in DOMAIN known : SameConv(k, known[i].key)}
Known(k) ==
  {i \in DOMAIN known :
     SameConv(k, known[i].key) /\ \A j \in i .. Len(known) : Young(known[j])}

\* resolver_cache_put: update in place, or append and prune.
Store(e) ==
  LET at == {i \in DOMAIN known : known[i].key = e.key}
      more == Append(known, e)
  IN  \/ known' \in Updated(known, at, e)
      \/ at = {} /\ known' \in Pruned(more, {i \in DOMAIN more : Young(more[i])})
      \/ at = {} /\ Len(known) \in FullAt /\ UNCHANGED known

-----------------------------------------------------------------------------
(* resolver_lookup after a miss *)

\* A scan is not due.
Throttled == lastRefresh < Refresh

\* parse_proc_net_file, for the lines that match.
ListSockets(k) ==
  /\ lastRefresh' = 0
  /\ wanted' = k
  /\ listed' = {n \in Alive : SameConv(k, life[n].key) /\ k[1] \in Listed}
  /\ UNCHANGED <<known, pids, found>>

\* Inodes of the first snapshot that a process has open in the second one:
\* collect_inode_owners, lookup_inode_owner.
Owned == listed \intersect Alive

FindOwner ==
  /\ \E n \in Owned : found' = PidOf(n)
  /\ listed' = {}
  /\ UNCHANGED <<known, lastRefresh, pids, wanted>>

NoOwner ==
  /\ Owned = {}
  /\ listed' = {}
  /\ wanted' = NoKey
  /\ UNCHANGED <<known, lastRefresh, pids, found>>

\* The owner gets its name, and the flow an entry.
Remember ==
  /\ KeepPid(found, NoName)
  /\ Store([key |-> wanted, pid |-> found, process |-> NameOf(found, NoName), age |-> 0])
  /\ found' = 0
  /\ wanted' = NoKey
  /\ UNCHANGED <<lastRefresh, listed>>
=============================================================================
