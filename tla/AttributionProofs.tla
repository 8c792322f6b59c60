---------------------------- MODULE AttributionProofs ----------------------------
(***************************************************************************)
(* Proofs about Attribution, for any host, any lifetimes and any bounds.    *)
(***************************************************************************)
EXTENDS Attribution, ListLemmas

-----------------------------------------------------------------------------
(* Tuples *)

\* A conversation has two tuples, each the reverse of the other.
LEMMA TwoTuples ==
  ASSUME NEW k \in Keys
  PROVE  Rev(k) \in Keys /\ Rev(Rev(k)) = k
<1>1. PICK c \in Convs, e \in Ends : k = <<c, e>>
  BY DEF Keys
<1>2. \E x : Ends \ {e} = {x}
  <2>1. IsFiniteSet(Ends \ {e}) /\ Cardinality(Ends \ {e}) = 1
    BY HostAssumption, FS_RemoveElement
  <2> QED
    BY <2>1, FS_Singleton
<1>3. PICK f : Ends \ {e} = {f}
  BY <1>2
<1>4. f \in Ends /\ f # e /\ \A x \in Ends : x = e \/ x = f
  BY <1>3
<1>5. Rev(k) = <<c, f>>
  <2>1. (CHOOSE x \in Ends : x # e) = f
    BY <1>4
  <2> QED
    BY <1>1, <2>1 DEF Rev
<1>6. Rev(<<c, f>>) = <<c, e>>
  <2>1. (CHOOSE x \in Ends : x # f) = e
    BY <1>4
  <2> QED
    BY <2>1 DEF Rev
<1> QED
  BY <1>1, <1>4, <1>5, <1>6 DEF Keys

LEMMA Conversations ==
  ASSUME NEW k \in Keys, NEW l \in Keys, NEW m \in Keys
  PROVE  /\ SameConv(k, k)
         /\ SameConv(k, l) => SameConv(l, k)
         /\ SameConv(k, l) /\ SameConv(l, m) => SameConv(k, m)
BY TwoTuples DEF SameConv

LEMMA KeysFinite == IsFiniteSet(Keys) /\ IsFiniteSet(Keys \X Sources)
<1>1. IsFiniteSet(Keys)
  BY HostAssumption, FS_Product DEF Keys
<1>2. IsFiniteSet(Sources)
  <2>1. IsFiniteSet({} \union {"connect"})
    BY FS_EmptySet, FS_AddElement
  <2>2. IsFiniteSet(({} \union {"connect"}) \union {"datapath"})
    BY <2>1, FS_AddElement
  <2>3. Sources = ({} \union {"connect"}) \union {"datapath"}
    BY DEF Sources
  <2> QED
    BY <2>2, <2>3
<1> QED
  BY <1>1, <1>2, FS_Product

-----------------------------------------------------------------------------
(* The host *)

\* Processes keep their pids and tuples; one that has ended, ended k ticks
\* longer ago.
Onward(k) ==
  /\ Started \subseteq Started'
  /\ \A n \in Started :
       /\ life'[n].pid = life[n].pid
       /\ life'[n].key = life[n].key
       /\ \A d \in Nat : life[n].gone <= d => life'[n].gone <= d + k

LEMMA LifeParts ==
  ASSUME HostTypeOK
  PROVE  /\ Len(life) \in Nat /\ DOMAIN life = Started /\ Len(life) <= MaxProcs
         /\ \A n \in Started : /\ life[n] \in Lives /\ life[n].gone \in Int
                               /\ life[n].pid \in Pids /\ life[n].key \in Keys
                               /\ n \in Procs
<1>1. /\ Len(life) \in Nat /\ DOMAIN life = Started
      /\ \A n \in Started : life[n] \in Lives
  BY PlacesOfList DEF HostTypeOK, Started
<1>2. \A n \in Started : life[n].gone \in Int /\ life[n].pid \in Pids /\ life[n].key \in Keys
  BY <1>1, HostAssumption DEF Lives, Running
<1>3. Len(life) <= MaxProcs /\ \A n \in Started : n \in Procs
  BY <1>1, HostAssumption DEF HostTypeOK, Started, Procs
<1> QED
  BY <1>1, <1>2, <1>3

LEMMA TickOfHost ==
  ASSUME HostTypeOK, HostTick
  PROVE  HostTypeOK' /\ Started' = Started /\ Onward(1)
<1> DEFINE after(n) == IF life[n].gone = Running THEN life[n]
                       ELSE [life[n] EXCEPT !.gone = Older(@, MaxGone)]
<1>1. life' = [n \in Started |-> after(n)]
  BY LifeParts DEF HostTick
<1>2. ASSUME NEW n \in Started
      PROVE  /\ after(n) \in Lives
             /\ after(n).pid = life[n].pid /\ after(n).key = life[n].key
             /\ after(n).gone \in {life[n].gone, life[n].gone + 1}
  BY LifeParts, HostAssumption DEF Lives, Running, Older
<1> HIDE DEF after
<1>3. life' \in [1 .. Len(life) -> Lives] /\ Len(life) \in Nat
  BY <1>1, <1>2, LifeParts DEF Started
<1>4. life' \in Seq(Lives) /\ Len(life') = Len(life)
  BY <1>3, ListOf
<1>5. \A n \in Started : \A d \in Nat : life[n].gone <= d => life'[n].gone <= d + 1
  BY <1>1, <1>2, LifeParts
<1> QED
  BY <1>1, <1>2, <1>4, <1>5 DEF HostTypeOK, Onward, Started

LEMMA StartOfHost ==
  ASSUME HostTypeOK, NEW p \in Pids, NEW k \in Keys, Start(p, k)
  PROVE  /\ HostTypeOK' /\ Onward(0)
         /\ Len(life') \in Started' /\ life'[Len(life')] = [pid |-> p, key |-> k, gone |-> Running]
<1>1. [pid |-> p, key |-> k, gone |-> Running] \in Lives
  BY DEF Lives
<1>2. /\ life' \in Seq(Lives) /\ Len(life') = Len(life) + 1
      /\ \A n \in 1 .. Len(life) : life'[n] = life[n]
      /\ life'[Len(life) + 1] = [pid |-> p, key |-> k, gone |-> Running]
  BY <1>1, AppendProperties DEF Start, HostTypeOK
<1>3. HostTypeOK'
  BY <1>2, LifeParts, HostAssumption DEF HostTypeOK, Start
<1>4. Onward(0)
  BY <1>2, LifeParts DEF Onward, Started
<1> QED
  BY <1>2, <1>3, <1>4, LifeParts DEF Started

LEMMA ExitOfHost ==
  ASSUME HostTypeOK, Exit
  PROVE  HostTypeOK' /\ Onward(0)
<1>1. PICK n \in Alive : life' = [life EXCEPT ![n].gone = 0]
  BY DEF Exit
<1>2. n \in 1 .. Len(life) /\ life[n].gone = Running
  BY DEF Alive, Started
<1>3. [life[n] EXCEPT !.gone = 0] \in Lives
  BY <1>2, LifeParts, HostAssumption DEF Lives, Started
<1>4. life' = [life EXCEPT ![n] = [life[n] EXCEPT !.gone = 0]]
  BY <1>1
<1>5. /\ life' \in Seq(Lives) /\ Len(life') = Len(life)
      /\ \A m \in 1 .. Len(life) :
           life'[m] = IF m = n THEN [life[n] EXCEPT !.gone = 0] ELSE life[m]
  BY <1>2, <1>3, <1>4, ExceptSeq DEF HostTypeOK
<1>6. \A m \in Started : /\ life'[m].pid = life[m].pid
                         /\ life'[m].key = life[m].key
                         /\ \A d \in Nat : life[m].gone <= d => life'[m].gone <= d + 0
  BY <1>2, <1>5, LifeParts DEF Started, Lives
<1> QED
  BY <1>5, <1>6 DEF HostTypeOK, Onward, Started

LEMMA HostStands ==
  ASSUME HostTypeOK, UNCHANGED life
  PROVE  HostTypeOK' /\ Onward(0)
BY LifeParts DEF HostTypeOK, Onward, Started

LEMMA HostMoves ==
  ASSUME HostTypeOK, HostStep
  PROVE  HostTypeOK' /\ Onward(0)
<1>1. CASE Exit
  BY <1>1, ExitOfHost
<1>2. CASE Accept
  BY <1>2, StartOfHost DEF Accept
<1>3. CASE Connect
  BY <1>3, StartOfHost DEF Connect
<1>4. CASE Datapath
  BY <1>4, HostStands DEF Datapath
<1> QED
  BY <1>1, <1>2, <1>3, <1>4 DEF HostStep

LEMMA LifeStep ==
  ASSUME HostTypeOK, [Next]_vars
  PROVE  /\ HostTypeOK' /\ Started \subseteq Started'
         /\ \/ (Tick /\ answer' = Silent) /\ Onward(1)
            \/ Onward(0)
<1>1. CASE Tick /\ answer' = Silent
  BY <1>1, TickOfHost DEF Tick
<1>2. CASE HostStep
  BY <1>2, HostMoves DEF Onward
<1>3. CASE \/ \E k \in Keys : Packet(k)
           \/ ScanOwners \/ ScanName \/ Poll \/ Consume \/ PollEnds
           \/ UNCHANGED vars
  <2>1. UNCHANGED life
    BY <1>3 DEF Packet, FromHint, FromCache, NotNow, Scan, ScanOwners, ScanName,
                Poll, Consume, PollEnds, vars
  <2> QED
    BY <2>1, HostStands DEF Onward
<1> QED
  BY <1>1, <1>2, <1>3 DEF Next

\* A process of a conversation, of some pid, that had not ended d ticks ago.
HadIn(procs, c, pid, d) ==
  \E n \in 1 .. Len(procs) :
    procs[n].pid = pid /\ SameConv(c, procs[n].key) /\ procs[n].gone <= d

\* What was so long ago is k ticks later at most k ticks longer ago.
LEMMA HadOn ==
  ASSUME HostTypeOK, NEW k \in {0, 1}, Onward(k),
         NEW c, NEW pid, NEW d \in Nat, HadIn(life, c, pid, d)
  PROVE  HadIn(life', c, pid, d + k)
<1>1. PICK n \in Started :
        life[n].pid = pid /\ SameConv(c, life[n].key) /\ life[n].gone <= d
  BY DEF HadIn, Started
<1>2. /\ n \in Started' /\ life'[n].pid = life[n].pid /\ life'[n].key = life[n].key
      /\ life'[n].gone <= d + k
  BY <1>1 DEF Onward
<1> QED
  BY <1>1, <1>2 DEF HadIn, Started

LEMMA LongerAgo ==
  ASSUME HostTypeOK, NEW c, NEW pid, NEW d \in Nat, NEW f \in Nat, d <= f,
         HadIn(life, c, pid, d)
  PROVE  HadIn(life, c, pid, f)
<1>1. PICK n \in Started :
        life[n].pid = pid /\ SameConv(c, life[n].key) /\ life[n].gone <= d
  BY DEF HadIn, Started
<1>2. life[n].gone <= f
  BY <1>1, LifeParts
<1> QED
  BY <1>1, <1>2 DEF HadIn, Started

-----------------------------------------------------------------------------
(* The arrays *)

LEMMA PrunedParts ==
  ASSUME NEW S, NEW s \in Seq(S), NEW kept, kept \subseteq DOMAIN s,
         NEW p \in Pruned(s, kept)
  PROVE  /\ p \in Seq(S) /\ Len(p) <= Len(s)
         /\ \E from \in [DOMAIN p -> kept] :
              /\ \A i \in DOMAIN p : p[i] = s[from[i]]
              /\ \A i, j \in DOMAIN p : from[i] = from[j] => i = j
              /\ \A k \in kept : \E i \in DOMAIN p : from[i] = k
<1> DEFINE n == Cardinality(kept)
<1>1. IsFiniteSet(kept) /\ n \in Nat /\ n <= Len(s) /\ \A k \in kept : k \in Nat /\ s[k] \in S
  <2>1. /\ IsFiniteSet(DOMAIN s) /\ Cardinality(DOMAIN s) = Len(s)
        /\ DOMAIN s = 1 .. Len(s) /\ Len(s) \in Nat
        /\ \A k \in DOMAIN s : s[k] \in S
    BY PlacesOfList
  <2>2. IsFiniteSet(kept) /\ Cardinality(kept) <= Len(s)
    BY <2>1, FS_Subset
  <2> QED
    BY <2>1, <2>2, FS_CardinalityType
<1>2. PICK from \in [1 .. n -> kept] :
        /\ \A i, j \in 1 .. n : i < j => from[i] < from[j]
        /\ p = [i \in 1 .. n |-> s[from[i]]]
  BY DEF Pruned
<1> HIDE DEF n
<1>3. p \in Seq(S) /\ Len(p) = n /\ DOMAIN p = 1 .. n
  <2>1. p \in [1 .. n -> S]
    BY <1>1, <1>2
  <2> QED
    BY <1>1, <2>1, ListOf
<1>4. \A i, j \in 1 .. n : from[i] = from[j] => i = j
  <2> SUFFICES ASSUME NEW i \in 1 .. n, NEW j \in 1 .. n, from[i] = from[j], i # j
               PROVE  FALSE
    OBVIOUS
  <2>1. i < j \/ j < i
    BY <1>1
  <2>2. from[i] \in Nat /\ from[j] \in Nat /\ (from[i] < from[j] \/ from[j] < from[i])
    BY <1>1, <1>2, <2>1
  <2> QED
    BY <2>2
<1>5. \A k \in kept : \E i \in 1 .. n : from[i] = k
  BY <1>1, <1>2, <1>4, EnumerationIsOnto DEF n
<1>6. \A i \in 1 .. n : p[i] = s[from[i]]
  BY <1>2
<1> QED
  BY <1>1, <1>2, <1>3, <1>4, <1>5, <1>6

LEMMA UpdatedParts ==
  ASSUME NEW S, NEW s \in Seq(S), NEW at, at \subseteq DOMAIN s, NEW e \in S,
         NEW u \in Updated(s, at, e)
  PROVE  /\ u \in Seq(S) /\ Len(u) = Len(s) /\ DOMAIN u = DOMAIN s
         /\ \E i \in at : \A j \in DOMAIN s : u[j] = IF j = i THEN e ELSE s[j]
<1>1. PICK i \in First(at) : u = [s EXCEPT ![i] = e]
  BY DEF Updated
<1>2. i \in at /\ i \in 1 .. Len(s) /\ DOMAIN s = 1 .. Len(s)
  BY <1>1, PlacesOfList DEF First
<1>3. /\ u \in Seq(S) /\ Len(u) = Len(s)
      /\ \A j \in 1 .. Len(s) : u[j] = IF j = i THEN e ELSE s[j]
  BY <1>1, <1>2, ExceptSeq
<1> QED
  BY <1>1, <1>2, <1>3, PlacesOfList

LEMMA AppendedParts ==
  ASSUME NEW S, NEW s \in Seq(S), NEW e \in S
  PROVE  LET a == Append(s, e)
         IN  /\ a \in Seq(S) /\ Len(a) = Len(s) + 1
             /\ DOMAIN a = 1 .. Len(s) + 1 /\ Len(s) \in Nat /\ DOMAIN s = 1 .. Len(s)
             /\ \A i \in DOMAIN s : i \in DOMAIN a /\ a[i] = s[i]
             /\ \A i \in DOMAIN a : i \notin DOMAIN s => i = Len(s) + 1 /\ a[i] = e
             /\ a[Len(s) + 1] = e
<1>1. /\ Append(s, e) \in Seq(S) /\ Len(Append(s, e)) = Len(s) + 1
      /\ \A i \in 1 .. Len(s) : Append(s, e)[i] = s[i]
      /\ Append(s, e)[Len(s) + 1] = e
  BY AppendProperties
<1>2. Len(s) \in Nat /\ DOMAIN s = 1 .. Len(s) /\ DOMAIN Append(s, e) = 1 .. Len(s) + 1
  BY <1>1, PlacesOfList
<1> QED
  BY <1>1, <1>2

-----------------------------------------------------------------------------
(* The cache of hints *)

\* The hints as a map: one for a tuple and a source; and those that live are
\* the latest ones.
MapOf(hs) ==
  \A i, j \in DOMAIN hs : hs[i].key = hs[j].key /\ hs[i].source = hs[j].source => i = j
Living(hs) == {hs[i] : i \in {j \in DOMAIN hs : Fresh(hs[j])}}
\* A well-typed list of hints, with processes out of P.
HintList(hs, P) ==
  /\ hs \in Seq([key : Keys, source : Sources, pid : Pids, process : P, age : Nat])
  /\ \A i \in DOMAIN hs : hs[i].age <= Ttl(hs[i]) + 1

LEMMA HintParts ==
  ASSUME NEW P, NEW hs, HintList(hs, P)
  PROVE  /\ Len(hs) \in Nat /\ DOMAIN hs = 1 .. Len(hs)
         /\ \A i \in DOMAIN hs :
              /\ hs[i] \in [key : Keys, source : Sources, pid : Pids, process : P, age : Nat]
              /\ hs[i].key \in Keys /\ hs[i].source \in Sources
              /\ hs[i].pid \in Pids /\ hs[i].process \in P
              /\ hs[i].age \in Nat /\ Ttl(hs[i]) \in Nat
              /\ hs[i].age <= Ttl(hs[i]) + 1
<1>1. /\ Len(hs) \in Nat /\ DOMAIN hs = 1 .. Len(hs)
      /\ \A i \in DOMAIN hs :
           hs[i] \in [key : Keys, source : Sources, pid : Pids, process : P, age : Nat]
  BY PlacesOfList DEF HintList
<1>2. \A i \in DOMAIN hs : Ttl(hs[i]) \in Nat
  BY TrackerAssumption DEF Ttl
<1> QED
  BY <1>1, <1>2 DEF HintList

\* No more hints than there are tuples and sources.
LEMMA HintsBounded ==
  ASSUME NEW P, NEW hs, HintList(hs, P), MapOf(hs)
  PROVE  Len(hs) <= Cardinality(Keys \X Sources)
<1> DEFINE g == [i \in DOMAIN hs |-> <<hs[i].key, hs[i].source>>]
<1>1. g \in [DOMAIN hs -> Keys \X Sources]
  BY HintParts
<1>2. \A i, j \in DOMAIN hs : g[i] = g[j] => i = j
  BY DEF MapOf
<1> HIDE DEF g
<1>3. hs \in Seq([key : Keys, source : Sources, pid : Pids, process : P, age : Nat])
  BY DEF HintList
<1> QED
  BY <1>1, <1>2, <1>3, KeysFinite, NoLongerThan

LEMMA PruneKeeps ==
  ASSUME NEW P, NEW hs, HintList(hs, P), NEW p \in Prune(hs)
  PROVE  /\ HintList(p, P)
         /\ MapOf(hs) => MapOf(p)
         /\ Living(p) = Living(hs)
         /\ \A i \in DOMAIN p : Fresh(p[i]) /\ \E j \in DOMAIN hs : p[i] = hs[j]
<1> DEFINE R == [key : Keys, source : Sources, pid : Pids, process : P, age : Nat]
           kept == {i \in DOMAIN hs : Fresh(hs[i])}
<1>1. p \in Seq(R)
      /\ \E from \in [DOMAIN p -> kept] :
              /\ \A i \in DOMAIN p : p[i] = hs[from[i]]
              /\ \A i, j \in DOMAIN p : from[i] = from[j] => i = j
              /\ \A k \in kept : \E i \in DOMAIN p : from[i] = k
  <2>1. p \in Pruned(hs, kept) /\ hs \in Seq(R) /\ kept \subseteq DOMAIN hs
    BY DEF Prune, HintList
  <2> HIDE DEF kept, R
  <2> QED
    BY <2>1, PrunedParts
<1>2. PICK from \in [DOMAIN p -> kept] :
              /\ \A i \in DOMAIN p : p[i] = hs[from[i]]
              /\ \A i, j \in DOMAIN p : from[i] = from[j] => i = j
              /\ \A k \in kept : \E i \in DOMAIN p : from[i] = k
  BY <1>1
<1>3. \A i \in DOMAIN p : from[i] \in DOMAIN hs /\ Fresh(hs[from[i]])
  BY <1>2
<1>4. HintList(p, P)
  BY <1>1, <1>2, <1>3 DEF HintList
<1>5. MapOf(hs) => MapOf(p)
  BY <1>2, <1>3 DEF MapOf
<1>6. Living(p) \subseteq Living(hs)
  BY <1>2, <1>3 DEF Living
<1>7. Living(hs) \subseteq Living(p)
  BY <1>2, <1>3 DEF Living
<1> QED
  BY <1>2, <1>3, <1>4, <1>5, <1>6, <1>7

\* Putting a hint: it is the latest one of its tuple and source, the others
\* stay, or nothing changes.
LEMMA PutKeeps ==
  ASSUME TrackerTypeOK, HintsAreLatest, NEW e \in Events,
         e.pid \in Pids, e.process \in Started, Put(e)
  PROVE  /\ HintList(hints', Started) /\ MapOf(hints')
         /\ Living(hints') = latest'
         /\ \A i \in DOMAIN hints' :
              \/ \E j \in DOMAIN hints : hints'[i] = hints[j]
              \/ hints'[i] = [key |-> e.key, source |-> e.source, pid |-> e.pid,
                              process |-> e.process, age |-> 0]
<1> DEFINE h == [key |-> e.key, source |-> e.source, pid |-> e.pid,
                 process |-> e.process, age |-> 0]
           at == {i \in DOMAIN hints : Same(hints[i], e)}
<1>1. h \in HintRecords /\ Fresh(h) /\ h.age <= Ttl(h) + 1
      /\ h.key = e.key /\ h.source = e.source
  BY TrackerAssumption DEF HintRecords, Events, Fresh, Ttl
<1>2. /\ HintList(hints, Started) /\ MapOf(hints) /\ Living(hints) = latest
      /\ hints \in Seq(HintRecords) /\ at \subseteq DOMAIN hints
  BY DEF TrackerTypeOK, HintsAreLatest, HintList, HintRecords, MapOf, Living
<1>3. \A i \in DOMAIN hints :
        /\ i \in at <=> hints[i].key = h.key /\ hints[i].source = h.source
        /\ hints[i].age <= Ttl(hints[i]) + 1
  BY <1>1, <1>2 DEF Same, HintList
<1>4. \/ hints' \in Updated(hints, at, h) /\ latest' = Last(h)
      \/ at = {} /\ hints' \in Prune(Append(hints, h)) /\ latest' = Last(h)
      \/ UNCHANGED <<hints, latest>>
  BY DEF Put
<1>5. Last(h) = {l \in latest : l.key # h.key \/ l.source # h.source} \union {h}
  BY DEF Last
<1> HIDE DEF h, at
<1>6. CASE hints' \in Updated(hints, at, h) /\ latest' = Last(h)
  <2>1. /\ hints' \in Seq(HintRecords) /\ Len(hints') = Len(hints)
        /\ DOMAIN hints' = DOMAIN hints
        /\ \E i \in at : \A j \in DOMAIN hints : hints'[j] = IF j = i THEN h ELSE hints[j]
    <3>1. /\ hints' \in Updated(hints, at, h) /\ h \in HintRecords
          /\ at \subseteq DOMAIN hints /\ hints \in Seq(HintRecords)
      BY <1>1, <1>2, <1>6
    <3>2. PICK u : u = hints'
      OBVIOUS
    <3>3. u \in Updated(hints, at, h)
      BY <3>1, <3>2
    <3>4. /\ u \in Seq(HintRecords) /\ Len(u) = Len(hints) /\ DOMAIN u = DOMAIN hints
          /\ \E i \in at : \A j \in DOMAIN hints : u[j] = IF j = i THEN h ELSE hints[j]
      BY <3>1, <3>3, UpdatedParts
    <3> QED
      BY <3>2, <3>4
  <2>2. PICK i \in at : \A j \in DOMAIN hints : hints'[j] = IF j = i THEN h ELSE hints[j]
    BY <2>1
  <2>3. i \in DOMAIN hints /\ hints[i].key = h.key /\ hints[i].source = h.source
    BY <1>2, <1>3, <2>2
  <2>4. HintList(hints', Started)
    BY <1>1, <1>3, <2>1, <2>2 DEF HintList, HintRecords
  <2>5. MapOf(hints')
    BY <1>2, <2>1, <2>2, <2>3 DEF MapOf
  <2>6. Living(hints') \subseteq Last(h)
    <3> SUFFICES ASSUME NEW j \in DOMAIN hints, Fresh(hints'[j])
                 PROVE  hints'[j] \in Last(h)
      BY <2>1 DEF Living
    <3>1. CASE j = i
      BY <1>5, <2>2, <3>1
    <3>2. CASE j # i
      <4>1. hints'[j] = hints[j] /\ hints[j] \in latest
        BY <1>2, <2>2, <3>2 DEF Living
      <4>2. hints[j].key # h.key \/ hints[j].source # h.source
        BY <1>2, <2>3, <3>2 DEF MapOf
      <4> QED
        BY <1>5, <4>1, <4>2
    <3> QED
      BY <3>1, <3>2
  <2>7. Last(h) \subseteq Living(hints')
    <3> SUFFICES ASSUME NEW l \in Last(h) PROVE l \in Living(hints')
      OBVIOUS
    <3>1. CASE l = h
      BY <1>1, <2>1, <2>2, <2>3, <3>1 DEF Living
    <3>2. CASE l # h
      <4>1. l \in latest /\ (l.key # h.key \/ l.source # h.source)
        BY <1>5, <3>2
      <4>2. PICK j \in DOMAIN hints : Fresh(hints[j]) /\ l = hints[j]
        BY <1>2, <4>1 DEF Living
      <4>3. hints'[j] = l
        BY <2>2, <2>3, <4>1, <4>2
      <4> QED
        BY <2>1, <4>2, <4>3 DEF Living
    <3> QED
      BY <3>1, <3>2
  <2> QED
    BY <1>6, <2>1, <2>2, <2>4, <2>5, <2>6, <2>7 DEF h
<1>7. CASE at = {} /\ hints' \in Prune(Append(hints, h)) /\ latest' = Last(h)
  <2> DEFINE a == Append(hints, h)
  <2>1. /\ a \in Seq(HintRecords) /\ Len(a) = Len(hints) + 1
        /\ DOMAIN a = 1 .. Len(hints) + 1 /\ Len(hints) \in Nat
        /\ DOMAIN hints = 1 .. Len(hints)
        /\ \A i \in DOMAIN hints : i \in DOMAIN a /\ a[i] = hints[i]
        /\ \A i \in DOMAIN a : i \notin DOMAIN hints => i = Len(hints) + 1 /\ a[i] = h
        /\ a[Len(hints) + 1] = h
    BY <1>1, <1>2, AppendedParts
  <2> HIDE DEF a
  <2>2. HintList(a, Started)
    BY <1>1, <1>3, <2>1 DEF HintList, HintRecords
  <2>3. MapOf(a)
    BY <1>2, <1>3, <1>7, <2>1 DEF MapOf
  <2>4. Living(a) = Last(h)
    <3>1. Living(a) = Living(hints) \union {h}
      BY <1>1, <2>1 DEF Living
    <3>2. \A l \in latest : l.key # h.key \/ l.source # h.source
      BY <1>2, <1>3, <1>7 DEF Living
    <3> QED
      BY <1>2, <1>5, <3>1, <3>2
  <2>5. /\ HintList(hints', Started) /\ MapOf(hints') /\ Living(hints') = Living(a)
        /\ \A i \in DOMAIN hints' : \E j \in DOMAIN a : hints'[i] = a[j]
    <3>1. hints' \in Prune(a)
      BY <1>7 DEF a
    <3> QED
      BY <2>2, <2>3, <3>1, PruneKeeps
  <2> QED
    BY <1>7, <2>1, <2>4, <2>5 DEF h
<1>8. CASE UNCHANGED <<hints, latest>>
  BY <1>2, <1>8 DEF HintList, MapOf, Living
<1> QED
  BY <1>4, <1>6, <1>7, <1>8

\* A tick: all grow older, and those that live no longer are the latest no longer.
LEMMA TickOfTracker ==
  ASSUME TrackerTypeOK, HintsAreLatest, TrackerTick
  PROVE  /\ HintList(hints', Started) /\ MapOf(hints')
         /\ Living(hints') = latest'
         /\ DOMAIN hints' = DOMAIN hints
         /\ \A i \in DOMAIN hints :
              /\ hints'[i].pid = hints[i].pid /\ hints'[i].key = hints[i].key
              /\ hints'[i].process = hints[i].process
              /\ hints'[i].source = hints[i].source
              /\ Fresh(hints'[i]) => Fresh(hints[i]) /\ hints'[i].age = hints[i].age + 1
<1>1. /\ HintList(hints, Started) /\ MapOf(hints) /\ Living(hints) = latest
      /\ DOMAIN hints = 1 .. Len(hints) /\ Len(hints) \in Nat
  BY HintParts DEF TrackerTypeOK, HintsAreLatest, HintList, HintRecords, MapOf, Living
<1>2. ASSUME NEW i \in DOMAIN hints
      PROVE  /\ Aged(hints[i]) \in HintRecords
             /\ Aged(hints[i]).pid = hints[i].pid /\ Aged(hints[i]).key = hints[i].key
             /\ Aged(hints[i]).process = hints[i].process
             /\ Aged(hints[i]).source = hints[i].source
             /\ Aged(hints[i]).age = Older(hints[i].age, Ttl(hints[i]))
             /\ Ttl(Aged(hints[i])) = Ttl(hints[i])
             /\ Aged(hints[i]).age <= Ttl(Aged(hints[i])) + 1
             /\ Fresh(Aged(hints[i])) =>
                  Fresh(hints[i]) /\ Aged(hints[i]).age = hints[i].age + 1
  <2>1. /\ hints[i] \in HintRecords
        /\ hints[i].age \in Nat /\ Ttl(hints[i]) \in Nat
        /\ hints[i].age <= Ttl(hints[i]) + 1
    BY <1>1, HintParts DEF HintRecords
  <2>2. Older(hints[i].age, Ttl(hints[i])) \in Nat
    BY <2>1 DEF Older
  <2>3. /\ Aged(hints[i]) \in HintRecords
        /\ Aged(hints[i]).pid = hints[i].pid /\ Aged(hints[i]).key = hints[i].key
        /\ Aged(hints[i]).process = hints[i].process
        /\ Aged(hints[i]).source = hints[i].source
        /\ Aged(hints[i]).age = Older(hints[i].age, Ttl(hints[i]))
    BY <2>1, <2>2 DEF Aged, HintRecords
  <2>4. Ttl(Aged(hints[i])) = Ttl(hints[i])
    BY <2>3 DEF Ttl
  <2> QED
    BY <2>1, <2>3, <2>4 DEF Older, Fresh
<1>3. hints' = [i \in 1 .. Len(hints) |-> Aged(hints[i])]
  BY <1>1 DEF TrackerTick
<1>4. /\ hints' \in Seq(HintRecords) /\ DOMAIN hints' = DOMAIN hints
      /\ \A i \in DOMAIN hints : hints'[i] = Aged(hints[i])
  <2>1. hints' \in [1 .. Len(hints) -> HintRecords]
    BY <1>1, <1>2, <1>3
  <2> QED
    BY <1>1, <1>3, <2>1, ListOf
<1>5. HintList(hints', Started) /\ MapOf(hints')
  BY <1>1, <1>2, <1>4 DEF HintList, HintRecords, MapOf
<1>6. Living(hints') = latest'
  <2>1. latest' = {h \in {Aged(l) : l \in latest} : Fresh(h)}
    BY DEF TrackerTick, Fresh
  <2>2. Living(hints') \subseteq latest'
    BY <1>1, <1>2, <1>4, <2>1 DEF Living
  <2>3. latest' \subseteq Living(hints')
    BY <1>1, <1>2, <1>4, <2>1 DEF Living
  <2> QED
    BY <2>2, <2>3
<1> QED
  BY <1>2, <1>4, <1>5, <1>6

-----------------------------------------------------------------------------
(* What the steps do to the tracker *)

\* Events of the ring: of a process that runs or ran, or of the kernel.
LEMMA EventParts ==
  ASSUME TrackerTypeOK
  PROVE  /\ Len(ring) \in Nat /\ DOMAIN ring = 1 .. Len(ring)
         /\ \A i \in DOMAIN ring : ring[i] \in Events
BY PlacesOfList DEF TrackerTypeOK

\* The event consumed is the first one, and the others stay as they are.
LEMMA HeadParts ==
  ASSUME TrackerTypeOK, ring # <<>>
  PROVE  /\ Head(ring) = ring[1] /\ 1 \in DOMAIN ring /\ Head(ring) \in Events
         /\ Tail(ring) \in Seq(Events) /\ Len(Tail(ring)) <= Len(ring)
         /\ \A i \in DOMAIN Tail(ring) : i + 1 \in DOMAIN ring /\ Tail(ring)[i] = ring[i + 1]
<1>1. /\ ring \in Seq(Events) /\ Len(ring) \in Nat /\ DOMAIN ring = 1 .. Len(ring)
      /\ \A i \in DOMAIN ring : ring[i] \in Events
  BY EventParts DEF TrackerTypeOK
<1>2. Len(ring) # 0
  BY <1>1, EmptySeq
<1>3. /\ Tail(ring) \in Seq(Events) /\ Len(Tail(ring)) = Len(ring) - 1
      /\ \A i \in 1 .. Len(Tail(ring)) : Tail(ring)[i] = ring[i + 1]
  BY <1>1, HeadTailProperties
<1>4. DOMAIN Tail(ring) = 1 .. Len(ring) - 1
  BY <1>3, LenProperties
<1>5. Head(ring) = ring[1]
  BY <1>1
<1> QED
  BY <1>1, <1>2, <1>3, <1>4, <1>5

LEMMA UsableParts ==
  ASSUME HostTypeOK, TrackerTypeOK, EventsAreRecent, ring # <<>>, Usable(Head(ring))
  PROVE  LET e == Head(ring)
         IN  /\ e \in Events /\ e.pid \in Pids /\ e.process \in Started
             /\ NamesOwner(e) /\ life[e.process].gone <= lag
<1>1. Head(ring) \in Events /\ Head(ring) = ring[1] /\ 1 \in DOMAIN ring
  BY HeadParts
<1>2. Head(ring).pid # 0 /\ Head(ring).process # Kernel
  BY DEF Usable
<1>3. Head(ring).process \in Started /\ NamesOwner(Head(ring))
      /\ life[Head(ring).process].gone <= lag
  BY <1>1, <1>2 DEF EventsAreRecent
<1>4. Head(ring).pid \in Pids
  BY <1>3, LifeParts DEF NamesOwner, PidOf
<1> QED
  BY <1>1, <1>3, <1>4

LEMMA TrackerKinds ==
  ASSUME [Next]_vars
  PROVE  \/ /\ Tick /\ TrackerTick /\ lag' = IF Busy THEN lag + 1 ELSE 0
            /\ answer' = Silent
         \/ HostStep /\ UNCHANGED <<hints, latest, lag>>
         \/ /\ UNCHANGED <<life, ring, events, hints, latest>>
            /\ lag' = lag \/ (ring = <<>> /\ lag' = 0 /\ apc' = "idle")
         \/ UNCHANGED <<life, lag>> /\ OnEvent
         \/ /\ hints' \in Prune(hints) /\ UNCHANGED <<life, ring, events, latest>>
            /\ lag' = lag \/ (ring = <<>> /\ lag' = 0 /\ apc' = "idle")
<1>1. CASE Tick /\ answer' = Silent
  BY <1>1 DEF Tick
<1>2. CASE HostStep
  BY <1>2 DEF HostStep, Accept, Connect, Datapath, trackerVars, Exit
<1>3. CASE PollEnds
  BY <1>3 DEF PollEnds, TurnGoesOn
<1>4. CASE Consume
  BY <1>4 DEF Consume
<1>5. CASE \/ \E k \in Keys : Packet(k)
           \/ ScanOwners \/ ScanName \/ Poll \/ UNCHANGED vars
  BY <1>5 DEF Packet, FromHint, FromCache, NotNow, Scan, ScanOwners, ScanName,
              Poll, vars, trackerVars, agentVars, TurnGoesOn
<1> QED
  BY <1>1, <1>2, <1>3, <1>4, <1>5 DEF Next

\* The hints a step leaves, each an older one, or of the event consumed.
LEMMA HintsStep ==
  ASSUME IInv, [Next]_vars
  PROVE  /\ HintList(hints', Started) /\ MapOf(hints') /\ Living(hints') = latest'
         /\ \A i \in DOMAIN hints' :
              \/ /\ Tick /\ i \in DOMAIN hints
                 /\ hints'[i].pid = hints[i].pid /\ hints'[i].key = hints[i].key
                 /\ hints'[i].process = hints[i].process
                 /\ hints'[i].source = hints[i].source
                 /\ Fresh(hints'[i]) =>
                      Fresh(hints[i]) /\ hints'[i].age = hints[i].age + 1
              \/ (Onward(0) /\ \E j \in DOMAIN hints : hints'[i] = hints[j])
              \/ /\ UNCHANGED life /\ ring # <<>> /\ Usable(Head(ring))
                 /\ hints'[i].pid = Head(ring).pid /\ hints'[i].key = Head(ring).key
                 /\ hints'[i].process = Head(ring).process
                 /\ hints'[i].source = Head(ring).source
                 /\ hints'[i].age = 0
<1>0. HostTypeOK /\ TrackerTypeOK /\ HintsAreLatest /\ EventsAreRecent
  BY DEF IInv, TypeOK
<1>1. HintList(hints, Started) /\ MapOf(hints) /\ Living(hints) = latest
  BY <1>0 DEF TrackerTypeOK, HintsAreLatest, HintList, HintRecords, MapOf, Living
<1>2. CASE Tick /\ TrackerTick
  BY <1>0, <1>2, TickOfTracker
<1>3. CASE HostStep /\ UNCHANGED <<hints, latest>>
  <2>1. Onward(0)
    BY <1>0, <1>3, HostMoves
  <2> QED
    BY <1>1, <1>3, <2>1
<1>4. CASE UNCHANGED <<life, hints, latest>>
  BY <1>0, <1>1, <1>4, HostStands
<1>5. CASE UNCHANGED life /\ hints' \in Prune(hints) /\ UNCHANGED latest
  BY <1>0, <1>1, <1>5, HostStands, PruneKeeps
<1>6. CASE UNCHANGED life /\ ring # <<>> /\ Usable(Head(ring)) /\ Put(Head(ring))
  BY <1>0, <1>6, HostStands, UsableParts, PutKeeps
<1> QED
  BY <1>2, <1>3, <1>4, <1>5, <1>6, TrackerKinds DEF OnEvent

-----------------------------------------------------------------------------
(* The ring *)

EventsOf(P) == [key : Keys, source : Sources, pid : Pids \union {0, WorkerPid},
                process : P \union {Kernel, Idle}]

\* A ring with processes out of P.
RingOf(r, P) == r \in Seq(EventsOf(P)) /\ Len(r) <= RingSize

LEMMA RingGrows ==
  ASSUME NEW P, NEW Q, P \subseteq Q, NEW r, RingOf(r, P)
  PROVE  RingOf(r, Q)
<1>1. Len(r) \in Nat /\ DOMAIN r = 1 .. Len(r) /\ \A i \in DOMAIN r : r[i] \in EventsOf(P)
  BY PlacesOfList DEF RingOf
<1>2. \A i \in DOMAIN r : r[i] \in EventsOf(Q)
  BY <1>1 DEF EventsOf
<1>3. r = [i \in DOMAIN r |-> r[i]]
  BY DEF RingOf
<1>4. r \in [1 .. Len(r) -> EventsOf(Q)]
  BY <1>1, <1>2, <1>3
<1>5. r \in Seq(EventsOf(Q))
  BY <1>1, <1>4, ListOf
<1> QED
  BY <1>5 DEF RingOf

\* What a probe submits comes last, or nothing comes.
LEMMA SubmitParts ==
  ASSUME TrackerTypeOK, NEW Q, Started \subseteq Q, NEW k \in Keys, NEW source \in Sources,
         NEW task, task.pid \in Pids \union {0, WorkerPid},
         task.process \in Q \union {Kernel, Idle}, Submit(k, task, source)
  PROVE  /\ RingOf(ring', Q) /\ events' \in 0 .. MaxEvents
         /\ \A i \in DOMAIN ring' :
              \/ i \in DOMAIN ring /\ ring'[i] = ring[i]
              \/ ring'[i] = [key |-> k, source |-> source,
                             pid |-> task.pid, process |-> task.process]
<1> DEFINE e == [key |-> k, source |-> source, pid |-> task.pid, process |-> task.process]
<1>1. RingOf(ring, Q) /\ events \in 0 .. MaxEvents
  <2>1. RingOf(ring, Started) /\ events \in 0 .. MaxEvents
    BY DEF TrackerTypeOK, RingOf, Events, EventsOf
  <2> QED
    BY <2>1, RingGrows
<1>2. CASE UNCHANGED <<ring, events>>
  BY <1>1, <1>2
<1>3. CASE /\ Len(ring) < RingSize /\ events < MaxEvents
           /\ ring' = Append(ring, e) /\ events' = events + 1
  <2>1. e \in EventsOf(Q)
    BY DEF EventsOf
  <2>2. ring \in Seq(EventsOf(Q))
    BY <1>1 DEF RingOf
  <2> HIDE DEF e
  <2>3. LET a == Append(ring, e)
         IN  /\ a \in Seq(EventsOf(Q)) /\ Len(a) = Len(ring) + 1
             /\ DOMAIN a = 1 .. Len(ring) + 1 /\ Len(ring) \in Nat
             /\ DOMAIN ring = 1 .. Len(ring)
             /\ \A i \in DOMAIN ring : i \in DOMAIN a /\ a[i] = ring[i]
             /\ \A i \in DOMAIN a : i \notin DOMAIN ring => i = Len(ring) + 1 /\ a[i] = e
             /\ a[Len(ring) + 1] = e
    BY <2>1, <2>2, AppendedParts
  <2>4. \A i \in DOMAIN ring' : (i \in DOMAIN ring /\ ring'[i] = ring[i]) \/ ring'[i] = e
    BY <1>3, <2>3
  <2>5. RingOf(ring', Q)
    BY <1>3, <2>3, TrackerAssumption DEF RingOf
  <2>6. events' \in 0 .. MaxEvents
    BY <1>1, <1>3, TrackerAssumption
  <2> QED
    BY <2>4, <2>5, <2>6 DEF e
<1> QED
  BY <1>2, <1>3 DEF Submit

\* An event as EventsAreRecent has it, of the kernel or of a process that had
\* not ended d ticks ago.
Recent(e, d) ==
  \/ e.pid = 0 \/ e.process = Kernel
  \/ e.process \in Started /\ NamesOwner(e) /\ life[e.process].gone <= d

\* The probes report tasks of the kernel, and processes that run.
LEMMA ProbesParts ==
  ASSUME HostTypeOK, TrackerTypeOK, lag \in Nat, Connect \/ Datapath
  PROVE  /\ RingOf(ring', Started') /\ events' \in 0 .. MaxEvents
         /\ \A i \in DOMAIN ring' :
              \/ i \in DOMAIN ring /\ ring'[i] = ring[i]
              \/ ring'[i].pid = 0 \/ ring'[i].process = Kernel
              \/ /\ ring'[i].process \in Started'
                 /\ life'[ring'[i].process].pid = ring'[i].pid
                 /\ ring'[i].source = "connect" =>
                      life'[ring'[i].process].key = ring'[i].key
                 /\ life'[ring'[i].process].gone = Running
<1>1. CASE Connect
  <2>1. PICK p \in Pids, k \in Keys :
          Start(p, k) /\ Submit(k, [pid |-> p, process |-> Len(life')], "connect")
    BY <1>1 DEF Connect
  <2>2. /\ Started \subseteq Started' /\ Len(life') \in Started'
        /\ life'[Len(life')] = [pid |-> p, key |-> k, gone |-> Running]
    BY <2>1, StartOfHost DEF Onward
  <2> DEFINE task == [pid |-> p, process |-> Len(life')]
  <2>3. /\ task.pid = p /\ task.process = Len(life')
        /\ task.pid \in Pids \union {0, WorkerPid}
        /\ task.process \in Started' \union {Kernel, Idle}
        /\ Submit(k, task, "connect")
        /\ "connect" \in Sources
    BY <2>1, <2>2 DEF Sources
  <2> HIDE DEF task
  <2>4. PICK Q : Q = Started'
    OBVIOUS
  <2>5. /\ RingOf(ring', Q) /\ events' \in 0 .. MaxEvents
        /\ \A i \in DOMAIN ring' :
              \/ i \in DOMAIN ring /\ ring'[i] = ring[i]
              \/ ring'[i] = [key |-> k, source |-> "connect",
                             pid |-> task.pid, process |-> task.process]
    BY <2>2, <2>3, <2>4, SubmitParts
  <2> QED
    BY <2>2, <2>3, <2>4, <2>5
<1>2. CASE Datapath
  <2>1. PICK k \in Sockets, t \in Tasks : Submit(k, t, "datapath")
    BY <1>2 DEF Datapath
  <2>2. /\ k \in Keys /\ "datapath" \in Sources
        /\ Started' = Started /\ life' = life
    BY <1>2, LifeParts DEF Datapath, Sockets, Alive, Sources, Started
  <2>3. /\ t.pid \in Pids \union {0, WorkerPid}
        /\ t.process \in Started \union {Kernel, Idle}
        /\ \/ t.pid = 0 \/ t.process = Kernel
           \/ t.process \in Alive /\ t.pid = life[t.process].pid
    BY LifeParts DEF Tasks, KernelTasks, Alive, PidOf
  <2>4. /\ RingOf(ring', Started) /\ events' \in 0 .. MaxEvents
        /\ \A i \in DOMAIN ring' :
              \/ i \in DOMAIN ring /\ ring'[i] = ring[i]
              \/ ring'[i] = [key |-> k, source |-> "datapath",
                             pid |-> t.pid, process |-> t.process]
    BY <2>1, <2>2, <2>3, SubmitParts
  <2> QED
    BY <2>2, <2>3, <2>4 DEF Alive
<1> QED
  BY <1>1, <1>2

\* A step leaves the events in the ring as they are, or takes the first one
\* out, or appends one of a process that runs.
LEMMA RingStep ==
  ASSUME IInv, [Next]_vars
  PROVE  /\ RingOf(ring', Started') /\ events' \in 0 .. MaxEvents
         /\ \A i \in DOMAIN ring' :
              \/ i \in DOMAIN ring /\ ring'[i] = ring[i]
              \/ i + 1 \in DOMAIN ring /\ ring'[i] = ring[i + 1]
              \/ ring'[i].pid = 0 \/ ring'[i].process = Kernel
              \/ /\ ring'[i].process \in Started'
                 /\ life'[ring'[i].process].pid = ring'[i].pid
                 /\ ring'[i].source = "connect" =>
                      life'[ring'[i].process].key = ring'[i].key
                 /\ life'[ring'[i].process].gone = Running
<1>0. HostTypeOK /\ TrackerTypeOK /\ lag \in Nat /\ Started \subseteq Started'
  BY LifeStep DEF IInv, TypeOK
<1>1. RingOf(ring, Started) /\ events \in 0 .. MaxEvents
  BY <1>0 DEF TrackerTypeOK, RingOf, Events, EventsOf
<1>2. CASE Connect \/ Datapath
  BY <1>0, <1>2, ProbesParts
<1>3. CASE UNCHANGED <<ring, events>>
  <2>1. PICK Q : Q = Started'
    OBVIOUS
  <2>2. RingOf(ring, Q)
    BY <1>0, <1>1, <2>1, RingGrows
  <2> QED
    BY <1>1, <1>3, <2>1, <2>2
<1>4. CASE OnEvent
  <2>1. /\ Tail(ring) \in Seq(Events) /\ Len(Tail(ring)) <= Len(ring) /\ Len(ring) \in Nat
        /\ Len(Tail(ring)) \in Nat
        /\ \A i \in DOMAIN Tail(ring) : i + 1 \in DOMAIN ring /\ Tail(ring)[i] = ring[i + 1]
        /\ ring' = Tail(ring)
    BY <1>0, <1>4, EventParts, HeadParts, LenProperties DEF OnEvent
  <2>2. Len(Tail(ring)) <= RingSize
    BY <1>0, <2>1, TrackerAssumption DEF TrackerTypeOK
  <2>3. RingOf(ring', Started)
    BY <2>1, <2>2 DEF RingOf, Events, EventsOf
  <2>4. PICK Q : Q = Started'
    OBVIOUS
  <2>5. PICK r : r = ring'
    OBVIOUS
  <2>6. RingOf(r, Q)
    BY <1>0, <2>3, <2>4, <2>5, RingGrows
  <2> QED
    BY <1>1, <1>4, <2>1, <2>4, <2>5, <2>6 DEF OnEvent
<1>5. Connect \/ Datapath \/ UNCHANGED <<ring, events>> \/ OnEvent
  <2>1. CASE Tick /\ answer' = Silent
    BY <2>1 DEF Tick, TrackerTick
  <2>2. CASE HostStep
    BY <2>2 DEF HostStep, Accept, trackerVars
  <2>3. CASE \/ \E k \in Keys : Packet(k)
             \/ ScanOwners \/ ScanName \/ Poll \/ Consume \/ PollEnds \/ UNCHANGED vars
    BY <2>3 DEF Packet, FromHint, FromCache, NotNow, Scan, ScanOwners, ScanName,
                Poll, Consume, PollEnds, vars, trackerVars
  <2> QED
    BY <2>1, <2>2, <2>3 DEF Next
<1> QED
  BY <1>2, <1>3, <1>4, <1>5

LEMMA TrackerTypeStep ==
  ASSUME IInv, [Next]_vars
  PROVE  TrackerTypeOK' /\ HintsAreLatest'
<1>1. /\ HintList(hints', Started) /\ MapOf(hints') /\ Living(hints') = latest'
  BY HintsStep
<1>2. PICK hs : hs = hints'
  OBVIOUS
<1>3. PICK Q : Q = Started'
  OBVIOUS
<1>4. Started \subseteq Q
  BY <1>3, LifeStep DEF IInv, TypeOK
<1>5. HintList(hs, Q)
  <2>1. HintList(hs, Started)
    BY <1>1, <1>2
  <2>2. /\ Len(hs) \in Nat /\ DOMAIN hs = 1 .. Len(hs)
        /\ \A i \in DOMAIN hs :
             hs[i] \in [key : Keys, source : Sources, pid : Pids, process : Q, age : Nat]
    BY <1>4, <2>1, HintParts
  <2>3. hs = [i \in DOMAIN hs |-> hs[i]]
    BY <2>1 DEF HintList
  <2>4. hs \in [1 .. Len(hs) ->
                  [key : Keys, source : Sources, pid : Pids, process : Q, age : Nat]]
    BY <2>2, <2>3
  <2>5. hs \in Seq([key : Keys, source : Sources, pid : Pids, process : Q, age : Nat])
    BY <2>2, <2>4, ListOf
  <2> QED
    BY <2>1, <2>5 DEF HintList
<1>6. Len(hs) <= Cardinality(Keys \X Sources)
  BY <1>1, <1>2, <1>5, HintsBounded
<1>7. RingOf(ring', Q) /\ events' \in 0 .. MaxEvents
  BY <1>3, RingStep
<1>8. TrackerTypeOK'
  BY <1>2, <1>3, <1>5, <1>6, <1>7
  DEF TrackerTypeOK, RingOf, EventsOf, Events, HintRecords, HintList, Ttl
<1>9. HintsAreLatest'
  BY <1>1 DEF HintsAreLatest, MapOf, Living, Fresh, Ttl
<1> QED
  BY <1>8, <1>9

\* The turn is a tick longer after a tick, as long as there are events.
LEMMA LagStep ==
  ASSUME IInv, [Next]_vars
  PROVE  /\ lag' \in 0 .. MaxLag
         /\ \/ Tick /\ Onward(1) /\ answer' = Silent
               /\ UNCHANGED <<ring, apc, listed, wanted, found>>
               /\ lag' = IF Busy THEN lag + 1 ELSE 0
            \/ Onward(0) /\ lag' = lag
            \/ Onward(0) /\ ring = <<>> /\ UNCHANGED ring /\ lag' = 0 /\ apc' = "idle"
<1>0. HostTypeOK /\ lag \in 0 .. MaxLag
  BY DEF IInv, TypeOK
<1>1. CASE Tick /\ answer' = Silent
  <2>1. Onward(1)
    BY <1>0, <1>1, TickOfHost DEF Tick
  <2>2. lag' \in 0 .. MaxLag
    BY <1>0, <1>1, AttributionAssumption DEF Tick
  <2> QED
    BY <1>1, <2>1, <2>2 DEF Tick, TrackerTick, ResolverTick, scanVars
<1>2. CASE HostStep
  BY <1>0, <1>2, HostMoves DEF HostStep
<1>3. CASE \/ \E k \in Keys : Packet(k)
           \/ ScanOwners \/ ScanName \/ Poll \/ Consume \/ PollEnds \/ UNCHANGED vars
  <2>1. UNCHANGED life
    BY <1>3 DEF Packet, FromHint, FromCache, NotNow, Scan, ScanOwners, ScanName,
                Poll, Consume, PollEnds, vars
  <2>2. lag' = lag \/ (ring = <<>> /\ UNCHANGED ring /\ lag' = 0 /\ apc' = "idle")
    BY <1>3 DEF Packet, FromHint, FromCache, NotNow, Scan, ScanOwners, ScanName, Poll,
                Consume, PollEnds, vars, trackerVars, agentVars, TurnGoesOn
  <2> QED
    BY <1>0, <2>1, <2>2, HostStands, AttributionAssumption
<1> QED
  BY <1>1, <1>2, <1>3 DEF Next

\* What an event or a hint says of a process stays true.
LEMMA OwnerOn ==
  ASSUME HostTypeOK, NEW k \in {0, 1}, Onward(k), NEW e, NamesOwner(e),
         e.process \in Started
  PROVE  /\ e.process \in Started'
         /\ life'[e.process].pid = e.pid
         /\ e.source = "connect" => life'[e.process].key = e.key
         /\ \A d \in Nat : life[e.process].gone <= d => life'[e.process].gone <= d + k
BY DEF Onward, NamesOwner, PidOf

LEMMA EventsStep ==
  ASSUME IInv, [Next]_vars
  PROVE  EventsAreRecent'
<1>0. /\ HostTypeOK /\ TrackerTypeOK /\ lag \in Nat /\ EventsAreRecent
      /\ lag' \in Nat
  BY LagStep DEF IInv, TypeOK
<1> SUFFICES ASSUME NEW i \in DOMAIN ring', ring'[i].pid # 0, ring'[i].process # Kernel
             PROVE  /\ ring'[i].process \in Started'
                    /\ life'[ring'[i].process].pid = ring'[i].pid
                    /\ ring'[i].source = "connect" =>
                         life'[ring'[i].process].key = ring'[i].key
                    /\ life'[ring'[i].process].gone <= lag'
  BY DEF EventsAreRecent, NamesOwner, PidOf
<1>1. ASSUME NEW j \in DOMAIN ring, ring'[i] = ring[j]
      PROVE  /\ ring'[i].process \in Started'
             /\ life'[ring'[i].process].pid = ring'[i].pid
             /\ ring'[i].source = "connect" => life'[ring'[i].process].key = ring'[i].key
             /\ life'[ring'[i].process].gone <= lag'
  <2>1. /\ ring[j].process \in Started /\ NamesOwner(ring[j])
        /\ life[ring[j].process].gone <= lag
    BY <1>0, <1>1 DEF EventsAreRecent
  <2>2. ring # <<>>
    <3>1. ring = <<>> => Len(ring) = 0
      OBVIOUS
    <3> QED
      BY <1>0, <3>1, EventParts
  <2>3. (Onward(1) /\ lag' = lag + 1) \/ (Onward(0) /\ lag' = lag)
    BY <2>2, LagStep DEF Busy
  <2>4. /\ ring[j].process \in Started'
        /\ life'[ring[j].process].pid = ring[j].pid
        /\ ring[j].source = "connect" => life'[ring[j].process].key = ring[j].key
    BY <1>0, <2>1, <2>3, OwnerOn
  <2>5. life'[ring[j].process].gone <= lag'
    <3>1. CASE Onward(1) /\ lag' = lag + 1
      BY <1>0, <2>1, <3>1, OwnerOn
    <3>2. CASE Onward(0) /\ lag' = lag
      BY <1>0, <2>1, <3>2, OwnerOn
    <3> QED
      BY <2>3, <3>1, <3>2
  <2> QED
    BY <1>1, <2>4, <2>5
<1>2. ASSUME /\ ring'[i].process \in Started'
             /\ life'[ring'[i].process].pid = ring'[i].pid
             /\ ring'[i].source = "connect" =>
                  life'[ring'[i].process].key = ring'[i].key
             /\ life'[ring'[i].process].gone = Running
      PROVE  life'[ring'[i].process].gone <= lag'
  BY <1>0, <1>2 DEF Running
<1> QED
  BY <1>1, <1>2, RingStep

LEMMA HintsRecentStep ==
  ASSUME IInv, [Next]_vars
  PROVE  HintsAreRecent'
<1>0. /\ HostTypeOK /\ TrackerTypeOK /\ EventsAreRecent /\ HintsAreRecent
      /\ lag \in Nat /\ lag <= MaxLag /\ MaxLag \in Nat
  BY AttributionAssumption DEF IInv, TypeOK
<1>1. HintList(hints, Started)
  BY <1>0 DEF TrackerTypeOK, HintList, HintRecords
<1> SUFFICES ASSUME NEW i \in DOMAIN hints'
             PROVE  /\ life'[hints'[i].process].pid = hints'[i].pid
                    /\ hints'[i].source = "connect" =>
                         life'[hints'[i].process].key = hints'[i].key
                    /\ Fresh(hints'[i]) =>
                         life'[hints'[i].process].gone <= MaxLag + hints'[i].age
  BY DEF HintsAreRecent, NamesOwner, PidOf, Fresh, Ttl
<1>2. ASSUME Tick, i \in DOMAIN hints,
             hints'[i].pid = hints[i].pid, hints'[i].key = hints[i].key,
             hints'[i].process = hints[i].process, hints'[i].source = hints[i].source,
             Fresh(hints'[i]) => Fresh(hints[i]) /\ hints'[i].age = hints[i].age + 1
      PROVE  /\ life'[hints'[i].process].pid = hints'[i].pid
             /\ hints'[i].source = "connect" => life'[hints'[i].process].key = hints'[i].key
             /\ Fresh(hints'[i]) => life'[hints'[i].process].gone <= MaxLag + hints'[i].age
  <2>1. Onward(1)
    BY <1>0, <1>2, TickOfHost DEF Tick
  <2>2. /\ hints[i].process \in Started /\ hints[i].age \in Nat /\ NamesOwner(hints[i])
        /\ Fresh(hints[i]) => life[hints[i].process].gone <= MaxLag + hints[i].age
    BY <1>0, <1>1, <1>2, HintParts DEF HintsAreRecent
  <2>3. /\ life'[hints[i].process].pid = hints[i].pid
        /\ hints[i].source = "connect" => life'[hints[i].process].key = hints[i].key
        /\ \A d \in Nat : life[hints[i].process].gone <= d =>
                            life'[hints[i].process].gone <= d + 1
    BY <1>0, <2>1, <2>2, OwnerOn
  <2>4. MaxLag + hints[i].age \in Nat
        /\ (MaxLag + hints[i].age) + 1 = MaxLag + (hints[i].age + 1)
    BY <1>0, <2>2
  <2>5. Fresh(hints'[i]) => life'[hints[i].process].gone <= MaxLag + (hints[i].age + 1)
    BY <1>2, <2>2, <2>3, <2>4
  <2> QED
    BY <1>2, <2>3, <2>5
<1>3. ASSUME Onward(0), NEW j \in DOMAIN hints, hints'[i] = hints[j]
      PROVE  /\ life'[hints'[i].process].pid = hints'[i].pid
             /\ hints'[i].source = "connect" => life'[hints'[i].process].key = hints'[i].key
             /\ Fresh(hints'[i]) => life'[hints'[i].process].gone <= MaxLag + hints'[i].age
  <2>1. /\ hints[j].process \in Started /\ hints[j].age \in Nat /\ NamesOwner(hints[j])
        /\ Fresh(hints[j]) => life[hints[j].process].gone <= MaxLag + hints[j].age
    BY <1>0, <1>1, HintParts DEF HintsAreRecent
  <2>2. /\ life'[hints[j].process].pid = hints[j].pid
        /\ hints[j].source = "connect" => life'[hints[j].process].key = hints[j].key
        /\ \A d \in Nat : life[hints[j].process].gone <= d =>
                            life'[hints[j].process].gone <= d + 0
    BY <1>0, <1>3, <2>1, OwnerOn
  <2>3. MaxLag + hints[j].age \in Nat /\ (MaxLag + hints[j].age) + 0 = MaxLag + hints[j].age
    BY <1>0, <2>1
  <2> QED
    BY <1>3, <2>1, <2>2, <2>3
<1>4. ASSUME UNCHANGED life, ring # <<>>, Usable(Head(ring)),
             hints'[i].pid = Head(ring).pid, hints'[i].key = Head(ring).key,
             hints'[i].process = Head(ring).process,
             hints'[i].source = Head(ring).source, hints'[i].age = 0
      PROVE  /\ life'[hints'[i].process].pid = hints'[i].pid
             /\ hints'[i].source = "connect" => life'[hints'[i].process].key = hints'[i].key
             /\ Fresh(hints'[i]) => life'[hints'[i].process].gone <= MaxLag + hints'[i].age
  <2>1. /\ Head(ring).process \in Started /\ NamesOwner(Head(ring))
        /\ life[Head(ring).process].gone <= lag
    BY <1>0, <1>4, UsableParts
  <2>2. life[Head(ring).process].gone <= MaxLag + 0
    BY <1>0, <2>1, LifeParts
  <2> QED
    BY <1>4, <2>1, <2>2 DEF NamesOwner, PidOf
<1> QED
  BY <1>2, <1>3, <1>4, HintsStep

LEMMA ScanStep ==
  ASSUME IInv, [Next]_vars
  PROVE  ScanIsRecent' /\ wanted' \in Keys \union {NoKey} /\ listed' \subseteq Started'
         /\ found' \in Pids \union {0}
<1>0. /\ HostTypeOK /\ lag \in Nat /\ ScanIsRecent
      /\ wanted \in Keys \union {NoKey} /\ listed \subseteq Started
      /\ found \in Pids \union {0} /\ Started \subseteq Started'
      /\ apc \in {"idle", "owners", "name", "poll"}
  BY LifeStep DEF IInv, TypeOK, ResolverTypeOK
<1>1. ASSUME NEW k \in {0, 1}, Onward(k), apc = "name" => lag' = lag + k,
             UNCHANGED <<apc, wanted, listed, found>>
      PROVE  ScanIsRecent' /\ wanted' \in Keys \union {NoKey} /\ listed' \subseteq Started'
             /\ found' \in Pids \union {0}
  <2>1. \A n \in listed' : apc' = "owners" /\ SameConv(wanted', life'[n].key)
    BY <1>0, <1>1 DEF ScanIsRecent, Onward
  <2>2. ASSUME apc = "name" PROVE HadIn(life', wanted, found, lag + k)
    <3>1. HadIn(life, wanted, found, lag)
      BY <1>0, <2>2 DEF ScanIsRecent, Had, HadIn, PidOf, Started
    <3> QED
      BY <1>0, <1>1, <3>1, HadOn
  <2>3. apc' = "name" => found' \in Pids /\ HadIn(life', wanted', found', lag')
    BY <1>0, <1>1, <2>2 DEF ScanIsRecent
  <2> QED
    BY <1>0, <1>1, <2>1, <2>3 DEF ScanIsRecent, Had, HadIn, PidOf, Started
<1>2. CASE Tick /\ answer' = Silent
  <2>1. Onward(1) /\ UNCHANGED <<apc, wanted, listed, found>>
    BY <1>0, <1>2, TickOfHost DEF Tick, ResolverTick, scanVars
  <2>2. apc = "name" => lag' = lag + 1
    BY <1>2 DEF Tick, Busy
  <2> QED
    BY <1>1, <2>1, <2>2
<1>3. CASE HostStep
  <2>1. Onward(0) /\ UNCHANGED <<apc, wanted, listed, found, lag>>
    BY <1>0, <1>3, HostMoves DEF HostStep, resolverVars, scanVars
  <2> QED
    BY <1>0, <1>1, <2>1
<1>4. CASE \/ \E k \in Keys : FromHint(k) \/ FromCache(k) \/ NotNow(k)
           \/ Consume \/ UNCHANGED vars
  <2>1. UNCHANGED <<life, apc, wanted, listed, found, lag>>
    BY <1>4 DEF FromHint, FromCache, NotNow, Consume, vars, resolverVars, agentVars, scanVars
  <2> QED
    BY <1>0, <1>1, <2>1, HostStands
<1>5. CASE Poll \/ PollEnds
  <2>1. /\ UNCHANGED <<life, wanted, listed, found>>
        /\ apc # "owners" /\ apc' \notin {"owners", "name"}
    BY <1>5 DEF Poll, PollEnds, resolverVars, scanVars
  <2> QED
    BY <1>0, <2>1 DEF ScanIsRecent
<1>6. ASSUME NEW k \in Keys, Scan(k)
      PROVE  ScanIsRecent' /\ wanted' \in Keys \union {NoKey} /\ listed' \subseteq Started'
             /\ found' \in Pids \union {0}
  BY <1>0, <1>6 DEF Scan, ListSockets, ScanIsRecent, Alive
<1>7. CASE ScanOwners
  <2>1. CASE FindOwner /\ apc' = "name" /\ UNCHANGED lag
    <3>1. PICK n \in Owned : found' = PidOf(n)
      BY <2>1 DEF FindOwner
    <3>2. /\ n \in Started /\ life[n].gone = Running /\ SameConv(wanted, life[n].key)
          /\ life[n].pid \in Pids
      BY <1>0, <3>1, LifeParts DEF Owned, Alive, ScanIsRecent
    <3>3. life' = life /\ wanted' = wanted /\ wanted \in Keys /\ listed' = {}
      BY <1>0, <1>7, <2>1 DEF ScanOwners, FindOwner, ScanIsRecent
    <3>4. Running <= lag'
      BY <1>0, <2>1 DEF Running
    <3> QED
      BY <1>0, <2>1, <3>1, <3>2, <3>3, <3>4 DEF ScanIsRecent, Had, PidOf, Started
  <2>2. CASE NoOwner /\ apc' = "idle"
    BY <1>0, <2>2 DEF NoOwner, ScanIsRecent
  <2> QED
    BY <1>7, <2>1, <2>2 DEF ScanOwners
<1>8. CASE ScanName
  <2>1. /\ apc' = "idle" /\ UNCHANGED <<life, listed>>
        /\ found' = 0 /\ wanted' = NoKey
    BY <1>8 DEF ScanName, Remember
  <2>2. listed = {}
    BY <1>0, <1>8 DEF ScanName, ScanIsRecent
  <2> QED
    BY <1>0, <2>1, <2>2 DEF ScanIsRecent
<1> QED
  BY <1>2, <1>3, <1>4, <1>5, <1>6, <1>7, <1>8 DEF Next, Packet

-----------------------------------------------------------------------------
(* The cache of pids *)

LEMMA LifetimesAreNumbers ==
  /\ MaxLag \in Nat /\ HintTtl \in Nat /\ PidTtl \in Nat /\ ResolverTtl \in Nat
  /\ ConnectTtl \in Nat /\ DatapathTtl \in Nat
  /\ ConnectTtl <= HintTtl /\ DatapathTtl <= HintTtl
BY AttributionAssumption, ResolverAssumption, TrackerAssumption DEF HintTtl

LEMMA LaterSums ==
  ASSUME NEW a \in Nat, NEW k \in {0, 1}
  PROVE  /\ MaxLag + a \in Nat /\ (MaxLag + a) + k = MaxLag + (a + k)
         /\ MaxLag + HintTtl + PidTtl + a \in Nat
         /\ (MaxLag + HintTtl + PidTtl + a) + k = MaxLag + HintTtl + PidTtl + (a + k)
BY LifetimesAreNumbers

LEMMA SlotParts ==
  ASSUME NEW pid \in Pids
  PROVE  Slot(pid) \in PidSlots /\ pid \in Slot(pid)
<1>1. \E s \in PidSlots : pid \in s
  BY ResolverAssumption
<1> QED
  BY <1>1 DEF Slot

\* A name that is not older than a hint is not older, when read by pid, than
\* hint and entry.
LEMMA NameParts ==
  ASSUME HostTypeOK, ResolverTypeOK, PidsAreRecent,
         NEW pid \in Pids, NEW process \in Started \union {NoName},
         process \in Started => life[process].gone <= MaxLag + HintTtl
  PROVE  /\ NameOf(pid, process) \in Names
         /\ NameOf(pid, process) \in Started =>
              life[NameOf(pid, process)].gone <= MaxLag + HintTtl + PidTtl
         /\ ~ Cached(pid) =>
              (NameOf(pid, process) \in Started =>
                 life[NameOf(pid, process)].gone <= MaxLag + HintTtl)
<1>1. Slot(pid) \in PidSlots /\ pids[Slot(pid)] \in PidRecords
  BY SlotParts DEF ResolverTypeOK
<1>2. pids[Slot(pid)].process \in Names /\ pids[Slot(pid)].age \in Nat
  BY <1>1, LifetimesAreNumbers DEF PidRecords
<1>3. /\ Comm(pid) \in Alive \union {Placeholder}
      /\ Comm(pid) \in Alive => Comm(pid) # Placeholder
  BY LifeParts DEF Comm, Alive, Started, Placeholder
<1>4. CASE Cached(pid)
  <2>1. NameOf(pid, process) = pids[Slot(pid)].process
    BY <1>4 DEF NameOf
  <2>2. pids[Slot(pid)].age <= PidTtl
    BY <1>4 DEF Cached
  <2>3. pids[Slot(pid)].process \in Started =>
          life[pids[Slot(pid)].process].gone <= MaxLag + HintTtl + pids[Slot(pid)].age
    BY <1>1, <2>2 DEF PidsAreRecent
  <2>4. pids[Slot(pid)].process \in Started =>
          life[pids[Slot(pid)].process].gone <= MaxLag + HintTtl + PidTtl
    BY <1>2, <2>2, <2>3, LifeParts, LifetimesAreNumbers
  <2> QED
    BY <1>2, <1>4, <2>1, <2>4
<1>5. CASE ~ Cached(pid)
  <2>1. \/ NameOf(pid, process) = process /\ process # NoName
        \/ NameOf(pid, process) = Comm(pid)
    BY <1>5 DEF NameOf
  <2>2. \A n \in Alive : n \in Started /\ life[n].gone <= MaxLag + HintTtl
    BY LifetimesAreNumbers DEF Alive, Running
  <2>3. /\ NameOf(pid, process) \in Names
        /\ NameOf(pid, process) \in Started =>
             life[NameOf(pid, process)].gone <= MaxLag + HintTtl
    <3>1. CASE NameOf(pid, process) = process /\ process # NoName
      BY <3>1 DEF Names
    <3>2. CASE NameOf(pid, process) = Comm(pid) /\ Comm(pid) \in Alive
      BY <2>2, <3>2 DEF Names
    <3>3. CASE NameOf(pid, process) = Placeholder
      BY <3>3 DEF Names, Placeholder, Started
    <3> QED
      BY <1>3, <2>1, <3>1, <3>2, <3>3
  <2>4. NameOf(pid, process) \in Started =>
          life[NameOf(pid, process)].gone <= MaxLag + HintTtl + PidTtl
    BY <2>3, LifeParts, LifetimesAreNumbers
  <2> QED
    BY <1>5, <2>3, <2>4
<1> QED
  BY <1>4, <1>5

\* The cache of pids, with processes out of P that procs tells of.
PidsIn(ps, procs) ==
  /\ ps \in [PidSlots -> [pid : Pids \union {0},
                          process : 1 .. Len(procs) \union {NoName, Placeholder},
                          age : 0 .. PidTtl + 1]]
  /\ \A s \in PidSlots :
       /\ ps[s].pid \in s \union {0}
       /\ ps[s].process \in 1 .. Len(procs) /\ ps[s].age <= PidTtl =>
            procs[ps[s].process].gone <= MaxLag + HintTtl + ps[s].age

LEMMA KeepPidParts ==
  ASSUME HostTypeOK, ResolverTypeOK, PidsAreRecent,
         NEW pid \in Pids, NEW process \in Started \union {NoName},
         process \in Started => life[process].gone <= MaxLag + HintTtl,
         KeepPid(pid, process)
  PROVE  PidsIn(pids', life)
<1>1. PidsIn(pids, life)
  BY DEF ResolverTypeOK, PidsAreRecent, PidsIn, PidRecords, Names, Started
<1>2. CASE UNCHANGED pids
  BY <1>1, <1>2 DEF PidsIn
<1>3. CASE ~ Cached(pid)
  <2> DEFINE e == [pid |-> pid, process |-> NameOf(pid, process), age |-> 0]
  <2>1. pids' = [pids EXCEPT ![Slot(pid)] = e]
    BY <1>3 DEF KeepPid
  <2>2. /\ e \in PidRecords /\ e.pid = pid /\ e.age = 0
        /\ e.process \in Started => life[e.process].gone <= MaxLag + HintTtl + e.age
    BY <1>3, NameParts, LifetimesAreNumbers DEF PidRecords
  <2>3. Slot(pid) \in PidSlots /\ pid \in Slot(pid)
    BY SlotParts
  <2> HIDE DEF e
  <2>4. \A s \in PidSlots : pids'[s] = IF s = Slot(pid) THEN e ELSE pids[s]
    BY <1>1, <2>1, <2>3 DEF PidsIn
  <2>5. pids' \in [PidSlots -> PidRecords]
    BY <1>1, <2>1, <2>2, <2>3 DEF PidsIn, PidRecords, Names, Started
  <2> QED
    BY <1>1, <2>2, <2>3, <2>4, <2>5 DEF PidsIn, PidRecords, Names, Started
<1> QED
  BY <1>2, <1>3 DEF KeepPid

LEMMA PidsOn ==
  ASSUME HostTypeOK, PidsIn(pids, life), NEW k \in {0, 1}, Onward(k),
         NEW ps, ps \in [PidSlots -> [pid : Pids \union {0},
                          process : Names, age : 0 .. PidTtl + 1]],
         \A s \in PidSlots :
           /\ ps[s].pid = pids[s].pid /\ ps[s].process = pids[s].process
           /\ ps[s].age <= PidTtl => ps[s].age = pids[s].age + k
  PROVE  PidsIn(ps, life')
<1>1. \A s \in PidSlots : /\ pids[s].age \in Nat /\ ps[s].age \in Nat
                          /\ pids[s].process \in Names
  BY LifetimesAreNumbers DEF PidsIn, Names, Started
<1>2. Started \subseteq Started' /\ Started = 1 .. Len(life) /\ Started' = 1 .. Len(life')
  BY DEF Onward, Started
<1>3. ASSUME NEW s \in PidSlots, ps[s].process \in Started', ps[s].age <= PidTtl
      PROVE  life'[ps[s].process].gone <= MaxLag + HintTtl + ps[s].age
  <2>1. ps[s].process = pids[s].process /\ ps[s].process \in Started
    BY <1>1, <1>3 DEF Names, Started, NoName, Placeholder
  <2>2. pids[s].age <= PidTtl /\ ps[s].age = pids[s].age + k
    BY <1>1, <1>3, LifetimesAreNumbers
  <2>3. life[ps[s].process].gone <= MaxLag + HintTtl + pids[s].age
    BY <1>2, <2>1, <2>2 DEF PidsIn
  <2>4. /\ MaxLag + HintTtl + pids[s].age \in Nat
        /\ (MaxLag + HintTtl + pids[s].age) + k = MaxLag + HintTtl + ps[s].age
    BY <1>1, <2>2, LifetimesAreNumbers
  <2> QED
    BY <2>1, <2>3, <2>4 DEF Onward
<1>4. ps \in [PidSlots -> [pid : Pids \union {0},
                          process : 1 .. Len(life') \union {NoName, Placeholder},
                          age : 0 .. PidTtl + 1]]
  BY <1>2 DEF Names
<1> QED
  BY <1>2, <1>3, <1>4 DEF PidsIn

\* The hint that answers for a tuple.
LEMMA NewestHint ==
  ASSUME IInv, NEW k \in Keys, NEW i \in Newest(Hints(k))
  PROVE  /\ i \in DOMAIN hints /\ hints[i] \in HintRecords
         /\ SameConv(k, hints[i].key) /\ NamesOwner(hints[i])
         /\ hints[i].pid \in Pids /\ hints[i].process \in Started
         /\ life[hints[i].process].gone <= MaxLag + HintTtl
         /\ hints[i].source = "connect" =>
              life[hints[i].process].gone <= MaxLag + ConnectTtl
<1>1. HostTypeOK /\ TrackerTypeOK /\ HintsAreRecent
  BY DEF IInv, TypeOK
<1>2. i \in DOMAIN hints /\ Fresh(hints[i]) /\ SameConv(k, hints[i].key)
  BY DEF Newest, Hints
<1>3. /\ hints[i] \in HintRecords /\ hints[i].age \in Nat
      /\ hints[i].pid \in Pids /\ hints[i].process \in Started
  <2>1. HintList(hints, Started)
    BY <1>1 DEF TrackerTypeOK, HintList, HintRecords
  <2> QED
    BY <1>2, <2>1, HintParts DEF HintRecords
<1>4. NamesOwner(hints[i]) /\ life[hints[i].process].gone <= MaxLag + hints[i].age
  BY <1>1, <1>2 DEF HintsAreRecent
<1>5. /\ hints[i].age <= HintTtl
      /\ hints[i].source = "connect" => hints[i].age <= ConnectTtl
  BY <1>2, <1>3, LifetimesAreNumbers DEF Fresh, Ttl
<1>6. life[hints[i].process].gone \in Int
  BY <1>1, <1>3, LifeParts
<1>7. life[hints[i].process].gone <= MaxLag + HintTtl
  BY <1>3, <1>4, <1>5, <1>6, LifetimesAreNumbers
<1>8. hints[i].source = "connect" =>
        life[hints[i].process].gone <= MaxLag + ConnectTtl
  BY <1>3, <1>4, <1>5, <1>6, LifetimesAreNumbers
<1> QED
  BY <1>2, <1>3, <1>4, <1>7, <1>8

LEMMA PidsStep ==
  ASSUME IInv, [Next]_vars
  PROVE  PidsIn(pids', life')
<1>0. HostTypeOK /\ ResolverTypeOK /\ PidsAreRecent /\ ScanIsRecent
  BY DEF IInv, TypeOK
<1>1. PidsIn(pids, life)
  BY <1>0 DEF ResolverTypeOK, PidsAreRecent, PidsIn, PidRecords, Names, Started
<1>2. ASSUME Onward(0), UNCHANGED pids
      PROVE  PidsIn(pids', life')
  <2>1. /\ pids \in [PidSlots -> [pid : Pids \union {0},
                          process : Names, age : 0 .. PidTtl + 1]]
        /\ \A s \in PidSlots : pids[s].age \in Nat /\ pids[s].age = pids[s].age + 0
    BY <1>1, LifetimesAreNumbers DEF PidsIn, Names, Started
  <2>2. PidsIn(pids, life')
    BY <1>0, <1>1, <1>2, <2>1, PidsOn
  <2> QED
    BY <1>2, <2>2
<1>3. ASSUME Onward(1), ResolverTick
      PROVE  PidsIn(pids', life')
  <2>1. PICK ps : ps = pids'
    OBVIOUS
  <2>2. ps = [s \in PidSlots |-> [pids[s] EXCEPT !.age = Older(@, PidTtl)]]
    BY <1>3, <2>1 DEF ResolverTick
  <2>3. ASSUME NEW s \in PidSlots
        PROVE  /\ ps[s] \in [pid : Pids \union {0}, process : Names, age : 0 .. PidTtl + 1]
               /\ ps[s].pid = pids[s].pid /\ ps[s].process = pids[s].process
               /\ ps[s].age <= PidTtl => ps[s].age = pids[s].age + 1
    <3>1. /\ pids[s] \in [pid : Pids \union {0}, process : Names, age : 0 .. PidTtl + 1]
          /\ pids[s].age \in 0 .. PidTtl + 1
      BY <1>1 DEF PidsIn, Names, Started
    <3>2. ps[s] = [pids[s] EXCEPT !.age = Older(pids[s].age, PidTtl)]
      BY <2>2
    <3>3. /\ Older(pids[s].age, PidTtl) \in 0 .. PidTtl + 1
          /\ Older(pids[s].age, PidTtl) <= PidTtl =>
               Older(pids[s].age, PidTtl) = pids[s].age + 1
      BY <3>1, LifetimesAreNumbers DEF Older
    <3> QED
      BY <3>1, <3>2, <3>3
  <2>4. ps \in [PidSlots -> [pid : Pids \union {0}, process : Names,
                             age : 0 .. PidTtl + 1]]
    BY <2>2, <2>3
  <2>5. PidsIn(ps, life')
    BY <1>0, <1>1, <1>3, <2>3, <2>4, PidsOn
  <2> QED
    BY <2>1, <2>5
<1>4. CASE Tick /\ answer' = Silent
  BY <1>0, <1>3, <1>4, TickOfHost DEF Tick
<1>5. CASE HostStep
  BY <1>0, <1>2, <1>5, HostMoves DEF HostStep, resolverVars
<1>6. ASSUME NEW k \in Keys, FromHint(k)
      PROVE  PidsIn(pids', life')
  <2>1. PICK i \in Newest(Hints(k)) : KeepPid(hints[i].pid, hints[i].process)
    BY <1>6 DEF FromHint
  <2>2. /\ hints[i].pid \in Pids /\ hints[i].process \in Started \union {NoName}
        /\ hints[i].process \in Started =>
             life[hints[i].process].gone <= MaxLag + HintTtl
    BY NewestHint
  <2>3. PidsIn(pids', life)
    BY <1>0, <2>1, <2>2, KeepPidParts
  <2> QED
    BY <1>6, <2>3 DEF FromHint
<1>7. CASE ScanName
  <2>1. found \in Pids /\ KeepPid(found, NoName) /\ UNCHANGED life
    BY <1>0, <1>7 DEF ScanName, Remember, ScanIsRecent
  <2>2. NoName \notin Started
    BY DEF NoName, Started
  <2>3. PidsIn(pids', life)
    BY <1>0, <2>1, <2>2, KeepPidParts
  <2> QED
    BY <2>1, <2>3
<1>8. CASE \/ \E k \in Keys : FromCache(k) \/ NotNow(k) \/ Scan(k)
           \/ ScanOwners \/ Poll \/ Consume \/ PollEnds \/ UNCHANGED vars
  <2>1. UNCHANGED <<life, pids>>
    BY <1>8 DEF FromCache, NotNow, Scan, ListSockets, ScanOwners, FindOwner, NoOwner,
                Poll, Consume, PollEnds, vars, resolverVars
  <2> QED
    BY <1>0, <1>2, <2>1, HostStands
<1> QED
  BY <1>4, <1>5, <1>6, <1>7, <1>8 DEF Next, Packet

-----------------------------------------------------------------------------
(* The cache of flows *)

FlowEntries(P) == [key : Keys, pid : Pids, process : P \union {NoName, Placeholder},
                   age : 0 .. ResolverTtl + 1]

\* An entry within its lifetime is of a process that had a socket of the
\* conversation, and of a name, not too long ago, as procs tells.
KeptIn(e, procs) ==
  Young(e) =>
    /\ HadIn(procs, e.key, e.pid, MaxLag + e.age)
    /\ e.process \in 1 .. Len(procs) =>
         procs[e.process].gone <= MaxLag + HintTtl + PidTtl + e.age

FlowMap(ks) == \A i, j \in DOMAIN ks : ks[i].key = ks[j].key => i = j

FlowsIn(ks, procs) ==
  /\ ks \in Seq(FlowEntries(1 .. Len(procs)))
  /\ FlowMap(ks)
  /\ \A i \in DOMAIN ks : KeptIn(ks[i], procs)

LEMMA FlowsNow ==
  ASSUME IInv
  PROVE  FlowsIn(known, life)
BY DEF IInv, TypeOK, ResolverTypeOK, KnownIsMap, KnownAreRecent, FlowsIn, FlowMap, KeptIn,
       FlowEntries, KnownRecords, Names, Started, Had, HadIn, PidOf

LEMMA FlowsBounded ==
  ASSUME NEW P, NEW ks \in Seq(FlowEntries(P)), FlowMap(ks)
  PROVE  Len(ks) <= Cardinality(Keys)
<1> DEFINE g == [i \in DOMAIN ks |-> ks[i].key]
<1>1. g \in [DOMAIN ks -> Keys]
  <2>1. \A i \in DOMAIN ks : ks[i] \in FlowEntries(P)
    BY PlacesOfList
  <2> QED
    BY <2>1 DEF FlowEntries
<1>2. \A i, j \in DOMAIN ks : g[i] = g[j] => i = j
  BY DEF FlowMap
<1> HIDE DEF g
<1> QED
  BY <1>1, <1>2, KeysFinite, NoLongerThan

\* Whatever comes of storing an entry, all that is kept is as good as it was.
LEMMA StoreParts ==
  ASSUME FlowsIn(known, life), NEW e \in FlowEntries(Started), KeptIn(e, life), Store(e)
  PROVE  FlowsIn(known', life)
<1> DEFINE R == FlowEntries(Started)
           at == {i \in DOMAIN known : known[i].key = e.key}
           more == Append(known, e)
           kept == {i \in DOMAIN more : Young(more[i])}
<1>1. /\ known \in Seq(R) /\ FlowMap(known) /\ e \in R /\ at \subseteq DOMAIN known
      /\ \A i \in DOMAIN known : KeptIn(known[i], life)
      /\ Started = 1 .. Len(life)
      /\ \A i \in DOMAIN known : i \in at <=> known[i].key = e.key
  BY DEF FlowsIn, Started
<1> HIDE DEF R, at
<1>2. PICK u : u = known'
  OBVIOUS
<1>3. CASE u \in Updated(known, at, e)
  <2> HIDE DEF more, kept
  <2>1. /\ u \in Seq(R) /\ DOMAIN u = DOMAIN known
        /\ \E i \in at : \A j \in DOMAIN known : u[j] = IF j = i THEN e ELSE known[j]
    <3>1. known \in Seq(R) /\ e \in R /\ at \subseteq DOMAIN known
      BY <1>1
    <3>2. PICK S : S = R
      OBVIOUS
    <3>3. known \in Seq(S) /\ e \in S
      BY <3>1, <3>2
    <3>4. /\ u \in Seq(S) /\ DOMAIN u = DOMAIN known
          /\ \E i \in at : \A j \in DOMAIN known : u[j] = IF j = i THEN e ELSE known[j]
      BY <1>3, <3>1, <3>3, UpdatedParts
    <3> QED
      BY <3>2, <3>4
  <2>2. PICK i \in at : \A j \in DOMAIN known : u[j] = IF j = i THEN e ELSE known[j]
    BY <2>1
  <2>3. i \in DOMAIN known /\ known[i].key = e.key
    BY <1>1, <2>2
  <2>4. FlowMap(u)
    BY <1>1, <2>1, <2>2, <2>3 DEF FlowMap
  <2>5. \A j \in DOMAIN u : KeptIn(u[j], life)
    BY <1>1, <2>1, <2>2
  <2>6. FlowsIn(u, life)
    BY <1>1, <2>1, <2>4, <2>5 DEF FlowsIn, R
  <2> QED
    BY <1>2, <2>6
<1>4. CASE at = {} /\ u \in Pruned(more, kept)
  <2>1. /\ more \in Seq(R) /\ DOMAIN known = 1 .. Len(known) /\ Len(known) \in Nat
        /\ \A i \in DOMAIN known : i \in DOMAIN more /\ more[i] = known[i]
        /\ \A i \in DOMAIN more : i \notin DOMAIN known => i = Len(known) + 1 /\ more[i] = e
    BY <1>1, AppendedParts
  <2> HIDE DEF more
  <2>2. FlowMap(more)
    BY <1>1, <1>4, <2>1 DEF FlowMap
  <2>3. \A i \in DOMAIN more : KeptIn(more[i], life)
    BY <1>1, <2>1
  <2>4. kept \subseteq DOMAIN more
    OBVIOUS
  <2> HIDE DEF kept
  <2>5. /\ u \in Seq(R)
        /\ \E from \in [DOMAIN u -> kept] :
              /\ \A i \in DOMAIN u : u[i] = more[from[i]]
              /\ \A i, j \in DOMAIN u : from[i] = from[j] => i = j
    BY <1>4, <2>1, <2>4, PrunedParts
  <2>6. PICK from \in [DOMAIN u -> kept] :
              /\ \A i \in DOMAIN u : u[i] = more[from[i]]
              /\ \A i, j \in DOMAIN u : from[i] = from[j] => i = j
    BY <2>5
  <2>7. \A i \in DOMAIN u : from[i] \in DOMAIN more
    BY <2>4, <2>6
  <2>8. FlowMap(u)
    BY <2>2, <2>6, <2>7 DEF FlowMap
  <2>9. \A i \in DOMAIN u : KeptIn(u[i], life)
    BY <2>3, <2>6, <2>7
  <2>10. FlowsIn(u, life)
    BY <1>1, <2>5, <2>8, <2>9 DEF FlowsIn, R
  <2> QED
    BY <1>2, <2>10
<1>5. CASE UNCHANGED known
  BY <1>5 DEF FlowsIn, FlowMap
<1> QED
  BY <1>2, <1>3, <1>4, <1>5 DEF Store, at, more, kept

\* Entries that grow older with the processes they are of.
LEMMA FlowsOn ==
  ASSUME HostTypeOK, FlowsIn(known, life), NEW k \in {0, 1}, Onward(k),
         NEW ks \in Seq(FlowEntries(Started)), DOMAIN ks = DOMAIN known,
         \A i \in DOMAIN ks :
           /\ ks[i].key = known[i].key /\ ks[i].pid = known[i].pid
           /\ ks[i].process = known[i].process
           /\ Young(ks[i]) => Young(known[i]) /\ ks[i].age = known[i].age + k
  PROVE  FlowsIn(ks, life')
<1>1. /\ Started \subseteq Started' /\ Started = 1 .. Len(life) /\ Started' = 1 .. Len(life')
  BY DEF Onward, Started
<1>2. ASSUME NEW i \in DOMAIN ks, Young(ks[i])
      PROVE  /\ HadIn(life', ks[i].key, ks[i].pid, MaxLag + ks[i].age)
             /\ ks[i].process \in 1 .. Len(life') =>
                  life'[ks[i].process].gone <= MaxLag + HintTtl + PidTtl + ks[i].age
  <2>1. Young(known[i]) /\ ks[i].age = known[i].age + k
    BY <1>2
  <2>2. known[i] \in FlowEntries(Started) /\ KeptIn(known[i], life)
    BY <1>1, <1>2, PlacesOfList DEF FlowsIn
  <2>3. known[i].age \in Nat
    BY <2>2, LifetimesAreNumbers DEF FlowEntries
  <2>4. /\ HadIn(life, known[i].key, known[i].pid, MaxLag + known[i].age)
        /\ known[i].process \in Started =>
             life[known[i].process].gone <= MaxLag + HintTtl + PidTtl + known[i].age
    BY <1>1, <2>1, <2>2 DEF KeptIn
  <2>5. /\ MaxLag + known[i].age \in Nat
        /\ (MaxLag + known[i].age) + k = MaxLag + ks[i].age
        /\ MaxLag + HintTtl + PidTtl + known[i].age \in Nat
        /\ (MaxLag + HintTtl + PidTtl + known[i].age) + k
             = MaxLag + HintTtl + PidTtl + ks[i].age
    <3>1. PICK a \in Nat : a = known[i].age
      BY <2>3
    <3>2. /\ MaxLag + a \in Nat /\ (MaxLag + a) + k = MaxLag + (a + k)
          /\ MaxLag + HintTtl + PidTtl + a \in Nat
          /\ (MaxLag + HintTtl + PidTtl + a) + k = MaxLag + HintTtl + PidTtl + (a + k)
      BY LaterSums
    <3>3. ks[i].age = a + k
      BY <2>1, <3>1
    <3> QED
      BY <3>1, <3>2, <3>3, Zenon
  <2>6. HadIn(life', ks[i].key, ks[i].pid, MaxLag + ks[i].age)
    BY <2>4, <2>5, HadOn
  <2>7. ASSUME ks[i].process \in Started'
        PROVE  life'[ks[i].process].gone <= MaxLag + HintTtl + PidTtl + ks[i].age
    <3>1. ks[i].process = known[i].process /\ ks[i].process \in Started
      BY <2>2, <2>7 DEF FlowEntries, Started, NoName, Placeholder
    <3> QED
      BY <2>4, <2>5, <3>1 DEF Onward
  <2> QED
    BY <1>1, <2>6, <2>7
<1>3. FlowMap(ks)
  BY DEF FlowsIn, FlowMap
<1>4. ks \in Seq(FlowEntries(Started'))
  <2>1. /\ Len(ks) \in Nat /\ DOMAIN ks = 1 .. Len(ks)
        /\ \A i \in DOMAIN ks : ks[i] \in FlowEntries(Started)
    BY PlacesOfList
  <2>2. \A i \in DOMAIN ks : ks[i] \in FlowEntries(Started')
    BY <1>1, <2>1 DEF FlowEntries
  <2>3. ks = [i \in DOMAIN ks |-> ks[i]]
    OBVIOUS
  <2>4. ks \in [1 .. Len(ks) -> FlowEntries(Started')]
    BY <2>1, <2>2, <2>3
  <2> QED
    BY <2>1, <2>4, ListOf
<1> QED
  BY <1>1, <1>2, <1>3, <1>4 DEF FlowsIn, KeptIn

\* The owner a scan has found, and the name it is given.
LEMMA FoundParts ==
  ASSUME IInv, apc = "name"
  PROVE  /\ wanted \in Keys /\ found \in Pids
         /\ \A d \in Nat : MaxLag <= d => HadIn(life, wanted, found, d)
         /\ NameOf(found, NoName) \in Names
         /\ NameOf(found, NoName) \in Started =>
              life[NameOf(found, NoName)].gone <= MaxLag + HintTtl + PidTtl
<1>0. /\ HostTypeOK /\ ResolverTypeOK /\ PidsAreRecent
      /\ lag \in Nat /\ lag <= MaxLag /\ MaxLag \in Nat
  BY AttributionAssumption DEF IInv, TypeOK
<1>1. wanted \in Keys /\ found \in Pids /\ HadIn(life, wanted, found, lag)
  BY DEF IInv, ScanIsRecent, Had, HadIn, PidOf, Started
<1>2. \A d \in Nat : MaxLag <= d => HadIn(life, wanted, found, d)
  BY <1>0, <1>1, LongerAgo
<1>3. NoName \notin Started
  BY DEF NoName, Started
<1> QED
  BY <1>0, <1>1, <1>2, <1>3, NameParts

LEMMA FlowsStep ==
  ASSUME IInv, [Next]_vars
  PROVE  FlowsIn(known', life')
<1>0. HostTypeOK /\ FlowsIn(known, life)
  BY FlowsNow DEF IInv, TypeOK
<1>1. known \in Seq(FlowEntries(Started))
      /\ \A i \in DOMAIN known : known[i] \in FlowEntries(Started) /\ known[i].age \in Nat
  <2>1. known \in Seq(FlowEntries(Started))
    BY <1>0 DEF FlowsIn, Started
  <2>2. \A i \in DOMAIN known : known[i] \in FlowEntries(Started)
    BY <2>1, PlacesOfList
  <2>3. \A i \in DOMAIN known : known[i].age \in Nat
    BY <2>2, LifetimesAreNumbers DEF FlowEntries
  <2> QED
    BY <2>1, <2>2, <2>3
<1>2. ASSUME Onward(0), UNCHANGED known
      PROVE  FlowsIn(known', life')
  <2>1. \A i \in DOMAIN known : known[i].age = known[i].age + 0
    BY <1>1
  <2>2. FlowsIn(known, life')
    BY <1>0, <1>1, <1>2, <2>1, FlowsOn
  <2> QED
    BY <1>2, <2>2
<1>3. ASSUME Onward(1), ResolverTick
      PROVE  FlowsIn(known', life')
  <2>1. PICK ks : ks = known'
    OBVIOUS
  <2> DEFINE older(e) == [e EXCEPT !.age = Older(@, ResolverTtl)]
  <2>2. Len(known) \in Nat /\ DOMAIN known = 1 .. Len(known)
    BY <1>1, PlacesOfList
  <2>3. ks = [i \in 1 .. Len(known) |-> older(known[i])]
    BY <1>3, <2>1, <2>2 DEF ResolverTick
  <2>4. ASSUME NEW e \in FlowEntries(Started)
        PROVE  /\ older(e) \in FlowEntries(Started)
               /\ older(e).key = e.key /\ older(e).pid = e.pid
               /\ older(e).process = e.process
               /\ Young(older(e)) => Young(e) /\ older(e).age = e.age + 1
    <3>1. e.age \in 0 .. ResolverTtl + 1
      BY DEF FlowEntries
    <3>2. /\ Older(e.age, ResolverTtl) \in 0 .. ResolverTtl + 1
          /\ Older(e.age, ResolverTtl) <= ResolverTtl =>
               e.age <= ResolverTtl /\ Older(e.age, ResolverTtl) = e.age + 1
      BY <3>1, LifetimesAreNumbers DEF Older
    <3> QED
      BY <3>1, <3>2 DEF FlowEntries, Young
  <2> HIDE DEF older
  <2>5. ks \in [1 .. Len(known) -> FlowEntries(Started)]
    BY <1>1, <2>2, <2>3, <2>4
  <2>6. ks \in Seq(FlowEntries(Started)) /\ DOMAIN ks = DOMAIN known
    BY <2>2, <2>5, ListOf
  <2>7. \A i \in DOMAIN ks :
           /\ ks[i].key = known[i].key /\ ks[i].pid = known[i].pid
           /\ ks[i].process = known[i].process
           /\ Young(ks[i]) => Young(known[i]) /\ ks[i].age = known[i].age + 1
    BY <1>1, <2>2, <2>3, <2>4, <2>6
  <2>8. FlowsIn(ks, life')
    BY <1>0, <1>3, <2>6, <2>7, FlowsOn
  <2> QED
    BY <2>1, <2>8
<1>4. CASE Tick /\ answer' = Silent
  BY <1>0, <1>3, <1>4, TickOfHost DEF Tick
<1>5. CASE HostStep
  BY <1>0, <1>2, <1>5, HostMoves DEF HostStep, resolverVars
<1>6. CASE ScanName
  <2> DEFINE e == [key |-> wanted, pid |-> found, process |-> NameOf(found, NoName),
                   age |-> 0]
  <2>1. apc = "name" /\ Store(e) /\ UNCHANGED life
    BY <1>6 DEF ScanName, Remember
  <2>2. /\ wanted \in Keys /\ found \in Pids
        /\ \A d \in Nat : MaxLag <= d => HadIn(life, wanted, found, d)
        /\ NameOf(found, NoName) \in Names
        /\ NameOf(found, NoName) \in Started =>
             life[NameOf(found, NoName)].gone <= MaxLag + HintTtl + PidTtl
    BY <2>1, FoundParts
  <2>3. e \in FlowEntries(Started)
    BY <2>2, LifetimesAreNumbers DEF FlowEntries, Names
  <2>4. /\ MaxLag + 0 \in Nat /\ MaxLag <= MaxLag + 0
        /\ MaxLag + HintTtl + PidTtl + 0 = MaxLag + HintTtl + PidTtl
    BY LifetimesAreNumbers
  <2>5. KeptIn(e, life)
    BY <2>2, <2>4 DEF KeptIn, Started
  <2> HIDE DEF e
  <2>6. FlowsIn(known', life)
    BY <1>0, <2>1, <2>3, <2>5, StoreParts
  <2> QED
    BY <2>1, <2>6
<1>7. CASE \/ \E k \in Keys : Packet(k)
           \/ ScanOwners \/ Poll \/ Consume \/ PollEnds \/ UNCHANGED vars
  <2>1. UNCHANGED <<life, known>>
    BY <1>7 DEF Packet, FromHint, FromCache, NotNow, Scan, ListSockets, ScanOwners,
                FindOwner, NoOwner, Poll, Consume, PollEnds, vars, resolverVars
  <2> QED
    BY <1>0, <1>2, <2>1, HostStands
<1> QED
  BY <1>4, <1>5, <1>6, <1>7 DEF Next

LEMMA ResolverStep ==
  ASSUME IInv, [Next]_vars
  PROVE  ResolverTypeOK' /\ PidsAreRecent' /\ KnownIsMap' /\ KnownAreRecent'
<1>1. FlowsIn(known', life') /\ PidsIn(pids', life')
  BY FlowsStep, PidsStep
<1>2. Len(known') <= Cardinality(Keys)
  BY <1>1, FlowsBounded DEF FlowsIn
<1>3. lastRefresh' \in 0 .. Refresh
  <2>1. lastRefresh \in 0 .. Refresh /\ Refresh \in Nat
    BY ResolverAssumption DEF IInv, TypeOK, ResolverTypeOK
  <2>2. CASE ResolverTick
    BY <2>1, <2>2 DEF ResolverTick, Older
  <2>3. CASE lastRefresh' \in {lastRefresh, 0}
    BY <2>1, <2>3
  <2>4. ResolverTick \/ lastRefresh' \in {lastRefresh, 0}
    BY DEF Next, Tick, HostStep, Packet, FromHint, FromCache, NotNow, Scan, ListSockets,
           ScanOwners, FindOwner, NoOwner, ScanName, Remember, Poll, Consume, PollEnds,
           vars, resolverVars
  <2> QED
    BY <2>2, <2>3, <2>4
<1>4. wanted' \in Keys \union {NoKey} /\ listed' \subseteq Started'
      /\ found' \in Pids \union {0}
  BY ScanStep
<1>5. ResolverTypeOK'
  BY <1>1, <1>2, <1>3, <1>4
  DEF ResolverTypeOK, FlowsIn, PidsIn, FlowEntries, KnownRecords, PidRecords, Names, Started
<1>6. PidsAreRecent'
  BY <1>1 DEF PidsIn, PidsAreRecent, Started
<1>7. KnownIsMap'
  BY <1>1 DEF FlowsIn, FlowMap, KnownIsMap
<1>8. KnownAreRecent'
  BY <1>1 DEF FlowsIn, KeptIn, KnownAreRecent, Young, Had, HadIn, PidOf, Started
<1> QED
  BY <1>5, <1>6, <1>7, <1>8

-----------------------------------------------------------------------------
(* Answers *)

Answers(P) ==
  [from : {"-", "unknown", "proc"} \union Sources, key : Keys \union {NoKey},
   pid : Pids \union {0, -1}, process : P \union {NoName, Placeholder}]

\* An answer that names parties and processes of not too long ago, as procs tells.
GivenIn(a, procs) ==
  /\ a \in Answers(1 .. Len(procs))
  /\ a.from = "connect" => HadIn(procs, a.key, a.pid, MaxLag + ConnectTtl)
  /\ a.from = "proc" => HadIn(procs, a.key, a.pid, MaxLag + ResolverTtl)
  /\ a.process \in 1 .. Len(procs) => procs[a.process].gone <= MaxAge

LEMMA NoAnswer ==
  ASSUME NEW procs
  PROVE  /\ GivenIn(Silent, procs)
         /\ \A k \in Keys \union {NoKey} : GivenIn(Unknown(k), procs)
BY DEF GivenIn, Answers, Silent, Unknown, NoName

LEMMA AnswerStep ==
  ASSUME IInv, [Next]_vars
  PROVE  GivenIn(answer', life')
<1>0. /\ HostTypeOK /\ ResolverTypeOK /\ PidsAreRecent
      /\ wanted \in Keys \union {NoKey}
  BY DEF IInv, TypeOK, ResolverTypeOK
<1>1. CASE answer' = Silent
  BY <1>1, NoAnswer
<1>2. ASSUME NEW k \in Keys, FromHint(k)
      PROVE  GivenIn(answer', life')
  <2>1. PICK i \in Newest(Hints(k)) :
          answer' = [from |-> hints[i].source, key |-> k, pid |-> hints[i].pid,
                     process |-> NameOf(hints[i].pid, hints[i].process)]
    BY <1>2 DEF FromHint
  <2>2. /\ hints[i].source \in Sources
        /\ SameConv(k, hints[i].key) /\ NamesOwner(hints[i])
        /\ hints[i].pid \in Pids /\ hints[i].process \in Started
        /\ life[hints[i].process].gone <= MaxLag + HintTtl
        /\ hints[i].source = "connect" =>
             life[hints[i].process].gone <= MaxLag + ConnectTtl
    BY NewestHint DEF HintRecords
  <2>3. PICK name : name = NameOf(hints[i].pid, hints[i].process)
    OBVIOUS
  <2>4. /\ name \in Names
        /\ name \in Started => life[name].gone <= MaxLag + HintTtl + PidTtl
    BY <1>0, <2>2, <2>3, NameParts
  <2>5. name \in Started => life[name].gone <= MaxAge
    BY <1>0, <2>4, LifeParts, LifetimesAreNumbers DEF MaxAge
  <2>6. hints[i].source = "connect" =>
          HadIn(life, k, hints[i].pid, MaxLag + ConnectTtl)
    BY <2>2 DEF HadIn, NamesOwner, PidOf, Started
  <2>7. answer' = [from |-> hints[i].source, key |-> k, pid |-> hints[i].pid,
                   process |-> name]
    BY <2>1, <2>3
  <2>8. GivenIn(answer', life)
    <3>1. hints[i].source # "proc"
      BY <2>2 DEF Sources
    <3> QED
      BY <2>2, <2>4, <2>5, <2>6, <2>7, <3>1 DEF GivenIn, Answers, Names, Started
  <2> QED
    BY <1>2, <2>8 DEF FromHint
<1>3. ASSUME NEW k \in Keys, FromCache(k)
      PROVE  GivenIn(answer', life')
  <2>1. PICK i \in Newest(Known(k)) :
          answer' = [from |-> "proc", key |-> k, pid |-> known[i].pid,
                     process |-> known[i].process]
    BY <1>3 DEF FromCache
  <2>2. FlowsIn(known, life)
    BY FlowsNow
  <2>3. i \in DOMAIN known /\ SameConv(k, known[i].key)
    BY DEF Newest, Known
  <2>4. known[i] \in FlowEntries(Started) /\ DOMAIN known = 1 .. Len(known)
        /\ Len(known) \in Nat
    <3>1. known \in Seq(FlowEntries(Started))
      BY <2>2 DEF FlowsIn, Started
    <3> QED
      BY <2>3, <3>1, PlacesOfList
  <2>5. Young(known[i])
    <3>1. i \in i .. Len(known)
      BY <2>3, <2>4
    <3> QED
      BY <3>1 DEF Newest, Known
  <2>6. known[i].age \in Nat /\ known[i].age <= ResolverTtl
    BY <2>4, <2>5, LifetimesAreNumbers DEF FlowEntries, Young
  <2>7. /\ HadIn(life, known[i].key, known[i].pid, MaxLag + known[i].age)
        /\ known[i].process \in Started =>
             life[known[i].process].gone <= MaxLag + HintTtl + PidTtl + known[i].age
    BY <2>2, <2>3, <2>5 DEF FlowsIn, KeptIn, Started
  <2>8. HadIn(life, k, known[i].pid, MaxLag + ResolverTtl)
    <3>1. PICK n \in Started : /\ life[n].pid = known[i].pid
                               /\ SameConv(known[i].key, life[n].key)
                               /\ life[n].gone <= MaxLag + known[i].age
      BY <2>7 DEF HadIn, Started
    <3>2. life[n].gone <= MaxLag + ResolverTtl
      BY <1>0, <2>6, <3>1, LifeParts, LifetimesAreNumbers
    <3>3. known[i].key \in Keys /\ life[n].key \in Keys
      BY <1>0, <2>4, LifeParts DEF FlowEntries
    <3>4. SameConv(k, life[n].key)
      BY <2>3, <3>1, <3>3, Conversations
    <3> QED
      BY <3>1, <3>2, <3>4 DEF HadIn, Started
  <2>9. known[i].process \in Started => life[known[i].process].gone <= MaxAge
    BY <1>0, <2>6, <2>7, LifeParts, LifetimesAreNumbers DEF MaxAge
  <2>10. GivenIn(answer', life)
    BY <2>1, <2>4, <2>8, <2>9 DEF GivenIn, Answers, FlowEntries, Started
  <2> QED
    BY <1>3, <2>10 DEF FromCache
<1>4. ASSUME NEW k \in Keys, NotNow(k)
      PROVE  GivenIn(answer', life')
  BY <1>4, NoAnswer DEF NotNow
<1>5. CASE ScanOwners
  BY <1>0, <1>5, NoAnswer DEF ScanOwners
<1>6. CASE ScanName
  <2>1. PICK name : name = NameOf(found, NoName)
    OBVIOUS
  <2>2. /\ apc = "name" /\ UNCHANGED life
        /\ answer' = [from |-> "proc", key |-> wanted, pid |-> found, process |-> name]
    BY <1>6, <2>1 DEF ScanName
  <2>3. MaxLag <= MaxLag + ResolverTtl /\ MaxLag + ResolverTtl \in Nat
    BY LifetimesAreNumbers
  <2>4. /\ wanted \in Keys /\ found \in Pids
        /\ HadIn(life, wanted, found, MaxLag + ResolverTtl)
        /\ name \in Names
        /\ name \in Started => life[name].gone <= MaxLag + HintTtl + PidTtl
    BY <2>1, <2>2, <2>3, FoundParts
  <2>5. name \in Started => life[name].gone <= MaxAge
    BY <1>0, <2>4, LifeParts, LifetimesAreNumbers DEF MaxAge
  <2>6. GivenIn(answer', life)
    BY <2>2, <2>4, <2>5 DEF GivenIn, Answers, Names, Started
  <2> QED
    BY <2>2, <2>6
<1>7. CASE UNCHANGED vars
  <2>1. /\ answer' = answer /\ life' = life
    BY <1>7 DEF vars, agentVars
  <2>2. \A n \in Started : n \in Procs
    BY <1>0, LifeParts
  <2>3. GivenIn(answer, life)
    BY <2>2 DEF IInv, TypeOK, PartiesAreRecent, NamesAreRecent, GivenIn, Answers, Names,
                Had, HadIn, PidOf, Started
  <2> QED
    BY <2>1, <2>3
<1> QED
  BY <1>1, <1>2, <1>3, <1>4, <1>5, <1>6, <1>7
  DEF Next, Packet, Scan, Poll, Consume, PollEnds

-----------------------------------------------------------------------------
(* The theorems *)

LEMMA AttributionInit ==
  ASSUME Init
  PROVE  IInv
<1>1. life = <<>> /\ Started = {} /\ DOMAIN life = {} /\ Len(life) = 0
  BY DEF Init, HostInit, Started
<1>2. HostTypeOK
  BY <1>1, HostAssumption DEF HostTypeOK
<1>3. IsFiniteSet(Keys) /\ Cardinality(Keys) \in Nat /\ Cardinality(Keys \X Sources) \in Nat
  BY KeysFinite, FS_CardinalityType
<1>4. TrackerTypeOK
  BY <1>3, TrackerAssumption DEF Init, TrackerInit, TrackerTypeOK
<1>5. ResolverTypeOK
  BY <1>3, ResolverAssumption
  DEF Init, ResolverInit, ResolverTypeOK, PidRecords, Names, NoKey
<1>6. TypeOK
  BY <1>2, <1>4, <1>5, AttributionAssumption DEF Init, TypeOK, Silent, Names
<1>7. HintsAreLatest /\ EventsAreRecent /\ HintsAreRecent
  BY DEF Init, TrackerInit, HintsAreLatest, EventsAreRecent, HintsAreRecent
<1>8. ScanIsRecent
  BY DEF Init, ResolverInit, ScanIsRecent
<1>9. PidsAreRecent /\ KnownIsMap /\ KnownAreRecent
  BY <1>1 DEF Init, ResolverInit, PidsAreRecent, KnownIsMap, KnownAreRecent
<1>10. PartiesAreRecent /\ NamesAreRecent
  BY DEF Init, Silent, PartiesAreRecent, NamesAreRecent, NoName, Procs
<1> QED
  BY <1>6, <1>7, <1>8, <1>9, <1>10 DEF IInv

LEMMA AttributionStep ==
  ASSUME IInv, [Next]_vars
  PROVE  IInv'
<1>1. HostTypeOK'
  BY LifeStep DEF IInv, TypeOK
<1>2. TrackerTypeOK' /\ HintsAreLatest'
  BY TrackerTypeStep
<1>3. ResolverTypeOK' /\ PidsAreRecent' /\ KnownIsMap' /\ KnownAreRecent'
  BY ResolverStep
<1>4. GivenIn(answer', life')
  BY AnswerStep
<1>5. useEbpf' \in BOOLEAN
  BY DEF IInv, TypeOK, Next, Tick, HostStep, Packet, FromHint, FromCache, NotNow, Scan,
         ScanOwners, ScanName, Poll, Consume, PollEnds, vars, agentVars
<1>6. apc' \in {"idle", "owners", "name", "poll"}
  BY DEF IInv, TypeOK, Next, Tick, HostStep, Packet, FromHint, FromCache, NotNow, Scan,
         ScanOwners, ScanName, Poll, Consume, PollEnds, vars, agentVars
<1>7. lag' \in 0 .. MaxLag
  BY LagStep
<1>8. TypeOK'
  BY <1>1, <1>2, <1>3, <1>4, <1>5, <1>6, <1>7 DEF TypeOK, GivenIn, Answers, Names, Started
<1>9. PartiesAreRecent' /\ NamesAreRecent'
  BY <1>4 DEF PartiesAreRecent, NamesAreRecent, GivenIn, Answers, Had, HadIn, PidOf,
              Started, Procs, NoName, Placeholder
<1> QED
  BY <1>2, <1>3, <1>8, <1>9, EventsStep, HintsRecentStep, ScanStep DEF IInv

\* The inductive invariant: what the caches hold, entry by entry, while pids
\* and tuples are used again.
THEOREM AttributionCorrect == Spec => []IInv
<1>1. Init => IInv
  BY AttributionInit
<1>2. IInv /\ [Next]_vars => IInv'
  BY AttributionStep
<1> QED
  BY <1>1, <1>2, PTL DEF Spec

\* All variables stay within their types, and the arrays of the two caches
\* within their sizes: no more hints than tuples and sources, no more flows than
\* tuples.
THEOREM AttributionTypes == Spec => []TypeOK
<1>1. IInv => TypeOK
  BY DEF IInv
<1> QED
  BY <1>1, AttributionCorrect, PTL

\* The cache of hints is a map that holds what was stored last, whatever is
\* updated, grown or pruned (ebpf_cache_put, ebpf_cache_prune).
THEOREM HintsCorrect == Spec => []HintsAreLatest
<1>1. IInv => HintsAreLatest
  BY DEF IInv
<1> QED
  BY <1>1, AttributionCorrect, PTL

\* An answer of the connect probe or of /proc is a process that had a socket of
\* the conversation, not longer ago than a turn and the lifetime of one cache.
THEOREM PartiesCorrect == Spec => []PartiesAreRecent
<1>1. IInv => PartiesAreRecent
  BY DEF IInv
<1> QED
  BY <1>1, AttributionCorrect, PTL

\* A name is at most as old as a turn and the lifetimes of the three caches it
\* may pass through.
THEOREM NamesCorrect == Spec => []NamesAreRecent
<1>1. IInv => NamesAreRecent
  BY DEF IInv
<1> QED
  BY <1>1, AttributionCorrect, PTL
=============================================================================
