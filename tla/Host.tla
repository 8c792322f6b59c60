---------------------------------- MODULE Host ----------------------------------
(***************************************************************************)
(* What the agent observes and does not control: processes whose pids, and  *)
(* whose tuples, are used again.  A process is named by the number of its   *)
(* start, so that no two have the same name, and has one socket all its     *)
(* life.  External: modelled from how resolver.c, ebpf_tracker.c and the    *)
(* probes use it.                                                           *)
(*                                                                          *)
(* The programs look at the clock only to tell how long ago something was;  *)
(* so what they note is an age, which every tick raises, up to the first    *)
(* one that is past all limits.                                             *)
(***************************************************************************)
EXTENDS Integers, Sequences, FiniteSets

CONSTANTS
  Convs,     \* conversations: protocol, two addresses, two ports
  Ends,      \* their two ends
  Pids,
  MaxProcs,  \* processes started (a bound)
  MaxGone    \* how long it matters when a process ended

ASSUME HostAssumption ==
  /\ IsFiniteSet(Convs) /\ IsFiniteSet(Ends) /\ Cardinality(Ends) = 2
  /\ MaxProcs \in Nat
  /\ MaxGone \in Nat

\* A tuple: the conversation as one of its two ends sees it.
Keys == Convs \X Ends
Rev(k) == <<k[1], CHOOSE e \in Ends : e # k[2]>>
NoKey == <<>>
SameConv(k, l) == l = k \/ l = Rev(k)

Procs == 1 .. MaxProcs
Running == -1

VARIABLE
  life  \* processes started: pid, tuple of the socket, ticks since the end

HostInit == life = <<>>

Lives == [pid : Pids, key : Keys, gone : 0 .. MaxGone + 1 \union {Running}]
HostTypeOK ==
  /\ life \in Seq(Lives)
  /\ Len(life) <= MaxProcs

\* An age a tick later; limit + 1 stands for all that are past the limit.
Older(age, limit) == IF age <= limit THEN age + 1 ELSE age

HostTick ==
  life' = [n \in DOMAIN life |-> IF life[n].gone = Running THEN life[n]
             ELSE [life[n] EXCEPT !.gone = Older(@, MaxGone)]]

Started == 1 .. Len(life)
Alive == {n \in Started : life[n].gone = Running}
PidOf(n) == life[n].pid
Sockets == {life[n].key : n \in Alive}

\* A process starts and opens its socket.
Start(p, k) ==
  /\ Len(life) < MaxProcs
  /\ \A n \in Alive : life[n].pid # p /\ life[n].key # k
  /\ life' = Append(life, [pid |-> p, key |-> k, gone |-> Running])

Exit ==
  \E n \in Alive : life' = [life EXCEPT ![n].gone = 0]
=============================================================================
