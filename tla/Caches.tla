---------------------------------- MODULE Caches ----------------------------------
(***************************************************************************)
(* The arrays in which ebpf_tracker.c and resolver.c keep what they learnt: *)
(* an entry is found by a walk, updated in place or appended, for which the *)
(* array may have to grow, and the array is pruned in place.                *)
(***************************************************************************)
EXTENDS Integers, Sequences, FiniteSets

CONSTANT FullAt  \* lengths at which an array may be full, and realloc fail

ASSUME CachesAssumption == FullAt \subseteq Nat

\* The walk from the front stops at the first of some positions, the one from
\* the end at the last.
First(at) == {i \in at : \A j \in at : i <= j}
Newest(at) == {i \in at : \A j \in at : j <= i}

\* The entry of the first position is overwritten.
Updated(s, at, e) == {[s EXCEPT ![i] = e] : i \in First(at)}

\* What is to be kept moves up, in its order.
Pruned(s, kept) ==
  LET n == Cardinality(kept)
  IN  {[i \in 1 .. n |-> s[from[i]]] :
         from \in {f \in [1 .. n -> kept] : \A i, j \in 1 .. n : i < j => f[i] < f[j]}}
=============================================================================
