-------------------------------- MODULE ListLemmas --------------------------------
(***************************************************************************)
(* Facts about finite lists that the proofs of several modules rest on.     *)
(***************************************************************************)
EXTENDS Integers, Sequences, FiniteSets, SequenceTheorems, FunctionTheorems,
        FiniteSetTheorems, TLAPS

\* A list of n different elements of a set of n names them all.
LEMMA EnumerationIsOnto ==
  ASSUME NEW S, IsFiniteSet(S), NEW e \in [1 .. Cardinality(S) -> S],
         \A i, j \in 1 .. Cardinality(S) : e[i] = e[j] => i = j
  PROVE  \A x \in S : \E i \in 1 .. Cardinality(S) : e[i] = x
<1> DEFINE n == Cardinality(S)
<1>1. n \in Nat
  BY FS_CardinalityType
<1>2. e \in Injection(1 .. n, S)
  BY Fun_IsInj
<1>3. Cardinality(1 .. n) = n
  BY <1>1, FS_Interval
<1>4. e \in Surjection(1 .. n, S)
  BY <1>2, <1>3, FS_Injection
<1> QED
  BY <1>4 DEF Surjection

\* The places of a list are finitely many.
LEMMA PlacesOfList ==
  ASSUME NEW S, NEW f \in Seq(S)
  PROVE  /\ Len(f) \in Nat /\ DOMAIN f = 1 .. Len(f)
         /\ IsFiniteSet(DOMAIN f) /\ Cardinality(DOMAIN f) = Len(f)
         /\ \A i \in DOMAIN f : f[i] \in S
<1>1. DOMAIN f = 1 .. Len(f) /\ Len(f) \in Nat
  BY LenProperties
<1>2. IsFiniteSet(1 .. Len(f)) /\ Cardinality(1 .. Len(f)) = Len(f)
  BY <1>1, FS_Interval
<1> QED
  BY <1>1, <1>2, ElementOfSeq

LEMMA CountOfLines ==
  ASSUME NEW S, NEW f \in Seq(S), NEW a
  PROVE  /\ IsFiniteSet({i \in DOMAIN f : f[i] = a})
         /\ Cardinality({i \in DOMAIN f : f[i] = a}) \in Nat
<1>1. IsFiniteSet({i \in DOMAIN f : f[i] = a})
  BY PlacesOfList, FS_Subset
<1> QED
  BY <1>1, FS_CardinalityType

\* A list whose entries differ in something is no longer than there are values
\* of it.
LEMMA NoLongerThan ==
  ASSUME NEW S, NEW f \in Seq(S), NEW T, IsFiniteSet(T),
         NEW g \in [DOMAIN f -> T],
         \A i, j \in DOMAIN f : g[i] = g[j] => i = j
  PROVE  Len(f) <= Cardinality(T)
<1>1. g \in Injection(DOMAIN f, T)
  BY Fun_IsInj
<1>2. Cardinality(DOMAIN f) <= Cardinality(T)
  BY <1>1, FS_Injection
<1> QED
  BY <1>2, PlacesOfList

\* A function on an initial segment of the numbers is a list.
LEMMA ListOf ==
  ASSUME NEW S, NEW n \in Nat, NEW f \in [1 .. n -> S]
  PROVE  f \in Seq(S) /\ Len(f) = n /\ DOMAIN f = 1 .. n
<1>1. f \in Seq(S)
  BY SeqDef
<1>2. DOMAIN f = 1 .. n /\ DOMAIN f = 1 .. Len(f) /\ Len(f) \in Nat
  BY <1>1, LenProperties
<1> QED
  BY <1>1, <1>2
=============================================================================
