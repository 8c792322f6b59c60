--------------------------- MODULE WazuhBridgeProofs ---------------------------
(***************************************************************************)
(* Proofs about WazuhBridge, for any traffic, any rules and any bounds.     *)
(***************************************************************************)
EXTENDS WazuhBridge, ListLemmas

Pairs == Nat \X Nat

-----------------------------------------------------------------------------
(* Records, their places and their alerts *)

LEMMA AfterOrder ==
  ASSUME NEW t \in Pairs, NEW u \in Pairs, NEW v \in Pairs
  PROVE  /\ ~ After(t, t)
         /\ After(t, u) => ~ After(u, t)
         /\ ~ After(t, u) /\ ~ After(u, t) => t = u
         /\ ~ After(t, u) /\ ~ After(u, v) => ~ After(t, v)
<1>1. /\ t[1] \in Nat /\ t[2] \in Nat /\ u[1] \in Nat /\ u[2] \in Nat
      /\ v[1] \in Nat /\ v[2] \in Nat
      /\ t[1] = u[1] /\ t[2] = u[2] => t = u
  BY DEF Pairs
<1> QED
  BY <1>1 DEF After

LEMMA RecordParts ==
  ASSUME TypeOK
  PROVE  /\ Len(table) \in Nat
         /\ \A r \in Ids : /\ r \in Nat /\ r # 0
                           /\ table[r] \in Rows
                           /\ table[r].minute \in Nat
                           /\ Place(r) \in Pairs /\ Place(r) # None
                           /\ Final(r) \in BOOLEAN
<1>1. Len(table) \in Nat /\ \A r \in Ids : table[r] \in Rows
  BY LenProperties, ElementOfSeq DEF TypeOK, Ids
<1>2. ASSUME NEW r \in Ids
      PROVE  /\ r \in Nat /\ r # 0
             /\ table[r].minute \in Nat
             /\ Place(r) \in Pairs /\ Place(r) # None
             /\ Final(r) \in BOOLEAN
  <2>1. table[r].minute \in Nat /\ table[r].rec \in Traffic
    BY <1>1, BridgeAssumption DEF Rows
  <2>2. table[r].rec.flow \in Nat /\ table[r].rec.final \in BOOLEAN
    BY <2>1, BridgeAssumption
  <2>3. Place(r) \in Pairs
    BY <2>1, <2>2 DEF Place, Pairs
  <2>4. Place(r) # None
    BY DEF Place, None
  <2> QED
    BY <1>1, <2>1, <2>2, <2>3, <2>4 DEF Final, Ids
<1> QED
  BY <1>1, <1>2

\* The time that the first query goes back is a number of seconds.
LEMMA BootstrapIsTime == Bootstrap \in Nat
<1>1. \A m, n \in Nat : m * n \in Nat
  OBVIOUS
<1> QED
  BY <1>1, BridgeAssumption DEF Bootstrap

LEMMA CursorType ==
  ASSUME TypeOK
  PROVE  /\ cursor # None => cursor \in Pairs
         /\ saved # None => saved \in Pairs
  BY RecordParts DEF TypeOK, Places

LEMMA AlertParts ==
  ASSUME TypeOK, NEW r \in Ids, NEW a \in Alerts(r)
  PROVE  a.row = r /\ a \in AllAlerts /\ a # Garbage
<1>1. a.row = r
  BY DEF Alerts
<1>2. r # 0
  BY RecordParts
<1> QED
  BY <1>1, <1>2 DEF AllAlerts, Garbage

LEMMA AlertOfItsRow ==
  ASSUME TypeOK, NEW a \in AllAlerts
  PROVE  a.row \in Ids /\ a \in Alerts(a.row) /\ a # Garbage
<1>1. PICK r \in Ids : a \in Alerts(r)
  BY DEF AllAlerts
<1> QED
  BY <1>1, AlertParts

\* Records stay what they are, and more of them come.
Grows ==
  /\ Len(table) <= Len(table')
  /\ Ids \subseteq Ids'
  /\ \A r \in Ids : /\ table'[r] = table[r]
                    /\ Place(r)' = Place(r)
                    /\ Final(r)' = Final(r)
                    /\ Alerts(r)' = Alerts(r)
  /\ AllAlerts \subseteq AllAlerts'
  /\ Places \subseteq Places'

LEMMA TableGrows ==
  ASSUME TypeOK, [Next]_vars
  PROVE  /\ Grows
         /\ ~ Arrive => UNCHANGED table
         /\ table' \in Seq(Rows)
<1>1. CASE Arrive
  <2>1. PICK t \in Traffic, m \in MinutesBegun :
          table' = Append(table, [minute |-> m, rec |-> t])
    BY <1>1 DEF Arrive
  <2>2. [minute |-> m, rec |-> t] \in Rows
    BY BridgeAssumption DEF Rows, MinutesBegun, TypeOK
  <2>3. /\ table' \in Seq(Rows)
        /\ Len(table') = Len(table) + 1
        /\ \A r \in 1 .. Len(table) : table'[r] = table[r]
    BY <2>1, <2>2, AppendProperties DEF TypeOK
  <2>4. Ids \subseteq Ids' /\ Len(table) <= Len(table')
    BY <2>3, RecordParts DEF Ids
  <2>5. \A r \in Ids : /\ table'[r] = table[r]
                       /\ Place(r)' = Place(r)
                       /\ Final(r)' = Final(r)
                       /\ Alerts(r)' = Alerts(r)
    BY <2>3 DEF Ids, Place, Final, Alerts, Matched
  <2>6. AllAlerts \subseteq AllAlerts' /\ Places \subseteq Places'
    BY <2>4, <2>5 DEF AllAlerts, Places
  <2> QED
    BY <1>1, <2>3, <2>4, <2>5, <2>6 DEF Grows
<1>2. CASE ~ Arrive
  <2>1. UNCHANGED table
    BY <1>2 DEF Next, vars, Tick, Run, Start, Select, AppendAlerts, Save,
                QueryFails, AppendFails, SaveFails, Kill
  <2>2. /\ Ids' = Ids /\ AllAlerts' = AllAlerts /\ Places' = Places
        /\ \A r \in Ids : /\ Place(r)' = Place(r)
                          /\ Final(r)' = Final(r)
                          /\ Alerts(r)' = Alerts(r)
    BY <2>1 DEF Ids, Place, Final, Alerts, Matched, AllAlerts, Places
  <2> QED
    BY <1>2, <2>1, <2>2, RecordParts DEF Grows, TypeOK
<1> QED
  BY <1>1, <1>2

-----------------------------------------------------------------------------
(* A batch *)

LEMMA BatchAlertsFinite ==
  ASSUME TypeOK, NEW b, \A i \in DOMAIN b : b[i] \in Ids
  PROVE  IsFiniteSet(BatchAlerts(b)) /\ BatchAlerts(b) \subseteq AllAlerts
<1> DEFINE A == BatchAlerts(b)
           C == Ids \X RuleNumbers
           f == [a \in A |-> <<a.row, a.rule>>]
<1>1. IsFiniteSet(C)
  <2>1. IsFiniteSet(Ids)
    <3>1. Len(table) \in Int
      BY RecordParts
    <3> QED
      BY <3>1, FS_Interval DEF Ids
  <2>2. IsFiniteSet(RuleNumbers)
    <3>1. 1 \in Int /\ 5 \in Int
      OBVIOUS
    <3> QED
      BY <3>1, FS_Interval, Zenon DEF RuleNumbers
  <2> QED
    BY <2>1, <2>2, FS_Product
<1>2. \A a \in A : /\ a \in AllAlerts
                   /\ \E r \in Ids, u \in RuleNumbers : a = [row |-> r, rule |-> u]
  BY DEF BatchAlerts, AllAlerts, Alerts, Matched
<1>3. f \in [A -> C]
  BY <1>2
<1>4. \A x, y \in A : f[x] = f[y] => x = y
  BY <1>2
<1>5. f \in Injection(A, C)
  BY <1>3, <1>4, Fun_IsInj
<1> QED
  BY <1>1, <1>2, <1>5, FS_Injection

LEMMA BatchParts ==
  ASSUME TypeOK, NEW b \in Batches
  PROVE  LET n == Len(b)
         IN  /\ n \in Nat /\ DOMAIN b = 1 .. n
             /\ n = 0 => Selected = {}
             /\ b = <<>> <=> n = 0
             /\ \A i \in 1 .. n : b[i] \in Selected /\ b[i] \in Ids
             /\ \A i, j \in 1 .. n :
                  i < j => b[i] # b[j] /\ ~ After(Place(b[i]), Place(b[j]))
             /\ \A i, j \in 1 .. n : b[i] = b[j] => i = j
             /\ \A r \in Selected, i \in 1 .. n :
                  (\A j \in 1 .. n : b[j] # r) => ~ After(Place(b[i]), Place(r))
<1> DEFINE c == Cardinality(Selected)
           n == IF c < BatchRows THEN c ELSE BatchRows
<1>1. IsFiniteSet(Selected) /\ Selected \subseteq Ids
  <2>1. IsFiniteSet(Ids) /\ Selected \subseteq Ids
    <3>1. Len(table) \in Int
      BY RecordParts
    <3> QED
      BY <3>1, FS_Interval DEF Ids, Selected
  <2> QED
    BY <2>1, FS_Subset
<1>2. c \in Nat /\ (c = 0 => Selected = {})
  BY <1>1, FS_CardinalityType, FS_EmptySet
<1>3. n \in Nat /\ (n = 0 => Selected = {})
  BY <1>2, BridgeAssumption
<1>4. /\ b \in [1 .. n -> Selected]
      /\ \A i, j \in 1 .. n :
           i < j => b[i] # b[j] /\ ~ After(Place(b[i]), Place(b[j]))
      /\ \A r \in Selected \ {b[i] : i \in 1 .. n}, i \in 1 .. n :
           ~ After(Place(b[i]), Place(r))
  BY DEF Batches
<1> HIDE DEF n
<1>5. b \in Seq(Selected)
  BY <1>3, <1>4, SeqDef
<1>6. Len(b) = n /\ DOMAIN b = 1 .. n
  BY <1>3, <1>4, <1>5, LenProperties
<1>7. b = <<>> <=> n = 0
  BY <1>5, <1>6, EmptySeq
<1>8. \A i, j \in 1 .. n : b[i] = b[j] => i = j
  BY <1>3, <1>4
<1> QED
  BY <1>1, <1>3, <1>4, <1>6, <1>7, <1>8

LEMMA EmissionParts ==
  ASSUME TypeOK, NEW b \in Batches, NEW e \in Emissions(b)
  PROVE  /\ e \in Seq(AllAlerts)
         /\ \A k \in DOMAIN e : \E i \in DOMAIN b : e[k] \in Alerts(b[i])
         /\ \A k, l \in DOMAIN e : e[k] = e[l] => k = l
         /\ \A i \in DOMAIN b : \A a \in Alerts(b[i]) : \E k \in DOMAIN e : e[k] = a
<1> DEFINE A == BatchAlerts(b)
           n == Cardinality(A)
<1>1. /\ DOMAIN b = 1 .. Len(b) /\ Len(b) \in Nat
      /\ \A i \in DOMAIN b : b[i] \in Ids
      /\ \A i, j \in DOMAIN b : b[i] = b[j] => i = j
  BY BatchParts
<1>2. IsFiniteSet(A) /\ A \subseteq AllAlerts /\ n \in Nat
  BY <1>1, BatchAlertsFinite, FS_CardinalityType
<1>3. /\ e \in [1 .. n -> A]
      /\ \A i, j \in 1 .. n : i < j => Precedes(b, e[i], e[j])
  BY DEF Emissions
<1>4. \A x \in A : x.rule \in Int /\ ~ Precedes(b, x, x)
  <2>1. \A x \in A : x.rule \in Int
    BY DEF BatchAlerts, Alerts, Matched, RuleNumbers
  <2> QED
    BY <1>1, <2>1 DEF Precedes
<1>5. DOMAIN e = 1 .. n
  BY <1>3
<1>6. \A i, j \in 1 .. n : e[i] = e[j] => i = j
  <2> SUFFICES ASSUME NEW i \in 1 .. n, NEW j \in 1 .. n, e[i] = e[j], i # j
               PROVE  FALSE
    OBVIOUS
  <2>1. i < j \/ j < i
    BY <1>2
  <2>2. Precedes(b, e[i], e[i])
    BY <1>3, <2>1
  <2> QED
    BY <1>3, <1>4, <2>2
<1>7. e \in Seq(AllAlerts)
  BY <1>2, <1>3, SeqDef
<1>8. \A x \in A : \E i \in 1 .. n : e[i] = x
  BY <1>2, <1>3, <1>6, EnumerationIsOnto
<1>9. \A k \in 1 .. n : \E i \in DOMAIN b : e[k] \in Alerts(b[i])
  BY <1>3 DEF BatchAlerts
<1>10. \A i \in DOMAIN b : Alerts(b[i]) \subseteq A
  BY DEF BatchAlerts
<1> QED
  BY <1>5, <1>6, <1>7, <1>8, <1>9, <1>10

\* What a query and its rules come to: the cursor moves on, to the place of the
\* last record, and a selected record is alerted or lies at that place or beyond.
LEMMA SelectEffect ==
  ASSUME TypeOK, CursorsInOrder, Select
  PROVE  /\ emitted' \in Seq(AllAlerts)
         /\ \A k, l \in DOMAIN emitted' : emitted'[k] = emitted'[l] => k = l
         /\ \A k \in DOMAIN emitted' :
              /\ emitted'[k].row \in Selected
              /\ cursor' # None
              /\ ~ After(Place(emitted'[k].row), cursor')
         /\ cursor' \in Places \union {None}
         /\ cursor # None => cursor' # None /\ ~ After(cursor, cursor')
         /\ \A r \in Selected :
              \/ \A a \in Alerts(r) : \E k \in DOMAIN emitted' : emitted'[k] = a
              \/ /\ cursor' # None /\ ~ After(cursor', Place(r))
                 /\ \E s \in Selected : s # r /\ Place(s) = cursor'
<1>1. PICK b \in Batches : emitted' \in Emissions(b) /\ cursor' = CursorOf(b)
  BY DEF Select
<1> DEFINE n == Len(b)
<1>2. /\ n \in Nat /\ DOMAIN b = 1 .. n
      /\ n = 0 => Selected = {}
      /\ b = <<>> <=> n = 0
      /\ \A i \in 1 .. n : b[i] \in Selected /\ b[i] \in Ids
      /\ \A i, j \in 1 .. n :
           i < j => b[i] # b[j] /\ ~ After(Place(b[i]), Place(b[j]))
      /\ \A r \in Selected, i \in 1 .. n :
           (\A j \in 1 .. n : b[j] # r) => ~ After(Place(b[i]), Place(r))
  BY BatchParts
<1>3. /\ emitted' \in Seq(AllAlerts)
      /\ \A k \in DOMAIN emitted' : \E i \in 1 .. n : emitted'[k] \in Alerts(b[i])
      /\ \A k, l \in DOMAIN emitted' : emitted'[k] = emitted'[l] => k = l
      /\ \A i \in 1 .. n : \A a \in Alerts(b[i]) :
           \E k \in DOMAIN emitted' : emitted'[k] = a
  BY <1>1, <1>2, EmissionParts
<1>4. n # 0 => cursor' = Place(b[n]) /\ cursor' # None /\ b[n] \in Selected
                 /\ cursor' \in Places
  BY <1>1, <1>2, RecordParts DEF CursorOf, Places
<1>5. n = 0 => cursor' = cursor
  BY <1>1, <1>2 DEF CursorOf
<1> HIDE DEF n
<1>6. \A i \in 1 .. n : ~ After(Place(b[i]), cursor')
  <2> SUFFICES ASSUME NEW i \in 1 .. n PROVE ~ After(Place(b[i]), Place(b[n]))
    BY <1>2, <1>4
  <2>1. CASE i = n
    BY <1>2, <2>1, RecordParts, AfterOrder
  <2>2. CASE i < n
    BY <1>2, <2>2
  <2> QED
    BY <1>2, <2>1, <2>2
<1>7. \A k \in DOMAIN emitted' :
        /\ emitted'[k].row \in Selected
        /\ cursor' # None
        /\ ~ After(Place(emitted'[k].row), cursor')
  <2> SUFFICES ASSUME NEW k \in DOMAIN emitted'
               PROVE  /\ emitted'[k].row \in Selected
                      /\ cursor' # None
                      /\ ~ After(Place(emitted'[k].row), cursor')
    OBVIOUS
  <2>1. PICK i \in 1 .. n : emitted'[k] \in Alerts(b[i])
    BY <1>3
  <2>2. emitted'[k].row = b[i]
    BY <1>2, <2>1, AlertParts
  <2>3. n # 0
    BY <1>2, <2>1
  <2> QED
    BY <1>2, <1>4, <1>6, <2>2, <2>3
<1>8. cursor # None => cursor' # None /\ ~ After(cursor, cursor')
  <2> SUFFICES ASSUME cursor # None
               PROVE  cursor' # None /\ ~ After(cursor, cursor')
    OBVIOUS
  <2>1. cursor \in Pairs
    BY CursorType
  <2>2. CASE n = 0
    BY <1>5, <2>1, <2>2, AfterOrder
  <2>3. CASE n # 0
    <3>1. After(cursor', cursor)
      BY <1>4, <2>3 DEF Selected
    <3>2. cursor' \in Pairs
      BY <1>2, <1>4, <2>3, RecordParts
    <3> QED
      BY <1>4, <2>1, <2>3, <3>1, <3>2, AfterOrder
  <2> QED
    BY <2>2, <2>3
<1>9. ASSUME NEW r \in Selected
      PROVE  \/ \A a \in Alerts(r) : \E k \in DOMAIN emitted' : emitted'[k] = a
             \/ /\ cursor' # None /\ ~ After(cursor', Place(r))
                /\ \E s \in Selected : s # r /\ Place(s) = cursor'
  <2>1. CASE \E i \in 1 .. n : b[i] = r
    BY <1>3, <2>1
  <2>2. CASE \A i \in 1 .. n : b[i] # r
    <3>1. n # 0 /\ n \in 1 .. n
      BY <1>2, <1>9
    <3> QED
      BY <1>2, <1>4, <2>2, <3>1
  <2> QED
    BY <2>1, <2>2
<1>10. cursor' \in Places \union {None}
  BY <1>4, <1>5 DEF TypeOK
<1> QED
  BY <1>3, <1>7, <1>8, <1>9, <1>10

-----------------------------------------------------------------------------
(* The alert file *)

Lines == AllAlerts \union {Garbage}

LEMMA CountBound ==
  ASSUME NEW S, IsFiniteSet(S), NEW x, NEW T, T \subseteq S \union {x}
  PROVE  /\ Cardinality(S) \in Nat /\ Cardinality(T) \in Nat
         /\ Cardinality(T) <= Cardinality(S) + 1
         /\ T \subseteq S => Cardinality(T) <= Cardinality(S)
<1>1. /\ IsFiniteSet(S \union {x})
      /\ Cardinality(S \union {x}) <= Cardinality(S) + 1
      /\ Cardinality(S) \in Nat /\ Cardinality(S \union {x}) \in Nat
  BY FS_AddElement, FS_CardinalityType
<1>2. IsFiniteSet(T) /\ Cardinality(T) <= Cardinality(S \union {x})
  BY <1>1, FS_Subset
<1>3. Cardinality(T) \in Nat
  BY <1>2, FS_CardinalityType
<1>4. T \subseteq S => Cardinality(T) <= Cardinality(S)
  BY FS_Subset
<1> QED
  BY <1>1, <1>2, <1>3, <1>4

LEMMA TimesType ==
  ASSUME TypeOK, NEW a
  PROVE  IsFiniteSet({i \in DOMAIN file : file[i] = a}) /\ Times(a) \in Nat
BY CountOfLines DEF TypeOK, Times

\* What reaches the file: nothing is taken from it; of the alerts that were
\* written only one that goes on in half a line is lost; and no alert is added
\* but one that was to be given, and that one once.
LEMMA WrittenEffect ==
  ASSUME TypeOK, NEW n \in 0 .. Len(emitted), Written(n),
         \A i, j \in DOMAIN emitted : emitted[i] = emitted[j] => i = j
  PROVE  /\ file' \in Seq(Lines)
         /\ \A a : Line(a) => Line(a)'
         /\ \A a : \A i \in 1 .. n : a = emitted[i] => (i = 1 /\ torn) \/ Line(a)'
         /\ \A a : Line(a)' => a = Garbage \/ Line(a) \/ Pending(a)
         /\ \A a : a # Garbage =>
              /\ Times(a)' <= Times(a) + 1
              /\ ~ Pending(a) => Times(a)' <= Times(a)
<1> DEFINE w == [i \in 1 .. n |-> IF i = 1 /\ torn THEN Garbage ELSE emitted[i]]
<1>1. /\ Len(emitted) \in Nat /\ DOMAIN emitted = 1 .. Len(emitted)
      /\ n \in Nat /\ 1 .. n \subseteq DOMAIN emitted
  BY LenProperties DEF TypeOK
<1>2. w \in [1 .. n -> Lines]
  BY <1>1, ElementOfSeq DEF TypeOK, Lines
<1>3. w \in Seq(Lines)
  BY <1>1, <1>2, SeqDef
<1>4. Len(w) = n
  <2>1. DOMAIN w = 1 .. n /\ DOMAIN w = 1 .. Len(w) /\ Len(w) \in Nat
    BY <1>2, <1>3, LenProperties
  <2> HIDE DEF w
  <2> QED
    BY <1>1, <2>1
<1>5. file \in Seq(Lines) /\ Len(file) \in Nat /\ DOMAIN file = 1 .. Len(file)
  BY LenProperties DEF TypeOK, Lines
<1>6. file' = file \o w
  BY DEF Written
<1>7. \A i \in 1 .. n : w[i] = IF i = 1 /\ torn THEN Garbage ELSE emitted[i]
  OBVIOUS
<1> HIDE DEF w
<1>8. /\ file' \in Seq(Lines)
      /\ Len(file') = Len(file) + n
      /\ \A i \in 1 .. Len(file) + n :
           file'[i] = IF i <= Len(file) THEN file[i] ELSE w[i - Len(file)]
  <2>1. /\ file \o w \in Seq(Lines)
        /\ Len(file \o w) = Len(file) + Len(w)
        /\ \A i \in 1 .. Len(file) + Len(w) :
             (file \o w)[i] = IF i <= Len(file) THEN file[i] ELSE w[i - Len(file)]
    BY <1>3, <1>5, ConcatProperties
  <2> QED
    BY <1>4, <1>6, <2>1
<1>9. DOMAIN file' = 1 .. Len(file) + n
  BY <1>8, LenProperties
<1>10. \A i \in 1 .. Len(file) : i \in DOMAIN file' /\ file'[i] = file[i]
  BY <1>1, <1>5, <1>8, <1>9
<1>11. \A i \in DOMAIN file' :
         \/ i \in DOMAIN file /\ file'[i] = file[i]
         \/ /\ i - Len(file) \in 1 .. n
            /\ file'[i] \in {Garbage, emitted[i - Len(file)]}
  BY <1>1, <1>5, <1>7, <1>8, <1>9
<1>12. \A i \in 1 .. n : Len(file) + i \in DOMAIN file' /\ file'[Len(file) + i] = w[i]
  BY <1>1, <1>5, <1>8, <1>9
<1>13. ASSUME NEW a, a # Garbage
       PROVE  /\ Times(a)' <= Times(a) + 1
              /\ ~ Pending(a) => Times(a)' <= Times(a)
  <2> DEFINE S == {i \in DOMAIN file : file[i] = a}
             T == {i \in DOMAIN file' : file'[i] = a}
  <2>1. IsFiniteSet(S)
    BY TimesType
  <2>2. ~ Pending(a) => T \subseteq S
    BY <1>1, <1>11, <1>13 DEF Pending
  <2>3. ASSUME NEW k \in DOMAIN emitted, emitted[k] = a
        PROVE  T \subseteq S \union {Len(file) + k}
    <3>1. \A i \in T : i \in S \/ i - Len(file) = k
      BY <1>1, <1>11, <1>13, <2>3
    <3>2. \A i \in T : i \in Int
      BY <1>9
    <3> QED
      BY <1>1, <1>5, <3>1, <3>2
  <2>4. Times(a) = Cardinality(S) /\ Times(a)' = Cardinality(T)
    BY DEF Times
  <2> HIDE DEF S, T
  <2>5. CASE Pending(a)
    <3>1. PICK k \in DOMAIN emitted : emitted[k] = a
      BY <2>5 DEF Pending
    <3>2. Cardinality(T) <= Cardinality(S) + 1
      BY <2>1, <2>3, <3>1, CountBound
    <3> QED
      BY <2>4, <2>5, <3>2
  <2>6. CASE ~ Pending(a)
    <3>1. T \subseteq S \union {0} /\ T \subseteq S
      BY <2>2, <2>6
    <3>2. /\ Cardinality(S) \in Nat /\ Cardinality(T) \in Nat
          /\ Cardinality(T) <= Cardinality(S)
      BY <2>1, <3>1, CountBound
    <3> QED
      BY <2>4, <3>2
  <2> QED
    BY <2>5, <2>6
<1>14. \A a : Line(a) => Line(a)'
  BY <1>5, <1>10 DEF Line
<1>15. ASSUME NEW i \in 1 .. n, NEW a, a = emitted[i], ~ (i = 1 /\ torn)
       PROVE  Line(a)'
  <2>1. w[i] = a
    BY <1>7, <1>15
  <2>2. Len(file) + i \in DOMAIN file' /\ file'[Len(file) + i] = a
    BY <1>12, <2>1
  <2> QED
    BY <2>2 DEF Line
<1>16. \A a : Line(a)' => a = Garbage \/ Line(a) \/ Pending(a)
  BY <1>1, <1>11 DEF Line, Pending
<1> QED
  BY <1>8, <1>13, <1>14, <1>15, <1>16

-----------------------------------------------------------------------------
(* Steps *)

\* The steps that leave the alert file alone.
FileUntouched == Tick \/ Arrive \/ Start \/ Select \/ Save \/ QueryFails \/ SaveFails

LEMMA StepKinds ==
  ASSUME [Next]_vars
  PROVE  /\ \/ FileUntouched
            \/ AppendAlerts \/ AppendFails \/ Kill \/ UNCHANGED vars
         /\ FileUntouched \/ UNCHANGED vars => UNCHANGED fileVars
  BY DEF Next, FileUntouched, Run, Tick, Arrive, Start, Select, Save, QueryFails,
         SaveFails, vars

\* What has been remembered is not forgotten.
LEMMA HistoryGrows ==
  ASSUME TypeOK, CursorsInOrder, [Next]_vars
  PROVE  /\ oldest <= oldest' /\ oldest' \in Int
         /\ behind \subseteq behind'
         /\ dropped \subseteq dropped'
         /\ repeats <= repeats' /\ repeats' \in Nat
<1>1. now \in Int /\ oldest \in Int /\ repeats \in Nat /\ Cutoff \in Int
  BY BootstrapIsTime DEF TypeOK, Cutoff
<1> USE DEF history, Error, GoesOn, Ends
<1>2. CASE Select
  BY <1>1, <1>2 DEF Select, CursorsInOrder
<1>3. CASE AppendAlerts \/ AppendFails
  BY <1>1, <1>3 DEF AppendAlerts, AppendFails
<1>4. CASE Arrive
  BY <1>1, <1>4 DEF Arrive
<1>5. CASE Tick \/ Start \/ Save
  BY <1>1, <1>5 DEF Tick, Start, Save
<1>6. CASE QueryFails \/ SaveFails \/ Kill
  BY <1>1, <1>6 DEF QueryFails, SaveFails, Kill
<1>7. CASE UNCHANGED vars
  BY <1>1, <1>7 DEF vars
<1> QED
  BY <1>2, <1>3, <1>4, <1>5, <1>6, <1>7 DEF Next, Run

\* What an append that was cut off, or none at all, leaves.
LEMMA EmptyHanded ==
  ASSUME TypeOK
  PROVE  /\ <<>> \in Seq(AllAlerts) /\ DOMAIN <<>> = {}
         /\ Len(emitted) \in Nat /\ DOMAIN emitted = 1 .. Len(emitted)
         /\ emitted = <<>> <=> Len(emitted) = 0
         /\ \A i \in DOMAIN emitted : emitted[i] \in AllAlerts
<1>1. <<>> \in Seq(AllAlerts) /\ DOMAIN <<>> = {}
  BY EmptySeq
<1> QED
  BY <1>1, LenProperties, EmptySeq, ElementOfSeq DEF TypeOK

LEMMA GluedType ==
  ASSUME TypeOK, NEW n \in 0 .. Len(emitted)
  PROVE  Glued(n) \subseteq AllAlerts /\ Unwritten(n) \subseteq AllAlerts
  BY EmptyHanded DEF Glued, Unwritten

LEMMA TypeStep ==
  ASSUME TypeOK, GivenIsFinal, CursorsInOrder, [Next]_vars
  PROVE  TypeOK'
<1>1. Grows /\ table' \in Seq(Rows)
  BY TableGrows
<1>2. oldest' \in Int /\ repeats' \in Nat
  BY HistoryGrows
<1>3. /\ \A c : c \in Places \union {None} => c \in Places' \union {None}
      /\ \A e : e \in Seq(AllAlerts) => e \in Seq(AllAlerts)'
      /\ \A f : f \in Seq(AllAlerts \union {Garbage})
                  => f \in Seq(AllAlerts \union {Garbage})'
      /\ behind \subseteq Ids' /\ dropped \subseteq AllAlerts'
  <2>1. /\ Places \subseteq Places' /\ AllAlerts \subseteq AllAlerts'
        /\ Ids \subseteq Ids'
    BY <1>1 DEF Grows
  <2>2. AllAlerts \union {Garbage} \subseteq (AllAlerts \union {Garbage})'
    BY <2>1 DEF Garbage
  <2> QED
    BY <2>1, <2>2, SeqMonotonic DEF TypeOK
<1>4. \A n \in 0 .. Len(emitted) :
        Glued(n) \subseteq AllAlerts' /\ Unwritten(n) \subseteq AllAlerts'
  BY <1>1, GluedType DEF Grows
<1>5. emitted' \in Seq(AllAlerts)'
  <2>1. emitted' \in Seq(AllAlerts)
    <3>1. CASE Select
      BY <3>1, SelectEffect
    <3>2. CASE ~ Select
      <4>1. emitted' \in {emitted, <<>>}
        BY <3>2 DEF Next, Run, vars, Tick, Arrive, Start, AppendAlerts, Save,
                    QueryFails, AppendFails, SaveFails, Kill, Error
      <4> QED
        BY <4>1, EmptyHanded DEF TypeOK
    <3> QED
      BY <3>1, <3>2
  <2> QED
    BY <1>3, <2>1
<1>6. file' \in Seq(AllAlerts \union {Garbage})'
  <2>1. CASE UNCHANGED fileVars
    BY <1>3, <2>1 DEF fileVars, TypeOK
  <2>2. CASE \E n \in 0 .. Len(emitted) : Written(n)
    BY <1>3, <2>2, WrittenEffect DEF GivenIsFinal, Lines
  <2>3. AppendAlerts => Written(Len(emitted)) /\ Len(emitted) \in 0 .. Len(emitted)
    BY EmptyHanded DEF AppendAlerts
  <2> QED
    BY <2>1, <2>2, <2>3, StepKinds DEF AppendFails, Kill, PartlyAppended
<1>7. cursor' \in Places' \union {None} /\ saved' \in Places' \union {None}
  <2>1. CASE Select
    BY <1>3, <2>1, SelectEffect DEF TypeOK, Select
  <2>2. CASE ~ Select
    BY <1>3, <2>2 DEF Next, Run, vars, stateVars, Tick, Arrive, Start,
       AppendAlerts, Save, QueryFails, AppendFails, SaveFails, Kill, TypeOK
  <2> QED
    BY <2>1, <2>2
<1>8. Len(table') <= MaxRows
  <2>1. CASE Arrive
    <3>1. PICK t \in Traffic, m \in MinutesBegun :
            table' = Append(table, [minute |-> m, rec |-> t])
      BY <2>1 DEF Arrive
    <3>2. [minute |-> m, rec |-> t] \in Rows
      BY BridgeAssumption DEF Rows, MinutesBegun, TypeOK
    <3>3. Len(table') = Len(table) + 1
      BY <3>1, <3>2, AppendProperties DEF TypeOK
    <3> QED
      BY <2>1, <3>3, RecordParts, BridgeAssumption DEF Arrive
  <2>2. CASE ~ Arrive
    BY <2>2, TableGrows DEF TypeOK
  <2> QED
    BY <2>1, <2>2
<1>9. behind' \subseteq Ids' /\ dropped' \subseteq AllAlerts'
  <2>1. CASE Arrive
    <3>1. Len(table') \in Ids'
      <4>1. Len(table') \in Nat /\ Len(table') # 0
        <5>1. PICK t \in Traffic, m \in MinutesBegun :
                table' = Append(table, [minute |-> m, rec |-> t])
          BY <2>1 DEF Arrive
        <5>2. [minute |-> m, rec |-> t] \in Rows
          BY BridgeAssumption DEF Rows, MinutesBegun, TypeOK
        <5> QED
          BY <5>1, <5>2, AppendProperties, RecordParts DEF TypeOK
      <4> QED
        BY <4>1 DEF Ids
    <3>2. behind' \subseteq behind \union {Len(table')}
      BY <2>1 DEF Arrive
    <3> QED
      BY <1>3, <2>1, <3>1, <3>2 DEF Arrive
  <2>2. CASE AppendAlerts
    BY <1>3, <1>4, <2>2, EmptyHanded DEF AppendAlerts
  <2>3. CASE AppendFails
    <3>1. PICK n \in 0 .. Len(emitted) :
            dropped' = IF once THEN dropped ELSE dropped \union Unwritten(n) \union Glued(n)
      BY <2>3 DEF AppendFails
    <3> QED
      BY <1>3, <1>4, <2>3, <3>1 DEF AppendFails
  <2>4. CASE ~ Arrive /\ ~ AppendAlerts /\ ~ AppendFails
    BY <1>3, <2>4 DEF Next, Run, vars, history, Tick, Start, Select, Save,
       QueryFails, SaveFails, Kill
  <2> QED
    BY <2>1, <2>2, <2>3, <2>4
<1>10. now' \in 0 .. MaxNow /\ faults' \in 0 .. MaxFaults
  BY BridgeAssumption
     DEF Next, Run, vars, Tick, Arrive, Start, Select, AppendAlerts, Save,
         QueryFails, AppendFails, SaveFails, Kill, Error, TypeOK
<1>11. bpc' \in {"off", "select", "append", "save"}
  BY DEF Next, Run, vars, Tick, Arrive, Start, Select, AppendAlerts, Save,
         QueryFails, AppendFails, SaveFails, Kill, Error, GoesOn, TypeOK
<1>12. once' \in BOOLEAN
  BY DEF Next, Run, vars, Tick, Arrive, Start, Select, AppendAlerts, Save,
         QueryFails, AppendFails, SaveFails, Kill, TypeOK
<1>13. torn' \in BOOLEAN
  <2>1. CASE UNCHANGED fileVars
    BY <2>1 DEF fileVars, TypeOK
  <2>2. CASE AppendAlerts \/ AppendFails
    BY <2>2 DEF AppendAlerts, AppendFails, PartlyAppended, TypeOK
  <2>3. CASE Kill
    BY <2>3 DEF Kill, PartlyAppended, TypeOK, fileVars
  <2> QED
    BY <2>1, <2>2, <2>3, StepKinds
<1> QED
  BY <1>1, <1>2, <1>5, <1>6, <1>7, <1>8, <1>9, <1>10, <1>11, <1>12, <1>13
     DEF TypeOK

LEMMA HeldStep ==
  ASSUME NothingHeld, [Next]_vars
  PROVE  NothingHeld'
BY DEF NothingHeld, Next, Run, vars, Tick, Arrive, Start, Select, AppendAlerts,
       Save, QueryFails, AppendFails, SaveFails, Kill, Error, GoesOn

LEMMA CursorStep ==
  ASSUME TypeOK, CursorsInOrder, [Next]_vars
  PROVE  CursorsInOrder'
<1>1. saved' # None => cursor' # None /\ ~ After(saved', cursor')
  <2> SUFFICES ASSUME saved' # None
               PROVE  cursor' # None /\ ~ After(saved', cursor')
    OBVIOUS
  <2>1. cursor \in Pairs \/ cursor = None
    BY CursorType
  <2>2. saved \in Pairs \/ saved = None
    BY CursorType
  <2>3. CASE Start \/ Save
    BY <2>1, <2>2, <2>3, AfterOrder DEF Start, Save
  <2>4. CASE Select
    <3>1. saved' = saved
      BY <2>4 DEF Select
    <3>2. cursor # None /\ cursor \in Pairs /\ saved \in Pairs /\ ~ After(saved, cursor)
      BY <2>1, <2>2, <3>1 DEF CursorsInOrder
    <3>3. cursor' # None /\ ~ After(cursor, cursor')
      BY <2>4, <3>2, SelectEffect
    <3>4. cursor' \in Pairs
      BY <2>4, <3>3, SelectEffect, RecordParts DEF Places
    <3> QED
      BY <3>1, <3>2, <3>3, <3>4, AfterOrder
  <2>5. CASE ~ Start /\ ~ Save /\ ~ Select
    BY <2>5 DEF CursorsInOrder, Next, Run, vars, stateVars, Tick, Arrive, AppendAlerts,
                QueryFails, AppendFails, SaveFails, Kill
  <2> QED
    BY <2>3, <2>4, <2>5
<1>2. oldest' <= Cutoff'
  <2>1. now \in Int /\ oldest \in Int /\ Bootstrap \in Int
    BY BootstrapIsTime DEF TypeOK
  <2>2. CASE Tick
    BY <2>1, <2>2 DEF Tick, history, Cutoff, CursorsInOrder
  <2>3. CASE Select
    BY <2>1, <2>3 DEF Select, Cutoff, CursorsInOrder
  <2>4. CASE ~ Tick /\ ~ Select
    BY <2>1, <2>4 DEF CursorsInOrder, Cutoff, Next, Run, vars, history, Arrive, Start,
       AppendAlerts, Save, QueryFails, AppendFails, SaveFails, Kill, Error
  <2> QED
    BY <2>2, <2>3, <2>4
<1> QED
  BY <1>1, <1>2 DEF CursorsInOrder

\* What a step does to the alert file.
LEMMA FileStep ==
  ASSUME TypeOK, GivenIsFinal, [Next]_vars
  PROVE  /\ \A a : Line(a) => Line(a)'
         /\ \A a : Line(a)' => a = Garbage \/ Line(a) \/ Pending(a)
         /\ \A a : a # Garbage =>
              /\ Times(a)' \in Nat
              /\ Times(a)' <= Times(a) + 1
              /\ ~ Pending(a) => Times(a)' <= Times(a)
              /\ UNCHANGED file => Times(a)' = Times(a)
<1>0. /\ \A a : Times(a) \in Nat
      /\ \A a : UNCHANGED file => Times(a)' = Times(a)
  BY TimesType DEF Times
<1>1. CASE UNCHANGED fileVars
  BY <1>0, <1>1 DEF fileVars, Line
<1>2. ASSUME NEW n \in 0 .. Len(emitted), Written(n)
      PROVE  /\ \A a : Line(a) => Line(a)'
             /\ \A a : Line(a)' => a = Garbage \/ Line(a) \/ Pending(a)
             /\ \A a : a # Garbage =>
                  /\ Times(a)' <= Times(a) + 1
                  /\ ~ Pending(a) => Times(a)' <= Times(a)
  BY <1>2, WrittenEffect DEF GivenIsFinal
<1>3. \/ UNCHANGED fileVars
      \/ \E n \in 0 .. Len(emitted) : Written(n)
  <2>1. AppendAlerts => Written(Len(emitted)) /\ Len(emitted) \in 0 .. Len(emitted)
    BY EmptyHanded DEF AppendAlerts
  <2> QED
    BY <2>1, StepKinds DEF AppendFails, Kill, PartlyAppended
<1>4. \A a : Times(a)' \in Nat
  <2>1. file' \in Seq(Lines)
    <3>1. CASE UNCHANGED fileVars
      BY <3>1 DEF fileVars, Lines, TypeOK
    <3>2. CASE \E n \in 0 .. Len(emitted) : Written(n)
      BY <3>2, WrittenEffect DEF GivenIsFinal
    <3> QED
      BY <1>3, <3>1, <3>2
  <2> SUFFICES ASSUME NEW a PROVE Times(a)' \in Nat
    OBVIOUS
  <2> QED
    BY <2>1, CountOfLines DEF Times
<1> QED
  BY <1>0, <1>1, <1>2, <1>3, <1>4

\* What is about to be given changes with a selection, or goes.
LEMMA EmittedStep ==
  ASSUME NothingHeld, [Next]_vars
  PROVE  \/ Select
         \/ emitted' = <<>>
         \/ emitted' = emitted /\ cursor' = cursor
BY DEF NothingHeld, Next, Run, vars, stateVars, Tick, Arrive, Start, AppendAlerts,
       Save, QueryFails, AppendFails, SaveFails, Kill, Error

LEMMA GivenStep ==
  ASSUME TypeOK, NothingHeld, CursorsInOrder, GivenIsFinal, [Next]_vars
  PROVE  GivenIsFinal'
<1>1. Grows
  BY TableGrows
<1>2. ASSUME NEW i \in DOMAIN emitted'
      PROVE  \E r \in Ids : /\ r = emitted'[i].row /\ Final(r)
                            /\ cursor' # None /\ ~ After(Place(r), cursor')
  <2>1. CASE Select
    <3>1. \A r \in Selected : r \in Ids /\ Final(r)
      BY DEF Selected
    <3> QED
      BY <2>1, <3>1, SelectEffect
  <2>2. CASE emitted' = <<>>
    BY <2>2, EmptyHanded
  <2>3. CASE emitted' = emitted /\ cursor' = cursor
    <3>1. \A k \in DOMAIN emitted : emitted[k].row \in Ids
      BY EmptyHanded, AlertOfItsRow
    <3> QED
      BY <2>3, <3>1 DEF GivenIsFinal
  <2> QED
    BY <2>1, <2>2, <2>3, EmittedStep
<1>3. \A i, j \in DOMAIN emitted' : emitted'[i] = emitted'[j] => i = j
  BY EmittedStep, SelectEffect, EmptyHanded DEF GivenIsFinal
<1>4. ASSUME NEW i \in DOMAIN file', file'[i] # Garbage
      PROVE  \E r \in Ids : r = file'[i].row /\ Final(r)
  <2>1. PICK a : a = file'[i]
    OBVIOUS
  <2>2. Line(a)'
    BY <2>1 DEF Line
  <2>3. Line(a) \/ Pending(a)
    BY <1>4, <2>1, <2>2, FileStep
  <2>4. a \in AllAlerts
    BY <1>4, <2>1, <2>3, ElementOfSeq, LenProperties DEF TypeOK, Line, Pending
  <2>5. a.row \in Ids /\ Final(a.row)
    BY <1>4, <2>1, <2>3, <2>4, AlertOfItsRow DEF Line, Pending, GivenIsFinal
  <2> QED
    BY <2>1, <2>5
<1>5. \A r \in Ids : table'[r] = table[r]
  BY <1>1 DEF Grows
<1> QED
  BY <1>2, <1>3, <1>4, <1>5 DEF GivenIsFinal, Final, Place

\* A record that has just been stored: the cursor is not past it, in memory or
\* on disk, unless it is noted as late; and none of its alerts has been given.
LEMMA NewRecord ==
  ASSUME TypeOK, CursorsInOrder, [Next]_vars,
         NEW r \in Ids', r \notin Ids
  PROVE  /\ Arrive
         /\ Place(r)' \in Pairs
         /\ \/ r \in behind'
            \/ /\ cursor # None => After(Place(r)', cursor)
               /\ saved # None => After(Place(r)', saved)
         /\ \A a \in Alerts(r)' : a.row = r /\ ~ Line(a) /\ ~ Pending(a) /\ Times(a) = 0
<1>1. Arrive
  BY TableGrows DEF Ids
<1>2. PICK t \in Traffic, m \in MinutesBegun :
        /\ table' = Append(table, [minute |-> m, rec |-> t])
        /\ behind' = IF cursor # None /\ ~ After(<<m, t.flow>>, cursor)
                       THEN behind \union {Len(table')} ELSE behind
  BY <1>1 DEF Arrive
<1>3. [minute |-> m, rec |-> t] \in Rows
  BY BridgeAssumption DEF Rows, MinutesBegun, TypeOK
<1>4. Len(table') = Len(table) + 1 /\ table'[Len(table) + 1] = [minute |-> m, rec |-> t]
  BY <1>2, <1>3, AppendProperties DEF TypeOK
<1>5. r = Len(table')
  BY <1>4, RecordParts DEF Ids
<1>6. Place(r)' = <<m, t.flow>>
  BY <1>4, <1>5 DEF Place
<1>7. Place(r)' \in Pairs
  BY <1>6, BridgeAssumption DEF Pairs, MinutesBegun, TypeOK
<1>8. cursor # None /\ ~ After(Place(r)', cursor) => r \in behind'
  BY <1>2, <1>5, <1>6
<1>9. saved # None => /\ cursor # None
                      /\ After(Place(r)', cursor) => After(Place(r)', saved)
  <2> SUFFICES ASSUME saved # None
               PROVE  /\ cursor # None
                      /\ After(Place(r)', cursor) => After(Place(r)', saved)
    OBVIOUS
  <2>1. cursor # None /\ ~ After(saved, cursor) /\ saved \in Pairs /\ cursor \in Pairs
    BY CursorType DEF CursorsInOrder
  <2> QED
    BY <1>7, <2>1, AfterOrder
<1>10. ASSUME NEW a \in Alerts(r)'
       PROVE  a.row = r /\ ~ Line(a) /\ ~ Pending(a) /\ Times(a) = 0
  <2>1. a.row = r
    BY DEF Alerts
  <2>2. a \notin AllAlerts
    BY <2>1, AlertOfItsRow
  <2>3. r \in Nat /\ r # 0
    BY <1>4, <1>5, RecordParts
  <2>4. a # Garbage
    BY <2>1, <2>3 DEF Garbage
  <2>5. ~ Line(a) /\ ~ Pending(a)
    BY <2>2, <2>4, ElementOfSeq, LenProperties DEF TypeOK, Line, Pending
  <2>6. {i \in DOMAIN file : file[i] = a} = {}
    BY <2>5 DEF Line
  <2> QED
    BY <2>1, <2>5, <2>6, FS_EmptySet DEF Times
<1> QED
  BY <1>1, <1>7, <1>8, <1>9, <1>10

\* What the order hides stays hidden.
LEMMA DueShrinks ==
  ASSUME TypeOK, CursorsInOrder, [Next]_vars,
         NEW r \in Ids, r \in Due'
  PROVE  r \in Due
<1>1. /\ Ids \subseteq Ids'
      /\ \A s \in Ids : table'[s] = table[s] /\ Place(s)' = Place(s) /\ Final(s)' = Final(s)
  BY TableGrows DEF Grows
<1>2. oldest <= oldest' /\ oldest' \in Int /\ oldest \in Int /\ behind \subseteq behind'
  BY HistoryGrows DEF TypeOK
<1>3. table[r].minute \in Nat
  BY RecordParts
<1>4. Final(r) /\ ~ Hidden(r)'
  BY <1>1 DEF Due
<1>5. ~ Hidden(r)
  BY <1>1, <1>2, <1>3, <1>4 DEF Hidden
<1> QED
  BY <1>4, <1>5 DEF Due

\* One record and one alert of it, across a step.
Passed(r, a) ==
  /\ cursor # None /\ ~ After(Place(r), cursor) /\ bpc # "off" => Line(a) \/ Pending(a)
  /\ saved # None /\ ~ After(Place(r), saved) => Line(a)

LEMMA PassedAcross ==
  ASSUME IInv, [Next]_vars,
         NEW r \in Ids, r \in Due, r \in Due',
         NEW a \in Alerts(r), a \notin dropped', Passed(r, a)
  PROVE  /\ cursor' # None /\ ~ After(Place(r), cursor') /\ bpc' # "off"
              => Line(a)' \/ Pending(a)'
         /\ saved' # None /\ ~ After(Place(r), saved') => Line(a)'
<1>1. Line(a) => Line(a)'
  BY FileStep DEF IInv
<1>2. bpc # "append" => ~ Pending(a)
  BY EmptyHanded DEF IInv, NothingHeld, Pending
<1>3. CASE Tick \/ Arrive \/ UNCHANGED vars
  <2>1. UNCHANGED <<cursor, saved, bpc, emitted>>
    BY <1>3 DEF Tick, Arrive, vars, stateVars
  <2>2. Pending(a) => Pending(a)'
    BY <2>1 DEF Pending
  <2> QED
    BY <1>1, <2>1, <2>2 DEF Passed
<1>4. CASE Start
  BY <1>1, <1>4 DEF Start, Passed
<1>5. CASE Select
  <2>1. saved' = saved /\ bpc = "select"
    BY <1>5 DEF Select
  <2>2. ASSUME cursor' # None, ~ After(Place(r), cursor'), ~ Line(a)
        PROVE  Pending(a)'
    <3>1. cursor = None \/ After(Place(r), cursor)
      BY <1>2, <2>1, <2>2 DEF Passed
    <3>2. r \in Selected
      <4>1. Final(r) /\ ~ (table'[r].minute < oldest') /\ table'[r] = table[r]
        BY TableGrows DEF Due, Hidden, Final, Grows, IInv
      <4>2. CASE cursor = None
        <5>1. oldest' = Cutoff
          BY <1>5, <4>2 DEF Select
        <5>2. table[r].minute \in Int /\ Cutoff \in Int
          BY RecordParts, BootstrapIsTime DEF IInv, TypeOK, Cutoff
        <5> QED
          BY <4>1, <4>2, <5>1, <5>2 DEF Selected
      <4>3. CASE cursor # None
        BY <3>1, <4>1, <4>3 DEF Selected
      <4> QED
        BY <4>2, <4>3
    <3>3. ASSUME ~ After(cursor', Place(r)),
                 NEW s \in Selected, s # r, Place(s) = cursor'
          PROVE  FALSE
      <4>1. s \in Ids /\ Final(s)
        BY DEF Selected
      <4>2. Place(s) = Place(r)
        BY <2>2, <3>3, <4>1, RecordParts, AfterOrder DEF IInv
      <4>3. UNCHANGED table
        BY <1>5 DEF Select
      <4>4. Hidden(r)'
        BY <3>3, <4>1, <4>2, <4>3 DEF Hidden, Ids, Final, Place
      <4> QED
        BY <4>4 DEF Due
    <3>4. \E k \in DOMAIN emitted' : emitted'[k] = a
      BY <1>5, <3>2, <3>3, SelectEffect DEF IInv
    <3> QED
      BY <3>4 DEF Pending
  <2> QED
    BY <1>1, <2>1, <2>2 DEF Passed
<1>6. CASE AppendAlerts
  <2>1. /\ Written(Len(emitted)) /\ Len(emitted) \in 0 .. Len(emitted)
        /\ bpc = "append" /\ UNCHANGED stateVars
        /\ dropped' = dropped \union Glued(Len(emitted))
    BY <1>6, EmptyHanded DEF AppendAlerts, IInv
  <2>2. ASSUME NEW i \in DOMAIN emitted, emitted[i] = a
        PROVE  Line(a)'
    <3>1. i \in 1 .. Len(emitted)
      BY EmptyHanded DEF IInv
    <3>2. ~ (i = 1 /\ torn)
      BY <2>1, <2>2, <3>1 DEF Glued
    <3> QED
      BY <2>1, <2>2, <3>1, <3>2, WrittenEffect DEF IInv, GivenIsFinal
  <2>3. Pending(a) => Line(a)'
    BY <2>2 DEF Pending
  <2> QED
    BY <1>1, <2>1, <2>3 DEF Passed, stateVars
<1>7. CASE Save
  BY <1>1, <1>2, <1>7 DEF Save, Passed
<1>8. CASE QueryFails \/ SaveFails
  <2>1. UNCHANGED stateVars /\ bpc # "append" /\ bpc # "off"
    BY <1>8 DEF QueryFails, SaveFails
  <2> QED
    BY <1>1, <1>2, <2>1 DEF Passed, stateVars
<1>9. CASE AppendFails
  <2>1. /\ UNCHANGED stateVars /\ bpc = "append"
        /\ once => bpc' = "off"
    BY <1>9 DEF AppendFails, Error, GoesOn
  <2>2. PICK n \in 0 .. Len(emitted) :
          /\ n < Len(emitted) /\ Written(n)
          /\ ~ once => dropped' = dropped \union Unwritten(n) \union Glued(n)
    BY <1>9 DEF AppendFails, PartlyAppended
  <2>3. ASSUME ~ once, NEW i \in DOMAIN emitted, emitted[i] = a
        PROVE  Line(a)'
    <3>1. i \in 1 .. Len(emitted) /\ Len(emitted) \in Nat
      BY EmptyHanded DEF IInv
    <3>2. i \in 1 .. n
      BY <2>2, <2>3, <3>1 DEF Unwritten
    <3>3. ~ (i = 1 /\ torn)
      BY <2>2, <2>3, <3>2 DEF Glued
    <3> QED
      BY <2>2, <2>3, <3>2, <3>3, WrittenEffect DEF IInv, GivenIsFinal
  <2>4. ~ once /\ Pending(a) => Line(a)'
    BY <2>3 DEF Pending
  <2> QED
    BY <1>1, <2>1, <2>4 DEF Passed, stateVars
<1>10. CASE Kill
  BY <1>1, <1>10 DEF Kill, Passed, stateVars
<1> QED
  BY <1>3, <1>4, <1>5, <1>6, <1>7, <1>8, <1>9, <1>10 DEF Next, Run

LEMMA PassedStep ==
  ASSUME IInv, [Next]_vars
  PROVE  PassedIsAlerted'
<1> SUFFICES ASSUME NEW r \in Due', NEW a \in Alerts(r)', a \notin dropped'
             PROVE  /\ cursor' # None /\ ~ After(Place(r)', cursor') /\ bpc' # "off"
                         => Line(a)' \/ Pending(a)'
                    /\ saved' # None /\ ~ After(Place(r)', saved') => Line(a)'
  BY DEF PassedIsAlerted
<1>0. TypeOK /\ CursorsInOrder /\ r \in Ids'
  BY DEF IInv, Due
<1>1. CASE r \in Ids
  <2>1. r \in Due /\ a \in Alerts(r) /\ Place(r)' = Place(r)
    BY <1>0, <1>1, DueShrinks, TableGrows DEF Grows
  <2>2. a \notin dropped
    BY <1>0, HistoryGrows
  <2>3. Passed(r, a)
    BY <2>1, <2>2 DEF IInv, PassedIsAlerted, Passed
  <2> QED
    BY <1>1, <2>1, <2>3, PassedAcross
<1>2. CASE r \notin Ids
  <2>1. /\ Arrive
        /\ cursor # None => After(Place(r)', cursor)
        /\ saved # None => After(Place(r)', saved)
    BY <1>0, <1>2, NewRecord DEF Due, Hidden
  <2>2. UNCHANGED stateVars
    BY <2>1 DEF Arrive
  <2> QED
    BY <2>1, <2>2 DEF stateVars
<1> QED
  BY <1>1, <1>2

LEMMA AheadEarlier ==
  ASSUME IInv, [Next]_vars, NEW r \in Ids
  PROVE  /\ Select /\ Ahead(r, cursor') => Ahead(r, cursor)
         /\ Select /\ (\E k \in DOMAIN emitted' : emitted'[k].row = r) => Ahead(r, cursor)
         /\ \A a \in Alerts(r) : Pending(a) => ~ Ahead(r, cursor)
<1>1. ASSUME Select, Ahead(r, cursor'), cursor # None
      PROVE  After(Place(r), cursor)
  <2>1. cursor \in Pairs /\ Place(r) \in Pairs
    BY <1>1, CursorType, RecordParts DEF IInv
  <2>2. cursor' # None /\ ~ After(cursor, cursor')
    BY <1>1, SelectEffect DEF IInv
  <2>3. cursor' \in Pairs
    BY <1>1, <2>2, SelectEffect, RecordParts DEF IInv, Places
  <2> QED
    BY <1>1, <2>1, <2>2, <2>3, AfterOrder DEF Ahead
<1>2. ASSUME Select, NEW k \in DOMAIN emitted', emitted'[k].row = r
      PROVE  Ahead(r, cursor)
  BY <1>2, SelectEffect DEF IInv, Selected, Ahead
<1>3. \A a \in Alerts(r) : Pending(a) => ~ Ahead(r, cursor)
  BY AlertParts DEF IInv, GivenIsFinal, Pending, Ahead
<1> QED
  BY <1>1, <1>2, <1>3 DEF Ahead

LEMMA RepeatsAcross ==
  ASSUME IInv, [Next]_vars, NEW r \in Ids, NEW a \in Alerts(r)
  PROVE  /\ Times(a)' <= 1 + repeats'
         /\ Ahead(r, cursor') \/ Pending(a)' => Times(a)' <= repeats'
         /\ bpc' = "off" /\ Ahead(r, saved') => Times(a)' <= repeats'
<1>1. /\ Times(a) \in Nat /\ Times(a)' \in Nat
      /\ Times(a)' <= Times(a) + 1
      /\ ~ Pending(a) => Times(a)' <= Times(a)
      /\ UNCHANGED file => Times(a)' = Times(a)
  <2>1. a # Garbage
    BY AlertParts DEF IInv
  <2> QED
    BY <2>1, FileStep, TimesType DEF IInv
<1>2. repeats \in Nat /\ repeats' \in Nat /\ repeats <= repeats'
  BY HistoryGrows DEF IInv, TypeOK
<1>3. /\ Times(a) <= 1 + repeats
      /\ Ahead(r, cursor) \/ Pending(a) => Times(a) <= repeats
      /\ bpc = "off" /\ Ahead(r, saved) => Times(a) <= repeats
  BY DEF IInv, GivenAsRestarted
<1>4. Times(a)' <= 1 + repeats /\ Times(a)' <= 1 + repeats'
  <2>1. CASE Pending(a)
    BY <1>1, <1>2, <1>3, <2>1
  <2>2. CASE ~ Pending(a)
    BY <1>1, <1>2, <1>3, <2>2
  <2> QED
    BY <2>1, <2>2
<1>5. /\ Pending(a) => ~ Ahead(r, cursor)
      /\ Ahead(r, cursor) => Times(a)' <= repeats
  BY <1>1, <1>2, <1>3, AheadEarlier
<1>6. bpc # "append" => ~ Pending(a)
  BY EmptyHanded DEF IInv, NothingHeld, Pending
<1>7. emitted' = <<>> => ~ Pending(a)'
  BY EmptyHanded DEF IInv, Pending
<1>8. UNCHANGED emitted => Pending(a)' = Pending(a)
  BY DEF Pending
<1>9. CASE Tick \/ Arrive \/ UNCHANGED vars
  <2>1. UNCHANGED <<cursor, saved, bpc, emitted, file>>
    BY <1>9 DEF Tick, Arrive, vars, stateVars, fileVars
  <2> QED
    BY <1>1, <1>2, <1>3, <1>4, <1>8, <2>1
<1>10. CASE Start
  <2>1. /\ UNCHANGED <<file, emitted>> /\ cursor' = saved
        /\ bpc = "off" /\ bpc' = "select"
    BY <1>10 DEF Start, fileVars
  <2> QED
    BY <1>1, <1>2, <1>3, <1>4, <1>6, <1>8, <2>1
<1>11. CASE Select
  <2>1. UNCHANGED file /\ bpc' = "append"
    BY <1>11 DEF Select, fileVars
  <2>2. Pending(a)' => \E k \in DOMAIN emitted' : emitted'[k].row = r
    BY AlertParts DEF IInv, Pending
  <2>3. Ahead(r, cursor') \/ Pending(a)' => Ahead(r, cursor)
    BY <1>11, <2>2, AheadEarlier
  <2> QED
    BY <1>1, <1>2, <1>4, <1>5, <2>1, <2>3
<1>12. CASE AppendAlerts
  <2>1. emitted' = <<>> /\ UNCHANGED cursor /\ bpc' = "save"
    BY <1>12 DEF AppendAlerts, stateVars
  <2> QED
    BY <1>1, <1>2, <1>4, <1>5, <1>7, <2>1
<1>13. CASE Save
  <2>1. UNCHANGED <<emitted, file, cursor>> /\ saved' = cursor
    BY <1>13 DEF Save, fileVars
  <2> QED
    BY <1>1, <1>2, <1>3, <1>4, <1>8, <2>1
<1>14. CASE QueryFails \/ SaveFails \/ AppendFails \/ Kill
  <2>1. /\ emitted' = <<>> /\ UNCHANGED stateVars
        /\ bpc' = "off" => repeats' = IF cursor # saved THEN repeats + 1 ELSE repeats
    BY <1>14 DEF QueryFails, SaveFails, AppendFails, Kill, Error, GoesOn, Ends
  <2>2. Ahead(r, cursor') => Times(a)' <= repeats'
    BY <1>1, <1>2, <1>5, <2>1 DEF stateVars
  <2>3. bpc' = "off" /\ Ahead(r, saved') => Times(a)' <= repeats'
    <3>1. CASE cursor = saved
      BY <2>1, <2>2, <3>1 DEF stateVars
    <3>2. CASE cursor # saved
      BY <1>1, <1>2, <1>4, <2>1, <3>2
    <3> QED
      BY <3>1, <3>2
  <2> QED
    BY <1>4, <1>7, <2>1, <2>2, <2>3
<1> QED
  BY <1>9, <1>10, <1>11, <1>12, <1>13, <1>14 DEF Next, Run

LEMMA RepeatsStep ==
  ASSUME IInv, [Next]_vars
  PROVE  GivenAsRestarted'
<1>0. /\ TypeOK /\ CursorsInOrder
      /\ 0 <= repeats' /\ 0 <= 1 + repeats'
  BY HistoryGrows DEF IInv
<1> SUFFICES ASSUME NEW r \in Ids', NEW a \in Alerts(r)'
             PROVE  /\ Times(a)' <= 1 + repeats'
                    /\ Ahead(r, cursor)' \/ Pending(a)' => Times(a)' <= repeats'
                    /\ bpc' = "off" /\ Ahead(r, saved)' => Times(a)' <= repeats'
  BY DEF GivenAsRestarted
<1>1. CASE r \in Ids
  <2>1. a \in Alerts(r) /\ Place(r)' = Place(r)
    BY <1>0, <1>1, TableGrows DEF Grows
  <2>2. /\ Ahead(r, cursor)' => Ahead(r, cursor')
        /\ Ahead(r, saved)' => Ahead(r, saved')
    BY <2>1 DEF Ahead
  <2> QED
    BY <1>1, <2>1, <2>2, RepeatsAcross
<1>2. CASE r \notin Ids
  <2>1. Arrive /\ Times(a) = 0
    BY <1>0, <1>2, NewRecord
  <2>2. Times(a)' = Times(a)
    BY <2>1 DEF Arrive, fileVars, Times
  <2>3. Times(a)' = 0
    BY <2>1, <2>2
  <2> QED
    BY <1>0, <2>3, Zenon
<1> QED
  BY <1>1, <1>2

-----------------------------------------------------------------------------
(* Invariance *)

LEMMA InitHolds ==
  ASSUME Init
  PROVE  IInv
<1>1. Ids = {} /\ AllAlerts = {} /\ Len(table) = 0 /\ table \in Seq(Rows)
  <2>1. Len(table) = 0 /\ table \in Seq(Rows)
    BY EmptySeq DEF Init
  <2>2. Ids = {}
    BY <2>1 DEF Ids
  <2> QED
    BY <2>1, <2>2 DEF AllAlerts
<1>2. emitted \in Seq(AllAlerts) /\ file \in Seq(AllAlerts \union {Garbage})
  BY EmptySeq DEF Init
<1>3. DOMAIN emitted = {} /\ DOMAIN file = {}
  BY EmptySeq DEF Init
<1>4. TypeOK
  <2>1. /\ now \in 0 .. MaxNow /\ Len(table) <= MaxRows
        /\ faults \in 0 .. MaxFaults /\ oldest \in Int /\ repeats \in Nat
    BY <1>1, BootstrapIsTime, BridgeAssumption DEF Init
  <2>2. /\ bpc \in {"off", "select", "append", "save"}
        /\ once \in BOOLEAN /\ torn \in BOOLEAN
        /\ cursor \in Places \union {None} /\ saved \in Places \union {None}
        /\ behind \subseteq Ids /\ dropped \subseteq AllAlerts
    BY DEF Init
  <2> QED
    BY <1>1, <1>2, <2>1, <2>2 DEF TypeOK
<1>5. NothingHeld /\ CursorsInOrder /\ GivenIsFinal
  BY <1>3, BootstrapIsTime DEF NothingHeld, CursorsInOrder, GivenIsFinal, Init, Cutoff
<1>6. PassedIsAlerted /\ GivenAsRestarted
  BY <1>1 DEF PassedIsAlerted, GivenAsRestarted, Due
<1> QED
  BY <1>4, <1>5, <1>6 DEF IInv

LEMMA StepHolds ==
  ASSUME IInv, [Next]_vars
  PROVE  IInv'
BY TypeStep, HeldStep, CursorStep, GivenStep, PassedStep, RepeatsStep DEF IInv

\* The invariant of the bridge: what it is about to give and has given is of
\* final records that the cursor has passed.
THEOREM BridgeCorrect == Spec => []IInv
<1>1. IInv /\ [Next]_vars => IInv'
  BY StepHolds
<1> QED
  BY InitHolds, <1>1, PTL DEF Spec

\* The variables of the bridge keep to their types: a cursor is always the place
\* of a record of the table, an alert always one that a rule gives for a record.
THEOREM BridgeTypes == Spec => []TypeOK
<1>1. IInv => TypeOK
  BY DEF IInv
<1> QED
  BY BridgeCorrect, <1>1, PTL

\* Every alert of a record that the cursor has passed is in the file or about to
\* be: whatever fails, and wherever a kill falls between the move of the cursor,
\* the append and the save.
THEOREM PassedCorrect == Spec => []PassedIsAlerted
<1>1. IInv => PassedIsAlerted
  BY DEF IInv
<1> QED
  BY BridgeCorrect, <1>1, PTL

\* An alert is given once, and once more for each end of the process between the
\* move of the cursor and its save; no alert is given of a record that is not final.
THEOREM RepeatsCorrect == Spec => []RepeatsAreRestarts
<1>1. ASSUME IInv
      PROVE  RepeatsAreRestarts
  <2> SUFFICES ASSUME NEW r \in Ids, NEW a \in Alerts(r)
               PROVE  Times(a) <= 1 + repeats /\ (~ Final(r) => ~ Line(a))
    BY DEF RepeatsAreRestarts
  <2>1. a.row = r /\ a # Garbage
    BY <1>1, AlertParts DEF IInv
  <2> QED
    BY <1>1, <2>1 DEF IInv, GivenAsRestarted, GivenIsFinal, Line
<1> QED
  BY BridgeCorrect, <1>1, PTL
=============================================================================
