--------------------------- MODULE FlowTableProofs ---------------------------
(***************************************************************************)
(* Proofs about FlowTable, for every number of flows, capacity, period and  *)
(* bound.                                                                   *)
(***************************************************************************)
EXTENDS FlowTable, SequenceTheorems, TLAPS

LEMMA MinuteBounds ==
  ASSUME NEW t \in Nat
  PROVE  /\ Minute(t) \in Nat
         /\ Minute(t) <= t
         /\ t < Minute(t) + MinuteLen
  BY SizesAssumption DEF Minute

LEMMA MinuteMonotone ==
  ASSUME NEW t \in Nat, NEW u \in Nat, t <= u
  PROVE  Minute(t) <= Minute(u)
  BY SizesAssumption DEF Minute

LEMMA MinuteLater ==
  ASSUME NEW t \in Nat
  PROVE  Minute(t) < Minute(t + MinuteLen)
  BY SizesAssumption DEF Minute

-----------------------------------------------------------------------------
(* Types *)

LEMMA MinuteInMinutes ==
  ASSUME NEW t \in Nat, t <= MaxNow
  PROVE  Minute(t) \in Minutes
  BY BoundsAssumption DEF Minutes

LEMMA SlotParts ==
  ASSUME NEW s \in Slots
  PROVE  s[1] \in Flows /\ s[2] \in Minutes /\ s[2] \in Nat
<1>1. Minutes \subseteq Nat
  BY MinuteBounds, BoundsAssumption DEF Minutes
<1> QED
  BY <1>1 DEF Slots

\* Every position is live but the gap of a running compaction.
LEMMA LivePositions ==
  ASSUME TableTypes, IndexOK
  PROVE  /\ Live \subseteq 1 .. Len(entries)
         /\ Len(entries) \in Nat
         /\ \A i \in 1 .. Len(entries) : entries[i] \in Entry
         /\ pc \notin {"flush", "closing"} => Live = 1 .. Len(entries)
<1>1. \A i \in 1 .. Len(entries) : entries[i] \in Entry
  BY ElementOfSeq DEF TableTypes
<1>2. Len(entries) \in Nat
  BY LenProperties DEF TableTypes
<1> QED
  BY <1>1, <1>2 DEF TableTypes, IndexOK, Live

LEMMA HeldType ==
  ASSUME TableTypes, IndexOK, NEW s \in Slots
  PROVE  Held(s) \in Nat
<1>1. CASE \E i \in Live : entries[i].slot = s
  <2>1. PICK i \in Live : i = CHOOSE k \in Live : entries[k].slot = s
    BY <1>1
  <2>2. entries[i].packets \in Nat
    BY LivePositions DEF Entry
  <2> QED
    BY <1>1, <2>1, <2>2 DEF Held, HeldIn
<1>2. CASE ~ \E i \in Live : entries[i].slot = s
  BY <1>2 DEF Held, HeldIn
<1> QED
  BY <1>1, <1>2

LEMMA FreshType ==
  ASSUME NEW s \in Slots, NEW p \in Owners, NEW conn \in {0, 1},
         NEW named \in {0, 1}
  PROVE  /\ Fresh(s, p, conn, named) \in Entry
         /\ Fresh(s, p, conn, named).slot = s
         /\ Fresh(s, p, conn, named).packets = 1
<1>1. Classify(s[1], named) \in Classes
  BY DEF Classify, Classes
<1> QED
  BY <1>1 DEF Fresh, Entry

LEMMA MergedType ==
  ASSUME NEW e \in Entry, NEW p \in Owners, NEW conn \in {0, 1},
         NEW named \in {0, 1}
  PROVE  /\ Merged(e, p, conn, named) \in Entry
         /\ Merged(e, p, conn, named).slot = e.slot
         /\ Merged(e, p, conn, named).packets = e.packets + 1
  BY DEF Merged, Learned, Opened, Owners, Entry

LEMMA EmittedType ==
  ASSUME NEW e \in Entry, loopNow \in Nat
  PROVE  /\ Emitted(e) \in Entry
         /\ Emitted(e).slot = e.slot
         /\ Emitted(e).packets = e.packets
  BY DEF Emitted, Entry

LEMMA GrownCapType ==
  ASSUME cap \in 0 .. MaxFlows
  PROVE  GrownCap \in 0 .. MaxFlows /\ (cap # MaxFlows => GrownCap > cap)
  BY SizesAssumption DEF GrownCap

\* What flow_table_touch leaves of the array.
LEMMA TouchType ==
  ASSUME TableTypes, IndexOK, dropped \in [Slots -> Nat],
         NEW s \in Slots, NEW p \in Owners, NEW conn \in {0, 1},
         NEW named \in {0, 1}, Touch(s, p, conn, named)
  PROVE  /\ entries' \in Seq(Entry)
         /\ Len(entries') \in Nat /\ Len(entries') >= Len(entries)
         /\ cap' \in 0 .. MaxFlows
         /\ dropped' \in [Slots -> Nat]
<1>1. Len(entries) \in Nat
  BY LivePositions
<1>2. CASE Update(s, p, conn, named)
  <2>1. PICK i \in 1 .. Len(entries) :
          entries' = [entries EXCEPT ![i] = Merged(entries[i], p, conn, named)]
    BY <1>2 DEF Update
  <2>2. Merged(entries[i], p, conn, named) \in Entry
    BY MergedType, LivePositions
  <2>3. entries' \in Seq(Entry) /\ Len(entries') = Len(entries)
    BY <2>1, <2>2, ExceptSeq DEF TableTypes
  <2> QED
    BY <1>1, <1>2, <2>3 DEF Update, TableTypes
<1>3. CASE Insert(s, p, conn, named)
  <2>1. entries' \in Seq(Entry) /\ Len(entries') = Len(entries) + 1
    BY <1>3, FreshType, AppendProperties DEF Insert, TableTypes
  <2>2. cap' \in 0 .. MaxFlows
    BY <1>3, GrownCapType DEF Insert, TableTypes
  <2> QED
    BY <1>1, <1>3, <2>1, <2>2 DEF Insert
<1>4. CASE Refuse(s)
  BY <1>1, <1>4 DEF Refuse, TableTypes, tableVars
<1> QED
  BY <1>2, <1>3, <1>4 DEF Touch

LEMMA EmitFinalType ==
  ASSUME RecordTypes, NEW e \in Entry, EmitFinal(e)
  PROVE  /\ updPackets' \in [Slots -> Nat]
         /\ finals' \in [Slots -> Nat]
         /\ finPackets' \in [Slots -> Nat]
         /\ finConns' \in [Slots -> Nat]
         /\ idents' \in [Slots -> SUBSET Procs]
<1>1. e.slot \in Slots /\ e.packets \in Nat /\ Effective(e) \in Nat
  BY DEF Entry, Effective
<1>2. NamedBy(e) \subseteq Procs
  BY SetsAssumption DEF Entry, NamedBy, Owners
<1>3. idents' \in [Slots -> SUBSET Procs]
  <2>1. idents' = [idents EXCEPT ![e.slot] = @ \union NamedBy(e)]
    BY DEF EmitFinal
  <2> QED
    BY <1>1, <1>2, <2>1 DEF RecordTypes
<1>4. finals' \in [Slots -> Nat]
  <2>1. finals' = [finals EXCEPT ![e.slot] = @ + 1]
    BY DEF EmitFinal
  <2> QED
    BY <1>1, <2>1 DEF RecordTypes
<1>5. finPackets' \in [Slots -> Nat]
  <2>1. finPackets' = [finPackets EXCEPT ![e.slot] = @ + e.packets]
    BY DEF EmitFinal
  <2> QED
    BY <1>1, <2>1 DEF RecordTypes
<1>6. finConns' \in [Slots -> Nat]
  <2>1. finConns' = [finConns EXCEPT ![e.slot] = @ + Effective(e)]
    BY DEF EmitFinal
  <2> QED
    BY <1>1, <2>1 DEF RecordTypes
<1>7. updPackets' \in [Slots -> Nat]
  BY DEF EmitFinal, RecordTypes
<1> QED
  BY <1>3, <1>4, <1>5, <1>6, <1>7

LEMMA ForgetType ==
  ASSUME TypeOK, IndexOK, Forget
  PROVE  TableTypes' /\ lost' \in [Slots -> Nat] /\ Len(entries') = 0
<1>1. TableTypes' /\ Len(entries') = 0
  BY SizesAssumption, EmptySeq DEF Forget, TableTypes
<1>2. \A s \in Slots : lost[s] + Held(s) \in Nat
  BY HeldType DEF TypeOK, RecordTypes
<1>3. lost' = [s \in Slots |-> lost[s] + Held(s)]
  BY DEF Forget
<1> QED
  BY <1>1, <1>2, <1>3

LEMMA BootType ==
  ASSUME LoopTypes, Boot
  PROVE  /\ pc' \in PCs /\ stop' \in {0, 1}
         /\ loopNow' \in StartTime .. MaxNow
         /\ lastFlush' \in StartTime .. MaxNow
         /\ batch' \in 0 .. Batch /\ idx' \in Nat \ {0}
  BY SizesAssumption, BoundsAssumption DEF Boot, LoopTypes, PCs

LEMMA TypeInit == Init => TypeOK /\ IndexOK
<1> SUFFICES ASSUME Init PROVE TypeOK /\ IndexOK
  OBVIOUS
<1>1. LoopTypes
  BY SizesAssumption, BoundsAssumption DEF Init, LoopTypes, PCs
<1>2. TableTypes /\ Len(entries) = 0
  BY EmptySeq, SizesAssumption DEF Init, TableTypes
<1>3. RecordTypes
  BY DEF Init, RecordTypes
<1>4. IndexOK
  BY <1>2 DEF Init, IndexOK
<1> QED
  BY <1>1, <1>2, <1>3, <1>4 DEF TypeOK

LEMMA TypeStep == TypeOK /\ IndexOK /\ [Next]_vars => TypeOK' /\ IndexOK'
<1> SUFFICES ASSUME LoopTypes, TableTypes, RecordTypes, IndexOK, [Next]_vars
             PROVE  LoopTypes' /\ TableTypes' /\ RecordTypes' /\ IndexOK'
  BY DEF TypeOK
<1> USE DEF loopVars, tableVars, flushVars, outVars, faultVars, countVars
<1>len. Len(entries) \in Nat /\ \A i \in 1 .. Len(entries) : entries[i] \in Entry
  BY LivePositions
<1>nat. now \in Nat /\ loopNow \in Nat
  BY BoundsAssumption DEF LoopTypes
<1>1. CASE SomePacket
  <2>1. PICK f \in Flows, p \in Owners, conn \in {0, 1}, named \in Names :
          Packet(f, p, conn, named)
    BY <1>1 DEF SomePacket
  <2> DEFINE s == <<f, Minute(now)>>
  <2>2. s \in Slots
    BY <1>nat, MinuteInMinutes DEF Slots, LoopTypes
  <2>3. /\ entries' \in Seq(Entry)
        /\ Len(entries') \in Nat /\ Len(entries') >= Len(entries)
        /\ cap' \in 0 .. MaxFlows
        /\ dropped' \in [Slots -> Nat]
    BY <2>1, <2>2, TouchType, SetsAssumption DEF Packet, RecordTypes
  <2>4. seen' \in [Slots -> Nat]
    <3>1. seen' = [seen EXCEPT ![s] = @ + 1]
      BY <2>1 DEF Packet
    <3> QED
      BY <2>2, <3>1 DEF RecordTypes
  <2>5. LoopTypes'
    BY <2>1, SizesAssumption DEF Packet, LoopTypes
  <2>6. TableTypes'
    BY <2>1, <2>3 DEF Packet, TableTypes
  <2>7. RecordTypes'
    BY <2>1, <2>3, <2>4 DEF Packet, RecordTypes
  <2>8. IndexOK'
    BY <1>len, <2>1, <2>3 DEF Packet, IndexOK, TableTypes
  <2> QED
    BY <2>5, <2>6, <2>7, <2>8
<1>2. CASE StartDispatch
  <2>1. LoopTypes'
    BY <1>2 DEF StartDispatch, LoopTypes, PCs
  <2> QED
    BY <1>2, <2>1 DEF StartDispatch, TableTypes, RecordTypes, IndexOK
<1>3. CASE EndDispatch
  <2>1. LoopTypes'
    BY <1>3, SizesAssumption DEF EndDispatch, LoopTypes, PCs
  <2> QED
    BY <1>3, <2>1 DEF EndDispatch, TableTypes, RecordTypes, IndexOK
<1>4. CASE EmitEntry
  <2>1. entries[idx] \in Entry
    BY <1>len, <1>4 DEF EmitEntry, LoopTypes
  <2>2. Emitted(entries[idx]) \in Entry
    BY <1>nat, <2>1, EmittedType
  <2>3. entries' \in Seq(Entry) /\ Len(entries') = Len(entries)
    BY <1>len, <1>4, <2>2, ExceptSeq DEF EmitEntry, LoopTypes, TableTypes
  <2>4. NamedBy(entries[idx]) \subseteq Procs
    BY <2>1, SetsAssumption DEF Entry, NamedBy, Owners
  <2>5. updPackets' \in [Slots -> Nat] /\ idents' \in [Slots -> SUBSET Procs]
    <3>1. entries[idx].slot \in Slots /\ entries[idx].packets \in Nat
      BY <2>1 DEF Entry
    <3>2. CASE Due(entries[idx])
      <4>1. updPackets' = [updPackets EXCEPT
                             ![entries[idx].slot] = entries[idx].packets]
        BY <1>4, <3>2 DEF EmitEntry
      <4>2. idents' = [idents EXCEPT ![entries[idx].slot] =
                                        @ \union NamedBy(entries[idx])]
        BY <1>4, <3>2 DEF EmitEntry
      <4>3. updPackets' \in [Slots -> Nat]
        BY <3>1, <4>1 DEF RecordTypes
      <4> QED
        BY <2>4, <3>1, <4>2, <4>3 DEF RecordTypes
    <3>3. CASE ~ Due(entries[idx])
      BY <1>4, <3>3 DEF EmitEntry, RecordTypes
    <3> QED
      BY <3>2, <3>3
  <2>6. LoopTypes'
    BY <1>4 DEF EmitEntry, LoopTypes
  <2>7. RecordTypes'
    BY <1>4, <2>5 DEF EmitEntry, RecordTypes
  <2>8. TableTypes' /\ IndexOK'
    BY <1>4, <2>3 DEF EmitEntry, TableTypes, IndexOK
  <2> QED
    BY <2>6, <2>7, <2>8
<1>5. CASE EndEmit
  <2>1. Minute(loopNow) \in Nat
    BY <1>nat, MinuteBounds
  <2>2. LoopTypes'
    BY <1>5, BoundsAssumption DEF EndEmit, BeginFlush, LoopTypes, PCs
  <2>3. TableTypes' /\ IndexOK'
    BY <1>5, <2>1 DEF EndEmit, BeginFlush, TableTypes, IndexOK
  <2> QED
    BY <1>5, <2>2, <2>3 DEF EndEmit, RecordTypes
<1>6. CASE FlushEntry
  <2>1. entries[readIdx] \in Entry
    BY <1>len, <1>6 DEF FlushEntry, TableTypes
  <2>2. entries' \in Seq(Entry) /\ Len(entries') = Len(entries)
    <3>1. CASE UNCHANGED entries
      BY <3>1 DEF TableTypes
    <3>2. CASE entries' = [entries EXCEPT ![writeIdx] = entries[readIdx]]
      <4>1. writeIdx \in 1 .. Len(entries)
        BY <1>len, <1>6 DEF FlushEntry, TableTypes, IndexOK
      <4> QED
        BY <2>1, <3>2, <4>1, ExceptSeq DEF TableTypes
    <3> QED
      BY <1>6, <3>1, <3>2 DEF FlushEntry
  <2>3. /\ updPackets' \in [Slots -> Nat]
        /\ finals' \in [Slots -> Nat]
        /\ finPackets' \in [Slots -> Nat]
        /\ finConns' \in [Slots -> Nat]
        /\ idents' \in [Slots -> SUBSET Procs]
    <3>1. CASE EmitFinal(entries[readIdx])
      BY <2>1, <3>1, EmitFinalType
    <3>2. CASE UNCHANGED outVars
      BY <3>2 DEF RecordTypes
    <3> QED
      BY <1>6, <3>1, <3>2 DEF FlushEntry
  <2>4. /\ writeIdx' \in Nat \ {0} /\ readIdx' \in Nat \ {0}
        /\ writeIdx' <= readIdx' /\ readIdx' <= Len(entries) + 1
    BY <1>len, <1>6 DEF FlushEntry, TableTypes, IndexOK
  <2>5. LoopTypes'
    BY <1>6 DEF FlushEntry, LoopTypes
  <2>6. TableTypes' /\ IndexOK'
    BY <1>6, <2>2, <2>4 DEF FlushEntry, TableTypes, IndexOK
  <2>7. RecordTypes'
    BY <1>6, <2>3 DEF FlushEntry, RecordTypes
  <2> QED
    BY <2>5, <2>6, <2>7
<1>7. CASE EndFlush
  <2>1. \A i \in 1 .. writeIdx - 1 : entries[i] \in Entry
    BY <1>len DEF TableTypes, IndexOK
  <2>2. entries' \in Seq(Entry)
    BY <1>7, <2>1, SubSeqProperties DEF EndFlush, Kept, TableTypes
  <2>3. Len(entries') \in Nat
    BY <2>2, LenProperties
  <2>4. LoopTypes'
    BY <1>7, BoundsAssumption DEF EndFlush, LoopTypes, PCs
  <2>5. TableTypes' /\ IndexOK'
    BY <1>7, <2>2, <2>3 DEF EndFlush, TableTypes, IndexOK
  <2> QED
    BY <1>7, <2>4, <2>5 DEF EndFlush, RecordTypes
<1>8. CASE LeaveLoop
  <2>1. Minute(now + MinuteLen) \in Nat
    BY <1>nat, MinuteBounds, SizesAssumption
  <2>2. LoopTypes'
    BY <1>8, SizesAssumption DEF LeaveLoop, BeginFlush, LastCutoff, LoopTypes, PCs
  <2>3. TableTypes' /\ IndexOK'
    BY <1>8, <2>1 DEF LeaveLoop, BeginFlush, LastCutoff, TableTypes, IndexOK
  <2> QED
    BY <1>8, <2>2, <2>3 DEF LeaveLoop, RecordTypes
<1>9. CASE EndClosing
  <2>1. Forget
    BY <1>9 DEF EndClosing
  <2>2. TableTypes' /\ lost' \in [Slots -> Nat] /\ Len(entries') = 0
    BY <2>1, ForgetType DEF TypeOK
  <2>3. LoopTypes'
    BY <1>9 DEF EndClosing, LoopTypes, PCs
  <2>4. RecordTypes'
    BY <1>9, <2>2 DEF EndClosing, RecordTypes
  <2>5. IndexOK'
    BY <2>1, <2>2 DEF Forget, IndexOK
  <2> QED
    BY <2>2, <2>3, <2>4, <2>5
<1>10. CASE Restart
  <2>1. LoopTypes'
    BY <1>10, BootType DEF Restart, LoopTypes
  <2> QED
    BY <1>10, <2>1 DEF Restart, TableTypes, RecordTypes, IndexOK
<1>11. CASE Crash
  <2>1. Forget /\ Boot
    BY <1>11 DEF Crash
  <2>2. TableTypes' /\ lost' \in [Slots -> Nat] /\ Len(entries') = 0
    BY <2>1, ForgetType DEF TypeOK
  <2>3. LoopTypes'
    BY <1>11, <2>1, BootType DEF Crash, LoopTypes
  <2>4. RecordTypes'
    BY <1>11, <2>2 DEF Crash, RecordTypes
  <2>5. IndexOK'
    BY <2>1, <2>2 DEF Forget, IndexOK
  <2> QED
    BY <2>2, <2>3, <2>4, <2>5
<1>12. CASE Signal
  <2>1. LoopTypes'
    BY <1>12 DEF Signal, LoopTypes
  <2> QED
    BY <1>12, <2>1 DEF Signal, TableTypes, RecordTypes, IndexOK
<1>13. CASE Tick
  <2>1. LoopTypes'
    BY <1>13, BoundsAssumption DEF Tick, timeless, LoopTypes
  <2> QED
    BY <1>13, <2>1 DEF Tick, timeless, TableTypes, RecordTypes, IndexOK
<1>14. CASE StepBack
  <2>1. LoopTypes'
    BY <1>14, BoundsAssumption DEF StepBack, timeless, LoopTypes
  <2> QED
    BY <1>14, <2>1 DEF StepBack, timeless, TableTypes, RecordTypes, IndexOK
<1>15. CASE UNCHANGED vars
  <2>1. LoopTypes'
    BY <1>15 DEF vars, LoopTypes
  <2> QED
    BY <1>15, <2>1 DEF vars, TableTypes, RecordTypes, IndexOK
<1> QED
  BY <1>1, <1>2, <1>3, <1>4, <1>5, <1>6, <1>7, <1>8, <1>9, <1>10, <1>11,
     <1>12, <1>13, <1>14, <1>15 DEF Next

\* The table, the loop's positions in it and the records it emits stay well
\* typed: above all the in-place compaction of flow_table_flush_older_than
\* stays inside the array and never writes ahead of what it has read.
THEOREM TypeCorrect == Spec => [](TypeOK /\ IndexOK)
<1>1. Init => TypeOK /\ IndexOK
  BY TypeInit
<1>2. TypeOK /\ IndexOK /\ [Next]_vars => TypeOK' /\ IndexOK'
  BY TypeStep
<1> QED
  BY <1>1, <1>2, PTL DEF Spec

-----------------------------------------------------------------------------
(* What the table holds for a slot *)

LEMMA HeldAt ==
  ASSUME NEW a, NEW L, NEW i \in L, UniqueIn(a, L)
  PROVE  HeldIn(a, L, a[i].slot) = a[i].packets
<1>1. PICK k \in L : k = CHOOSE j \in L : a[j].slot = a[i].slot
  OBVIOUS
<1>2. a[k].slot = a[i].slot
  BY <1>1
<1>3. k = i
  BY <1>2 DEF UniqueIn
<1> QED
  BY <1>1, <1>3 DEF HeldIn

LEMMA HeldNowhere ==
  ASSUME NEW a, NEW L, NEW s, \A i \in L : a[i].slot # s
  PROVE  HeldIn(a, L, s) = 0
  BY DEF HeldIn

\* Two arrays hold the same for a slot when each has it where the other has.
LEMMA HeldTransfer ==
  ASSUME NEW a, NEW L, NEW b, NEW M, NEW s, UniqueIn(b, M), UniqueIn(a, L),
         \A i \in L : a[i].slot = s =>
           \E j \in M : b[j].slot = s /\ b[j].packets = a[i].packets,
         \A j \in M : b[j].slot = s => \E i \in L : a[i].slot = s
  PROVE  HeldIn(b, M, s) = HeldIn(a, L, s)
<1>1. CASE \E i \in L : a[i].slot = s
  <2>1. PICK i \in L : a[i].slot = s
    BY <1>1
  <2>2. PICK j \in M : b[j].slot = s /\ b[j].packets = a[i].packets
    BY <2>1
  <2>3. HeldIn(a, L, s) = a[i].packets
    BY <2>1, HeldAt
  <2>4. HeldIn(b, M, s) = b[j].packets
    BY <2>2, HeldAt
  <2> QED
    BY <2>2, <2>3, <2>4
<1>2. CASE ~ \E i \in L : a[i].slot = s
  <2>1. HeldIn(a, L, s) = 0
    BY <1>2, HeldNowhere
  <2>2. \A j \in M : b[j].slot # s
    BY <1>2
  <2>3. HeldIn(b, M, s) = 0
    BY <2>2, HeldNowhere
  <2> QED
    BY <2>1, <2>3
<1> QED
  BY <1>1, <1>2

\* A step that leaves the array and its live positions alone.
LEMMA TableUntouched ==
  ASSUME UniqueSlots, UNCHANGED <<entries, readIdx, writeIdx>>
  PROVE  UniqueSlots' /\ \A s \in Slots : Held(s)' = Held(s)
  BY DEF UniqueSlots, Live, Held

LEMMA UpdateEffect ==
  ASSUME TableTypes, IndexOK, UniqueSlots, Live = 1 .. Len(entries),
         NEW s \in Slots, NEW p \in Owners, NEW conn \in {0, 1},
         NEW named \in {0, 1}, Update(s, p, conn, named),
         UNCHANGED <<readIdx, writeIdx>>
  PROVE  /\ UniqueSlots'
         /\ Held(s)' = Held(s) + 1
         /\ \A r \in Slots \ {s} : Held(r)' = Held(r)
<1>1. PICK i \in 1 .. Len(entries) :
        /\ entries[i].slot = s
        /\ entries' = [entries EXCEPT ![i] = Merged(entries[i], p, conn, named)]
  BY DEF Update
<1>2. /\ Len(entries) \in Nat
      /\ \A j \in 1 .. Len(entries) : entries[j] \in Entry
  BY LivePositions
<1>3. /\ Merged(entries[i], p, conn, named) \in Entry
      /\ Merged(entries[i], p, conn, named).slot = s
      /\ Merged(entries[i], p, conn, named).packets = entries[i].packets + 1
  BY <1>1, <1>2, MergedType
<1>4. /\ Len(entries') = Len(entries)
      /\ \A j \in 1 .. Len(entries) :
           entries'[j] = IF j = i THEN Merged(entries[i], p, conn, named)
                                  ELSE entries[j]
  BY <1>1, <1>3, ExceptSeq DEF TableTypes
<1>5. Live' = Live
  BY <1>4 DEF Live
<1>6. UniqueIn(entries', Live')
  BY <1>1, <1>3, <1>4, <1>5 DEF UniqueSlots, UniqueIn
<1>7. HeldIn(entries', Live', s) = HeldIn(entries, Live, s) + 1
  <2>1. HeldIn(entries, Live, s) = entries[i].packets
    BY <1>1, HeldAt DEF UniqueSlots
  <2>2. i \in Live' /\ entries'[i].slot = s
    BY <1>1, <1>3, <1>4, <1>5
  <2>3. HeldIn(entries', Live', entries'[i].slot) = entries'[i].packets
    BY <1>6, <2>2, HeldAt
  <2> QED
    BY <1>2, <1>3, <1>4, <2>1, <2>2, <2>3
<1>8. ASSUME NEW r \in Slots \ {s}
      PROVE  HeldIn(entries', Live', r) = HeldIn(entries, Live, r)
  <2>1. \A j \in Live : entries[j].slot = r =>
          entries'[j].slot = r /\ entries'[j].packets = entries[j].packets
    BY <1>1, <1>4
  <2>2. \A j \in Live' : entries'[j].slot = r => entries[j].slot = r
    BY <1>1, <1>3, <1>4, <1>5
  <2> QED
    BY <1>5, <1>6, <2>1, <2>2, HeldTransfer DEF UniqueSlots
<1> QED
  BY <1>6, <1>7, <1>8 DEF UniqueSlots, Held

LEMMA InsertEffect ==
  ASSUME TableTypes, IndexOK, UniqueSlots, readIdx = 1,
         NEW s \in Slots, NEW p \in Owners, NEW conn \in {0, 1},
         NEW named \in {0, 1}, Insert(s, p, conn, named),
         UNCHANGED <<readIdx, writeIdx>>
  PROVE  /\ UniqueSlots'
         /\ Held(s) = 0 /\ Held(s)' = 1
         /\ \A r \in Slots \ {s} : Held(r)' = Held(r)
<1> DEFINE e == Fresh(s, p, conn, named)
<1>1. e \in Entry /\ e.slot = s /\ e.packets = 1
  BY FreshType
<1>2. /\ Len(entries) \in Nat
      /\ \A j \in 1 .. Len(entries) : entries[j].slot # s
      /\ entries' = Append(entries, e)
  BY LivePositions DEF Insert, Known
<1>3. /\ Len(entries') = Len(entries) + 1
      /\ \A j \in 1 .. Len(entries) : entries'[j] = entries[j]
      /\ entries'[Len(entries) + 1] = e
  BY <1>1, <1>2, AppendProperties DEF TableTypes
<1>4. Live = 1 .. Len(entries) /\ Live' = 1 .. Len(entries) + 1
  BY <1>2, <1>3 DEF Live
<1> HIDE DEF e
<1>5. UniqueIn(entries', Live')
  BY <1>1, <1>2, <1>3, <1>4 DEF UniqueSlots, UniqueIn
<1>6. HeldIn(entries, Live, s) = 0
  BY <1>2, <1>4, HeldNowhere
<1>7. HeldIn(entries', Live', s) = 1
  <2> DEFINE k == Len(entries) + 1
  <2>1. k \in Live' /\ entries'[k] = e
    BY <1>2, <1>3, <1>4
  <2>2. HeldIn(entries', Live', entries'[k].slot) = entries'[k].packets
    BY <1>5, <2>1, HeldAt
  <2> QED
    BY <1>1, <2>1, <2>2
<1>8. ASSUME NEW r \in Slots \ {s}
      PROVE  HeldIn(entries', Live', r) = HeldIn(entries, Live, r)
  <2>1. \A j \in Live : /\ j \in Live'
                        /\ entries'[j] = entries[j]
    BY <1>2, <1>3, <1>4
  <2>2. \A j \in Live' : entries'[j].slot = r =>
                           j \in Live /\ entries[j].slot = r
    BY <1>1, <1>2, <1>3, <1>4
  <2> QED
    BY <1>5, <2>1, <2>2, HeldTransfer DEF UniqueSlots
<1> QED
  BY <1>5, <1>6, <1>7, <1>8 DEF UniqueSlots, Held

LEMMA EmitEffect ==
  ASSUME TypeOK, IndexOK, UniqueSlots, EmitEntry
  PROVE  /\ UniqueSlots'
         /\ \A s \in Slots : Held(s)' = Held(s)
         /\ entries[idx] \in Entry
         /\ Held(entries[idx].slot) = entries[idx].packets
<1>1. /\ Len(entries) \in Nat
      /\ \A j \in 1 .. Len(entries) : entries[j] \in Entry
      /\ Live = 1 .. Len(entries)
  BY LivePositions DEF TypeOK, EmitEntry
<1>2. idx \in 1 .. Len(entries) /\ loopNow \in Nat
  BY <1>1, BoundsAssumption DEF TypeOK, LoopTypes, EmitEntry
<1>3. /\ Emitted(entries[idx]) \in Entry
      /\ Emitted(entries[idx]).slot = entries[idx].slot
      /\ Emitted(entries[idx]).packets = entries[idx].packets
  BY <1>1, <1>2, EmittedType
<1>4. /\ Len(entries') = Len(entries)
      /\ \A j \in 1 .. Len(entries) :
           /\ entries'[j].slot = entries[j].slot
           /\ entries'[j].packets = entries[j].packets
  <2>1. CASE UNCHANGED entries
    BY <2>1
  <2>2. CASE entries' = [entries EXCEPT ![idx] = Emitted(entries[idx])]
    <3>1. /\ Len(entries') = Len(entries)
          /\ \A j \in 1 .. Len(entries) :
               entries'[j] = IF j = idx THEN Emitted(entries[idx])
                                        ELSE entries[j]
      BY <1>2, <1>3, <2>2, ExceptSeq DEF TypeOK, TableTypes
    <3> QED
      BY <1>3, <3>1
  <2> QED
    BY <2>1, <2>2 DEF EmitEntry
<1>5. Live' = Live
  BY <1>4 DEF EmitEntry, Live, flushVars
<1>6. UniqueIn(entries', Live')
  BY <1>1, <1>4, <1>5 DEF UniqueSlots, UniqueIn
<1>7. ASSUME NEW s \in Slots
      PROVE  HeldIn(entries', Live', s) = HeldIn(entries, Live, s)
  BY <1>1, <1>4, <1>5, <1>6, HeldTransfer DEF UniqueSlots
<1>8. HeldIn(entries, Live, entries[idx].slot) = entries[idx].packets
  BY <1>1, <1>2, HeldAt DEF UniqueSlots
<1> QED
  BY <1>1, <1>2, <1>6, <1>7, <1>8 DEF UniqueSlots, Held

\* An old entry is emitted: its position leaves the live ones.
LEMMA FinalEffect ==
  ASSUME TypeOK, IndexOK, UniqueSlots, readIdx <= Len(entries),
         readIdx' = readIdx + 1, UNCHANGED <<entries, writeIdx>>
  PROVE  /\ UniqueSlots'
         /\ entries[readIdx] \in Entry
         /\ Held(entries[readIdx].slot) = entries[readIdx].packets
         /\ \A s \in Slots :
              Held(s)' = IF s = entries[readIdx].slot THEN 0 ELSE Held(s)
<1> DEFINE e == entries[readIdx]
<1>1. /\ Len(entries) \in Nat
      /\ \A j \in 1 .. Len(entries) : entries[j] \in Entry
      /\ Live \subseteq 1 .. Len(entries)
  BY LivePositions DEF TypeOK
<1>2. readIdx \in Live /\ Live' = Live \ {readIdx}
  BY <1>1 DEF TypeOK, TableTypes, IndexOK, Live
<1>3. \A j \in Live' : entries[j].slot # e.slot
  BY <1>2 DEF UniqueSlots, UniqueIn
<1>4. UniqueIn(entries', Live')
  BY <1>2 DEF UniqueSlots, UniqueIn
<1>5. HeldIn(entries, Live, e.slot) = e.packets
  BY <1>2, HeldAt DEF UniqueSlots
<1>6. HeldIn(entries', Live', e.slot) = 0
  BY <1>3, HeldNowhere
<1>7. ASSUME NEW s \in Slots \ {e.slot}
      PROVE  HeldIn(entries', Live', s) = HeldIn(entries, Live, s)
  BY <1>2, <1>4, HeldTransfer DEF UniqueSlots
<1> QED
  BY <1>1, <1>2, <1>4, <1>5, <1>6, <1>7 DEF UniqueSlots, Held

\* A newer entry slides to the front: the same slots stay live.
LEMMA SlideEffect ==
  ASSUME TypeOK, IndexOK, UniqueSlots, readIdx <= Len(entries),
         entries' = [entries EXCEPT ![writeIdx] = entries[readIdx]],
         readIdx' = readIdx + 1, writeIdx' = writeIdx + 1
  PROVE  UniqueSlots' /\ \A s \in Slots : Held(s)' = Held(s)
<1>1. /\ Len(entries) \in Nat
      /\ \A j \in 1 .. Len(entries) : entries[j] \in Entry
  BY LivePositions DEF TypeOK
<1>2. /\ readIdx \in 1 .. Len(entries) /\ writeIdx \in 1 .. Len(entries)
      /\ writeIdx <= readIdx
  BY <1>1 DEF TypeOK, TableTypes, IndexOK
<1>3. /\ Len(entries') = Len(entries)
      /\ \A j \in 1 .. Len(entries) :
           entries'[j] = IF j = writeIdx THEN entries[readIdx] ELSE entries[j]
  BY <1>1, <1>2, ExceptSeq DEF TypeOK, TableTypes
<1>4. Live' = (Live \ {readIdx}) \union {writeIdx}
  BY <1>1, <1>2, <1>3 DEF Live
<1>5. readIdx \in Live /\ (writeIdx \in Live => writeIdx = readIdx)
  BY <1>1, <1>2 DEF Live
<1>6. \A j \in Live \ {readIdx} : j # writeIdx /\ j \in 1 .. Len(entries)
  BY <1>5 DEF Live
<1>7. UniqueIn(entries', Live')
  BY <1>2, <1>3, <1>4, <1>5, <1>6 DEF UniqueSlots, UniqueIn
<1>8. ASSUME NEW s \in Slots
      PROVE  HeldIn(entries', Live', s) = HeldIn(entries, Live, s)
  <2> DEFINE b == entries'
             M == Live'
  <2>1. \A i \in Live : \E j \in M : b[j] = entries[i]
    BY <1>2, <1>3, <1>4, <1>6
  <2>2. \A j \in M : \E i \in Live : b[j] = entries[i]
    BY <1>2, <1>3, <1>4, <1>5, <1>6
  <2>3. UniqueIn(b, M) /\ UniqueIn(entries, Live)
    BY <1>7 DEF UniqueSlots
  <2> HIDE DEF b, M
  <2>4. \A i \in Live : entries[i].slot = s =>
          \E j \in M : b[j].slot = s /\ b[j].packets = entries[i].packets
    BY <2>1
  <2>5. \A j \in M : b[j].slot = s => \E i \in Live : entries[i].slot = s
    BY <2>2
  <2>6. HeldIn(b, M, s) = HeldIn(entries, Live, s)
    BY <2>3, <2>4, <2>5, HeldTransfer
  <2> QED
    BY <2>6 DEF b, M
<1> QED
  BY <1>7, <1>8 DEF UniqueSlots, Held

\* The array is cut behind the entries that were kept.
LEMMA CutEffect ==
  ASSUME TypeOK, IndexOK, UniqueSlots, EndFlush
  PROVE  UniqueSlots' /\ \A s \in Slots : Held(s)' = Held(s)
<1>1. /\ Len(entries) \in Nat
      /\ \A j \in 1 .. Len(entries) : entries[j] \in Entry
  BY LivePositions DEF TypeOK
<1>2. Live = 1 .. writeIdx - 1 /\ writeIdx - 1 \in Nat
  BY <1>1 DEF TypeOK, TableTypes, IndexOK, EndFlush, Live
<1>3. \A j \in 1 .. writeIdx - 1 : entries[j] \in Entry
  BY <1>1, <1>2 DEF Live
<1>4. /\ Len(entries') = writeIdx - 1
      /\ \A j \in 1 .. writeIdx - 1 : entries'[j] = entries[j]
  BY <1>2, <1>3, SubSeqProperties DEF EndFlush, Kept
<1>5. Live' = Live
  BY <1>2, <1>4 DEF EndFlush, Live
<1>6. UniqueIn(entries', Live')
  BY <1>2, <1>4, <1>5 DEF UniqueSlots, UniqueIn
<1>7. ASSUME NEW s \in Slots
      PROVE  HeldIn(entries', Live', s) = HeldIn(entries, Live, s)
  BY <1>2, <1>4, <1>5, <1>6, HeldTransfer DEF UniqueSlots
<1> QED
  BY <1>6, <1>7 DEF UniqueSlots, Held

LEMMA ForgetEffect ==
  ASSUME Forget
  PROVE  UniqueSlots' /\ \A s \in Slots : Held(s)' = 0
<1>1. Live' = {}
  BY DEF Forget, Live
<1>2. UniqueIn(entries', Live')
  BY <1>1 DEF UniqueIn
<1>3. ASSUME NEW s \in Slots
      PROVE  HeldIn(entries', Live', s) = 0
  BY <1>1, HeldNowhere
<1> QED
  BY <1>2, <1>3 DEF UniqueSlots, Held

\* The steps that move no packet.
Quiet ==
  \/ StartDispatch \/ EndDispatch \/ EmitEntry \/ EndEmit \/ EndFlush
  \/ LeaveLoop \/ Restart \/ Signal \/ Tick \/ StepBack \/ UNCHANGED vars

LEMMA QuietEffect ==
  ASSUME TypeOK, IndexOK, UniqueSlots, Quiet
  PROVE  UniqueSlots' /\ \A s \in Slots : Held(s)' = Held(s)
<1>1. CASE EmitEntry
  BY <1>1, EmitEffect
<1>2. CASE EndFlush
  BY <1>2, CutEffect
<1>3. CASE ~ EmitEntry /\ ~ EndFlush
  <2>1. UNCHANGED <<entries, readIdx, writeIdx>>
    BY <1>3
       DEF Quiet, StartDispatch, EndDispatch, EndEmit, BeginFlush, LeaveLoop,
           Restart, Signal, Tick, StepBack, vars, timeless, tableVars, flushVars
  <2> QED
    BY <2>1, TableUntouched
<1> QED
  BY <1>1, <1>2, <1>3

\* A captured packet is counted, or turned away when nothing is held for it.
LEMMA PacketEffect ==
  ASSUME TypeOK, IndexOK, UniqueSlots,
         NEW f \in Flows, NEW p \in Owners, NEW conn \in {0, 1},
         NEW named \in Names, Packet(f, p, conn, named),
         NEW s \in Slots, s = <<f, Minute(now)>>
  PROVE  /\ UniqueSlots'
         /\ \A r \in Slots \ {s} : Held(r)' = Held(r)
         /\ \/ Held(s)' = Held(s) + 1 /\ dropped' = dropped
            \/ /\ Held(s) = 0 /\ Held(s)' = 0
               /\ dropped' = [dropped EXCEPT ![s] = @ + 1]
<1>1. /\ TableTypes
      /\ UNCHANGED <<readIdx, writeIdx>>
      /\ readIdx = 1
      /\ Touch(s, p, conn, named)
      /\ named \in {0, 1}
  BY SetsAssumption DEF TypeOK, Packet, IndexOK, flushVars
<1>2. Live = 1 .. Len(entries)
  BY LivePositions DEF TypeOK, Packet
<1>3. CASE Update(s, p, conn, named)
  BY <1>1, <1>2, <1>3, UpdateEffect DEF Update
<1>4. CASE Insert(s, p, conn, named)
  BY <1>1, <1>4, InsertEffect DEF Insert
<1>5. CASE Refuse(s)
  <2>1. UniqueSlots' /\ \A r \in Slots : Held(r)' = Held(r)
    BY <1>1, <1>5, TableUntouched DEF Refuse, tableVars
  <2>2. HeldIn(entries, Live, s) = 0
    BY <1>2, <1>5, HeldNowhere DEF Refuse, Known
  <2> QED
    BY <1>5, <2>1, <2>2 DEF Refuse, Held
<1> QED
  BY <1>1, <1>3, <1>4, <1>5 DEF Touch

\* One turn of the flush loop closes the slot it reads, or keeps its count.
LEMMA FlushEffect ==
  ASSUME TypeOK, IndexOK, UniqueSlots, FlushEntry
  PROVE  /\ UniqueSlots'
         /\ entries[readIdx] \in Entry
         /\ Held(entries[readIdx].slot) = entries[readIdx].packets
         /\ \/ /\ Old(entries[readIdx])
               /\ writeIdx' = writeIdx
               /\ EmitFinal(entries[readIdx])
               /\ \A s \in Slots :
                    Held(s)' = IF s = entries[readIdx].slot THEN 0 ELSE Held(s)
            \/ /\ ~ Old(entries[readIdx])
               /\ UNCHANGED outVars
               /\ \A s \in Slots : Held(s)' = Held(s)
<1>1. /\ Len(entries) \in Nat
      /\ \A j \in 1 .. Len(entries) : entries[j] \in Entry
  BY LivePositions DEF TypeOK
<1>2. /\ readIdx <= Len(entries) /\ readIdx' = readIdx + 1
      /\ readIdx \in 1 .. Len(entries)
  BY <1>1 DEF FlushEntry, TypeOK, TableTypes
<1>3. readIdx \in Live
  BY <1>2 DEF Live
<1>4. Held(entries[readIdx].slot) = entries[readIdx].packets
  BY <1>3, HeldAt DEF UniqueSlots, Held
<1>5. CASE /\ Old(entries[readIdx])
           /\ EmitFinal(entries[readIdx])
           /\ UNCHANGED <<entries, writeIdx>>
  BY <1>1, <1>2, <1>4, <1>5, FinalEffect
<1>6. CASE /\ ~ Old(entries[readIdx])
           /\ entries' = [entries EXCEPT ![writeIdx] = entries[readIdx]]
           /\ writeIdx' = writeIdx + 1
           /\ UNCHANGED outVars
  <2>1. UniqueSlots' /\ \A s \in Slots : Held(s)' = Held(s)
    BY <1>2, <1>6, SlideEffect
  <2> QED
    BY <1>1, <1>2, <1>4, <1>6, <2>1
<1> QED
  BY <1>5, <1>6 DEF FlushEntry

\* Which steps there are, by what they do to the counts.
LEMMA StepKinds ==
  ASSUME [Next]_vars
  PROVE  Quiet \/ SomePacket \/ FlushEntry \/ EndClosing \/ Crash
  BY DEF Next, Quiet

LEMMA UniqueStep ==
  ASSUME TypeOK, IndexOK, UniqueSlots, [Next]_vars
  PROVE  UniqueSlots'
<1>1. CASE Quiet
  BY <1>1, QuietEffect
<1>2. CASE SomePacket
  <2>1. PICK f \in Flows, p \in Owners, conn \in {0, 1}, named \in Names :
          Packet(f, p, conn, named)
    BY <1>2 DEF SomePacket
  <2>2. <<f, Minute(now)>> \in Slots
    BY MinuteInMinutes, BoundsAssumption DEF Slots, TypeOK, LoopTypes
  <2> QED
    BY <2>1, <2>2, PacketEffect
<1>3. CASE FlushEntry
  BY <1>3, FlushEffect
<1>4. CASE EndClosing \/ Crash
  BY <1>4, ForgetEffect DEF EndClosing, Crash
<1> QED
  BY <1>1, <1>2, <1>3, <1>4, StepKinds

-----------------------------------------------------------------------------
(* The invariant *)

LEMMA BoundsStep ==
  ASSUME TypeOK, BoundsKept, [Next]_vars
  PROVE  BoundsKept'
<1> USE DEF faultVars, BoundsKept
<1>1. CASE LeaveLoop \/ Signal \/ StepBack
  BY <1>1, BoundsAssumption
     DEF LeaveLoop, Signal, StepBack, timeless, TypeOK, LoopTypes
<1>2. CASE Restart \/ Crash
  BY <1>2 DEF Restart, Crash, Boot
<1>3. CASE SomePacket
  BY <1>3 DEF SomePacket, Packet
<1>4. CASE StartDispatch \/ EndDispatch \/ EmitEntry \/ EndEmit
  BY <1>4 DEF StartDispatch, EndDispatch, EmitEntry, EndEmit
<1>5. CASE FlushEntry \/ EndFlush \/ EndClosing \/ Tick \/ UNCHANGED vars
  BY <1>5 DEF FlushEntry, EndFlush, EndClosing, Tick, timeless, vars
<1> QED
  BY <1>1, <1>2, <1>3, <1>4, <1>5 DEF Next

\* Only the flush loop emits final records.
LEMMA FinalsFrame ==
  ASSUME [Next]_vars, ~ FlushEntry
  PROVE  finals' = finals
<1> USE DEF outVars
<1>1. CASE SomePacket
  BY <1>1 DEF SomePacket, Packet
<1>2. CASE StartDispatch \/ EndDispatch \/ EmitEntry \/ EndEmit \/ EndFlush
  BY <1>2 DEF StartDispatch, EndDispatch, EmitEntry, EndEmit, EndFlush
<1>3. CASE LeaveLoop \/ EndClosing \/ Restart \/ Crash \/ Signal
  BY <1>3 DEF LeaveLoop, EndClosing, Restart, Crash, Signal
<1>4. CASE Tick \/ StepBack \/ UNCHANGED vars
  BY <1>4 DEF Tick, StepBack, timeless, vars
<1> QED
  BY <1>1, <1>2, <1>3, <1>4 DEF Next

\* The fault counters never go down, and a clock that was never set back has
\* not gone back.
LEMMA FaultsGrow ==
  ASSUME TypeOK, [Next]_vars
  PROVE  /\ stepBacks' >= stepBacks /\ exits' >= exits /\ crashes' >= crashes
         /\ stepBacks' = 0 => stepBacks = 0 /\ now' >= now
         /\ exits' = 0 => exits = 0
         /\ crashes' = 0 => crashes = 0
<1> USE DEF TypeOK, LoopTypes, faultVars
<1>1. CASE Tick \/ StepBack
  BY <1>1, BoundsAssumption DEF Tick, StepBack, timeless
<1>2. CASE LeaveLoop \/ Crash \/ Restart
  BY <1>2, BoundsAssumption DEF LeaveLoop, Crash, Restart
<1>3. CASE SomePacket
  BY <1>3, BoundsAssumption DEF SomePacket, Packet
<1>4. CASE StartDispatch \/ EndDispatch \/ EmitEntry \/ EndEmit
  BY <1>4, BoundsAssumption DEF StartDispatch, EndDispatch, EmitEntry, EndEmit
<1>5. CASE FlushEntry \/ EndFlush \/ EndClosing \/ Signal \/ UNCHANGED vars
  BY <1>5, BoundsAssumption DEF FlushEntry, EndFlush, EndClosing, Signal, vars
<1> QED
  BY <1>1, <1>2, <1>3, <1>4, <1>5 DEF Next

\* The part of ClosedInPast that is about the loop's own variables.
LEMMA LoopInPast ==
  ASSUME TypeOK, IndexOK, ClosedInPast, [Next]_vars, stepBacks' = 0,
         exits' = 0
  PROVE  /\ pc' \notin {"closing", "done"}
         /\ loopNow' <= now'
         /\ pc' = "flush" => cutoff' <= Minute(now)
         /\ Minute(now) <= Minute(now') /\ Minute(now) \in Nat
         /\ Minute(now') \in Nat
<1>1. /\ stepBacks = 0 /\ exits = 0 /\ now' >= now
  BY FaultsGrow DEF TypeOK, LoopTypes
<1>2. /\ pc \notin {"closing", "done"}
      /\ loopNow <= now
      /\ pc = "flush" => cutoff <= Minute(now)
  BY <1>1 DEF ClosedInPast
<1>3. now \in Nat /\ loopNow \in Nat /\ StartTime <= now /\ now' \in Nat
  <2>1. now \in Nat /\ loopNow \in Nat /\ StartTime <= now
    BY BoundsAssumption DEF TypeOK, LoopTypes
  <2>2. now' \in Nat
    BY TypeStep, BoundsAssumption DEF TypeOK, LoopTypes
  <2> QED
    BY <2>1, <2>2
<1>4. Minute(now) <= Minute(now') /\ Minute(now) \in Nat /\ Minute(now') \in Nat
  BY <1>1, <1>3, MinuteMonotone, MinuteBounds
<1>5. Minute(loopNow) <= Minute(now)
  BY <1>2, <1>3, MinuteMonotone
<1> USE DEF loopVars, flushVars, faultVars
<1>6. CASE SomePacket
  BY <1>1, <1>2, <1>4, <1>6 DEF SomePacket, Packet
<1>7. CASE StartDispatch \/ EndDispatch \/ EmitEntry
  BY <1>1, <1>2, <1>3, <1>4, <1>7 DEF StartDispatch, EndDispatch, EmitEntry
<1>8. CASE EndEmit
  BY <1>2, <1>3, <1>4, <1>5, <1>8, BoundsAssumption
     DEF EndEmit, BeginFlush
<1>9. CASE FlushEntry \/ EndFlush \/ Signal \/ UNCHANGED vars
  BY <1>2, <1>3, <1>4, <1>9, BoundsAssumption
     DEF FlushEntry, EndFlush, Signal, vars
<1>10. CASE LeaveLoop
  BY <1>10, BoundsAssumption DEF LeaveLoop, TypeOK, LoopTypes
<1>11. CASE EndClosing \/ Restart
  BY <1>2, <1>11 DEF EndClosing, Restart
<1>12. CASE Crash
  BY <1>3, <1>4, <1>12 DEF Crash, Boot
<1>13. CASE Tick \/ StepBack
  BY <1>1, <1>2, <1>3, <1>4, <1>13 DEF Tick, StepBack, timeless
<1> QED
  BY <1>6, <1>7, <1>8, <1>9, <1>10, <1>11, <1>12, <1>13 DEF Next

LEMMA ClosedStep ==
  ASSUME TypeOK, IndexOK, UniqueSlots, ClosedInPast, SingleFinal, [Next]_vars
  PROVE  ClosedInPast' /\ SingleFinal'
<1>loop. stepBacks' = 0 /\ exits' = 0 =>
           /\ pc' \notin {"closing", "done"}
           /\ loopNow' <= now'
           /\ pc' = "flush" => cutoff' <= Minute(now')
  <2>1. cutoff' \in Nat
    BY TypeStep DEF TypeOK, TableTypes
  <2> QED
    BY <2>1, LoopInPast
<1> SUFFICES ASSUME stepBacks' = 0, exits' = 0
             PROVE  \A s \in Slots :
                      /\ finals'[s] > 0 => s[2] < Minute(now') /\ Held(s)' = 0
                      /\ finals'[s] <= 1
  BY <1>loop DEF ClosedInPast, SingleFinal, Minute
<1>0. /\ stepBacks = 0 /\ exits = 0
      /\ Minute(now) <= Minute(now')
      /\ Minute(now) \in Nat /\ Minute(now') \in Nat
  BY FaultsGrow, LoopInPast
<1>1. \A s \in Slots : /\ finals[s] \in Nat /\ finals[s] <= 1 /\ s[2] \in Nat
                       /\ finals[s] > 0 => s[2] < Minute(now) /\ Held(s) = 0
  BY <1>0, SlotParts DEF ClosedInPast, SingleFinal, TypeOK, RecordTypes
<1>2. CASE Quiet
  <2>1. finals' = finals
    BY <1>2, FinalsFrame DEF Quiet, FlushEntry, StartDispatch, EndDispatch,
       EmitEntry, EndEmit, EndFlush, LeaveLoop, Restart, Signal, Tick, StepBack,
       vars, outVars, timeless
  <2>2. \A s \in Slots : Held(s)' = Held(s)
    BY <1>2, QuietEffect
  <2> QED
    BY <1>0, <1>1, <2>1, <2>2
<1>3. CASE SomePacket
  <2>1. PICK f \in Flows, p \in Owners, conn \in {0, 1}, named \in Names :
          Packet(f, p, conn, named)
    BY <1>3 DEF SomePacket
  <2> DEFINE t == <<f, Minute(now)>>
  <2>2. t \in Slots
    BY MinuteInMinutes, BoundsAssumption DEF Slots, TypeOK, LoopTypes
  <2>3. \A r \in Slots \ {t} : Held(r)' = Held(r)
    BY <2>1, <2>2, PacketEffect
  <2>4. finals' = finals
    BY <2>1 DEF Packet, outVars
  <2>5. ~ finals[t] > 0
    BY <1>1, <2>2, <1>0
  <2> QED
    BY <1>0, <1>1, <2>3, <2>4, <2>5
<1>4. CASE FlushEntry
  <2> DEFINE e == entries[readIdx]
  <2>1. /\ e \in Entry
        /\ Held(e.slot) = e.packets
        /\ \/ /\ Old(e)
              /\ EmitFinal(e)
              /\ \A s \in Slots :
                   Held(s)' = IF s = e.slot THEN 0 ELSE Held(s)
           \/ /\ UNCHANGED outVars
              /\ \A s \in Slots : Held(s)' = Held(s)
    BY <1>4, FlushEffect
  <2>2. e.slot \in Slots /\ e.packets \in Nat \ {0}
    BY <2>1 DEF Entry
  <2>3. cutoff <= Minute(now) /\ cutoff \in Nat
    BY <1>0, <1>4 DEF FlushEntry, ClosedInPast, TypeOK, TableTypes
  <2>4. CASE UNCHANGED outVars /\ \A s \in Slots : Held(s)' = Held(s)
    BY <1>0, <1>1, <2>4 DEF outVars
  <2>5. CASE /\ Old(e)
             /\ EmitFinal(e)
             /\ \A s \in Slots : Held(s)' = IF s = e.slot THEN 0 ELSE Held(s)
    <3> HIDE DEF e
    <3>1. finals' = [finals EXCEPT ![e.slot] = @ + 1]
      BY <2>5 DEF EmitFinal
    <3>2. \A s \in Slots :
            finals'[s] = IF s = e.slot THEN finals[s] + 1 ELSE finals[s]
      BY <2>2, <3>1 DEF TypeOK, RecordTypes
    <3>3. finals[e.slot] = 0
      BY <1>1, <2>1, <2>2
    <3>4. e.slot[2] < Minute(now')
      BY <1>0, <1>1, <2>2, <2>3, <2>5 DEF Old
    <3> QED
      BY <1>0, <1>1, <2>5, <3>2, <3>3, <3>4
  <2> QED
    BY <2>1, <2>4, <2>5
<1>5. CASE EndClosing \/ Crash
  <2>1. finals' = finals
    BY <1>5 DEF EndClosing, Crash, outVars
  <2>2. \A s \in Slots : Held(s)' = 0
    BY <1>5, ForgetEffect DEF EndClosing, Crash
  <2> QED
    BY <1>0, <1>1, <2>1, <2>2
<1> QED
  BY <1>2, <1>3, <1>4, <1>5, StepKinds

\* The part of NoFutureEntry that is about the loop's own variables: leaving
\* it starts a flush up to the minute after this one.
LEMMA ClosingAhead ==
  ASSUME TypeOK, IndexOK, NoFutureEntry, [Next]_vars, stepBacks' = 0,
         ~ FlushEntry, pc' = "closing"
  PROVE  /\ writeIdx' = 1
         /\ \/ pc = "closing" /\ cutoff' = cutoff
            \/ cutoff' = Minute(now + MinuteLen)
<1>1. stepBacks = 0
  BY FaultsGrow
<1>2. pc = "closing" => writeIdx = 1
  BY <1>1 DEF NoFutureEntry
<1>3. readIdx = 1 => writeIdx = 1
  BY DEF IndexOK, TypeOK, TableTypes
<1> USE DEF loopVars, flushVars, faultVars
<1>4. CASE SomePacket \/ StartDispatch \/ EndDispatch \/ EmitEntry
  BY <1>4 DEF SomePacket, Packet, StartDispatch, EndDispatch, EmitEntry
<1>5. CASE EndEmit \/ EndFlush \/ EndClosing \/ Restart \/ Crash
  BY <1>5 DEF EndEmit, BeginFlush, EndFlush, EndClosing, Restart, Crash, Boot
<1>6. CASE LeaveLoop
  BY <1>3, <1>6 DEF LeaveLoop, BeginFlush, LastCutoff, IndexOK
<1>7. CASE Signal \/ Tick \/ StepBack \/ UNCHANGED vars
  BY <1>2, <1>7 DEF Signal, Tick, StepBack, timeless, vars
<1> QED
  BY <1>4, <1>5, <1>6, <1>7 DEF Next

LEMMA NoFutureStep ==
  ASSUME TypeOK, IndexOK, UniqueSlots, NoFutureEntry, [Next]_vars
  PROVE  NoFutureEntry'
<1> SUFFICES ASSUME stepBacks' = 0
             PROVE  /\ \A s \in Slots : Held(s)' > 0 => s[2] <= Minute(now')
                    /\ pc' = "closing" => /\ writeIdx' = 1
                                          /\ \A s \in Slots :
                                               Held(s)' > 0 => s[2] < cutoff'
  BY DEF NoFutureEntry, Minute
<1>1. stepBacks = 0 /\ now' >= now
  BY FaultsGrow
<1>2. now \in Nat /\ now' \in Nat
  BY TypeStep, BoundsAssumption DEF TypeOK, LoopTypes
<1>3. /\ Minute(now) <= Minute(now')
      /\ Minute(now) < Minute(now + MinuteLen)
      /\ Minute(now) \in Nat /\ Minute(now') \in Nat
      /\ Minute(now + MinuteLen) \in Nat
  BY <1>1, <1>2, MinuteMonotone, MinuteLater, MinuteBounds, SizesAssumption
<1>4. \A s \in Slots :
        /\ s[2] \in Nat /\ Held(s) \in Nat
        /\ Held(s) > 0 => s[2] <= Minute(now)
        /\ pc = "closing" /\ Held(s) > 0 => s[2] < cutoff
  BY <1>1, SlotParts, HeldType DEF NoFutureEntry, TypeOK
<1>5. cutoff \in Nat
  BY DEF TypeOK, TableTypes
<1>6. CASE Quiet /\ ~ FlushEntry
  <2>1. \A s \in Slots : Held(s)' = Held(s)
    BY <1>6, QuietEffect
  <2>2. \A s \in Slots : Held(s)' > 0 => s[2] <= Minute(now')
    BY <1>3, <1>4, <2>1
  <2>3. ASSUME pc' = "closing"
        PROVE  writeIdx' = 1 /\ \A s \in Slots : Held(s)' > 0 => s[2] < cutoff'
    BY <1>3, <1>4, <1>5, <1>6, <2>1, <2>3, ClosingAhead
  <2> QED
    BY <2>2, <2>3
<1>7. CASE SomePacket
  <2>1. PICK f \in Flows, p \in Owners, conn \in {0, 1}, named \in Names :
          Packet(f, p, conn, named)
    BY <1>7 DEF SomePacket
  <2> DEFINE t == <<f, Minute(now)>>
  <2>2. t \in Slots /\ t[2] = Minute(now)
    BY MinuteInMinutes, BoundsAssumption DEF Slots, TypeOK, LoopTypes
  <2>3. \A r \in Slots \ {t} : Held(r)' = Held(r)
    BY <2>1, <2>2, PacketEffect
  <2>4. pc' # "closing"
    BY <2>1 DEF Packet
  <2> HIDE DEF t
  <2> QED
    BY <1>3, <1>4, <2>2, <2>3, <2>4
<1>8. CASE FlushEntry
  <2> DEFINE e == entries[readIdx]
  <2>1. /\ e \in Entry
        /\ Held(e.slot) = e.packets
        /\ \/ /\ Old(e)
              /\ writeIdx' = writeIdx
              /\ \A s \in Slots :
                   Held(s)' = IF s = e.slot THEN 0 ELSE Held(s)
           \/ /\ ~ Old(e)
              /\ \A s \in Slots : Held(s)' = Held(s)
    BY <1>8, FlushEffect
  <2>2. e.slot \in Slots /\ e.packets \in Nat \ {0}
    BY <2>1 DEF Entry
  <2>3. pc' = pc /\ cutoff' = cutoff /\ now' = now
    BY <1>8 DEF FlushEntry, loopVars
  <2>4. \A s \in Slots : Held(s)' > 0 => Held(s) > 0
    BY <2>1
  <2>5. pc = "closing" => Old(e)
    BY <1>4, <1>5, <2>1, <2>2 DEF Old
  <2>6. pc = "closing" => writeIdx = 1
    BY <1>1 DEF NoFutureEntry
  <2> HIDE DEF e
  <2> QED
    BY <1>4, <2>1, <2>3, <2>4, <2>5, <2>6
<1>9. CASE EndClosing \/ Crash
  <2>1. \A s \in Slots : Held(s)' = 0
    BY <1>9, ForgetEffect DEF EndClosing, Crash
  <2>2. pc' # "closing"
    BY <1>9 DEF EndClosing, Crash, Boot
  <2> QED
    BY <2>1, <2>2
<1> QED
  BY <1>6, <1>7, <1>8, <1>9, StepKinds

LEMMA NothingLostStep ==
  ASSUME TypeOK, IndexOK, NoFutureEntry, NothingLostOnExit, [Next]_vars
  PROVE  NothingLostOnExit'
<1> SUFFICES ASSUME stepBacks' = 0, crashes' = 0
             PROVE  \A s \in Slots : lost'[s] = 0
  BY DEF NothingLostOnExit
<1>1. stepBacks = 0 /\ crashes = 0 /\ \A s \in Slots : lost[s] = 0
  BY FaultsGrow DEF NothingLostOnExit
<1>2. CASE EndClosing
  <2>1. writeIdx = 1 /\ readIdx > Len(entries)
    BY <1>1, <1>2 DEF EndClosing, NoFutureEntry
  <2>2. Live = {}
    BY <2>1, LivePositions DEF Live, TypeOK, TableTypes
  <2>3. \A s \in Slots : Held(s) = 0
    BY <2>2, HeldNowhere DEF Held
  <2>4. lost' = [s \in Slots |-> lost[s] + Held(s)]
    BY <1>2 DEF EndClosing, Forget
  <2> QED
    BY <1>1, <2>3, <2>4
<1>3. CASE Crash
  BY <1>3 DEF Crash, TypeOK, LoopTypes
<1>4. CASE ~ EndClosing /\ ~ Crash
  <2>1. lost' = lost
    BY <1>4
       DEF Next, vars, SomePacket, Packet, StartDispatch, EndDispatch,
           EmitEntry, EndEmit, FlushEntry, EndFlush, LeaveLoop, Restart,
           Signal, Tick, StepBack, timeless
  <2> QED
    BY <1>1, <2>1
<1> QED
  BY <1>2, <1>3, <1>4

LEMMA InvInit == Init => IInv
<1> SUFFICES ASSUME Init PROVE IInv
  OBVIOUS
<1>1. TypeOK /\ IndexOK
  BY TypeInit
<1>2. Live = {}
  BY DEF Init, Live
<1>3. UniqueSlots
  BY <1>2 DEF UniqueSlots, UniqueIn
<1>4. \A s \in Slots : finals[s] = 0 /\ lost[s] = 0 /\ Held(s) = 0
  BY <1>2, HeldNowhere DEF Init, Held
<1>5. BoundsKept /\ SingleFinal /\ ClosedInPast /\ NothingLostOnExit
  BY <1>4, BoundsAssumption
     DEF Init, BoundsKept, SingleFinal, ClosedInPast, NothingLostOnExit
<1>6. NoFutureEntry
  BY <1>4 DEF Init, NoFutureEntry
<1> QED
  BY <1>1, <1>3, <1>5, <1>6 DEF IInv

LEMMA InvStep == IInv /\ [Next]_vars => IInv'
  BY TypeStep, UniqueStep, BoundsStep, ClosedStep, NoFutureStep, NothingLostStep
     DEF IInv

LEMMA InvCorrect == Spec => []IInv
<1>1. Init => IInv
  BY InvInit
<1>2. IInv /\ [Next]_vars => IInv'
  BY InvStep
<1> QED
  BY <1>1, <1>2, PTL DEF Spec

\* Each minute and flow has one entry at all times, half way through the
\* in-place compaction included.
THEOREM UniqueCorrect == Spec => []UniqueSlots
<1>1. IInv => UniqueSlots
  BY DEF IInv
<1> QED
  BY <1>1, InvCorrect, PTL

\* On a forward clock and without a graceful exit, one final record per minute
\* and flow, whatever is killed and restarted.
THEOREM SingleFinalCorrect == Spec => []SingleFinal
<1>1. IInv => SingleFinal
  BY DEF IInv
<1> QED
  BY <1>1, InvCorrect, PTL

\* On a forward clock and without a kill, stopping the agent loses no count.
THEOREM NothingLostCorrect == Spec => []NothingLostOnExit
<1>1. IInv => NothingLostOnExit
  BY DEF IInv
<1> QED
  BY <1>1, InvCorrect, PTL

-----------------------------------------------------------------------------
(* The ledger *)

LEMMA QuietImplements ==
  ASSUME IInv, Quiet
  PROVE  (\E s \in Slots : Ledger!Publish(s)) \/ UNCHANGED Ledger!ledgerVars
<1>1. \A s \in Slots : Held(s)' = Held(s)
  BY QuietEffect DEF IInv
<1>2. HeldBySlot' = HeldBySlot
  BY <1>1 DEF HeldBySlot
<1>3. CASE EmitEntry /\ Due(entries[idx])
  <2> DEFINE e == entries[idx]
  <2>1. e \in Entry /\ Held(e.slot) = e.packets
    BY <1>3, EmitEffect DEF IInv
  <2>2. e.slot \in Slots /\ e.packets \in Nat \ {0}
    BY <2>1 DEF Entry
  <2>3. HeldBySlot[e.slot] = e.packets
    BY <2>1, <2>2 DEF HeldBySlot
  <2>4. updPackets' = [updPackets EXCEPT ![e.slot] = e.packets]
    BY <1>3 DEF EmitEntry
  <2>5. UNCHANGED <<seen, dropped, lost, finals, finPackets>>
    BY <1>3 DEF EmitEntry, countVars
  <2>6. Ledger!Publish(e.slot)
    BY <1>2, <2>2, <2>3, <2>4, <2>5 DEF Ledger!Publish
  <2> QED
    BY <2>2, <2>6
<1>4. CASE ~ (EmitEntry /\ Due(entries[idx]))
  <2>1. UNCHANGED <<seen, dropped, lost, updPackets, finals, finPackets>>
    BY <1>4
       DEF Quiet, StartDispatch, EndDispatch, EmitEntry, EndEmit, EndFlush,
           LeaveLoop, Restart, Signal, Tick, StepBack, timeless, vars, outVars,
           countVars
  <2> QED
    BY <1>2, <2>1 DEF Ledger!ledgerVars
<1> QED
  BY <1>3, <1>4

LEMMA PacketImplements ==
  ASSUME IInv, SomePacket
  PROVE  \E s \in Slots : Ledger!Count(s) \/ Ledger!TurnAway(s)
<1>1. PICK f \in Flows, p \in Owners, conn \in {0, 1}, named \in Names :
        Packet(f, p, conn, named)
  BY DEF SomePacket
<1>min. now \in Nat /\ Minute(now) \in Minutes
  BY MinuteInMinutes, BoundsAssumption DEF IInv, TypeOK, LoopTypes
<1>2. PICK s \in Slots : s = <<f, Minute(now)>>
  BY <1>min DEF Slots
<1>3. /\ \A r \in Slots \ {s} : Held(r)' = Held(r)
      /\ \/ Held(s)' = Held(s) + 1 /\ dropped' = dropped
         \/ /\ Held(s) = 0 /\ Held(s)' = 0
            /\ dropped' = [dropped EXCEPT ![s] = @ + 1]
  BY <1>1, <1>2, PacketEffect DEF IInv
<1>4. /\ seen' = [seen EXCEPT ![s] = @ + 1]
      /\ UNCHANGED <<lost, updPackets, finals, finPackets>>
  BY <1>1, <1>2 DEF Packet, outVars
<1>5. Ledger!MayCount(s)
  <2>1. CASE MaxExits = 0 /\ MaxStepBacks = 0
    <3>1. stepBacks = 0 /\ exits = 0
      BY <2>1 DEF IInv, BoundsKept
    <3>2. finals[s] > 0 => s[2] < Minute(now)
      BY <3>1 DEF IInv, ClosedInPast
    <3>3. s[2] = Minute(now) /\ Minute(now) \in Nat /\ finals[s] \in Nat
      BY <1>min, <1>2, MinuteBounds DEF IInv, TypeOK, RecordTypes
    <3> QED
      BY <3>2, <3>3 DEF Ledger!MayCount, MayReopen
  <2>2. CASE MaxExits > 0 \/ MaxStepBacks > 0
    BY <2>2 DEF Ledger!MayCount, MayReopen
  <2> QED
    BY <2>1, <2>2, BoundsAssumption
<1>6. CASE Held(s)' = Held(s) + 1 /\ dropped' = dropped
  <2>1. HeldBySlot' = [HeldBySlot EXCEPT ![s] = @ + 1]
    BY <1>3, <1>6 DEF HeldBySlot
  <2> QED
    BY <1>4, <1>5, <1>6, <2>1 DEF Ledger!Count
<1>7. CASE /\ Held(s) = 0 /\ Held(s)' = 0
           /\ dropped' = [dropped EXCEPT ![s] = @ + 1]
  <2>1. HeldBySlot' = HeldBySlot
    BY <1>3, <1>7 DEF HeldBySlot
  <2>2. HeldBySlot[s] = 0
    BY <1>7 DEF HeldBySlot
  <2> QED
    BY <1>4, <1>5, <1>7, <2>1, <2>2 DEF Ledger!TurnAway
<1> QED
  BY <1>3, <1>6, <1>7

LEMMA FlushImplements ==
  ASSUME IInv, FlushEntry
  PROVE  (\E s \in Slots : Ledger!Close(s)) \/ UNCHANGED Ledger!ledgerVars
<1> DEFINE e == entries[readIdx]
<1>1. /\ e \in Entry
      /\ Held(e.slot) = e.packets
      /\ \/ /\ EmitFinal(e)
            /\ \A s \in Slots : Held(s)' = IF s = e.slot THEN 0 ELSE Held(s)
         \/ /\ UNCHANGED outVars
            /\ \A s \in Slots : Held(s)' = Held(s)
  BY FlushEffect DEF IInv
<1>2. e.slot \in Slots /\ e.packets \in Nat \ {0}
  BY <1>1 DEF Entry
<1>3. HeldBySlot[e.slot] = e.packets
  BY <1>1, <1>2 DEF HeldBySlot
<1>4. UNCHANGED <<seen, dropped, lost>>
  BY DEF FlushEntry, countVars
<1> HIDE DEF e
<1>5. CASE /\ EmitFinal(e)
           /\ \A s \in Slots : Held(s)' = IF s = e.slot THEN 0 ELSE Held(s)
  <2>1. HeldBySlot' = [HeldBySlot EXCEPT ![e.slot] = 0]
    BY <1>2, <1>5 DEF HeldBySlot
  <2>2. Ledger!Close(e.slot)
    BY <1>2, <1>3, <1>4, <1>5, <2>1 DEF EmitFinal, Ledger!Close
  <2> QED
    BY <1>2, <2>2
<1>6. CASE UNCHANGED outVars /\ \A s \in Slots : Held(s)' = Held(s)
  <2>1. HeldBySlot' = HeldBySlot
    BY <1>6 DEF HeldBySlot
  <2> QED
    BY <1>4, <1>6, <2>1 DEF outVars, Ledger!ledgerVars
<1> QED
  BY <1>1, <1>5, <1>6

LEMMA ForgetImplements ==
  ASSUME IInv, EndClosing \/ Crash
  PROVE  Ledger!Lose
<1>1. /\ Forget
      /\ UNCHANGED <<seen, dropped, updPackets, finals, finPackets>>
  BY DEF EndClosing, Crash, countVars, outVars
<1>2. \A s \in Slots : Held(s)' = 0
  BY <1>1, ForgetEffect
<1>3. HeldBySlot' = [s \in Slots |-> 0]
  BY <1>2 DEF HeldBySlot
<1>4. lost' = [s \in Slots |-> lost[s] + HeldBySlot[s]]
  BY <1>1 DEF Forget, HeldBySlot
<1> QED
  BY <1>1, <1>3, <1>4 DEF Ledger!Lose

\* Every step of the table and the process is a step of the ledger, or none.
LEMMA LedgerStep ==
  ASSUME IInv, [Next]_vars
  PROVE  [Ledger!LedgerNext]_(Ledger!ledgerVars)
<1>1. CASE Quiet
  BY <1>1, QuietImplements DEF Ledger!LedgerNext
<1>2. CASE SomePacket
  BY <1>2, PacketImplements DEF Ledger!LedgerNext
<1>3. CASE FlushEntry
  BY <1>3, FlushImplements DEF Ledger!LedgerNext
<1>4. CASE EndClosing \/ Crash
  BY <1>4, ForgetImplements DEF Ledger!LedgerNext
<1> QED
  BY <1>1, <1>2, <1>3, <1>4, StepKinds

LEMMA LedgerInit == Init => Ledger!LedgerInit
<1> SUFFICES ASSUME Init PROVE Ledger!LedgerInit
  OBVIOUS
<1>1. \A s \in Slots : Held(s) = 0
  BY HeldNowhere DEF Init, Live, Held
<1>2. HeldBySlot = [s \in Slots |-> 0]
  BY <1>1 DEF HeldBySlot
<1> QED
  BY <1>2 DEF Init, Ledger!LedgerInit

\* The array, its scans, its compaction and the process's life implement the
\* ledger: a slot is reopened only by a graceful exit or a clock set back, and
\* a final record reports everything that was held.
THEOREM LedgerCorrect == Spec => ImplementsLedger
<1>1. Init => Ledger!LedgerInit
  BY LedgerInit
<1>2. IInv /\ [Next]_vars => [Ledger!LedgerNext]_(Ledger!ledgerVars)
  BY LedgerStep
<1> QED
  BY <1>1, <1>2, InvCorrect, PTL DEF Spec, ImplementsLedger, Ledger!LedgerSpec

\* Conservation follows from the ledger alone, step by step.
LEMMA ConservationStep ==
  ASSUME IInv, Conservation, UpdatesBounded, [Next]_vars
  PROVE  Conservation' /\ UpdatesBounded'
<1>1. /\ seen \in [Slots -> Nat] /\ dropped \in [Slots -> Nat]
      /\ lost \in [Slots -> Nat] /\ finPackets \in [Slots -> Nat]
      /\ updPackets \in [Slots -> Nat] /\ finals \in [Slots -> Nat]
  BY DEF IInv, TypeOK, RecordTypes
<1>2. HeldBySlot \in [Slots -> Nat]
  BY HeldType DEF HeldBySlot, IInv, TypeOK
<1>3. \A s \in Slots :
        /\ seen[s] = HeldBySlot[s] + finPackets[s] + dropped[s] + lost[s]
        /\ updPackets[s] <= finPackets[s] + HeldBySlot[s] + lost[s]
  BY DEF Conservation, UpdatesBounded, HeldBySlot
<1> SUFFICES ASSUME NEW s \in Slots
             PROVE  /\ seen'[s] = HeldBySlot'[s] + finPackets'[s] + dropped'[s]
                                    + lost'[s]
                    /\ updPackets'[s] <= finPackets'[s] + HeldBySlot'[s]
                                           + lost'[s]
  BY DEF Conservation, UpdatesBounded, HeldBySlot
<1>4. ASSUME NEW r \in Slots, Ledger!Count(r)
      PROVE  /\ seen'[s] = HeldBySlot'[s] + finPackets'[s] + dropped'[s]
                             + lost'[s]
             /\ updPackets'[s] <= finPackets'[s] + HeldBySlot'[s] + lost'[s]
  BY <1>1, <1>2, <1>3, <1>4 DEF Ledger!Count
<1>5. ASSUME NEW r \in Slots, Ledger!TurnAway(r)
      PROVE  /\ seen'[s] = HeldBySlot'[s] + finPackets'[s] + dropped'[s]
                             + lost'[s]
             /\ updPackets'[s] <= finPackets'[s] + HeldBySlot'[s] + lost'[s]
  BY <1>1, <1>2, <1>3, <1>5 DEF Ledger!TurnAway
<1>6. ASSUME NEW r \in Slots, Ledger!Publish(r)
      PROVE  /\ seen'[s] = HeldBySlot'[s] + finPackets'[s] + dropped'[s]
                             + lost'[s]
             /\ updPackets'[s] <= finPackets'[s] + HeldBySlot'[s] + lost'[s]
  BY <1>1, <1>2, <1>3, <1>6 DEF Ledger!Publish
<1>7. ASSUME NEW r \in Slots, Ledger!Close(r)
      PROVE  /\ seen'[s] = HeldBySlot'[s] + finPackets'[s] + dropped'[s]
                             + lost'[s]
             /\ updPackets'[s] <= finPackets'[s] + HeldBySlot'[s] + lost'[s]
  BY <1>1, <1>2, <1>3, <1>7 DEF Ledger!Close
<1>8. CASE Ledger!Lose
  BY <1>1, <1>2, <1>3, <1>8 DEF Ledger!Lose
<1>9. CASE UNCHANGED Ledger!ledgerVars
  BY <1>3, <1>9 DEF Ledger!ledgerVars
<1> QED
  BY LedgerStep, <1>4, <1>5, <1>6, <1>7, <1>8, <1>9 DEF Ledger!LedgerNext

LEMMA ConservationInit == Init => Conservation /\ UpdatesBounded
<1> SUFFICES ASSUME Init PROVE Conservation /\ UpdatesBounded
  OBVIOUS
<1>1. \A s \in Slots : Held(s) = 0
  BY HeldNowhere DEF Init, Live, Held
<1> QED
  BY <1>1 DEF Init, Conservation, UpdatesBounded

\* No packet is counted twice or mislaid, in any interleaving of counting,
\* streaming, compaction, exit, kill and clock step.
THEOREM ConservationCorrect == Spec => []Conservation
<1>1. Init => Conservation /\ UpdatesBounded
  BY ConservationInit
<1>2. /\ IInv /\ Conservation /\ UpdatesBounded /\ [Next]_vars
      => Conservation' /\ UpdatesBounded'
  BY ConservationStep
<1> QED
  BY <1>1, <1>2, InvCorrect, PTL DEF Spec

\* The latest update of a slot never reports more than is finally reported,
\* still held, or lost in a kill.
THEOREM UpdatesCorrect == Spec => []UpdatesBounded
<1>1. Init => Conservation /\ UpdatesBounded
  BY ConservationInit
<1>2. /\ IInv /\ Conservation /\ UpdatesBounded /\ [Next]_vars
      => Conservation' /\ UpdatesBounded'
  BY ConservationStep
<1> QED
  BY <1>1, <1>2, InvCorrect, PTL DEF Spec

\* On a forward clock and without a graceful exit, no packet is counted to a
\* slot after its final record.
THEOREM FinalIsLastCorrect == Spec => FinalIsLast
<1>1. IInv /\ [Next]_vars =>
        [stepBacks = 0 /\ exits = 0 =>
           \A s \in Slots : finals[s] > 0 => seen'[s] = seen[s]]_vars
  <2> SUFFICES ASSUME IInv, [Next]_vars, stepBacks = 0, exits = 0,
                      NEW s \in Slots, finals[s] > 0
               PROVE  seen'[s] = seen[s]
    OBVIOUS
  <2>1. CASE SomePacket
    <3>1. PICK f \in Flows, p \in Owners, conn \in {0, 1}, named \in Names :
            Packet(f, p, conn, named)
      BY <2>1 DEF SomePacket
    <3>2. s[2] < Minute(now)
      BY DEF IInv, ClosedInPast
    <3>3. Minute(now) \in Nat
      BY MinuteBounds, BoundsAssumption DEF IInv, TypeOK, LoopTypes
    <3>4. s # <<f, Minute(now)>>
      BY <3>2, <3>3
    <3>5. seen' = [seen EXCEPT ![<<f, Minute(now)>>] = @ + 1]
      BY <3>1 DEF Packet
    <3> QED
      BY <3>4, <3>5 DEF IInv, TypeOK, RecordTypes
  <2>2. CASE ~ SomePacket
    BY <2>2
       DEF Next, vars, countVars, timeless, StartDispatch, EndDispatch,
           EmitEntry, EndEmit, FlushEntry, EndFlush, LeaveLoop, EndClosing,
           Restart, Crash, Signal, Tick, StepBack
  <2> QED
    BY <2>1, <2>2
<1> QED
  BY <1>1, InvCorrect, PTL DEF Spec, FinalIsLast
=============================================================================
