--------------------------- MODULE FlowRecordProofs ---------------------------
(***************************************************************************)
(* Proofs about what the records of FlowTable say besides packets: one      *)
(* connection, one process.                                                 *)
(***************************************************************************)
EXTENDS FlowTableProofs, FiniteSetTheorems

-----------------------------------------------------------------------------
(* Connections *)

LEMMA EffectiveType ==
  ASSUME NEW e \in Entry
  PROVE  Effective(e) \in {0, 1}
  BY DEF Effective, Entry

LEMMA ConnectionStep ==
  ASSUME IInv, OneConnection, [Next]_vars
  PROVE  OneConnection'
<1>1. finals \in [Slots -> Nat] /\ finConns \in [Slots -> Nat]
  BY DEF IInv, TypeOK, RecordTypes
<1>2. CASE UNCHANGED <<finals, finConns>>
  BY <1>2 DEF OneConnection
<1>3. CASE FlushEntry
  <2> DEFINE e == entries[readIdx]
  <2>1. e \in Entry /\ (EmitFinal(e) \/ UNCHANGED outVars)
    BY <1>3, FlushEffect DEF IInv
  <2>2. e.slot \in Slots /\ Effective(e) \in {0, 1}
    BY <2>1, EffectiveType DEF Entry
  <2> HIDE DEF e
  <2>3. CASE EmitFinal(e)
    BY <1>1, <2>2, <2>3 DEF EmitFinal, OneConnection
  <2>4. CASE UNCHANGED outVars
    BY <1>2, <2>4 DEF outVars
  <2> QED
    BY <2>1, <2>3, <2>4
<1>4. CASE ~ FlushEntry
  <2>1. UNCHANGED <<finals, finConns>>
    BY <1>4
       DEF Next, vars, outVars, SomePacket, Packet, StartDispatch, EndDispatch,
           EmitEntry, EndEmit, EndFlush, LeaveLoop, EndClosing, Restart, Crash,
           Signal, Tick, StepBack, timeless
  <2> QED
    BY <1>2, <2>1
<1> QED
  BY <1>3, <1>4

\* The final records of a slot report at most one connection each, however often
\* the SYN is repeated, and also where the connection is credited to an attributed
\* flow whose SYN was not captured.  On a clock that runs forward, and as long as
\* the agent is not stopped gracefully, they report at most one in all, however
\* often it is killed and its entries are made anew.
THEOREM ConnectionCorrect ==
  Spec => [](/\ OneConnection
             /\ stepBacks = 0 /\ exits = 0 => \A s \in Slots : finConns[s] <= 1)
<1>1. Init => OneConnection
  BY DEF Init, OneConnection
<1>2. IInv /\ OneConnection /\ [Next]_vars => OneConnection'
  BY ConnectionStep
<1>3. IInv /\ OneConnection =>
        (stepBacks = 0 /\ exits = 0 => \A s \in Slots : finConns[s] <= 1)
  <2> SUFFICES ASSUME IInv, OneConnection, stepBacks = 0, exits = 0, NEW s \in Slots
               PROVE  finConns[s] <= 1
    OBVIOUS
  <2>1. finals[s] \in Nat /\ finConns[s] \in Nat
    BY DEF IInv, TypeOK, RecordTypes
  <2>2. finals[s] <= 1 /\ finConns[s] <= finals[s]
    BY DEF IInv, SingleFinal, OneConnection
  <2> QED
    BY <2>1, <2>2
<1> QED
  BY <1>1, <1>2, <1>3, InvCorrect, PTL DEF Spec

-----------------------------------------------------------------------------
(* Processes *)

\* An entry that stands in the array after a step stands for one that stood
\* there before, and names what that one named.
Continues(a, L, b, M) ==
  \A i \in M : \E j \in L : /\ b[i].slot = a[j].slot
                            /\ NamedBy(a[j]) \subseteq NamedBy(b[i])

LEMMA UpdateContinues ==
  ASSUME TableTypes, IndexOK, pc = "dispatch",
         NEW s \in Slots, NEW p \in Owners, NEW conn \in {0, 1},
         NEW named \in {0, 1}, Update(s, p, conn, named),
         UNCHANGED <<readIdx, writeIdx>>
  PROVE  Continues(entries, Live, entries', Live')
<1>1. PICK i \in 1 .. Len(entries) :
        /\ entries[i].slot = s
        /\ entries' = [entries EXCEPT ![i] = Merged(entries[i], p, conn, named)]
  BY DEF Update
<1>2. /\ Len(entries) \in Nat
      /\ \A j \in 1 .. Len(entries) : entries[j] \in Entry
      /\ Live = 1 .. Len(entries)
  BY LivePositions
<1>3. /\ Merged(entries[i], p, conn, named) \in Entry
      /\ Merged(entries[i], p, conn, named).slot = entries[i].slot
  BY <1>1, <1>2, MergedType
<1>4. NamedBy(entries[i]) \subseteq NamedBy(Merged(entries[i], p, conn, named))
  BY DEF NamedBy, Merged, Learned
<1>5. /\ Len(entries') = Len(entries)
      /\ \A j \in 1 .. Len(entries) :
           entries'[j] = IF j = i THEN Merged(entries[i], p, conn, named)
                                  ELSE entries[j]
  BY <1>1, <1>3, ExceptSeq DEF TableTypes
<1>6. Live' = Live
  BY <1>5 DEF Live
<1>7. \A j \in Live : /\ entries'[j].slot = entries[j].slot
                      /\ NamedBy(entries[j]) \subseteq NamedBy(entries'[j])
  BY <1>2, <1>3, <1>4, <1>5
<1> QED
  BY <1>6, <1>7 DEF Continues

LEMMA EmitContinues ==
  ASSUME TypeOK, IndexOK, EmitEntry
  PROVE  Continues(entries, Live, entries', Live')
<1>1. /\ Len(entries) \in Nat
      /\ \A j \in 1 .. Len(entries) : entries[j] \in Entry
      /\ Live = 1 .. Len(entries)
  BY LivePositions DEF TypeOK, EmitEntry
<1>2. idx \in 1 .. Len(entries) /\ loopNow \in Nat
  BY <1>1, BoundsAssumption DEF TypeOK, LoopTypes, EmitEntry
<1>3. /\ Emitted(entries[idx]) \in Entry
      /\ Emitted(entries[idx]).slot = entries[idx].slot
      /\ NamedBy(Emitted(entries[idx])) = NamedBy(entries[idx])
  BY <1>1, <1>2, EmittedType DEF NamedBy, Emitted
<1>4. /\ Len(entries') = Len(entries)
      /\ \A j \in 1 .. Len(entries) :
           /\ entries'[j].slot = entries[j].slot
           /\ NamedBy(entries'[j]) = NamedBy(entries[j])
  <2>1. CASE UNCHANGED entries
    BY <2>1
  <2>2. CASE entries' = [entries EXCEPT ![idx] = Emitted(entries[idx])]
    <3>1. /\ Len(entries') = Len(entries)
          /\ \A j \in 1 .. Len(entries) :
               entries'[j] = IF j = idx THEN Emitted(entries[idx])
                                        ELSE entries[j]
      BY <1>2, <1>3, <2>2, ExceptSeq DEF TypeOK, TableTypes
    <3> QED
      BY <1>3, <3>1
  <2> QED
    BY <2>1, <2>2 DEF EmitEntry
<1>5. Live' = Live
  BY <1>4 DEF EmitEntry, Live, flushVars
<1> QED
  BY <1>1, <1>4, <1>5 DEF Continues

LEMMA FlushContinues ==
  ASSUME TypeOK, IndexOK, FlushEntry
  PROVE  Continues(entries, Live, entries', Live')
<1>1. /\ Len(entries) \in Nat
      /\ \A j \in 1 .. Len(entries) : entries[j] \in Entry
  BY LivePositions DEF TypeOK
<1>2. /\ readIdx \in 1 .. Len(entries) /\ writeIdx \in 1 .. Len(entries)
      /\ writeIdx <= readIdx /\ readIdx' = readIdx + 1
      /\ readIdx \in Live
  BY <1>1 DEF FlushEntry, TypeOK, TableTypes, IndexOK, Live
<1>3. CASE UNCHANGED <<entries, writeIdx>>
  <2>1. Live' \subseteq Live
    BY <1>2, <1>3 DEF Live
  <2> QED
    BY <1>3, <2>1 DEF Continues
<1>4. CASE /\ entries' = [entries EXCEPT ![writeIdx] = entries[readIdx]]
           /\ writeIdx' = writeIdx + 1
  <2>1. /\ Len(entries') = Len(entries)
        /\ \A j \in 1 .. Len(entries) :
             entries'[j] = IF j = writeIdx THEN entries[readIdx] ELSE entries[j]
    BY <1>1, <1>2, <1>4, ExceptSeq DEF TypeOK, TableTypes
  <2>2. Live' \subseteq Live \union {writeIdx} /\ Live' \subseteq 1 .. Len(entries)
    BY <1>1, <1>2, <1>4, <2>1 DEF Live
  <2>3. \A j \in Live' : entries'[j] = entries[readIdx]
                           \/ (j \in Live /\ entries'[j] = entries[j])
    BY <2>1, <2>2
  <2> QED
    BY <1>2, <2>3 DEF Continues
<1> QED
  BY <1>3, <1>4 DEF FlushEntry

LEMMA CutContinues ==
  ASSUME TypeOK, IndexOK, EndFlush
  PROVE  Continues(entries, Live, entries', Live')
<1>1. /\ Len(entries) \in Nat
      /\ \A j \in 1 .. Len(entries) : entries[j] \in Entry
  BY LivePositions DEF TypeOK
<1>2. Live = 1 .. writeIdx - 1 /\ writeIdx - 1 \in Nat
  BY <1>1 DEF TypeOK, TableTypes, IndexOK, EndFlush, Live
<1>3. \A j \in 1 .. writeIdx - 1 : entries[j] \in Entry
  BY <1>1, <1>2 DEF Live
<1>4. /\ Len(entries') = writeIdx - 1
      /\ \A j \in 1 .. writeIdx - 1 : entries'[j] = entries[j]
  BY <1>2, <1>3, SubSeqProperties DEF EndFlush, Kept
<1>5. Live' = Live
  BY <1>2, <1>4 DEF EndFlush, Live
<1> QED
  BY <1>2, <1>4, <1>5 DEF Continues
\* Where nothing is published, an array that continues the one before names no
\* less than the records do.
LEMMA ContinuesNames ==
  ASSUME \A i \in Live : idents[entries[i].slot] \subseteq NamedBy(entries[i]),
         Continues(entries, Live, entries', Live')
  PROVE  \A i \in Live' : idents[entries'[i].slot] \subseteq NamedBy(entries'[i])
  BY DEF Continues

\* An entry names at most one process, and it counts packets.
LEMMA LiveEntry ==
  ASSUME IInv, NEW i \in Live
  PROVE  /\ entries[i] \in Entry /\ entries[i].slot \in Slots
         /\ Held(entries[i].slot) = entries[i].packets
         /\ Held(entries[i].slot) # 0
         /\ \E p \in Owners : NamedBy(entries[i]) \subseteq {p}
<1>1. entries[i] \in Entry
  BY LivePositions DEF IInv, TypeOK
<1>2. Held(entries[i].slot) = entries[i].packets
  BY HeldAt DEF IInv, UniqueSlots, Held
<1> QED
  BY <1>1, <1>2 DEF Entry, NamedBy

LEMMA OwnerStep ==
  ASSUME IInv, SoleOwner, [Next]_vars
  PROVE  SoleOwner'
<1> SUFFICES ASSUME stepBacks' = 0, exits' = 0, crashes' = 0
             PROVE  /\ \A i \in Live' :
                         idents'[entries'[i].slot] \subseteq NamedBy(entries'[i])
                    /\ \A s \in Slots :
                         Held(s)' = 0 /\ finals'[s] = 0 => idents'[s] = {}
                    /\ \A s \in Slots : \E p \in Owners : idents'[s] \subseteq {p}
  BY DEF SoleOwner, NamedBy
<1>0. stepBacks = 0 /\ exits = 0 /\ crashes = 0
  BY FaultsGrow DEF IInv
<1>1. /\ \A i \in Live : idents[entries[i].slot] \subseteq NamedBy(entries[i])
      /\ \A s \in Slots : Held(s) = 0 /\ finals[s] = 0 => idents[s] = {}
      /\ \A s \in Slots : \E p \in Owners : idents[s] \subseteq {p}
  BY <1>0 DEF SoleOwner
<1>2. /\ finals \in [Slots -> Nat] /\ idents \in [Slots -> SUBSET Procs]
      /\ \A s \in Slots : Held(s) \in Nat
      /\ TypeOK /\ IndexOK /\ UniqueSlots /\ TableTypes
  BY HeldType DEF IInv, TypeOK, RecordTypes
<1>3. CASE Quiet /\ ~ EmitEntry
  <2>1. /\ UNCHANGED <<finals, idents>>
        /\ \A s \in Slots : Held(s)' = Held(s)
    <3>1. UNCHANGED <<finals, idents>>
      BY <1>3
         DEF Quiet, StartDispatch, EndDispatch, EndEmit, EndFlush, LeaveLoop,
             Restart, Signal, Tick, StepBack, timeless, vars, outVars
    <3> QED
      BY <1>2, <1>3, <3>1, QuietEffect
  <2>2. Continues(entries, Live, entries', Live')
    <3>1. CASE EndFlush
      BY <1>2, <3>1, CutContinues
    <3>2. CASE ~ EndFlush
      <4>1. UNCHANGED <<entries, readIdx, writeIdx>>
        BY <1>3, <3>2
           DEF Quiet, StartDispatch, EndDispatch, EndEmit, BeginFlush, LeaveLoop,
               Restart, Signal, Tick, StepBack, vars, timeless, tableVars,
               flushVars
      <4> QED
        BY <4>1 DEF Continues, Live
    <3> QED
      BY <3>1, <3>2
  <2>3. \A i \in Live' : idents[entries'[i].slot] \subseteq NamedBy(entries'[i])
    BY <1>1, <2>2, ContinuesNames
  <2> QED
    BY <1>1, <2>1, <2>3
<1>4. CASE EmitEntry
  <2> DEFINE e == entries[idx]
  <2>1. /\ Continues(entries, Live, entries', Live')
        /\ \A s \in Slots : Held(s)' = Held(s)
        /\ finals' = finals
    BY <1>2, <1>4, EmitContinues, EmitEffect DEF EmitEntry
  <2>2. idx \in Live
    BY <1>2, <1>4, LivePositions DEF EmitEntry, TypeOK, LoopTypes
  <2>3. /\ e.slot \in Slots /\ Held(e.slot) # 0
        /\ \E p \in Owners : NamedBy(e) \subseteq {p}
    BY <2>2, LiveEntry
  <2>4. idents' \in {idents, [idents EXCEPT ![e.slot] = @ \union NamedBy(e)]}
    BY <1>4 DEF EmitEntry
  <2>5. idents[e.slot] \subseteq NamedBy(e)
    BY <1>1, <2>2
  <2>6. \A s \in Slots : idents'[s] = idents[s]
                           \/ (s = e.slot /\ idents'[s] = NamedBy(e))
    BY <1>2, <2>3, <2>4, <2>5
  <2>7. \A i \in Live' : idents'[entries'[i].slot] \subseteq NamedBy(entries'[i])
    <3> SUFFICES ASSUME NEW i \in Live'
                 PROVE  idents'[entries'[i].slot] \subseteq NamedBy(entries'[i])
      OBVIOUS
    <3>1. PICK j \in Live : /\ entries'[i].slot = entries[j].slot
                            /\ NamedBy(entries[j]) \subseteq NamedBy(entries'[i])
      BY <2>1 DEF Continues
    <3>2. entries[j].slot \in Slots
      BY LiveEntry
    <3>3. CASE entries[j].slot = e.slot
      <4>1. j = idx
        BY <1>2, <2>2, <3>3 DEF UniqueSlots, UniqueIn
      <4> QED
        BY <1>1, <2>6, <3>1, <3>2, <4>1
    <3>4. CASE entries[j].slot # e.slot
      BY <1>1, <2>6, <3>1, <3>2, <3>4
    <3> QED
      BY <3>3, <3>4
  <2> HIDE DEF e
  <2> QED
    BY <1>1, <2>1, <2>3, <2>6, <2>7
<1>5. CASE FlushEntry
  <2> DEFINE e == entries[readIdx]
  <2>1. Continues(entries, Live, entries', Live')
    BY <1>2, <1>5, FlushContinues
  <2>2. readIdx \in Live
    BY <1>2, <1>5, LivePositions DEF FlushEntry, TableTypes, Live
  <2>3. /\ e.slot \in Slots /\ Held(e.slot) # 0
        /\ \E p \in Owners : NamedBy(e) \subseteq {p}
    BY <2>2, LiveEntry
  <2>4. idents[e.slot] \subseteq NamedBy(e)
    BY <1>1, <2>2
  <2>5. \/ /\ EmitFinal(e)
           /\ UNCHANGED <<entries, writeIdx>>
           /\ \A s \in Slots : Held(s)' = IF s = e.slot THEN 0 ELSE Held(s)
        \/ /\ UNCHANGED outVars
           /\ \A s \in Slots : Held(s)' = Held(s)
    BY <1>2, <1>5, FlushEffect DEF FlushEntry
  <2>6. CASE UNCHANGED outVars /\ \A s \in Slots : Held(s)' = Held(s)
    <3>1. UNCHANGED <<idents, finals>>
      BY <2>6 DEF outVars
    <3>2. \A i \in Live' : idents[entries'[i].slot] \subseteq NamedBy(entries'[i])
      BY <1>1, <2>1, ContinuesNames
    <3> QED
      BY <1>1, <2>6, <3>1, <3>2
  <2>7. CASE /\ EmitFinal(e)
             /\ UNCHANGED <<entries, writeIdx>>
             /\ \A s \in Slots : Held(s)' = IF s = e.slot THEN 0 ELSE Held(s)
    <3>1. Live' \subseteq Live \ {readIdx}
      BY <1>2, <1>5, <2>7 DEF FlushEntry, Live, TableTypes, IndexOK
    <3>2. \A i \in Live' : entries[i].slot # e.slot /\ entries[i].slot \in Slots
      BY <1>2, <2>2, <3>1, LiveEntry DEF UniqueSlots, UniqueIn
    <3>3. /\ idents' = [idents EXCEPT ![e.slot] = @ \union NamedBy(e)]
          /\ finals' = [finals EXCEPT ![e.slot] = @ + 1]
      BY <2>7 DEF EmitFinal
    <3>4. \A s \in Slots :
            /\ idents'[s] = IF s = e.slot THEN NamedBy(e) ELSE idents[s]
            /\ finals'[s] = IF s = e.slot THEN finals[s] + 1 ELSE finals[s]
      BY <1>2, <2>3, <2>4, <3>3
    <3>5. \A i \in Live' : idents'[entries'[i].slot] \subseteq NamedBy(entries'[i])
      BY <1>1, <2>7, <3>1, <3>2, <3>4
    <3> HIDE DEF e
    <3> QED
      BY <1>1, <1>2, <2>3, <2>7, <3>4, <3>5
  <2> QED
    BY <2>5, <2>6, <2>7
<1>6. CASE SomePacket
  <2>1. PICK f \in Flows, p \in Owners, conn \in {0, 1}, named \in Names :
          Packet(f, p, conn, named)
    BY <1>6 DEF SomePacket
  <2>now. now \in Nat /\ Minute(now) \in Minutes
    BY MinuteInMinutes, BoundsAssumption DEF IInv, TypeOK, LoopTypes
  <2>2. PICK t \in Slots : t = <<f, Minute(now)>>
    BY <2>now DEF Slots
  <2>3. /\ Touch(t, p, conn, named) /\ named \in {0, 1}
        /\ UNCHANGED <<readIdx, writeIdx, finals, idents>>
        /\ pc = "dispatch"
    BY <2>1, <2>2, SetsAssumption DEF Packet, outVars, flushVars
  <2>4. /\ \A r \in Slots \ {t} : Held(r)' = Held(r)
        /\ Held(t)' = 0 => Held(t) = 0
    BY <1>2, <2>1, <2>2, PacketEffect
  <2>5. CASE Update(t, p, conn, named) \/ Refuse(t)
    <3>1. Continues(entries, Live, entries', Live')
      <4>1. CASE Update(t, p, conn, named)
        BY <1>2, <2>3, <4>1, UpdateContinues
      <4>2. CASE Refuse(t)
        BY <2>3, <4>2 DEF Refuse, tableVars, Continues, Live
      <4> QED
        BY <2>5, <4>1, <4>2
    <3>2. \A i \in Live' : idents[entries'[i].slot] \subseteq NamedBy(entries'[i])
      BY <1>1, <3>1, ContinuesNames
    <3> QED
      BY <1>1, <2>3, <2>4, <3>2
  <2>6. CASE Insert(t, p, conn, named)
    <3>1. readIdx = 1 /\ Len(entries) \in Nat /\ Live = 1 .. Len(entries)
      BY <1>2, <2>3, LivePositions DEF IndexOK
    <3>2. Held(t) = 0
      BY <1>2, <2>3, <2>6, <3>1, InsertEffect
    <3>3. finals[t] = 0
      <4>1. finals[t] > 0 => t[2] < Minute(now)
        BY <1>0 DEF IInv, ClosedInPast
      <4>2. Minute(now) \in Nat /\ t[2] = Minute(now)
        BY <2>2, MinuteBounds, BoundsAssumption DEF IInv, TypeOK, LoopTypes
      <4> QED
        BY <1>2, <4>1, <4>2
    <3>4. idents[t] = {}
      BY <1>1, <3>2, <3>3
    <3>5. /\ Len(entries') = Len(entries) + 1
          /\ \A j \in 1 .. Len(entries) : entries'[j] = entries[j]
          /\ entries'[Len(entries) + 1].slot = t
      BY <1>2, <2>3, <2>6, <3>1, FreshType, AppendProperties
         DEF Insert, TableTypes
    <3>6. \A i \in Live' : \/ i \in Live /\ entries'[i] = entries[i]
                           \/ entries'[i].slot = t
      BY <3>1, <3>5 DEF Live
    <3>7. \A i \in Live' : idents[entries'[i].slot] \subseteq NamedBy(entries'[i])
      BY <1>1, <3>4, <3>6
    <3> QED
      BY <1>1, <2>3, <2>4, <3>7
  <2> QED
    BY <2>3, <2>5, <2>6 DEF Touch
<1>7. CASE EndClosing \/ Crash
  <2>1. ~ EndClosing
    BY <1>0 DEF EndClosing, IInv, ClosedInPast
  <2>2. ~ Crash
    BY <1>0 DEF Crash
  <2> QED
    BY <1>7, <2>1, <2>2
<1> QED
  BY <1>3, <1>4, <1>5, <1>6, <1>7, StepKinds

LEMMA OwnerInit == Init => SoleOwner
<1> SUFFICES ASSUME Init PROVE SoleOwner
  OBVIOUS
<1>1. Live = {} /\ \A s \in Slots : idents[s] = {}
  BY DEF Init, Live
<1> QED
  BY <1>1 DEF SoleOwner, Owners

\* While no second run of the agent counts the slot and the clock runs forward,
\* the updates and the final record of a slot never name two processes; and what
\* they have named is what the live entry still names, so that an attribution that
\* comes late fills a gap and replaces nothing.
THEOREM IdentityCorrect == Spec => [](OneIdentity /\ SoleOwner)
<1>1. IInv /\ SoleOwner /\ [Next]_vars => SoleOwner'
  BY OwnerStep
<1>2. SoleOwner => OneIdentity
  <2> SUFFICES ASSUME NEW S, NEW p, S \subseteq {p}
               PROVE  Cardinality(S) <= 1
    BY DEF SoleOwner, OneIdentity
  <2>1. S = {} \/ S = {p}
    OBVIOUS
  <2> QED
    <3>1. Cardinality({}) = 0 /\ Cardinality({p}) = 1
      BY FS_EmptySet, FS_Singleton
    <3> QED
      BY <2>1, <3>1
<1> QED
  BY <1>1, <1>2, OwnerInit, InvCorrect, PTL DEF Spec
=============================================================================
