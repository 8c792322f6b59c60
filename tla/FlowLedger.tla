------------------------------ MODULE FlowLedger ------------------------------
(***************************************************************************)
(* What the agent's accounting promises whoever reads its records, with no  *)
(* word about arrays, scans or flush periods: every packet of a slot (a     *)
(* flow in a minute) is held, turned away, reported by a final record, or   *)
(* lost with the process, and a final record reports all that was held.     *)
(* FlowTable implements it.                                                 *)
(***************************************************************************)
EXTENDS Naturals

CONSTANTS
  Slots,
  Reopen   \* TRUE iff a slot may be counted again after its final record

VARIABLES
  seen,        \* packets of the slot
  held,        \* those in memory, not finally reported
  dropped,     \* those turned away
  lost,        \* those that vanished with the process
  updPackets,  \* what the slot's latest update record reports
  finals,      \* the slot's final records
  finPackets   \* and what they report in total

ledgerVars == <<seen, held, dropped, lost, updPackets, finals, finPackets>>

LedgerInit ==
  /\ seen = [s \in Slots |-> 0]
  /\ held = [s \in Slots |-> 0]
  /\ dropped = [s \in Slots |-> 0]
  /\ lost = [s \in Slots |-> 0]
  /\ updPackets = [s \in Slots |-> 0]
  /\ finals = [s \in Slots |-> 0]
  /\ finPackets = [s \in Slots |-> 0]

MayCount(s) == finals[s] = 0 \/ Reopen

Count(s) ==
  /\ MayCount(s)
  /\ seen' = [seen EXCEPT ![s] = @ + 1]
  /\ held' = [held EXCEPT ![s] = @ + 1]
  /\ UNCHANGED <<dropped, lost, updPackets, finals, finPackets>>

\* Only a slot that nothing is held for is turned away.
TurnAway(s) ==
  /\ MayCount(s)
  /\ held[s] = 0
  /\ seen' = [seen EXCEPT ![s] = @ + 1]
  /\ dropped' = [dropped EXCEPT ![s] = @ + 1]
  /\ UNCHANGED <<held, lost, updPackets, finals, finPackets>>

Publish(s) ==
  /\ held[s] > 0
  /\ updPackets' = [updPackets EXCEPT ![s] = held[s]]
  /\ UNCHANGED <<seen, held, dropped, lost, finals, finPackets>>

Close(s) ==
  /\ held[s] > 0
  /\ finals' = [finals EXCEPT ![s] = @ + 1]
  /\ finPackets' = [finPackets EXCEPT ![s] = @ + held[s]]
  /\ held' = [held EXCEPT ![s] = 0]
  /\ UNCHANGED <<seen, dropped, lost, updPackets>>

Lose ==
  /\ lost' = [s \in Slots |-> lost[s] + held[s]]
  /\ held' = [s \in Slots |-> 0]
  /\ UNCHANGED <<seen, dropped, updPackets, finals, finPackets>>

LedgerNext ==
  \/ \E s \in Slots : Count(s) \/ TurnAway(s) \/ Publish(s) \/ Close(s)
  \/ Lose

LedgerSpec == LedgerInit /\ [][LedgerNext]_ledgerVars
=============================================================================
