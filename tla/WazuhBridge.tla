------------------------------ MODULE WazuhBridge ------------------------------
(***************************************************************************)
(* if_flow_wazuh_bridge.py: polls ClickHouse for final records after a      *)
(* cursor, and appends alerts for those that match a rule to a file.  The   *)
(* cursor moves in memory, then the alerts are appended, then the cursor is *)
(* saved; each of the three may fail, and a kill may come in between.       *)
(***************************************************************************)
EXTENDS Integers, Sequences, FiniteSets

CONSTANTS
  Traffic,          \* records that may be stored, but for their minute
  BatchRows,        \* IF_FLOW_WAZUH_BATCH_ROWS
  BootstrapMinutes, \* IF_FLOW_WAZUH_BOOTSTRAP_MINUTES
  BytesThreshold, DbClasses, SensitiveClasses, RoutingClasses, LargeDirections,
  MinuteLen,        \* clock readings in a minute (60)
  MaxRows, MaxNow, MaxFaults  \* bounds

ASSUME BridgeAssumption ==
  /\ \A t \in Traffic : t.flow \in Nat /\ t.final \in BOOLEAN /\ t.bytes \in Nat
                        /\ t.noSyn \in BOOLEAN
  /\ BatchRows \in Nat \ {0}
  /\ BootstrapMinutes \in Nat
  /\ MinuteLen \in Nat \ {0}
  /\ MaxRows \in Nat /\ MaxNow \in Nat /\ MaxFaults \in Nat

VARIABLES
  now,      \* the clock, in seconds
  table,    \* records in ClickHouse, in the order they were stored
  bpc,      \* what the bridge is at
  once,     \* --once
  cursor,   \* state["cursor"]
  saved,    \* the cursor of the state file
  emitted,  \* alerts of the batch
  file,     \* lines of the alert file: alerts, or Garbage
  torn,     \* the file ends within a line
  faults,   \* exceptions and kills
  behind,   \* history: records that were stored when the cursor had passed them
  dropped,  \* history: alerts the loop did not get to the file
  oldest,   \* history: the last cutoff of a query without a cursor
  repeats   \* history: ends of the process with a cursor that was not saved

stateVars == <<cursor, saved>>
fileVars == <<file, torn>>
history == <<behind, dropped, oldest, repeats>>
vars == <<now, table, bpc, once, stateVars, emitted, fileVars, faults, history>>

None == <<>>
Garbage == [row |-> 0, rule |-> 0]
Ids == 1 .. Len(table)
Final(r) == table[r].rec.final

\* (minute_ts, host, src_ip, ... proto): the minute, and all the rest as one
\* number.  sql: the comparison of tuples.
Place(r) == <<table[r].minute, table[r].rec.flow>>
\* (Mutants: rows of one minute do not differ; a tuple comes after itself.)
AfterMinute(t, u) == t[1] > u[1]
AfterOrSame(t, u) == t[1] > u[1] \/ (t[1] = u[1] /\ t[2] >= u[2])
After(t, u) == t[1] > u[1] \/ (t[1] = u[1] /\ t[2] > u[2])

Bootstrap == BootstrapMinutes * MinuteLen

Init ==
  /\ now = 0
  /\ table = <<>>
  /\ bpc = "off"
  /\ once = FALSE
  /\ cursor = None /\ saved = None
  /\ emitted = <<>>
  /\ file = <<>> /\ torn = FALSE
  /\ faults = 0
  /\ behind = {} /\ dropped = {} /\ oldest = -Bootstrap /\ repeats = 0

Tick ==
  /\ now < MaxNow
  /\ now' = now + 1
  /\ UNCHANGED <<table, bpc, once, stateVars, emitted, fileVars, faults, history>>

\* The uploader stores a record, in any order.  Its minute_ts is the start of the
\* minute, which need not be over: an agent that exits closes the open one.
MinutesBegun == {m \in 0 .. now : m % MinuteLen = 0}
Arrive ==
  /\ Len(table) < MaxRows
  /\ \E t \in Traffic, m \in MinutesBegun :
       /\ table' = Append(table, [minute |-> m, rec |-> t])
       /\ behind' = IF cursor # None /\ ~ After(<<m, t.flow>>, cursor)
                      THEN behind \union {Len(table')} ELSE behind
  /\ UNCHANGED <<now, bpc, once, stateVars, emitted, fileVars, faults, dropped, oldest, repeats>>

-----------------------------------------------------------------------------
(* The program *)

\* matches_rule: which of its rules a record matches, in their order.
Rules(rec) ==
  <<rec.class \in DbClasses, rec.class \in SensitiveClasses, rec.class \in RoutingClasses,
    rec.noSyn, rec.bytes >= BytesThreshold /\ rec.direction \in LargeDirections>>
RuleNumbers == 1 .. 5
Matched(r) == {u \in RuleNumbers : Rules(table[r].rec)[u]}
Alerts(r) == {[row |-> r, rule |-> u] : u \in Matched(r)}

\* main, load_state.
Start ==
  /\ bpc = "off"
  /\ bpc' = "select"
  /\ once' \in BOOLEAN
  /\ cursor' = saved
  /\ UNCHANGED <<now, table, saved, emitted, fileVars, faults, history>>

\* The WHERE of build_query.
Cutoff == now - Bootstrap
Selected ==
  {r \in Ids : Final(r) /\ (IF cursor = None THEN table[r].minute >= Cutoff
                                  ELSE After(Place(r), cursor))}

\* Its ORDER BY and LIMIT; rows with one tuple come in any order.
Batches ==
  LET n == IF Cardinality(Selected) < BatchRows THEN Cardinality(Selected) ELSE BatchRows
  IN  {b \in [1 .. n -> Selected] :
         /\ \A i, j \in 1 .. n : i < j => b[i] # b[j] /\ ~ After(Place(b[i]), Place(b[j]))
         /\ \A r \in Selected \ {b[i] : i \in 1 .. n}, i \in 1 .. n :
              ~ After(Place(b[i]), Place(r))}

\* The alerts of a batch, row by row and rule by rule.
BatchAlerts(b) == UNION {Alerts(b[i]) : i \in DOMAIN b}
Precedes(b, x, y) ==
  \E i, j \in DOMAIN b :
    /\ b[i] = x.row /\ b[j] = y.row
    /\ i < j \/ (i = j /\ x.rule < y.rule)
Emissions(b) ==
  LET n == Cardinality(BatchAlerts(b))
  IN  {e \in [1 .. n -> BatchAlerts(b)] :
         \A i, j \in 1 .. n : i < j => Precedes(b, e[i], e[j])}

\* run_once up to the append: the cursor has moved with the last row.
\* (Mutants: the cursor keeps the minute only; it is saved at once.)
CursorMinute(b) == IF b = <<>> THEN cursor ELSE <<table[b[Len(b)]].minute, 0>>
CursorOf(b) == IF b = <<>> THEN cursor ELSE Place(b[Len(b)])
SelectAndSave ==
  /\ bpc = "select"
  /\ \E b \in Batches :
       /\ emitted' \in Emissions(b)
       /\ cursor' = CursorOf(b)
       /\ saved' = CursorOf(b)
  /\ oldest' = IF cursor = None THEN Cutoff ELSE oldest
  /\ bpc' = "append"
  /\ UNCHANGED <<now, table, once, fileVars, faults, behind, dropped, repeats>>
Select ==
  /\ bpc = "select"
  /\ \E b \in Batches :
       /\ emitted' \in Emissions(b)
       /\ cursor' = CursorOf(b)
  /\ oldest' = IF cursor = None THEN Cutoff ELSE oldest
  /\ bpc' = "append"
  /\ UNCHANGED <<now, table, once, saved, fileVars, faults, behind, dropped, repeats>>

\* n of the lines reach the file; what follows half a line is part of it.
Written(n) ==
  file' = file \o [i \in 1 .. n |-> IF i = 1 /\ torn THEN Garbage ELSE emitted[i]]
Unwritten(n) == {emitted[i] : i \in n + 1 .. Len(emitted)}
Glued(n) == IF torn /\ n > 0 THEN {emitted[1]} ELSE {}

\* append_alerts.  A closed file ends with a line.
AppendAlerts ==
  /\ bpc = "append"
  /\ Written(Len(emitted))
  /\ torn' = (torn /\ emitted = <<>>)
  /\ dropped' = dropped \union Glued(Len(emitted))
  /\ emitted' = <<>>
  /\ bpc' = "save"
  /\ UNCHANGED <<now, table, once, stateVars, faults, behind, oldest, repeats>>

\* save_state writes another file and renames it.  With --once that is all.
Save ==
  /\ bpc = "save"
  /\ saved' = cursor
  /\ bpc' = IF once THEN "off" ELSE "select"
  /\ UNCHANGED <<now, table, once, cursor, emitted, fileVars, faults, history>>

\* What an exception comes to.  The loop goes on with the state it has; with
\* --once the process ends.
Ends == repeats' = IF cursor # saved THEN repeats + 1 ELSE repeats
GoesOn == IF once THEN bpc' = "off" /\ Ends ELSE bpc' = "select" /\ UNCHANGED repeats

Error ==
  /\ faults < MaxFaults
  /\ faults' = faults + 1
  /\ GoesOn
  /\ emitted' = <<>>

QueryFails ==
  /\ bpc = "select"
  /\ Error
  /\ UNCHANGED <<now, table, once, stateVars, fileVars, behind, dropped, oldest>>

\* The disk is full after n lines, perhaps within the next one.
PartlyAppended(n) ==
  /\ n < Len(emitted)
  /\ Written(n)
  /\ \/ torn' = (torn /\ n = 0)
     \/ torn' = TRUE

AppendFails ==
  /\ bpc = "append"
  /\ Error
  /\ \E n \in 0 .. Len(emitted) :
       /\ PartlyAppended(n)
       /\ dropped' = IF once THEN dropped ELSE dropped \union Unwritten(n) \union Glued(n)
  /\ UNCHANGED <<now, table, once, stateVars, behind, oldest>>

SaveFails ==
  /\ bpc = "save"
  /\ Error
  /\ UNCHANGED <<now, table, once, stateVars, fileVars, behind, dropped, oldest>>

\* A kill, at any point; in the append it may leave part of the lines.
Kill ==
  /\ bpc # "off"
  /\ faults < MaxFaults
  /\ faults' = faults + 1
  /\ bpc' = "off"
  /\ Ends
  /\ \/ UNCHANGED fileVars
     \/ bpc = "append" /\ \E n \in 0 .. Len(emitted) : PartlyAppended(n)
  /\ emitted' = <<>>
  /\ UNCHANGED <<now, table, once, stateVars, behind, dropped, oldest>>

Run == Start \/ Select \/ AppendAlerts \/ Save
Next ==
  \/ Tick
  \/ Arrive
  \/ Run
  \/ QueryFails
  \/ AppendFails
  \/ SaveFails
  \/ Kill

Spec == Init /\ [][Next]_vars

\* A bridge that runs makes its next step: the loop polls again after poll_sec.
\* Nothing says that one that has ended is started again.
FairSpec == Spec /\ WF_vars(Select \/ AppendAlerts \/ Save)

-----------------------------------------------------------------------------
(* Properties *)

Rows == [minute : 0 .. MaxNow, rec : Traffic]
Places == {Place(r) : r \in Ids}
AllAlerts == UNION {Alerts(r) : r \in Ids}
TypeOK ==
  /\ now \in 0 .. MaxNow
  /\ table \in Seq(Rows) /\ Len(table) <= MaxRows
  /\ bpc \in {"off", "select", "append", "save"}
  /\ once \in BOOLEAN /\ torn \in BOOLEAN
  /\ cursor \in Places \union {None} /\ saved \in Places \union {None}
  /\ emitted \in Seq(AllAlerts)
  /\ file \in Seq(AllAlerts \union {Garbage})
  /\ faults \in 0 .. MaxFaults
  /\ behind \subseteq Ids /\ dropped \subseteq AllAlerts
  /\ oldest \in Int /\ repeats \in Nat

\* Records the order of the tuples hides: those that came late, those of the
\* time before the first query, those that share their tuple with another one.
Hidden(r) ==
  \/ r \in behind
  \/ table[r].minute < oldest
  \/ \E s \in Ids \ {r} : Final(s) /\ Place(s) = Place(r)

Due == {r \in Ids : Final(r) /\ ~ Hidden(r)}
Line(a) == \E i \in DOMAIN file : file[i] = a
Pending(a) == \E i \in DOMAIN emitted : emitted[i] = a

\* Once the cursor has passed a final record, in memory, or on disk where a
\* kill or --once goes back to it, its alerts are in the file, or about to be,
\* unless an append failed under the loop.
PassedIsAlerted ==
  \A r \in Due : \A a \in Alerts(r) \ dropped :
    /\ cursor # None /\ ~ After(Place(r), cursor) /\ bpc # "off" => Line(a) \/ Pending(a)
    /\ saved # None /\ ~ After(Place(r), saved) => Line(a)

Times(a) == Cardinality({i \in DOMAIN file : file[i] = a})

\* An alert is not given again but for an end of the process that came between
\* the move of the cursor and its save, and no more often than that.
RepeatsAreRestarts ==
  \A r \in Ids : \A a \in Alerts(r) :
    /\ Final(r) => Times(a) <= 1 + repeats
    /\ ~ Final(r) => ~ Line(a)

\* A bridge that goes on running, or is run once and again, gives every alert in
\* the end, whatever failed meanwhile: but for those the loop dropped, and those
\* of records that the order of the tuples hides.
EveryAlertIsGiven ==
  []<>(bpc # "off") => \A r \in 1 .. MaxRows :
    r \in Ids ~> (r \notin Due \/ \A a \in Alerts(r) : Line(a) \/ a \in dropped)

-----------------------------------------------------------------------------
(* What makes them inductive *)

\* There are alerts to append in the append only.
NothingHeld == bpc # "append" => emitted = <<>>

\* The saved cursor is never ahead of the one in memory, and the clock never
\* behind the first queries.
CursorsInOrder ==
  /\ saved # None => cursor # None /\ ~ After(saved, cursor)
  /\ oldest <= Cutoff

\* What is about to be given is of final records that the cursor has passed,
\* each alert once; what was given is of final records too.
GivenIsFinal ==
  /\ \A i \in DOMAIN emitted :
       /\ Final(emitted[i].row)
       /\ cursor # None /\ ~ After(Place(emitted[i].row), cursor)
  /\ \A i, j \in DOMAIN emitted : emitted[i] = emitted[j] => i = j
  /\ \A i \in DOMAIN file : file[i] # Garbage => Final(file[i].row)

\* Alerts of a record that will be selected again were given no more often than
\* the process ended unsaved; one that is about to be given is not counted yet.
Ahead(r, c) == c = None \/ After(Place(r), c)
GivenAsRestarted ==
  \A r \in Ids : \A a \in Alerts(r) :
    /\ Times(a) <= 1 + repeats
    /\ Ahead(r, cursor) \/ Pending(a) => Times(a) <= repeats
    /\ bpc = "off" /\ Ahead(r, saved) => Times(a) <= repeats

IInv ==
  /\ TypeOK
  /\ NothingHeld
  /\ CursorsInOrder
  /\ GivenIsFinal
  /\ PassedIsAlerted
  /\ GivenAsRestarted
=============================================================================
