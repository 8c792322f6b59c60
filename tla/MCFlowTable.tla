----------------------------- MODULE MCFlowTable -----------------------------
(* FlowTable on small instances: the flows, the minutes and the periods are   *)
(* just large enough for slots to meet at the table's bound, for entries of   *)
(* two minutes to be compacted together, and for updates to be rate limited.  *)
EXTENDS FlowTable, TLC

CONSTANTS f1, f2, p1, p2

\* Processes are compared for equality only.
ProcSymmetry == Permutations(Procs)
=============================================================================
