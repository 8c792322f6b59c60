SPECIFICATION Spec
CONSTANTS
  f1 = f1
  f2 = f2
  p1 = p1
  p2 = p2
  Flows = {f1, f2}
  Tcp = {f1}
  PortFirst = {}
  Unlisted = {f1}
  Names = {0}
  Procs = {p1, p2}
  NoOwner = NoOwner
  MaxFlows = 2
  InitialCap = 1
  MinuteLen = 2
  MinuteFlush = 2
  StreamFlush = 2
  Batch = 2
  AllocFails = FALSE
  StartTime = 1
  MaxNow = 5
  QuietAt = 4
  MaxPackets = 3
  MaxExits = 0
  MaxCrashes = 1
  MaxStepBacks = 0
SYMMETRY ProcSymmetry
INVARIANT SingleFinal
INVARIANT OneIdentity
INVARIANT OneConnection
PROPERTY FinalIsLast
PROPERTY ImplementsLedger
