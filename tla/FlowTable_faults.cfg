SPECIFICATION Spec
CONSTANTS
  f1 = f1
  f2 = f2
  p1 = p1
  p2 = p2
  Flows = {f1, f2}
  Tcp = {}
  PortFirst = {}
  Unlisted = {}
  Names = {0}
  Procs = {}
  NoOwner = NoOwner
  MaxFlows = 2
  InitialCap = 3
  MinuteLen = 2
  MinuteFlush = 2
  StreamFlush = 1
  Batch = 2
  AllocFails = TRUE
  StartTime = 1
  MaxNow = 4
  QuietAt = 3
  MaxPackets = 3
  MaxExits = 1
  MaxCrashes = 1
  MaxStepBacks = 1
INVARIANT TypeOK
INVARIANT UniqueSlots
INVARIANT Conservation
INVARIANT UpdatesBounded
INVARIANT NothingLostOnExit
