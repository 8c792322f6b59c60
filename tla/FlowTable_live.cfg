SPECIFICATION FairSpec
CONSTANTS
  f1 = f1
  f2 = f2
  p1 = p1
  p2 = p2
  Flows = {f1}
  Tcp = {}
  PortFirst = {}
  Unlisted = {}
  Names = {0}
  Procs = {}
  NoOwner = NoOwner
  MaxFlows = 2
  InitialCap = 1
  MinuteLen = 2
  MinuteFlush = 2
  StreamFlush = 1
  Batch = 2
  AllocFails = FALSE
  StartTime = 1
  MaxNow = 6
  QuietAt = 2
  MaxPackets = 2
  MaxExits = 1
  MaxCrashes = 1
  MaxStepBacks = 1
PROPERTY EveryCountCloses
PROPERTY StopEnds
