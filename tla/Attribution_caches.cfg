SPECIFICATION Spec
CONSTANTS
  c1 = c1
  c2 = c2
  e1 = e1
  e2 = e2
  p1 = p1
  p2 = p2
  w = w
  WorkerPid = w
  Ends = {e1, e2}
  Convs = {c1}
  Probed = {c1}
  Listed = {c1}
  Pids = {p1, p2}
  MaxProcs = 2
  MaxGone = 4
  ConnectTtl = 1
  DatapathTtl = 0
  UseDatapath = TRUE
  FullAt = {0}
  RingSize = 1
  MaxEvents = 2
  ResolverTtl = 1
  Refresh = 1
  PidTtl = 1
  PidSlots = {{p1, p2}}
  MaxLag = 1
SYMMETRY HostSymmetry
INVARIANT TypeOK
INVARIANT HintsAreLatest
INVARIANT PartiesAreRecent
INVARIANT NamesAreRecent
