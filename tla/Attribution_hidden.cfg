SPECIFICATION Spec
CONSTANTS
  c1 = c1
  c2 = c2
  e1 = e1
  e2 = e2
  p1 = p1
  p2 = p2
  w = w
  WorkerPid = w
  Ends = {e1, e2}
  Convs = {c1, c2}
  Probed = {}
  Listed = {c1, c2}
  Pids = {p1, p2}
  MaxProcs = 2
  MaxGone = 0
  ConnectTtl = 0
  DatapathTtl = 0
  UseDatapath = FALSE
  FullAt = {}
  RingSize = 0
  MaxEvents = 0
  ResolverTtl = 1
  Refresh = 1
  PidTtl = 0
  PidSlots = {{p1, p2}}
  MaxLag = 0
INVARIANT RecentAnswersAreServed
