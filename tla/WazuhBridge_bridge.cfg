SPECIFICATION FairSpec
CONSTANTS
  Traffic <- SomeTraffic
  BatchRows = 2
  BootstrapMinutes = 0
  BytesThreshold = 2
  DbClasses = {"postgres"}
  SensitiveClasses = {}
  RoutingClasses = {}
  LargeDirections = {"out"}
  MaxRows = 3
  MinuteLen = 2
  MaxNow = 2
  MaxFaults = 1
INVARIANT TypeOK
INVARIANT PassedIsAlerted
INVARIANT RepeatsAreRestarts
PROPERTY EveryAlertIsGiven
