SPECIFICATION FairSpec
CONSTANTS
  MaxRecords = 2
  MaxDay = 0
  MaxIndex = 1
  MaxInodes = 2
  MaxSize = 2
  Torn = TRUE
  MaxAgentKills = 1
  MaxOpenFails = 1
  BatchLines = 1
  MaxBatches = 1
  MaxRetries = 2
  DeleteSent = FALSE
  TruncateSent = FALSE
  MaxRefusals = 2
  MaxLostAcks = 1
  MaxUpKills = 1
  RetentionDays = 7
  MaxArchives = 0
INVARIANT TypeOK
INVARIANT OffsetMeansStored
PROPERTY EveryRecordArrives
