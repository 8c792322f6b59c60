SPECIFICATION Spec
CONSTANTS
  MaxRecords = 3
  MaxDay = 0
  MaxIndex = 0
  MaxInodes = 1
  MaxSize = 0
  Torn = FALSE
  MaxAgentKills = 0
  MaxOpenFails = 0
  BatchLines = 1
  MaxBatches = 2
  MaxRetries = 1
  DeleteSent = FALSE
  TruncateSent = TRUE
  MaxRefusals = 0
  MaxLostAcks = 0
  MaxUpKills = 1
  RetentionDays = 7
  MaxArchives = 0
PROPERTY ResumesWhereItStopped
