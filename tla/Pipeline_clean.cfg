SPECIFICATION Spec
CONSTANTS
  MaxRecords = 3
  MaxDay = 1
  MaxIndex = 1
  MaxInodes = 2
  MaxSize = 4
  Torn = FALSE
  MaxAgentKills = 0
  MaxOpenFails = 0
  BatchLines = 1
  MaxBatches = 1
  MaxRetries = 1
  DeleteSent = TRUE
  TruncateSent = TRUE
  MaxRefusals = 0
  MaxLostAcks = 0
  MaxUpKills = 0
  RetentionDays = 1
  MaxArchives = 2
INVARIANT LostOnlyInRace
INVARIANT OnceWithoutFaults
INVARIANT ChunksBounded
INVARIANT ArchivesKept
