SPECIFICATION MCSpec
CONSTANTS
  c1 = c1
  c2 = c2
  bad = bad
  aud1 = aud1
  aud2 = aud2
  unknown = unknown
  Campaigns = {c1, c2, bad}
  Valid = {c1, c2}
  Audiences = {aud1, aud2}
  Targets <- MCTargets
  AudienceIDs <- MCAudienceIDs
  Handlers = {h1, h2}
  Tables = {t1, t2}
  Buffers = {b1, b2}
  MaxRunID = 2
  NoObject = NoObject
  maxEntriesPerRequest = 10
  maxEntrySize = 7
  maxRequestSize = 26
  entryMetadataSize = 2
  partitionKeySize = 1
  Sizes = {1, 2, 4, 5}
  Lookups = {l1, l2}
  QueryObjects = {o1, o2}
  Rows <- MCRows
  MaxPeriod = 2
  MaxDay = 2
  None = None
  Configs <- MCConfigs
  Default <- MCDefault
  putManyBatchLimit = 2
  MaxRuns = 2
  maxDatabaseDeviceID = 50
INVARIANT SignerIsCurrent
CHECK_DEADLOCK FALSE
