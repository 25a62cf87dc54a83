SPECIFICATION MCSpec
CONSTANTS
  Handlers = {h1, h2}
  Objects = {o1, o2}
  Requests <- MCRequests
  Campaigns = {camp}
  ConfigVersion = "2.5"
  TimeoutStatus = 504
  MaxRequests = 2
  BufferSize = 1
  maxDatabaseDeviceID = 50
  None = None
  s1 = s1
  s2 = s2
  ScanWorkers = {s1, s2}
  Pages <- MCPages
  NoWorker = NoWorker
  Codes = {0, 200, 204}
  Buckets <- MCBuckets
  Workers = {w1, w2}
  Builders = {b1, b2}
  Answers <- MCAnswers
  Failures = {"targeter", "worker"}
  MaxHits = 2
  Nobody = Nobody
  Pods = {p1, p2}
  PodResults <- MCPodResults
  Now = 100
INVARIANT BodyIsOwn
CHECK_DEADLOCK FALSE
