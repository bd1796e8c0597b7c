CONSTANTS
  Absent = Absent
  Fetchers = {f1, f2, f3}
  Names = {n1}
  Values <- OneValue
  ParallelSempConnections = 2
  CapMetricChan = 1
  MetricCacheChunkSize = 1
  Cancellable = TRUE
SPECIFICATION Spec
INVARIANTS
  ConnectionsBounded
  PermitsAccounted
  QueueConsistent
PROPERTIES
  RefreshedForever
  CancelStopsAll
