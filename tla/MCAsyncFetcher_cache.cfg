CONSTANTS
  Absent = Absent
  Fetchers = {f1}
  Names = {n1, n2}
  Values <- TwoValues
  ParallelSempConnections = 1
  CapMetricChan = 2
  MetricCacheChunkSize = 2
  Cancellable = FALSE
SPECIFICATION Spec
INVARIANTS
  TypeOK
  CacheIsLastScrape
PROPERTIES
  NoGap
  ImplementsPrefetchCache
