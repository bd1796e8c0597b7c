\* Two or three data sources of every mixture of kinds, one series with two
\* values, a channel of capacity 2.
CONSTANTS
  Requests <- PairsAndTriples
  Metrics <- TwoMetrics
  Errors = {"broken"}
  CapMetricChan = 2
  NoReply = NoReply
SPECIFICATION Spec
INVARIANTS TypeOK UpIsTruthful OnlyUnreachableStops
PROPERTIES ImplementsScrape EveryScrapeEnds
