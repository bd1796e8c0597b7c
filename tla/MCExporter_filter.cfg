\* Every scrape target alone, with and without the suffix V1.
CONSTANTS
  Requests <- SingleSources
  Metrics <- TwoMetrics
  Errors = {"broken"}
  CapMetricChan = 2
  NoReply = NoReply
SPECIFICATION SafetySpec
INVARIANT ItemFilterHonoured
