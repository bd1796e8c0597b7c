\* Two workers, one permit (the default), one synchronous request; tokens that live
\* for ever, for longer than the margin, and for less.
CONSTANTS
  Callers = {w1, w2, r1}
  Workers = {w1, w2}
  ParallelSempConnections = 1
  Lifetimes = {0, 1, 4}
  MaxLifetime = 4
  Margin = 2
  FetchTimeout = 1
  None = None
SPECIFICATION SystemSpec
INVARIANTS SystemTypeOK BearerOutlastsRequest WorkersHoldPermits
PROPERTIES NoNeedlessFetch EveryRequestGoesOut PermitsGoRound
