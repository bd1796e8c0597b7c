\* A tick is about six seconds; the cap of the backoff and the timeout of a call
\* are scaled down.  A lease shorter than the shortest sleep, one that survives
\* no failed renewal, one that survives one and one that survives two.
CONSTANTS
  Leases = {1, 20, 42, 56}
  MaxLease = 56
  BaseDelay = 5
  MaxDelay = 15
  MinSlack = 2
  Fallback = 10
  CallTimeout = 2
  None = None
SPECIFICATION Spec
INVARIANTS TypeOK NeverRunsTokenless TokenSurvives
PROPERTIES CallsGoOn
