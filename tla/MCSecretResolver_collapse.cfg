\* Two callers of the same reference.
CONSTANTS
  Callers = {c1, c2}
  Ttls = {0, 2}
  MaxTtl = 2
  FetchTimeout = 1
  None = None
SPECIFICATION SafetySpec
INVARIANT ResolvesCollapsed
