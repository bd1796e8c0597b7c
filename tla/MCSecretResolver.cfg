\* Three callers, a secret that may be cached for two ticks or not at all, reads
\* of up to one tick.
CONSTANTS
  Callers = {c1, c2, c3}
  Ttls = {0, 2}
  MaxTtl = 2
  FetchTimeout = 1
  None = None
SPECIFICATION Spec
INVARIANTS TypeOK LeaseRespected ErrorsAreTheBackends
PROPERTIES EveryResolveEnds
