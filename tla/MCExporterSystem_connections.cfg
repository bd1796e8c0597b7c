\* One worker, one permit, one synchronous request.
CONSTANTS
  Callers = {w1, r1}
  Workers = {w1}
  ParallelSempConnections = 1
  Lifetimes = {3}
  MaxLifetime = 3
  Margin = 2
  FetchTimeout = 1
  None = None
SPECIFICATION SystemSafetySpec
INVARIANTS ConnectionsBounded
