\* An endpoint that issues tokens without expires_in.
CONSTANTS
  Callers = {r1, r2}
  Workers = {}
  ParallelSempConnections = 1
  Lifetimes = {0}
  MaxLifetime = 3
  Margin = 1
  FetchTimeout = 1
  None = None
SPECIFICATION SystemSafetySpec
PROPERTY TokensAreReused
