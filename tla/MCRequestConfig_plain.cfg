\* A configuration with references, and no backend.
CONSTANTS
  Requests = {r1, r2}
  Configurations <- JustRefs
  Overrides <- NoOverrides
  Versions = {v1, v2, v3}
  Kinds = {"static"}
  Filled <- SecretFields
  Blank = {}
  Backends = {"none"}
  Ref = Ref
  Configured = Configured
  Empty = Empty
  None = None
SPECIFICATION SafetySpec
INVARIANT PlainWithoutBackend
CHECK_DEADLOCK FALSE
