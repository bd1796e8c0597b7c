\* Requests that give references to a dynamic secret.
CONSTANTS
  Requests = {r1, r2}
  Configurations <- JustBasic
  Overrides <- OnlyRefs
  Versions = {v1, v2, v3}
  Kinds = {"dynamic"}
  Filled <- SecretFields
  Blank = {}
  Backends = {"hashicorp"}
  Ref = Ref
  Configured = Configured
  Empty = Empty
  None = None
SPECIFICATION SafetySpec
INVARIANT CredentialsMatch
CHECK_DEADLOCK FALSE
