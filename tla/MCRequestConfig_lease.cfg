\* A configuration that refers to a dynamic secret.
CONSTANTS
  Requests = {r1, r2}
  Configurations <- JustRefs
  Overrides <- NoOverrides
  Versions = {v1, v2, v3}
  Kinds = {"dynamic"}
  Filled <- SecretFields
  Blank = {}
  Backends = {"hashicorp"}
  Ref = Ref
  Configured = Configured
  Empty = Empty
  None = None
SPECIFICATION SafetySpec
PROPERTY CredentialsValid
CHECK_DEADLOCK FALSE
