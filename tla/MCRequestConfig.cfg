\* Two requests; a static or a dynamic secret of which two versions can be told
\* apart at a time.
CONSTANTS
  Requests = {r1, r2}
  Configurations <- MCConfigurations
  Overrides <- MCOverrides
  Versions = {v1, v2}
  Kinds = {"static", "dynamic"}
  Filled <- MCFilled
  Blank <- MCBlank
  Backends = {"none", "hashicorp"}
  Ref = Ref
  Configured = Configured
  Empty = Empty
  None = None
SPECIFICATION Spec
INVARIANTS ServesComplete OwnConfiguration NoReferenceSent
PROPERTY RotationHeals
CHECK_DEADLOCK FALSE
