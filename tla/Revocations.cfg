SPECIFICATION Spec
CONSTANTS
  a1 = a1
  a2 = a2
  d1 = d1
  d2 = d2
  Addons = {a1, a2}
  Digests = {d1, d2}
  Repositories = {"builtin", "custom"}
  Builtin = "builtin"
  None = None
  MaxPublish = 2
  MaxSessions = 1
SYMMETRY Symmetric
INVARIANTS
  RecordTellsTheDisk
PROPERTIES
  LoadsRevokedOnlyUnrecognised
