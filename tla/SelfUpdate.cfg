SPECIFICATION Spec
CONSTANTS
  v0 = v0
  v1 = v1
  v2 = v2
  Versions = {v0, v1, v2}
  Shipped = v0
  NoFile = NoFile
  Garbage = Garbage
  Prefixes <- SomePrefixes
  MaxFaults = 1
INVARIANTS
  VersionsInUseWhole
  StrandedOnlyIfCutShort
PROPERTIES
  PromisedVersionRuns
