SPECIFICATION AdmissionSpec
CONSTANTS
  r1 = r1
  r2 = r2
  Requests = {r1, r2}
  NoVersion = NoVersion
  MaxMerges = 3
  Identifiers <- InstanceIdentifiers
  Numerals <- InstanceNumerals
  Value <- InstanceValue
  TextOrder <- InstanceOrder
  Versions <- InstanceVersions
SYMMETRY Symmetric
INVARIANTS
  VersionsIncrease
