SPECIFICATION Spec
CONSTANTS
  a1 = a1
  a2 = a2
  v1 = v1
  v2 = v2
  f1 = f1
  f2 = f2
  Addons = {a1, a2}
  Versions = {v1, v2}
  Foreign = Foreign
  Files = {f1, f2}
  Contents <- MCContents
  Unmanaged = {f2}
  Operations = {"install", "uninstall"}
  NoDir = NoDir
  NoJournal = NoJournal
  NoJob = NoJob
  MaxJob = 2
  MaxBoots = 2
  MaxFaults = 1
  MaxTree = 0
SYMMETRY Symmetric
INVARIANTS
  AddonsWhole
PROPERTIES
  SingleFailureRollsBack
  ImplementsAddonStore
CHECK_DEADLOCK FALSE
