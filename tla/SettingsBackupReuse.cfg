SPECIFICATION Spec
CONSTANTS
  a1 = a1
  a2 = a2
  v1 = v1
  v2 = v2
  f1 = f1
  f2 = f2
  Addons = {a1}
  Versions = {v1, v2}
  Foreign = Foreign
  Files = {f1, f2}
  Contents <- MCContents
  Unmanaged = {f2}
  Operations = {"restore"}
  NoDir = NoDir
  NoJournal = NoJournal
  NoJob = NoJob
  MaxJob = 2
  MaxBoots = 2
  MaxFaults = 0
  MaxTree = 4
INVARIANTS
  SettingsRecoverable
CHECK_DEADLOCK FALSE
