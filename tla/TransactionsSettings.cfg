SPECIFICATION Spec
CONSTANTS
  a1 = a1
  a2 = a2
  v1 = v1
  v2 = v2
  f1 = f1
  f2 = f2
  Addons = {a1}
  Versions = {v1}
  Foreign = Foreign
  Files = {f1}
  Contents <- MCOneFile
  Unmanaged = {f1}
  Operations = {"install", "restore"}
  NoDir = NoDir
  NoJournal = NoJournal
  NoJob = NoJob
  MaxJob = 2
  MaxBoots = 3
  MaxFaults = 1
  MaxTree = 3
INVARIANTS
  RecoveryComplete
PROPERTIES
  SettingsLostOnlyTwoWays
CHECK_DEADLOCK FALSE
