SPECIFICATION Spec
CONSTANTS
  a1 = a1
  con = con
  f1 = f1
  plain = plain
  dense = dense
  big = big
  bad = bad
  Addons = {a1, con}
  Reserved = {con}
  Files = {f1}
  Contents = {plain, dense, big, bad}
  Clean = {plain, dense, big}
  Manifests = {plain, dense}
  Size <- MCSize
  Packed <- MCPacked
  MaxEntry = 4
  MaxTotal = 4
  MaxEntries = 3
  MaxArchive = 4
  MaxRatio = 2
  Received <- MCReceived
  None = None
  MaxJob = 1
  MaxSessions = 1
  MaxWrites = 1
  MaxFaults = 2
INVARIANTS
  StagingIsTheArchive
PROPERTIES
  ExportsAreImportable
  ExportsAreComplete
CHECK_DEADLOCK FALSE
