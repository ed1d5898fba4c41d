SPECIFICATION Spec
CONSTANTS
  Operations = {"fetchRepository", "uninstall", "install", "restoreProfileSettings", "inspectCatalogProfile"}
  MaxJob = 2
  NoJob = NoJob
INVARIANTS
  DiskAccessSerialized
  EarlyCancelHonoured
  ResultsTruthful
  ReleaseNeverWaitsForWork
  NoOrphanedWorker
PROPERTIES
  EveryResultSeen
CHECK_DEADLOCK FALSE
