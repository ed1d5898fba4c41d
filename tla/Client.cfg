SPECIFICATION Spec
CONSTANTS
  a1 = a1
  a2 = a2
  Order <- MCOrder
  None = None
  Sessions <- MCSessions
  MaxImports = 1
  MaxClicks = 3
  MaxChat = 1
INVARIANTS
  TypeOK
  RecordsMatchDisk
  QueuedWasUnloaded
PROPERTIES
  ReplacedOnlyByTransferControls
  OneAddonAtATime
  StartupEnds
  ImportEnds
